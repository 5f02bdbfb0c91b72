------------------------------ MODULE Verdicts ------------------------------
(***************************************************************************)
(* What Pdr_ManSolve promises to its caller (Abc_NtkDarPdr, the frame's    *)
(* Status and vPoStatuses): answers about the outputs of the circuit are   *)
(* given once, a failing output can be asserted, a proved one cannot, and  *)
(* the overall result agrees with the circuit.  How the answers are found  *)
(* is left open, and so is giving up.                                      *)
(***************************************************************************)
EXTENDS Circuit

CONSTANT SolveAll   \* `pdr -a': answer every output, not just the first failure

VARIABLES
  status,           \* per output: the entry of vOutMap
  result            \* the value Pdr_ManSolve returns, or "running"

absVars == <<status, result>>

Init ==
  /\ status \in [Outs -> {"unknown", "proved"}]
  /\ \A o \in Outs : status[o] = "proved" => ~Violable(o)
  /\ result = "running"

(***************************************************************************)
(* Some unknown outputs are answered; with the last answers a result is    *)
(* returned and, with -a, nothing is left unknown.                         *)
(***************************************************************************)
Answer(o) ==
  \/ status'[o] = status[o]
  \/ /\ status[o] = "unknown"
     /\ \/ status'[o] = "failed" /\ Violable(o)
        \/ status'[o] = "proved" /\ ~Violable(o)
        \/ status'[o] = "undecided"

Result ==
  \/ result' = "running"
  \/ /\ SolveAll => \A o \in Outs : status'[o] # "unknown"
     /\ \/ result' = "unsat" /\ \A o \in Outs : ~Violable(o)
        \/ result' = "sat" /\ \E o \in Outs : Violable(o)
        \/ result' = "undecided"

Next ==
  /\ result = "running"
  /\ status' \in [Outs -> {"unknown", "failed", "proved", "undecided"}]
  /\ \A o \in Outs : Answer(o)
  /\ Result

Spec == Init /\ [][Next]_absVars
==============================================================================
