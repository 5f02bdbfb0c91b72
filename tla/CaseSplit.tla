------------------------------ MODULE CaseSplit ------------------------------
(***************************************************************************)
(* Proof by case splitting, as a caller of Cec_GiaSplitTestInt may think   *)
(* of it: a set of open cases that is split and refuted until an answer is *)
(* given, for one output after the other.                                  *)
(***************************************************************************)
EXTENDS Cofactors

VARIABLES
  out,      \* the output being solved
  open,     \* the open cases, sets of literals
  answer    \* "running", or what was returned for out

splitVars == <<out, open, answer>>

Init == out = 0 /\ open = {{}} /\ answer = "running"

Split ==
  /\ answer = "running"
  /\ \E c \in open : \E v \in Free(c) :
       open' = (open \ {c}) \cup {c \cup {<<v, FALSE>>}, c \cup {<<v, TRUE>>}}
  /\ UNCHANGED <<out, answer>>

Refute ==
  /\ answer = "running"
  /\ \E c \in open : SatsIn(out, c) = {} /\ open' = open \ {c}
  /\ UNCHANGED <<out, answer>>

Answer ==
  /\ answer = "running"
  /\ \/ answer' = "unsat" /\ \A c \in open : SatsIn(out, c) = {}
     \/ answer' = "sat" /\ \E c \in open : SatsIn(out, c) # {}
     \/ answer' = "undec"
  /\ open' = {}
  /\ UNCHANGED out

NextOutput ==
  /\ answer # "running" /\ out + 1 \in Outs
  /\ out' = out + 1 /\ open' = {{}} /\ answer' = "running"

Next == Split \/ Refute \/ Answer \/ NextOutput

Spec == Init /\ [][Next]_splitVars

-----------------------------------------------------------------------------
TypeOK ==
  /\ out \in Outs /\ open \subseteq SUBSET Lits
  /\ answer \in {"running", "sat", "unsat", "undec"}

\* While no answer is given, every failing assignment lies in an open case
Covered ==
  answer = "running" => \A a \in Sats[out] : \E c \in open : a \in SatsIn(out, c)

\* The answers are right
AnswersRight ==
  /\ answer = "unsat" => Sats[out] = {}
  /\ answer = "sat" => Sats[out] # {}
==============================================================================
