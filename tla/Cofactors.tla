------------------------------ MODULE Cofactors ------------------------------
(***************************************************************************)
(* The parts a combinational miter is split into by &splitprove            *)
(* (src/proof/cec/cecSplit.c).  An output of the miter is the set of       *)
(* assignments that set it to 1; a part is the miter with some of its      *)
(* primary inputs replaced by constants (Gia_ManDupCofactorVar).           *)
(***************************************************************************)
EXTENDS Integers, FiniteSetsExt

CONSTANTS
  Pis,     \* the primary inputs
  NOuts,   \* Gia_ManPoNum: the outputs, solved one after another
  Sats     \* Sats[o]: the assignments, sets of inputs that are 1, that set o to 1

Outs == 0 .. NOuts - 1

ASSUME CofactorsAssumption ==
  /\ IsFiniteSet(Pis)
  /\ NOuts \in Nat \ {0}
  /\ Sats \in [Outs -> SUBSET SUBSET Pis]

\* <<v, b>> says that input v is b
Lits == Pis \X BOOLEAN

Free(c) == Pis \ {l[1] : l \in c}

\* The assignments that set o to 1 within the cofactor of the literals c
SatsIn(o, c) == {a \in Sats[o] : \A l \in c : l[2] = (l[1] \in a)}

(***************************************************************************)
(* A part: the literals it really is the cofactor of, and the ones that    *)
(* vCofVars records.  The two differ only where the code records a wrong   *)
(* literal.                                                                *)
(***************************************************************************)
Part(c, rec) == [cof |-> c, vCofVars |-> rec]
Whole == Part({}, {})

\* A part cofactored with respect to v, recording the literal rec
Cofactor(part, v, b, rec) == Part(part.cof \cup {<<v, b>>}, part.vCofVars \cup {rec})

Depth(part) == Cardinality(part.vCofVars)

\* Cnf_GiaSolveOne: only the time limit of -T keeps the solver from an answer, and
\* not when no input is left
Results(o, part) ==
  {r \in {"sat", "unsat", "undec"} :
     /\ r = "sat" => SatsIn(o, part.cof) # {}
     /\ r = "unsat" => SatsIn(o, part.cof) = {}
     /\ r = "undec" => Free(part.cof) # {}}

\* Cec_SplitDeriveModel: the recorded literals overwrite what the solver found
DeriveModels(o, part) ==
  {(a \cap Free(part.vCofVars)) \cup {l[1] : l \in {x \in part.vCofVars : x[2]}} :
     a \in SatsIn(o, part.cof)}

\* Progress counts in units of the deepest part, 2^-|Pis|
Share(depth) == 2 ^ (Cardinality(Pis) - depth)
TotalShare(parts) == MapThenSumSet(LAMBDA part : Share(Depth(part)), parts)
==============================================================================
