----------------------------- MODULE SplitSerial -----------------------------
(***************************************************************************)
(* Cec_GiaSplitTest2: &splitprove with one process, the default.  One call *)
(* for one output; the parts that ran out of time are kept on a stack.     *)
(***************************************************************************)
EXTENDS Cofactors, Sequences

CONSTANT NIterMax   \* -I, 0 is no limit

ASSUME SerialAssumption == NIterMax \in Nat

\* The output of this call
Output == 0

VARIABLES
  pc,        \* "whole", "pop", "first", "second", "finish", "done"
  vStack,    \* undecided parts
  pLast,     \* the part being split, <<>> when there is none
  iVar,      \* the input it is split on, <<>> when there is none
  nIter,
  Progress,
  pCexComb,  \* the counter-example as a set, empty when there is none
  RetValue

vars == <<pc, vStack, pLast, iVar, nIter, Progress, pCexComb, RetValue>>

Init ==
  /\ pc = "whole" /\ vStack = <<>> /\ pLast = <<>> /\ iVar = <<>>
  /\ nIter = 0 /\ Progress = 0 /\ pCexComb = {} /\ RetValue = "undec"

\* The problem is tried without cofactoring
SolveWhole ==
  /\ pc = "whole"
  /\ \E r \in Results(Output, Whole) :
       /\ RetValue' = r
       /\ pc' = IF r = "undec" THEN "pop" ELSE "done"
       /\ vStack' = IF r = "undec" THEN <<Whole>> ELSE <<>>
       /\ IF r = "sat" THEN \E a \in DeriveModels(Output, Whole) : pCexComb' = {a}
                       ELSE UNCHANGED pCexComb
  /\ UNCHANGED <<pLast, iVar, nIter, Progress>>

\* The last part is taken, with any input it still depends on: which one is best
\* is a heuristic (Gia_SplitCofVar)
Pop ==
  /\ pc = "pop" /\ vStack # <<>>
  /\ pLast' = vStack[Len(vStack)]
  /\ vStack' = SubSeq(vStack, 1, Len(vStack) - 1)
  /\ iVar' \in Free(pLast'.cof)
  /\ nIter' = nIter + 1
  /\ pc' = "first"
  /\ UNCHANGED <<Progress, pCexComb, RetValue>>

\* A mutant of Second: both cofactors are of input value 0
SecondSame == Cofactor(pLast, iVar, FALSE, <<iVar, TRUE>>)

First  == Cofactor(pLast, iVar, FALSE, <<iVar, FALSE>>)
Second == Cofactor(pLast, iVar, TRUE, <<iVar, TRUE>>)

\* A mutant of Advance: the depth of the part that was split
AdvanceLast(part) == Progress' = Progress + Share(Depth(part) - 1)

Advance(part) == Progress' = Progress + Share(Depth(part))

\* A mutant of Model: recorded literals do not overwrite what the solver found
ModelOfSolver(part) == {a \ {iVar} : a \in SatsIn(Output, part.cof)}

Model(part) == DeriveModels(Output, part)

\* A cofactor is solved, then the loop goes on to the location next
SolvePart(part, next) ==
  \/ /\ "sat" \in Results(Output, part)
     /\ \E a \in Model(part) : pCexComb' = {a}
     /\ RetValue' = "sat" /\ pc' = "finish"
     /\ UNCHANGED <<vStack, Progress>>
  \/ /\ "unsat" \in Results(Output, part)
     /\ Advance(part)
     /\ pc' = next
     /\ UNCHANGED <<vStack, pCexComb, RetValue>>
  \/ /\ "undec" \in Results(Output, part)
     /\ vStack' = Append(vStack, part)
     /\ pc' = next
     /\ UNCHANGED <<Progress, pCexComb, RetValue>>

SolveFirst ==
  /\ pc = "first"
  /\ SolvePart(First, "second")
  /\ UNCHANGED <<pLast, iVar, nIter>>

SolveSecond ==
  /\ pc = "second"
  /\ SolvePart(Second, IF NIterMax # 0 /\ nIter >= NIterMax THEN "finish" ELSE "pop")
  /\ pLast' = <<>> /\ iVar' = <<>>
  /\ UNCHANGED nIter

\* Line 509 takes an empty stack for a proof, however the loop was left
Finish ==
  /\ pc = "finish" \/ (pc = "pop" /\ vStack = <<>>)
  /\ RetValue' = IF vStack = <<>> THEN "unsat" ELSE RetValue
  /\ vStack' = <<>> /\ pLast' = <<>> /\ iVar' = <<>>
  /\ pc' = "done"
  /\ UNCHANGED <<nIter, Progress, pCexComb>>

Returned == pc = "done" /\ UNCHANGED vars

Next == SolveWhole \/ Pop \/ SolveFirst \/ SolveSecond \/ Finish \/ Returned

Spec == Init /\ [][Next]_vars /\ WF_vars(Next)

-----------------------------------------------------------------------------
(* Properties *)

\* The parts not decided yet
OpenParts ==
  {vStack[j] : j \in DOMAIN vStack}
    \cup (IF pc = "first" THEN {First} ELSE {})
    \cup (IF pc \in {"first", "second"} THEN {Second} ELSE {})
    \cup (IF pc = "whole" THEN {Whole} ELSE {})

\* Nothing is lost: an assignment that sets the output to 1 lies in a part that
\* is still to be solved, until such an assignment is found
SerialCovered ==
  (pc # "done" /\ pCexComb = {}) =>
    \A a \in Sats[Output] : \E part \in OpenParts : a \in SatsIn(Output, part.cof)

\* The progress printed is the share of the input space the refuted parts have,
\* and with the open parts it adds up to all of it
SerialProgress ==
  (pc # "done" /\ pCexComb = {}) => Progress + TotalShare(OpenParts) = Share(0)

\* "combinational counter-example" (gia.h:149): what is left in pCexComb sets the
\* output to 1
SerialCexReal == pCexComb \subseteq Sats[Output]

\* "proves CEC problem by case-splitting" (the usage of &splitprove,
\* abc.c:46815): what is reported as proved is
SerialUnsatRight == (pc = "done" /\ RetValue = "unsat") => Sats[Output] = {}
==============================================================================
