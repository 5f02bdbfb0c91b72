------------------------------ MODULE GlaProofs ------------------------------
(***************************************************************************)
(* Proofs about Gla, for every set of objects, outputs and designs.        *)
(***************************************************************************)
EXTENDS Gla, FiniteSetTheorems, WellFoundedInduction, TLAPS

NonConst == Outs \ (Const0 \cup Const1)
Solving == pc \notin {"output", "done"}
AfterSolve == pc \in {"check", "clear", "extend", "forget", "create", "next"}

\* An output that is worked on is no constant
OutputInv == (Solving => iOut \in NonConst) /\ \A q \in provers : q.out \in NonConst

\* The stored abstraction is the one a timeframe began with, or the new one
ClassesInv ==
  /\ pc \in {"frame", "forget", "create", "next"} => vGateClasses = vAbs
  /\ pc \in {"solve", "check", "clear", "extend"} =>
       /\ vGateClasses = absOld /\ absOld \subseteq vAbs
       /\ ~refined => vAbs = absOld
       /\ refined => iFrameTryToProve = -1

\* Run numbers; when none is being proved all provers are cancelled
RunInv ==
  /\ \A q \in provers : q.RunId <= g_nRunIds
  /\ iFrameTryToProve = -1 \/ pc \in {"output", "done", "forget", "create"} =>
       \A q \in provers : q.RunId < g_nRunIds
  /\ NewestProver

TypeInv == TypeOK /\ OutputInv

\* No failure up to timeframe n under a, but in those -S leaves out
Clean(a, n) == \A t \in (0 .. n) \ Unchecked : t \notin FailsIn(a)

\* What was found of the timeframes
CleanInv ==
  /\ pc = "restart" => Clean(vGateClasses, iFrameProved)
  /\ pc = "frame" => Clean(vAbs, iFrameProved) /\ Clean(vAbs, f - 1)
  /\ pc = "solve" => Clean(absOld, iFrameProved) /\ Clean(absOld, f - 1)
  /\ AfterSolve => Clean(vAbs, iFrameProved) /\ Clean(vAbs, f)
  /\ pc = "finish" => Clean(vAbs, iFrameProved)
  /\ pc = "finish" /\ RetValue = "failed" => f \in FailsIn(Objs) /\ Clean(Objs, f - 1)

\* What the provers prove holds of the stored abstraction, which only grows
ProofInv ==
  /\ \A q \in provers : q.at = "proved" => Proves(q.out, q.abs)
  /\ Solving => \A q \in provers : q.abs \subseteq vGateClasses
  /\ Solving /\ g_fAbstractionProved => Proves(iOut, vGateClasses)
  /\ pc = "clear" \/ (pc = "finish" /\ RetValue = "proved") => Proves(iOut, vGateClasses)
  /\ Solving /\ pc # "finish" => RetValue = "undecided"

\* Nothing is left over when the one output is started
FreshInv ==
  pc = "output" /\ (\E o \in NonConst : iOut <= o) =>
    provers = {} /\ ~g_fAbstractionProved /\ iFrameProved = -1

SoloInv == FreshInv /\ ProofInv /\ CleanInv /\ StatusesRight

-----------------------------------------------------------------------------
(* Type correctness *)

LEMMA SizeType ==
  ASSUME NEW a \in SUBSET Objs
  PROVE  Cardinality(a) \in Nat
BY GlaAssumption, FS_Subset, FS_CardinalityType

LEMMA InitType == Init => TypeInv
<1> SUFFICES ASSUME Init PROVE TypeInv
  OBVIOUS
<1>1. fUseSkip \in BOOLEAN /\ iOut \in 0 .. NOuts
  BY GlaAssumption DEF Init
<1>2. vStatuses \in [Outs -> {"none", "proved", "failed", "undecided"}]
  BY DEF Init
<1>3. pc \in Locations /\ ~Solving
  BY DEF Init, Locations, Solving
<1> QED
  BY <1>1, <1>2, <1>3 DEF Init, TypeInv, TypeOK, OutputInv

\* A prover that goes on keeps its run number and what it works on
LEMMA ProverType ==
  ASSUME NEW q \in Runs
  PROVE  LET p == [q EXCEPT !.at = "proved"] IN
           p \in Runs /\ p.RunId = q.RunId /\ p.out = q.out /\ p.abs = q.abs /\ p.at = "proved"
BY DEF Runs

LEMMA TypeStep ==
  ASSUME TypeInv, [Next]_vars
  PROVE  TypeInv'
<1> USE DEF TypeInv, TypeOK, OutputInv, NonConst, Solving, absVars, frameVars, parVars, outVars,
  proofVars
<1>1. ASSUME TrivialOutput
      PROVE  TypeInv'
  BY <1>1, GlaAssumption DEF TrivialOutput, Outs
<1>2. ASSUME StartOutput
      PROVE  TypeInv'
  BY <1>2, GlaAssumption DEF StartOutput, Locations
<1>3. ASSUME AllOutputs
      PROVE  TypeInv'
  BY <1>3 DEF AllOutputs, Locations
<1>4. ASSUME Restart
      PROVE  TypeInv'
  BY <1>4, SizeType DEF Restart, Locations
<1>5. ASSUME SkipFrame \/ StartFrame \/ EndFrames
      PROVE  TypeInv'
  <2>1. CASE SkipFrame
    <3>1. f' = f + 1 /\ absOld' = vAbs /\ refined' = FALSE
      BY <2>1 DEF SkipFrame
    <3>2. UNCHANGED <<outVars, pc, vGateClasses, vAbs, nAbsOld, parVars, iFrameTryToProve,
                      RetValue, proofVars>>
      BY <2>1 DEF SkipFrame
    <3>3. OutputInv'
      BY <3>2
    <3>4. f' \in Nat /\ refined' \in BOOLEAN /\ absOld' \subseteq Objs
      <4>1. f' \in Nat
        BY <3>1
      <4>2. refined' \in BOOLEAN
        BY <3>1
      <4>3. absOld' \subseteq Objs
        BY <3>1
      <4> QED
        BY <4>1, <4>2, <4>3
    <3>5. TypeOK'
      BY <3>2, <3>4
    <3> QED
      BY <3>3, <3>5
  <2>2. CASE StartFrame
    BY <2>2 DEF StartFrame, Locations
  <2>3. CASE EndFrames
    BY <2>3 DEF EndFrames, Locations
  <2> QED
    BY <1>5, <2>1, <2>2, <2>3
<1>6. ASSUME Refine
      PROVE  TypeInv'
  BY <1>6 DEF Refine, Locations, Cancelled
<1>7. ASSUME FoundCex
      PROVE  TypeInv'
  BY <1>7 DEF FoundCex, Locations, Cancelled
<1>8. ASSUME SolveStops \/ Stable \/ Implied
      PROVE  TypeInv'
  BY <1>8 DEF SolveStops, Stable, Implied, Locations
<1>9. ASSUME Shrink
      PROVE  TypeInv'
  BY <1>9 DEF Shrink, Cores, Locations
<1>10. ASSUME CheckFails \/ CheckHolds \/ ClearFlag
       PROVE  TypeInv'
  BY <1>10 DEF CheckFails, CheckHolds, ClearFlag, Locations
<1>11. ASSUME TooLarge \/ CallProver \/ CallNone
       PROVE  TypeInv'
  BY <1>11 DEF TooLarge, CallProver, CallNone, Locations, Classes, Cancelled
<1>12. ASSUME ForgetProof \/ NextFrame
       PROVE  TypeInv'
  <2>1. CASE ForgetProof
    BY <2>1 DEF ForgetProof, Locations
  <2>2. CASE NextFrame
    BY <2>2 DEF NextFrame, Locations
  <2> QED
    BY <1>12, <2>1, <2>2
<1>13. ASSUME CreateProver
       PROVE  TypeInv'
  <2> DEFINE p == [RunId |-> g_nRunIds + 1, out |-> iOut, abs |-> vGateClasses, at |-> "solving"]
  <2>1. p \in Runs /\ p.out \in NonConst
    BY <1>13 DEF CreateProver, Runs
  <2>2. provers' = provers \cup {p}
    BY <1>13 DEF CreateProver
  <2> HIDE DEF p
  <2> QED
    BY <1>13, <2>1, <2>2 DEF CreateProver, Locations
<1>14. ASSUME Finish
       PROVE  TypeInv'
  <2>1. iOut \in 0 .. NOuts - 1
    BY <1>14 DEF Finish, Outs
  <2>2. iOut + 1 \in 0 .. NOuts
    BY <2>1, GlaAssumption
  <2>3. vStatuses' \in [Outs -> {"none", "proved", "failed", "undecided"}]
    BY <1>14 DEF Finish
  <2>4. g_nRunIds' \in Nat
    BY <1>14 DEF Finish, Cancelled
  <2>5. vGateClasses' \subseteq Objs
    BY <1>14 DEF Finish
  <2> QED
    BY <1>14, <2>2, <2>3, <2>4, <2>5 DEF Finish, Locations
<1>15. ASSUME NEW q \in provers, Prover(q)
       PROVE  TypeInv'
  <2> DEFINE p == [q EXCEPT !.at = "proved"]
  <2>1. p \in Runs /\ p.out \in NonConst
    BY ProverType
  <2>2. provers' \subseteq provers \cup {p}
    BY <1>15 DEF Prover, ProverProves, ProverStops, ProverRaises
  <2> HIDE DEF p
  <2> QED
    BY <1>15, <2>1, <2>2 DEF Prover, ProverProves, ProverStops, ProverRaises
<1>16. ASSUME UNCHANGED vars
       PROVE  TypeInv'
  BY <1>16 DEF vars
<1> QED
  BY <1>1, <1>2, <1>3, <1>4, <1>5, <1>6, <1>7, <1>8, <1>9, <1>10, <1>11, <1>12, <1>13, <1>14,
    <1>15, <1>16 DEF Next, Main, Frame, AfterFrame, Returned

LEMMA TypeInvariant == Spec => []TypeInv
BY InitType, TypeStep, PTL DEF Spec

\* Whatever the provers and the main thread do, the state is well-typed.
THEOREM TypeCorrect == Spec => []TypeOK
<1>1. TypeInv => TypeOK
  BY DEF TypeInv
<1> QED
  BY <1>1, TypeInvariant, PTL

-----------------------------------------------------------------------------
(* The stored abstraction and the prover that works on it *)

LEMMA ClassesStep ==
  ASSUME TypeInv, ClassesInv, [Next]_vars
  PROVE  ClassesInv'
<1> USE DEF ClassesInv, absVars, frameVars, parVars, outVars, proofVars
<1>1. ASSUME TrivialOutput \/ StartOutput \/ AllOutputs \/ Finish
      PROVE  ClassesInv'
  BY <1>1 DEF TrivialOutput, StartOutput, AllOutputs, Finish
<1>2. ASSUME Restart
      PROVE  ClassesInv'
  BY <1>2 DEF Restart
<1>3. ASSUME SkipFrame
      PROVE  ClassesInv'
  BY <1>3 DEF SkipFrame
<1>4. ASSUME StartFrame \/ EndFrames
      PROVE  ClassesInv'
  BY <1>4 DEF StartFrame, EndFrames
<1>5. ASSUME Refine
      PROVE  ClassesInv'
  BY <1>5 DEF Refine
<1>6. ASSUME FoundCex \/ SolveStops \/ Stable \/ Implied
      PROVE  ClassesInv'
  BY <1>6 DEF FoundCex, SolveStops, Stable, Implied
<1>7. ASSUME Shrink
      PROVE  ClassesInv'
  BY <1>7 DEF Shrink, Cores
<1>8. ASSUME CheckFails \/ CheckHolds \/ ClearFlag
      PROVE  ClassesInv'
  BY <1>8 DEF CheckFails, CheckHolds, ClearFlag
<1>9. ASSUME TooLarge \/ CallProver \/ CallNone
      PROVE  ClassesInv'
  <2>1. Classes = vAbs
    BY <1>9 DEF TooLarge, CallProver, CallNone, Classes, TypeInv, TypeOK
  <2> QED
    BY <1>9, <2>1 DEF TooLarge, CallProver, CallNone
<1>10. ASSUME ForgetProof \/ CreateProver \/ NextFrame
       PROVE  ClassesInv'
  BY <1>10 DEF ForgetProof, CreateProver, NextFrame
<1>11. ASSUME NEW q \in provers, Prover(q)
       PROVE  ClassesInv'
  BY <1>11 DEF Prover, ProverProves, ProverStops, ProverRaises
<1>12. ASSUME UNCHANGED vars
       PROVE  ClassesInv'
  BY <1>12 DEF vars
<1> QED
  BY <1>1, <1>2, <1>3, <1>4, <1>5, <1>6, <1>7, <1>8, <1>9, <1>10, <1>11, <1>12
  DEF Next, Main, Frame, AfterFrame, Returned

LEMMA ClassesInvariant == Spec => []ClassesInv
<1>1. Init => ClassesInv
  BY DEF Init, ClassesInv
<1> QED
  BY <1>1, ClassesStep, TypeInvariant, PTL DEF Spec

\* Cancelling leaves no run number for a prover that exists
LEMMA CancelledAll ==
  ASSUME TypeInv, RunInv, NEW q \in provers
  PROVE  q.RunId < Cancelled(g_nRunIds)
BY DEF TypeInv, TypeOK, RunInv, Runs, Cancelled

LEMMA RunStep ==
  ASSUME TypeInv, ClassesInv, RunInv, [Next]_vars
  PROVE  RunInv'
<1>0. Cancelled(g_nRunIds) \in Nat /\ \A q \in provers : q.RunId < Cancelled(g_nRunIds)
  BY CancelledAll DEF TypeInv, TypeOK, Cancelled
<1> USE DEF TypeInv, TypeOK, RunInv, NewestProver, Runs, absVars, frameVars, parVars, outVars,
  proofVars
<1>1. ASSUME TrivialOutput \/ StartOutput \/ AllOutputs
      PROVE  RunInv'
  BY <1>1 DEF TrivialOutput, StartOutput, AllOutputs
<1>2. ASSUME Restart \/ SkipFrame \/ StartFrame \/ EndFrames
      PROVE  RunInv'
  BY <1>2 DEF Restart, SkipFrame, StartFrame, EndFrames
<1>3. ASSUME Refine \/ FoundCex
      PROVE  RunInv'
  BY <1>3, <1>0 DEF Refine, FoundCex
<1>4. ASSUME SolveStops \/ Stable \/ Implied \/ Shrink
      PROVE  RunInv'
  BY <1>4 DEF SolveStops, Stable, Implied, Shrink
<1>5. ASSUME CheckFails \/ CheckHolds \/ ClearFlag
      PROVE  RunInv'
  BY <1>5 DEF CheckFails, CheckHolds, ClearFlag
<1>6. ASSUME TooLarge \/ CallNone
      PROVE  RunInv'
  <2>1. vGateClasses' = vGateClasses \/ iFrameTryToProve = -1
    BY <1>6 DEF TooLarge, CallNone, Classes, ClassesInv
  <2> QED
    BY <1>6, <2>1 DEF TooLarge, CallNone
<1>7. ASSUME CallProver
      PROVE  RunInv'
  BY <1>7, <1>0 DEF CallProver
<1>8. ASSUME ForgetProof \/ NextFrame
      PROVE  RunInv'
  BY <1>8 DEF ForgetProof, NextFrame
<1>9. ASSUME CreateProver
      PROVE  RunInv'
  BY <1>9 DEF CreateProver
<1>10. ASSUME Finish
       PROVE  RunInv'
  BY <1>10, <1>0 DEF Finish
<1>11. ASSUME NEW q \in provers, Prover(q)
       PROVE  RunInv'
  <2> DEFINE p == [q EXCEPT !.at = "proved"]
  <2>1. p \in Runs /\ p.RunId = q.RunId /\ p.out = q.out /\ p.abs = q.abs
    BY ProverType
  <2>2. provers' \subseteq provers \cup {p}
    BY <1>11 DEF Prover, ProverProves, ProverStops, ProverRaises
  <2> HIDE DEF p
  <2> QED
    BY <1>11, <2>1, <2>2 DEF Prover, ProverProves, ProverStops, ProverRaises
<1>12. ASSUME UNCHANGED vars
       PROVE  RunInv'
  BY <1>12 DEF vars
<1> QED
  BY <1>1, <1>2, <1>3, <1>4, <1>5, <1>6, <1>7, <1>8, <1>9, <1>10, <1>11, <1>12
  DEF Next, Main, Frame, AfterFrame, Returned

LEMMA RunInvariant == Spec => []RunInv
<1>1. Init => RunInv
  BY DEF Init, RunInv, NewestProver
<1> QED
  BY <1>1, RunStep, ClassesInvariant, TypeInvariant, PTL DEF Spec

(***************************************************************************)
(* The prover that is not cancelled works on the stored abstraction: no    *)
(* abstraction is stored without the last prover being cancelled           *)
(* (Gia_GlaProveCancel).                                                   *)
(***************************************************************************)
THEOREM NewestProverCorrect == Spec => []NewestProver
<1>1. RunInv => NewestProver
  BY DEF RunInv
<1> QED
  BY <1>1, RunInvariant, PTL

\* An object that a proof of some timeframe needs stays in the stored abstraction.
THEOREM ClassesGrowCorrect == Spec => ClassesGrow
<1>1. ASSUME TypeInv, ClassesInv, [Next]_vars
      PROVE  [pc \notin {"output", "finish"} => vGateClasses \subseteq vGateClasses']_vars
  <2> SUFFICES ASSUME pc \notin {"output", "finish"}, ~UNCHANGED vars, Next
               PROVE  vGateClasses \subseteq vGateClasses'
    BY <1>1
  <2>1. CASE TooLarge \/ CallProver \/ CallNone
    <3>1. vGateClasses \subseteq Classes
      BY <1>1, <2>1 DEF TooLarge, CallProver, CallNone, Classes, ClassesInv
    <3> QED
      BY <2>1, <3>1 DEF TooLarge, CallProver, CallNone, Classes
  <2>2. CASE ~(TooLarge \/ CallProver \/ CallNone)
    BY <2>2 DEF Next, Main, Frame, AfterFrame, Returned, TrivialOutput, StartOutput, AllOutputs,
      Restart, SkipFrame, StartFrame, EndFrames, Refine, FoundCex, SolveStops, Stable, Implied,
      Shrink, CheckFails, CheckHolds, ClearFlag, ForgetProof, CreateProver, NextFrame, Finish,
      Prover, ProverProves, ProverStops, ProverRaises, absVars, vars
  <2> QED
    BY <2>1, <2>2
<1> QED
  BY <1>1, TypeInvariant, ClassesInvariant, PTL DEF Spec, ClassesGrow

-----------------------------------------------------------------------------
(* One output that is solved: what the flag and the counter say of it *)

\* Keeping more objects only removes failures
LEMMA FailuresShrink ==
  ASSUME TypeInv, iOut \in Outs, NEW a \in SUBSET Objs, NEW b \in SUBSET Objs, a \subseteq b
  PROVE  FailsIn(b) \subseteq FailsIn(a)
BY DesignsAssumption DEF TypeInv, TypeOK, FailsIn

LEMMA CleanLarger ==
  ASSUME TypeInv, iOut \in Outs, NEW a \in SUBSET Objs, NEW b \in SUBSET Objs, a \subseteq b,
         NEW n \in Int, Clean(a, n)
  PROVE  Clean(b, n)
BY FailuresShrink DEF Clean

LEMMA CleanOneMore ==
  ASSUME NEW a, NEW n \in Nat, Clean(a, n - 1), n \in Unchecked \/ n \notin FailsIn(a)
  PROVE  Clean(a, n)
BY DEF Clean

LEMMA SoloOut ==
  ASSUME Solo, TypeInv
  PROVE  /\ Solving => iOut \in Outs /\ \A q \in provers : q.out = iOut
         /\ \A o \in NonConst : Solving => o = iOut
BY DEF Solo, TypeInv, OutputInv, NonConst, TypeOK, Runs

LEMMA FreshStep ==
  ASSUME Solo, TypeInv, FreshInv, [Next]_vars
  PROVE  FreshInv'
<1> USE DEF FreshInv, NonConst, absVars, frameVars, parVars, outVars, proofVars
<1>1. ASSUME TrivialOutput
      PROVE  FreshInv'
  BY <1>1, GlaAssumption DEF TrivialOutput, TypeInv, TypeOK, Outs
<1>2. ASSUME Finish
      PROVE  FreshInv'
  <2>1. \A o \in NonConst : ~(iOut' <= o)
    <3>1. \A o \in NonConst : o = iOut
      BY <1>2, SoloOut DEF Finish, Solving
    <3> QED
      BY <1>2, <3>1, GlaAssumption DEF Finish, TypeInv, TypeOK
  <2> QED
    BY <1>2, <2>1 DEF Finish
<1>3. ASSUME StartOutput \/ AllOutputs \/ Restart \/ Frame \/ AfterFrame
      PROVE  FreshInv'
  BY <1>3 DEF StartOutput, AllOutputs, Restart, Frame, AfterFrame, SkipFrame, StartFrame, EndFrames,
    Refine, FoundCex, SolveStops, Stable, Implied, Shrink, CheckFails, CheckHolds, ClearFlag,
    TooLarge, CallProver, CallNone, ForgetProof, CreateProver, NextFrame
<1>4. ASSUME NEW q \in provers, Prover(q)
      PROVE  FreshInv'
  BY <1>4 DEF Prover, ProverProves, ProverStops, ProverRaises
<1>5. ASSUME UNCHANGED vars
      PROVE  FreshInv'
  BY <1>5 DEF vars
<1> QED
  BY <1>1, <1>2, <1>3, <1>4, <1>5 DEF Next, Main, Returned

\* What is proved of an abstraction holds of one that keeps more
LEMMA ProofLarger ==
  ASSUME TypeInv, iOut \in Outs, NEW a \in SUBSET Objs, NEW b \in SUBSET Objs, a \subseteq b,
         Proves(iOut, a)
  PROVE  Proves(iOut, b)
BY FailuresShrink DEF FailsIn, Proves

LEMMA ProofStep ==
  ASSUME Solo, TypeInv, ClassesInv, FreshInv, ProofInv, [Next]_vars
  PROVE  ProofInv'
<1>0. fails' = fails
  BY DEF Next, Main, Frame, AfterFrame, Returned, TrivialOutput, StartOutput, AllOutputs,
    Restart, SkipFrame, StartFrame, EndFrames, Refine, FoundCex, SolveStops, Stable, Implied,
    Shrink, CheckFails, CheckHolds, ClearFlag, TooLarge, CallProver, CallNone, ForgetProof,
    CreateProver, NextFrame, Finish, Prover, ProverProves, ProverStops, ProverRaises, outVars, vars
<1>1. ASSUME TrivialOutput \/ AllOutputs \/ Finish
      PROVE  ProofInv'
  BY <1>0, <1>1 DEF ProofInv, TrivialOutput, AllOutputs, Finish, Solving, Proves, proofVars
<1>2. ASSUME StartOutput
      PROVE  ProofInv'
  <2>1. provers = {} /\ ~g_fAbstractionProved
    BY <1>2 DEF FreshInv, StartOutput, NonConst, Outs
  <2> QED
    BY <1>2, <2>1 DEF ProofInv, StartOutput, Solving, proofVars
<1>3. ASSUME \/ Restart \/ SkipFrame \/ StartFrame \/ EndFrames \/ Refine \/ FoundCex \/ SolveStops
             \/ Stable \/ Implied \/ Shrink
      PROVE  ProofInv'
  BY <1>0, <1>3 DEF ProofInv, Restart, SkipFrame, StartFrame, EndFrames, Refine, FoundCex,
    SolveStops, Stable, Implied, Shrink, Solving, Proves, absVars, outVars, proofVars
<1>4. ASSUME CheckFails \/ CheckHolds \/ ClearFlag \/ ForgetProof \/ NextFrame
      PROVE  ProofInv'
  BY <1>0, <1>4 DEF ProofInv, CheckFails, CheckHolds, ClearFlag, ForgetProof, NextFrame, Solving,
    Proves, absVars, outVars, proofVars
<1>5. ASSUME TooLarge \/ CallProver \/ CallNone
      PROVE  ProofInv'
  <2>1. /\ vGateClasses \subseteq vGateClasses' /\ vGateClasses' \in SUBSET Objs
        /\ pc = "extend" /\ pc' \in {"finish", "forget", "next"}
        /\ UNCHANGED <<iOut, provers, g_fAbstractionProved, RetValue>>
    BY <1>5 DEF TooLarge, CallProver, CallNone, Classes, ClassesInv, TypeInv, TypeOK, outVars,
      proofVars
  <2>2. g_fAbstractionProved => Proves(iOut, vGateClasses')
    BY <2>1, ProofLarger, SoloOut DEF ProofInv, Solving, TypeInv, TypeOK
  <2>3. RetValue = "undecided"
    BY <2>1 DEF ProofInv, Solving
  <2> QED
    BY <1>0, <2>1, <2>2, <2>3 DEF ProofInv, Solving, Proves
<1>6. ASSUME CreateProver
      PROVE  ProofInv'
  <2> DEFINE p == [RunId |-> g_nRunIds + 1, out |-> iOut, abs |-> vGateClasses, at |-> "solving"]
  <2>1. p.at = "solving" /\ p.abs = vGateClasses
    OBVIOUS
  <2>2. provers' = provers \cup {p}
    BY <1>6 DEF CreateProver
  <2> HIDE DEF p
  <2> QED
    BY <1>0, <1>6, <2>1, <2>2 DEF ProofInv, CreateProver, Solving, Proves, absVars, outVars
<1>7. ASSUME NEW q \in provers, Prover(q)
      PROVE  ProofInv'
  <2> DEFINE p == [q EXCEPT !.at = "proved"]
  <2>1. p.out = q.out /\ p.abs = q.abs
    BY ProverType DEF TypeInv, TypeOK
  <2>2. provers' \subseteq provers \cup {p}
    BY <1>7 DEF Prover, ProverProves, ProverStops, ProverRaises
  <2>3. p \in provers' => p \in provers \/ Proves(q.out, q.abs)
    BY <1>7 DEF Prover, ProverProves, ProverStops, ProverRaises
  <2>4. Solving /\ g_fAbstractionProved' => g_fAbstractionProved \/ Proves(iOut, vGateClasses)
    <3> SUFFICES ASSUME Solving, ProverRaises(q)
                 PROVE  Proves(iOut, vGateClasses)
      BY <1>7 DEF Prover, ProverProves, ProverStops
    <3>1. Proves(q.out, q.abs) /\ q.abs \subseteq vGateClasses /\ q.abs \in SUBSET Objs
      BY DEF ProverRaises, ProofInv, TypeInv, TypeOK, Runs
    <3>2. q.out = iOut /\ iOut \in Outs
      BY SoloOut
    <3> QED
      BY <3>1, <3>2, ProofLarger DEF TypeInv, TypeOK
  <2>5. UNCHANGED <<pc, iOut, vGateClasses, RetValue>>
    BY <1>7 DEF Prover, ProverProves, ProverStops, ProverRaises, outVars, absVars
  <2> HIDE DEF p
  <2> QED
    BY <1>0, <2>1, <2>2, <2>3, <2>4, <2>5 DEF ProofInv, Solving, Proves
<1>8. ASSUME UNCHANGED vars
      PROVE  ProofInv'
  BY <1>8 DEF vars, ProofInv, Solving, Proves, outVars, absVars, proofVars
<1> QED
  BY <1>1, <1>2, <1>3, <1>4, <1>5, <1>6, <1>7, <1>8 DEF Next, Main, Frame, AfterFrame, Returned

LEMMA CleanStep ==
  ASSUME Solo, TypeInv, ClassesInv, FreshInv, ProofInv, CleanInv, [Next]_vars
  PROVE  CleanInv'
<1>0. fails' = fails
  BY DEF Next, Main, Frame, AfterFrame, Returned, TrivialOutput, StartOutput, AllOutputs,
    Restart, SkipFrame, StartFrame, EndFrames, Refine, FoundCex, SolveStops, Stable, Implied,
    Shrink, CheckFails, CheckHolds, ClearFlag, TooLarge, CallProver, CallNone, ForgetProof,
    CreateProver, NextFrame, Finish, Prover, ProverProves, ProverStops, ProverRaises, outVars, vars
<1>c. ASSUME iOut' = iOut
      PROVE  \A a, n : Clean(a, n)' <=> Clean(a, n)
  BY <1>0, <1>c DEF Clean, FailsIn
<1>t. /\ vAbs \in SUBSET Objs /\ absOld \in SUBSET Objs /\ vGateClasses \in SUBSET Objs
      /\ f \in Nat /\ iFrameProved \in Int /\ (Solving => iOut \in Outs)
  BY SoloOut DEF TypeInv, TypeOK
<1>1. ASSUME TrivialOutput \/ AllOutputs \/ Finish
      PROVE  CleanInv'
  BY <1>1 DEF CleanInv, TrivialOutput, AllOutputs, Finish, AfterSolve
<1>2. ASSUME StartOutput
      PROVE  CleanInv'
  <2>1. iFrameProved = -1
    BY <1>2 DEF FreshInv, StartOutput, NonConst, Outs
  <2> QED
    BY <1>2, <2>1 DEF CleanInv, Clean, StartOutput, AfterSolve, parVars
<1>3. ASSUME Restart
      PROVE  CleanInv'
  <2>1. Clean(vGateClasses, iFrameProved) /\ Clean(vGateClasses, -1)
    BY <1>3 DEF Restart, CleanInv, Clean
  <2> QED
    BY <1>c, <1>3, <2>1 DEF Restart, CleanInv, AfterSolve, outVars, parVars
<1>4. ASSUME SkipFrame
      PROVE  CleanInv'
  <2>1. pc = "frame" /\ (Skipped(f) \/ f \notin FailsIn(vAbs))
    BY <1>4 DEF SkipFrame
  <2>2. f \in Unchecked \/ f \notin FailsIn(vAbs)
    <3>1. CASE fUseSkip /\ f <= iFrameProved
      BY <1>t, <2>1, <3>1 DEF CleanInv, Clean
    <3> QED
      BY <2>1, <3>1 DEF Skipped
  <2>3. Clean(vAbs, iFrameProved) /\ Clean(vAbs, f)
    BY <1>t, <2>1, <2>2, CleanOneMore DEF CleanInv
  <2>4. UNCHANGED <<pc, iOut, vAbs, iFrameProved>> /\ f' = f + 1
    BY <1>4 DEF SkipFrame, outVars, parVars
  <2>5. f' - 1 = f
    BY <1>t, <2>4
  <2> QED
    BY <1>c, <2>1, <2>3, <2>4, <2>5 DEF CleanInv, AfterSolve
<1>5. ASSUME StartFrame \/ EndFrames
      PROVE  CleanInv'
  BY <1>c, <1>5 DEF StartFrame, EndFrames, CleanInv, ProofInv, Solving, AfterSolve, outVars, parVars,
    absVars
<1>6. ASSUME Refine \/ SolveStops \/ Shrink
      PROVE  CleanInv'
  <2>1. /\ vAbs' \in SUBSET Objs /\ absOld \subseteq vAbs' /\ pc = "solve"
        /\ pc' \in {"solve", "check", "finish"}
        /\ pc' = "check" => f \notin FailsIn(vAbs')
        /\ UNCHANGED <<iOut, absOld, f, iFrameProved, RetValue>>
    BY <1>6, <1>t DEF Refine, SolveStops, Shrink, Cores, ClassesInv, outVars, parVars, frameVars,
      absVars
  <2>2. Clean(absOld, iFrameProved) /\ Clean(absOld, f - 1) /\ RetValue = "undecided"
    BY <2>1 DEF CleanInv, ProofInv, Solving
  <2>3. Clean(vAbs', iFrameProved) /\ Clean(vAbs', f - 1)
    <3>1. iOut \in Outs /\ f - 1 \in Int
      BY <1>t, <2>1 DEF Solving
    <3> QED
      BY <1>t, <2>1, <2>2, <3>1, CleanLarger
  <2>4. pc' = "check" => Clean(vAbs', f)
    BY <1>t, <2>1, <2>3, CleanOneMore
  <2> QED
    BY <1>c, <2>1, <2>2, <2>3, <2>4 DEF CleanInv, AfterSolve
<1>7. ASSUME FoundCex \/ Stable \/ Implied
      PROVE  CleanInv'
  <2>1. /\ pc = "solve" /\ absOld \subseteq vAbs /\ iOut \in Outs
        /\ UNCHANGED <<iOut, vAbs, f, iFrameProved>>
    BY <1>7, <1>t DEF FoundCex, Stable, Implied, ClassesInv, Solving, outVars, parVars, frameVars,
      absVars
  <2>2. f - 1 \in Int /\ Objs \in SUBSET Objs
    BY <1>t
  <2>3. Clean(absOld, iFrameProved) /\ Clean(absOld, f - 1)
    BY <2>1 DEF CleanInv
  <2>4. Clean(vAbs, iFrameProved) /\ Clean(vAbs, f - 1) /\ Clean(Objs, f - 1)
    BY <1>t, <2>1, <2>2, <2>3, CleanLarger
  <2>5. CASE FoundCex
    <3>1. (f \in FailsIn(Objs))'
      BY <1>0, <2>1, <2>5 DEF FoundCex, FailsIn
    <3> QED
      BY <1>c, <2>1, <2>4, <2>5, <3>1 DEF FoundCex, CleanInv, AfterSolve
  <2>6. CASE Stable \/ Implied
    <3>1. Clean(vAbs, f)
      BY <1>t, <2>4, <2>6, CleanOneMore DEF Stable, Implied
    <3> QED
      BY <1>c, <2>1, <2>4, <2>6, <3>1 DEF Stable, Implied, CleanInv, AfterSolve
  <2> QED
    BY <1>7, <2>5, <2>6
<1>8. ASSUME CheckFails \/ CheckHolds
      PROVE  CleanInv'
  BY <1>c, <1>8 DEF CheckFails, CheckHolds, CleanInv, AfterSolve, outVars, frameVars, absVars
<1>9. ASSUME \/ ClearFlag \/ TooLarge \/ CallProver \/ CallNone \/ ForgetProof \/ CreateProver
      PROVE  CleanInv'
  BY <1>c, <1>9 DEF ClearFlag, TooLarge, CallProver, CallNone, ForgetProof, CreateProver, CleanInv,
    ProofInv, Solving, AfterSolve, outVars, frameVars, absVars, parVars
<1>10. ASSUME NextFrame
       PROVE  CleanInv'
  <2>1. /\ pc = "next" /\ vGateClasses = vAbs /\ RetValue = "undecided"
        /\ Clean(vAbs, iFrameProved) /\ Clean(vAbs, f)
    BY <1>10 DEF NextFrame, ClassesInv, CleanInv, ProofInv, Solving, AfterSolve
  <2>2. /\ pc' \in {"restart", "finish", "frame"} /\ (pc' = "frame" => f' = f + 1)
        /\ UNCHANGED <<iOut, vGateClasses, vAbs, iFrameProved, RetValue>>
    BY <1>10 DEF NextFrame, outVars, absVars, parVars
  <2>3. pc' = "frame" => f' - 1 = f
    BY <1>t, <2>2
  <2> QED
    BY <1>c, <2>1, <2>2, <2>3 DEF CleanInv, AfterSolve
<1>11. ASSUME NEW q \in provers, Prover(q)
       PROVE  CleanInv'
  <2>1. UNCHANGED <<pc, iOut, vGateClasses, vAbs, absOld, f, iFrameProved, RetValue>>
    BY <1>11 DEF Prover, ProverProves, ProverStops, ProverRaises, outVars, absVars, frameVars, parVars
  <2> QED
    BY <1>0, <1>c, <2>1 DEF CleanInv, AfterSolve, FailsIn
<1>12. ASSUME UNCHANGED vars
       PROVE  CleanInv'
  BY <1>0, <1>c, <1>12 DEF vars, CleanInv, AfterSolve, FailsIn, outVars, absVars, frameVars, parVars
<1> QED
  BY <1>1, <1>2, <1>3, <1>4, <1>5, <1>6, <1>7, <1>8, <1>9, <1>10, <1>11, <1>12
  DEF Next, Main, Frame, AfterFrame, Returned

LEMMA StatusesStep ==
  ASSUME Solo, TypeInv, ProofInv, CleanInv, StatusesRight, [Next]_vars
  PROVE  StatusesRight'
<1>1. ASSUME TrivialOutput
      PROVE  StatusesRight'
  BY <1>1 DEF TrivialOutput, StatusesRight, Proves, TypeInv, TypeOK
<1>2. ASSUME Finish
      PROVE  StatusesRight'
  <2>1. iOut \in Outs /\ pc = "finish" /\ Solving
    BY <1>2, SoloOut DEF Finish, Solving
  <2>2. RetValue = "proved" => Proves(iOut, Objs)
    BY <2>1, ProofLarger DEF ProofInv, TypeInv, TypeOK
  <2>3. RetValue = "failed" => ~Proves(iOut, Objs)
    BY <2>1 DEF CleanInv, FailsIn, Proves
  <2>4. vStatuses' = [vStatuses EXCEPT ![iOut] = RetValue] /\ fails' = fails
    BY <1>2 DEF Finish
  <2> QED
    BY <2>1, <2>2, <2>3, <2>4 DEF StatusesRight, Proves, TypeInv, TypeOK
<1>3. CASE ~TrivialOutput /\ ~Finish
  <2>1. UNCHANGED <<vStatuses, fails>>
    BY <1>3 DEF Next, Main, Frame, AfterFrame, Returned, StartOutput, AllOutputs,
      Restart, SkipFrame, StartFrame, EndFrames, Refine, FoundCex, SolveStops, Stable, Implied,
      Shrink, CheckFails, CheckHolds, ClearFlag, TooLarge, CallProver, CallNone, ForgetProof,
      CreateProver, NextFrame, Prover, ProverProves, ProverStops, ProverRaises, outVars, vars
  <2> QED
    BY <2>1 DEF StatusesRight, Proves
<1> QED
  BY <1>1, <1>2, <1>3

LEMMA SoloInvariant ==
  ASSUME Solo
  PROVE  Spec => []SoloInv
<1>1. Init => SoloInv
  BY DEF Init, SoloInv, FreshInv, ProofInv, CleanInv, StatusesRight, Solving, AfterSolve
<1>2. TypeInv /\ ClassesInv /\ SoloInv /\ [Next]_vars => SoloInv'
  BY FreshStep, ProofStep, CleanStep, StatusesStep DEF SoloInv
<1> QED
  BY <1>1, <1>2, TypeInvariant, ClassesInvariant, PTL DEF Spec

(***************************************************************************)
(* What is reported for the output is right, although the flag is raised   *)
(* by provers that were cancelled, read without the lock and lowered for   *)
(* others: what any of them proved is an abstraction the stored one        *)
(* contains.                                                               *)
(***************************************************************************)
THEOREM StatusesCorrect ==
  ASSUME Solo
  PROVE  Spec => []StatusesRight
<1>1. SoloInv => StatusesRight
  BY DEF SoloInv
<1> QED
  BY <1>1, SoloInvariant, PTL

\* The abstraction stored with the answer `proved' is itself proved.
THEOREM ClassesProvedCorrect ==
  ASSUME Solo
  PROVE  Spec => []ClassesProved
<1>1. SoloInv => ClassesProved
  BY DEF SoloInv, ProofInv, ClassesProved
<1> QED
  BY <1>1, SoloInvariant, PTL

(***************************************************************************)
(* No timeframe up to iFrameProved fails, under any abstraction that is    *)
(* worked with afterwards: restarts, cores and skipped timeframes (-s)     *)
(* lose nothing.                                                           *)
(***************************************************************************)
THEOREM FramesProvedCorrect ==
  ASSUME Solo
  PROVE  Spec => []FramesProved
<1>1. TypeInv /\ ClassesInv /\ SoloInv => FramesProved
  <2> SUFFICES ASSUME TypeInv, ClassesInv, SoloInv PROVE FramesProved
    OBVIOUS
  <2>1. pc = "solve" => Clean(vAbs, iFrameProved)
    <3> SUFFICES ASSUME pc = "solve" PROVE Clean(vAbs, iFrameProved)
      OBVIOUS
    <3>1. iOut \in Outs /\ absOld \subseteq vAbs /\ Clean(absOld, iFrameProved)
      BY SoloOut DEF Solving, ClassesInv, SoloInv, CleanInv
    <3> QED
      BY <3>1, CleanLarger DEF TypeInv, TypeOK
  <2> QED
    BY <2>1 DEF FramesProved, SoloInv, CleanInv, Clean, AfterSolve, Locations
<1> QED
  BY <1>1, SoloInvariant, TypeInvariant, ClassesInvariant, PTL

\* A counter-example is found in the first timeframe that has one.
THEOREM CexFirstCorrect ==
  ASSUME Solo
  PROVE  Spec => []CexFirst
<1>1. SoloInv => CexFirst
  BY DEF SoloInv, CleanInv, Clean, CexFirst
<1> QED
  BY <1>1, SoloInvariant, PTL
-----------------------------------------------------------------------------
(***************************************************************************)
(* With a limit on timeframes no run goes on forever: every step takes the *)
(* rank down in the lexicographic order on eight numbers, from the outputs *)
(* that are left to the provers that have not answered.                    *)
(***************************************************************************)

Working == pc \notin {"output", "finish", "done"}

\* The size the abstraction had at the last restart, or has at the present one
Base == IF pc = "restart" THEN Cardinality(vGateClasses) + 1 ELSE nAbsOld

OutsLeft   == NOuts - iOut
Stage      == CASE pc = "output" -> 3 [] pc = "finish" -> 1 [] pc = "done" -> 0 [] OTHER -> 2
RoomLeft   == IF Working THEN Cardinality(Objs) + 1 - Base ELSE 0
FramesLeft == IF ~Working THEN 0 ELSE IF pc = "restart" THEN nFramesMax + 1 ELSE nFramesMax - f
Phase ==
  CASE pc = "frame" -> 7 [] pc = "solve" -> 6 [] pc = "check" -> 5 [] pc = "extend" -> 4
    [] pc = "clear" -> 4 [] pc = "forget" -> 3 [] pc = "create" -> 2 [] OTHER -> 1
Abstracted == Cardinality(Objs \ vAbs)
Running    == Cardinality(provers)
Undecided  == Cardinality({q \in provers : q.at = "solving"})

Rank == <<OutsLeft, Stage, RoomLeft, FramesLeft, Phase, Abstracted, Running, Undecided>>

Descent == LexProductOrdering(OpToRel(<, Nat), Nat, 8)

\* The step takes the rank down
Descends == <<Rank', Rank>> \in Descent

\* A restart finds an abstraction that is larger than at the one before: when something
\* was refined in a timeframe the abstraction it began with failed there, so no core is as small
RankInv ==
  /\ IsFiniteSet(provers)
  /\ pc = "frame" => nAbsOld <= Cardinality(vAbs) + 1 /\ f <= nFramesMax
  /\ pc = "solve" \/ AfterSolve =>
       /\ nAbsOld <= Cardinality(absOld) + 1 /\ absOld \subseteq vAbs /\ f < nFramesMax
       /\ refined => f \in FailsIn(absOld) /\ vAbs # absOld

\* There is no infinite descent
LEMMA DescentEnds == IsWellFoundedOn(Descent, [1 .. 8 -> Nat])
BY NatLessThanWellFounded, WFLexProductOrdering DEF Descent

LEMMA TupleDescends ==
  ASSUME NEW a \in [1 .. 8 -> Nat], NEW b \in [1 .. 8 -> Nat],
         NEW j \in 1 .. 8, a[j] < b[j], \A i \in 1 .. j - 1 : a[i] = b[i]
  PROVE  <<a, b>> \in Descent
BY DEF Descent, LexProductOrdering, OpToRel

LEMMA SmallerSubset ==
  ASSUME NEW a \in SUBSET Objs, NEW b \in SUBSET a, a # b
  PROVE  /\ Cardinality(b) < Cardinality(a)
         /\ Cardinality(Objs \ a) < Cardinality(Objs \ b)
<1>1. IsFiniteSet(a) /\ IsFiniteSet(Objs \ b)
  BY GlaAssumption, FS_Subset
<1>2. Cardinality(b) <= Cardinality(a) /\ Cardinality(b) # Cardinality(a)
  BY <1>1, FS_Subset
<1>3. Objs \ a \in SUBSET (Objs \ b) /\ Objs \ a # Objs \ b
  OBVIOUS
<1>4. Cardinality(Objs \ a) <= Cardinality(Objs \ b) /\ Cardinality(Objs \ a) # Cardinality(Objs \ b)
  BY <1>1, <1>3, FS_Subset
<1>5. /\ Cardinality(a) \in Nat /\ Cardinality(b) \in Nat
      /\ Cardinality(Objs \ a) \in Nat /\ Cardinality(Objs \ b) \in Nat
  BY SizeType
<1> QED
  BY <1>2, <1>4, <1>5

LEMMA RankStep ==
  ASSUME nFramesMax # 0, TypeInv, ClassesInv, RankInv, [Next]_vars
  PROVE  RankInv'
<1> USE DEF RankInv, AfterSolve, FailsIn, absVars, frameVars, parVars, outVars, proofVars
<1>1. ASSUME TrivialOutput \/ StartOutput \/ AllOutputs \/ Finish
      PROVE  RankInv'
  BY <1>1 DEF TrivialOutput, StartOutput, AllOutputs, Finish
<1>2. ASSUME Restart
      PROVE  RankInv'
  BY <1>2, GlaAssumption, SizeType DEF Restart, TypeInv, TypeOK
<1>3. ASSUME SkipFrame \/ StartFrame \/ EndFrames
      PROVE  RankInv'
  <2>1. CASE SkipFrame
    BY <2>1, GlaAssumption DEF SkipFrame, MoreFrames, TypeInv, TypeOK
  <2>2. CASE StartFrame
    BY <2>2, GlaAssumption DEF StartFrame, MoreFrames, TypeInv, TypeOK
  <2>3. CASE EndFrames
    BY <2>3 DEF EndFrames
  <2> QED
    BY <1>3, <2>1, <2>2, <2>3
<1>4. ASSUME Refine
      PROVE  RankInv'
  <2>1. f \in FailsIn(absOld)
    BY <1>4, FailuresShrink DEF Refine, TypeInv, TypeOK, OutputInv, NonConst, Solving
  <2>2. absOld \subseteq vAbs' /\ vAbs' # absOld
    BY <1>4 DEF Refine
  <2> QED
    BY <1>4, <2>1, <2>2 DEF Refine
<1>5. ASSUME FoundCex \/ SolveStops \/ Stable \/ Implied
      PROVE  RankInv'
  BY <1>5 DEF FoundCex, SolveStops, Stable, Implied
<1>6. ASSUME Shrink
      PROVE  RankInv'
  <2>1. absOld \subseteq vAbs' /\ vAbs' # absOld
    BY <1>6 DEF Shrink, Cores
  <2> QED
    BY <1>6, <2>1 DEF Shrink
<1>7. ASSUME CheckFails \/ CheckHolds \/ ClearFlag \/ TooLarge \/ CallProver \/ CallNone \/ ForgetProof
      PROVE  RankInv'
  BY <1>7 DEF CheckFails, CheckHolds, ClearFlag, TooLarge, CallProver, CallNone, ForgetProof
<1>8. ASSUME CreateProver
      PROVE  RankInv'
  <2>1. IsFiniteSet(provers')
    BY <1>8, FS_AddElement DEF CreateProver
  <2> QED
    BY <1>8, <2>1 DEF CreateProver
<1>9. ASSUME NextFrame
      PROVE  RankInv'
  <2>1. CASE Grown
    BY <1>9, <2>1 DEF NextFrame
  <2>2. CASE ~Grown
    <3>1. Cardinality(absOld) <= Cardinality(vAbs)
      <4>1. absOld \in SUBSET vAbs /\ vAbs \in SUBSET Objs
        BY <1>9 DEF NextFrame, TypeInv, TypeOK
      <4>2. IsFiniteSet(vAbs)
        BY <4>1, GlaAssumption, FS_Subset
      <4> QED
        BY <4>1, <4>2, FS_Subset
    <3>2. f' \in Nat /\ f' <= nFramesMax
      BY <1>9, <2>2, GlaAssumption DEF NextFrame, TypeInv, TypeOK
    <3>3. nAbsOld <= Cardinality(vAbs) + 1
      BY <1>9, <3>1, SizeType DEF NextFrame, TypeInv, TypeOK
    <3> QED
      BY <1>9, <2>2, <3>2, <3>3 DEF NextFrame
  <2> QED
    BY <2>1, <2>2
<1>10. ASSUME NEW q \in provers, Prover(q)
       PROVE  RankInv'
  <2> DEFINE p == [q EXCEPT !.at = "proved"]
  <2>1. provers' = provers \ {q} \/ provers' = (provers \ {q}) \cup {p}
    BY <1>10 DEF Prover, ProverProves, ProverStops, ProverRaises
  <2> HIDE DEF p
  <2>2. IsFiniteSet(provers')
    <3>1. IsFiniteSet(provers \ {q})
      BY FS_RemoveElement
    <3> QED
      BY <2>1, <3>1, FS_AddElement
  <2>3. UNCHANGED <<outVars, pc, absVars, frameVars, parVars>>
    BY <1>10 DEF Prover, ProverProves, ProverStops, ProverRaises
  <2> QED
    BY <2>2, <2>3
<1>11. ASSUME UNCHANGED vars
       PROVE  RankInv'
  BY <1>11 DEF vars
<1> QED
  BY <1>1, <1>2, <1>3, <1>4, <1>5, <1>6, <1>7, <1>8, <1>9, <1>10, <1>11
  DEF Next, Main, Frame, AfterFrame, Returned

RankTyped ==
  /\ OutsLeft \in Nat /\ Stage \in Nat /\ RoomLeft \in Nat /\ FramesLeft \in Nat
  /\ Phase \in Nat /\ Abstracted \in Nat /\ Running \in Nat /\ Undecided \in Nat

LEMMA RankType == ASSUME TypeInv, RankInv PROVE RankTyped
<1> USE DEF TypeInv, TypeOK
<1>1. OutsLeft \in Nat
  BY GlaAssumption DEF OutsLeft
<1>2. Stage \in Nat /\ Phase \in Nat
  BY DEF Stage, Phase
<1>3. RoomLeft \in Nat
  <2>1. \A a \in SUBSET Objs : Cardinality(a) \in Nat /\ Cardinality(a) <= Cardinality(Objs)
    BY GlaAssumption, SizeType, FS_Subset
  <2>2. Cardinality(Objs) \in Nat
    BY SizeType
  <2>3. Working => Base \in Nat /\ Base <= Cardinality(Objs) + 1
    <3>1. CASE pc = "restart"
      BY <3>1, <2>1, <2>2 DEF Base
    <3>2. CASE pc # "restart" /\ Working
      <4>1. nAbsOld <= Cardinality(vAbs) + 1 \/ nAbsOld <= Cardinality(absOld) + 1
        BY <3>2 DEF Working, Locations, RankInv, AfterSolve
      <4> QED
        BY <3>2, <4>1, <2>1, <2>2 DEF Base
    <3> QED
      BY <3>1, <3>2
  <2> QED
    BY <2>2, <2>3 DEF RoomLeft
<1>4. FramesLeft \in Nat
  <2>1. Working /\ pc # "restart" => f <= nFramesMax
    BY GlaAssumption DEF Working, Locations, RankInv, AfterSolve
  <2> QED
    BY <2>1, GlaAssumption DEF FramesLeft
<1>5. Abstracted \in Nat
  BY SizeType DEF Abstracted
<1>6. Running \in Nat
  BY FS_CardinalityType DEF Running, RankInv
<1>7. Undecided \in Nat
  <2>1. {q \in provers : q.at = "solving"} \in SUBSET provers
    OBVIOUS
  <2> QED
    BY <2>1, FS_Subset, FS_CardinalityType DEF Undecided, RankInv
<1> QED
  BY <1>1, <1>2, <1>3, <1>4, <1>5, <1>6, <1>7 DEF RankTyped

\* The first number that changes goes down
Lower ==
  \/ OutsLeft' < OutsLeft
  \/ /\ OutsLeft' = OutsLeft
     /\ \/ Stage' < Stage
        \/ /\ Stage' = Stage
           /\ \/ RoomLeft' < RoomLeft
              \/ /\ RoomLeft' = RoomLeft
                 /\ \/ FramesLeft' < FramesLeft
                    \/ /\ FramesLeft' = FramesLeft
                       /\ \/ Phase' < Phase
                          \/ /\ Phase' = Phase
                             /\ \/ Abstracted' < Abstracted
                                \/ /\ Abstracted' = Abstracted
                                   /\ \/ Running' < Running
                                      \/ Running' = Running /\ Undecided' < Undecided

LEMMA LowerDescends ==
  ASSUME RankTyped, RankTyped', Lower
  PROVE  Descends
<1>2. Rank \in [1 .. 8 -> Nat] /\ Rank' \in [1 .. 8 -> Nat]
  BY DEF Rank, RankTyped
<1>3. /\ Rank[1] = OutsLeft /\ Rank[2] = Stage /\ Rank[3] = RoomLeft /\ Rank[4] = FramesLeft
      /\ Rank[5] = Phase /\ Rank[6] = Abstracted /\ Rank[7] = Running /\ Rank[8] = Undecided
  BY DEF Rank
<1>4. /\ Rank'[1] = OutsLeft' /\ Rank'[2] = Stage' /\ Rank'[3] = RoomLeft'
      /\ Rank'[4] = FramesLeft' /\ Rank'[5] = Phase' /\ Rank'[6] = Abstracted'
      /\ Rank'[7] = Running' /\ Rank'[8] = Undecided'
  BY DEF Rank
<1>5. \E j \in 1 .. 8 : Rank'[j] < Rank[j] /\ \A i \in 1 .. j - 1 : Rank'[i] = Rank[i]
  <2> DEFINE Drops(j) == Rank'[j] < Rank[j] /\ \A i \in 1 .. j - 1 : Rank'[i] = Rank[i]
  <2>1. \A i \in 1 .. 0 : FALSE
    OBVIOUS
  <2>2. Drops(1) \/ Drops(2) \/ Drops(3) \/ Drops(4) \/ Drops(5) \/ Drops(6) \/ Drops(7) \/ Drops(8)
    BY <1>3, <1>4 DEF Lower
  <2> HIDE DEF Drops
  <2>3. \E j \in 1 .. 8 : Drops(j)
    BY <2>2
  <2> QED
    BY <2>3 DEF Drops
<1> QED
  BY <1>2, <1>5, TupleDescends DEF Descends
\* The steps, by the number they take down
LEMMA StepLowers ==
  ASSUME nFramesMax # 0, TypeInv, ClassesInv, RankInv, RankTyped, Next, vars' # vars
  PROVE  Lower
<1> USE DEF TypeInv, TypeOK, Lower, absVars, frameVars, parVars, outVars, proofVars
<1>1. ASSUME TrivialOutput \/ Finish
      PROVE  Lower
  <2>1. iOut < NOuts /\ iOut' = iOut + 1
    BY <1>1, GlaAssumption DEF TrivialOutput, Finish, OutputInv, Solving, NonConst, Outs
  <2> QED
    BY <2>1, GlaAssumption DEF OutsLeft
<1>2. ASSUME StartOutput \/ AllOutputs \/ EndFrames \/ FoundCex \/ SolveStops \/ ClearFlag \/ TooLarge
      PROVE  Lower
  BY <1>2 DEF StartOutput, AllOutputs, EndFrames, FoundCex, SolveStops, ClearFlag, TooLarge, OutsLeft,
    Stage
<1>3. ASSUME Restart
      PROVE  Lower
  <2>1. OutsLeft' = OutsLeft /\ Stage' = Stage
    BY <1>3 DEF Restart, OutsLeft, Stage
  <2>2. RoomLeft' = RoomLeft
    BY <1>3 DEF Restart, RoomLeft, Working, Base
  <2>3. FramesLeft' < FramesLeft
    BY <1>3, GlaAssumption DEF Restart, FramesLeft, Working
  <2> QED
    BY <2>1, <2>2, <2>3
<1>4. ASSUME SkipFrame
      PROVE  Lower
  <2>1. OutsLeft' = OutsLeft /\ Stage' = Stage /\ RoomLeft' = RoomLeft
    BY <1>4 DEF SkipFrame, OutsLeft, Stage, RoomLeft, Working, Base
  <2>2. FramesLeft' < FramesLeft
    BY <1>4, GlaAssumption DEF SkipFrame, FramesLeft, Working
  <2> QED
    BY <2>1, <2>2
<1>5. ASSUME NEW g \in {"frame", "solve", "check", "extend", "clear", "forget", "create", "next"}, pc = g,
             NEW h \in {"solve", "check", "extend", "clear", "forget", "create", "next"}, pc' = h,
             iOut' = iOut, nAbsOld' = nAbsOld, f' = f
      PROVE  OutsLeft' = OutsLeft /\ Stage' = Stage /\ RoomLeft' = RoomLeft /\ FramesLeft' = FramesLeft
  BY <1>5 DEF OutsLeft, Stage, RoomLeft, FramesLeft, Working, Base
<1>6. ASSUME StartFrame \/ Stable \/ Implied \/ CheckFails \/ CheckHolds \/ CallProver \/ CallNone
               \/ ForgetProof \/ CreateProver
      PROVE  Lower
  <2>1. OutsLeft' = OutsLeft /\ Stage' = Stage /\ RoomLeft' = RoomLeft /\ FramesLeft' = FramesLeft
    BY <1>5, <1>6 DEF StartFrame, Stable, Implied, CheckFails, CheckHolds, CallProver, CallNone,
      ForgetProof, CreateProver
  <2>2. Phase' < Phase
    BY <1>6 DEF StartFrame, Stable, Implied, CheckFails, CheckHolds, CallProver, CallNone,
      ForgetProof, CreateProver, Phase
  <2> QED
    BY <2>1, <2>2
<1>7. ASSUME Refine
      PROVE  Lower
  <2>1. CASE pc' = "finish"
    BY <1>7, <2>1 DEF Refine, OutsLeft, Stage
  <2>2. CASE pc' = "solve"
    <3>1. OutsLeft' = OutsLeft /\ Stage' = Stage /\ RoomLeft' = RoomLeft /\ FramesLeft' = FramesLeft
      BY <1>5, <1>7, <2>2 DEF Refine
    <3>2. Phase' = Phase
      BY <1>7, <2>2 DEF Refine, Phase
    <3>3. vAbs' \in SUBSET Objs /\ vAbs \in SUBSET vAbs' /\ vAbs' # vAbs
      <4>1. PICK vPPis \in (SUBSET (Objs \ vAbs)) \ {{}} : vAbs' = vAbs \cup vPPis
        BY <1>7 DEF Refine
      <4>2. vPPis # {} /\ vPPis \subseteq Objs \ vAbs
        BY <4>1
      <4>3. PICK o \in vPPis : o \in Objs \ vAbs
        BY <4>2
      <4> QED
        BY <4>1, <4>2, <4>3
    <3>4. Abstracted' < Abstracted
      BY <3>3, SmallerSubset DEF Abstracted
    <3> QED
      BY <3>1, <3>2, <3>4
  <2> QED
    BY <1>7, <2>1, <2>2 DEF Refine
<1>8. ASSUME Shrink
      PROVE  Lower
  <2>1. CASE pc' = "finish"
    BY <1>8, <2>1 DEF Shrink, OutsLeft, Stage
  <2>2. CASE pc' = "check"
    <3>1. OutsLeft' = OutsLeft /\ Stage' = Stage /\ RoomLeft' = RoomLeft /\ FramesLeft' = FramesLeft
      BY <1>5, <1>8, <2>2 DEF Shrink
    <3>2. Phase' < Phase
      BY <1>8, <2>2 DEF Shrink, Phase
    <3> QED
      BY <3>1, <3>2
  <2> QED
    BY <1>8, <2>1, <2>2 DEF Shrink
<1>9. ASSUME NextFrame
      PROVE  Lower
  <2>1. CASE pc' = "finish"
    BY <1>9, <2>1 DEF NextFrame, OutsLeft, Stage
  <2>2. CASE pc' = "restart"
    <3>1. OutsLeft' = OutsLeft /\ Stage' = Stage
      BY <1>9, <2>2 DEF NextFrame, OutsLeft, Stage
    <3>2. absOld \in SUBSET vAbs /\ vAbs # absOld /\ nAbsOld <= Cardinality(absOld) + 1
      BY <1>9, <2>2 DEF NextFrame, Grown, RankInv, AfterSolve
    <3>3. Cardinality(absOld) < Cardinality(vAbs)
      BY <3>2, SmallerSubset
    <3>4. vGateClasses' = vAbs
      BY <1>9 DEF NextFrame, ClassesInv
    <3>5. Base = nAbsOld /\ Base' = Cardinality(vAbs) + 1
      BY <1>9, <2>2, <3>4 DEF NextFrame, Base
    <3>6. Base < Base'
      BY <3>2, <3>3, <3>5, SizeType
    <3>7. Cardinality(Objs) \in Nat /\ Base \in Nat /\ Base' \in Nat
      BY <3>5, SizeType
    <3>8. RoomLeft' < RoomLeft
      BY <1>9, <2>2, <3>6, <3>7 DEF NextFrame, RoomLeft, Working
    <3> QED
      BY <3>1, <3>8
  <2>3. CASE pc' = "frame"
    <3>1. OutsLeft' = OutsLeft /\ Stage' = Stage /\ RoomLeft' = RoomLeft
      BY <1>9, <2>3 DEF NextFrame, OutsLeft, Stage, RoomLeft, Working, Base
    <3>2. FramesLeft' < FramesLeft
      BY <1>9, <2>3, GlaAssumption DEF NextFrame, FramesLeft, Working
    <3> QED
      BY <3>1, <3>2
  <2> QED
    BY <1>9, <2>1, <2>2, <2>3 DEF NextFrame
<1>10. ASSUME NEW q \in provers, Prover(q)
       PROVE  Lower
  <2>1. /\ OutsLeft' = OutsLeft /\ Stage' = Stage /\ RoomLeft' = RoomLeft /\ FramesLeft' = FramesLeft
        /\ Phase' = Phase /\ Abstracted' = Abstracted
    BY <1>10 DEF Prover, ProverProves, ProverStops, ProverRaises, OutsLeft, Stage, RoomLeft, FramesLeft,
      Phase, Abstracted, Working, Base
  <2>2. IsFiniteSet(provers) /\ Cardinality(provers) \in Nat
    BY FS_CardinalityType DEF RankInv
  <2>3. IsFiniteSet(provers \ {q}) /\ Cardinality(provers \ {q}) = Cardinality(provers) - 1
    BY <2>2, FS_RemoveElement
  <2>4. CASE provers' = provers \ {q}
    BY <2>1, <2>2, <2>3, <2>4 DEF Running
  <2>5. CASE ProverProves(q)
    <3> DEFINE p == [q EXCEPT !.at = "proved"]
               S == {r \in provers : r.at = "solving"}
               T == {r \in provers' : r.at = "solving"}
    <3>1. provers' = (provers \ {q}) \cup {p} /\ q.at = "solving"
      BY <2>5 DEF ProverProves
    <3>2. p.at = "proved"
      BY ProverType
    <3>3. T = S \ {q} /\ q \in S
      <4> HIDE DEF p
      <4> QED
        BY <3>1, <3>2
    <3>4. IsFiniteSet(S) /\ Cardinality(S) \in Nat
      BY <2>2, FS_Subset, FS_CardinalityType
    <3>5. Cardinality(T) < Cardinality(S)
      <4> HIDE DEF S, T
      <4>1. Cardinality(S \ {q}) = (IF q \in S THEN Cardinality(S) - 1 ELSE Cardinality(S))
        BY <3>4, FS_RemoveElement
      <4> QED
        BY <3>3, <3>4, <4>1
    <3>6. Running' <= Running
      <4> HIDE DEF p
      <4> DEFINE R == provers \ {q}
      <4>1. IsFiniteSet(R) /\ Cardinality(R) \in Nat
        BY <2>3, FS_CardinalityType
      <4> HIDE DEF R
      <4>2. Cardinality(R \cup {p}) = (IF p \in R THEN Cardinality(R) ELSE Cardinality(R) + 1)
        BY <4>1, FS_AddElement
      <4>3. Cardinality(R \cup {p}) <= Cardinality(R) + 1
        BY <4>1, <4>2
      <4> QED
        BY <2>2, <2>3, <3>1, <4>3 DEF Running, R
    <3>7. Undecided' < Undecided
      BY <3>5 DEF Undecided
    <3>8. Running \in Nat /\ Running' \in Nat
      <4> HIDE DEF p
      <4> QED
        BY <2>2, <2>3, <3>1, FS_AddElement, FS_CardinalityType DEF Running
    <3>9. Running' < Running \/ Running' = Running
      BY <3>6, <3>8
    <3> QED
      BY <2>1, <3>7, <3>9
  <2> QED
    BY <1>10, <2>4, <2>5 DEF Prover, ProverStops, ProverRaises
<1> QED
  BY <1>1, <1>2, <1>3, <1>4, <1>6, <1>7, <1>8, <1>9, <1>10
  DEF Next, Main, Frame, AfterFrame, Returned

\* With -F every step of the command and of its provers, restarts included, takes the
\* rank down in an order without infinite descent: no run takes infinitely many steps
THEOREM EveryStepDescends ==
  ASSUME nFramesMax # 0
  PROVE  /\ Spec => [][Descends]_vars
         /\ IsWellFoundedOn(Descent, [1 .. 8 -> Nat])
<1>1. Init => RankInv
  BY FS_EmptySet DEF Init, RankInv, AfterSolve
<1>2. TypeInv /\ ClassesInv /\ RankInv /\ [Next]_vars => RankInv'
  BY RankStep
<1>3. TypeInv /\ RankInv => RankTyped
  BY RankType
<1>4. TypeInv /\ ClassesInv /\ RankInv /\ RankTyped /\ RankTyped' /\ [Next]_vars
        => [Descends]_vars
  BY StepLowers, LowerDescends
<1>5. Spec => [][Descends]_vars
  BY <1>1, <1>2, <1>3, <1>4, TypeInvariant, ClassesInvariant, PTL DEF Spec
<1> QED
  BY <1>5, DescentEnds
==============================================================================
