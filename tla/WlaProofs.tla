------------------------------ MODULE WlaProofs ------------------------------
(***************************************************************************)
(* Proofs about Wla, for every set of signals, every design and every      *)
(* setting of the options.                                                 *)
(***************************************************************************)
EXTENDS Wla, WellFoundedInduction, TLAPS

\* The design and the options stay what they were: XORed outputs fail less often than outputs
\* are 1, and an abstraction that keeps more fails less often
DesignInv ==
  /\ \A a \in SUBSET Signals : fails[a] \subseteq outs[a]
  /\ \A a, b \in SUBSET Signals : a \subseteq b => fails[b] \subseteq fails[a]
  /\ ~pPars.fXorOutput => fails = outs

\* Where a trace is loaded and PDR runs
Solving == {"load", "restored", "rebuilt", "push", "pdr"}

\* The thread runs only while PDR does, or the main thread waits for it
ThreadInv ==
  /\ pc \notin Solving \cup {"join", "bump", "wait", "aborted"} => thread = "none"
  /\ thread # "none" => pPars.fUseBmc3
  /\ RunId <= g_nRunIds
  /\ pc \in {"comb", "start"} => RunId = g_nRunIds
  /\ pc \in {"comb", "start"} \/ thread \in {"bmc", "undecided", "shrink"} => vUnmark = whites

\* The counter-examples are of the abstraction of this iteration
CexInv ==
  /\ {pSeqModel, pBmcCex} \subseteq fails[whites] \cup {None}
  /\ pc = "refine" => pCex \in fails[whites] \cup {None}
  /\ pc \in {"join", "bump", "wait", "outcome"} /\ RetValue = 0 => pSeqModel # None

\* A thread that may still shrink has seen all timeframes the core is taken from, and from
\* the second iteration on one of those fails when everything is black
CleanInv ==
  /\ thread = "undecided" /\ ~Stopped =>
       pPars.fShrinkAbs /\ CleanBefore(whites, iCexFrame + nFramesNoChangeLim)
  /\ thread = "shrink" =>
       nIters > 1 /\ pPars.fShrinkAbs /\ CleanBefore(whites, iCexFrame + nFramesNoChangeLim)
  /\ nIters # 0 /\ (nIters = 1 => ~fNewAbs)
  /\ nIters > 1 => \E k \in fails[{}] : k <= iCexFrame
  /\ ShrunkClean

\* PDR has come to its limit, and there is nothing to be found below it
LimitReached == atFrameMax /\ CleanBefore(whites \cup trace, nFrameMax)

\* Why there may be no counter-example
NoneExplained == LimitReached \/ vUnmark # whites

\* The thread stops PDR with a counter-example or a smaller abstraction, and only at the limit
\* PDR ends by itself
StopInv ==
  /\ thread = "signal" => pBmcCex # None \/ vUnmark # whites
  /\ pc \in Solving /\ Stopped => pBmcCex # None \/ vUnmark # whites
  /\ pc \in {"join", "bump", "wait", "outcome"} /\ RetValue = -1 => pBmcCex # None \/ NoneExplained
  /\ pc = "refine" => pCex # None \/ NoneExplained
  /\ pc = "crashed" => NoneExplained
  /\ pc = "aborted" => fNewAbs

\* Without -s the thread changes nothing of the abstraction
NoShrinkInv == ~pPars.fShrinkAbs => ~fNewAbs /\ thread # "shrink"

\* Without -s the abstraction only grows, and the saved trace is of an earlier one
TraceInv ==
  ~pPars.fShrinkAbs =>
    /\ trace \subseteq whites /\ whites \subseteq vUnmark
    /\ \A a \in vClauses : a \subseteq vUnmark
    /\ pc \notin {"create", "done"} => vUnmark = whites

\* Where the answers come from.  A proof that is none is not looked at when there is a
\* counter-example
AnswerInv ==
  /\ pc \in Solving \cup {"create", "comb", "start", "refine"} => RetValue = -1
  /\ pc = "push" => pPars.fPushClauses
  /\ pc \in {"join", "bump", "wait", "outcome"} /\ RetValue = 1 =>
       fails[Signals] = {} \/ pBmcCex # None
  /\ AnswersRight

\* What holds of every run
Inv == TypeOK /\ DesignInv /\ ThreadInv /\ CexInv /\ CleanInv /\ StopInv /\ NoShrinkInv /\ TraceInv

\* What -u takes for granted: an abstraction without gates does not fail
GatelessSafe == \A g \in Gateless : g[1][g[2]] = {}

\* What -p takes for granted: nothing but a counter-example stops the pushing
PushSafe == \A par \in Pars : ~(par.fPushClauses /\ par.fShrinkAbs)

-----------------------------------------------------------------------------
(* Type correctness *)

\* No step changes the design or the options
LEMMA RunStep ==
  ASSUME [Next]_vars
  PROVE  UNCHANGED runVars
BY DEF vars, runVars, Next, Main, Thread, Done, CreateAbs, IterationsEnd, CombUnsat, StartBmc, Load,
   RestoreClauses, RebuildClauses, RebuildStopped, ClearNewAbs, Pdr, PdrReturns, PdrProves,
   PushEnds, PushStopped, PdrFails, PdrStops, PdrLimit, BmcAnswers, BmcCex, BmcUndecided,
   BmcExhausted, BmcDeeper, AfterBmc, TestRunId, ShrinkAbs, ShrinkFails, Signal, ThreadUnchanged,
   Join, TestJoin, StopThread, JoinThread, MainUnchanged, Outcome, NoCex, CexReal, CexSpurious,
   DropCex, Refine, RefineNothing, NextIteration

LEMMA DesignStep ==
  ASSUME DesignInv, [Next]_vars
  PROVE  DesignInv'
<1>1. UNCHANGED <<fails, outs, pPars>>
  BY RunStep DEF runVars
<1> QED
  BY <1>1 DEF DesignInv

LEMMA ParsType ==
  ASSUME pPars \in Pars
  PROVE  pPars.fUseBmc3 \in BOOLEAN /\ pPars.fShrinkAbs \in BOOLEAN
BY WlaAssumption DEF ParSets

LEMMA NewTraceType ==
  ASSUME TypeOK
  PROVE  NewTrace \subseteq SUBSET Signals /\ \A a, b \in NewTrace : a = b
<1>1. whites \cup trace \in SUBSET Signals
  BY DEF TypeOK
<1> QED
  BY <1>1 DEF NewTrace

\* At most one trace is saved
LEMMA SavedType ==
  ASSUME TypeOK, NEW S, Saved(S),
         \A t \in S : t \subseteq SUBSET Signals /\ \A a, b \in t : a = b
  PROVE  vClauses' \in SUBSET SUBSET Signals /\ \A a, b \in vClauses' : a = b
BY DEF TypeOK, Saved

\* Every action keeps the types
LEMMA TypeStep ==
  ASSUME TypeOK, [Next]_vars
  PROVE  TypeOK'
<1> USE DEF TypeOK, runVars, absVars, pdrVars, Locations, ThreadLocations, None
<1>1. ASSUME CreateAbs \/ IterationsEnd \/ CombUnsat \/ StartBmc
      PROVE  TypeOK'
  BY <1>1 DEF CreateAbs, IterationsEnd, CombUnsat, CombProved, StartBmc
<1>2. ASSUME RestoreClauses
      PROVE  TypeOK'
  BY <1>2 DEF RestoreClauses
<1>3. ASSUME RebuildClauses
      PROVE  TypeOK'
  BY <1>3 DEF RebuildClauses
<1>4. ASSUME RebuildStopped
      PROVE  TypeOK'
  BY <1>4 DEF RebuildStopped
<1>5. ASSUME ClearNewAbs
      PROVE  TypeOK'
  BY <1>5 DEF ClearNewAbs
<1>6. ASSUME PdrProves \/ PushStopped \/ PdrLimit
      PROVE  TypeOK'
  <2>1. PICK S : Saved(S) /\ S \in {{NewTrace}}
    BY <1>6 DEF PdrProves, PushStopped, PdrLimit
  <2>2. \A t \in S : t \subseteq SUBSET Signals /\ \A a, b \in t : a = b
    <3> HIDE DEF TypeOK
    <3>1. \A t \in S : t = NewTrace \/ t = {}
      BY <2>1
    <3> QED
      BY <3>1, NewTraceType
  <2>3. vClauses' \in SUBSET SUBSET Signals /\ \A a, b \in vClauses' : a = b
    <3> HIDE DEF TypeOK
    <3> QED
      BY <2>1, <2>2, SavedType
  <2> QED
    BY <1>6, <2>3 DEF PdrProves, PushStopped, PdrLimit, PdrReturns
<1>7. ASSUME PdrFails
      PROVE  TypeOK'
  <2>1. PICK S : Saved(S) /\ S \in {{NewTrace}, {{}}}
    BY <1>7 DEF PdrFails
  <2>2. \A t \in S : t \subseteq SUBSET Signals /\ \A a, b \in t : a = b
    <3> HIDE DEF TypeOK
    <3>1. \A t \in S : t = NewTrace \/ t = {}
      BY <2>1
    <3> QED
      BY <3>1, NewTraceType
  <2>3. vClauses' \in SUBSET SUBSET Signals /\ \A a, b \in vClauses' : a = b
    <3> HIDE DEF TypeOK
    <3> QED
      BY <2>1, <2>2, SavedType
  <2> QED
    BY <1>7, <2>3 DEF PdrFails, PdrReturns
<1>8. ASSUME PdrStops
      PROVE  TypeOK'
  <2>1. PICK S : Saved(S) /\ S \in {{NewTrace}, {NewTrace, {}}}
    BY <1>8 DEF PdrStops
  <2>2. \A t \in S : t \subseteq SUBSET Signals /\ \A a, b \in t : a = b
    <3> HIDE DEF TypeOK
    <3>1. \A t \in S : t = NewTrace \/ t = {}
      BY <2>1
    <3> QED
      BY <3>1, NewTraceType
  <2>3. vClauses' \in SUBSET SUBSET Signals /\ \A a, b \in vClauses' : a = b
    <3> HIDE DEF TypeOK
    <3> QED
      BY <2>1, <2>2, SavedType
  <2> QED
    BY <1>8, <2>3 DEF PdrStops, PdrReturns
<1>9. ASSUME BmcCex \/ BmcUndecided \/ BmcExhausted \/ BmcDeeper
      PROVE  TypeOK'
  BY <1>9 DEF BmcCex, ThreadUnchanged, WithinFrames, CleanBefore, BmcUndecided,
     BmcExhausted, BmcDeeper, vars
<1>10. ASSUME TestRunId
      PROVE  TypeOK'
  BY <1>10 DEF TestRunId, ThreadUnchanged, MayShrink
<1>11. ASSUME ShrinkAbs
      PROVE  TypeOK'
  BY <1>11, WlaAssumption DEF ShrinkAbs, ThreadUnchanged, CoreFrames
<1>12. ASSUME ShrinkFails
      PROVE  TypeOK'
  BY <1>12, WlaAssumption DEF ShrinkFails, ThreadUnchanged
<1>13. ASSUME Signal
      PROVE  TypeOK'
  BY <1>13 DEF Signal, ThreadUnchanged
<1>14. ASSUME Join
      PROVE  TypeOK'
  BY <1>14 DEF Join, TestJoin, MainUnchanged, StopThread, Bumped, JoinThread, Joined
<1>15. ASSUME Outcome
      PROVE  TypeOK'
  BY <1>15 DEF Outcome, NoCex, TheCex, CexReal, RealFrames, CexSpurious
<1>16. ASSUME DropCex \/ Refine \/ RefineNothing
      PROVE  TypeOK'
  BY <1>16 DEF DropCex, NextIteration, Refine, Unmarked, RefineNothing, MainUnchanged
<1>17. CASE UNCHANGED vars
  BY <1>17 DEF vars
<1>18. ASSUME PushEnds
      PROVE  TypeOK'
  BY <1>18 DEF PushEnds
<1> QED
  BY <1>1, <1>2, <1>3, <1>4, <1>5, <1>6, <1>7, <1>8, <1>9, <1>10, <1>11, <1>12, <1>13, <1>14,
     <1>15, <1>16, <1>17, <1>18
     DEF Next, Main, Thread, BmcAnswers, Done, AfterBmc, Load, Pdr, Join, Outcome

LEMMA InitType == Init => TypeOK
<1> SUFFICES ASSUME Init PROVE TypeOK
  OBVIOUS
<1>1. vClauses \in SUBSET SUBSET Signals /\ \A a, b \in vClauses : a = b
  BY DEF Init
<1>2. pc \in Locations /\ thread \in ThreadLocations /\ fNewAbs \in BOOLEAN
  BY DEF Init, Locations, ThreadLocations
<1>3. fails \in [SUBSET Signals -> SUBSET Nat] /\ outs \in [SUBSET Signals -> SUBSET Nat]
  BY DesignsAssumption DEF Init, BitBlasted
<1> QED
  BY <1>1, <1>2, <1>3 DEF Init, TypeOK, None

\* The state has the type Wla declares (wlc.h:250-274)
THEOREM TypeCorrect == Spec => []TypeOK
BY InitType, TypeStep, PTL DEF Spec

-----------------------------------------------------------------------------
(* The thread and the counter-examples *)

\* Threads are started and joined within one iteration
LEMMA ThreadStep ==
  ASSUME TypeOK, ThreadInv, [Next]_vars
  PROVE  ThreadInv'
<1> USE DEF TypeOK, ThreadInv, Solving, runVars, absVars, pdrVars
<1>1. ASSUME CreateAbs \/ IterationsEnd \/ CombUnsat \/ StartBmc
      PROVE  ThreadInv'
  BY <1>1 DEF CreateAbs, IterationsEnd, CombUnsat, CombProved, StartBmc
<1>2. ASSUME Load
      PROVE  ThreadInv'
  BY <1>2 DEF Load, RestoreClauses, RebuildClauses, RebuildStopped, ClearNewAbs
<1>3. ASSUME Pdr
      PROVE  ThreadInv'
  BY <1>3 DEF Pdr, PdrProves, PdrReturns, Saved, NewTrace, PushEnds, PushStopped,
     PdrFails, PdrStops, PdrLimit
<1>4. ASSUME BmcCex \/ BmcUndecided \/ BmcExhausted \/ BmcDeeper
      PROVE  ThreadInv'
  BY <1>4 DEF BmcCex, ThreadUnchanged, WithinFrames, CleanBefore, BmcUndecided, BmcExhausted,
     BmcDeeper, vars
<1>5. ASSUME AfterBmc
      PROVE  ThreadInv'
  BY <1>5 DEF AfterBmc, TestRunId, ThreadUnchanged, MayShrink, ShrinkAbs, CoreFrames,
     ShrinkFails, Signal
<1>6. ASSUME Join
      PROVE  ThreadInv'
  BY <1>6 DEF Join, TestJoin, MainUnchanged, StopThread, Bumped, JoinThread, Joined
<1>7. ASSUME Outcome
      PROVE  ThreadInv'
  BY <1>7 DEF Outcome, NoCex, TheCex, CexReal, RealFrames, CexSpurious
<1>8. ASSUME DropCex \/ Refine \/ RefineNothing
      PROVE  ThreadInv'
  BY <1>8 DEF DropCex, NextIteration, Refine, Unmarked, RefineNothing, MainUnchanged
<1>9. CASE UNCHANGED vars
  BY <1>9 DEF vars
<1> QED
  BY <1>1, <1>2, <1>3, <1>4, <1>5, <1>6, <1>7, <1>8, <1>9
     DEF Next, Main, Thread, BmcAnswers, Done, AfterBmc, Load, Pdr, Join, Outcome

\* A counter-example outlives its iteration only until it was used
LEMMA CexStep ==
  ASSUME TypeOK, CexInv, ThreadInv, [Next]_vars
  PROVE  CexInv'
<1> USE DEF TypeOK, CexInv, ThreadInv, Solving, runVars, absVars, pdrVars, None
<1>1. ASSUME CreateAbs \/ IterationsEnd \/ CombUnsat \/ StartBmc
      PROVE  CexInv'
  BY <1>1 DEF CreateAbs, IterationsEnd, CombUnsat, CombProved, StartBmc
<1>2. ASSUME Load
      PROVE  CexInv'
  BY <1>2 DEF Load, RestoreClauses, RebuildClauses, RebuildStopped, ClearNewAbs
<1>3. ASSUME Pdr
      PROVE  CexInv'
  BY <1>3 DEF Pdr, PdrProves, PdrReturns, Saved, NewTrace, PushEnds, PushStopped,
     PdrFails, PdrStops, PdrLimit
<1>4. ASSUME BmcCex \/ BmcUndecided \/ BmcExhausted \/ BmcDeeper
      PROVE  CexInv'
  BY <1>4 DEF BmcCex, ThreadUnchanged, WithinFrames, CleanBefore, BmcUndecided, BmcExhausted,
     BmcDeeper, vars
<1>5. ASSUME AfterBmc
      PROVE  CexInv'
  BY <1>5 DEF AfterBmc, TestRunId, ThreadUnchanged, MayShrink, ShrinkAbs, CoreFrames,
     ShrinkFails, Signal
<1>6. ASSUME Join
      PROVE  CexInv'
  BY <1>6 DEF Join, TestJoin, MainUnchanged, StopThread, Bumped, JoinThread, Joined
<1>7. ASSUME Outcome
      PROVE  CexInv'
  BY <1>7 DEF Outcome, NoCex, TheCex, CexReal, RealFrames, CexSpurious
<1>8. ASSUME DropCex \/ Refine \/ RefineNothing
      PROVE  CexInv'
  BY <1>8 DEF DropCex, NextIteration, Refine, Unmarked, RefineNothing, MainUnchanged
<1>9. CASE UNCHANGED vars
  BY <1>9 DEF vars
<1> QED
  BY <1>1, <1>2, <1>3, <1>4, <1>5, <1>6, <1>7, <1>8, <1>9
     DEF Next, Main, Thread, BmcAnswers, Done, AfterBmc, Load, Pdr, Join, Outcome

\* What BMC has excluded when the thread shrinks the abstraction
LEMMA CleanStep ==
  ASSUME TypeOK, DesignInv, ThreadInv, CexInv, CleanInv, [Next]_vars
  PROVE  CleanInv'
<1> USE DEF TypeOK, ThreadInv, Solving, CexInv, CleanInv, ShrunkClean, CleanBefore, Stopped, None,
      runVars, absVars, pdrVars
<1>1. ASSUME CreateAbs \/ IterationsEnd \/ CombUnsat \/ StartBmc
      PROVE  CleanInv'
  BY <1>1 DEF CreateAbs, IterationsEnd, CombUnsat, CombProved, StartBmc
<1>2. ASSUME Load
      PROVE  CleanInv'
  BY <1>2 DEF Load, RestoreClauses, RebuildClauses, RebuildStopped, ClearNewAbs
<1>3. ASSUME Pdr
      PROVE  CleanInv'
  BY <1>3 DEF Pdr, PdrProves, PdrReturns, Saved, NewTrace, PushEnds, PushStopped,
     PdrFails, PdrStops, PdrLimit
<1>4. ASSUME BmcCex \/ BmcUndecided \/ BmcExhausted \/ BmcDeeper
      PROVE  CleanInv'
  BY <1>4 DEF BmcCex, ThreadUnchanged, WithinFrames, CleanBefore, BmcUndecided, BmcExhausted,
     BmcDeeper, vars
<1>5. ASSUME AfterBmc
      PROVE  CleanInv'
  <2>1. CASE ShrinkAbs
    <3>1. PICK core \in SUBSET whites : CoreExcludes(core) /\ vUnmark' = vUnmark \ (whites \ core)
      BY <2>1 DEF ShrinkAbs
    <3>2. vUnmark' = core /\ fails' = fails
      BY <2>1, <3>1 DEF ShrinkAbs, ThreadUnchanged
    <3>3. \A k \in fails[core] : k >= iCexFrame'
      BY <2>1, <3>1 DEF CoreExcludes, CoreFrames, DesignInv, ShrinkAbs
    <3>4. \A k \in fails[{}] : k <= iCexFrame => k <= iCexFrame'
      BY <2>1, WlaAssumption DEF ShrinkAbs
    <3> QED
      <4>1. thread' \in {"signal", "done"} /\ nIters' = nIters /\ nIters > 1
        BY <2>1 DEF ShrinkAbs, ThreadUnchanged
      <4>2. \E k \in fails'[{}] : k <= iCexFrame'
        BY <4>1, <3>2, <3>4
      <4>3. ShrunkClean'
        BY <3>2, <3>3
      <4> QED
        BY <4>1, <4>2, <4>3
  <2>2. CASE ShrinkFails
    BY <2>2, WlaAssumption DEF ShrinkFails, ThreadUnchanged, CoreExcludes
  <2>3. CASE TestRunId \/ Signal
    BY <2>3, WlaAssumption DEF TestRunId, ThreadUnchanged, MayShrink, Signal
  <2> QED
    BY <1>5, <2>1, <2>2, <2>3 DEF AfterBmc
<1>6. ASSUME Join
      PROVE  CleanInv'
  BY <1>6 DEF Join, TestJoin, MainUnchanged, StopThread, Bumped, JoinThread, Joined
<1>7. ASSUME Outcome
      PROVE  CleanInv'
  BY <1>7 DEF Outcome, NoCex, TheCex, CexReal, RealFrames, CexSpurious
<1>8. ASSUME DropCex \/ Refine \/ RefineNothing
      PROVE  CleanInv'
  <2>1. fails[whites] \subseteq fails[{}]
    BY DEF DesignInv
  <2> QED
    BY <1>8, <2>1 DEF DropCex, NextIteration, Refine, Unmarked, RefineNothing, MainUnchanged
<1>9. CASE UNCHANGED vars
  BY <1>9 DEF vars
<1> QED
  BY <1>1, <1>2, <1>3, <1>4, <1>5, <1>6, <1>7, <1>8, <1>9
     DEF Next, Main, Thread, BmcAnswers, Done, AfterBmc, Load, Pdr, Join, Outcome

\* Without -s nothing but the thread's shrink sets fNewAbs
LEMMA NoShrinkStep ==
  ASSUME TypeOK, CleanInv, NoShrinkInv, [Next]_vars
  PROVE  NoShrinkInv'
<1> USE DEF TypeOK, CleanInv, NoShrinkInv, Stopped, runVars, absVars, pdrVars
<1>1. ASSUME CreateAbs \/ IterationsEnd \/ CombUnsat \/ StartBmc
      PROVE  NoShrinkInv'
  BY <1>1 DEF CreateAbs, IterationsEnd, CombUnsat, CombProved, StartBmc
<1>2. ASSUME Load
      PROVE  NoShrinkInv'
  BY <1>2 DEF Load, RestoreClauses, RebuildClauses, RebuildStopped, ClearNewAbs
<1>3. ASSUME Pdr
      PROVE  NoShrinkInv'
  BY <1>3 DEF Pdr, PdrProves, PdrReturns, PushEnds, PushStopped, PdrFails, PdrStops, PdrLimit
<1>4. ASSUME BmcCex \/ BmcUndecided \/ BmcExhausted \/ BmcDeeper
      PROVE  NoShrinkInv'
  BY <1>4, ParsType DEF BmcCex, ThreadUnchanged, WithinFrames, CleanBefore, None,
     BmcUndecided, BmcExhausted, BmcDeeper, vars
<1>5. ASSUME AfterBmc
      PROVE  NoShrinkInv'
  BY <1>5 DEF AfterBmc, TestRunId, ThreadUnchanged, MayShrink, ShrinkAbs, CoreFrames,
     ShrinkFails, Signal
<1>6. ASSUME Join
      PROVE  NoShrinkInv'
  BY <1>6 DEF Join, TestJoin, MainUnchanged, StopThread, Bumped, JoinThread, Joined
<1>7. ASSUME Outcome
      PROVE  NoShrinkInv'
  BY <1>7 DEF Outcome, NoCex, TheCex, CexReal, RealFrames, CexSpurious
<1>8. ASSUME DropCex \/ Refine \/ RefineNothing
      PROVE  NoShrinkInv'
  BY <1>8 DEF DropCex, NextIteration, Refine, Unmarked, RefineNothing, MainUnchanged
<1>9. CASE UNCHANGED vars
  BY <1>9 DEF vars
<1> QED
  BY <1>1, <1>2, <1>3, <1>4, <1>5, <1>6, <1>7, <1>8, <1>9
     DEF Next, Main, Thread, BmcAnswers, Done, AfterBmc, Load, Pdr, Join, Outcome

\* Only the thread stops PDR, with a counter-example or a smaller abstraction
LEMMA StopStep ==
  ASSUME TypeOK, ThreadInv, CexInv, CleanInv, StopInv, [Next]_vars
  PROVE  StopInv'
<1>0. UNCHANGED <<whites, trace, atFrameMax>> => (LimitReached' <=> LimitReached)
  <2> SUFFICES ASSUME UNCHANGED <<whites, trace, atFrameMax>>
               PROVE  LimitReached' <=> LimitReached
    OBVIOUS
  <2>1. fails' = fails
    BY RunStep DEF runVars
  <2>2. (whites \cup trace)' = whites \cup trace
    OBVIOUS
  <2> QED
    BY <2>1, <2>2 DEF LimitReached, CleanBefore
<1> USE <1>0 DEF TypeOK, ThreadInv, Solving, CexInv, StopInv, NoneExplained, Stopped, runVars,
      absVars, pdrVars
<1>1. ASSUME CreateAbs \/ IterationsEnd \/ CombUnsat \/ StartBmc
      PROVE  StopInv'
  BY <1>1 DEF CreateAbs, IterationsEnd, CombUnsat, CombProved, StartBmc
<1>2. ASSUME Load
      PROVE  StopInv'
  BY <1>2 DEF Load, RestoreClauses, RebuildClauses, RebuildStopped, ClearNewAbs
<1>3. ASSUME Pdr
      PROVE  StopInv'
  <2>1. CASE PdrLimit
    <3>1. LimitReached'
      BY <2>1, RunStep DEF PdrLimit, PdrReturns, LimitReached, CleanBefore
    <3> QED
      BY <2>1, <3>1 DEF PdrLimit, PdrReturns
  <2>2. CASE PdrProves \/ PushEnds \/ PushStopped \/ PdrFails \/ PdrStops
    BY <2>2 DEF PdrProves, PdrReturns, PushEnds, PushStopped, PdrFails, PdrStops
  <2> QED
    BY <1>3, <2>1, <2>2 DEF Pdr
<1>4. ASSUME BmcCex \/ BmcUndecided \/ BmcExhausted \/ BmcDeeper
      PROVE  StopInv'
  BY <1>4, ParsType DEF BmcCex, ThreadUnchanged, WithinFrames, CleanBefore, None,
     BmcUndecided, BmcExhausted, BmcDeeper, vars
<1>5. ASSUME AfterBmc
      PROVE  StopInv'
  BY <1>5 DEF AfterBmc, TestRunId, ThreadUnchanged, MayShrink, ShrinkAbs, CoreFrames,
     ShrinkFails, Signal
<1>6. ASSUME Join
      PROVE  StopInv'
  BY <1>6 DEF Join, TestJoin, MainUnchanged, StopThread, Bumped, JoinThread, Joined
<1>7. ASSUME Outcome
      PROVE  StopInv'
  BY <1>7 DEF Outcome, NoCex, TheCex, CexReal, RealFrames, CexSpurious
<1>8. ASSUME DropCex \/ Refine \/ RefineNothing
      PROVE  StopInv'
  BY <1>8 DEF DropCex, NextIteration, Refine, Unmarked, RefineNothing, MainUnchanged
<1>9. CASE UNCHANGED vars
  BY <1>9 DEF vars
<1> QED
  BY <1>1, <1>2, <1>3, <1>4, <1>5, <1>6, <1>7, <1>8, <1>9
     DEF Next, Main, Thread, BmcAnswers, Done, AfterBmc, Load, Pdr, Join, Outcome

\* Without -s no step takes anything away from the abstraction
LEMMA TraceStep ==
  ASSUME TypeOK, ThreadInv, NoShrinkInv, TraceInv, [Next]_vars
  PROVE  TraceInv'
<1> USE DEF TypeOK, ThreadInv, Solving, NoShrinkInv, TraceInv, runVars, absVars, pdrVars
<1>1. ASSUME CreateAbs \/ IterationsEnd \/ CombUnsat \/ StartBmc
      PROVE  TraceInv'
  BY <1>1 DEF CreateAbs, IterationsEnd, CombUnsat, CombProved, StartBmc
<1>2. ASSUME Load
      PROVE  TraceInv'
  BY <1>2 DEF Load, RestoreClauses, RebuildClauses, RebuildStopped, ClearNewAbs
<1>3. ASSUME Pdr
      PROVE  TraceInv'
  BY <1>3 DEF Pdr, PdrProves, PdrReturns, Saved, NewTrace, PushEnds, PushStopped,
     PdrFails, PdrStops, PdrLimit
<1>4. ASSUME BmcCex \/ BmcUndecided \/ BmcExhausted \/ BmcDeeper
      PROVE  TraceInv'
  BY <1>4 DEF BmcCex, ThreadUnchanged, WithinFrames, CleanBefore, BmcUndecided, BmcExhausted,
     BmcDeeper, vars
<1>5. ASSUME AfterBmc
      PROVE  TraceInv'
  BY <1>5 DEF AfterBmc, TestRunId, ThreadUnchanged, MayShrink, ShrinkAbs, CoreFrames,
     ShrinkFails, Signal
<1>6. ASSUME Join
      PROVE  TraceInv'
  BY <1>6 DEF Join, TestJoin, MainUnchanged, StopThread, Bumped, JoinThread, Joined
<1>7. ASSUME Outcome
      PROVE  TraceInv'
  BY <1>7 DEF Outcome, NoCex, TheCex, CexReal, RealFrames, CexSpurious
<1>8. ASSUME DropCex \/ Refine \/ RefineNothing
      PROVE  TraceInv'
  BY <1>8 DEF DropCex, NextIteration, Refine, Unmarked, RefineNothing, MainUnchanged
<1>9. CASE UNCHANGED vars
  BY <1>9 DEF vars
<1> QED
  BY <1>1, <1>2, <1>3, <1>4, <1>5, <1>6, <1>7, <1>8, <1>9
     DEF Next, Main, Thread, BmcAnswers, Done, AfterBmc, Load, Pdr, Join, Outcome

\* Every answer rests on an abstraction that does not fail, or on the design itself
LEMMA AnswerStep ==
  ASSUME GatelessSafe, PushSafe, TypeOK, DesignInv, CexInv, StopInv, TraceInv, AnswerInv, [Next]_vars
  PROVE  AnswerInv'
<1> USE DEF GatelessSafe, TypeOK, CexInv, AnswerInv, Solving, AnswersRight, runVars, absVars, pdrVars
<1>1. ASSUME CreateAbs
      PROVE  AnswerInv'
  BY <1>1 DEF CreateAbs
<1>2. ASSUME IterationsEnd
      PROVE  AnswerInv'
  BY <1>2 DEF IterationsEnd
<1>3. ASSUME CombUnsat
      PROVE  AnswerInv'
  <2>1. fails[Signals] \subseteq fails[whites]
    BY DEF DesignInv
  <2> QED
    BY <1>3, <2>1 DEF CombUnsat, CombProved
<1>4. ASSUME StartBmc
      PROVE  AnswerInv'
  BY <1>4 DEF StartBmc
<1>5. ASSUME Load
      PROVE  AnswerInv'
  BY <1>5 DEF Load, RestoreClauses, RebuildClauses, RebuildStopped, ClearNewAbs
<1>6. ASSUME Pdr
      PROVE  AnswerInv'
  <2>1. fails[Signals] \subseteq fails[whites \cup trace]
    BY DEF DesignInv
  <2>2. CASE PdrProves
    BY <2>1, <2>2 DEF PdrProves, PdrReturns
  <2>3. CASE PushStopped
    <3>1. pBmcCex # None
      BY <2>3 DEF PushStopped, PushSafe, StopInv, TraceInv, Solving
    <3> QED
      BY <2>3, <3>1 DEF PushStopped, PdrReturns
  <2>4. CASE PushEnds \/ PdrFails \/ PdrStops \/ PdrLimit
    BY <2>4 DEF PushEnds, PdrFails, PdrStops, PdrLimit, PdrReturns
  <2> QED
    BY <1>6, <2>2, <2>3, <2>4 DEF Pdr
<1>7. ASSUME BmcCex \/ BmcUndecided \/ BmcExhausted \/ BmcDeeper
      PROVE  AnswerInv'
  <2>1. fails[whites] \subseteq Nat /\ None \notin Nat
    BY DEF None
  <2> QED
    BY <1>7, <2>1 DEF BmcCex, ThreadUnchanged, BmcUndecided, BmcExhausted, BmcDeeper, vars
<1>8. ASSUME AfterBmc
      PROVE  AnswerInv'
  BY <1>8 DEF AfterBmc, TestRunId, ThreadUnchanged, MayShrink, ShrinkAbs, CoreFrames,
     ShrinkFails, Signal
<1>9. ASSUME Join
      PROVE  AnswerInv'
  BY <1>9 DEF Join, TestJoin, MainUnchanged, StopThread, Bumped, JoinThread, Joined
<1>10. ASSUME Outcome
      PROVE  AnswerInv'
  <2>1. CASE NoCex
    BY <2>1 DEF NoCex, TheCex
  <2>2. CASE CexReal
    <3>1. pCex' \in outs[Signals] /\ pc' = "done" /\ RetValue' = 0 /\ UNCHANGED <<fails, outs, pPars>>
      BY <2>2 DEF CexReal, RealFrames
    <3> QED
      BY <3>1 DEF DesignInv
  <2>3. CASE CexSpurious
    BY <2>3 DEF CexSpurious
  <2> QED
    BY <1>10, <2>1, <2>2, <2>3 DEF Outcome
<1>11. ASSUME DropCex \/ Refine \/ RefineNothing
      PROVE  AnswerInv'
  BY <1>11 DEF DropCex, NextIteration, Refine, Unmarked, RefineNothing, MainUnchanged
<1>12. CASE UNCHANGED vars
  BY <1>12 DEF vars
<1> QED
  BY <1>1, <1>2, <1>3, <1>4, <1>5, <1>6, <1>7, <1>8, <1>9, <1>10, <1>11, <1>12
     DEF Next, Main, Thread, BmcAnswers, Done, AfterBmc, Load, Pdr, Join, Outcome

-----------------------------------------------------------------------------
(* What holds of every run *)

LEMMA InitInv == Init => Inv
<1> SUFFICES ASSUME Init PROVE Inv
  OBVIOUS
<1> USE DEF Init
<1>1. TypeOK
  BY InitType
<1>2. ThreadInv
  BY DEF ThreadInv, Solving
<1>3. CexInv /\ CleanInv
  BY DEF CexInv, CleanInv, ShrunkClean, None
<1>4. StopInv /\ NoShrinkInv /\ TraceInv
  BY DEF StopInv, NoShrinkInv, TraceInv, Stopped, Solving
<1>5. DesignInv
  <2>1. PICK d \in Designs : outs = d.outs /\ fails = BitBlasted(d)
    OBVIOUS
  <2> QED
    BY <2>1, DesignsAssumption DEF DesignInv, BitBlasted
<1> QED
  BY <1>1, <1>2, <1>3, <1>4, <1>5 DEF Inv

LEMMA InvCorrect == Spec => []Inv
<1>1. Inv /\ [Next]_vars => Inv'
  BY TypeStep, DesignStep, ThreadStep, CexStep, CleanStep, StopStep, NoShrinkStep,
     TraceStep DEF Inv
<1> QED
  BY <1>1, InitInv, PTL DEF Spec

\* The thread has ended and was joined when Wla_ManSolveInt returns and when the abstraction
\* is changed (wlcPth.c:69-83): it writes to nothing that is gone or being read
THEOREM ThreadJoinedCorrect == Spec => []ThreadJoined
<1>1. Inv => ThreadJoined
  BY DEF Inv, ThreadInv, Solving, ThreadJoined
<1> QED
  BY <1>1, InvCorrect, PTL

\* A shrunk abstraction excludes the failures BMC excluded (wlcAbs.c:1350-1377)
THEOREM ShrunkCleanCorrect == Spec => []ShrunkClean
<1>1. Inv => ShrunkClean
  BY DEF Inv, CleanInv
<1> QED
  BY <1>1, InvCorrect, PTL

\* The assertion of Wlc_NtkProofReduce holds: with all boxes black there would be a failure
\* within the timeframes that BMC has excluded (wlcAbs.c:692)
THEOREM WhitesNonEmptyCorrect == Spec => []WhitesNonEmpty
<1>1. Inv => WhitesNonEmpty
  <2> SUFFICES ASSUME Inv, thread = "shrink", whites = {} PROVE FALSE
    BY DEF WhitesNonEmpty
  <2>1. PICK k \in fails[{}] : k <= iCexFrame
    BY DEF Inv, CleanInv
  <2>2. k >= iCexFrame + nFramesNoChangeLim
    BY <2>1 DEF Inv, CleanInv, CleanBefore
  <2>3. k \in Nat /\ iCexFrame \in Nat
    BY <2>1 DEF Inv, TypeOK
  <2> QED
    BY <2>1, <2>2, <2>3, WlaAssumption
<1> QED
  BY <1>1, InvCorrect, PTL

\* Wla_ManRefine follows a null pointer only where PDR came to its limit of timeframes and there
\* is no counter-example below it, or with -s where the thread has shrunk the abstraction; only
\* with -s the assertion in IPdr_ManRebuildClauses fails (wlcAbs.c:1509-1556)
THEOREM CrashOnlyByLimitOrShrinkCorrect == Spec => []CrashOnlyByLimitOrShrink
<1>1. Inv => CrashOnlyByLimitOrShrink
  BY DEF Inv, StopInv, NoneExplained, LimitReached, NoShrinkInv, TraceInv, CrashOnlyByLimitOrShrink
<1> QED
  BY <1>1, InvCorrect, PTL

\* Without -s PDR is given a trace of an abstraction that kept no more (wlcAbs.c:1517-1528)
THEOREM TraceFitsCorrect == Spec => []TraceFits
<1>1. Inv => TraceFits
  BY DEF Inv, TraceInv, TraceFits
<1> QED
  BY <1>1, InvCorrect, PTL

\* A design that is reported proved does not fail, as long as no abstraction without gates
\* fails (-u, wlcAbs.c:1457) and -p is not used with -s (pdrIncr.c:421-434).  Of a real
\* counter-example only this is claimed: an output is 1 in its timeframe, which is a failure
\* where the outputs are not XORed (wlcAbs.c:1416-1421)
THEOREM AnswersCorrect == GatelessSafe /\ PushSafe => (Spec => []AnswersRight)
<1> SUFFICES ASSUME GatelessSafe, PushSafe PROVE Spec => []AnswersRight
  OBVIOUS
<1>1. Init => AnswerInv
  BY DEF Init, AnswerInv, AnswersRight, Solving
<1>2. Inv /\ AnswerInv /\ [Next]_vars => AnswerInv'
  BY AnswerStep DEF Inv
<1>3. AnswerInv => AnswersRight
  BY DEF AnswerInv
<1> QED
  BY <1>1, <1>2, <1>3, InvCorrect, PTL DEF Spec
-----------------------------------------------------------------------------
(***************************************************************************)
(* The two threads do not keep each other going, and the join does not     *)
(* wait for a thread that nobody stops.  Every step, but for BMC's, which  *)
(* may take another timeframe unseen, lowers the iterations that are left, *)
(* the place in the iteration or the place of the thread.                  *)
(***************************************************************************)

\* A thread that is waited for exists and has been told to stop
WaitsStopped == pc = "wait" => thread # "none" /\ Stopped

RankInv ==
  /\ pc \in Solving /\ pPars.fUseBmc3 => thread # "none"
  /\ pc \in {"join", "bump"} => thread # "none"
  /\ WaitsStopped
  /\ pc \notin {"create", "done"} => nIters < nIterMax

ItersLeft == IF nIters < nIterMax THEN nIterMax - nIters ELSE 0
Place ==
  CASE pc = "create" -> 12 [] pc = "comb" -> 11 [] pc = "start" -> 10 [] pc = "load" -> 9
    [] pc \in {"restored", "rebuilt"} -> 8 [] pc = "push" -> 7 [] pc = "pdr" -> 6
    [] pc = "join" -> 5 [] pc = "bump" -> 4 [] pc = "wait" -> 3 [] pc = "outcome" -> 2
    [] pc = "refine" -> 1 [] OTHER -> 0
ThreadPlace ==
  CASE thread = "bmc" -> 4 [] thread = "undecided" -> 3 [] thread = "shrink" -> 2
    [] thread = "signal" -> 1 [] OTHER -> 0

Rank == <<ItersLeft, Place, ThreadPlace>>

RankTyped == Rank \in [1 .. 3 -> Nat]

Descent == LexProductOrdering(OpToRel(<, Nat), Nat, 3)

\* The step takes the rank down
Descends == <<Rank', Rank>> \in Descent

\* There is no infinite descent
LEMMA DescentEnds == IsWellFoundedOn(Descent, [1 .. 3 -> Nat])
BY NatLessThanWellFounded, WFLexProductOrdering DEF Descent

LEMMA TupleDescends ==
  ASSUME NEW a \in [1 .. 3 -> Nat], NEW b \in [1 .. 3 -> Nat],
         NEW j \in 1 .. 3, a[j] < b[j], \A i \in 1 .. j - 1 : a[i] = b[i]
  PROVE  <<a, b>> \in Descent
BY DEF Descent, LexProductOrdering, OpToRel

LEMMA RankStep ==
  ASSUME TypeOK, ThreadInv, RankInv, [Next]_vars
  PROVE  RankInv'
<1> USE DEF TypeOK, ThreadInv, Solving, RankInv, WaitsStopped, Stopped, runVars, absVars, pdrVars
<1>1. ASSUME CreateAbs \/ IterationsEnd \/ CombUnsat \/ StartBmc
      PROVE  RankInv'
  BY <1>1 DEF CreateAbs, IterationsEnd, CombUnsat, StartBmc
<1>2. ASSUME Load
      PROVE  RankInv'
  BY <1>2 DEF Load, RestoreClauses, RebuildClauses, RebuildStopped, ClearNewAbs
<1>3. ASSUME Pdr
      PROVE  RankInv'
  BY <1>3 DEF Pdr, PdrProves, PdrReturns, Saved, NewTrace, PushEnds, PushStopped,
     PdrFails, PdrStops, PdrLimit
<1>4. ASSUME BmcAnswers \/ BmcExhausted \/ BmcDeeper \/ AfterBmc
      PROVE  RankInv'
  BY <1>4 DEF BmcAnswers, BmcCex, ThreadUnchanged, BmcUndecided, BmcExhausted, BmcDeeper, vars,
     AfterBmc, TestRunId, ShrinkAbs, ShrinkFails, Signal
<1>5. ASSUME Join
      PROVE  RankInv'
  BY <1>5 DEF Join, TestJoin, MainUnchanged, StopThread, Bumped, JoinThread, Joined
<1>6. ASSUME Outcome
      PROVE  RankInv'
  BY <1>6 DEF Outcome, NoCex, CexReal, CexSpurious
<1>7. ASSUME DropCex \/ Refine \/ RefineNothing
      PROVE  RankInv'
  BY <1>7 DEF DropCex, NextIteration, Refine, RefineNothing, MainUnchanged
<1>8. CASE UNCHANGED vars
  BY <1>8 DEF vars
<1> QED
  BY <1>1, <1>2, <1>3, <1>4, <1>5, <1>6, <1>7, <1>8 DEF Next, Main, Thread, Done

\* The first number that changes goes down
Lower ==
  \/ ItersLeft' < ItersLeft
  \/ ItersLeft' = ItersLeft /\ Place' < Place
  \/ ItersLeft' = ItersLeft /\ Place' = Place /\ ThreadPlace' < ThreadPlace

LEMMA StepLowers ==
  ASSUME TypeOK, RankInv, Next, vars' # vars
  PROVE  Lower
<1> USE DEF TypeOK, RankInv, Solving, Lower, runVars, absVars, pdrVars
<1>1. ASSUME CreateAbs \/ IterationsEnd \/ CombUnsat \/ StartBmc
      PROVE  Lower
  BY <1>1 DEF CreateAbs, IterationsEnd, CombUnsat, StartBmc, ItersLeft, Place
<1>2. ASSUME Load
      PROVE  Lower
  BY <1>2 DEF Load, RestoreClauses, RebuildClauses, RebuildStopped, ClearNewAbs, ItersLeft, Place
<1>3. ASSUME Pdr
      PROVE  Lower
  <2>1. /\ \/ pc = "push" /\ pc' \in {"pdr", "join", "outcome"}
           \/ pc = "pdr" /\ pc' \in {"join", "outcome"}
        /\ nIters' = nIters
    BY <1>3 DEF Pdr, PdrProves, PdrReturns, PushEnds, PushStopped, PdrFails, PdrStops,
       PdrLimit
  <2> QED
    BY <2>1 DEF ItersLeft, Place
<1>4. ASSUME BmcAnswers \/ BmcExhausted \/ AfterBmc
      PROVE  Lower
  <2>1. ItersLeft' = ItersLeft /\ Place' = Place
    BY <1>4 DEF BmcAnswers, BmcCex, ThreadUnchanged, BmcUndecided, BmcExhausted, AfterBmc, TestRunId,
       ShrinkAbs, ShrinkFails, Signal, ItersLeft, Place
  <2>2. ThreadPlace' < ThreadPlace
    BY <1>4 DEF BmcAnswers, BmcCex, BmcUndecided, BmcExhausted, AfterBmc, TestRunId, ShrinkAbs,
       ShrinkFails, Signal, ThreadPlace
  <2> QED
    BY <2>1, <2>2
<1>5. ASSUME Join
      PROVE  Lower
  BY <1>5 DEF Join, TestJoin, MainUnchanged, StopThread, JoinThread, ItersLeft, Place
<1>6. ASSUME Outcome
      PROVE  Lower
  BY <1>6 DEF Outcome, NoCex, CexReal, CexSpurious, ItersLeft, Place
<1>7. ASSUME DropCex \/ Refine
      PROVE  Lower
  <2>1. nIters < nIterMax /\ nIters' = nIters + 1
    BY <1>7 DEF DropCex, NextIteration, Refine
  <2> QED
    BY <2>1, WlaAssumption DEF ItersLeft
<1>8. ASSUME RefineNothing
      PROVE  Lower
  BY <1>8 DEF RefineNothing, MainUnchanged, ItersLeft, Place
<1> QED
  BY <1>1, <1>2, <1>3, <1>4, <1>5, <1>6, <1>7, <1>8 DEF Next, Main, Thread, BmcDeeper, Done

LEMMA LowerDescends ==
  ASSUME RankTyped, RankTyped', Lower
  PROVE  Descends
<1>1. /\ Rank[1] = ItersLeft /\ Rank[2] = Place /\ Rank[3] = ThreadPlace
      /\ Rank'[1] = ItersLeft' /\ Rank'[2] = Place' /\ Rank'[3] = ThreadPlace'
  BY DEF Rank
<1> USE DEF RankTyped, Descends
<1>2. CASE ItersLeft' < ItersLeft
  BY <1>1, <1>2, TupleDescends
<1>3. CASE ItersLeft' = ItersLeft /\ Place' < Place
  BY <1>1, <1>3, TupleDescends
<1>4. CASE ItersLeft' = ItersLeft /\ Place' = Place /\ ThreadPlace' < ThreadPlace
  BY <1>1, <1>4, TupleDescends
<1> QED
  BY <1>2, <1>3, <1>4 DEF Lower

LEMMA RankInvCorrect == Spec => []RankInv
<1>1. Init => RankInv
  BY DEF Init, RankInv, WaitsStopped, Solving
<1>2. Inv /\ RankInv /\ [Next]_vars => RankInv'
  BY RankStep DEF Inv
<1> QED
  BY <1>1, <1>2, InvCorrect, PTL DEF Spec

\* The main thread waits only for a thread that was told to stop, by itself or by the other,
\* so that the join ends although the run number is tested without the lock (wlcPth.c:69-83)
THEOREM WaitsStoppedCorrect == Spec => []WaitsStopped
<1>1. RankInv => WaitsStopped
  BY DEF RankInv
<1> QED
  BY <1>1, RankInvCorrect, PTL

\* Every step of either thread that changes anything takes the rank down in an order without
\* infinite descent: no run changes its state forever, and all that may go on is BMC, which looks
\* at one timeframe after the other until it is stopped (wlcAbs.c:1708-1726)
THEOREM EveryStepDescends ==
  /\ Spec => [][Descends]_vars
  /\ IsWellFoundedOn(Descent, [1 .. 3 -> Nat])
<1>1. Inv => RankTyped
  <2>1. ASSUME Inv PROVE ItersLeft \in Nat
    BY <2>1, WlaAssumption DEF Inv, TypeOK, ItersLeft
  <2>2. Place \in Nat /\ ThreadPlace \in Nat
    BY DEF Place, ThreadPlace
  <2> QED
    BY <2>1, <2>2 DEF Rank, RankTyped
<1>2. Inv /\ RankInv /\ RankTyped /\ RankTyped' /\ [Next]_vars
        => [Descends]_vars
  BY StepLowers, LowerDescends DEF Inv
<1>3. Spec => [][Descends]_vars
  BY <1>1, <1>2, InvCorrect, RankInvCorrect, PTL DEF Spec
<1> QED
  BY <1>3, DescentEnds
==============================================================================
