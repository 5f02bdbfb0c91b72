--------------------------------- MODULE Gla ---------------------------------
(***************************************************************************)
(* `&gla', gate-level abstraction (src/proof/abs/absGla.c), with prover    *)
(* threads it starts and cancels by run number (src/proof/abs/absPth.c).   *)
(*                                                                         *)
(* An abstraction is a set of objects (gates and registers) that keep      *)
(* their function; the others are free inputs.  Of a design the model      *)
(* keeps in which timeframes its output can fail under each abstraction.   *)
(***************************************************************************)
EXTENDS Integers, FiniteSets

CONSTANTS
  Objs,                    \* the objects that can be abstracted
  NOuts,                   \* the outputs of the circuit, solved one by one
  Designs,                 \* what an output may be: fails[abstraction] is a set of timeframes
  Start,                   \* per output: the abstraction it starts with
  Const0, Const1,          \* the outputs that are constants
  nFramesMax,              \* -F
  nFramesStart,            \* -S
  UseSkip,                 \* -s may be given, or not
  fCallProver,             \* -q
  nFramesNoChangeLim,      \* -B
  nRatioMax,               \* -P
  RestartFrame,            \* bounds for the constants 20 and 100 of the code: a restart
  RestartSize,             \* is forced only in later timeframes or beyond that size
  Limits                   \* is there a limit on conflicts, time or size?

Outs == 0 .. NOuts - 1

ASSUME GlaAssumption ==
  /\ IsFiniteSet(Objs) /\ NOuts \in Nat \ {0} /\ Start \in [Outs -> SUBSET Objs]
  /\ Const0 \subseteq Outs /\ Const1 \subseteq Outs
  /\ nFramesMax \in Nat /\ nFramesStart \in Nat /\ nFramesNoChangeLim \in Nat /\ nRatioMax \in Nat
  /\ UseSkip \subseteq BOOLEAN /\ {fCallProver, Limits} \subseteq BOOLEAN

\* Keeping more objects only removes failures
ASSUME DesignsAssumption ==
  \A d \in Designs :
    /\ d \in [SUBSET Objs -> SUBSET Nat]
    /\ \A a, b \in SUBSET Objs : a \subseteq b => d[b] \subseteq d[a]

VARIABLES
  fails,                   \* the circuit: one of Designs for every output
  fUseSkip,                \* -s
  pc, iOut,                \* where the main thread is, and the output it solves
  vGateClasses, vAbs,      \* the abstraction of the design, and the one being worked on
  absOld,                  \* what the first nAbs entries of vAbs hold
  nAbsOld,                 \* the size of vAbs at the last restart
  f, refined,              \* the timeframe, and whether c > 0
  nFramesNoChange, iFrameProved,  \* fields of pPars, which all outputs share
  iFrameTryToProve,
  RetValue, vStatuses,     \* the answer for this output, and those of the others
  g_nRunIds, g_fAbstractionProved,
  provers                  \* the threads: their run number, what they prove, how far they are

absVars   == <<vGateClasses, vAbs, absOld, nAbsOld>>
frameVars == <<f, refined>>
parVars   == <<nFramesNoChange, iFrameProved>>
outVars   == <<fails, fUseSkip, iOut, vStatuses>>
proofVars == <<g_nRunIds, g_fAbstractionProved, provers>>
vars == <<outVars, pc, absVars, frameVars, parVars, iFrameTryToProve, RetValue, proofVars>>

Locations == {"output", "restart", "frame", "solve", "check", "clear", "extend", "forget",
              "create", "next", "finish", "done"}

FailsIn(a)   == fails[iOut][a]
Proves(o, a) == fails[o][a] = {}

\* nFramesMax = 0 is no limit
MoreFrames(n) == nFramesMax = 0 \/ n < nFramesMax

Init ==
  /\ fails \in [Outs -> Designs] /\ fUseSkip \in UseSkip
  /\ pc = "output" /\ iOut = 0 /\ vStatuses = [o \in Outs |-> "none"]
  /\ vGateClasses = {} /\ vAbs = {} /\ absOld = {} /\ nAbsOld = 0
  /\ f = 0 /\ refined = FALSE
  /\ nFramesNoChange = 0 /\ iFrameProved = -1
  /\ iFrameTryToProve = -1 /\ RetValue = "undecided"
  /\ g_nRunIds = 0 /\ g_fAbstractionProved = FALSE /\ provers = {}

-----------------------------------------------------------------------------
(* Gia_ManPerformGla up to the unrolling *)

TrivialOutput ==
  /\ pc = "output" /\ iOut \in Const0 \cup Const1
  /\ vStatuses' = [vStatuses EXCEPT ![iOut] = IF iOut \in Const0 THEN "proved" ELSE "failed"]
  /\ iOut' = iOut + 1
  /\ UNCHANGED <<fails, fUseSkip, pc, absVars, frameVars, parVars, iFrameTryToProve, RetValue, proofVars>>

StartOutput ==
  /\ pc = "output" /\ iOut \in Outs \ (Const0 \cup Const1)
  /\ vGateClasses' = Start[iOut]
  /\ iFrameTryToProve' = -1 /\ RetValue' = "undecided" /\ f' = 0
  /\ pc' = "restart"
  /\ UNCHANGED <<outVars, vAbs, absOld, nAbsOld, refined, parVars, proofVars>>

AllOutputs ==
  /\ pc = "output" /\ iOut = NOuts
  /\ pc' = "done"
  /\ UNCHANGED <<outVars, absVars, frameVars, parVars, iFrameTryToProve, RetValue, proofVars>>

\* Ga2_ManRestart: the constant is an entry of vAbs, too
Restart ==
  /\ pc = "restart"
  /\ vAbs' = vGateClasses
  /\ nAbsOld' = Cardinality(vGateClasses) + 1
  /\ f' = 0
  /\ pc' = "frame"
  /\ UNCHANGED <<outVars, vGateClasses, absOld, refined, parVars, iFrameTryToProve, RetValue,
                 proofVars>>

-----------------------------------------------------------------------------
(* One timeframe *)

\* -S: the first timeframes are not checked
Unchecked == IF nFramesStart = 0 THEN {} ELSE 0 .. nFramesStart

\* A mutant of Skipped: one timeframe more
SkippedOneMore(n) == n \in Unchecked \/ (fUseSkip /\ n <= iFrameProved + 1)

Skipped(n) == n \in Unchecked \/ (fUseSkip /\ n <= iFrameProved)

\* The timeframe is skipped, or its output literal is the constant 0
SkipFrame ==
  /\ pc = "frame" /\ MoreFrames(f)
  /\ Skipped(f) \/ f \notin FailsIn(vAbs)
  /\ absOld' = vAbs /\ refined' = FALSE
  /\ f' = f + 1
  /\ UNCHANGED <<outVars, pc, vGateClasses, vAbs, nAbsOld, parVars, iFrameTryToProve, RetValue,
                 proofVars>>

StartFrame ==
  /\ pc = "frame" /\ MoreFrames(f) /\ ~Skipped(f)
  /\ absOld' = vAbs /\ refined' = FALSE
  /\ pc' = "solve"
  /\ UNCHANGED <<outVars, vGateClasses, vAbs, nAbsOld, f, parVars, iFrameTryToProve, RetValue,
                 proofVars>>

EndFrames ==
  /\ pc = "frame" /\ ~MoreFrames(f)
  /\ pc' = "finish"
  /\ UNCHANGED <<outVars, absVars, frameVars, parVars, iFrameTryToProve, RetValue, proofVars>>

\* A mutant of Cancelled: the prover runs on
CancelledNot(n) == n

\* Gia_GlaProveCancel, if a prover was started and not cancelled since
Cancelled(n) == IF iFrameTryToProve >= 0 THEN n + 1 ELSE n

\* The output fails under the abstraction: some of the free objects are kept, too
Refine ==
  /\ pc = "solve" /\ f \in FailsIn(vAbs)
  /\ g_nRunIds' = Cancelled(g_nRunIds) /\ iFrameTryToProve' = -1
  /\ \E vPPis \in (SUBSET (Objs \ vAbs)) \ {{}} : vAbs' = vAbs \cup vPPis
  /\ refined' = TRUE
  /\ pc' \in {"solve"} \cup IF Limits THEN {"finish"} ELSE {}
  /\ UNCHANGED <<outVars, vGateClasses, absOld, nAbsOld, f, parVars, RetValue,
                 g_fAbstractionProved, provers>>

\* A mutant of FoundCex: the failure need not be one of the design
FoundCexUnchecked ==
  /\ pc = "solve" /\ f \in FailsIn(vAbs)
  /\ g_nRunIds' = Cancelled(g_nRunIds) /\ iFrameTryToProve' = -1
  /\ RetValue' = "failed"
  /\ pc' = "finish"
  /\ UNCHANGED <<outVars, absVars, frameVars, parVars, g_fAbstractionProved, provers>>

\* ... or the failure is one of the design
FoundCex ==
  /\ pc = "solve" /\ f \in FailsIn(vAbs) /\ f \in FailsIn(Objs)
  /\ g_nRunIds' = Cancelled(g_nRunIds) /\ iFrameTryToProve' = -1
  /\ RetValue' = "failed"
  /\ pc' = "finish"
  /\ UNCHANGED <<outVars, absVars, frameVars, parVars, g_fAbstractionProved, provers>>

\* The query gives up
SolveStops ==
  /\ pc = "solve" /\ Limits
  /\ pc' = "finish"
  /\ UNCHANGED <<outVars, absVars, frameVars, parVars, iFrameTryToProve, RetValue, proofVars>>

\* The output does not fail under the abstraction the timeframe began with
Stable ==
  /\ pc = "solve" /\ ~refined /\ f \notin FailsIn(vAbs)
  /\ nFramesNoChange' = IF f > iFrameProved THEN nFramesNoChange + 1 ELSE nFramesNoChange
  /\ pc' = "check"
  /\ UNCHANGED <<outVars, absVars, frameVars, iFrameProved, iFrameTryToProve, RetValue, proofVars>>

\* The solver holds the output literal false without a query
Implied ==
  /\ pc = "solve" /\ f \notin FailsIn(vAbs)
  /\ pc' = "check"
  /\ UNCHANGED <<outVars, absVars, frameVars, parVars, iFrameTryToProve, RetValue, proofVars>>

\* A mutant of Cores: objects kept earlier may go, too
CoresAny == {a \in SUBSET vAbs : f \notin FailsIn(a)}

(***************************************************************************)
(* Of the objects added in this timeframe those in an unsatisfiable core   *)
(* stay, twice; the second query may give up.                              *)
(***************************************************************************)
Cores == {a \in SUBSET vAbs : absOld \subseteq a /\ f \notin FailsIn(a)}

Shrink ==
  /\ pc = "solve" /\ refined /\ f \notin FailsIn(vAbs)
  /\ nFramesNoChange' = IF f > iFrameProved THEN 0 ELSE nFramesNoChange
  /\ vAbs' \in Cores
  /\ pc' \in {"check"} \cup IF Limits THEN {"finish"} ELSE {}
  /\ UNCHANGED <<outVars, vGateClasses, absOld, nAbsOld, frameVars, iFrameProved,
                 iFrameTryToProve, RetValue, proofVars>>

-----------------------------------------------------------------------------
(* After a timeframe *)

\* Gia_GlaProveCheck reads the flag without the lock
CheckFails ==
  /\ pc = "check" /\ ~g_fAbstractionProved
  /\ iFrameProved' = IF iFrameProved < f THEN f ELSE iFrameProved
  /\ pc' = "extend"
  /\ UNCHANGED <<outVars, absVars, frameVars, nFramesNoChange, iFrameTryToProve, RetValue, proofVars>>

CheckHolds ==
  /\ pc = "check" /\ g_fAbstractionProved
  /\ iFrameProved' = IF iFrameProved < f THEN f ELSE iFrameProved
  /\ pc' = "clear"
  /\ UNCHANGED <<outVars, absVars, frameVars, nFramesNoChange, iFrameTryToProve, RetValue, proofVars>>

ClearFlag ==
  /\ pc = "clear"
  /\ g_fAbstractionProved' = FALSE
  /\ RetValue' = "proved"
  /\ pc' = "finish"
  /\ UNCHANGED <<outVars, absVars, frameVars, parVars, iFrameTryToProve, g_nRunIds, provers>>

\* The abstraction is stored in the design, and may be too large to go on
Classes == IF refined THEN vAbs ELSE vGateClasses

TooLarge ==
  /\ pc = "extend" /\ refined /\ Limits
  /\ vGateClasses' = vAbs
  /\ pc' = "finish"
  /\ UNCHANGED <<outVars, vAbs, absOld, nAbsOld, frameVars, parVars, iFrameTryToProve, RetValue,
                 proofVars>>

StableLongEnough == nFramesNoChange = nFramesNoChangeLim /\ fCallProver

\* An earlier prover is cancelled before the next one is started
CallProver ==
  /\ pc = "extend" /\ StableLongEnough
  /\ vGateClasses' = Classes
  /\ g_nRunIds' = Cancelled(g_nRunIds)
  /\ pc' = "forget"
  /\ UNCHANGED <<outVars, vAbs, absOld, nAbsOld, frameVars, parVars, iFrameTryToProve, RetValue,
                 g_fAbstractionProved, provers>>

CallNone ==
  /\ pc = "extend" /\ ~StableLongEnough
  /\ vGateClasses' = Classes
  /\ pc' = "next"
  /\ UNCHANGED <<outVars, vAbs, absOld, nAbsOld, frameVars, parVars, iFrameTryToProve, RetValue,
                 proofVars>>

\* Gia_GlaProveAbsracted: the flag is lowered, then a run number is taken
ForgetProof ==
  /\ pc = "forget"
  /\ g_fAbstractionProved' = FALSE
  /\ pc' = "create"
  /\ UNCHANGED <<outVars, absVars, frameVars, parVars, iFrameTryToProve, RetValue, g_nRunIds, provers>>

CreateProver ==
  /\ pc = "create"
  /\ g_nRunIds' = g_nRunIds + 1
  /\ provers' = provers \cup {[RunId |-> g_nRunIds + 1, out |-> iOut, abs |-> vGateClasses,
                               at |-> "solving"]}
  /\ iFrameTryToProve' = f
  /\ pc' = "next"
  /\ UNCHANGED <<outVars, absVars, frameVars, parVars, RetValue, g_fAbstractionProved>>

\* A mutant of Grown: whether or not this timeframe added something
GrownAnyhow ==
  LET nAbs == Cardinality(vAbs) + 1 IN
    /\ nRatioMax # 0
    /\ f > RestartFrame \/ nAbs > RestartSize
    /\ nAbs - nAbsOld >= (nAbsOld * nRatioMax) \div 100

\* The abstraction grew by more than nRatioMax percent
Grown ==
  LET nAbs == Cardinality(vAbs) + 1 IN
    /\ nRatioMax # 0 /\ refined
    /\ f > RestartFrame \/ nAbs > RestartSize
    /\ nAbs - nAbsOld >= (nAbsOld * nRatioMax) \div 100

NextFrame ==
  /\ pc = "next"
  /\ IF Grown THEN pc' = (IF MoreFrames(f) THEN "restart" ELSE "finish") /\ UNCHANGED f
              ELSE pc' = "frame" /\ f' = f + 1
  /\ UNCHANGED <<outVars, absVars, refined, parVars, iFrameTryToProve, RetValue, proofVars>>

\* The last prover is cancelled; the abstraction stays with the design
Finish ==
  /\ pc = "finish"
  /\ g_nRunIds' = Cancelled(g_nRunIds)
  /\ vGateClasses' = CASE RetValue = "proved" -> vGateClasses
                       [] RetValue = "failed" -> {}
                       [] OTHER -> vAbs
  /\ vStatuses' = [vStatuses EXCEPT ![iOut] = RetValue]
  /\ iOut' = iOut + 1
  /\ pc' = "output"
  /\ UNCHANGED <<fails, fUseSkip, vAbs, absOld, nAbsOld, frameVars, parVars, iFrameTryToProve, RetValue,
                 g_fAbstractionProved, provers>>

-----------------------------------------------------------------------------
(* Abs_ProverThread *)

\* A mutant of ProverProves: a counter-example counts, too
ProverProvesAny(q) ==
  /\ q.at = "solving"
  /\ provers' = (provers \ {q}) \cup {[q EXCEPT !.at = "proved"]}
  /\ UNCHANGED <<outVars, pc, absVars, frameVars, parVars, iFrameTryToProve, RetValue, g_nRunIds,
                 g_fAbstractionProved>>

\* PDR proves the abstraction it was given, whether or not it is cancelled by now
ProverProves(q) ==
  /\ q.at = "solving" /\ Proves(q.out, q.abs)
  /\ provers' = (provers \ {q}) \cup {[q EXCEPT !.at = "proved"]}
  /\ UNCHANGED <<outVars, pc, absVars, frameVars, parVars, iFrameTryToProve, RetValue, g_nRunIds,
                 g_fAbstractionProved>>

\* ... is stopped by Abs_CallBackToStop, disproves it, or reaches its last timeframe
ProverStops(q) ==
  /\ q.at = "solving"
  /\ q.RunId < g_nRunIds \/ ~Proves(q.out, q.abs) \/ Limits
  /\ provers' = provers \ {q}
  /\ UNCHANGED <<outVars, pc, absVars, frameVars, parVars, iFrameTryToProve, RetValue, g_nRunIds,
                 g_fAbstractionProved>>

ProverRaises(q) ==
  /\ q.at = "proved"
  /\ g_fAbstractionProved' = TRUE
  /\ provers' = provers \ {q}
  /\ UNCHANGED <<outVars, pc, absVars, frameVars, parVars, iFrameTryToProve, RetValue, g_nRunIds>>

-----------------------------------------------------------------------------
Frame ==
  \/ SkipFrame \/ StartFrame \/ EndFrames
  \/ Refine \/ FoundCex \/ SolveStops \/ Stable \/ Implied \/ Shrink

AfterFrame ==
  \/ CheckFails \/ CheckHolds \/ ClearFlag
  \/ TooLarge \/ CallProver \/ CallNone \/ ForgetProof \/ CreateProver \/ NextFrame

Main == TrivialOutput \/ StartOutput \/ AllOutputs \/ Restart \/ Frame \/ AfterFrame \/ Finish

Prover(q) == ProverProves(q) \/ ProverStops(q) \/ ProverRaises(q)

\* The command has returned and no prover is left
Returned == pc = "done" /\ provers = {} /\ UNCHANGED vars

Next == Main \/ (\E q \in provers : Prover(q)) \/ Returned

\* The threads are scheduled; every query is answered at last
Spec == Init /\ [][Next]_vars /\ WF_vars(Main) /\ WF_vars(\E q \in provers : Prover(q))

-----------------------------------------------------------------------------
(* Properties *)

Runs == [RunId : Nat, out : Outs, abs : SUBSET Objs, at : {"solving", "proved"}]

TypeOK ==
  /\ fails \in [Outs -> Designs] /\ fUseSkip \in BOOLEAN
  /\ pc \in Locations /\ iOut \in 0 .. NOuts
  /\ vStatuses \in [Outs -> {"none", "proved", "failed", "undecided"}]
  /\ vGateClasses \subseteq Objs /\ vAbs \subseteq Objs /\ absOld \subseteq Objs /\ nAbsOld \in Nat
  /\ f \in Nat /\ refined \in BOOLEAN
  /\ nFramesNoChange \in Nat /\ iFrameProved \in Nat \cup {-1} /\ iFrameTryToProve \in Nat \cup {-1}
  /\ RetValue \in {"proved", "failed", "undecided"}
  /\ g_nRunIds \in Nat /\ g_fAbstractionProved \in BOOLEAN
  /\ provers \subseteq Runs

\* Only one output takes more than a look at it
Solo == \A o, q \in Outs \ (Const0 \cup Const1) : o = q

\* What is reported for an output is right, whatever the provers that were
\* cancelled do with the flag they share
StatusesRight ==
  \A o \in Outs \ (Const0 \cup Const1) :
    /\ vStatuses[o] = "proved" => Proves(o, Objs)
    /\ vStatuses[o] = "failed" => ~Proves(o, Objs)

\* `proved abstraction': the one stored in the design when the proof is noticed is
\* proved, too, although the prover that raised the flag may have worked on an
\* earlier one
ClassesProved == pc = "finish" /\ RetValue = "proved" => Proves(iOut, vGateClasses)

\* A prover that is not cancelled works on the abstraction stored in the design
NewestProver ==
  \A q \in provers :
    q.RunId = g_nRunIds => iFrameTryToProve >= 0 /\ q.out = iOut /\ q.abs = vGateClasses

\* iFrameProved, `the number of frames proved': no failure up to there, under any
\* abstraction the run still works with; restarts and cores lose nothing
FramesProved ==
  /\ pc \in Locations \ {"output", "restart", "done"} =>
       \A n \in (0 .. iFrameProved) \ Unchecked : n \notin FailsIn(vAbs)
  /\ pc = "restart" => \A n \in (0 .. iFrameProved) \ Unchecked : n \notin FailsIn(vGateClasses)

\* A counter-example is found in the first timeframe that has one
CexFirst ==
  pc = "finish" /\ RetValue = "failed" => \A n \in (0 .. f - 1) \ Unchecked : n \notin FailsIn(Objs)

\* The abstraction stored in the design only grows while an output is solved
ClassesGrow == [][pc \notin {"output", "finish"} => vGateClasses \subseteq vGateClasses']_vars

\* With a limit on timeframes the command returns, forced restarts or not, and
\* every prover ends
Termination == <>(pc = "done" /\ provers = {})
==============================================================================
