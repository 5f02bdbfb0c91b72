--------------------------------- MODULE Wla ---------------------------------
(***************************************************************************)
(* `%pdra', word-level abstraction refinement (src/base/wlc/wlcAbs.c):     *)
(* PDR solves an abstraction, a thread (src/base/wlc/wlcPth.c) looks for a *)
(* counter-example of the same abstraction and may shrink it.              *)
(*                                                                         *)
(* An abstraction is the set of signals that keep their function, the      *)
(* white boxes; the others are free inputs.  Of a design the model keeps   *)
(* in which timeframes it can fail under each abstraction, of a trace of   *)
(* PDR the abstraction whose clauses it holds, of a counter-example its    *)
(* timeframe.                                                              *)
(*                                                                         *)
(* By default the outputs are XORed in pairs before PDR and BMC see them,  *)
(* while counter-examples and cores are of the outputs as they are: the    *)
(* two are kept apart.                                                     *)
(***************************************************************************)
EXTENDS Integers

CONSTANTS
  Signals,                 \* the signals that are abstracted at first
  Designs,                 \* what a design may be: miter[a] and outs[a] for each abstraction a
  Gateless,                \* <<fails, abstraction>>: no AND gate is left after signal correspondence
  Pars,                    \* the settings of the options it may be called with
  nIterMax,                \* -I
  nFrameMax,               \* limit on the timeframes of PDR, 10000
  nFramesNoChangeLim       \* 10 in the code

ParSets ==
  [fUseBmc3 : BOOLEAN,            \* -q
   fShrinkAbs : BOOLEAN,          \* -s
   fShrinkScratch : BOOLEAN,      \* -t
   fLoadTrace : BOOLEAN,          \* -l, on by default
   fPushClauses : BOOLEAN,        \* -p
   fCheckCombUnsat : BOOLEAN,     \* -u
   fXorOutput : BOOLEAN]          \* -x, on by default

ASSUME WlaAssumption ==
  /\ Pars \subseteq ParSets
  /\ Gateless \subseteq [SUBSET Signals -> SUBSET Nat] \X SUBSET Signals
  /\ nIterMax \in Nat /\ nFrameMax \in Nat \ {0} /\ nFramesNoChangeLim \in Nat \ {0}

\* When an output can be 1, and when two of a pair can differ: one of them is 1 then.
\* Keeping more signals only removes failures
ASSUME DesignsAssumption ==
  \A d \in Designs :
    /\ d \in [miter : [SUBSET Signals -> SUBSET Nat], outs : [SUBSET Signals -> SUBSET Nat]]
    /\ \A a \in SUBSET Signals : d.miter[a] \subseteq d.outs[a]
    /\ \A a, b \in SUBSET Signals :
         a \subseteq b => d.miter[b] \subseteq d.miter[a] /\ d.outs[b] \subseteq d.outs[a]

VARIABLES
  fails, outs, pPars,      \* what PDR and BMC work on, the outputs as they are, the options
  pc, nIters, RetValue,    \* where the main thread is, the iteration, its last answer
  vUnmark,                 \* the signals that are to be white from the next iteration on
  whites,                  \* those that are in this one: all but vBlacks
  iCexFrame, fNewAbs,      \* set by refinement and by the thread
  vClauses,                \* the trace that was saved: at most one
  trace,                   \* what PDR in this iteration took from it
  atFrameMax,              \* PDR has ended at nFrameMax in this iteration
  pSeqModel, pBmcCex, pCex,  \* counter-examples: of PDR, of the thread, of the iteration
  RunId, g_nRunIds,        \* the run number of this iteration, which its thread has, too
  thread                   \* where the thread is

runVars == <<fails, outs, pPars>>
absVars == <<vUnmark, iCexFrame, fNewAbs>>
pdrVars == <<vClauses, trace, pSeqModel, atFrameMax>>
vars == <<runVars, pc, nIters, RetValue, absVars, whites, pdrVars, pBmcCex, pCex,
          RunId, g_nRunIds, thread>>

Locations == {"create", "comb", "start", "load", "restored", "rebuilt", "push", "pdr", "join", "bump",
              "wait", "outcome", "refine", "done", "aborted", "crashed"}

None == -1                 \* no counter-example

Stopped == RunId < g_nRunIds   \* Wla_CallBackToStop

\* An abstraction has no counter-example in the timeframes below n
CleanBefore(a, n) == \A k \in fails[a] : k >= n

\* Wla_ManBitBlast: what PDR and BMC are given of a design
BitBlasted(d) == IF pPars.fXorOutput THEN d.miter ELSE d.outs

Init ==
  /\ pPars \in Pars
  /\ \E d \in Designs : outs = d.outs /\ fails = BitBlasted(d)
  /\ pc = "create" /\ nIters = 1 /\ RetValue = -1
  /\ vUnmark = {} /\ whites = {} /\ iCexFrame = 0 /\ fNewAbs = FALSE
  /\ vClauses = {} /\ trace = {} /\ atFrameMax = FALSE
  /\ pSeqModel = None /\ pBmcCex = None /\ pCex = None
  /\ g_nRunIds = 0 /\ RunId = 0 /\ thread = "none"

-----------------------------------------------------------------------------
(* An iteration of Wla_ManSolve up to PDR *)

\* The abstraction is made anew from vSignals and vUnmark
CreateAbs ==
  /\ pc = "create" /\ nIters < nIterMax
  /\ whites' = vUnmark
  /\ RunId' = g_nRunIds /\ pSeqModel' = None /\ pBmcCex' = None /\ trace' = {}
  /\ atFrameMax' = FALSE
  /\ pc' = IF vClauses # {} /\ pPars.fCheckCombUnsat THEN "comb" ELSE "start"
  /\ UNCHANGED <<runVars, nIters, RetValue, absVars, vClauses, pCex, g_nRunIds, thread>>

IterationsEnd ==
  /\ pc = "create" /\ nIters >= nIterMax
  /\ pc' = "done"
  /\ UNCHANGED <<runVars, nIters, RetValue, absVars, whites, pdrVars, pBmcCex, pCex, RunId,
                 g_nRunIds, thread>>

\* An AIG without gates is taken as proved; otherwise a proof may or may not be seen
CombProved == <<fails, whites>> \in Gateless \/ fails[whites] = {}

\* Wla_ManCheckCombUnsat
CombUnsat ==
  /\ pc = "comb"
  /\ \/ CombProved /\ RetValue' = 1 /\ pc' = "done"
     \/ <<fails, whites>> \notin Gateless /\ RetValue' = -1 /\ pc' = "start"
  /\ UNCHANGED <<runVars, nIters, absVars, whites, pdrVars, pBmcCex, pCex, RunId, g_nRunIds, thread>>

\* Wla_ManConcurrentBmc3
StartBmc ==
  /\ pc = "start"
  /\ thread' = IF pPars.fUseBmc3 THEN "bmc" ELSE "none"
  /\ pc' = IF vClauses = {} THEN "pdr" ELSE "load"
  /\ UNCHANGED <<runVars, nIters, RetValue, absVars, whites, pdrVars, pBmcCex, pCex, RunId, g_nRunIds>>

\* The abstraction is at least the one the trace was made with: it is taken as it is
RestoreClauses ==
  /\ pc = "load" /\ ~fNewAbs
  /\ \E a \in vClauses : trace' = a
  /\ pc' = "restored"
  /\ UNCHANGED <<runVars, nIters, RetValue, absVars, whites, vClauses, pSeqModel, atFrameMax,
                 pBmcCex, pCex, RunId, g_nRunIds, thread>>

\* The abstraction is a new one: clauses are taken that hold after one step of it
RebuildClauses ==
  /\ pc = "load" /\ fNewAbs
  /\ trace' = IF pPars.fShrinkScratch THEN {} ELSE whites
  /\ pc' = "rebuilt"
  /\ UNCHANGED <<runVars, nIters, RetValue, absVars, whites, vClauses, pSeqModel, atFrameMax,
                 pBmcCex, pCex, RunId, g_nRunIds, thread>>

\* The solver in RebuildClauses sees the run number, too, gives up and the assertion
\* that it never does fails
RebuildStopped ==
  /\ pc = "load" /\ fNewAbs /\ ~pPars.fShrinkScratch /\ pPars.fUseBmc3 /\ Stopped
  /\ pc' = "aborted"
  /\ UNCHANGED <<runVars, nIters, RetValue, absVars, whites, pdrVars, pBmcCex, pCex, RunId,
                 g_nRunIds, thread>>

\* pWla->fNewAbs = 0.  A trace that was rebuilt has one timeframe, so nothing can be pushed
ClearNewAbs ==
  /\ pc \in {"restored", "rebuilt"}
  /\ fNewAbs' = FALSE
  /\ pc' = IF pc = "restored" /\ pPars.fPushClauses THEN "push" ELSE "pdr"
  /\ UNCHANGED <<runVars, nIters, RetValue, vUnmark, iCexFrame, whites, pdrVars, pBmcCex, pCex,
                 RunId, g_nRunIds, thread>>

-----------------------------------------------------------------------------
(* IPdr_ManSolveInt, and what is done with its trace *)

Saved(traces) == vClauses' \in IF pPars.fLoadTrace THEN traces ELSE {vClauses}

\* A mutant of NewTrace: the trace it began with is kept beside it
NewTraceBoth == {whites, trace}

\* All its clauses are implied by what this abstraction and the trace it began with keep
NewTrace == {whites \cup trace}

PdrReturns(answer) ==
  /\ RetValue' = answer
  /\ pc' = IF pPars.fUseBmc3 THEN "join" ELSE "outcome"
  /\ UNCHANGED <<runVars, nIters, absVars, whites, trace, pBmcCex, pCex, RunId, g_nRunIds, thread>>

\* Pushing the clauses of a restored trace may prove it, too
PdrProves ==
  /\ pc \in {"push", "pdr"}
  /\ fails[whites \cup trace] = {}
  /\ Saved({NewTrace})
  /\ PdrReturns(1)
  /\ UNCHANGED <<pSeqModel, atFrameMax>>

\* No timeframe of the restored trace lost all its clauses
PushEnds ==
  /\ pc = "push"
  /\ pc' = "pdr"
  /\ UNCHANGED <<runVars, nIters, RetValue, absVars, whites, pdrVars, pBmcCex, pCex, RunId,
                 g_nRunIds, thread>>

\* Pdr_ManPushClauses gives up with -1, and everything but 0 is taken for a proof
PushStopped ==
  /\ pc = "push" /\ pPars.fUseBmc3 /\ Stopped
  /\ Saved({NewTrace})
  /\ PdrReturns(1)
  /\ UNCHANGED <<pSeqModel, atFrameMax>>

\* Timeframe 0 comes first, and then there is no trace to save yet; later ones may give a
\* counter-example that is longer than needed.  Only a trace may begin at the limit
PdrFails ==
  /\ pc = "pdr"
  /\ CleanBefore(whites, nFrameMax) => vClauses # {}
  /\ \E k \in fails[whites] :
       /\ 0 \in fails[whites] /\ trace = {} => k = 0
       /\ pSeqModel' = k
       /\ Saved({IF k = 0 /\ trace = {} THEN {} ELSE NewTrace})
  /\ PdrReturns(0)
  /\ UNCHANGED atFrameMax

PdrStops ==
  /\ pc = "pdr" /\ pPars.fUseBmc3 /\ Stopped
  /\ Saved({NewTrace} \cup {a \in {{}} : trace = {}})
  /\ PdrReturns(-1)
  /\ UNCHANGED <<pSeqModel, atFrameMax>>

\* iFrame >= nFrameMax: the timeframes below are solved, with the clauses of the trace, and
\* PDR ends without an answer, also without -q
PdrLimit ==
  /\ pc = "pdr"
  /\ CleanBefore(whites \cup trace, nFrameMax)
  /\ Saved({NewTrace})
  /\ PdrReturns(-1)
  /\ atFrameMax' = TRUE
  /\ UNCHANGED pSeqModel

-----------------------------------------------------------------------------
(* Wla_Bmc3Thread *)

ThreadUnchanged ==
  UNCHANGED <<runVars, pc, nIters, RetValue, whites, pdrVars, pCex, RunId>>

\* nFramesMax is a limit with -s only
WithinFrames(n) == pPars.fShrinkAbs => n < iCexFrame + nFramesNoChangeLim

BmcCex ==
  /\ thread = "bmc"
  /\ \E k \in fails[whites] : WithinFrames(k) /\ CleanBefore(whites, k) /\ pBmcCex' = k
  /\ thread' = "signal"
  /\ ThreadUnchanged /\ UNCHANGED <<absVars, g_nRunIds>>

BmcUndecided ==
  /\ thread = "bmc"
  /\ \/ Stopped
     \/ pPars.fShrinkAbs /\ CleanBefore(whites, iCexFrame + nFramesNoChangeLim)
  /\ thread' = "undecided"
  /\ ThreadUnchanged /\ UNCHANGED <<absVars, pBmcCex, g_nRunIds>>

\* All states were seen, which are few enough below 30 registers: a proof, which the thread keeps to itself
BmcExhausted ==
  /\ thread = "bmc" /\ fails[whites] = {}
  /\ thread' = "done"
  /\ ThreadUnchanged /\ UNCHANGED <<absVars, pBmcCex, g_nRunIds>>

\* Another timeframe without a counter-example, of which nothing is seen outside
BmcDeeper ==
  /\ thread = "bmc" /\ ~Stopped
  /\ UNCHANGED vars

\* A mutant of MayShrink: in the first iteration, too
MayShrinkFirst == RunId = g_nRunIds

MayShrink == nIters > 1 /\ RunId = g_nRunIds

TestRunId ==
  /\ thread = "undecided"
  /\ thread' = IF MayShrink THEN "shrink" ELSE "done"
  /\ ThreadUnchanged /\ UNCHANGED <<absVars, pBmcCex, g_nRunIds>>

\* A mutant of CoreFrames: one timeframe less
CoreFramesLess == iCexFrame + nFramesNoChangeLim - 1

\* How many timeframes the core is taken from
CoreFrames == iCexFrame + nFramesNoChangeLim

\* The query is about the outputs as they are, whether they are XORed or not
CoreExcludes(a) == \A k \in outs[a] : k >= CoreFrames

\* Wla_ManShrinkAbs: the white boxes outside of an unsatisfiable core become black
ShrinkAbs ==
  /\ thread = "shrink"
  /\ iCexFrame' = iCexFrame + nFramesNoChangeLim
  /\ \E core \in SUBSET whites :
       /\ CoreExcludes(core)
       /\ vUnmark' = vUnmark \ (whites \ core)
       /\ fNewAbs' = (fNewAbs \/ core # whites)
       /\ thread' = IF core # whites THEN "signal" ELSE "done"
  /\ ThreadUnchanged /\ UNCHANGED <<pBmcCex, g_nRunIds>>

\* The solver is stopped before it has a core, or the outputs of a pair can both be 1
ShrinkFails ==
  /\ thread = "shrink"
  /\ Stopped \/ ~CoreExcludes(whites)
  /\ iCexFrame' = iCexFrame + nFramesNoChangeLim
  /\ thread' = "done"
  /\ ThreadUnchanged /\ UNCHANGED <<vUnmark, fNewAbs, pBmcCex, g_nRunIds>>

\* ++g_nRunIds, under the lock
Signal ==
  /\ thread = "signal"
  /\ g_nRunIds' = g_nRunIds + 1
  /\ thread' = "done"
  /\ ThreadUnchanged /\ UNCHANGED <<absVars, pBmcCex>>

BmcAnswers == BmcCex \/ BmcUndecided
AfterBmc   == TestRunId \/ ShrinkAbs \/ ShrinkFails \/ Signal

Thread == BmcAnswers \/ BmcExhausted \/ BmcDeeper \/ AfterBmc

-----------------------------------------------------------------------------
(* Wla_ManJoinThread, the rest of Wla_ManSolveInt, and Wla_ManRefine *)

MainUnchanged ==
  UNCHANGED <<runVars, nIters, RetValue, absVars, whites, pdrVars, pBmcCex, pCex, RunId>>

\* The run number is tested without the lock
TestJoin ==
  /\ pc = "join"
  /\ pc' = IF RunId = g_nRunIds THEN "bump" ELSE "wait"
  /\ MainUnchanged /\ UNCHANGED <<g_nRunIds, thread>>

\* A mutant of Bumped: the thread is not told to stop
BumpedNot == g_nRunIds

Bumped == g_nRunIds + 1

StopThread ==
  /\ pc = "bump"
  /\ g_nRunIds' = Bumped
  /\ pc' = "wait"
  /\ MainUnchanged /\ UNCHANGED thread

\* A mutant of Joined: nobody waits for the thread
JoinedAny == TRUE

Joined == thread = "done"

JoinThread ==
  /\ pc = "wait" /\ Joined
  /\ thread' = IF thread = "done" THEN "none" ELSE thread
  /\ pc' = "outcome"
  /\ MainUnchanged /\ UNCHANGED g_nRunIds

\* A mutant of TheCex: only that of PDR counts
TheCexOfPdr == pSeqModel

TheCex == IF pBmcCex # None THEN pBmcCex ELSE pSeqModel

NoCex ==
  /\ pc = "outcome" /\ TheCex = None
  /\ pCex' = None
  /\ pc' = IF RetValue = -1 THEN "refine" ELSE "done"
  /\ UNCHANGED <<runVars, nIters, RetValue, absVars, whites, pdrVars, pBmcCex, RunId, g_nRunIds,
                 thread>>

\* A mutant of RealFrames: whatever fails in the abstraction is real
RealFramesAny(k) == {k}

\* Wlc_NtkCexIsReal: simulated on the design, some output is 1 at the end or before
RealFrames(k) == {n \in outs[Signals] : n <= k}

CexReal ==
  /\ pc = "outcome" /\ TheCex # None
  /\ \E n \in RealFrames(TheCex) : pCex' = n
  /\ RetValue' = 0
  /\ pc' = "done"
  /\ UNCHANGED <<runVars, nIters, absVars, whites, pdrVars, pBmcCex, RunId, g_nRunIds, thread>>

\* Where no signal is abstracted every counter-example is real
CexSpurious ==
  /\ pc = "outcome" /\ TheCex # None /\ whites # Signals
  /\ pCex' = TheCex
  /\ RetValue' = -1
  /\ pc' = "refine"
  /\ UNCHANGED <<runVars, nIters, absVars, whites, pdrVars, pBmcCex, RunId, g_nRunIds, thread>>

NextIteration ==
  /\ pCex' = None
  /\ nIters' = nIters + 1
  /\ pc' = "create"
  /\ UNCHANGED <<runVars, RetValue, fNewAbs, whites, pdrVars, pBmcCex, RunId, g_nRunIds, thread>>

\* The thread has changed the abstraction: the counter-example is of the old one
DropCex ==
  /\ pc = "refine" /\ fNewAbs
  /\ NextIteration /\ UNCHANGED <<vUnmark, iCexFrame>>

\* A mutant of Unmarked: what was white before is forgotten
UnmarkedOnly(s) == s

Unmarked(s) == vUnmark \cup s

\* Some black boxes become white: those the counter-example needs, and what only they use
Refine ==
  /\ pc = "refine" /\ ~fNewAbs /\ pCex # None
  /\ \E s \in (SUBSET (Signals \ whites)) \ {{}} : vUnmark' = Unmarked(s)
  /\ iCexFrame' = pCex
  /\ NextIteration

\* There is none: a null pointer is followed
RefineNothing ==
  /\ pc = "refine" /\ ~fNewAbs /\ pCex = None
  /\ pc' = "crashed"
  /\ MainUnchanged /\ UNCHANGED <<g_nRunIds, thread>>

-----------------------------------------------------------------------------
Load    == RestoreClauses \/ RebuildClauses \/ RebuildStopped \/ ClearNewAbs
Pdr     == PdrProves \/ PushEnds \/ PushStopped \/ PdrFails \/ PdrStops \/ PdrLimit
Join    == TestJoin \/ StopThread \/ JoinThread
Outcome == NoCex \/ CexReal \/ CexSpurious

Main ==
  \/ CreateAbs \/ IterationsEnd \/ CombUnsat \/ StartBmc \/ Load \/ Pdr \/ Join \/ Outcome
  \/ DropCex \/ Refine \/ RefineNothing

\* After an answer or a crash nothing is left to do
Done == pc \in {"done", "aborted", "crashed"} /\ UNCHANGED vars

Next == Main \/ Thread \/ Done

\* The operating system runs both threads, and each query of a solver ends; BMC of a design
\* that does not fail need never end
Spec == Init /\ [][Next]_vars /\ WF_vars(Main) /\ WF_vars(BmcAnswers \/ AfterBmc)

-----------------------------------------------------------------------------
(* Properties *)

ThreadLocations == {"none", "bmc", "undecided", "shrink", "signal", "done"}

TypeOK ==
  /\ fails \in [SUBSET Signals -> SUBSET Nat] /\ outs \in [SUBSET Signals -> SUBSET Nat]
  /\ pPars \in Pars
  /\ pc \in Locations /\ nIters \in Nat /\ RetValue \in {-1, 0, 1}
  /\ vUnmark \subseteq Signals /\ whites \subseteq Signals /\ trace \subseteq Signals
  /\ iCexFrame \in Nat /\ fNewAbs \in BOOLEAN /\ atFrameMax \in BOOLEAN
  /\ vClauses \in SUBSET SUBSET Signals /\ (\A a, b \in vClauses : a = b)
  /\ {pSeqModel, pBmcCex, pCex} \subseteq Nat \cup {None}
  /\ RunId \in Nat /\ g_nRunIds \in Nat /\ thread \in ThreadLocations

\* "Abstraction is successfully proved" (wlcAbs.c:1734) holds of the design itself, and after
\* "resulted in a real CEX" (1732) an output of the design can be 1 in that timeframe, whatever
\* the two threads did to the abstraction meanwhile
AnswersRight ==
  pc = "done" =>
    /\ RetValue = 1 => fails[Signals] = {}
    /\ RetValue = 0 => pCex \in outs[Signals] /\ (~pPars.fXorOutput => pCex \in fails[Signals])

\* An abstraction that was shrunk and not yet refined does not fail before iCexFrame: what
\* BMC excluded before the shrink stays excluded, so iterations get deeper
ShrunkClean == fNewAbs => CleanBefore(vUnmark, iCexFrame)

\* Wlc_NtkProofReduce asserts that there is a white box to give up (wlcAbs.c:692)
WhitesNonEmpty == thread = "shrink" => whites # {}

\* The thread writes to a variable of Wla_ManSolveInt and to pWla: it has ended and was
\* joined before that call returns and before the abstraction is read and changed
ThreadJoined ==
  pc \in {"create", "comb", "start", "outcome", "refine", "done", "crashed"} => thread = "none"

\* An iteration that answers nothing has a counter-example to refine with, however PDR, the
\* thread and the join interleave, unless PDR came to its limit of timeframes and there is no
\* counter-example below it, or with -s the thread has shrunk the abstraction and fNewAbs was
\* cleared after that.  Only with -s a solver that rebuilds clauses is stopped
CrashOnlyByLimitOrShrink ==
  /\ pc = "crashed" =>
       \/ atFrameMax /\ CleanBefore(whites \cup trace, nFrameMax)
       \/ pPars.fShrinkAbs /\ vUnmark # whites
  /\ pc = "aborted" => pPars.fShrinkAbs /\ fNewAbs

\* Without -s the trace that is restored was made under an abstraction that kept no more
TraceFits == ~pPars.fShrinkAbs => trace \subseteq whites

\* The thread is always stopped and joined, and the loop ends
Termination == <>(pc \in {"done", "aborted", "crashed"})
==============================================================================
