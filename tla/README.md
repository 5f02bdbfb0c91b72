# Verification of ABC (abc_fdrw)

ABC is a system for logic synthesis and formal verification: a shell whose
commands transform or analyse the current network.  This directory holds TLA+
models of its reasoning engines, TLC configurations that check them on small
circuits, and TLAPS proofs for every circuit.  Source paths are relative to the
repository; the package directories are below `src/`.

## The system

| part | state | operations | what makes it correct |
|---|---|---|---|
| frame and shell (`base/main`, `base/cmd`) | current network and AIG, `Status`, `pCex`, `vPoStatuses`, backups | run a command, replace the network, undo | status and counter-example belong to the current network |
| PDR (`proof/pdr`) | clauses and SAT solvers per timeframe, queue of proof obligations, answers per output | block a cube, generalize, push clauses, report | answers are right, proofs come with an invariant, failures with a trace, it ends |
| miter splitting (`proof/cec/cecSplit.c`) | stack of cofactors, one slot per worker thread | hand out, solve, split, stop the workers | no cofactor is lost, the answer is right, the threads stop |
| gate-level abstraction (`proof/abs`) | the abstraction, run id and "proved" flag shared with a prover thread | refine, start the prover, cancel it, take its answer | an answer is used only for the abstraction it is about |
| word-level abstraction (`base/wlc/wlcAbs.c`, `wlcPth.c`) | the abstraction, which both the main thread and its BMC thread change, the saved PDR trace, a run number | refine, run PDR from the trace, shrink, stop, join | answers are right for the design, the thread is joined, no iteration is left without a counter-example |
| command starter (`base/cmd/cmdStarter.c`) | a slot per thread | start, poll, collect | every command runs once, all threads end |
| FdRw (`proof/cec/cecMan.c`), this fork's addition (`&fdrw`, `&fdrws`) | candidate functions of each node, don't-care frontiers, statistics kept incrementally | find, update, replace, shrink | replaced nodes are equivalent, statistics agree with the AIG |
| SAT solvers (`sat/*`) | trail, clauses, activities | solve, analyse, restart | verdicts, models and cores are right |
| SAT sweeping (`proof/cec`, `proof/fra`, `proof/ssw`) | candidate classes | simulate, prove, refine | merged nodes are equivalent |
| AIGs, networks, mapping, optimisation, BDDs, I/O | data structures | conversions and local rewriting | functional equivalence |

Engines call the SAT solvers and read AIGs; the shell calls the engines, one at
a time.  Concurrency appears in miter splitting, the abstraction provers, the
command starter and a few parallel SAT drivers, always as one manager thread
that polls flags in slots shared with workers.  Nothing is persisted: a crash
ends the process, so there is no recovery to model.  The hard behaviours are the
long sequences of steps over state shared by many queries (PDR), limits that hit
in any query, and the polled slots.  `PROJECT.json` lists the hazards at their
lines.

## Modules

| module | models |
|---|---|
| `Circuit` | the sequential AIG as an engine sees it: states, inputs, transition and output functions; cubes and their helpers (`pdrUtil.c`) |
| `Verdicts` | abstract: what a caller of `Pdr_ManSolve` may rely on |
| `Pdr` | `proof/pdr`: the engine, one action per SAT query |
| `MCPdr` | small circuits for TLC |
| `PdrProofs`, `PdrAnswerProofs` | theorems about `Pdr`: clauses and timeframes, failures and answers |
| `Cofactors` | the parts of a miter: cofactors, what a query on one may answer, the counter-example derived from it |
| `CaseSplit` | abstract: splitting and refuting cases until an answer is justified |
| `Split` | `&splitprove -P n`: loop over outputs, manager, worker threads; implements `CaseSplit` |
| `SplitSerial` | `&splitprove` with one process, the default |
| `MCSplit`, `MCSplitSerial` | small miters for TLC |
| `CofactorsProofs` | lemmas: powers of two, shares of parts and their sums |
| `CaseSplitProofs` | theorem about `CaseSplit` |
| `SplitProofs`, `SplitSerialProofs` | theorems about `Split` and `SplitSerial` |
| `Gla` | `&gla -q`: the loop of `Gia_ManPerformGla`, prover threads, run numbers, the "proved" flag |
| `MCGla`, `GlaProofs` | small designs for TLC, theorems |
| `Wla` | `%pdra`: the loop of `Wla_ManSolve`, PDR with a saved trace, the BMC thread |
| `MCWla`, `WlaProofs` | small designs for TLC, theorems |

### Pdr

`Pdr_ManSolveInt` (`pdrCore.c:1040`) is a loop over timeframes around a loop over
outputs around a loop that finds a bad state and blocks it.  The model keeps this
control in `pc` and `iOutCur`:

| `pc` | place in the code | actions |
|---|---|---|
| `output` | loop over the outputs | `SkipOutput` `TrivialOutput` `StartOutput`, and `CloseFrame` after the last |
| `property` | query on the output | `PropertyHolds` `PropertyFails` |
| `block` | head of the loop of `Pdr_ManBlockCube` | `FoundCex` `CubeBlocked` `Restart` `PopBlocked` `PopOpen` |
| `induct` | first query of `Pdr_ManGeneralize` | `InductFails` `InductHolds` |
| `general` | its loop over literals | `DropLiteral` `KeepLiteral` `DownStarts` `Generalized` |
| `ctg` | `ZPdr_ManDown`: block the predecessor first? | `CtgAssume` `CtgHolds` `CtgStays` |
| `ctgPush` `ctgDrop` | push its cube, drop literals of it | `CtgPushed` `CtgStops` `CtgDrop` `CtgKeep` `CtgAdd` |
| `retry` | ask for the cube again | `RetryHolds` `RetryFails` |
| `join` | drop what cube and predecessor do not share | `JoinFails` `JoinHolds` `JoinAgain` |
| `forward` | pushing the new cube | `ForwardHolds` `ForwardStops` |
| `add` | adding the clause, rescheduling | `AddClause` |
| `push` | `Pdr_ManPushClauses` | `PushFails` `PushHolds` `PushNextFrame` `Proved` `OpenFrame` |
| `done` | returned | |

`Abort` and `OutputTimesOut` are the limits of the run and of the output.
Variables have the names of the fields of `Pdr_Man_t`.  `vClauses` and `solver`
are both kept because they differ: `FetchSolver` rebuilds a solver from `vClauses`
when it has used up its activation variables (`pdrSat.c:77`).  An obligation
carries the chain `pNext` leads through, which never changes once it is made.

Abstractions.  Gates are the functions `Trans` and `Fails`.  A SAT query is
answered by what its clauses allow; the model and the core it returns are free
choices, so are the orders that come from heuristics (literal priority,
`Pdr_SetCompare`).  X-valued simulation (`pdrTsim.c`) may keep any set of literals
that suffices; this contains what the code keeps.  Reference counts, statistics
and messages are left out.  Priorities start from 0 and not from `ABC_INFINITY`;
only their order is used.  The flags `-M -F -Q -D -H -a -q -i -p -g -o -n -c` are
constants; limits in seconds or conflicts are choices that may be taken in any
query.  Defaults are assumed for the flags that select another implementation of
one step (`-r -m -u -y -f -j`).

"Down" (`pdrCore.c:374-470`) is off by default (`fSkipDown` is 1 and `-n` toggles it);
with `-c` it also blocks the predecessors that keep a literal, "counterexamples to
generalization".  For that the code asserts the cube being generalized in the
solvers (line 393) long before the clause is added.  `F(k)` counts such a cube
(`Assumed`): what is learned meanwhile rests on it.

### Split

`Cec_GiaSplitTest` calls `Cec_GiaSplitTestInt` for one output after the other; this
tries the output whole and, if the query runs out of time, starts threads and
hands them parts through slots, `ThData[i]`, that both sides poll.  Every reading
of a flag followed by its use is two steps, so that the other side can come in
between.

| `pc` of the manager | place in `cecSplit.c` | actions |
|---|---|---|
| `call` | entry, query without cofactoring | `SolvedWhole` `StartThreads` |
| `round` | head of `while ( fWorkToDo )` | `StartRound` |
| `visit` | loop over slots: is it working, has it finished | `VisitBusy` `CollectSat` `CollectUndec` `CollectUnsat` `VisitIdle` |
| `give` | the next part from `vStack` | `GiveNothing` `GivePart` |
| `start` | raising `fWorking` | `StartPart` |
| `roundEnd` | limit of iterations, head of the loop | `EndRound` |
| `wait` | `finish:`, wait till threads finish | `WaitForThreads` |
| `stop` | stop threads, return | `StopThreads` |
| `collect` | back in `Cec_GiaSplitTest` | `CollectAnswer` `CollectOther` |

| `thread` of a worker | place | action |
|---|---|---|
| `spin` | polling `fWorking` | `Wake` |
| `woken` | it has seen the flag | `Take` (exits when `p` is null) |
| `solving` | `Cnf_GiaSolveOne` | `Solve` |
| `solved` | result written, flag still up | `Clear` |
| `spin`, but the frame with the slots has been left | | `Stray` |

`ThData` is an array in the frame of the call.  The caller calls in a loop from the
same place, so it lies at the same address each time; the model has one
array of slots and one thread per call and slot.  What a thread reads from a
frame that was left is anything (`Stray`).  Memory is taken to be sequentially
consistent: the code has no barriers, and what an optimiser makes of the manager's
unqualified accesses is listed as a hazard without a property.

A part is a cofactor with the literals that `vCofVars` records for it; both are
kept because the code records a wrong literal for one of the cofactors.  An output
is the set of assignments that set it to 1 (`Sats`).  A query answers what
holds for the part, or nothing when it runs out of time, while an input is left.  Which input is split on is a free
choice (`Gia_SplitCofVar` is a heuristic).  `Progress` is counted in units of
`2^-|Pis|` instead of as a floating-point number.

### Gla

`Gia_ManPerformGla` abstracts one output: it finds, timeframe by timeframe, a set of
objects under which the output cannot fail, and with `-q` it starts a thread that
tries to prove the abstraction once it was stable for `-B` timeframes.  Threads are
cancelled by incrementing `g_nRunIds`, never joined, and all raise the same flag
`g_fAbstractionProved`.  `&gla` calls it for each output of the circuit; the flag, the
run numbers, `iFrameProved` and `nFramesNoChange` outlive the call.

| `pc` | place in `absGla.c`, `absPth.c` | actions |
|---|---|---|
| `output` | `&gla`, entry | `TrivialOutput` `StartOutput` `AllOutputs` |
| `restart` | `Ga2_ManRestart` | `Restart` |
| `frame` | head of the loop over timeframes | `SkipFrame` `StartFrame` `EndFrames` |
| `solve` | its inner loop: query, refinement, core | `Refine` `FoundCex` `SolveStops` `Stable` `Implied` `Shrink` |
| `check` `clear` | `Gia_GlaProveCheck`: read the flag, lower it | `CheckFails` `CheckHolds` `ClearFlag` |
| `extend` | store the abstraction, cancel, start a prover? | `TooLarge` `CallProver` `CallNone` |
| `forget` `create` | `Gia_GlaProveAbsracted`: lower the flag, take a run number | `ForgetProof` `CreateProver` |
| `next` | forced restart or next timeframe | `NextFrame` |
| `finish` | `finish:` | `Finish` |

A prover (`Abs_ProverThread`) is `solving`, then `proved` with the flag not yet raised, and
gone: `ProverProves` `ProverStops` `ProverRaises`.  The main thread reads the flag
without the lock and lowers it in another step.

An output is what the properties need of it: `fails[a]` is the set of timeframes in
which it can fail when only the objects in `a` keep their function, and this is
antitone in `a` (`DesignsAssumption`).  Unrolling, CNF, counter-example analysis and the
memory of hashed objects are abstracted to it: refinement adds any non-empty set, a
core keeps any set that still excludes the failure.

### Wla

`Wla_ManSolve` iterates: make the abstraction in which the signals of `vUnmark` are white
boxes, run PDR on it from the trace of the iteration before, and refine with the
counter-example.  With `-q` a thread runs BMC on the same abstraction; with `-s` it may
also take white boxes away (`Wla_ManShrinkAbs`), by writing to the manager's `vUnmark`,
`iCexFrame` and `fNewAbs` while the main thread runs.

By default (`-x`) the outputs are XORed in pairs before PDR and BMC see them
(`Wla_ManBitBlast`), but not where a counter-example is simulated on the design
(`Wlc_NtkCexIsReal`) or a core is taken (`Wlc_NtkUnrollWoCex`).  So the state has two functions:
`fails[a]`, the timeframes in which what PDR and BMC solve can fail when the signals in `a`
keep their function, and `outs[a]`, those in which an output can be 1.  They are the same
without `-x`; with it `fails[a]` is a subset of `outs[a]`.

| `pc` | place in `wlcAbs.c`, `wlcPth.c` | actions |
|---|---|---|
| `create` | `Wla_ManCreateAbs`, or the last iteration | `CreateAbs` `IterationsEnd` |
| `comb` | `Wla_ManCheckCombUnsat` (`-u`) | `CombUnsat` |
| `start` | `Wla_ManConcurrentBmc3` | `StartBmc` |
| `load` `restored` `rebuilt` | the trace is restored or rebuilt; then `fNewAbs = 0` | `RestoreClauses` `RebuildClauses` `RebuildStopped` `ClearNewAbs` |
| `push` | the clauses of a restored trace are pushed (`-p`) | `PdrProves` `PushEnds` `PushStopped` |
| `pdr` | `IPdr_ManSolveInt`, the trace saved | `PdrProves` `PdrFails` `PdrStops` `PdrLimit` |
| `join` `bump` `wait` | `Wla_ManJoinThread`: test the run number, increment it, join | `TestJoin` `StopThread` `JoinThread` |
| `outcome` | the counter-example simulated on the design | `NoCex` `CexReal` `CexSpurious` |
| `refine` | `Wla_ManRefine` | `DropCex` `Refine` `RefineNothing` |
| `done` `aborted` `crashed` | returned; a failed assertion; a null pointer followed | |

| `thread` | place in `wlcPth.c` | actions |
|---|---|---|
| `bmc` | `Wla_CallBackToStop` inside BMC | `BmcCex` `BmcUndecided` `BmcExhausted` `BmcDeeper` |
| `undecided` | the run number is tested | `TestRunId` |
| `shrink` | `Wla_ManShrinkAbs` | `ShrinkAbs` `ShrinkFails` |
| `signal` | `++g_nRunIds` | `Signal` |

A trace is abstracted to the set of signals on whose functions its clauses rest, a
counter-example to its timeframe.  Which signals a refinement adds, which core a
shrink finds and when PDR is stopped are free choices.  `PdrLimit` is the end of PDR at
`nFrameMax` timeframes, with neither answer nor counter-example; `atFrameMax` remembers it
for the iteration.

## Runs

`tlc -config X.cfg M` with the module `M` below.

| run of `MCPdr` | flags | shows | distinct states |
|---|---|---|---|
| `pdr_proof` | `-D 1 -Q 2 -M 1` | `TypeOK`, `FramesOverApproximate`, `InvariantCertificate`, `LastSolverNotRecycled`, `FramesOnlyStrengthen`, `Termination`: a proof with restarts, and recycling after each query | 7957 |
| `pdr_outputs` | `-a -H -i -q`, limits | `ClosedFramesSafe`, `VerdictsHold`, `CexesAreShortest` over two failing outputs, a safe one and two constants | 152610 |
| `pdr_reuse` | `-p` | `ObligationsFresh`, `ObligationsLeadToFailure`, `CexesAreReal` with one output | 1180 |
| `pdr_ctg` | `-n -c` | `FramesOverApproximate`, `InvariantCertificate`, `Termination`: every branch of "down" | 51316 |
| `pdr_ctg_dropped` | `-a -H -n -c` | violated `InvariantCertificate` | |

| run of `MCSplit` | flags | shows | distinct states |
|---|---|---|---|
| `split` | `-P 3 -I 3`, 3 inputs, 2 outputs | `TypeOK`, `SlotOwned`, `PartsDisjoint`, `ProgressExact`, `AnswersJustified`, `UnsatRight`, `CallsReturn`: one thread uses a slot at a time, no part is lost or solved twice, the answer is one that `CaseSplit` justifies, an output found UNSAT is never 1, and every call returns | 52861 |

| run of `MCSplitSerial` | flags | shows | distinct states |
|---|---|---|---|
| `serial` | `-P 1 -I 9`, 4 inputs | `SerialCovered`, `SerialProgress`, `SerialCexReal`: no part is lost, the counter-example is one | 1788 |
| `serial_sat` | `-P 1` | violated `SerialUnsatRight` | |

| run of `MCGla` | flags | shows | distinct states |
|---|---|---|---|
| `gla` | `-q -B 1 -P 30 -F 4`, with and without `-s`, limits | `StatusesRight`, `ClassesProved`, `NewestProver`, `FramesProved`, `CexFirst`, `ClassesGrow`, `Termination`: late and cancelled provers, restarts and limits leave the answers, the stored abstraction and the count of proved timeframes right | 115714 |
| `gla_outputs` | the same, two outputs | violated `StatusesRight` | |

| run of `MCWla` | flags | shows | distinct states |
|---|---|---|---|
| `wla` | five settings of `-q -s -t -l -p -u -x` | `TypeOK`, `AnswersRight`, `ShrunkClean`, `WhitesNonEmpty`, `ThreadJoined`, `CrashOnlyByLimitOrShrink`, `TraceFits`, `Termination`: whatever the two threads do to the abstraction and the run number | 210779 |
| `wla_comb` | `-u -x` | violated `AnswersRight` | |

Where the code does less than one would wish, `wla` claims what holds: `AnswersRight` says of a
real counter-example that an output is 1, and that this is a failure without XORs;
`CrashOnlyByLimitOrShrink` says when a null pointer is followed or the assertion of
`IPdr_ManRebuildClauses` fails, not that neither happens; and no setting of `wla` has `-p` with `-s`.
The observations below say what is behind each.

Bounds of `Pdr`.  A circuit is small on purpose: the state space is that of the
engine, not of the circuit, and grows with the choice of cores and orders.  Each
circuit is the smallest found for the question of its run.  In `pdr_proof` the
initial state of the circuit has no predecessor, so that a core may leave out all
literals that keep a cube away from it, which the code must put back; with
`-D` generalization stops at any literal, so that clauses subsume each other.  The
lock of `pdr_reuse` fails after three steps along several paths, so that
obligations are chained, rescheduled and outlive a timeframe.  The fork of
`pdr_outputs` fails on a short and a longer branch; its clauses rest on outputs that
are disproved or time out on the way.  `NFrameMax` is above the depth at which every
run answers, so it cuts nothing off in the runs without it as a question.  `-Q 2` is
the smallest limit that grows.   "Down" needs four
registers: `TurnsTrans` (found by a search over small circuits) is one on which every
branch of `ZPdr_ManDown` is taken, up to a second predecessor that is blocked; below
three timeframes no predecessor is.  The same circuit with a second output shows
`pdr_ctg_dropped`.

Bounds of `Split`.  Two workers are the fewest that can finish in either order
and leave a slot empty while the other works; three inputs let a part be split
twice before it is decided, so that the stack holds parts of different depth.
Of the two outputs one is never 1 and the other can be; `NSplitMax`, the number
of outputs that are split, is 1, so that either of them is split, and the threads
left by the first call are there in the second.  With two outputs split, two
threads use one slot (see the findings), and the hand-shake is lost.  `NIterMax` is
3 in `split`, so that the search ends both ways; without a limit `nIter` is at most
the number of cofactors.  In `serial` the 9 iterations are above and below what
different orders need.

Bounds of `Gla`.  Three objects give the lattice of abstractions a level on which two
incomparable ones differ, one of them proved; -F 4 is two timeframes after the failing
design fails, so that a prover can be started, cancelled and overtaken by another.  The
constants 20 and 100 that keep the code from restarting early are the constants
`RestartFrame` and `RestartSize`, small here, so that restarts happen.  `-B 1` instead of
10 lets provers start within four timeframes.

Bounds of `Wla`.  Three signals let an abstraction be proved by one pair and not by another
and leave something to shrink after two refinements.  `nIterMax` is 6 (1000 in
the code): with three signals five iterations are enough for any refinement without
a shrink, and shrinking ends at the limit.  `nFramesNoChangeLim` is 1 (10 in the code).
`nFrameMax` is 3 in `wla` (10000 in the code), so that some abstractions fail below it, some
later and some never; it is out of reach in `wla_comb`.  The settings are those that change the control: no thread; a thread;
shrinking with the trace loaded, rebuilt or made from scratch; pushing with and without a
thread; XORed outputs or not.  In one of the three designs both outputs of a pair can be 1.

Fairness.  The engine is one thread that never waits: weak fairness of `Next` says
only that it keeps running.  `Termination` is checked without the limits of the
run (`MayAbort` is off), since with them it would be no claim; the limit on
timeframes stays, and is what must be reached if no answer is.

For `Split` it is weak fairness of the manager and of each worker: threads are
scheduled preemptively by the system and queries have a time limit (`-T`), so none
of them stops for good.  Nothing is assumed of `Stray`: a thread that reads a
dead frame need not read anything in particular.

For `Gla` it is weak fairness of the main thread and of the provers together: each query
has its limits or is decided.  A prover on an abstraction it can prove need not see its
cancellation.  For `Wla` it is weak fairness of the main thread and of the thread's steps
but for `BmcExhausted` and `BmcDeeper`: BMC on a design that does not fail goes on to
the next timeframe for as long as nobody stops it (only below 30 registers does it
notice that it has seen all states), and that is why the main thread must
increment the run number before it joins.

## Findings

Each is shown by a run that violates the property.

* `pdr -a -H -n -c` may call clauses an inductive invariant that are none: an output that
  times out inside "down" leaves its cube asserted in the solvers
  (`pdr_ctg_dropped`, `pdrCore.c:395`); in the same function a query without an answer
  counts as pushed (411).
* `&splitprove` reports UNSAT for a satisfiable output when the counter-example is
  found while no other part is pending (`serial_sat`, `cecSplit.c:509`).
* `&gla -q` on several outputs: a prover of an output that has ended raises the flag
  during the next one, which fails and is reported as proved (`gla_outputs`,
  `absPth.c:110`).
* `%pdra -u` takes an abstraction without AND gates for a proved one
  (`wla_comb`, `wlcAbs.c:1457`).

Further observations, read from the code while it was modelled, and not checked by a run.  Those
on `%pdra` are steps of `Wla`, named in brackets:

* `pdr -a -p`: the queue still holds obligations of one output when the next is solved;
  the trace stored for it does not make it fail (`pdrCore.c:995`; the assertion at 903
  that would notice is commented out, and `pdrMan.c:435` prints that the trace is
  not valid).  `ReuseProofOblig` and `SolveAll` are both in the model.
* `pdr -Q 1` never ends: 1*3/2 is 1 (`pdrCore.c:917`).
* `&splitprove -P n`: threads whose slot is empty at the end are not told to stop and poll
  a frame that was left (`cecSplit.c:709-719`); one cofactor records the wrong literal,
  and the counter-example derived from it is none (677); the result of a satisfiable
  output is read from an AIG that was freed (753, 757).
* `&gla -a` never leaves refinement with a real counter-example: `Ga2_ManRefine` returns
  null only in the other branch (`absGla.c:1286-1304`); not in the model, which has
  the counter-example analysis of the default.
* `&gla` on several outputs shares `iFrameProved` and `nFramesNoChange` between them, so `-s`
  skips timeframes of an output that only an earlier output was checked in.
* `%pdra` (`CexReal`) calls a counter-example real as soon as an output of the design is 1
  (`wlcAbs.c:587`), while with `-x`, the default, PDR and BMC look for outputs of a pair that
  differ: with both at 1 a design that does not fail gets a real counter-example.  For the same
  reason the thread does not shrink an abstraction in which both can be 1 (`ShrinkFails`).
* `%pdra` (`PdrLimit`, `RefineNothing`): when PDR has come to its limit of 10000 timeframes
  (`pdrIncr.c:767`), `Wla_ManRefine` follows a null pointer instead of reporting `timed out'.
* `%pdra -q -s -p` (`PushStopped`): a pushing that was stopped, -1, is taken for a proof
  (`pdrIncr.c:429`), also of a design that fails; no setting of `wla` has `-s` and `-p`.
* `%pdra -q -s` (`RebuildStopped`): the solvers that rebuild a trace test the run number as well,
  and an assertion that they never give up fails (`pdrIncr.c:283`).
* `%pdra -q -s` (`ClearNewAbs`, `RefineNothing`): a shrink between the loading of the trace and
  `fNewAbs = 0` (`wlcAbs.c:1527`) is forgotten, PDR is stopped without a counter-example and
  `Wla_ManRefine` follows a null pointer.
* `%pdra -q -s` with `-l` off: nothing clears `fNewAbs`, and every later counter-example is
  dropped until the limit of iterations.

## Proofs

For every circuit and every combination of flags, in `PdrProofs` and `PdrAnswerProofs`:

| theorem | property | assumes |
|---|---|---|
| `TypeCorrect` | `TypeOK` | |
| `FramesCorrect` | `FramesOverApproximate` | `SoundFlags` |
| `ClosedFramesCorrect` | `ClosedFramesSafe` | `SoundFlags` |
| `CertificateCorrect` | `InvariantCertificate` | `SoundFlags` |
| `LastSolverCorrect` | `LastSolverNotRecycled` | `SoundFlags` |
| `StrengtheningCorrect` | `FramesOnlyStrengthen` | `SoundFlags` |
| `FreshCorrect` | `ObligationsFresh` | `SoundFlags` |
| `ObligationsCorrect` | `ObligationsLeadToFailure` | `OneQueue` |
| `CexesCorrect` | `CexesAreReal` | `OneQueue` |
| `ShortestCorrect` | `CexesAreShortest` | `SoundFlags` |
| `VerdictsCorrect` | `VerdictsHold` | `SoundFlags`, `OneQueue` |

They rest on the assumptions `CircuitAssumption` and `PdrAssumption`, which TLC
evaluates in every run.  `SoundFlags` is `NRecycle # 0 /\ (Ctgs => ~Unanswered)`, and both
parts are needed: with `-M 0`, which the command accepts, the first query fetches the
last solver as one to recycle and breaks the assertion at `pdrSat.c:86`; with `-c` a
query that is not answered breaks the certificate (see the findings).  `OneQueue` says that
there is one output, or no `-p`, or `-q` with it: otherwise the obligations an output leaves in the
queue are taken for obligations of the next one (see the observations).

`FramesOverApproximate` is not inductive by itself.  `PdrProofs` strengthens it to
`SafeInv`.  The argument: a clause enters a timeframe only after a query proved
its cube inductive relative to the timeframe before, and that query asked a
solver, so the invariant must say what a solver may hold: its clauses are those
of its timeframe and later ones, or have been (`solver` only ever excludes what
the timeframe excludes), and the outputs it asserts are excluded by the clauses
alone.  The last is delicate: a rebuilt solver asserts the outputs that are live
now, so the invariant says that a closed timeframe excludes all of these
(`ClosedFramesSafe`), and within the loop over outputs that the last timeframe
excludes every live output before `iOutCur` (`OutputsHold`).  While a cube is
generalized it stays inductive and has a positive literal (`CubeInductive`), so
that its negation holds in the initial state; `DownInv` says the same of the cube "down"
tries and of the predecessor it blocks, relative to timeframes that already count the
cube (`Assumed`).  `EmptyLevel` remembers the
timeframe found empty, and two timeframes with the same clauses give the
certificate.  `Answers` relates the counters and the map of answers to the traces,
for the result "unsat".

`PdrAnswerProofs` is about the other side, failures.  `LeadInv` says that every obligation
in the queue leads to a failure of the current output and, once it has reached the
initial timeframe, that the inputs kept with it do so from the initial state, which need
not be in its cube: ternary simulation keeps literal 0 when it has dropped all others.
Both are steps of `TernarySimSteps`.  A trace recorded is then real, and a real trace
leaves no closed set of states without a failure (`RealViolable`, by induction along the
trace), which with the certificate gives the refinement of `Verdicts`.  `FreshInv` uses
the timeframes: the bad states found in the last one are excluded by the one before
(`ClosedFramesSafe`), so are predecessors two timeframes back, and an obligation is scheduled
again one after the timeframe its clause was added to.  With `-q` nothing is, so the
length of a trace is the number of timeframes (`DirectInv`).

For every miter, in `CaseSplitProofs`:

| theorem | property | assumes |
|---|---|---|
| `CaseSplitAnswers` | `AnswersRight` of `CaseSplit` | |

`CaseSplit` answers "unsat" when no open case has a failing assignment.  That
this is right for the whole output needs `Covered`: splitting and refuting leave
every failing assignment in some open case.

For every miter and any number of threads, in `SplitProofs`:

| theorem | property | assumes |
|---|---|---|
| `SlotsOwned` | `SlotOwned` | `NSplitMax <= 1` |
| `SplitImplementsCaseSplit` | `AnswersJustified` | `NSplitMax <= 1` |
| `SplitUnsatRight` | `UnsatRight` | `NSplitMax <= 1` |
| `SplitPartsDisjoint` | `PartsDisjoint` | `NSplitMax <= 1` |
| `SplitProgressExact` | `ProgressExact` | `NSplitMax <= 1` |
| `SplitTypeCorrect` | `TypeOK` | `NSplitMax <= 1` |
| `SplitsBounded` | fewer than `2^\|Pis\|` splits | `NSplitMax <= 1` |
| `FlagsServed` | `Served` | `NSplitMax <= 1` |

At most one output may be split: with two, a thread of the first call may share a
slot with one of the second (see the findings), and `SlotOwned` fails.

`SlotOwned` is not inductive by itself.  Its strengthening `OwnedInv` adds that a
raised flag has a part behind it, that the slot whose flag the manager is about
to raise is idle and filled, and that all threads that were started belong to one
call (`OneCall`), so that two of them never share a slot.

`AnswerInv` adds to it what the search needs.  A result that is ready belongs to the
part in the slot (`Solved`), so a part the manager discards was refuted.  The
parts on the stack and in the slots are disjoint, as indices and as sets of
assignments (`Disjoint`): collecting one of them must not remove another with the same
literals from the open cases.  `NothingLeft` is about `fWorkToDo`: while the flag is
down in a round, the stack was empty and the slots already visited are idle and empty,
so that at the end of the round no part is left anywhere.  The refinement maps the
parts on the stack and in the slots to the open cases, wherever a thread is; `SplitUnsatRight` then follows from the invariant of
`CaseSplit`, instantiated with this mapping.
`SplitPartsDisjoint` needs one more step from `Disjoint`: parts that conflict differ, so
there are as many parts as places that hold one.

`SplitProgressExact` and `SplitsBounded` come from one invariant, `CountInv`.  Refuting a part
moves its share to `Progress`, splitting halves it, so progress and shares add up to the
whole (`Accounted`).  Every split makes one part more and a refuted part is worth at least one unit, so `nIter + 1`
is at most the progress plus the number of parts; each of these has a share of at least
one, and the sum of both is `2^|Pis|`.  This is why the loop is finite without `-I`, which
is what `CallsReturn` needs besides fairness.  `FlagsServed` is the other half: while the slots
exist each has a thread of this call that polls it or works on it (`Served`), so no flag
that was raised stays up for want of a thread.

The sums rest on `CofactorsProofs`.  It shows that `Share` and the fold `MapThenSumSet` are what
they should be without induction over an operator: `2^n` is the number of subsets of
`1 .. n`, for which the library has the recursion, and the fold over a set counts units, the
elements of `{x} \X (1 .. Share(Depth(x)))`; a smallest subset for which it did not
(`WFMin` on the order of strict subsets) contradicts the fold's definition.  It assumes that `Pis` is
finite (`CofactorsAssumption`).

For every miter and limit of iterations, for the loop of one process, in `SplitSerialProofs`:

| theorem | property | assumes |
|---|---|---|
| `SerialNothingLost` | `SerialCovered` | |
| `SerialCexesReal` | `SerialCexReal` | |
| `SerialProgressExact` | `SerialProgress` | |
| `SerialSplitsBounded` | fewer than `2^\|Pis\|` splits | |
| `SerialStepsDescend` | the loop is finite | |

The inductive invariant `SerialInv` adds that the parts of this loop record the literals they
are the cofactor of, which the code's two halves do here and do not in the threaded loop
(`Halves` of `Split`), and that the input a part is split on is free in it.  `ProgressInv` has the
accounts of the threaded loop, with the parts between the two halves.

For every set of objects, design and number of outputs, in `GlaProofs`:

| theorem | property | assumes |
|---|---|---|
| `TypeCorrect` | `TypeOK` | |
| `NewestProverCorrect` | `NewestProver` | |
| `ClassesGrowCorrect` | `ClassesGrow` | |
| `StatusesCorrect` | `StatusesRight` | `Solo` |
| `ClassesProvedCorrect` | `ClassesProved` | `Solo` |
| `FramesProvedCorrect` | `FramesProved` | `Solo` |
| `CexFirstCorrect` | `CexFirst` | `Solo` |
| `EveryStepDescends` | runs are finite | `-F` is given |

`Solo`: one output has something to solve, the others are constants.  With two the flag
of one is taken for the other (see the findings).  `ClassesInv` and `RunInv` are
inductive for any number: the stored abstraction is the one a timeframe began with or
the new one, and unless a prover is being waited for all are cancelled.  The
rest is `SoloInv`: a flag, whoever raised it, means that an abstraction contained in the
stored one is proved (`ProofInv`), since abstractions only grow and what is proved with
less kept is proved with more; `CleanInv` follows the timeframes through
refinement, cores and restarts; `FreshInv` says that nothing is left over when the
output starts, which is what a second output breaks.

`EveryStepDescends`: each step takes down the tuple `Rank`, lexicographically: outputs left,
stage of the output, room between the abstraction of the last restart and all objects,
timeframes left, place in the timeframe, objects that are not kept, provers, provers
without an answer.  The order has no infinite descent (`WFLexProductOrdering`).  What is delicate are
forced restarts, which go back to timeframe 0 and could repeat: a restart follows a
refinement, the abstraction the timeframe began with fails there and no core is that small, so the
abstraction the next restart begins with is larger (`RankInv`).  Only `-F` is assumed.

For every set of signals, design and option, in `WlaProofs`:

| theorem | property | assumes |
|---|---|---|
| `TypeCorrect` | `TypeOK` | |
| `ThreadJoinedCorrect` | `ThreadJoined` | |
| `ShrunkCleanCorrect` | `ShrunkClean` | |
| `WhitesNonEmptyCorrect` | `WhitesNonEmpty` | |
| `CrashOnlyByLimitOrShrinkCorrect` | `CrashOnlyByLimitOrShrink` | |
| `TraceFitsCorrect` | `TraceFits` | |
| `AnswersCorrect` | `AnswersRight` | `GatelessSafe`, `PushSafe` |
| `WaitsStoppedCorrect` | `WaitsStopped` | |
| `EveryStepDescends` | all steps but BMC's unseen ones are finitely many | |

The inductive invariant is `Inv`.  `DesignInv` says what is known of a design: XORed outputs
fail less often than outputs are 1, and abstractions that keep more less often.
`CleanInv` carries what BMC found from the thread's answer to the shrink it makes, and that something failed within these
timeframes with all boxes black, so that the thread has a box to give up.  `StopInv` is the
argument for the run number: the thread increments it only with a counter-example in hand or
with a smaller abstraction, so PDR is stopped only when there is one of the two, and it ends by
itself only at its limit (`LimitReached`).  `TraceInv` says that without
`-s` saved traces belong to abstractions that keep no more than the present one.
`AnswerInv` needs `GatelessSafe`, that an abstraction without gates does not fail, which
is what `-u` takes for granted, and `PushSafe`, that `-p` is not used with `-s`: then a pushing that is
stopped is still taken for a proof, but there is a counter-example, which is looked at
first.  What `AnswersCorrect` says of a real counter-example is no more than
`AnswersRight` does.

`WaitsStopped`: the thread the main thread waits for was told to stop, by one of the two.  With
`EveryStepDescends` it is what `Termination` needs besides fairness: nothing but BMC may
go on, and BMC sees the run number.

Every invariant and every action property of the passing runs is stated by a theorem, and so
is the implementation of the abstract specifications.  Out of the prover's reach are the
four properties that need fairness: `Termination` of `Pdr`, `Gla` and `Wla`, and `CallsReturn` of
`Split`.  TLC checks these; the theorems on bounds and ranks are their part without fairness
for every value of the constants, but for `Pdr`, where there is none yet.

## Plan

Done: `Pdr` with "down", `Split`, `Gla` and `Wla` with their proofs, and `SplitSerial`.
What is left, in this order:

1. Theorems: a rank for `Pdr` (between two clauses obligations move towards timeframe 0, and each
   clause excludes a state that was admitted), as for `Gla` and `Wla`.
2. `Starter`: the command starter's slots (`cmdStarter.c`), a smaller instance of
   the polling in `Split`.
3. FdRw's incremental statistics, a CDCL solver, class refinement in SAT sweeping, the
   backup chain of the frame.

The properties cover one question each; new components come with runs of
their own, and the observations above are the next candidates for runs that show them.

## Not modelled

* `Pdr`: abstraction (`-t`), the other generalization orders (`-r -m -u -y -f -j`), the
  invariant's minimization and `pdrIncr.c` but for what `Wla` says of its trace.
* `Gla`: `-a` (another refinement, see the observations), dumping of intermediate
  abstractions (`-d -m`).  The limits `-C -T -R -Q` are one choice, to give up
  (`Limits`); `-r -f -c -b -p -u` select other implementations of one step.
* `Wla`: `%abs` and `%abs2` (sequential loops of the same shape), the limits on boxes
  (`-L`) and the choice between counter-example- and proof-based refinement, both within the free
  choice of what a refinement adds.
* Memory is sequentially consistent everywhere; what an optimiser makes of unqualified
  polled flags is a hazard without a property (`cecSplit.c:707`).
* Parsers and writers, mapping, truth-table and BDD packages and local rewriting are
  pure functions over large data or I/O; `components` in `PROJECT.json` gives the
  reason for each.
