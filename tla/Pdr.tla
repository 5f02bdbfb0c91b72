--------------------------------- MODULE Pdr ---------------------------------
(***************************************************************************)
(* The property directed reachability engine (src/proof/pdr, command       *)
(* `pdr'): Pdr_ManSolveInt with the calls it makes, one action per SAT     *)
(* query.  The SAT solver is modelled by what it decides: a query is       *)
(* satisfiable iff a model exists, which model and which core it returns   *)
(* is a free choice, and a limit may end it without an answer.  Orders the *)
(* code takes from heuristics (literals by priority, clauses by            *)
(* Pdr_SetCompare) are free choices too.                                   *)
(***************************************************************************)
EXTENDS Circuit, Sequences, FiniteSets

CONSTANTS
  Const0, Const1,   \* the outputs fed by a constant
  SolveAll,         \* -a  answer every output
  ReuseProofOblig,  \* -p  keep the obligations of the last timeframe
  Shortest,         \* -q  only shortest counter-examples
  ShiftStart,       \* -i  push clauses from an intermediate timeframe
  UsePropOut,       \* -o  assert the property in the closed timeframes
  SkipGeneral,      \* -g  no literal dropping
  SkipDown,         \* -n  a literal that cannot be dropped alone stays (the default)
  Ctgs,             \* -c  block predecessors found while literals are dropped
  ConfGenLimit,     \* -D  a query of the literal dropping may give up
  MayAbort,         \* -T, -G, -C or a callback may end the whole run
  TimeOutOne,       \* -H  every output has a runtime limit of its own
  NRecycle,         \* -M  activation variables that trigger recycling
  NRestLimit,       \* -Q  obligations that trigger a restart (0: none)
  NFrameMax         \* -F  timeframes after which the engine gives up (0: none)

Flags == <<SolveAll, ReuseProofOblig, Shortest, ShiftStart, UsePropOut, SkipGeneral, SkipDown,
           Ctgs, ConfGenLimit, MayAbort, TimeOutOne>>

ASSUME PdrAssumption ==
  /\ Const0 \subseteq Outs /\ \A o \in Const0 : Fails[o] = {}
  /\ Const1 \subseteq Outs /\ \A o \in Const1 : Fails[o] = States \X Ins
  /\ \A j \in DOMAIN Flags : Flags[j] \in BOOLEAN
  /\ NRecycle \in Nat /\ NRestLimit \in Nat /\ NFrameMax \in Nat

VARIABLES
  pc,          \* where Pdr_ManSolveInt is: see Locations
  iFrame,      \* the last timeframe, Vec_PtrSize(vSolvers)-1
  iOutCur,     \* the output being solved
  iUseFrame,   \* the first timeframe used since the last one was opened
  vClauses,    \* vClauses[k]: cubes whose negations hold up to timeframe k
  solver,      \* solver[k]: cubes whose negations the k-th SAT solver holds
  propOut,     \* propOut[k]: outputs the k-th SAT solver asserts to be 0
  vActVars,    \* vActVars[k]: activation variables used in the k-th solver
  queue,       \* proof obligations, the list pQueue linked by pLink
  nQueLim,     \* the current limit on the queue
  prio,        \* the next priority to give out in Pdr_ManBlockCube
  pThis,       \* the obligation taken from the queue
  pCubeMin,    \* the cube being generalized
  tried,       \* its literals that could not be dropped
  keep,        \* those of them `down' has failed for
  added,       \* pCubeMin is asserted in the solvers, though not a clause yet
  down,        \* the cube `down' works on: see NoDown
  ctg,         \* the counterexample to generalization it blocks: see NoCtg
  kCur,        \* the timeframe a cube is pushed to, or pushed from
  todo,        \* clauses of that timeframe still to be pushed
  emptied,     \* RetValue of Pdr_ManPushClauses
  vCexes,      \* per output: the obligations its trace was read from
  vOutMap,     \* per output: the answer
  nFailOuts, nDropOuts,
  result       \* what the run returned: "unsat" 1, "sat" 0, "undecided" -1

solverVars == <<vClauses, solver, propOut, vActVars>>
queueVars  == <<queue, nQueLim, prio, pThis, iUseFrame>>
downVars   == <<keep, added, down, ctg>>
cubeVars   == <<pCubeMin, tried, kCur, downVars>>
pushVars   == <<todo, emptied>>
outVars    == <<vCexes, vOutMap, nFailOuts, nDropOuts>>
vars == <<pc, iFrame, iOutCur, solverVars, queueVars, cubeVars, pushVars, outVars, result>>

\* Pdr_ManGeneralize and ZPdr_ManDown, while the cube is generalized
DownLocations == {"ctg", "ctgPush", "ctgDrop", "retry", "join"}
Locations == {"output", "property", "block", "induct", "general", "forward", "add",
              "push", "done"} \cup DownLocations

\* `down' tries cube instead of pCubeMin, after literal lit could not be dropped
\* because of the predecessor pred, has blocked ctgs of those; a clause
\* learned from one may give the literals a new order
NoDown == [lit |-> <<0, FALSE>>, cube |-> {}, pred |-> {}, ctgs |-> 0, order |-> "kept"]

\* pCubeMin of ZPdr_ManDown, pushed to timeframe l, and the literals it keeps
NoCtg == [cube |-> {}, l |-> 0, tried |-> {}]

Min2(a, b) == IF a < b THEN a ELSE b
Max2(a, b) == IF a > b THEN a ELSE b

-----------------------------------------------------------------------------
(* SAT queries *)

Frames == 0 .. iFrame

ClausesFrom(k) == UNION {vClauses[j] : j \in k .. iFrame}

\* Outputs that are neither disproved nor out of time
LiveOuts == {o \in Outs : vCexes[o] = <<>> /\ vOutMap[o] # "undecided"}

\* A mutant of PropertyOutput: outputs out of time are not skipped
PropertyOutputTimedOut == {o \in Outs : UsePropOut /\ vCexes[o] = <<>>}

\* Pdr_ManSetPropertyOutput: the outputs asserted to be 0
PropertyOutput == IF UsePropOut THEN LiveOuts ELSE {}

\* A mutant of Recycled: one activation variable too early
RecycledEarly(k) == vActVars[k] >= NRecycle - 1

\* Pdr_ManFetchSolver: a solver with too many activation variables is rebuilt
Recycled(k)  == vActVars[k] >= NRecycle
SolverOf(k)  == IF Recycled(k) THEN ClausesFrom(k) ELSE solver[k]
PropOutOf(k) == IF Recycled(k) THEN PropertyOutput ELSE propOut[k]

\* The effect of fetching solver k for a query that uses n activation variables
FetchSolver(k, n) ==
  /\ solver' = [solver EXCEPT ![k] = SolverOf(k)]
  /\ propOut' = [propOut EXCEPT ![k] = PropOutOf(k)]
  /\ vActVars' = [vActVars EXCEPT ![k] = n + (IF Recycled(k) THEN 0 ELSE @)]
  /\ UNCHANGED vClauses

\* What solver k allows: the 0-th one is the initial state
Models(k) ==
  {m \in States \X Ins :
     /\ k = 0 => m[1] = InitState
     /\ \A d \in SolverOf(k) : ~Covers(d, m[1])
     /\ \A o \in PropOutOf(k) : m \notin Fails[o]}

\* Pdr_ManCheckCube on a cube: models outside c whose successor is in part,
\* the literals of c the query assumes of the next state (all of them, or a core)
CubeModels(k, c, part) ==
  {m \in Models(k) : ~Covers(c, m[1]) /\ Covers(part, Trans[m])}

\* Pdr_ManCheckCube on the property
PropertyModels(k) == Models(k) \cap Fails[iOutCur]

\* The pairs that step into cube c
StepsInto(c) == {m \in States \X Ins : Covers(c, Trans[m])}

\* The cube that is just the state
StateLits(s) == {<<r, r \in s>> : r \in Regs}

\* A mutant of TernarySim: a state is kept if some inputs lead into the target
TernarySimAnyInput(m, target) ==
  {c \in SUBSET StateLits(m[1]) :
     \A s \in States : Covers(c, s) => \E i \in Ins : <<s, i>> \in target}

(***************************************************************************)
(* Pdr_ManTernarySim: literals of the model's state are dropped as long as *)
(* every state left, with the model's inputs, is in the target.  When none *)
(* is left the code keeps literal 0, register 0 at 1.                      *)
(***************************************************************************)
TernarySim(m, target) ==
  LET enough == {c \in SUBSET StateLits(m[1]) :
                   \A s \in States : Covers(c, s) => <<s, m[2]>> \in target}
  IN  {IF c = {} THEN {<<0, TRUE>>} ELSE c : c \in enough}

\* A mutant of ReduceClause: the core is taken as it is
ReduceClauseCore(k, c) == {core \in SUBSET c : CubeModels(k, c, core) = {}}

(***************************************************************************)
(* Pdr_ManReduceClause: any subset of the cube that suffices for           *)
(* unsatisfiability, with a positive literal put back if it has none.      *)
(***************************************************************************)
ReduceClause(k, c) ==
  UNION {IF IsInit(core) THEN {core \cup {l} : l \in {x \in c : x[2]}} ELSE {core} :
           core \in {x \in SUBSET c : CubeModels(k, c, x) = {}}}

-----------------------------------------------------------------------------
(* The queue of proof obligations *)

(***************************************************************************)
(* An obligation.  pNext and pState never change once it is created, so    *)
(* the chain of obligations it leads to is kept in it: chain[1] is its own *)
(* cube with the inputs that lead into chain[2], and so on to the output.  *)
(***************************************************************************)
Obligation(k, p, chain) == [frame |-> k, prio |-> p, chain |-> chain]
Cube(ob) == ob.chain[1].cube

\* Pdr_QueuePush: before the first one of a later frame or a larger priority
QueuePush(q, ob) ==
  LET later(x) == \/ x.frame > ob.frame
                  \/ x.frame = ob.frame /\ x.prio > ob.prio
      n == Cardinality({j \in 1 .. Len(q) : \A x \in 1 .. j : ~later(q[x])})
  IN  SubSeq(q, 1, n) \o <<ob>> \o SubSeq(q, n + 1, Len(q))

CheckContainment(k, c) == \E d \in ClausesFrom(k) : SetContains(c, d)

-----------------------------------------------------------------------------
(* Starting, and returning a value *)

Init ==
  /\ pc = "output" /\ iFrame = 0 /\ iOutCur = 0 /\ iUseFrame = 1
  /\ vClauses = [j \in {0} |-> {}] /\ solver = [j \in {0} |-> {}]
  /\ propOut = [j \in {0} |-> {}] /\ vActVars = [j \in {0} |-> 0]
  /\ queue = <<>> /\ nQueLim = 0 /\ prio = 0 /\ pThis = <<>>
  /\ pCubeMin = {} /\ tried = {} /\ kCur = 0 /\ todo = {} /\ emptied = FALSE
  /\ keep = {} /\ added = FALSE /\ down = NoDown /\ ctg = NoCtg
  /\ vCexes = [o \in Outs |-> <<>>]
  /\ vOutMap = [o \in Outs |-> IF SolveAll /\ o \in Const0 THEN "proved" ELSE "unknown"]
  /\ nFailOuts = 0 /\ nDropOuts = 0
  /\ result = "running"

\* Pdr_ManSolve turns what is still unknown into undecided; without -a there
\* is no vOutMap
Settled(map) ==
  [o \in Outs |-> IF SolveAll /\ map[o] = "unknown" THEN "undecided" ELSE map[o]]

Return(value, map) ==
  /\ pc' = "done"
  /\ result' = value
  /\ vOutMap' = Settled(map)

\* The end of the loop body for the current output: with -H its time may be
\* used up, and an output without a counter-example is then dropped
EndOutput(expired) ==
  /\ pc' = "output"
  /\ iOutCur' = iOutCur + 1
  /\ IF expired
       THEN /\ vOutMap' = [vOutMap EXCEPT ![iOutCur] = "undecided"]
            /\ nDropOuts' = nDropOuts + 1
       ELSE UNCHANGED <<vOutMap, nDropOuts>>

\* A counter-example, read from a chain of obligations, is recorded (without -a
\* it is pSeqModel, and nothing is counted)
RecordCex(chain) ==
  /\ vCexes' = [vCexes EXCEPT ![iOutCur] = chain]
  /\ nFailOuts' = nFailOuts + (IF SolveAll THEN 1 ELSE 0)

Disproved == [vOutMap EXCEPT ![iOutCur] = "failed"]

-----------------------------------------------------------------------------
(* The loop over the outputs *)

\* A mutant of SkipOutput: the loop runs past the last output
SkipOutputPastEnd ==
  /\ pc = "output"
  /\ iOutCur \notin LiveOuts \ Const0
  /\ iOutCur' = iOutCur + 1
  /\ UNCHANGED <<pc, iFrame, solverVars, queueVars, cubeVars, pushVars, outVars, result>>

SkipOutput ==
  /\ pc = "output" /\ iOutCur \in Outs
  /\ iOutCur \notin LiveOuts \ Const0
  /\ iOutCur' = iOutCur + 1
  /\ UNCHANGED <<pc, iFrame, solverVars, queueVars, cubeVars, pushVars, outVars, result>>

\* An output fed by constant 1 fails in the current timeframe
TrivialOutput ==
  /\ pc = "output" /\ iOutCur \in LiveOuts \cap Const1
  /\ \E i \in Ins : RecordCex([j \in 1 .. iFrame + 1 |-> [cube |-> {}, in |-> i]])
  /\ IF ~SolveAll
       THEN Return("sat", vOutMap) /\ UNCHANGED <<iOutCur, nDropOuts>>
       ELSE \/ MayAbort /\ Return("undecided", Disproved) /\ UNCHANGED <<iOutCur, nDropOuts>>
            \/ /\ nFailOuts' + nDropOuts = NOuts
               /\ Return("sat", Disproved) /\ UNCHANGED <<iOutCur, nDropOuts>>
            \/ /\ nFailOuts' + nDropOuts # NOuts
               /\ iOutCur' = iOutCur + 1 /\ vOutMap' = Disproved
               /\ UNCHANGED <<pc, result, nDropOuts>>
  /\ UNCHANGED <<iFrame, solverVars, queueVars, cubeVars, pushVars>>

StartOutput ==
  /\ pc = "output" /\ iOutCur \in LiveOuts \ (Const0 \cup Const1)
  /\ pc' = "property"
  /\ UNCHANGED <<iFrame, iOutCur, solverVars, queueVars, cubeVars, pushVars, outVars, result>>

\* Pdr_ManCheckCube( p, iFrame, NULL, ... ) returns 1
PropertyHolds ==
  /\ pc = "property"
  /\ PropertyModels(iFrame) = {}
  /\ FetchSolver(iFrame, 0)
  /\ \E expired \in {FALSE, TimeOutOne /\ SolveAll} : EndOutput(expired)
  /\ UNCHANGED <<iFrame, queueVars, cubeVars, pushVars, vCexes, nFailOuts, result>>

\* ... or 0, and Pdr_ManBlockCube starts from the bad cube
PropertyFails ==
  /\ pc = "property"
  /\ \E m \in PropertyModels(iFrame) : \E c \in TernarySim(m, Fails[iOutCur]) :
       queue' = QueuePush(queue, Obligation(iFrame, 0, <<[cube |-> c, in |-> m[2]]>>))
  /\ FetchSolver(iFrame, 0)
  /\ pc' = "block" /\ prio' = -1
  /\ UNCHANGED <<iFrame, iOutCur, iUseFrame, nQueLim, pThis, cubeVars, pushVars, outVars, result>>

-----------------------------------------------------------------------------
(* Pdr_ManBlockCube *)

HeadOb == Head(queue)

\* The head of the queue has reached the initial timeframe: a counter-example
FoundCex ==
  /\ pc = "block" /\ queue # <<>> /\ HeadOb.frame = 0
  /\ RecordCex(HeadOb.chain)
  /\ IF ~SolveAll
       THEN Return("sat", vOutMap) /\ UNCHANGED <<iOutCur, nDropOuts, queue>>
       ELSE \/ /\ MayAbort /\ Return("undecided", Disproved)
               /\ UNCHANGED <<iOutCur, nDropOuts, queue>>
            \/ /\ nFailOuts' = NOuts /\ Return("sat", Disproved)
               /\ UNCHANGED <<iOutCur, nDropOuts, queue>>
            \/ /\ nFailOuts' # NOuts
               /\ queue' = <<>> /\ vOutMap' = Disproved
               /\ pc' = "output" /\ iOutCur' = iOutCur + 1
               /\ UNCHANGED <<nDropOuts, result>>
  /\ UNCHANGED <<iFrame, solverVars, nQueLim, prio, pThis, iUseFrame, cubeVars, pushVars>>

\* Nothing is left to block up to the last timeframe
CubeBlocked ==
  /\ pc = "block"
  /\ queue # <<>> => HeadOb.frame > iFrame
  /\ pc' = "property"
  /\ UNCHANGED <<iFrame, iOutCur, solverVars, queueVars, cubeVars, pushVars, outVars, result>>

\* An obligation of a frame in 1..iFrame is at the head of the queue
Pending == pc = "block" /\ queue # <<>> /\ HeadOb.frame \in 1 .. iFrame

Restarts == nQueLim # 0 /\ Len(queue) >= nQueLim

\* A mutant of NextLimit: the limit stays
NextLimitSame(lim) == lim

NextLimit(lim) == (lim * 3) \div 2

\* The limit on the queue is reached: all obligations are given up
Restart ==
  /\ Pending /\ Restarts
  /\ nQueLim' = NextLimit(nQueLim)
  /\ queue' = <<>>
  /\ pc' = "property"
  /\ UNCHANGED <<iFrame, iOutCur, solverVars, prio, pThis, iUseFrame, cubeVars, pushVars,
                 outVars, result>>

\* Pdr_ManCheckCubeCs: the frame's solver has a state in the cube
InFrame(k, c) == \E m \in Models(k) : Covers(c, m[1])

PopObligation ==
  /\ Pending /\ ~Restarts
  /\ queue' = Tail(queue)
  /\ iUseFrame' = Min2(iUseFrame, HeadOb.frame)

\* The cube is contained in a clause, or blocked by the frame's solver
PopBlocked ==
  /\ PopObligation
  /\ \/ /\ CheckContainment(HeadOb.frame, Cube(HeadOb))
        /\ UNCHANGED solverVars
     \/ /\ ~CheckContainment(HeadOb.frame, Cube(HeadOb))
        /\ ~InFrame(HeadOb.frame, Cube(HeadOb))
        /\ FetchSolver(HeadOb.frame, 0)
  /\ UNCHANGED <<pc, iFrame, iOutCur, nQueLim, prio, pThis, cubeVars, pushVars, outVars, result>>

PopOpen ==
  /\ PopObligation
  /\ ~CheckContainment(HeadOb.frame, Cube(HeadOb))
  /\ InFrame(HeadOb.frame, Cube(HeadOb))
  /\ FetchSolver(HeadOb.frame, 0)
  /\ pThis' = HeadOb
  /\ pc' = "induct"
  /\ UNCHANGED <<iFrame, iOutCur, nQueLim, prio, cubeVars, pushVars, outVars, result>>

-----------------------------------------------------------------------------
(* Pdr_ManGeneralize, at the timeframe before the obligation's *)

\* A mutant of BeforeThis: the obligation's own timeframe
BeforeThisSame == pThis.frame

BeforeThis == pThis.frame - 1

\* What Pdr_ManBlockCube holds of the obligation it is done with
Release ==
  /\ pThis' = <<>> /\ pCubeMin' = {} /\ tried' = {} /\ kCur' = 0
  /\ keep' = {} /\ added' = FALSE /\ down' = NoDown /\ ctg' = NoCtg

\* The cube has a predecessor: both it and the predecessor are to be blocked
InductFails ==
  /\ pc = "induct"
  /\ \E m \in CubeModels(BeforeThis, Cube(pThis), Cube(pThis)) :
     \E c \in TernarySim(m, StepsInto(Cube(pThis))) :
       queue' = QueuePush(QueuePush(queue, [pThis EXCEPT !.prio = prio]),
                          Obligation(BeforeThis, prio - 1,
                                     <<[cube |-> c, in |-> m[2]]>> \o pThis.chain))
  /\ FetchSolver(BeforeThis, 1)
  /\ prio' = prio - 2
  /\ pc' = "block" /\ Release
  /\ UNCHANGED <<iFrame, iOutCur, iUseFrame, nQueLim, pushVars, outVars, result>>

\* The cube is inductive relative to the timeframe: generalization starts
InductHolds ==
  /\ pc = "induct"
  /\ CubeModels(BeforeThis, Cube(pThis), Cube(pThis)) = {}
  /\ pCubeMin' \in ReduceClause(BeforeThis, Cube(pThis))
  /\ FetchSolver(BeforeThis, 1)
  /\ tried' = {} /\ kCur' = pThis.frame
  /\ pc' = IF SkipGeneral THEN "forward" ELSE "general"
  /\ UNCHANGED <<iFrame, iOutCur, queueVars, downVars, pushVars, outVars, result>>

\* Dropping literal l leaves a cube that is still inductive
DropLiteral(l) ==
  /\ pc = "general" /\ l \in pCubeMin \ tried
  /\ ~IsInit(pCubeMin \ {l})
  /\ CubeModels(BeforeThis, pCubeMin \ {l}, pCubeMin \ {l}) = {}
  /\ pCubeMin' = pCubeMin \ {l}
  /\ FetchSolver(BeforeThis, 1)
  /\ added' = FALSE
  /\ UNCHANGED <<pc, iFrame, iOutCur, queueVars, tried, kCur, keep, down, ctg, pushVars, outVars,
                 result>>

\* Literal l stays: the rest holds the initial state, or, unless `down' is tried,
\* the query has a model or gives up at the limit of -D
KeepLiteral(l) ==
  /\ pc = "general" /\ l \in pCubeMin \ tried
  /\ IF IsInit(pCubeMin \ {l})
       THEN UNCHANGED solverVars
       ELSE /\ SkipDown
            /\ \/ ConfGenLimit
               \/ CubeModels(BeforeThis, pCubeMin \ {l}, pCubeMin \ {l}) # {}
            /\ FetchSolver(BeforeThis, 1)
  /\ tried' = tried \cup {l}
  /\ UNCHANGED <<pc, iFrame, iOutCur, queueVars, pCubeMin, kCur, downVars, pushVars, outVars, result>>

Generalized ==
  /\ pc = "general" /\ tried = pCubeMin
  /\ pc' = "forward"
  /\ UNCHANGED <<iFrame, iOutCur, solverVars, queueVars, cubeVars, pushVars, outVars, result>>

-----------------------------------------------------------------------------
(* ZPdr_ManDown: instead of one literal, everything the cube does not      *)
(* share with the predecessor that keeps the literal is dropped            *)

\* The predecessors read from a model of the query on cube c
Preds(c) == UNION {TernarySim(m, StepsInto(c)) : m \in CubeModels(BeforeThis, c, c)}

\* A query that gave up at the limit of -D leaves some earlier model behind; the
\* predecessor read from that is a part of some state
StalePreds == {c \in (SUBSET Lits) \ {{}} : ConfGenLimit /\ \E s \in States : c \subseteq StateLits(s)}

\* The rest has a predecessor, or the query gives up, and `down' is tried
DownStarts(l) ==
  /\ pc = "general" /\ ~SkipDown /\ l \in pCubeMin \ tried
  /\ LET rest == pCubeMin \ {l} IN
       /\ ~IsInit(rest)
       /\ \E pred \in Preds(rest) \cup StalePreds :
            down' = [lit |-> l, cube |-> rest, pred |-> pred, ctgs |-> 0, order |-> "kept"]
  /\ FetchSolver(BeforeThis, 1)
  /\ pc' = "ctg"
  /\ UNCHANGED <<iFrame, iOutCur, queueVars, pCubeMin, tried, kCur, keep, added, ctg, pushVars,
                 outVars, result>>

\* Is the predecessor itself to be blocked first?
TriesCtg == Ctgs /\ BeforeThis > 1 /\ down.ctgs < 3 /\ ~IsInit(down.pred)

\* The cube being generalized is asserted in the solvers up to the timeframe
CtgAssume ==
  /\ pc = "ctg" /\ TriesCtg /\ ~added
  /\ solver' = [j \in Frames |-> IF j \in 1 .. BeforeThis THEN solver[j] \cup {pCubeMin} ELSE solver[j]]
  /\ added' = TRUE
  /\ UNCHANGED <<pc, iFrame, iOutCur, vClauses, propOut, vActVars, queueVars, pCubeMin, tried, kCur,
                 keep, down, ctg, pushVars, outVars, result>>

\* The predecessor can be blocked one timeframe earlier
CtgHolds ==
  /\ pc = "ctg" /\ TriesCtg /\ added
  /\ CubeModels(BeforeThis - 1, down.pred, down.pred) = {}
  /\ \E c \in ReduceClause(BeforeThis - 1, down.pred) :
       ctg' = [cube |-> c, l |-> BeforeThis, tried |-> {}]
  /\ FetchSolver(BeforeThis - 1, 1)
  /\ down' = [down EXCEPT !.ctgs = @ + 1]
  /\ pc' = "ctgPush"
  /\ UNCHANGED <<iFrame, iOutCur, queueVars, pCubeMin, tried, kCur, keep, added, pushVars, outVars,
                 result>>

\* A query may end without an answer, at a limit that does not end the run at once
Unanswered == MayAbort \/ TimeOutOne

\* ... or it is not tried, cannot be, or the query ends without an answer
CtgStays ==
  /\ pc = "ctg"
  /\ \/ ~TriesCtg /\ UNCHANGED solverVars
     \/ /\ TriesCtg /\ added
        /\ Unanswered \/ CubeModels(BeforeThis - 1, down.pred, down.pred) # {}
        /\ FetchSolver(BeforeThis - 1, 1)
  /\ pc' = "join"
  /\ UNCHANGED <<iFrame, iOutCur, queueVars, cubeVars, pushVars, outVars, result>>

\* A mutant of CtgPushed: without asking whether the cube holds one timeframe later
CtgPushedUnasked ==
  /\ pc = "ctgPush" /\ ctg.l < iFrame
  /\ FetchSolver(ctg.l, 1)
  /\ ctg' = [ctg EXCEPT !.l = @ + 1]
  /\ UNCHANGED <<pc, iFrame, iOutCur, queueVars, pCubeMin, tried, kCur, keep, added, down, pushVars,
                 outVars, result>>

\* Its cube is pushed as far as queries do not fail; one without an answer does not
CtgPushed ==
  /\ pc = "ctgPush" /\ ctg.l < iFrame
  /\ Unanswered \/ CubeModels(ctg.l, ctg.cube, ctg.cube) = {}
  /\ FetchSolver(ctg.l, 1)
  /\ ctg' = [ctg EXCEPT !.l = @ + 1]
  /\ UNCHANGED <<pc, iFrame, iOutCur, queueVars, pCubeMin, tried, kCur, keep, added, down, pushVars,
                 outVars, result>>

CtgStops ==
  /\ pc = "ctgPush"
  /\ \/ ctg.l = iFrame /\ UNCHANGED solverVars
     \/ /\ ctg.l < iFrame
        /\ CubeModels(ctg.l, ctg.cube, ctg.cube) # {}
        /\ FetchSolver(ctg.l, 1)
  /\ pc' = "ctgDrop"
  /\ UNCHANGED <<iFrame, iOutCur, queueVars, cubeVars, pushVars, outVars, result>>

\* ZPdr_ManSimpleMic drops literals of it; the caller asserts that each query is
\* answered
CtgDrop(x) ==
  /\ pc = "ctgDrop" /\ x \in ctg.cube \ ctg.tried
  /\ LET rest == ctg.cube \ {x} IN
       /\ ~IsInit(rest)
       /\ CubeModels(ctg.l - 1, rest, rest) = {}
       /\ ctg' = [ctg EXCEPT !.cube = rest]
  /\ FetchSolver(ctg.l - 1, 1)
  /\ UNCHANGED <<pc, iFrame, iOutCur, queueVars, pCubeMin, tried, kCur, keep, added, down, pushVars,
                 outVars, result>>

CtgKeep(x) ==
  /\ pc = "ctgDrop" /\ x \in ctg.cube \ ctg.tried
  /\ LET rest == ctg.cube \ {x} IN
       IF IsInit(rest)
         THEN UNCHANGED solverVars
         ELSE CubeModels(ctg.l - 1, rest, rest) # {} /\ FetchSolver(ctg.l - 1, 1)
  /\ ctg' = [ctg EXCEPT !.tried = @ \cup {x}]
  /\ UNCHANGED <<pc, iFrame, iOutCur, queueVars, pCubeMin, tried, kCur, keep, added, down, pushVars,
                 outVars, result>>

\* What is left becomes a clause of timeframe l
CtgAdd ==
  /\ pc = "ctgDrop" /\ ctg.tried = ctg.cube
  /\ vClauses' = [vClauses EXCEPT ![ctg.l] = @ \cup {ctg.cube}]
  /\ solver' = [j \in Frames |-> IF j \in 1 .. ctg.l THEN solver[j] \cup {ctg.cube} ELSE solver[j]]
  /\ ctg' = NoCtg
  /\ down' = [down EXCEPT !.order = "new"]
  /\ pc' = "retry"
  /\ UNCHANGED <<iFrame, iOutCur, propOut, vActVars, queueVars, pCubeMin, tried, kCur, keep, added,
                 pushVars, outVars, result>>

\* `down' returns 1: c replaces the cube, and all its literals are tried anew
DownHolds(c) ==
  /\ CubeModels(BeforeThis, c, c) = {}
  /\ FetchSolver(BeforeThis, 1)
  /\ pCubeMin' = c /\ tried' = keep \cap c /\ added' = FALSE /\ down' = NoDown
  /\ pc' = "general"
  /\ UNCHANGED <<iFrame, iOutCur, queueVars, kCur, keep, ctg, pushVars, outVars, result>>

\* With the predecessor blocked the cube is asked for again
RetryHolds == pc = "retry" /\ DownHolds(down.cube)

RetryFails ==
  /\ pc = "retry"
  /\ \E c \in Preds(down.cube) : down' = [down EXCEPT !.pred = c]
  /\ FetchSolver(BeforeThis, 1)
  /\ pc' = "ctg"
  /\ UNCHANGED <<iFrame, iOutCur, queueVars, pCubeMin, tried, kCur, keep, added, ctg, pushVars,
                 outVars, result>>

\* What the cube and the predecessor share
Joined == down.cube \cap down.pred

\* The order of the entries of Pdr_Set_t.Lits
LitId(l) == 2 * l[1] + (IF l[2] THEN 0 ELSE 1)

\* ZPdr_SetIntersection gives up when a literal to keep is not shared, unless it
\* comes after all literals of the other cube
Passed(c, d) == {l \in c \ d : \E x \in d : LitId(l) < LitId(x)}
JoinLosesKept == keep \cap (Passed(down.cube, down.pred) \cup Passed(down.pred, down.cube)) # {}

JoinHolds ==
  /\ pc = "join"
  /\ ~JoinLosesKept /\ ~IsInit(Joined)
  /\ DownHolds(Joined)

\* The literals that count as tried afterwards: a clause learned on the way may
\* change the order they are taken in, and others may be passed over
TriedNow ==
  IF down.order = "new"
    THEN {c \in SUBSET pCubeMin :
            Cardinality(c) \in Cardinality(tried \ keep) + 1 .. Cardinality(tried) + 1}
    ELSE {tried \cup {down.lit}}

\* A mutant of JoinFails: all literals are tried anew and none is kept for good
JoinFailsAnew ==
  /\ pc = "join"
  /\ IF JoinLosesKept \/ IsInit(Joined)
       THEN UNCHANGED solverVars
       ELSE /\ Cardinality(Joined) = 1
            /\ CubeModels(BeforeThis, Joined, Joined) # {}
            /\ FetchSolver(BeforeThis, 1)
  /\ keep' = keep
  /\ tried' = keep \cap pCubeMin
  /\ down' = NoDown
  /\ pc' = "general"
  /\ UNCHANGED <<iFrame, iOutCur, queueVars, pCubeMin, kCur, added, ctg, pushVars, outVars, result>>

\* `down' returns 0: the literal is kept for good
JoinFails ==
  /\ pc = "join"
  /\ IF JoinLosesKept \/ IsInit(Joined)
       THEN UNCHANGED solverVars
       ELSE /\ Cardinality(Joined) = 1
            /\ CubeModels(BeforeThis, Joined, Joined) # {}
            /\ FetchSolver(BeforeThis, 1)
  /\ keep' = keep \cup {down.lit}
  /\ \E c \in TriedNow : tried' = c \cup (keep' \cap pCubeMin)
  /\ down' = NoDown
  /\ pc' = "general"
  /\ UNCHANGED <<iFrame, iOutCur, queueVars, pCubeMin, kCur, added, ctg, pushVars, outVars, result>>

\* The shared part has a predecessor too: once more
JoinAgain ==
  /\ pc = "join"
  /\ ~JoinLosesKept /\ ~IsInit(Joined) /\ Cardinality(Joined) # 1
  /\ \E c \in Preds(Joined) :
       down' = [down EXCEPT !.cube = Joined, !.pred = c, !.ctgs = 0]
  /\ FetchSolver(BeforeThis, 1)
  /\ pc' = "ctg"
  /\ UNCHANGED <<iFrame, iOutCur, queueVars, pCubeMin, tried, kCur, keep, added, ctg, pushVars,
                 outVars, result>>

\* The generalized cube is pushed to the last timeframe where it holds
ForwardHolds ==
  /\ pc = "forward" /\ kCur < iFrame
  /\ CubeModels(kCur, pCubeMin, pCubeMin) = {}
  /\ FetchSolver(kCur, 1)
  /\ kCur' = kCur + 1
  /\ UNCHANGED <<pc, iFrame, iOutCur, queueVars, pCubeMin, tried, downVars, pushVars, outVars, result>>

ForwardStops ==
  /\ pc = "forward"
  /\ \/ kCur = iFrame /\ UNCHANGED solverVars
     \/ /\ kCur < iFrame
        /\ CubeModels(kCur, pCubeMin, pCubeMin) # {}
        /\ FetchSolver(kCur, 1)
  /\ pc' = "add"
  /\ UNCHANGED <<iFrame, iOutCur, queueVars, cubeVars, pushVars, outVars, result>>

\* A mutant of Reschedules: -q is ignored
ReschedulesAlways == kCur < iFrame \/ ReuseProofOblig

\* The cube is scheduled again one timeframe later, unless it is done with
Reschedules == (kCur < iFrame \/ ReuseProofOblig) /\ ~Shortest

AddClause ==
  /\ pc = "add"
  /\ vClauses' = [vClauses EXCEPT ![kCur] = @ \cup {pCubeMin}]
  /\ solver' = [j \in Frames |-> IF j \in 1 .. kCur THEN solver[j] \cup {pCubeMin}
                                                  ELSE solver[j]]
  /\ IF Reschedules
       THEN /\ queue' = QueuePush(queue, [pThis EXCEPT !.frame = kCur + 1, !.prio = prio])
            /\ prio' = prio - 1
       ELSE UNCHANGED <<queue, prio>>
  /\ pc' = "block" /\ Release
  /\ UNCHANGED <<iFrame, iOutCur, iUseFrame, nQueLim, propOut, vActVars, pushVars, outVars, result>>

-----------------------------------------------------------------------------
(* Closing a timeframe: Pdr_ManSetPropertyOutput, Pdr_ManCreateSolver and  *)
(* Pdr_ManPushClauses                                                      *)

CloseFrame ==
  /\ pc = "output" /\ iOutCur = NOuts
  /\ nQueLim' = NRestLimit
  /\ iFrame' = iFrame + 1
  /\ vClauses' = [j \in 0 .. iFrame + 1 |-> IF j \in Frames THEN vClauses[j] ELSE {}]
  /\ solver' = [j \in 0 .. iFrame + 1 |-> IF j \in Frames THEN solver[j] ELSE {}]
  /\ propOut' = [j \in 0 .. iFrame + 1 |-> IF j < iFrame THEN propOut[j]
                                          ELSE IF j = iFrame THEN propOut[j] \cup PropertyOutput
                                          ELSE {}]
  /\ vActVars' = [j \in 0 .. iFrame + 1 |-> IF j \in Frames THEN vActVars[j] ELSE 0]
  /\ kCur' = IF ShiftStart THEN iUseFrame ELSE 1
  /\ todo' = IF kCur' <= iFrame THEN vClauses[kCur'] ELSE {}
  /\ emptied' = FALSE
  /\ pc' = "push"
  /\ UNCHANGED <<iOutCur, queue, prio, pThis, iUseFrame, pCubeMin, tried, downVars, outVars, result>>

\* The cubes of the timeframe's clauses still to come that c makes redundant
Subsumed(c) == {d \in todo \ {c} : SetContains(d, c)}

\* Clause c stays in its timeframe
PushFails(c) ==
  /\ pc = "push" /\ c \in todo
  /\ CubeModels(kCur, c, c) # {}
  /\ vClauses' = [vClauses EXCEPT ![kCur] = @ \ Subsumed(c)]
  /\ solver' = [solver EXCEPT ![kCur] = SolverOf(kCur)]
  /\ propOut' = [propOut EXCEPT ![kCur] = PropOutOf(kCur)]
  /\ vActVars' = [vActVars EXCEPT ![kCur] = 1 + (IF Recycled(kCur) THEN 0 ELSE @)]
  /\ todo' = todo \ ({c} \cup Subsumed(c))
  /\ UNCHANGED <<pc, iFrame, iOutCur, queueVars, cubeVars, emptied, outVars, result>>

\* A reduced clause moves to the next timeframe and removes what it subsumes
PushHolds(c) ==
  /\ pc = "push" /\ c \in todo
  /\ CubeModels(kCur, c, c) = {}
  /\ \E m \in ReduceClause(kCur, c) :
       /\ vClauses' = [vClauses EXCEPT
                         ![kCur] = @ \ ({c} \cup Subsumed(c)),
                         ![kCur + 1] = {d \in @ : ~SetContains(d, m)} \cup {m}]
       /\ solver' = [solver EXCEPT ![kCur] = SolverOf(kCur), ![kCur + 1] = @ \cup {m}]
  /\ propOut' = [propOut EXCEPT ![kCur] = PropOutOf(kCur)]
  /\ vActVars' = [vActVars EXCEPT ![kCur] = 1 + (IF Recycled(kCur) THEN 0 ELSE @)]
  /\ todo' = todo \ ({c} \cup Subsumed(c))
  /\ UNCHANGED <<pc, iFrame, iOutCur, queueVars, cubeVars, emptied, outVars, result>>

\* A mutant of LevelEmpty: looks at the clauses still to be pushed
LevelEmptyTodo(k) == todo = {}

LevelEmpty(k) == vClauses[k] = {}

PushNextFrame ==
  /\ pc = "push" /\ todo = {} /\ kCur < iFrame
  /\ emptied' = (emptied \/ LevelEmpty(kCur))
  /\ kCur' = kCur + 1
  /\ todo' = IF kCur + 1 < iFrame THEN vClauses[kCur + 1] ELSE {}
  /\ UNCHANGED <<pc, iFrame, iOutCur, solverVars, queueVars, pCubeMin, tried, downVars, outVars, result>>

Minimal(cubes) == {d \in cubes : ~ \E c \in cubes \ {d} : SetContains(d, c)}

AllPushed ==
  /\ pc = "push" /\ kCur >= iFrame
  /\ vClauses' = [vClauses EXCEPT ![iFrame] = Minimal(@)]
  /\ todo' = {} /\ kCur' = 0
  /\ UNCHANGED <<iFrame, solver, propOut, vActVars, queue, nQueLim, prio, pThis, pCubeMin, tried,
                 downVars, emptied, vCexes, nFailOuts, nDropOuts>>

\* Two timeframes agree: the clauses above are an inductive invariant
Proved ==
  /\ AllPushed
  /\ emptied
  /\ LET nProveOuts == NOuts - nFailOuts - nDropOuts
         map == [o \in Outs |-> IF SolveAll /\ vOutMap[o] = "unknown" THEN "proved" ELSE vOutMap[o]]
     IN  Return(IF nProveOuts = NOuts THEN "unsat"
                ELSE IF nFailOuts > 0 THEN "sat" ELSE "undecided", map)
  /\ UNCHANGED <<iOutCur, iUseFrame>>

OpenFrame ==
  /\ AllPushed
  /\ ~emptied
  /\ IF NFrameMax # 0 /\ iFrame >= NFrameMax
       THEN Return("undecided", vOutMap) /\ UNCHANGED <<iOutCur, iUseFrame>>
       ELSE /\ pc' = "output" /\ iOutCur' = 0
            /\ iUseFrame' = Max2(iFrame, 1)
            /\ UNCHANGED <<vOutMap, result>>

-----------------------------------------------------------------------------
(* Limits *)

Solving == {"property", "block", "induct", "general", "join", "forward"}

\* A limit of the run or a callback: Pdr_ManSolveInt returns -1
Abort ==
  /\ MayAbort
  /\ pc \in Solving \cup {"push"}
  /\ Return("undecided", vOutMap)
  /\ UNCHANGED <<iFrame, iOutCur, solverVars, queueVars, cubeVars, pushVars, vCexes, nFailOuts,
                 nDropOuts>>

\* The limit of the output: it is dropped and the next one is taken up
OutputTimesOut ==
  /\ TimeOutOne /\ SolveAll
  /\ pc \in Solving
  /\ queue' = <<>>
  /\ EndOutput(TRUE)
  /\ Release
  /\ UNCHANGED <<iFrame, solverVars, nQueLim, prio, iUseFrame, pushVars, vCexes, nFailOuts, result>>

-----------------------------------------------------------------------------
Block == FoundCex \/ CubeBlocked \/ Restart \/ PopBlocked \/ PopOpen

Down ==
  \/ CtgAssume \/ CtgHolds \/ CtgStays \/ CtgPushed \/ CtgStops
  \/ \E x \in Lits : CtgDrop(x) \/ CtgKeep(x)
  \/ CtgAdd \/ RetryHolds \/ RetryFails
  \/ JoinFails \/ JoinHolds \/ JoinAgain

Generalize ==
  \/ InductFails \/ InductHolds \/ Generalized
  \/ \E l \in Lits : DropLiteral(l) \/ KeepLiteral(l) \/ DownStarts(l)
  \/ Down
  \/ ForwardHolds \/ ForwardStops \/ AddClause

PushClauses ==
  \/ CloseFrame
  \/ \E c \in todo : PushFails(c) \/ PushHolds(c)
  \/ PushNextFrame \/ Proved \/ OpenFrame

Outputs == SkipOutput \/ TrivialOutput \/ StartOutput \/ PropertyHolds \/ PropertyFails

\* Pdr_ManSolve has returned to the command
Returned == pc = "done" /\ UNCHANGED vars

Next ==
  \/ Outputs \/ Block \/ Generalize \/ PushClauses \/ Abort \/ OutputTimesOut
  \/ Returned

\* The run is one thread of the program that is never blocked
Spec == Init /\ [][Next]_vars /\ WF_vars(Next)
-----------------------------------------------------------------------------
(* Properties *)

\* What `down' and the generalization of a CTG in it work on
DownCalls == [lit : Lits, cube : Cubes, pred : Cubes, ctgs : Nat, order : {"kept", "new"}]
CtgCubes  == [cube : Cubes, l : Nat, tried : Cubes]

Traces == Seq([cube : Cubes, in : Ins])
Obligations == [frame : Nat, prio : Int, chain : Traces \ {<<>>}]

TypeOK ==
  /\ pc \in Locations
  /\ iFrame \in Nat /\ iOutCur \in 0 .. NOuts /\ iUseFrame \in Nat
  /\ vClauses \in [Frames -> SUBSET Cubes] /\ solver \in [Frames -> SUBSET Cubes]
  /\ propOut \in [Frames -> SUBSET Outs] /\ vActVars \in [Frames -> Nat]
  /\ queue \in Seq(Obligations) /\ nQueLim \in Nat /\ prio \in Int
  /\ pThis \in Obligations \cup {<<>>}
  /\ pCubeMin \in Cubes /\ tried \in Cubes /\ kCur \in Nat
  /\ keep \in Cubes /\ added \in BOOLEAN
  /\ down \in DownCalls
  /\ ctg \in CtgCubes
  /\ todo \in SUBSET Cubes /\ emptied \in BOOLEAN
  /\ vCexes \in [Outs -> Traces]
  /\ vOutMap \in [Outs -> {"unknown", "failed", "proved", "undecided"}]
  /\ nFailOuts \in Nat /\ nDropOuts \in Nat
  /\ result \in {"running", "unsat", "sat", "undecided"}

\* While a cube is generalized with -c, clauses may rest on its being blocked
\* before its own clause is added
Generalizing == {"general", "forward", "add"} \cup DownLocations
Assumed(k) == IF Ctgs /\ pc \in Generalizing /\ k <= pThis.frame THEN {pCubeMin} ELSE {}

\* F(k): the states the clauses of timeframe k and later allow
F(k) == {s \in States : /\ k = 0 => s = InitState
                       /\ \A c \in ClausesFrom(k) \cup Assumed(k) : ~Covers(c, s)}

\* No state of F(k) lets output o fail
Excludes(k, o) == \A s \in F(k), i \in Ins : <<s, i>> \notin Fails[o]

(***************************************************************************)
(* The clauses of timeframe k hold in every state reachable in at most k   *)
(* steps: the initial state satisfies all of them, and a step from a state *)
(* of F(k) ends in F(k+1).  With -c a cube counts from the moment it is    *)
(* asserted in the solvers (pdrCore.c:393), before its clause is added.    *)
(***************************************************************************)
FramesOverApproximate ==
  /\ \A k \in Frames : InitState \in F(k)
  /\ \A k \in Frames \ {iFrame} : \A s \in F(k), i \in Ins : Trans[<<s, i>>] \in F(k + 1)

(***************************************************************************)
(* Once a timeframe is closed, its clauses alone exclude the failure of    *)
(* every output asserted to be 0 in its solver and of every output that    *)
(* is still live, so that what Pdr_ManSetPropertyOutput asserts is         *)
(* implied and outputs disproved later do not spoil the proofs of others.  *)
(***************************************************************************)
ClosedFramesSafe ==
  \A k \in Frames \ {iFrame} :
    \A o \in LiveOuts \cup propOut[k] : Excludes(k, o)

\* Pdr_ManVerifyInvariant: when the engine proves something, the clauses from
\* the first empty timeframe on are closed under Trans and exclude failures
\* of every output reported as proved
InvariantCertificate ==
  (pc = "done" /\ emptied) =>
    \E k \in 1 .. iFrame - 1 :
      /\ vClauses[k] = {}
      /\ Closed(F(k))
      /\ \A o \in Outs : (vOutMap[o] = "proved" \/ result = "unsat") => Excludes(k, o)

(***************************************************************************)
(* The assertion !Pdr_SetIsInit of Pdr_ManBlockCube, in the form that      *)
(* keeps the engine going: no state of an obligation at timeframe f is     *)
(* allowed by timeframe f-1, even after it was scheduled again or left in  *)
(* the queue by an earlier call.                                           *)
(***************************************************************************)
Pendings == {queue[j] : j \in DOMAIN queue} \cup (IF pThis = <<>> THEN {} ELSE {pThis})

ObligationsFresh ==
  \A ob \in Pendings :
    ob.frame > 0 => \A s \in F(Min2(ob.frame - 1, iFrame)) : ~Covers(Cube(ob), s)

\* Every obligation leads, through the cubes it is chained to and with the
\* inputs kept with them, to a failure of the output being solved
LeadsToFailure(chain, o) ==
  \A j \in DOMAIN chain : \A s \in States : Covers(chain[j].cube, s) =>
    IF j = Len(chain) THEN <<s, chain[j].in>> \in Fails[o]
    ELSE Covers(chain[j + 1].cube, Trans[<<s, chain[j].in>>])

ObligationsLeadToFailure ==
  pc \in Solving \cup DownLocations \cup {"add"} => \A ob \in Pendings : LeadsToFailure(ob.chain, iOutCur)

\* Saig_ManVerifyCex: simulated from the initial state with the inputs of the
\* trace, the output the trace is recorded for fails in its last timeframe
FinalState(chain) ==
  LET state[j \in 1 .. Len(chain)] ==
        IF j = 1 THEN InitState ELSE Trans[<<state[j - 1], chain[j - 1].in>>]
  IN  state[Len(chain)]

CexesAreReal ==
  \A o \in Outs : LET chain == vCexes[o] IN
    chain # <<>> => <<FinalState(chain), chain[Len(chain)].in>> \in Fails[o]

\* States reachable in at most n steps
ReachableWithin(n) ==
  LET r[j \in 0 .. n] ==
        IF j = 0 THEN {InitState} ELSE r[j - 1] \cup {Trans[m] : m \in r[j - 1] \X Ins}
  IN  r[n]

\* -q "creating only shortest counter-examples": no output that failed could
\* have failed earlier than its trace does
CexesAreShortest ==
  Shortest => \A o \in Outs :
    Len(vCexes[o]) > 1 =>
      ~ \E m \in ReachableWithin(Len(vCexes[o]) - 2) \X Ins : m \in Fails[o]

\* The solver of the last timeframe is never recycled: the assertion of
\* Pdr_ManFetchSolver
LastSolverNotRecycled == pc \in Solving => ~Recycled(iFrame)

\* What a timeframe excludes it excludes for good: neither moving clauses nor
\* removing the subsumed ones loses anything
FramesOnlyStrengthen == [][\A k \in Frames : F(k)' \subseteq F(k)]_vars

\* The engine implements what its caller relies on
V == INSTANCE Verdicts WITH status <- vOutMap
VerdictsHold == V!Spec

\* A run without limits comes to an end
Termination == <>(pc = "done")
=============================================================================
