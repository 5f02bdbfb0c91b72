------------------------------ MODULE PdrProofs ------------------------------
(***************************************************************************)
(* The engine is well-typed and never proves what is false: its timeframes *)
(* overapproximate reachability, closed timeframes exclude the failures of *)
(* live outputs, and a timeframe that empties is an inductive invariant.   *)
(* The type invariant is not inductive by itself: what pThis, kCur and     *)
(* todo hold depends on the place the engine is at.  Proved for every      *)
(* circuit, the types for all flags, the rest for all but those excluded   *)
(* by SoundFlags.                                                          *)
(***************************************************************************)
EXTENDS Pdr, SequenceTheorems, FiniteSetTheorems, WellFoundedInduction, TLAPS

(***************************************************************************)
(* What the engine may rely on at each place: the output being solved      *)
(* exists, the obligation being blocked belongs to an open timeframe, and  *)
(* the clauses still to be pushed are clauses of the timeframe they are    *)
(* pushed from.                                                            *)
(***************************************************************************)
Located ==
  /\ iUseFrame # 0
  /\ pc \in Solving \cup DownLocations \cup {"add"} => iOutCur \in Outs
  /\ pc \in {"induct", "general", "forward", "add"} \cup DownLocations =>
       pThis \in Obligations /\ pThis.frame \in 1 .. iFrame
  /\ pc \in {"forward", "add"} => kCur \in pThis.frame .. iFrame
  /\ pc \in {"general"} \cup DownLocations => kCur = pThis.frame
  /\ pc \in {"ctgPush", "ctgDrop"} => ctg.l \in 2 .. iFrame
  /\ pc = "push" => kCur # 0 /\ (todo # {} => kCur < iFrame /\ todo \subseteq vClauses[kCur])

TypeInv == TypeOK /\ Located

\* Pdr_QueuePush keeps the queue a sequence: the place of the new obligation is
\* between 0 and the length.
LEMMA QueuePushType ==
  ASSUME NEW S, NEW q \in Seq(S), NEW ob \in S
  PROVE  QueuePush(q, ob) \in Seq(S)
<1> DEFINE later(x) == \/ x.frame > ob.frame
                       \/ x.frame = ob.frame /\ x.prio > ob.prio
           before == {j \in 1 .. Len(q) : \A x \in 1 .. j : ~later(q[x])}
           n == Cardinality(before)
<1>1. Len(q) \in Nat
  BY LenProperties
<1>2. IsFiniteSet(1 .. Len(q)) /\ Cardinality(1 .. Len(q)) = Len(q)
  <2> HIDE DEF before, n
  <2>1. 1 \in Int /\ Len(q) \in Int
    BY <1>1
  <2>2. /\ IsFiniteSet(1 .. Len(q))
        /\ Cardinality(1 .. Len(q)) = IF 1 > Len(q) THEN 0 ELSE Len(q) - 1 + 1
    BY <2>1, FS_Interval, Zenon
  <2> QED
    BY <1>1, <2>2
<1>3. n \in Nat /\ n <= Len(q)
  BY <1>2, FS_Subset, FS_CardinalityType
<1> HIDE DEF n
<1>4. \A j \in 1 .. Len(q) : q[j] \in S
  BY ElementOfSeq
<1>5. SubSeq(q, 1, n) \in Seq(S) /\ SubSeq(q, n + 1, Len(q)) \in Seq(S)
  BY <1>1, <1>3, <1>4, SubSeqProperties
<1>6. <<ob>> \in Seq(S)
  OBVIOUS
<1>7. SubSeq(q, 1, n) \o <<ob>> \o SubSeq(q, n + 1, Len(q)) \in Seq(S)
  BY <1>5, <1>6, ConcatProperties
<1> QED
  BY <1>7 DEF QueuePush, n

\* Ternary simulation returns a cube, also when it keeps literal 0.
LEMMA TernarySimType ==
  ASSUME NEW m \in States \X Ins, NEW target, NEW c \in TernarySim(m, target)
  PROVE  c \in Cubes
<1>1. 0 \in Regs
  BY CircuitAssumption DEF Regs
<1>2. \A r \in Regs : \A v \in BOOLEAN : <<r, v>> \in Lits
  BY DEF Lits
<1>a. <<0, TRUE>> \in Lits
  BY <1>1, <1>2
<1>b. ASSUME NEW l \in StateLits(m[1]) PROVE l \in Lits
  <2>1. PICK r \in Regs : l = <<r, r \in m[1]>>
    BY DEF StateLits
  <2>2. (r \in m[1]) \in BOOLEAN
    OBVIOUS
  <2> QED
    BY <2>1, <2>2, <1>2
<1>3. PICK d \in SUBSET StateLits(m[1]) : c = IF d = {} THEN {<<0, TRUE>>} ELSE d
  BY DEF TernarySim
<1> QED
  BY <1>a, <1>b, <1>3 DEF Cubes

\* A reduced cube is a cube.
LEMMA ReduceClauseType ==
  ASSUME NEW k, NEW c \in Cubes, NEW r \in ReduceClause(k, c)
  PROVE  r \in Cubes
BY DEF ReduceClause, Cubes

\* Fetching a solver, recycled or not, keeps the types of the solvers.
LEMMA FetchType ==
  ASSUME TypeOK, NEW k \in Frames, NEW n \in Nat, FetchSolver(k, n)
  PROVE  /\ solver' \in [Frames -> SUBSET Cubes]
         /\ propOut' \in [Frames -> SUBSET Outs]
         /\ vActVars' \in [Frames -> Nat]
         /\ vClauses' \in [Frames -> SUBSET Cubes]
<1>1. SolverOf(k) \in SUBSET Cubes
  BY DEF SolverOf, TypeOK, ClausesFrom, Frames
<1>2. PropOutOf(k) \in SUBSET Outs
  BY DEF PropOutOf, TypeOK, PropertyOutput, LiveOuts
<1> QED
  BY <1>1, <1>2 DEF FetchSolver, TypeOK

\* What `down' works on before it starts.
LEMMA NoneType ==
  /\ NoDown \in DownCalls
  /\ NoCtg \in CtgCubes
<1>1. 0 \in Regs
  BY CircuitAssumption DEF Regs
<1>2. <<0, FALSE>> \in Lits
  BY <1>1 DEF Lits
<1> QED
  BY <1>2 DEF NoDown, NoCtg, Cubes, DownCalls, CtgCubes

\* Releasing what a blocked obligation held.
LEMMA ReleaseType ==
  ASSUME Release
  PROVE  /\ pCubeMin' \in Cubes /\ tried' \in Cubes /\ kCur' \in Nat /\ pThis' = <<>>
         /\ keep' \in Cubes /\ added' \in BOOLEAN
         /\ down' \in DownCalls
         /\ ctg' \in CtgCubes
BY NoneType DEF Release, Cubes

\* The type invariant holds when the engine starts.
LEMMA TypeInit == Init => TypeInv
<1> SUFFICES ASSUME Init PROVE TypeInv
  OBVIOUS
<1>1. Frames = {0} /\ iOutCur \in 0 .. NOuts
  BY CircuitAssumption DEF Init, Frames
<1>2. vCexes \in [Outs -> Traces] /\ queue \in Seq(Obligations)
  BY DEF Init, Traces
<1>3. /\ keep \in Cubes /\ added \in BOOLEAN
      /\ down \in DownCalls
      /\ ctg \in CtgCubes
  BY NoneType DEF Init, Cubes
<1>4. /\ vClauses \in [Frames -> SUBSET Cubes] /\ solver \in [Frames -> SUBSET Cubes]
      /\ propOut \in [Frames -> SUBSET Outs] /\ vActVars \in [Frames -> Nat]
  BY <1>1 DEF Init
<1>5. /\ vCexes \in [Outs -> Traces] /\ pCubeMin \in Cubes /\ tried \in Cubes
      /\ vOutMap \in [Outs -> {"unknown", "failed", "proved", "undecided"}]
  BY <1>2 DEF Init, Cubes
<1>6. /\ pc \in Locations /\ queue \in Seq(Obligations) /\ pThis \in Obligations \cup {<<>>}
      /\ todo \in SUBSET Cubes /\ emptied \in BOOLEAN
      /\ result \in {"running", "unsat", "sat", "undecided"}
  BY <1>2 DEF Init, Locations
<1>8. TypeOK
  BY <1>1, <1>3, <1>4, <1>5, <1>6 DEF Init, TypeOK
<1>7. Located
  BY DEF Init, Located, DownLocations, Solving
<1> QED
  BY <1>7, <1>8 DEF TypeInv

\* Recording a counter-example keeps the types of the answers.
LEMMA RecordCexType ==
  ASSUME TypeOK, iOutCur \in Outs, NEW chain \in Traces, RecordCex(chain)
  PROVE  vCexes' \in [Outs -> Traces] /\ nFailOuts' \in Nat
BY DEF RecordCex, TypeOK

\* So does returning a value ...
LEMMA ReturnType ==
  ASSUME NEW value \in {"unsat", "sat", "undecided"},
         NEW map \in [Outs -> {"unknown", "failed", "proved", "undecided"}],
         Return(value, map)
  PROVE  /\ pc' = "done"
         /\ vOutMap' \in [Outs -> {"unknown", "failed", "proved", "undecided"}]
         /\ result' \in {"running", "unsat", "sat", "undecided"}
BY DEF Return, Settled

\* ... and leaving an output.
LEMMA EndOutputType ==
  ASSUME TypeOK, iOutCur \in Outs, NEW expired \in BOOLEAN, EndOutput(expired)
  PROVE  /\ pc' = "output" /\ iOutCur' \in 0 .. NOuts
         /\ vOutMap' \in [Outs -> {"unknown", "failed", "proved", "undecided"}]
         /\ nDropOuts' \in Nat
<1>1. vOutMap \in [Outs -> {"unknown", "failed", "proved", "undecided"}] /\ nDropOuts \in Nat
  BY DEF TypeOK
<1> QED
  BY <1>1, CircuitAssumption DEF EndOutput, Outs

\* The head of a queue that is not empty is an obligation.
LEMMA HeadType ==
  ASSUME TypeOK, queue # <<>>
  PROVE  HeadOb \in Obligations /\ Tail(queue) \in Seq(Obligations)
BY HeadTailProperties DEF TypeOK, HeadOb

\* The parts of an obligation.
LEMMA CubeType ==
  ASSUME NEW ob \in Obligations
  PROVE  Cube(ob) \in Cubes /\ ob.frame \in Nat /\ ob.prio \in Int /\ ob.chain \in Traces
<1>1. ob.chain \in Traces /\ ob.chain # <<>> /\ ob.frame \in Nat /\ ob.prio \in Int
  BY DEF Obligations
<1>2. 1 \in 1 .. Len(ob.chain)
  BY <1>1, EmptySeq DEF Traces
<1>3. ob.chain[1] \in [cube : Cubes, in : Ins]
  BY <1>1, <1>2, ElementOfSeq DEF Traces
<1> QED
  BY <1>1, <1>3 DEF Cube

\* A new obligation, for the output itself or for the predecessor of another.
LEMMA ObligationType ==
  ASSUME NEW k \in Nat, NEW p \in Int, NEW c \in Cubes, NEW i \in Ins
  PROVE  /\ Obligation(k, p, <<[cube |-> c, in |-> i]>>) \in Obligations
         /\ \A chain \in Traces :
              Obligation(k, p, <<[cube |-> c, in |-> i]>> \o chain) \in Obligations
<1> DEFINE first == <<[cube |-> c, in |-> i]>>
<1>1. first \in Traces /\ first # <<>>
  BY DEF Traces
<1>2. ASSUME NEW chain \in Traces PROVE first \o chain \in Traces /\ first \o chain # <<>>
  BY <1>1, ConcatProperties, ConcatEqualIffEmpty DEF Traces
<1> QED
  BY <1>1, <1>2 DEF Obligation, Obligations

\* An obligation that is scheduled again is an obligation.
LEMMA RescheduledType ==
  ASSUME NEW ob \in Obligations, NEW k \in Nat, NEW p \in Int
  PROVE  /\ [ob EXCEPT !.prio = p] \in Obligations
         /\ [ob EXCEPT !.frame = k, !.prio = p] \in Obligations
BY DEF Obligations

\* Parts of a cube are cubes.
LEMMA SubsetsOfCubes ==
  ASSUME NEW c \in Cubes, NEW d
  PROVE  c \cap d \in Cubes /\ d \cap c \in Cubes /\ c \ d \in Cubes
BY DEF Cubes

\* A predecessor is a cube, also when it is read from an earlier model.
LEMMA PredsType ==
  /\ \A c : Preds(c) \subseteq Cubes
  /\ StalePreds \subseteq Cubes
<1>1. ASSUME NEW c, NEW d \in Preds(c) PROVE d \in Cubes
  <2>1. PICK m \in CubeModels(BeforeThis, c, c) : d \in TernarySim(m, StepsInto(c))
    BY <1>1 DEF Preds
  <2>2. m \in States \X Ins
    BY <2>1 DEF CubeModels, Models
  <2> QED
    BY <2>1, <2>2, TernarySimType
<1>2. StalePreds \subseteq Cubes
  BY DEF StalePreds, Cubes
<1> QED
  BY <1>1, <1>2

\* The timeframe before the obligation's is a closed one.
LEMMA BeforeThisType ==
  ASSUME iFrame \in Nat, pThis.frame \in 1 .. iFrame
  PROVE  BeforeThis \in Frames /\ BeforeThis < iFrame /\ BeforeThis = pThis.frame - 1
BY DEF BeforeThis, Frames

\* Every step of the engine preserves the type invariant.
LEMMA TypeStep ==
  ASSUME TypeInv, [Next]_vars
  PROVE  TypeInv'
<1> USE DEF TypeInv, TypeOK, Located, Locations, Solving, Frames, solverVars, queueVars,
            cubeVars, downVars, pushVars, outVars, DownLocations
<1>1. CASE SkipOutput
  BY <1>1, CircuitAssumption DEF SkipOutput, Outs
<1>2. CASE TrivialOutput
  <2>1. iOutCur \in Outs /\ iFrame \in Nat
    BY <1>2 DEF TrivialOutput, LiveOuts
  <2>2. PICK i \in Ins : RecordCex([j \in 1 .. iFrame + 1 |-> [cube |-> {}, in |-> i]])
    BY <1>2 DEF TrivialOutput
  <2>3. [j \in 1 .. iFrame + 1 |-> [cube |-> {}, in |-> i]] \in Traces
    <3> DEFINE trace == [j \in 1 .. iFrame + 1 |-> [cube |-> {}, in |-> i]]
    <3>1. [cube |-> {}, in |-> i] \in [cube : Cubes, in : Ins]
      BY DEF Cubes
    <3>2. trace \in [1 .. iFrame + 1 -> [cube : Cubes, in : Ins]] /\ iFrame + 1 \in Nat
      BY <2>1, <3>1
    <3> HIDE DEF trace
    <3>3. trace \in Traces
      <4> DEFINE R == [cube : Cubes, in : Ins]
      <4>1. \E n \in Nat : trace \in [1 .. n -> R]
        BY <3>2
      <4> HIDE DEF R
      <4>2. Seq(R) = UNION {[1 .. n -> R] : n \in Nat}
        BY SeqDef
      <4>3. trace \in Seq(R)
        BY <4>1, <4>2
      <4> QED
        BY <4>3 DEF Traces, R
    <3> QED
      BY <3>3 DEF trace
  <2>4. vCexes' \in [Outs -> Traces] /\ nFailOuts' \in Nat
    BY <2>1, <2>2, <2>3, RecordCexType
  <2>5. Disproved \in [Outs -> {"unknown", "failed", "proved", "undecided"}]
    BY DEF Disproved
  <2>6. CASE Return("sat", vOutMap) /\ UNCHANGED <<iOutCur, nDropOuts>>
    BY <1>2, <2>4, <2>6, ReturnType DEF TrivialOutput
  <2>7. CASE \E v \in {"sat", "undecided"} : Return(v, Disproved) /\ UNCHANGED <<iOutCur, nDropOuts>>
    BY <1>2, <2>4, <2>5, <2>7, ReturnType DEF TrivialOutput
  <2>8. CASE /\ iOutCur' = iOutCur + 1 /\ vOutMap' = Disproved
             /\ UNCHANGED <<pc, result, nDropOuts>>
    BY <1>2, <2>1, <2>4, <2>5, <2>8, CircuitAssumption DEF TrivialOutput, Outs
  <2> QED
    BY <1>2, <2>6, <2>7, <2>8 DEF TrivialOutput
<1>3. CASE StartOutput
  BY <1>3 DEF StartOutput, LiveOuts
<1>4. CASE PropertyHolds
  <2>1. PICK expired \in BOOLEAN : EndOutput(expired)
    BY <1>4, PdrAssumption DEF PropertyHolds
  <2>2. iFrame \in Frames /\ FetchSolver(iFrame, 0)
    BY <1>4 DEF PropertyHolds
  <2> QED
    BY <1>4, <2>1, <2>2, EndOutputType, FetchType DEF PropertyHolds
<1>5. CASE PropertyFails
  <2>1. PICK m \in PropertyModels(iFrame) : \E c \in TernarySim(m, Fails[iOutCur]) :
          queue' = QueuePush(queue, Obligation(iFrame, 0, <<[cube |-> c, in |-> m[2]]>>))
    BY <1>5 DEF PropertyFails
  <2>2. m \in States \X Ins
    BY <2>1 DEF PropertyModels, Models
  <2>3. queue' \in Seq(Obligations)
    BY <2>1, <2>2, TernarySimType, ObligationType, QueuePushType
  <2>4. iFrame \in Frames /\ FetchSolver(iFrame, 0)
    BY <1>5 DEF PropertyFails
  <2>5. /\ solver' \in [Frames -> SUBSET Cubes] /\ propOut' \in [Frames -> SUBSET Outs]
        /\ vActVars' \in [Frames -> Nat] /\ vClauses' \in [Frames -> SUBSET Cubes]
    BY <2>4, FetchType
  <2> QED
    BY <1>5, <2>3, <2>5 DEF PropertyFails
<1>6. CASE FoundCex
  <2>1. HeadOb \in Obligations /\ iOutCur \in Outs
    BY <1>6, HeadType DEF FoundCex
  <2>2. vCexes' \in [Outs -> Traces] /\ nFailOuts' \in Nat
    BY <1>6, <2>1, CubeType, RecordCexType DEF FoundCex
  <2>3. Disproved \in [Outs -> {"unknown", "failed", "proved", "undecided"}]
    BY DEF Disproved
  <2>4. CASE Return("sat", vOutMap) /\ UNCHANGED <<iOutCur, nDropOuts, queue>>
    BY <1>6, <2>2, <2>4, ReturnType DEF FoundCex
  <2>5. CASE \E v \in {"sat", "undecided"} :
               Return(v, Disproved) /\ UNCHANGED <<iOutCur, nDropOuts, queue>>
    BY <1>6, <2>2, <2>3, <2>5, ReturnType DEF FoundCex
  <2>6. CASE /\ queue' = <<>> /\ vOutMap' = Disproved
             /\ pc' = "output" /\ iOutCur' = iOutCur + 1
             /\ UNCHANGED <<nDropOuts, result>>
    BY <1>6, <2>1, <2>2, <2>3, <2>6, CircuitAssumption DEF FoundCex, Outs
  <2> QED
    BY <1>6, <2>4, <2>5, <2>6 DEF FoundCex
<1>7. CASE CubeBlocked
  BY <1>7 DEF CubeBlocked
<1>8. CASE Restart
  BY <1>8 DEF Restart, Pending, NextLimit
<1>9. CASE PopBlocked
  <2>1. HeadOb \in Obligations /\ HeadOb.frame \in 1 .. iFrame /\ Tail(queue) \in Seq(Obligations)
    BY <1>9, HeadType DEF PopBlocked, PopObligation, Pending
  <2>2. iUseFrame' \in Nat \ {0}
    BY <1>9, <2>1 DEF PopBlocked, PopObligation, Min2
  <2>3. CASE UNCHANGED solverVars
    BY <1>9, <2>1, <2>2, <2>3 DEF PopBlocked, PopObligation, Pending
  <2>4. CASE FetchSolver(HeadOb.frame, 0)
    <3>1. HeadOb.frame \in Frames /\ iFrame' = iFrame
      BY <1>9, <2>1 DEF PopBlocked
    <3> QED
      BY <1>9, <2>1, <2>2, <2>4, <3>1, FetchType DEF PopBlocked, PopObligation, Pending
  <2> QED
    BY <1>9, <2>3, <2>4 DEF PopBlocked
<1>10. CASE PopOpen
  <2>1. HeadOb \in Obligations /\ HeadOb.frame \in 1 .. iFrame /\ Tail(queue) \in Seq(Obligations)
    BY <1>10, HeadType DEF PopOpen, PopObligation, Pending
  <2>2. iUseFrame' \in Nat \ {0}
    BY <1>10, <2>1, SMTT(20) DEF PopOpen, PopObligation, Min2
  <2>3. HeadOb.frame \in Frames /\ iFrame' = iFrame /\ FetchSolver(HeadOb.frame, 0)
    BY <1>10, <2>1 DEF PopOpen
  <2> QED
    BY <1>10, <2>1, <2>2, <2>3, FetchType DEF PopOpen, PopObligation, Pending
<1>11. CASE InductFails
  <2>1. /\ pThis \in Obligations /\ pThis.frame \in 1 .. iFrame
        /\ BeforeThis \in Frames /\ BeforeThis \in Nat
    <3>1. pThis \in Obligations /\ pThis.frame \in 1 .. iFrame /\ iFrame \in Nat
      BY <1>11 DEF InductFails
    <3> QED
      BY <3>1, SMTT(20) DEF BeforeThis
  <2>2. PICK m \in CubeModels(BeforeThis, Cube(pThis), Cube(pThis)) :
             \E c \in TernarySim(m, StepsInto(Cube(pThis))) :
               queue' = QueuePush(QueuePush(queue, [pThis EXCEPT !.prio = prio]),
                          Obligation(BeforeThis, prio - 1,
                                     <<[cube |-> c, in |-> m[2]]>> \o pThis.chain))
    BY <1>11 DEF InductFails
  <2>3. m \in States \X Ins
    BY <2>2 DEF CubeModels, Models
  <2>4. [pThis EXCEPT !.prio = prio] \in Obligations /\ pThis.chain \in Traces
    BY <2>1, RescheduledType, CubeType
  <2>5. queue' \in Seq(Obligations)
    <3>1. PICK c \in TernarySim(m, StepsInto(Cube(pThis))) :
            queue' = QueuePush(QueuePush(queue, [pThis EXCEPT !.prio = prio]),
                       Obligation(BeforeThis, prio - 1,
                                  <<[cube |-> c, in |-> m[2]]>> \o pThis.chain))
      BY <2>2
    <3>2. c \in Cubes /\ m[2] \in Ins /\ prio - 1 \in Int
      BY <2>3, TernarySimType
    <3>3. Obligation(BeforeThis, prio - 1, <<[cube |-> c, in |-> m[2]]>> \o pThis.chain)
            \in Obligations
      BY <2>1, <2>4, <3>2, ObligationType
    <3>4. QueuePush(queue, [pThis EXCEPT !.prio = prio]) \in Seq(Obligations)
      BY <2>4, QueuePushType
    <3> QED
      BY <3>1, <3>3, <3>4, QueuePushType
  <2>6. FetchSolver(BeforeThis, 1) /\ iFrame' = iFrame
    BY <1>11 DEF InductFails
  <2>7. /\ solver' \in [Frames -> SUBSET Cubes] /\ propOut' \in [Frames -> SUBSET Outs]
        /\ vActVars' \in [Frames -> Nat] /\ vClauses' \in [Frames -> SUBSET Cubes]
    BY <2>1, <2>6, FetchType
  <2>8. TypeOK'
    <3>1. /\ pc' = "block" /\ prio' = prio - 2 /\ Release /\ Frames' = Frames
          /\ UNCHANGED <<iFrame, iOutCur, iUseFrame, nQueLim, pushVars, outVars, result>>
      BY <1>11, <2>6 DEF InductFails
    <3> QED
      BY <2>5, <2>7, <3>1, ReleaseType, SMTT(20)
  <2>9. Located'
    BY <1>11, <2>6 DEF InductFails
  <2> QED
    BY <2>8, <2>9
<1>12. CASE InductHolds
  <2>1. pThis \in Obligations /\ pThis.frame \in 1 .. iFrame /\ BeforeThis \in Frames
    <3>1. pThis \in Obligations /\ pThis.frame \in 1 .. iFrame /\ iFrame \in Nat
      BY <1>12 DEF InductHolds
    <3> QED
      BY <3>1, BeforeThisType
  <2>2. pCubeMin' \in Cubes
    BY <1>12, <2>1, CubeType, ReduceClauseType DEF InductHolds
  <2>3. FetchSolver(BeforeThis, 1) /\ iFrame' = iFrame
    BY <1>12 DEF InductHolds
  <2>4. /\ solver' \in [Frames -> SUBSET Cubes] /\ propOut' \in [Frames -> SUBSET Outs]
        /\ vActVars' \in [Frames -> Nat] /\ vClauses' \in [Frames -> SUBSET Cubes]
    BY <2>1, <2>3, FetchType
  <2>5. pThis' = pThis /\ kCur' = pThis.frame /\ tried' = {} /\ pc' \in {"general", "forward"}
    BY <1>12 DEF InductHolds
  <2> QED
    <3>1. pThis.frame \in pThis.frame .. iFrame /\ kCur' \in Nat
      BY <2>1, <2>5
    <3>2. Located'
      BY <1>12, <2>1, <2>5, <3>1 DEF InductHolds
    <3>3. TypeOK'
      BY <1>12, <2>1, <2>2, <2>4, <2>5, <3>1 DEF InductHolds, Cubes
    <3> QED
      BY <3>2, <3>3
<1>13. ASSUME NEW l \in Lits, DropLiteral(l)
       PROVE  TypeInv'
  <2>1. BeforeThis \in Frames /\ FetchSolver(BeforeThis, 1) /\ iFrame' = iFrame
    BY <1>13 DEF DropLiteral, BeforeThis
  <2> QED
    BY <1>13, <2>1, FetchType DEF DropLiteral, Cubes
<1>14. ASSUME NEW l \in Lits, KeepLiteral(l)
       PROVE  TypeInv'
  <2>1. CASE UNCHANGED solverVars
    BY <1>14, <2>1 DEF KeepLiteral, Cubes
  <2>2. CASE FetchSolver(BeforeThis, 1)
    <3>1. BeforeThis \in Frames /\ iFrame' = iFrame
      BY <1>14 DEF KeepLiteral, BeforeThis
    <3> QED
      BY <1>14, <2>2, <3>1, FetchType DEF KeepLiteral, Cubes
  <2> QED
    BY <1>14, <2>1, <2>2 DEF KeepLiteral
<1>15. CASE Generalized
  BY <1>15 DEF Generalized, Obligations
<1>16. CASE ForwardHolds
  <2>1. kCur \in Frames /\ FetchSolver(kCur, 1) /\ iFrame' = iFrame
    BY <1>16 DEF ForwardHolds, Obligations
  <2>2. /\ solver' \in [Frames -> SUBSET Cubes] /\ propOut' \in [Frames -> SUBSET Outs]
        /\ vActVars' \in [Frames -> Nat] /\ vClauses' \in [Frames -> SUBSET Cubes]
    BY <2>1, FetchType
  <2>3. kCur' \in pThis.frame .. iFrame /\ pThis \in Obligations /\ pThis.frame \in 1 .. iFrame
    BY <1>16, <2>1 DEF ForwardHolds
  <2>4. TypeOK'
    <3>1. kCur' \in Nat /\ Frames' = Frames
      BY <1>16, <2>1, <2>3 DEF ForwardHolds, Frames, Obligations
    <3> QED
      BY <1>16, <2>1, <2>2, <3>1 DEF ForwardHolds
  <2>5. Located'
    <3>1. kCur' \in pThis'.frame .. iFrame' /\ pThis' = pThis /\ iFrame' = iFrame
      BY <1>16, <2>1, <2>3 DEF ForwardHolds
    <3> QED
      BY <1>16, <2>3, <3>1 DEF ForwardHolds
  <2> QED
    BY <2>4, <2>5
<1>17. CASE ForwardStops
  <2>1. CASE UNCHANGED solverVars
    BY <1>17, <2>1 DEF ForwardStops
  <2>2. CASE FetchSolver(kCur, 1)
    <3>1. kCur \in Frames /\ iFrame' = iFrame
      BY <1>17 DEF ForwardStops, Obligations
    <3> QED
      BY <1>17, <2>2, <3>1, FetchType DEF ForwardStops
  <2> QED
    BY <1>17, <2>1, <2>2 DEF ForwardStops
<1>18. CASE AddClause
  <2>1. pThis \in Obligations /\ kCur \in 1 .. iFrame /\ iFrame' = iFrame
    BY <1>18 DEF AddClause, Obligations
  <2>2. queue' \in Seq(Obligations) /\ prio' \in Int
    <3>1. [pThis EXCEPT !.frame = kCur + 1, !.prio = prio] \in Obligations
      <4>1. kCur + 1 \in Nat /\ prio \in Int
        BY <2>1
      <4> QED
        BY <2>1, <4>1, RescheduledType
    <3>2. QueuePush(queue, [pThis EXCEPT !.frame = kCur + 1, !.prio = prio]) \in Seq(Obligations)
      BY <3>1, QueuePushType
    <3> QED
      BY <1>18, <3>2 DEF AddClause
  <2>3. vClauses' \in [Frames -> SUBSET Cubes] /\ solver' \in [Frames -> SUBSET Cubes]
    BY <1>18, <2>1 DEF AddClause
  <2> QED
    BY <1>18, <2>1, <2>2, <2>3, ReleaseType DEF AddClause
<1>19. CASE CloseFrame
  <2>1. iFrame' = iFrame + 1 /\ iFrame' \in Nat
    BY <1>19 DEF CloseFrame
  <2>2. kCur' \in Nat \ {0} /\ (todo' # {} => kCur' < iFrame' /\ todo' \subseteq vClauses'[kCur'])
    BY <1>19, <2>1 DEF CloseFrame
  <2>3. todo' \in SUBSET Cubes
    BY <1>19, <2>2 DEF CloseFrame
  <2>4. /\ vClauses' \in [0 .. iFrame + 1 -> SUBSET Cubes]
        /\ solver' \in [0 .. iFrame + 1 -> SUBSET Cubes]
        /\ vActVars' \in [0 .. iFrame + 1 -> Nat]
    BY <1>19, <2>1 DEF CloseFrame
  <2>5. propOut' \in [0 .. iFrame + 1 -> SUBSET Outs]
    BY <1>19, <2>1 DEF CloseFrame, PropertyOutput, LiveOuts
  <2> QED
    BY <1>19, <2>1, <2>2, <2>3, <2>4, <2>5, PdrAssumption DEF CloseFrame
<1>20. ASSUME NEW c \in todo, PushFails(c)
       PROVE  TypeInv'
  <2>1. kCur \in Frames /\ kCur < iFrame /\ iFrame' = iFrame
    BY <1>20 DEF PushFails
  <2>2. /\ solver' \in [Frames -> SUBSET Cubes] /\ propOut' \in [Frames -> SUBSET Outs]
        /\ vActVars' \in [Frames -> Nat]
    BY <1>20, <2>1, SMTT(20) DEF PushFails, SolverOf, PropOutOf, PropertyOutput, LiveOuts, ClausesFrom
  <2>3. vClauses' \in [Frames -> SUBSET Cubes] /\ todo' \subseteq vClauses'[kCur]
    BY <1>20, <2>1 DEF PushFails
  <2> QED
    BY <1>20, <2>1, <2>2, <2>3 DEF PushFails
<1>21. ASSUME NEW c \in todo, PushHolds(c)
       PROVE  TypeInv'
  <2>1. kCur \in Frames /\ kCur + 1 \in Frames /\ kCur < iFrame /\ iFrame' = iFrame
    BY <1>21 DEF PushHolds
  <2>2. PICK m \in ReduceClause(kCur, c) :
       /\ vClauses' = [vClauses EXCEPT
                         ![kCur] = @ \ ({c} \cup Subsumed(c)),
                         ![kCur + 1] = {d \in @ : ~SetContains(d, m)} \cup {m}]
       /\ solver' = [solver EXCEPT ![kCur] = SolverOf(kCur), ![kCur + 1] = @ \cup {m}]
    BY <1>21 DEF PushHolds
  <2>3. m \in Cubes /\ SolverOf(kCur) \in SUBSET Cubes
    BY <2>1, <2>2, ReduceClauseType, SMTT(20) DEF SolverOf, ClausesFrom
  <2>4. vClauses' \in [Frames -> SUBSET Cubes] /\ solver' \in [Frames -> SUBSET Cubes]
    BY <2>1, <2>2, <2>3
  <2>5. propOut' \in [Frames -> SUBSET Outs] /\ vActVars' \in [Frames -> Nat]
    BY <1>21, <2>1, SMTT(20) DEF PushHolds, PropOutOf, PropertyOutput, LiveOuts
  <2>6. todo' \subseteq vClauses'[kCur]
    BY <1>21, <2>1, <2>2 DEF PushHolds
  <2> QED
    BY <1>21, <2>1, <2>4, <2>5, <2>6 DEF PushHolds
<1>22. CASE PushNextFrame
  BY <1>22, SMTT(20) DEF PushNextFrame
<1>23. CASE Proved
  <2>1. \E value \in {"unsat", "sat", "undecided"} :
        \E map \in [Outs -> {"unknown", "failed", "proved", "undecided"}] : Return(value, map)
    BY <1>23 DEF Proved
  <2> QED
    BY <1>23, <2>1, ReturnType DEF Proved, AllPushed, Minimal
<1>24. CASE OpenFrame
  <2>1. CASE Return("undecided", vOutMap) /\ UNCHANGED <<iOutCur, iUseFrame>>
    BY <1>24, <2>1, ReturnType DEF OpenFrame, AllPushed, Minimal
  <2>2. CASE /\ pc' = "output" /\ iOutCur' = 0 /\ iUseFrame' = Max2(iFrame, 1)
             /\ UNCHANGED <<vOutMap, result>>
    BY <1>24, <2>2, CircuitAssumption DEF OpenFrame, AllPushed, Minimal, Max2
  <2> QED
    BY <1>24, <2>1, <2>2 DEF OpenFrame
<1>25. CASE Abort
  BY <1>25, ReturnType DEF Abort
<1>26. CASE OutputTimesOut
  <2>1. EndOutput(TRUE) /\ iOutCur \in Outs
    BY <1>26 DEF OutputTimesOut
  <2>2. /\ pc' = "output" /\ iOutCur' \in 0 .. NOuts
        /\ vOutMap' \in [Outs -> {"unknown", "failed", "proved", "undecided"}]
        /\ nDropOuts' \in Nat
    BY <2>1, EndOutputType
  <2> QED
    BY <1>26, <2>2, ReleaseType, SMTT(20) DEF OutputTimesOut
<1>27. CASE UNCHANGED vars
  BY <1>27 DEF vars
<1>28. ASSUME NEW l \in Lits, DownStarts(l)
       PROVE  TypeInv'
  <2>1. BeforeThis \in Frames /\ FetchSolver(BeforeThis, 1) /\ UNCHANGED <<pThis, iFrame>>
    BY <1>28 DEF DownStarts, BeforeThis
  <2>2. PICK pred \in Preds(pCubeMin \ {l}) \cup StalePreds :
          down' = [lit |-> l, cube |-> pCubeMin \ {l}, pred |-> pred, ctgs |-> 0, order |-> "kept"]
    BY <1>28 DEF DownStarts
  <2>3. pred \in Cubes
    BY <2>2, PredsType, Zenon
  <2>4. down' \in DownCalls
    BY <2>2, <2>3, SubsetsOfCubes DEF DownCalls, CtgCubes
  <2> QED
    BY <1>28, <2>1, <2>4, FetchType DEF DownStarts
<1>29. CASE CtgAssume
  <2>1. solver' \in [Frames -> SUBSET Cubes]
    BY <1>29 DEF CtgAssume
  <2> QED
    BY <1>29, <2>1 DEF CtgAssume
<1>30. CASE CtgHolds
  <2>1. BeforeThis \in Frames /\ BeforeThis - 1 \in Frames /\ BeforeThis \in 2 .. iFrame
    <3>1. pThis.frame \in 1 .. iFrame /\ BeforeThis > 1 /\ iFrame \in Nat
      BY <1>30 DEF CtgHolds, TriesCtg
    <3> QED
      BY <3>1, BeforeThisType
  <2>2. PICK c \in ReduceClause(BeforeThis - 1, down.pred) :
          ctg' = [cube |-> c, l |-> BeforeThis, tried |-> {}]
    BY <1>30 DEF CtgHolds
  <2>3. c \in Cubes /\ {} \in Cubes
    <3>1. down.pred \in Cubes
      BY DEF DownCalls, CtgCubes
    <3>2. c \in Cubes
      BY <2>2, <3>1, ReduceClauseType
    <3> QED
      BY <3>2 DEF Cubes
  <2>4. ctg' \in CtgCubes /\ ctg'.l \in 2 .. iFrame
    BY <2>1, <2>2, <2>3 DEF DownCalls, CtgCubes
  <2>5. down' \in DownCalls
    <3>1. down.ctgs + 1 \in Nat /\ down' = [down EXCEPT !.ctgs = down.ctgs + 1]
      BY <1>30 DEF CtgHolds, DownCalls, CtgCubes
    <3> QED
      BY <3>1 DEF DownCalls, CtgCubes
  <2>6. FetchSolver(BeforeThis - 1, 1) /\ UNCHANGED <<pThis, iFrame>>
    BY <1>30 DEF CtgHolds
  <2> QED
    BY <1>30, <2>1, <2>4, <2>5, <2>6, FetchType DEF CtgHolds
<1>31. CASE CtgStays
  <2>1. CASE UNCHANGED solverVars
    BY <1>31, <2>1 DEF CtgStays
  <2>2. CASE FetchSolver(BeforeThis - 1, 1) /\ TriesCtg
    <3>1. BeforeThis - 1 \in Frames
      <4>1. pThis.frame \in 1 .. iFrame /\ iFrame \in Nat /\ BeforeThis > 1
        BY <1>31, <2>2 DEF CtgStays, TriesCtg
      <4> QED
        BY <4>1, BeforeThisType, SMTT(20)
    <3> QED
      BY <1>31, <2>2, <3>1, FetchType, SMTT(20) DEF CtgStays
  <2> QED
    BY <1>31, <2>1, <2>2 DEF CtgStays
<1>32. CASE CtgPushed
  <2>1. ctg.l \in Frames /\ FetchSolver(ctg.l, 1) /\ UNCHANGED <<pThis, iFrame>>
    BY <1>32 DEF CtgPushed
  <2>2. ctg' \in CtgCubes /\ ctg'.l \in 2 .. iFrame
    <3>1. ctg.l + 1 \in Nat /\ ctg.l + 1 \in 2 .. iFrame /\ ctg' = [ctg EXCEPT !.l = ctg.l + 1]
      BY <1>32, SMTT(20) DEF CtgPushed
    <3> QED
      BY <3>1 DEF DownCalls, CtgCubes
  <2> QED
    BY <1>32, <2>1, <2>2, FetchType DEF CtgPushed
<1>33. CASE CtgStops
  <2>1. CASE UNCHANGED solverVars
    BY <1>33, <2>1 DEF CtgStops
  <2>2. CASE FetchSolver(ctg.l, 1) /\ ctg.l < iFrame
    <3>1. ctg.l \in Frames /\ UNCHANGED <<pThis, iFrame>>
      BY <1>33, <2>2 DEF CtgStops
    <3> QED
      BY <1>33, <2>2, <3>1, FetchType DEF CtgStops
  <2> QED
    BY <1>33, <2>1, <2>2 DEF CtgStops
<1>34. ASSUME NEW x \in Lits, CtgDrop(x)
       PROVE  TypeInv'
  <2>1. ctg.l - 1 \in Frames /\ FetchSolver(ctg.l - 1, 1) /\ UNCHANGED <<pThis, iFrame>>
    BY <1>34, SMTT(20) DEF CtgDrop, DownCalls, CtgCubes
  <2>2. ctg' \in CtgCubes /\ ctg'.l = ctg.l
    BY <1>34, SubsetsOfCubes DEF CtgDrop, DownCalls, CtgCubes
  <2> QED
    BY <1>34, <2>1, <2>2, FetchType DEF CtgDrop
<1>35. ASSUME NEW x \in Lits, CtgKeep(x)
       PROVE  TypeInv'
  <2>1. ctg' \in CtgCubes /\ ctg'.l = ctg.l
    <3>1. ctg.tried \cup {x} \in Cubes
      BY DEF Cubes, DownCalls, CtgCubes
    <3> QED
      BY <1>35, <3>1 DEF CtgKeep, DownCalls, CtgCubes
  <2>2. CASE UNCHANGED solverVars
    BY <1>35, <2>1, <2>2 DEF CtgKeep
  <2>3. CASE FetchSolver(ctg.l - 1, 1)
    <3>1. ctg.l - 1 \in Frames /\ UNCHANGED <<pThis, iFrame>>
      BY <1>35, SMTT(20) DEF CtgKeep
    <3> QED
      BY <1>35, <2>1, <2>3, <3>1, FetchType DEF CtgKeep
  <2> QED
    BY <1>35, <2>2, <2>3 DEF CtgKeep
<1>36. CASE CtgAdd
  <2>1. vClauses' \in [Frames -> SUBSET Cubes] /\ solver' \in [Frames -> SUBSET Cubes]
    BY <1>36, SMTT(20) DEF CtgAdd, DownCalls, CtgCubes
  <2>2. ctg' \in CtgCubes
    BY <1>36, NoneType DEF CtgAdd
  <2> QED
    BY <1>36, <2>1, <2>2 DEF CtgAdd, DownCalls, CtgCubes
<1>37. ASSUME NEW c \in Cubes, pc \in DownLocations, DownHolds(c)
       PROVE  TypeInv'
  <2>1. BeforeThis \in Frames /\ FetchSolver(BeforeThis, 1) /\ UNCHANGED <<pThis, iFrame>>
    BY <1>37, BeforeThisType DEF DownHolds
  <2>2. keep \cap c \in Cubes
    BY SubsetsOfCubes
  <2> QED
    BY <1>37, <2>1, <2>2, FetchType, NoneType DEF DownHolds
<1>38. CASE RetryHolds
  BY <1>37, <1>38 DEF RetryHolds, DownCalls, CtgCubes
<1>39. CASE RetryFails
  <2>1. BeforeThis \in Frames /\ FetchSolver(BeforeThis, 1) /\ UNCHANGED <<pThis, iFrame>>
    BY <1>39, BeforeThisType DEF RetryFails
  <2>2. \E c \in Cubes : down' = [down EXCEPT !.pred = c]
    BY <1>39, PredsType DEF RetryFails
  <2>3. down' \in DownCalls
    BY <2>2 DEF DownCalls, CtgCubes
  <2> QED
    BY <1>39, <2>1, <2>3, FetchType DEF RetryFails
<1>40. Joined \in Cubes
  BY SubsetsOfCubes DEF Joined, DownCalls, CtgCubes
<1>41. CASE JoinHolds
  BY <1>37, <1>40, <1>41 DEF JoinHolds
<1>42. CASE JoinFails
  <2>1. keep' \in Cubes /\ tried' \in Cubes
    <3>1. down.lit \in Lits
      BY DEF DownCalls, CtgCubes
    <3>2. \A c \in TriedNow : c \in Cubes
      BY <3>1 DEF TriedNow, Cubes
    <3>3. keep' \in Cubes
      BY <1>42, <3>1 DEF JoinFails, Cubes
    <3>4. PICK c \in TriedNow : tried' = c \cup (keep' \cap pCubeMin)
      BY <1>42 DEF JoinFails
    <3> QED
      BY <3>2, <3>3, <3>4 DEF Cubes
  <2>2. CASE UNCHANGED solverVars
    BY <1>42, <2>1, <2>2, NoneType DEF JoinFails
  <2>3. CASE FetchSolver(BeforeThis, 1)
    <3>1. BeforeThis \in Frames /\ UNCHANGED <<pThis, iFrame>>
      BY <1>42, BeforeThisType DEF JoinFails
    <3> QED
      BY <1>42, <2>1, <2>3, <3>1, FetchType, NoneType DEF JoinFails
  <2> QED
    BY <1>42, <2>2, <2>3 DEF JoinFails
<1>43. CASE JoinAgain
  <2>1. BeforeThis \in Frames /\ FetchSolver(BeforeThis, 1) /\ UNCHANGED <<pThis, iFrame>>
    BY <1>43, BeforeThisType DEF JoinAgain
  <2>2. \E c \in Cubes : down' = [down EXCEPT !.cube = Joined, !.pred = c, !.ctgs = 0]
    BY <1>43, PredsType DEF JoinAgain
  <2>3. down' \in DownCalls
    <3>1. PICK c \in Cubes : down' = [down EXCEPT !.cube = Joined, !.pred = c, !.ctgs = 0]
      BY <2>2
    <3>2. [down EXCEPT !.cube = Joined] \in DownCalls
      BY <1>40 DEF DownCalls, CtgCubes
    <3>3. 0 \in Nat
      OBVIOUS
    <3> QED
      BY <3>1, <3>2, <3>3 DEF DownCalls, CtgCubes
  <2> QED
    BY <1>43, <2>1, <2>3, FetchType DEF JoinAgain
<1>44. CASE Down
  BY <1>29, <1>30, <1>31, <1>32, <1>33, <1>34, <1>35, <1>36, <1>38, <1>39, <1>41, <1>42, <1>43,
     <1>44 DEF Down
<1> QED
  BY <1>1, <1>2, <1>3, <1>4, <1>5, <1>6, <1>7, <1>8, <1>9, <1>10, <1>11, <1>12, <1>13, <1>14,
     <1>15, <1>16, <1>17, <1>18, <1>19, <1>20, <1>21, <1>22, <1>23, <1>24, <1>25, <1>26, <1>27,
     <1>28, <1>44
  DEF Next, Outputs, Block, Generalize, PushClauses, Returned

(***************************************************************************)
(* The variables of the engine always have their types: no timeframe,      *)
(* output or obligation that does not exist is ever accessed (the          *)
(* assertions on p->vSolvers, on iFrame and on Lits in Pdr_ManSolveInt and *)
(* Pdr_ManBlockCube).                                                      *)
(***************************************************************************)
THEOREM TypeCorrect == Spec => []TypeOK
<1>1. Init => TypeInv
  BY TypeInit
<1>2. TypeInv /\ [Next]_vars => TypeInv'
  BY TypeStep
<1>3. TypeInv => TypeOK
  BY DEF TypeInv
<1> QED
  BY <1>1, <1>2, <1>3, PTL DEF Spec

-----------------------------------------------------------------------------
(* The timeframes *)

\* With -M 0 the solver of the last timeframe is recycled and the code's own
\* assertion fails; with -c a query without an answer counts as a success, and
\* an output that runs out of time leaves the clauses that rest on its cube.
SoundFlags == NRecycle # 0 /\ (Ctgs => ~Unanswered)

\* The cube c is inductive relative to timeframe k: what Pdr_ManCheckCube
\* decides.
Blocked(k, c) == \A s \in F(k), i \in Ins : Covers(c, s) \/ ~Covers(c, Trans[<<s, i>>])

\* No SAT solver holds a clause that the clauses of its timeframe do not imply,
\* although pushing removes and shortens clauses behind its back.
SolversSound == \A k \in Frames : \A s \in F(k) : \A c \in solver[k] : ~Covers(c, s)

\* The solver of the last timeframe asserts no property and uses no activation
\* variable; it is never recycled.
LastFrameOpen == vActVars[iFrame] = 0 /\ propOut[iFrame] = {}

\* The live outputs before the current one do not fail in the last timeframe;
\* when all are done the property is asserted there.
OutputsHold ==
  pc \in {"output", "add"} \cup Solving \cup DownLocations =>
    \A o \in LiveOuts : o < iOutCur => Excludes(iFrame, o)

(***************************************************************************)
(* The cube being generalized does not hold the initial state and is       *)
(* inductive relative to every timeframe from the one the query was made   *)
(* in up to the last one it was pushed to.                                 *)
(***************************************************************************)
CubeInductive ==
  pc \in Generalizing =>
    ~IsInit(pCubeMin) /\ \A j \in BeforeThis .. kCur - 1 : Blocked(j, pCubeMin)

\* What `down' tries and the clause it learns on the way do not hold the initial
\* state; the first is part of the cube, the second is inductive.
DownInv ==
  /\ pc \in DownLocations => down.cube \subseteq pCubeMin /\ ~IsInit(down.cube)
  /\ pc \in {"ctgPush", "ctgDrop"} =>
       Ctgs /\ ~IsInit(ctg.cube) /\ Blocked(ctg.l - 1, ctg.cube)

\* When pushing has emptied a timeframe it stays empty.
EmptyLevel ==
  emptied =>
    /\ pc \in {"push", "done"}
    /\ pc = "push" => \E k \in 1 .. iFrame - 1 : k < kCur /\ vClauses[k] = {}

\* How the counters, the traces and the map of answers agree.
Answers ==
  /\ nFailOuts = 0 /\ (SolveAll \/ pc # "done") => \A o \in Outs : vCexes[o] = <<>>
  /\ SolveAll => \A o \in Outs : vCexes[o] # <<>> => vOutMap[o] = "failed"
  /\ pc \in {"add"} \cup Solving \cup DownLocations => iOutCur \in LiveOuts
  /\ pc # "done" =>
       /\ result = "running"
       /\ nDropOuts = 0 => \A o \in Outs : vOutMap[o] # "undecided"
       /\ \A o \in Outs : vOutMap[o] = "proved" => o \in Const0

\* The part of the invariant that is about timeframes and solvers ...
FrameInv == FramesOverApproximate /\ SolversSound /\ ClosedFramesSafe /\ LastFrameOpen

\* ... and all of it.
SafeInv ==
  /\ FrameInv /\ OutputsHold /\ CubeInductive /\ DownInv
  /\ EmptyLevel /\ Answers /\ InvariantCertificate

-----------------------------------------------------------------------------
\* A state in a cube is in every cube with fewer literals.
LEMMA CoversSubset ==
  ASSUME NEW c, NEW d, NEW s, d \subseteq c, Covers(c, s)
  PROVE  Covers(d, s)
BY DEF Covers

\* Pdr_SetIsInit decides whether a cube holds the initial state.
LEMMA InitNotCovered ==
  ASSUME NEW c \in Cubes
  PROVE  Covers(c, InitState) <=> IsInit(c)
<1>1. \A l \in c : l[2] \in BOOLEAN
  BY DEF Cubes, Lits
<1> QED
  BY <1>1 DEF Covers, IsInit, InitState

\* Removing the subsumed cubes of a timeframe loses nothing: below every cube
\* there is one that stays.
LEMMA MinimalSubsumes ==
  ASSUME NEW cubes \in SUBSET Cubes, NEW d \in cubes
  PROVE  \E c \in Minimal(cubes) : c \subseteq d
<1>1. IsFiniteSet(Lits)
  <2>1. IsFiniteSet(Regs)
    BY CircuitAssumption, FS_Interval DEF Regs
  <2>2. IsFiniteSet(BOOLEAN)
    <3>1. BOOLEAN = {TRUE} \cup {FALSE}
      OBVIOUS
    <3>2. IsFiniteSet({TRUE}) /\ IsFiniteSet({FALSE})
      BY FS_Singleton
    <3>3. IsFiniteSet({TRUE} \cup {FALSE})
      BY <3>2, FS_Union
    <3> QED
      BY <3>1, <3>3, Zenon
  <2> QED
    BY <2>1, <2>2, FS_Product DEF Lits
<1> DEFINE R == StrictSubsetOrdering(Lits)
           T == {c \in cubes : c \subseteq d}
<1>2. IsWellFoundedOn(R, SUBSET Lits)
  BY <1>1, FS_StrictSubsetOrderingWellFounded, FS_FiniteSubsetsOfFinite
<1>3. T \subseteq SUBSET Lits /\ T # {}
  BY DEF Cubes
<1>4. PICK x \in T : \A y \in T : <<y, x>> \notin R
  <2> HIDE DEF R, T
  <2> QED
    BY <1>2, <1>3, WFMin
<1>5. ASSUME NEW c \in cubes \ {x}, SetContains(x, c)
      PROVE  FALSE
  <2>1. c \in T /\ c \subseteq x /\ c # x
    BY <1>5 DEF SetContains
  <2>2. <<c, x>> \in R
    BY <1>3, <2>1 DEF StrictSubsetOrdering
  <2> QED
    BY <1>4, <2>1, <2>2
<1> QED
  BY <1>4, <1>5 DEF Minimal

\* What is assumed to be blocked stays the same: nothing, while no cube is being
\* generalized,
SameAssumed == \A k : Assumed(k)' = Assumed(k)

LEMMA AssumedNothing ==
  ASSUME pc \notin Generalizing, pc' \notin Generalizing
  PROVE  SameAssumed
BY DEF Assumed, SameAssumed

\* the cube, while it is not replaced,
LEMMA AssumedCube ==
  ASSUME pc \in Generalizing, pc' \in Generalizing, UNCHANGED <<pThis, pCubeMin>>
  PROVE  SameAssumed
BY DEF Assumed, SameAssumed

\* and nothing without -c.
LEMMA AssumedWithoutCtgs ==
  ASSUME ~Ctgs
  PROVE  SameAssumed
BY DEF Assumed, SameAssumed

\* A timeframe depends on the clauses, their number and what is assumed only.
LEMMA SameFrames ==
  ASSUME UNCHANGED <<vClauses, iFrame>>, SameAssumed
  PROVE  Frames' = Frames /\ \A k : F(k)' = F(k)
BY DEF Frames, F, ClausesFrom, SameAssumed

\* Timeframes grow.
LEMMA FramesMonotone ==
  ASSUME TypeInv, FramesOverApproximate, NEW j \in Frames, NEW k \in Frames, j <= k
  PROVE  F(j) \subseteq F(k)
<1>1. ClausesFrom(k) \cup Assumed(k) \subseteq ClausesFrom(j) \cup Assumed(j)
  <2>1. ClausesFrom(k) \subseteq ClausesFrom(j)
    BY DEF ClausesFrom, Frames, TypeInv, TypeOK
  <2>2. Assumed(k) \subseteq Assumed(j)
    <3>1. pThis.frame \in Nat => (k <= pThis.frame => j <= pThis.frame)
      BY DEF Frames, TypeInv, TypeOK
    <3>2. pc \in Generalizing => pThis.frame \in Nat
      BY DEF Generalizing, Located, TypeInv, Obligations
    <3> QED
      BY <3>1, <3>2 DEF Assumed
  <2> QED
    BY <2>1, <2>2
<1>2. CASE j = 0
  BY <1>2 DEF FramesOverApproximate, F
<1>3. CASE j # 0
  BY <1>1, <1>3 DEF F, Frames, TypeInv, TypeOK
<1> QED
  BY <1>2, <1>3

\* A query on the solver of timeframe k misses no state of the timeframe:
\* neither its clauses nor the asserted properties exclude one.
LEMMA ModelsComplete ==
  ASSUME TypeOK, FrameInv, SoundFlags, NEW k \in Frames, NEW s \in F(k), NEW i \in Ins
  PROVE  <<s, i>> \in Models(k)
<1>1. \A d \in SolverOf(k) : ~Covers(d, s)
  BY DEF SolverOf, FrameInv, SolversSound, F
<1>2. \A o \in PropOutOf(k) : <<s, i>> \notin Fails[o]
  <2>1. CASE k # iFrame
    <3>1. PropOutOf(k) \subseteq LiveOuts \cup propOut[k]
      BY DEF PropOutOf, PropertyOutput
    <3> QED
      BY <2>1, <3>1 DEF FrameInv, ClosedFramesSafe, Excludes
  <2>2. CASE k = iFrame
    BY <2>2, PdrAssumption DEF PropOutOf, Recycled, FrameInv, LastFrameOpen, SoundFlags
  <2> QED
    BY <2>1, <2>2
<1> QED
  BY <1>1, <1>2 DEF Models, F

\* An unsatisfiable query proves a cube inductive ...
LEMMA NoModelsBlocked ==
  ASSUME TypeOK, FrameInv, SoundFlags, NEW k \in Frames, NEW c, CubeModels(k, c, c) = {}
  PROVE  Blocked(k, c)
<1>1. \A s \in F(k), i \in Ins : <<s, i>> \in Models(k)
  BY ModelsComplete
<1>2. \A m \in Models(k) : Covers(c, m[1]) \/ ~Covers(c, Trans[m])
  BY DEF CubeModels
<1> QED
  BY <1>1, <1>2 DEF Blocked

\* ... and what Pdr_ManReduceClause leaves of it is inductive too, and does not
\* hold the initial state.
LEMMA ReduceClauseBlocked ==
  ASSUME TypeOK, FrameInv, SoundFlags, NEW k \in Frames, NEW c \in Cubes,
         NEW r \in ReduceClause(k, c)
  PROVE  r \subseteq c /\ Blocked(k, r) /\ ~IsInit(r)
<1>1. PICK core \in SUBSET c :
        /\ CubeModels(k, c, core) = {}
        /\ r \in IF IsInit(core) THEN {core \cup {l} : l \in {x \in c : x[2]}} ELSE {core}
  BY DEF ReduceClause
<1>2. core \subseteq r /\ r \subseteq c /\ ~IsInit(r)
  BY <1>1 DEF IsInit
<1>3. ASSUME NEW s \in F(k), NEW i \in Ins, ~Covers(r, s)
      PROVE  ~Covers(r, Trans[<<s, i>>])
  <2>1. ~Covers(c, s)
    BY <1>2, <1>3, CoversSubset
  <2>2. ~Covers(core, Trans[<<s, i>>])
    BY <1>1, <2>1, ModelsComplete DEF CubeModels
  <2> QED
    BY <1>2, <2>2, CoversSubset
<1> QED
  BY <1>2, <1>3 DEF Blocked

-----------------------------------------------------------------------------
\* A step that only takes states out of timeframes and keeps the solvers sound.
Shrinks ==
  /\ iFrame' = iFrame
  /\ LiveOuts' \subseteq LiveOuts
  /\ \A k \in Frames : F(k)' \subseteq F(k)
  /\ \A k \in Frames : \A s \in F(k)' : \A d \in solver'[k] : ~Covers(d, s)
  /\ \A k \in Frames : propOut'[k] \subseteq
       propOut[k] \cup (IF k = iFrame THEN {} ELSE LiveOuts)
  /\ vActVars'[iFrame] = 0

\* Such a step keeps the solvers sound and closed timeframes safe.
LEMMA ShrinksKeeps ==
  ASSUME TypeOK, FrameInv, Shrinks
  PROVE  /\ Frames' = Frames
         /\ SolversSound' /\ ClosedFramesSafe' /\ LastFrameOpen'
<1>1. Frames' = Frames /\ iFrame \in Frames
  BY DEF Shrinks, Frames, TypeOK
<1>2. SolversSound'
  BY <1>1 DEF Shrinks, SolversSound
<1>3. LastFrameOpen'
  BY <1>1 DEF Shrinks, LastFrameOpen, FrameInv
<1>4. ClosedFramesSafe'
  <2> SUFFICES ASSUME NEW k \in Frames \ {iFrame},
                      NEW o \in LiveOuts' \cup propOut'[k], NEW s \in F(k)', NEW i \in Ins
               PROVE  <<s, i>> \notin Fails[o]
    BY <1>1 DEF ClosedFramesSafe, Excludes, Shrinks
  <2>1. o \in LiveOuts \cup propOut[k] /\ s \in F(k)
    BY DEF Shrinks
  <2> QED
    BY <2>1 DEF FrameInv, ClosedFramesSafe, Excludes
<1> QED
  BY <1>1, <1>2, <1>3, <1>4

\* A step that does not touch the solvers ...
LEMMA SolverKept ==
  ASSUME TypeOK, FrameInv, SameAssumed, UNCHANGED <<solverVars, iFrame>>,
         LiveOuts' \subseteq LiveOuts
  PROVE  FrameInv'
<1>1. Frames' = Frames /\ \A k : F(k)' = F(k)
  BY SameFrames DEF solverVars
<1>2. Shrinks
  BY <1>1 DEF Shrinks, FrameInv, SolversSound, LastFrameOpen, solverVars
<1>3. FramesOverApproximate'
  BY <1>1 DEF FrameInv, FramesOverApproximate
<1> QED
  BY <1>2, <1>3, ShrinksKeeps DEF FrameInv

\* ... and one that fetches one for a query preserve the invariant of the
\* timeframes.
LEMMA FetchShrinks ==
  ASSUME TypeOK, FrameInv, SoundFlags, NEW k \in Frames, NEW n \in Nat,
         k # iFrame \/ n = 0, FetchSolver(k, n), iFrame' = iFrame, LiveOuts' \subseteq LiveOuts,
         \A j \in Frames : F(j)' \subseteq F(j), FramesOverApproximate'
  PROVE  FrameInv'
<1>1. Frames' = Frames
  BY DEF Frames
<1>2. \A j \in Frames : \A s \in F(j)' : \A d \in solver'[j] : ~Covers(d, s)
  <2> SUFFICES ASSUME NEW j \in Frames, NEW s \in F(j)', NEW d \in solver'[j]
               PROVE  ~Covers(d, s)
    OBVIOUS
  <2>1. s \in F(j)
    OBVIOUS
  <2>2. d \in solver[j] \/ d \in ClausesFrom(j)
    BY DEF FetchSolver, SolverOf, TypeOK
  <2> QED
    BY <2>1, <2>2 DEF FrameInv, SolversSound, F
<1>3. ~Recycled(iFrame) /\ iFrame \in Frames
  BY PdrAssumption DEF Recycled, FrameInv, LastFrameOpen, Frames, TypeOK, SoundFlags
<1>4. \A j \in Frames : propOut'[j] \subseteq
        propOut[j] \cup (IF j = iFrame THEN {} ELSE LiveOuts)
  BY <1>3 DEF FetchSolver, PropOutOf, PropertyOutput, TypeOK
<1>5. vActVars'[iFrame] = 0
  BY <1>3 DEF FetchSolver, TypeOK, FrameInv, LastFrameOpen
<1>6. Shrinks
  BY <1>1, <1>2, <1>4, <1>5 DEF Shrinks
<1> QED
  BY <1>6, ShrinksKeeps DEF FrameInv

LEMMA FetchKept ==
  ASSUME TypeOK, FrameInv, SoundFlags, SameAssumed, NEW k \in Frames, NEW n \in Nat,
         k # iFrame \/ n = 0, FetchSolver(k, n), iFrame' = iFrame, LiveOuts' \subseteq LiveOuts
  PROVE  FrameInv'
<1>1. Frames' = Frames /\ \A j : F(j)' = F(j)
  BY SameFrames DEF FetchSolver
<1>2. FramesOverApproximate'
  BY <1>1 DEF FrameInv, FramesOverApproximate
<1> QED
  BY <1>1, <1>2, FetchShrinks

\* A cube inductive relative to a timeframe is inductive relative to the
\* earlier ones.
LEMMA BlockedBelow ==
  ASSUME TypeInv, FramesOverApproximate, NEW c, NEW k \in Frames, Blocked(k, c),
         NEW j \in Frames, j <= k
  PROVE  Blocked(j, c)
BY FramesMonotone DEF Blocked

\* The clause of c is added up to timeframe n.
Strengthens(c, n) ==
  \A k \in Frames : F(k)' = IF k <= n THEN {s \in F(k) : ~Covers(c, s)} ELSE F(k)

\* Adding the clause of a cube that is inductive relative to the timeframe
\* before leaves every timeframe an overapproximation.
LEMMA StrengthensKeeps ==
  ASSUME TypeInv, FrameInv, NEW c \in Cubes, NEW n \in 1 .. iFrame,
         ~IsInit(c), Blocked(n - 1, c), Strengthens(c, n), iFrame' = iFrame
  PROVE  FramesOverApproximate'
<1>1. Frames' = Frames /\ iFrame \in Nat
  BY DEF Frames, TypeInv, TypeOK
<1>2. ASSUME NEW k \in Frames
      PROVE  InitState \in F(k)'
  BY <1>2, InitNotCovered DEF Strengthens, FrameInv, FramesOverApproximate
<1>3. ASSUME NEW k \in Frames \ {iFrame}, NEW s \in F(k)', NEW i \in Ins
      PROVE  Trans[<<s, i>>] \in F(k + 1)'
  <2>1. s \in F(k) /\ k + 1 \in Frames /\ n - 1 \in Frames /\ k \in Nat
    BY <1>1 DEF Strengthens, Frames
  <2>2. Trans[<<s, i>>] \in F(k + 1)
    BY <2>1 DEF FrameInv, FramesOverApproximate
  <2>3. CASE k + 1 <= n
    <3>1. ~Covers(c, s)
      BY <2>1, <2>3 DEF Strengthens
    <3>2. Blocked(k, c)
      BY <2>1, <2>3, BlockedBelow DEF FrameInv
    <3>3. ~Covers(c, Trans[<<s, i>>])
      BY <2>1, <3>1, <3>2 DEF Blocked
    <3> QED
      BY <2>1, <2>2, <2>3, <3>3 DEF Strengthens
  <2>4. CASE ~(k + 1 <= n)
    BY <2>1, <2>2, <2>4 DEF Strengthens
  <2> QED
    BY <2>3, <2>4
<1> QED
  BY <1>1, <1>2, <1>3 DEF FramesOverApproximate

\* A clause added to timeframe n is one of the timeframes up to n.
LEMMA ClauseAdded ==
  ASSUME TypeOK, NEW c, NEW n \in 1 .. iFrame, iFrame' = iFrame,
         vClauses' = [vClauses EXCEPT ![n] = @ \cup {c}], NEW k \in Frames
  PROVE  ClausesFrom(k)' = IF k <= n THEN ClausesFrom(k) \cup {c} ELSE ClausesFrom(k)
<1>1. k \in 0 .. iFrame /\ iFrame \in Nat /\ n \in 0 .. iFrame
  BY DEF Frames, TypeOK
<1>2. /\ ClausesFrom(k) = UNION {vClauses[j] : j \in k .. iFrame}
      /\ ClausesFrom(k)' = UNION {vClauses'[j] : j \in k .. iFrame}
  BY DEF ClausesFrom
<1>3. \A j \in k .. iFrame : vClauses'[j] = IF j = n THEN vClauses[j] \cup {c} ELSE vClauses[j]
  <2>1. k .. iFrame \subseteq 0 .. iFrame
    BY <1>1
  <2>2. \A j \in 0 .. iFrame : vClauses'[j] = IF j = n THEN vClauses[j] \cup {c} ELSE vClauses[j]
    BY DEF TypeOK, Frames
  <2> QED
    BY <2>1, <2>2
<1>4. CASE k <= n
  BY <1>1, <1>2, <1>3, <1>4
<1>5. CASE ~(k <= n)
  BY <1>1, <1>2, <1>3, <1>5
<1> QED
  BY <1>4, <1>5

\* A learned clause,
LEMMA AddClauseKeeps ==
  ASSUME TypeInv, SafeInv, SoundFlags, AddClause
  PROVE  FrameInv' /\ \A k \in Frames : F(k)' \subseteq F(k)
<1>1. /\ kCur \in 1 .. iFrame /\ iFrame \in Nat /\ iFrame' = iFrame /\ LiveOuts' = LiveOuts
      /\ pCubeMin \in Cubes
  BY DEF AddClause, TypeInv, TypeOK, Located, LiveOuts, outVars, Obligations
<1>2. Frames' = Frames
  BY <1>1 DEF Frames
<1>3. Strengthens(pCubeMin, kCur)
  <2>1. \A k \in Frames : ClausesFrom(k)' = IF k <= kCur THEN ClausesFrom(k) \cup {pCubeMin}
                                                            ELSE ClausesFrom(k)
    BY <1>1, ClauseAdded DEF AddClause, TypeInv
  <2>2. ASSUME NEW k \in Frames
        PROVE  Assumed(k)' = {} /\ Assumed(k) \subseteq {pCubeMin} /\ (k > kCur => Assumed(k) = {})
    <3>1. pThis.frame \in 1 .. iFrame /\ pThis.frame <= kCur /\ k \in Nat
      BY <1>1 DEF AddClause, TypeInv, Located, Frames
    <3> QED
      BY <1>1, <3>1 DEF Assumed, AddClause, Generalizing, DownLocations
  <2>3. ASSUME NEW k \in Frames
        PROVE  IF k <= kCur
                 THEN ClausesFrom(k)' \cup Assumed(k)' = ClausesFrom(k) \cup Assumed(k) \cup {pCubeMin}
                 ELSE ClausesFrom(k)' \cup Assumed(k)' = ClausesFrom(k) \cup Assumed(k)
    <3>1. k \in Nat
      BY <1>1 DEF Frames
    <3> QED
      BY <1>1, <2>1, <2>2, <3>1
  <2> QED
    BY <1>2, <2>3 DEF Strengthens, F
<1>4. ~IsInit(pCubeMin) /\ Blocked(kCur - 1, pCubeMin)
  <2>1. pThis.frame \in 1 .. iFrame /\ kCur \in pThis.frame .. iFrame
    BY DEF AddClause, TypeInv, Located
  <2>2. kCur - 1 \in BeforeThis .. kCur - 1
    BY <1>1, <2>1 DEF BeforeThis
  <2> QED
    BY <2>2 DEF AddClause, SafeInv, CubeInductive, Generalizing
<1>5. Shrinks
  <2>1. \A k \in Frames : F(k)' \subseteq F(k)
    BY <1>3 DEF Strengthens
  <2>2. \A k \in Frames : \A s \in F(k)' : \A d \in solver'[k] : ~Covers(d, s)
    BY <1>1, <1>3 DEF Strengthens, AddClause, SafeInv, FrameInv, SolversSound, Frames
  <2> QED
    BY <1>1, <2>1, <2>2 DEF Shrinks, AddClause, SafeInv, FrameInv, LastFrameOpen
<1> QED
  BY <1>1, <1>3, <1>4, <1>5, StrengthensKeeps, ShrinksKeeps
  DEF SafeInv, FrameInv, TypeInv, Shrinks

\* a clause pushed to the next timeframe, with what it subsumes there and in
\* its own,
LEMMA PushHoldsKeeps ==
  ASSUME TypeInv, SafeInv, SoundFlags, NEW c \in todo, PushHolds(c)
  PROVE  FrameInv' /\ \A k \in Frames : F(k)' \subseteq F(k)
<1>1. /\ kCur \in 1 .. iFrame - 1 /\ iFrame \in Nat /\ iFrame' = iFrame /\ LiveOuts' = LiveOuts
      /\ c \in vClauses[kCur] /\ c \in Cubes /\ todo \subseteq vClauses[kCur]
      /\ \A k : Assumed(k) = {} /\ Assumed(k)' = {}
  BY DEF PushHolds, TypeInv, TypeOK, Located, LiveOuts, outVars, Assumed, Generalizing, DownLocations
<1>2. Frames' = Frames /\ kCur \in Frames /\ kCur + 1 \in Frames
  BY <1>1 DEF Frames
<1>3. PICK m \in ReduceClause(kCur, c) :
       /\ vClauses' = [vClauses EXCEPT
                         ![kCur] = @ \ ({c} \cup Subsumed(c)),
                         ![kCur + 1] = {d \in @ : ~SetContains(d, m)} \cup {m}]
       /\ solver' = [solver EXCEPT ![kCur] = SolverOf(kCur), ![kCur + 1] = @ \cup {m}]
  BY DEF PushHolds
<1>4. m \subseteq c /\ Blocked(kCur, m) /\ ~IsInit(m) /\ m \in Cubes
  BY <1>1, <1>2, ReduceClauseBlocked, ReduceClauseType DEF TypeInv, SafeInv
<1>5. Strengthens(m, kCur + 1)
  <2> SUFFICES ASSUME NEW k \in Frames, NEW s \in States
               PROVE  s \in F(k)' <=> s \in F(k) /\ (k <= kCur + 1 => ~Covers(m, s))
    BY DEF Strengthens, F
  <2>1. ASSUME NEW d \in ClausesFrom(k)'
        PROVE  d \in ClausesFrom(k) \/ (d = m /\ k <= kCur + 1)
    <3>1. PICK j \in k .. iFrame : d \in vClauses'[j]
      BY <1>1 DEF ClausesFrom
    <3>2. j \in Frames
      BY <1>1 DEF Frames
    <3>3. d \in vClauses[j] \/ (d = m /\ j = kCur + 1)
      BY <1>1, <1>2, <1>3, <3>1, <3>2 DEF TypeInv, TypeOK
    <3> QED
      BY <1>1, <3>1, <3>3 DEF ClausesFrom, Frames
  <2>2. ASSUME NEW d \in ClausesFrom(k)
        PROVE  d \in ClausesFrom(k)' \/ (m \subseteq d /\ k <= kCur + 1)
    <3>1. PICK j \in k .. iFrame : d \in vClauses[j]
      BY DEF ClausesFrom
    <3>2. CASE j \notin {kCur, kCur + 1}
      <4>1. vClauses'[j] = vClauses[j]
        <5>1. j \in Frames /\ j # kCur /\ j # kCur + 1
          BY <1>1, <3>2 DEF Frames
        <5>2. vClauses \in [Frames -> SUBSET Cubes]
          BY DEF TypeInv, TypeOK
        <5> QED
          BY <1>3, <5>1, <5>2
      <4> QED
        BY <1>1, <3>1, <4>1 DEF ClausesFrom
    <3>3. CASE j = kCur
      <4>1. d \in vClauses'[kCur] \/ d \in {c} \cup Subsumed(c)
        BY <1>1, <1>2, <1>3, <3>1, <3>3 DEF TypeInv, TypeOK
      <4>2. d \in {c} \cup Subsumed(c) => m \subseteq d
        BY <1>4 DEF Subsumed, SetContains
      <4> QED
        BY <1>1, <3>1, <3>3, <4>1, <4>2 DEF ClausesFrom, Frames
    <3>4. CASE j = kCur + 1
      <4>1. d \in vClauses'[kCur + 1] \/ m \subseteq d
        BY <1>1, <1>2, <1>3, <3>1, <3>4 DEF TypeInv, TypeOK, SetContains
      <4> QED
        BY <1>1, <3>1, <3>4, <4>1 DEF ClausesFrom, Frames
    <3> QED
      BY <3>2, <3>3, <3>4
  <2>3. k <= kCur + 1 => m \in ClausesFrom(k)'
    <3>1. m \in vClauses'[kCur + 1]
      BY <1>1, <1>2, <1>3 DEF TypeInv, TypeOK
    <3> QED
      BY <1>1, <3>1 DEF ClausesFrom, Frames
  <2> QED
    BY <1>1, <2>1, <2>2, <2>3, CoversSubset DEF F
<1>6. Shrinks
  <2>1. \A k \in Frames : F(k)' \subseteq F(k)
    BY <1>5 DEF Strengthens
  <2>2. ASSUME NEW k \in Frames, NEW s \in F(k)', NEW d \in solver'[k]
        PROVE  ~Covers(d, s)
    <3>1. d \in solver[k] \/ d \in ClausesFrom(k) \/ (d = m /\ k = kCur + 1)
      BY <1>1, <1>2, <1>3 DEF SolverOf, TypeInv, TypeOK
    <3>2. s \in F(k)
      BY <2>1
    <3> QED
      BY <1>1, <1>5, <3>1, <3>2 DEF Strengthens, SafeInv, FrameInv, SolversSound, F
  <2>3. \A k \in Frames : propOut'[k] \subseteq
          propOut[k] \cup (IF k = iFrame THEN {} ELSE LiveOuts)
    BY <1>1, <1>2 DEF PushHolds, PropOutOf, PropertyOutput, TypeInv, TypeOK
  <2>4. vActVars'[iFrame] = 0
    BY <1>1, <1>2 DEF PushHolds, TypeInv, TypeOK, SafeInv, FrameInv, LastFrameOpen
  <2> QED
    BY <1>1, <2>1, <2>2, <2>3, <2>4 DEF Shrinks
<1>7. kCur + 1 \in 1 .. iFrame /\ Blocked((kCur + 1) - 1, m)
  BY <1>1, <1>4
<1> QED
  BY <1>1, <1>4, <1>5, <1>6, <1>7, StrengthensKeeps, ShrinksKeeps
  DEF SafeInv, FrameInv, TypeInv, Shrinks

\* a clause that stays, with what it subsumes,
LEMMA PushFailsKeeps ==
  ASSUME TypeInv, SafeInv, SoundFlags, NEW c \in todo, PushFails(c)
  PROVE  FrameInv' /\ \A k \in Frames : F(k)' \subseteq F(k)
<1>1. /\ kCur \in 1 .. iFrame - 1 /\ iFrame \in Nat /\ iFrame' = iFrame /\ LiveOuts' = LiveOuts
      /\ c \in vClauses[kCur] /\ c \in Cubes /\ todo \subseteq vClauses[kCur]
      /\ \A k : Assumed(k) = {} /\ Assumed(k)' = {}
  BY DEF PushFails, TypeInv, TypeOK, Located, LiveOuts, outVars, Assumed, Generalizing, DownLocations
<1>2. Frames' = Frames /\ kCur \in Frames
  BY <1>1 DEF Frames
<1>3. \A k \in Frames : F(k)' = F(k)
  <2> SUFFICES ASSUME NEW k \in Frames, NEW s \in States
               PROVE  s \in F(k)' <=> s \in F(k)
    BY DEF F
  <2>1. ClausesFrom(k)' \subseteq ClausesFrom(k)
    BY <1>1, <1>2 DEF PushFails, ClausesFrom, Frames, TypeInv, TypeOK
  <2>2. ASSUME NEW d \in ClausesFrom(k)
        PROVE  \E e \in ClausesFrom(k)' : e \subseteq d
    <3>1. PICK j \in k .. iFrame : d \in vClauses[j]
      BY DEF ClausesFrom
    <3>2. d \in vClauses'[j] \/ (j = kCur /\ c \subseteq d /\ c \in vClauses'[j])
      BY <1>1, <1>2, <3>1 DEF PushFails, Subsumed, SetContains, TypeInv, TypeOK, Frames
    <3> QED
      BY <1>1, <3>1, <3>2 DEF ClausesFrom
  <2> QED
    BY <1>1, <2>1, <2>2, CoversSubset DEF F
<1>4. Shrinks
  <2>1. \A k \in Frames : \A s \in F(k)' : \A d \in solver'[k] : ~Covers(d, s)
    BY <1>2, <1>3 DEF PushFails, SolverOf, TypeInv, TypeOK, SafeInv, FrameInv, SolversSound, F
  <2>2. \A k \in Frames : propOut'[k] \subseteq
          propOut[k] \cup (IF k = iFrame THEN {} ELSE LiveOuts)
    BY <1>1, <1>2 DEF PushFails, PropOutOf, PropertyOutput, TypeInv, TypeOK
  <2>3. vActVars'[iFrame] = 0
    BY <1>1, <1>2 DEF PushFails, TypeInv, TypeOK, SafeInv, FrameInv, LastFrameOpen
  <2> QED
    BY <1>1, <1>3, <2>1, <2>2, <2>3 DEF Shrinks
<1>5. FramesOverApproximate'
  BY <1>1, <1>2, <1>3 DEF SafeInv, FrameInv, FramesOverApproximate, Frames
<1> QED
  BY <1>3, <1>4, <1>5, ShrinksKeeps DEF SafeInv, FrameInv, TypeInv

\* and the clean up of the last timeframe preserve the invariant of the
\* timeframes.
LEMMA AllPushedKeeps ==
  ASSUME TypeInv, SafeInv, AllPushed, SameAssumed, LiveOuts' \subseteq LiveOuts
  PROVE  FrameInv' /\ \A k \in Frames : F(k)' = F(k)
<1>1. iFrame \in Frames /\ Frames' = Frames
  BY DEF AllPushed, Frames, TypeInv, TypeOK
<1>2. \A k \in Frames : F(k)' = F(k)
  <2> SUFFICES ASSUME NEW k \in Frames, NEW s \in States
               PROVE  s \in F(k)' <=> s \in F(k)
    BY DEF F
  <2>1. ClausesFrom(k)' \subseteq ClausesFrom(k)
    BY <1>1 DEF AllPushed, Minimal, ClausesFrom, Frames, TypeInv, TypeOK
  <2>2. ASSUME NEW d \in ClausesFrom(k)
        PROVE  \E e \in ClausesFrom(k)' : e \subseteq d
    <3>1. PICK j \in k .. iFrame : d \in vClauses[j]
      BY DEF ClausesFrom
    <3>2. CASE j # iFrame
      <4>1. d \in vClauses'[j] /\ iFrame' = iFrame
        BY <3>1, <3>2 DEF AllPushed, Frames, TypeInv, TypeOK
      <4> QED
        BY <3>1, <4>1 DEF ClausesFrom
    <3>3. CASE j = iFrame
      <4>1. vClauses[iFrame] \in SUBSET Cubes
        BY <1>1 DEF TypeInv, TypeOK
      <4>2. PICK e \in Minimal(vClauses[iFrame]) : e \subseteq d
        BY <3>1, <3>3, <4>1, MinimalSubsumes
      <4>3. e \in vClauses'[iFrame] /\ iFrame' = iFrame
        BY <1>1, <4>2 DEF AllPushed, TypeInv, TypeOK
      <4> QED
        BY <3>1, <3>3, <4>2, <4>3 DEF ClausesFrom
    <3> QED
      BY <3>2, <3>3
  <2> QED
    BY <2>1, <2>2, CoversSubset DEF F, AllPushed, SameAssumed
<1>3. Shrinks
  BY <1>1, <1>2 DEF Shrinks, AllPushed, SafeInv, FrameInv, SolversSound, LastFrameOpen
<1>4. FramesOverApproximate'
  BY <1>1, <1>2 DEF AllPushed, SafeInv, FrameInv, FramesOverApproximate, Frames
<1> QED
  BY <1>2, <1>3, <1>4, ShrinksKeeps DEF SafeInv, FrameInv, TypeInv

-----------------------------------------------------------------------------
\* Outside pushing no timeframe is emptied.
LEMMA NotEmptied ==
  ASSUME EmptyLevel, pc \notin {"push", "done"}, emptied' = emptied
  PROVE  EmptyLevel' /\ InvariantCertificate'
BY DEF EmptyLevel, InvariantCertificate

\* Outputs that do not fail in the last timeframe still do not when it shrinks.
LEMMA OutputsKept ==
  ASSUME TypeOK, OutputsHold, pc \in {"output", "add"} \cup Solving \cup DownLocations,
         iFrame' = iFrame,
         \A k \in Frames : F(k)' \subseteq F(k), LiveOuts' \subseteq LiveOuts,
         \A o \in LiveOuts' : o < iOutCur' => o < iOutCur \/ Excludes(iFrame, o)
  PROVE  OutputsHold'
<1>1. iFrame \in Frames
  BY DEF Frames, TypeOK
<1>2. ASSUME NEW o \in LiveOuts', o < iOutCur', NEW s \in F(iFrame)', NEW i \in Ins
      PROVE  <<s, i>> \notin Fails[o]
  <2>1. F(iFrame)' \subseteq F(iFrame)
    <3>1. PICK n \in Frames : n = iFrame
      BY <1>1
    <3>2. F(n)' \subseteq F(n)
      OBVIOUS
    <3> QED
      BY <3>1, <3>2 DEF F, ClausesFrom
  <2> QED
    BY <1>2, <2>1 DEF OutputsHold, Excludes
<1>3. \A o \in LiveOuts' : o < iOutCur' => Excludes(iFrame, o)'
  BY <1>2 DEF Excludes
<1> QED
  BY <1>3 DEF OutputsHold

\* The cube being generalized stays inductive when timeframes shrink.
LEMMA CubeKept ==
  ASSUME TypeInv, CubeInductive, pc \in Generalizing, UNCHANGED <<iFrame, pThis, pCubeMin, kCur>>,
         \A k \in Frames : F(k)' \subseteq F(k)
  PROVE  CubeInductive'
<1>1. \A j \in BeforeThis .. kCur - 1 : j \in Frames
  <2>1. kCur \in pThis.frame .. iFrame /\ pThis.frame \in 1 .. iFrame /\ iFrame \in Nat
    BY DEF Generalizing, TypeInv, TypeOK, Located
  <2> QED
    BY <2>1 DEF BeforeThis, Frames
<1> QED
  BY <1>1 DEF CubeInductive, Blocked, BeforeThis

\* The invariant holds when the engine starts.
LEMMA SafeInit == Init => SafeInv
<1> SUFFICES ASSUME Init PROVE SafeInv
  OBVIOUS
<1>1. Frames = {0} /\ ClausesFrom(0) = {} /\ F(0) = {InitState}
  <2>1. Frames = {0} /\ ClausesFrom(0) = {} /\ Assumed(0) = {}
    BY DEF Init, Frames, ClausesFrom, Assumed, Generalizing, DownLocations
  <2> QED
    BY <2>1 DEF F, States, InitState
<1>2. FrameInv
  BY <1>1 DEF Init, FrameInv, FramesOverApproximate, SolversSound, ClosedFramesSafe, LastFrameOpen
<1>3. OutputsHold
  BY DEF Init, OutputsHold, Outs, LiveOuts
<1>4. CubeInductive /\ DownInv /\ EmptyLevel /\ InvariantCertificate
  BY DEF Init, CubeInductive, DownInv, Generalizing, DownLocations, EmptyLevel, InvariantCertificate
<1>5. Answers
  BY DEF Init, Answers, Solving, DownLocations
<1> QED
  BY <1>2, <1>3, <1>4, <1>5 DEF SafeInv

\* The loop over the outputs preserves the invariant,
LEMMA SafeOutputs ==
  ASSUME TypeInv, SafeInv, SoundFlags, Outputs
  PROVE  SafeInv'
<1> USE DEF TypeInv, SafeInv, solverVars, queueVars, cubeVars, pushVars, outVars
<1>0. /\ SameAssumed /\ pc \notin Generalizing /\ pc' \notin Generalizing
      /\ CubeInductive' /\ DownInv'
  <2>1. pc \notin Generalizing /\ pc' \notin Generalizing
    BY DEF Outputs, SkipOutput, TrivialOutput, StartOutput, PropertyHolds, PropertyFails, EndOutput,
      Return, Generalizing, DownLocations
  <2> QED
    BY <2>1, AssumedNothing DEF CubeInductive, DownInv, Generalizing, DownLocations
<1>1. CASE SkipOutput
  <2>1. /\ LiveOuts' = LiveOuts /\ UNCHANGED <<solverVars, iFrame, emptied>>
        /\ pc = "output" /\ pc' = "output"
    BY <1>1 DEF SkipOutput, LiveOuts
  <2>2. \A o \in LiveOuts : o < iOutCur' => o < iOutCur \/ Excludes(iFrame, o)
    BY <1>1, PdrAssumption DEF SkipOutput, Excludes, LiveOuts, Outs
  <2>3. FrameInv' /\ OutputsHold'
    BY <2>1, <2>2, <1>0, SolverKept, SameFrames, OutputsKept
  <2>4. EmptyLevel' /\ InvariantCertificate'
    BY <2>1, NotEmptied
  <2>5. Answers'
    BY <1>1, <2>1 DEF SkipOutput, Answers, Solving, DownLocations
  <2> QED
    BY <1>0, <2>3, <2>4, <2>5
<1>2. CASE TrivialOutput
  <2>1. PICK i \in Ins : RecordCex([j \in 1 .. iFrame + 1 |-> [cube |-> {}, in |-> i]])
    BY <1>2 DEF TrivialOutput
  <2>2. /\ iOutCur \in LiveOuts /\ iOutCur \in Outs
        /\ UNCHANGED <<solverVars, iFrame, emptied>> /\ pc = "output"
    BY <1>2 DEF TrivialOutput, LiveOuts
  <2>3. vCexes' = [vCexes EXCEPT ![iOutCur] = vCexes'[iOutCur]] /\ vCexes'[iOutCur] # <<>>
    <3>1. [j \in 1 .. iFrame + 1 |-> [cube |-> {}, in |-> i]] # <<>>
      <4> DEFINE trace == [j \in 1 .. iFrame + 1 |-> [cube |-> {}, in |-> i]]
      <4>1. 1 \in DOMAIN trace
        BY DEF TypeOK
      <4>2. DOMAIN <<>> = {}
        OBVIOUS
      <4> QED
        BY <4>1, <4>2
    <3> QED
      BY <2>1, <2>2, <3>1 DEF RecordCex, TypeOK
  <2>4. nFailOuts' # 0 \/ (~SolveAll /\ pc' = "done")
    BY <1>2, <2>1 DEF TrivialOutput, Return, RecordCex, TypeOK
  <2>5. \/ vOutMap' = vOutMap \/ vOutMap' = Settled(vOutMap)
        \/ vOutMap' = Disproved \/ vOutMap' = Settled(Disproved)
    BY <1>2 DEF TrivialOutput, Return
  <2>6. LiveOuts' \subseteq LiveOuts \ {iOutCur}
    BY <2>2, <2>3, <2>5 DEF LiveOuts, Settled, Disproved, TypeOK
  <2>7. pc' \in {"output", "done"} /\ (pc' = "output" => iOutCur' = iOutCur + 1)
    BY <1>2 DEF TrivialOutput, Return
  <2>8. FrameInv'
    BY <2>2, <2>6, <1>0, SolverKept
  <2>9. OutputsHold'
    <3>1. CASE pc' = "done"
      BY <3>1 DEF OutputsHold, Solving, DownLocations
    <3>2. CASE pc' = "output"
      <4>1. \A o \in LiveOuts' : o < iOutCur' => o < iOutCur
        <5>1. \A o \in LiveOuts' : o # iOutCur /\ o \in 0 .. NOuts - 1
          BY <2>6 DEF LiveOuts, Outs
        <5>2. iOutCur \in 0 .. NOuts /\ iOutCur' = iOutCur + 1 /\ NOuts \in Nat
          BY <2>7, <3>2, PdrAssumption, CircuitAssumption DEF TypeOK
        <5> QED
          BY <5>1, <5>2
      <4> QED
        BY <2>2, <2>6, <4>1, <1>0, SameFrames, OutputsKept
    <3> QED
      BY <2>7, <3>1, <3>2
  <2>10. EmptyLevel' /\ InvariantCertificate'
    BY <2>2, <2>7, NotEmptied
  <2>11. Answers'
    <3>1. SolveAll => \A o \in Outs : vCexes'[o] # <<>> => vOutMap'[o] = "failed"
      BY <1>2, <2>2, <2>3 DEF TrivialOutput, Return, Settled, Disproved, Answers, TypeOK
    <3>2. pc' # "done" => /\ result' = "running" /\ nDropOuts' = nDropOuts
                          /\ vOutMap' = Disproved
      BY <1>2 DEF TrivialOutput, Return, Answers
    <3> QED
      BY <2>2, <2>4, <2>7, <3>1, <3>2 DEF Answers, Disproved, TypeOK, Solving, DownLocations
  <2> QED
    BY <1>0, <2>8, <2>9, <2>10, <2>11
<1>3. CASE StartOutput
  <2>1. /\ LiveOuts' = LiveOuts /\ UNCHANGED <<solverVars, iFrame, emptied, outVars, iOutCur, result>>
        /\ pc = "output" /\ pc' = "property" /\ iOutCur \in LiveOuts
    BY <1>3 DEF StartOutput, LiveOuts
  <2>2. FrameInv' /\ OutputsHold'
    BY <2>1, <1>0, SolverKept, SameFrames, OutputsKept
  <2>3. EmptyLevel' /\ InvariantCertificate' /\ Answers'
    BY <2>1, NotEmptied DEF Answers
  <2> QED
    BY <1>0, <2>2, <2>3
<1>4. CASE PropertyHolds
  <2>1. PICK expired \in BOOLEAN : EndOutput(expired)
    BY <1>4, PdrAssumption DEF PropertyHolds
  <2>2. /\ iFrame \in Frames /\ FetchSolver(iFrame, 0) /\ UNCHANGED <<vClauses, iFrame, emptied, vCexes>>
        /\ pc = "property" /\ pc' = "output" /\ iOutCur' = iOutCur + 1
        /\ UNCHANGED <<nFailOuts, result>> /\ iOutCur \in LiveOuts /\ vCexes[iOutCur] = <<>>
    BY <1>4, <2>1 DEF PropertyHolds, EndOutput, FetchSolver, Frames, TypeOK, Solving, DownLocations, Answers, LiveOuts
  <2>3. LiveOuts' \subseteq LiveOuts
    BY <2>1, <2>2 DEF LiveOuts, EndOutput, TypeOK
  <2>4. FrameInv'
    BY <2>2, <2>3, <1>0, FetchKept
  <2>5. Excludes(iFrame, iOutCur)
    <3>1. \A s \in F(iFrame), i \in Ins : <<s, i>> \in Models(iFrame)
      BY <2>2, ModelsComplete
    <3>2. \A m \in Models(iFrame) : m \notin Fails[iOutCur]
      BY <1>4 DEF PropertyHolds, PropertyModels
    <3> QED
      BY <3>1, <3>2 DEF Excludes
  <2>6. OutputsHold'
    <3>1. \A o \in LiveOuts' : o < iOutCur' => o < iOutCur \/ Excludes(iFrame, o)
      BY <2>2, <2>5 DEF LiveOuts, Outs, TypeOK
    <3> QED
      BY <2>2, <2>3, <3>1, <1>0, SameFrames, OutputsKept DEF Solving, DownLocations
  <2>7. EmptyLevel' /\ InvariantCertificate'
    BY <2>2, NotEmptied
  <2>8. Answers'
    BY <2>1, <2>2 DEF Answers, EndOutput, TypeOK, Solving, DownLocations
  <2> QED
    BY <1>0, <2>4, <2>6, <2>7, <2>8
<1>5. CASE PropertyFails
  <2>1. /\ iFrame \in Frames /\ FetchSolver(iFrame, 0)
        /\ UNCHANGED <<vClauses, iFrame, emptied, outVars, iOutCur, result>>
        /\ pc = "property" /\ pc' = "block" /\ LiveOuts' = LiveOuts
    BY <1>5 DEF PropertyFails, FetchSolver, Frames, TypeOK, LiveOuts
  <2>2. FrameInv' /\ OutputsHold'
    BY <2>1, <1>0, FetchKept, SameFrames, OutputsKept DEF Solving, DownLocations
  <2>3. EmptyLevel' /\ InvariantCertificate' /\ Answers'
    BY <2>1, NotEmptied DEF Answers, Solving, DownLocations
  <2> QED
    BY <1>0, <2>2, <2>3
<1> QED
  BY <1>1, <1>2, <1>3, <1>4, <1>5 DEF Outputs

\* so does taking obligations from the queue,
LEMMA SafeBlock ==
  ASSUME TypeInv, SafeInv, SoundFlags, Block
  PROVE  SafeInv'
<1> USE DEF TypeInv, SafeInv, solverVars, queueVars, cubeVars, pushVars, outVars
<1>0. /\ SameAssumed /\ pc \notin Generalizing /\ pc' \notin Generalizing
      /\ CubeInductive' /\ DownInv'
  <2>1. pc \notin Generalizing /\ pc' \notin Generalizing
    BY DEF Block, FoundCex, CubeBlocked, Restart, PopBlocked, PopOpen, PopObligation, Pending, Return,
      Generalizing, DownLocations
  <2> QED
    BY <2>1, AssumedNothing DEF CubeInductive, DownInv, Generalizing, DownLocations
<1>1. CASE FoundCex
  <2>1. /\ pc = "block" /\ iOutCur \in LiveOuts /\ iOutCur \in Outs
        /\ UNCHANGED <<solverVars, iFrame, emptied>> /\ RecordCex(HeadOb.chain)
    BY <1>1 DEF FoundCex, Answers, Solving, DownLocations, LiveOuts
  <2>2. vCexes' = [vCexes EXCEPT ![iOutCur] = vCexes'[iOutCur]] /\ vCexes'[iOutCur] # <<>>
    <3>1. HeadOb.chain # <<>>
      BY <1>1, HeadType DEF FoundCex, Obligations
    <3> QED
      BY <2>1, <3>1 DEF RecordCex, TypeOK
  <2>3. nFailOuts' # 0 \/ (~SolveAll /\ pc' = "done")
    BY <1>1, <2>1 DEF FoundCex, Return, RecordCex, TypeOK
  <2>4. vOutMap' = Settled(vOutMap) \/ vOutMap' = Disproved \/ vOutMap' = Settled(Disproved)
    BY <1>1 DEF FoundCex, Return
  <2>5. LiveOuts' \subseteq LiveOuts \ {iOutCur}
    BY <2>1, <2>2, <2>4 DEF LiveOuts, Settled, Disproved, TypeOK
  <2>6. pc' \in {"output", "done"} /\ (pc' = "output" => iOutCur' = iOutCur + 1)
    BY <1>1 DEF FoundCex, Return
  <2>7. FrameInv'
    BY <2>1, <2>5, <1>0, SolverKept
  <2>8. OutputsHold'
    <3>1. CASE pc' = "done"
      BY <3>1 DEF OutputsHold, Solving, DownLocations
    <3>2. CASE pc' = "output"
      <4>1. \A o \in LiveOuts' : o < iOutCur' => o < iOutCur
        BY <2>1, <2>5, <2>6, <3>2 DEF LiveOuts, Outs, TypeOK
      <4> QED
        BY <2>1, <2>5, <4>1, <1>0, SameFrames, OutputsKept DEF Solving, DownLocations
    <3> QED
      BY <2>6, <3>1, <3>2
  <2>9. EmptyLevel' /\ InvariantCertificate'
    BY <2>1, <2>6, NotEmptied
  <2>10. Answers'
    <3>1. SolveAll => \A o \in Outs : vCexes'[o] # <<>> => vOutMap'[o] = "failed"
      BY <1>1, <2>1, <2>2 DEF FoundCex, Return, Settled, Disproved, Answers, TypeOK
    <3>2. pc' # "done" => /\ result' = "running" /\ nDropOuts' = nDropOuts
                          /\ vOutMap' = Disproved
      BY <1>1 DEF FoundCex, Return, Answers
    <3> QED
      BY <2>1, <2>3, <2>6, <3>1, <3>2 DEF Answers, Disproved, TypeOK, Solving, DownLocations
  <2> QED
    BY <1>0, <2>7, <2>8, <2>9, <2>10
<1>2. ASSUME UNCHANGED <<solverVars, iFrame, emptied, outVars, iOutCur, result>>,
             pc = "block", pc' \in {"block", "property"}
      PROVE  SafeInv'
  <2>1. LiveOuts' = LiveOuts
    BY <1>2 DEF LiveOuts
  <2>2. FrameInv' /\ OutputsHold'
    BY <1>2, <2>1, <1>0, SolverKept, SameFrames, OutputsKept DEF Solving, DownLocations
  <2>3. EmptyLevel' /\ InvariantCertificate' /\ Answers'
    BY <1>2, <2>1, NotEmptied DEF Answers, Solving, DownLocations
  <2> QED
    BY <1>0, <2>2, <2>3
<1>3. ASSUME FetchSolver(HeadOb.frame, 0), HeadOb.frame \in Frames,
             UNCHANGED <<iFrame, emptied, outVars, iOutCur, result>>,
             pc = "block", pc' \in {"block", "induct"}
      PROVE  SafeInv'
  <2>1. LiveOuts' = LiveOuts /\ UNCHANGED vClauses
    BY <1>3 DEF LiveOuts, FetchSolver
  <2>2. FrameInv' /\ OutputsHold'
    BY <1>3, <2>1, <1>0, FetchKept, SameFrames, OutputsKept DEF Solving, DownLocations
  <2>3. EmptyLevel' /\ InvariantCertificate' /\ Answers'
    BY <1>3, <2>1, NotEmptied DEF Answers, Solving, DownLocations
  <2> QED
    BY <1>0, <2>2, <2>3
<1>4. CASE CubeBlocked
  BY <1>2, <1>4 DEF CubeBlocked
<1>5. CASE Restart
  BY <1>2, <1>5 DEF Restart, Pending
<1>6. CASE PopBlocked
  <2>1. HeadOb.frame \in Frames
    BY <1>6 DEF PopBlocked, PopObligation, Pending, Frames, TypeOK
  <2> QED
    BY <1>0, <1>2, <1>3, <1>6, <2>1 DEF PopBlocked, PopObligation, Pending
<1>7. CASE PopOpen
  <2>1. HeadOb.frame \in Frames
    BY <1>7 DEF PopOpen, PopObligation, Pending, Frames, TypeOK
  <2> QED
    BY <1>0, <1>3, <1>7, <2>1 DEF PopOpen, PopObligation, Pending
<1> QED
  BY <1>1, <1>4, <1>5, <1>6, <1>7 DEF Block

\* (a cube that takes the place of the one being generalized only takes states
\* out of timeframes,)
LEMMA CubeReplaced ==
  ASSUME TypeInv, SafeInv, SoundFlags, pThis \in Obligations, pThis.frame \in 1 .. iFrame,
         UNCHANGED <<vClauses, iFrame, pThis>>, pc' \in Generalizing,
         pc = "induct" \/ (pc \in Generalizing /\ pCubeMin' \subseteq pCubeMin),
         pCubeMin' \in Cubes, ~IsInit(pCubeMin'), Blocked(BeforeThis, pCubeMin')
  PROVE  FramesOverApproximate' /\ \A k \in Frames : F(k)' \subseteq F(k)
<1>1. CASE ~Ctgs
  BY <1>1, AssumedWithoutCtgs, SameFrames DEF SafeInv, FrameInv, FramesOverApproximate
<1>2. CASE Ctgs
  <2> DEFINE c == pCubeMin'
             n == pThis.frame
  <2>1. \A k \in Frames : Assumed(k)' = IF k <= n THEN {c} ELSE {}
    BY <1>2 DEF Assumed
  <2>2. \A k \in Frames : Assumed(k) = {} \/ (k <= n /\ Assumed(k) = {pCubeMin} /\ c \subseteq pCubeMin)
    BY <1>2 DEF Assumed, Generalizing, DownLocations
  <2>3. \A k \in Frames : ClausesFrom(k)' = ClausesFrom(k)
    BY DEF ClausesFrom
  <2>4. Strengthens(c, n)
    <3> SUFFICES ASSUME NEW k \in Frames, NEW s \in States
                 PROVE  s \in F(k)' <=> s \in F(k) /\ (k <= n => ~Covers(c, s))
      <4>1. \A k \in Frames : F(k) \subseteq States /\ F(k)' \subseteq States
        BY DEF F
      <4> HIDE DEF c, n
      <4> QED
        BY <4>1 DEF Strengthens
    <3>1. s \in F(k)' <=> (k = 0 => s = InitState) /\ \A d \in ClausesFrom(k) \cup Assumed(k)' : ~Covers(d, s)
      BY <2>3 DEF F
    <3>2. s \in F(k) <=> (k = 0 => s = InitState) /\ \A d \in ClausesFrom(k) \cup Assumed(k) : ~Covers(d, s)
      BY DEF F
    <3>3. c \subseteq pCubeMin /\ Covers(pCubeMin, s) => Covers(c, s)
      BY CoversSubset
    <3> HIDE DEF c, n
    <3> QED
      BY <2>1, <2>2, <3>1, <3>2, <3>3
  <2>5. n - 1 = BeforeThis /\ c \in Cubes /\ n \in 1 .. iFrame
    BY DEF BeforeThis
  <2>6. FramesOverApproximate'
    <3> HIDE DEF c, n
    <3>1. ~IsInit(c) /\ Blocked(n - 1, c)
      BY <2>5 DEF c
    <3> QED
      BY <2>4, <2>5, <3>1, StrengthensKeeps DEF SafeInv
  <2>7. \A k \in Frames : F(k)' \subseteq F(k)
    <3> HIDE DEF c, n
    <3> QED
      BY <2>4 DEF Strengthens
  <2> QED
    BY <2>6, <2>7
<1> QED
  BY <1>1, <1>2

\* (a query in a timeframe before the last one)
Queries == \E k \in Frames \ {iFrame} : FetchSolver(k, 1)

LEMMA QueryKeeps ==
  ASSUME TypeInv, SafeInv, SoundFlags, Queries \/ UNCHANGED solverVars,
         UNCHANGED <<iFrame, emptied, outVars, iOutCur, result>>,
         pc \in Solving \cup DownLocations, pc' \in Solving \cup DownLocations \cup {"add", "block"},
         \A k \in Frames : F(k)' \subseteq F(k), FramesOverApproximate'
  PROVE  FrameInv' /\ OutputsHold' /\ EmptyLevel' /\ InvariantCertificate' /\ Answers'
<1>1. LiveOuts' = LiveOuts /\ UNCHANGED vClauses
  BY DEF LiveOuts, FetchSolver, Queries, solverVars, outVars
<1>2. FrameInv'
  <2>1. CASE Queries
    BY <1>1, <2>1, FetchShrinks DEF Queries, SafeInv, TypeInv
  <2>2. CASE UNCHANGED solverVars
    <3>1. Frames' = Frames
      BY DEF Frames
    <3>2. Shrinks
      BY <1>1, <2>2, <3>1 DEF Shrinks, SafeInv, FrameInv, SolversSound, LastFrameOpen, solverVars
    <3> QED
      BY <3>2, ShrinksKeeps DEF SafeInv, FrameInv, TypeInv
  <2> QED
    BY <2>1, <2>2
<1>3. OutputsHold'
  BY <1>1, OutputsKept DEF SafeInv, TypeInv
<1>4. EmptyLevel' /\ InvariantCertificate'
  BY NotEmptied DEF SafeInv, Solving, DownLocations
<1>5. Answers'
  BY <1>1 DEF Answers, SafeInv, Solving, DownLocations, outVars
<1> QED
  BY <1>2, <1>3, <1>4, <1>5

\* (the timeframe before the obligation's is not the last,)
LEMMA BeforeThisQuery ==
  ASSUME TypeInv, pc \in {"induct"} \cup Generalizing
  PROVE  /\ pThis \in Obligations /\ pThis.frame \in 1 .. iFrame /\ iFrame \in Nat
         /\ BeforeThis \in Frames \ {iFrame} /\ BeforeThis = pThis.frame - 1
<1>1. pThis \in Obligations /\ pThis.frame \in 1 .. iFrame /\ iFrame \in Nat
  BY DEF TypeInv, TypeOK, Located, Generalizing
<1> QED
  BY <1>1, BeforeThisType

\* (a step that keeps the cube)
LEMMA CubeStep ==
  ASSUME TypeInv, SafeInv, SoundFlags, Queries \/ UNCHANGED solverVars,
         UNCHANGED <<iFrame, emptied, outVars, iOutCur, result, pThis, pCubeMin>>,
         pc \in Generalizing \ {"add"}, pc' \in Generalizing
  PROVE  /\ FrameInv' /\ OutputsHold' /\ EmptyLevel' /\ InvariantCertificate' /\ Answers'
         /\ (\A k : F(k)' = F(k)) /\ (kCur' = kCur => CubeInductive')
<1>1. UNCHANGED vClauses
  BY DEF Queries, FetchSolver, solverVars
<1>2. Frames' = Frames /\ \A k : F(k)' = F(k)
  BY <1>1, AssumedCube, SameFrames
<1>3. FramesOverApproximate'
  BY <1>2 DEF SafeInv, FrameInv, FramesOverApproximate
<1>4. /\ pc \in Solving \cup DownLocations
      /\ pc' \in Solving \cup DownLocations \cup {"add", "block"}
  BY DEF Generalizing, Solving
<1>5. FrameInv' /\ OutputsHold' /\ EmptyLevel' /\ InvariantCertificate' /\ Answers'
  BY <1>2, <1>3, <1>4, QueryKeeps
<1>6. kCur' = kCur => CubeInductive'
  BY <1>2, CubeKept DEF SafeInv
<1> QED
  BY <1>2, <1>5, <1>6

\* (the invariant is preserved, and no state is put back into a timeframe)
Keeps == SafeInv' /\ \A k \in Frames : F(k)' \subseteq F(k)

\* (and one that replaces it)
LEMMA CubeReplacedStep ==
  ASSUME TypeInv, SafeInv, SoundFlags, FetchSolver(BeforeThis, 1), kCur' = pThis.frame,
         UNCHANGED <<iFrame, emptied, outVars, iOutCur, result, pThis>>,
         pc \in {"induct"} \cup (Generalizing \ {"add"}), pc' \in {"general", "forward"},
         pc \in Generalizing => pCubeMin' \subseteq pCubeMin,
         pCubeMin' \in Cubes, ~IsInit(pCubeMin'), Blocked(BeforeThis, pCubeMin')
  PROVE  Keeps
<1>1. /\ pThis \in Obligations /\ pThis.frame \in 1 .. iFrame /\ iFrame \in Nat
      /\ BeforeThis \in Frames \ {iFrame} /\ BeforeThis = pThis.frame - 1
  BY BeforeThisQuery
<1>2. UNCHANGED vClauses /\ Queries /\ pc' \in Generalizing
  BY <1>1 DEF FetchSolver, Queries, Generalizing
<1>3. FramesOverApproximate' /\ \A k \in Frames : F(k)' \subseteq F(k)
  BY <1>1, <1>2, CubeReplaced
<1>4. /\ pc \in Solving \cup DownLocations
      /\ pc' \in Solving \cup DownLocations \cup {"add", "block"}
  BY DEF Generalizing, Solving
<1>5. FrameInv' /\ OutputsHold' /\ EmptyLevel' /\ InvariantCertificate' /\ Answers'
  BY <1>2, <1>3, <1>4, QueryKeeps
<1>6. CubeInductive'
  <2>1. BeforeThis' = BeforeThis /\ \A j \in BeforeThis' .. kCur' - 1 : j = BeforeThis
    BY <1>1 DEF BeforeThis
  <2> QED
    BY <1>1, <1>3, <2>1 DEF CubeInductive, Blocked
<1>7. DownInv'
  BY DEF DownInv, DownLocations
<1> QED
  BY <1>3, <1>5, <1>6, <1>7 DEF SafeInv, Keeps

\* generalizing and adding a clause,
LEMMA SafeGeneralize ==
  ASSUME TypeInv, SafeInv, SoundFlags, Generalize, ~Down
  PROVE  Keeps
<1> USE DEF Keeps, TypeInv, SafeInv, queueVars, cubeVars, pushVars, outVars, downVars
<1>1. CASE InductFails
  <2>1. BeforeThis \in Frames \ {iFrame}
    BY <1>1, BeforeThisQuery DEF InductFails
  <2>2. /\ Queries /\ SameAssumed /\ UNCHANGED vClauses /\ pc = "induct" /\ pc' = "block"
        /\ UNCHANGED <<iFrame, emptied, outVars, iOutCur, result>>
    BY <1>1, <2>1, AssumedNothing DEF InductFails, Queries, FetchSolver, Generalizing, DownLocations
  <2>3. \A k : F(k)' = F(k)
    BY <2>2, SameFrames
  <2>4. FramesOverApproximate'
    BY <2>2, <2>3, SameFrames DEF FrameInv, FramesOverApproximate
  <2>5. CubeInductive' /\ DownInv'
    BY <2>2 DEF CubeInductive, DownInv, Generalizing, DownLocations
  <2> QED
    BY <2>2, <2>3, <2>4, <2>5, QueryKeeps DEF Solving
<1>2. CASE InductHolds
  <2>1. pThis \in Obligations /\ BeforeThis \in Frames
    BY <1>2, BeforeThisQuery DEF InductHolds
  <2>2. Cube(pThis) \in Cubes
    BY <2>1, CubeType
  <2>3. pCubeMin' \in Cubes /\ Blocked(BeforeThis, pCubeMin') /\ ~IsInit(pCubeMin')
    BY <1>2, <2>1, <2>2, ReduceClauseBlocked DEF InductHolds, Cubes
  <2> QED
    BY <1>2, <2>3, CubeReplacedStep DEF InductHolds, Generalizing, DownLocations
<1>3. ASSUME NEW l \in Lits, DropLiteral(l)
      PROVE  Keeps
  <2>1. BeforeThis \in Frames /\ pc = "general" /\ pc \in Generalizing
    BY <1>3, BeforeThisQuery DEF DropLiteral, Generalizing
  <2>2. /\ pCubeMin' \in Cubes /\ pCubeMin' \subseteq pCubeMin
        /\ ~IsInit(pCubeMin') /\ Blocked(BeforeThis, pCubeMin')
    BY <1>3, <2>1, NoModelsBlocked DEF DropLiteral, TypeOK, Cubes
  <2>3. kCur' = pThis.frame
    BY <1>3, <2>1 DEF DropLiteral, Located
  <2> QED
    BY <1>3, <2>1, <2>2, <2>3, CubeReplacedStep DEF DropLiteral
<1>4. ASSUME NEW l \in Lits, KeepLiteral(l)
      PROVE  Keeps
  <2>1. pc = "general" /\ pc' = "general" /\ BeforeThis \in Frames \ {iFrame}
    BY <1>4, BeforeThisQuery DEF KeepLiteral, Generalizing
  <2>2. Queries \/ UNCHANGED solverVars
    BY <1>4, <2>1 DEF KeepLiteral, Queries
  <2>3. DownInv'
    BY <2>1 DEF DownInv, DownLocations
  <2> QED
    BY <1>4, <2>1, <2>2, <2>3, CubeStep DEF KeepLiteral, Generalizing
<1>5. CASE Generalized
  <2>1. pc = "general" /\ pc' = "forward" /\ DownInv'
    BY <1>5 DEF Generalized, DownInv, DownLocations
  <2> QED
    BY <1>5, <2>1, CubeStep DEF Generalized, Generalizing
<1>6. ASSUME NEW l \in Lits, DownStarts(l)
      PROVE  Keeps
  <2>1. pc = "general" /\ pc' = "ctg" /\ BeforeThis \in Frames \ {iFrame}
    BY <1>6, BeforeThisQuery DEF DownStarts, Generalizing
  <2>2. Queries
    BY <1>6, <2>1 DEF DownStarts, Queries
  <2>3. DownInv'
    BY <1>6, <2>1 DEF DownInv, DownStarts, DownLocations
  <2> QED
    BY <1>6, <2>1, <2>2, <2>3, CubeStep DEF DownStarts, Generalizing, DownLocations
<1>7. CASE ForwardHolds
  <2>1. /\ kCur \in Frames \ {iFrame} /\ kCur \in Nat /\ pc = "forward" /\ pc' = "forward"
        /\ pc \in Generalizing
    BY <1>7 DEF ForwardHolds, Frames, TypeOK, Located, Obligations, Generalizing
  <2>2. Blocked(kCur, pCubeMin)
    BY <1>7, <2>1, NoModelsBlocked DEF ForwardHolds
  <2>3. Queries
    BY <1>7, <2>1 DEF ForwardHolds, Queries
  <2>4. /\ FrameInv' /\ OutputsHold' /\ EmptyLevel' /\ InvariantCertificate' /\ Answers'
        /\ \A j : F(j)' = F(j)
    BY <1>7, <2>1, <2>3, CubeStep DEF ForwardHolds, Generalizing
  <2>5. CubeInductive'
    <3>1. /\ UNCHANGED <<pThis, pCubeMin>> /\ kCur' = kCur + 1 /\ BeforeThis' = BeforeThis
          /\ ~IsInit(pCubeMin) /\ \A j \in BeforeThis .. kCur - 1 : Blocked(j, pCubeMin)
      BY <1>7, <2>1 DEF ForwardHolds, BeforeThis, CubeInductive
    <3>2. ASSUME NEW j \in BeforeThis .. (kCur + 1) - 1
          PROVE  Blocked(j, pCubeMin)
      BY <2>1, <2>2, <3>1
    <3> QED
      BY <2>4, <3>1, <3>2 DEF CubeInductive, Blocked
  <2>6. DownInv'
    BY <2>1 DEF DownInv, DownLocations
  <2> QED
    BY <2>4, <2>5, <2>6
<1>8. CASE ForwardStops
  <2>1. pc = "forward" /\ pc' = "add" /\ (kCur \in Frames \/ ~(kCur < iFrame)) /\ iFrame \in Nat /\ kCur \in Nat
    BY <1>8 DEF ForwardStops, Frames, TypeOK, Located, Obligations
  <2>2. Queries \/ UNCHANGED solverVars
    BY <1>8, <2>1 DEF ForwardStops, Queries
  <2>3. DownInv'
    BY <2>1 DEF DownInv, DownLocations
  <2> QED
    BY <1>8, <2>1, <2>2, <2>3, CubeStep DEF ForwardStops, Generalizing
<1>9. CASE AddClause
  <2>1. /\ UNCHANGED <<iFrame, emptied, outVars, iOutCur, result>> /\ LiveOuts' = LiveOuts
        /\ pc = "add" /\ pc' = "block"
    BY <1>9 DEF AddClause, LiveOuts
  <2>2. FrameInv' /\ OutputsHold' /\ \A k \in Frames : F(k)' \subseteq F(k)
    BY <1>9, <2>1, AddClauseKeeps, OutputsKept
  <2>3. /\ EmptyLevel' /\ InvariantCertificate' /\ CubeInductive' /\ DownInv'
        /\ Answers'
    BY <2>1, NotEmptied DEF CubeInductive, DownInv, Generalizing, DownLocations, Answers, Solving
  <2> QED
    BY <2>2, <2>3
<1> QED
  BY <1>1, <1>2, <1>3, <1>4, <1>5, <1>6, <1>7, <1>8, <1>9 DEF Generalize

\* (a step of `down' that keeps the cube)
LEMMA DownStep ==
  ASSUME TypeInv, SafeInv, SoundFlags, Queries \/ UNCHANGED solverVars,
         UNCHANGED <<iFrame, emptied, outVars, iOutCur, result, pThis, pCubeMin, kCur>>,
         pc \in DownLocations, pc' \in DownLocations \cup {"general"},
         pc' \in DownLocations => down'.cube \subseteq pCubeMin /\ ~IsInit(down'.cube),
         pc' \in {"ctgPush", "ctgDrop"} =>
           Ctgs /\ ~IsInit(ctg'.cube) /\ Blocked(ctg'.l - 1, ctg'.cube)
  PROVE  Keeps
<1>1. pc \in Generalizing \ {"add"} /\ pc' \in Generalizing
  BY DEF Generalizing, DownLocations
<1>2. /\ FrameInv' /\ OutputsHold' /\ EmptyLevel' /\ InvariantCertificate' /\ Answers'
      /\ (\A k : F(k)' = F(k)) /\ CubeInductive'
  BY <1>1, CubeStep
<1>3. DownInv'
  <2>1. ASSUME pc' \in {"ctgPush", "ctgDrop"}
        PROVE  Blocked(ctg.l - 1, ctg.cube)'
    <3>1. F(ctg.l - 1)' = F(ctg'.l - 1)
      <4>1. PICK n : n = ctg'.l - 1
        OBVIOUS
      <4>2. F(n)' = F(n)
        BY <1>2
      <4> QED
        BY <4>1, <4>2
    <3> QED
      BY <2>1, <3>1 DEF Blocked
  <2> QED
    BY <2>1 DEF DownInv
<1> QED
  BY <1>2, <1>3 DEF SafeInv, Keeps

\* so do the steps of `down',
LEMMA SafeDown ==
  ASSUME TypeInv, SafeInv, SoundFlags, Down
  PROVE  Keeps
<1> USE DEF Keeps, TypeInv, SafeInv, queueVars, cubeVars, pushVars, outVars, downVars
<1>0. /\ pc \in DownLocations /\ pc \in Generalizing
      /\ BeforeThis \in Frames \ {iFrame} /\ BeforeThis \in Nat /\ iFrame \in Nat
      /\ down.cube \subseteq pCubeMin /\ ~IsInit(down.cube)
      /\ down \in DownCalls
      /\ ctg \in CtgCubes
  <2>1. pc \in DownLocations
    BY DEF Down, CtgAssume, CtgHolds, CtgStays, CtgPushed, CtgStops, CtgDrop, CtgKeep, CtgAdd,
      RetryHolds, RetryFails, JoinFails, JoinHolds, JoinAgain, DownLocations
  <2>2. pc \in Generalizing
    BY <2>1 DEF Generalizing
  <2> QED
    BY <2>1, <2>2, BeforeThisQuery, SMTT(20) DEF DownInv, TypeOK, Frames
<1>1. FetchSolver(BeforeThis, 1) => Queries
  BY <1>0 DEF Queries
<1>2. ASSUME TriesCtg
      PROVE  BeforeThis - 1 \in Frames \ {iFrame} /\ Ctgs
  BY <1>0, <1>2 DEF TriesCtg, Frames
<1>3. ASSUME pc \in {"ctgPush", "ctgDrop"}
      PROVE  /\ ctg.l - 1 \in Frames \ {iFrame} /\ ctg.l \in 2 .. iFrame /\ Ctgs
             /\ ~IsInit(ctg.cube) /\ Blocked(ctg.l - 1, ctg.cube)
  BY <1>0, <1>3 DEF Located, DownInv, Frames
<1>4. CASE CtgAssume
  <2>1. /\ pc = "ctg" /\ pc' = "ctg" /\ Ctgs /\ \A k : Assumed(k)' = Assumed(k)
        /\ UNCHANGED <<iFrame, vClauses, propOut, vActVars, emptied, outVars, iOutCur, result>>
        /\ UNCHANGED <<pThis, pCubeMin, kCur, down, ctg>>
    BY <1>0, <1>4, AssumedCube DEF CtgAssume, TriesCtg, SameAssumed, Generalizing, DownLocations
  <2>2. Frames' = Frames /\ (\A k : F(k)' = F(k)) /\ LiveOuts' = LiveOuts
    BY <2>1, SameFrames DEF SameAssumed, LiveOuts
  <2>3. \A k \in Frames : \A s \in F(k)' : \A d \in solver'[k] : ~Covers(d, s)
    <3> SUFFICES ASSUME NEW k \in Frames, NEW s \in F(k), NEW d \in solver'[k]
                 PROVE  ~Covers(d, s)
      BY <2>2
    <3>1. CASE d \in solver[k]
      BY <3>1 DEF FrameInv, SolversSound
    <3>2. CASE d \notin solver[k]
      <4>1. d = pCubeMin /\ k <= BeforeThis
        BY <1>4, <3>2 DEF CtgAssume
      <4>2. k <= pThis.frame
        BY <1>0, <4>1, BeforeThisQuery DEF Frames
      <4>3. d \in Assumed(k)
        BY <1>0, <2>1, <4>1, <4>2 DEF Assumed
      <4> QED
        BY <4>3 DEF F
    <3> QED
      BY <3>1, <3>2
  <2>4. FrameInv'
    <3>1. Shrinks
      BY <2>1, <2>2, <2>3 DEF Shrinks, FrameInv, LastFrameOpen
    <3>2. FramesOverApproximate'
      BY <2>1, <2>2 DEF FrameInv, FramesOverApproximate
    <3> QED
      BY <3>1, <3>2, ShrinksKeeps DEF FrameInv
  <2>5. OutputsHold' /\ CubeInductive'
    BY <1>0, <2>1, <2>2, OutputsKept, CubeKept
  <2>6. EmptyLevel' /\ InvariantCertificate' /\ Answers' /\ DownInv'
    BY <1>0, <2>1, <2>2, NotEmptied DEF Answers, DownInv, Solving, DownLocations
  <2> QED
    BY <2>2, <2>4, <2>5, <2>6
<1>5. CASE CtgHolds
  <2>1. Queries
    BY <1>2, <1>5 DEF CtgHolds, Queries
  <2>2. ~IsInit(ctg'.cube) /\ Blocked(ctg'.l - 1, ctg'.cube)
    <3>1. PICK c \in ReduceClause(BeforeThis - 1, down.pred) :
            ctg' = [cube |-> c, l |-> BeforeThis, tried |-> {}]
      BY <1>5 DEF CtgHolds
    <3>2. ~IsInit(c) /\ Blocked(BeforeThis - 1, c)
      BY <1>0, <1>2, <1>5, ReduceClauseBlocked DEF CtgHolds, DownCalls, CtgCubes
    <3> QED
      BY <3>1, <3>2
  <2>3. pc' = "ctgPush" /\ down'.cube = down.cube
    BY <1>0, <1>5 DEF CtgHolds
  <2> QED
    BY <1>0, <1>2, <1>5, <2>1, <2>2, <2>3, DownStep DEF CtgHolds, DownLocations
<1>6. CASE CtgStays
  <2>1. Queries \/ UNCHANGED solverVars
    BY <1>2, <1>6 DEF CtgStays, Queries
  <2> QED
    BY <1>0, <1>6, <2>1, DownStep DEF CtgStays, DownLocations
<1>7. CASE CtgPushed
  <2>1. ctg.l \in Frames \ {iFrame} /\ ctg.l \in Nat
    BY <1>0, <1>3, <1>7 DEF CtgPushed, Frames
  <2>2. pc = "ctgPush" /\ pc' = "ctgPush" /\ UNCHANGED down /\ Queries
    BY <1>7, <2>1 DEF CtgPushed, Queries
  <2>3. Blocked(ctg.l, ctg.cube)
    BY <1>3, <1>7, <2>1, NoModelsBlocked DEF CtgPushed, SoundFlags
  <2>4. ctg'.cube = ctg.cube /\ ctg'.l - 1 = ctg.l
    BY <1>0, <1>7, <2>1 DEF CtgPushed
  <2> QED
    BY <1>0, <1>3, <1>7, <2>2, <2>3, <2>4, DownStep DEF CtgPushed, DownLocations
<1>8. CASE CtgStops
  <2>1. ctg.l < iFrame => ctg.l \in Frames \ {iFrame}
    BY <1>0, <1>3, <1>8 DEF CtgStops, Frames
  <2>2. Queries \/ UNCHANGED solverVars
    BY <1>8, <2>1 DEF CtgStops, Queries
  <2> QED
    BY <1>0, <1>3, <1>8, <2>2, DownStep DEF CtgStops, DownLocations
<1>9. ASSUME NEW x \in Lits, CtgDrop(x)
      PROVE  Keeps
  <2>1. pc = "ctgDrop" /\ pc' = "ctgDrop" /\ UNCHANGED down /\ Queries
    BY <1>3, <1>9 DEF CtgDrop, Queries
  <2>2. ctg' = [ctg EXCEPT !.cube = ctg.cube \ {x}] /\ ~IsInit(ctg.cube \ {x})
        /\ Blocked(ctg.l - 1, ctg.cube \ {x})
    BY <1>3, <1>9, NoModelsBlocked DEF CtgDrop
  <2>3. ~IsInit(ctg'.cube) /\ Blocked(ctg'.l - 1, ctg'.cube)
    BY <1>0, <2>2
  <2> QED
    BY <1>0, <1>3, <1>9, <2>1, <2>3, DownStep DEF CtgDrop, DownLocations
<1>10. ASSUME NEW x \in Lits, CtgKeep(x)
       PROVE  Keeps
  <2>1. pc = "ctgDrop" /\ pc' = "ctgDrop" /\ UNCHANGED down /\ (Queries \/ UNCHANGED solverVars)
    BY <1>3, <1>10 DEF CtgKeep, Queries
  <2>2. ctg'.cube = ctg.cube /\ ctg'.l = ctg.l
    BY <1>0, <1>10 DEF CtgKeep
  <2> QED
    BY <1>0, <1>3, <1>10, <2>1, <2>2, DownStep DEF CtgKeep, DownLocations
<1>11. CASE CtgAdd
  <2>1. /\ pc = "ctgDrop" /\ pc' = "retry" /\ SameAssumed /\ LiveOuts' = LiveOuts
        /\ UNCHANGED <<iFrame, propOut, vActVars, emptied, outVars, iOutCur, result>>
        /\ UNCHANGED <<pThis, pCubeMin, kCur>> /\ down'.cube = down.cube
        /\ vClauses' = [vClauses EXCEPT ![ctg.l] = @ \cup {ctg.cube}]
    BY <1>0, <1>11, AssumedCube DEF CtgAdd, LiveOuts, Generalizing, DownLocations,
      DownCalls
  <2>2. /\ ctg.l \in 1 .. iFrame /\ ctg.cube \in Cubes /\ Frames' = Frames
        /\ ~IsInit(ctg.cube) /\ Blocked(ctg.l - 1, ctg.cube)
    BY <1>0, <1>3, <2>1 DEF Frames, DownCalls, CtgCubes
  <2>3. Strengthens(ctg.cube, ctg.l)
    <3>1. \A k \in Frames : ClausesFrom(k)' = IF k <= ctg.l THEN ClausesFrom(k) \cup {ctg.cube}
                                                            ELSE ClausesFrom(k)
      BY <1>0, <2>1, <2>2, ClauseAdded
    <3> QED
      BY <2>1, <2>2, <3>1 DEF Strengthens, F, SameAssumed
  <2>4. Shrinks
    <3>1. \A k \in Frames : F(k)' \subseteq F(k)
      BY <2>3 DEF Strengthens
    <3>2. \A k \in Frames : \A s \in F(k)' : \A d \in solver'[k] : ~Covers(d, s)
      BY <1>11, <2>2, <2>3 DEF Strengthens, CtgAdd, FrameInv, SolversSound, Frames
    <3> QED
      BY <2>1, <3>1, <3>2 DEF Shrinks, FrameInv, LastFrameOpen
  <2>5. FramesOverApproximate'
    BY <1>0, <2>1, <2>2, <2>3, StrengthensKeeps
  <2>6. FrameInv' /\ \A k \in Frames : F(k)' \subseteq F(k)
    BY <2>4, <2>5, ShrinksKeeps DEF FrameInv, Shrinks
  <2>7. OutputsHold' /\ CubeInductive'
    BY <1>0, <2>1, <2>6, OutputsKept, CubeKept
  <2>8. EmptyLevel' /\ InvariantCertificate' /\ Answers' /\ DownInv'
    BY <1>0, <2>1, NotEmptied DEF Answers, DownInv, Solving, DownLocations
  <2> QED
    BY <2>6, <2>7, <2>8
<1>12. ASSUME NEW c \in Cubes, DownHolds(c), c \subseteq pCubeMin, ~IsInit(c), kCur' = kCur,
              pc \in {"retry", "join"}
       PROVE  Keeps
  <2>1. Blocked(BeforeThis, c)
    BY <1>0, <1>12, NoModelsBlocked DEF DownHolds
  <2>2. kCur' = pThis.frame
    BY <1>0, <1>12 DEF Located
  <2> QED
    BY <1>0, <1>12, <2>1, <2>2, CubeReplacedStep DEF DownHolds
<1>13. CASE RetryHolds
  BY <1>0, <1>12, <1>13 DEF RetryHolds, DownHolds, DownCalls, CtgCubes
<1>14. CASE RetryFails
  <2>1. pc' = "ctg" /\ down'.cube = down.cube
    BY <1>0, <1>14 DEF RetryFails
  <2> QED
    BY <1>0, <1>1, <1>14, <2>1, DownStep DEF RetryFails, DownLocations
<1>15. CASE JoinFails
  <2>1. pc' = "general" /\ (Queries \/ UNCHANGED solverVars)
    BY <1>1, <1>15 DEF JoinFails
  <2> QED
    BY <1>0, <1>15, <2>1, DownStep DEF JoinFails, DownLocations
<1>16. CASE JoinHolds
  <2>1. Joined \in Cubes /\ Joined \subseteq pCubeMin
    BY <1>0 DEF Joined, Cubes, DownCalls, CtgCubes
  <2> QED
    BY <1>0, <1>12, <1>16, <2>1 DEF JoinHolds, DownHolds
<1>17. CASE JoinAgain
  <2>1. pc' = "ctg" /\ down'.cube = Joined /\ ~IsInit(Joined) /\ Joined \subseteq pCubeMin
    BY <1>0, <1>17 DEF JoinAgain, Joined
  <2> QED
    BY <1>0, <1>1, <1>17, <2>1, DownStep DEF JoinAgain, DownLocations
<1> QED
  BY <1>4, <1>5, <1>6, <1>7, <1>8, <1>9, <1>10, <1>11, <1>13, <1>14, <1>15, <1>16, <1>17 DEF Down

\* (a new timeframe does not change the ones before)
LEMMA CloseFrameKeeps ==
  ASSUME TypeInv, CloseFrame
  PROVE  \A k \in Frames : F(k)' = F(k) /\ solver'[k] = solver[k]
<1>1. iFrame' = iFrame + 1 /\ iFrame \in Nat
  BY DEF CloseFrame, TypeInv, TypeOK
<1>2. ASSUME NEW k \in Frames
      PROVE  ClausesFrom(k)' = ClausesFrom(k) /\ solver'[k] = solver[k]
  <2>1. k \in 0 .. iFrame /\ k .. iFrame + 1 = (k .. iFrame) \cup {iFrame + 1}
    BY <1>1 DEF Frames
  <2>2. \A j \in k .. iFrame : vClauses'[j] = vClauses[j]
    BY <1>1, <2>1 DEF CloseFrame, Frames
  <2>3. vClauses'[iFrame + 1] = {} /\ solver'[k] = solver[k]
    BY <1>1, <2>1 DEF CloseFrame, Frames
  <2>4. ClausesFrom(k)' = UNION {vClauses'[j] : j \in k .. iFrame + 1}
    BY <1>1 DEF ClausesFrom
  <2> QED
    BY <2>1, <2>2, <2>3, <2>4 DEF ClausesFrom
<1>3. \A k : Assumed(k) = {} /\ Assumed(k)' = {}
  BY DEF CloseFrame, Assumed, Generalizing, DownLocations
<1> QED
  BY <1>1, <1>2, <1>3 DEF F, Frames

\* closing a timeframe and pushing clauses,
LEMMA SafePushClauses ==
  ASSUME TypeInv, SafeInv, SoundFlags, PushClauses
  PROVE  SafeInv'
<1> USE DEF TypeInv, SafeInv, solverVars, queueVars, cubeVars, pushVars, outVars
<1>0. SameAssumed /\ CubeInductive' /\ DownInv' /\ \A k : Assumed(k)' = {}
  <2>1. pc \notin Generalizing /\ pc' \notin Generalizing
    BY DEF PushClauses, CloseFrame, PushFails, PushHolds, PushNextFrame, Proved, OpenFrame, AllPushed,
      Return, Generalizing, DownLocations
  <2> QED
    BY <2>1, AssumedNothing DEF CubeInductive, DownInv, Assumed, Generalizing, DownLocations
<1>1. CASE CloseFrame
  <2>1. /\ iFrame' = iFrame + 1 /\ iFrame \in Nat /\ Frames' = Frames \cup {iFrame + 1}
        /\ LiveOuts' = LiveOuts /\ pc = "output" /\ pc' = "push" /\ emptied' = FALSE
        /\ iOutCur = NOuts /\ iFrame \in Frames
    BY <1>1 DEF CloseFrame, Frames, LiveOuts, TypeOK
  <2>0. PICK n \in Nat : n = iFrame + 1
    BY <2>1
  <2>2. \A k \in Frames : F(k)' = F(k) /\ solver'[k] = solver[k]
    BY <1>1, CloseFrameKeeps
  <2>3. F(n)' = States /\ solver'[n] = {} /\ propOut'[n] = {} /\ vActVars'[n] = 0
    <3>1. vClauses'[n] = {} /\ solver'[n] = {} /\ propOut'[n] = {} /\ vActVars'[n] = 0
      BY <1>1, <2>1, <2>0 DEF CloseFrame, Frames
    <3>2. ClausesFrom(n)' = {}
      BY <2>1, <2>0, <3>1 DEF ClausesFrom
    <3> QED
      BY <1>0, <2>1, <2>0, <3>1, <3>2 DEF F
  <2>4. \A k \in Frames : propOut'[k] = IF k = iFrame THEN PropertyOutput ELSE propOut[k]
    <3>1. \A k \in 0 .. iFrame : k \in 0 .. iFrame + 1 /\ (k # iFrame => k < iFrame)
      BY <2>1
    <3>2. propOut[iFrame] = {}
      BY DEF FrameInv, LastFrameOpen
    <3>3. ASSUME NEW k \in 0 .. iFrame
          PROVE  propOut'[k] = IF k < iFrame THEN propOut[k] ELSE propOut[k] \cup PropertyOutput
      BY <1>1, <2>1, <3>1 DEF CloseFrame
    <3>4. ASSUME NEW k \in 0 .. iFrame
          PROVE  propOut'[k] = IF k = iFrame THEN PropertyOutput ELSE propOut[k]
      <4>1. CASE k = iFrame
        BY <2>1, <3>2, <3>3, <4>1, SMTT(20)
      <4>2. CASE k # iFrame
        BY <3>1, <3>3, <4>2
      <4> QED
        BY <4>1, <4>2
    <3> QED
      BY <3>4 DEF Frames
  <2>5. FramesOverApproximate'
    <3>1. \A k \in Frames' : InitState \in F(k)'
      BY <2>1, <2>0, <2>2, <2>3 DEF FrameInv, FramesOverApproximate, InitState, States
    <3>2. ASSUME NEW k \in Frames' \ {iFrame'}, NEW s \in F(k)', NEW i \in Ins
          PROVE  Trans[<<s, i>>] \in F(k + 1)'
      <4>1. k \in Frames /\ s \in F(k) /\ s \in States
        BY <2>1, <2>2 DEF F
      <4>2. CASE k = iFrame
        <5>1. F(k + 1)' = States
          BY <2>0, <2>3, <4>2
        <5> QED
          BY <4>1, <5>1, CircuitAssumption
      <4>3. CASE k # iFrame
        <5>1. k + 1 \in Frames
          BY <2>1, <4>1, <4>3 DEF Frames
        <5> QED
          BY <2>2, <4>1, <4>3, <5>1 DEF FrameInv, FramesOverApproximate
      <4> QED
        BY <4>2, <4>3
    <3> QED
      BY <3>1, <3>2 DEF FramesOverApproximate
  <2>6. SolversSound'
    BY <2>1, <2>0, <2>2, <2>3 DEF SolversSound, FrameInv
  <2>7. ClosedFramesSafe'
    <3> SUFFICES ASSUME NEW k \in Frames' \ {iFrame'}, NEW o \in (LiveOuts \cup propOut[k])'
                 PROVE  Excludes(k, o)'
      BY DEF ClosedFramesSafe
    <3>a. k \in Frames /\ o \in LiveOuts \cup propOut'[k]
      BY <2>1
    <3>b. F(k)' = F(k)
      BY <2>2, <3>a
    <3> SUFFICES \A s \in F(k), i \in Ins : <<s, i>> \notin Fails[o]
      BY <3>b DEF Excludes
    <3>1. CASE k = iFrame
      <4>1. o \in LiveOuts /\ o < iOutCur
        <5>1. o \in LiveOuts /\ o \in 0 .. NOuts - 1
          BY <2>4, <3>1, <3>a DEF PropertyOutput, LiveOuts, Outs
        <5> QED
          BY <2>1, <5>1, CircuitAssumption
      <4> QED
        BY <2>1, <3>1, <4>1 DEF OutputsHold, Excludes
    <3>2. CASE k # iFrame
      BY <2>4, <3>2, <3>a DEF FrameInv, ClosedFramesSafe, Excludes
    <3> QED
      BY <3>1, <3>2
  <2>8. LastFrameOpen'
    BY <2>1, <2>0, <2>3 DEF LastFrameOpen
  <2>9. OutputsHold' /\ EmptyLevel' /\ InvariantCertificate'
    BY <2>1 DEF OutputsHold, EmptyLevel, InvariantCertificate, Solving, DownLocations
  <2>10. Answers'
    BY <1>1, <2>1 DEF CloseFrame, Answers, Solving, DownLocations
  <2> QED
    BY <1>0, <2>5, <2>6, <2>7, <2>8, <2>9, <2>10 DEF FrameInv
<1>2. ASSUME FrameInv', pc = "push", pc' = "push", UNCHANGED <<iFrame, outVars, iOutCur, result>>,
             EmptyLevel'
      PROVE  SafeInv'
  BY <1>0, <1>2 DEF OutputsHold, InvariantCertificate, Answers, Solving, DownLocations
<1>3. ASSUME NEW c \in todo, PushFails(c)
      PROVE  SafeInv'
  <2>1. EmptyLevel'
    <3> SUFFICES ASSUME emptied
                 PROVE  \E k \in 1 .. iFrame - 1 : k < kCur /\ vClauses'[k] = {}
      BY <1>3 DEF PushFails, EmptyLevel
    <3>1. PICK k \in 1 .. iFrame - 1 : k < kCur /\ vClauses[k] = {}
      BY <1>3 DEF PushFails, EmptyLevel
    <3>2. k # kCur
      BY <3>1 DEF TypeOK
    <3>3. vClauses'[k] = {}
      BY <1>3, <3>1, <3>2 DEF PushFails, TypeOK
    <3> QED
      BY <3>1, <3>3
  <2> QED
    BY <1>0, <1>2, <1>3, <2>1, PushFailsKeeps DEF PushFails
<1>4. ASSUME NEW c \in todo, PushHolds(c)
      PROVE  SafeInv'
  <2>1. EmptyLevel'
    <3> SUFFICES ASSUME emptied
                 PROVE  \E k \in 1 .. iFrame - 1 : k < kCur /\ vClauses'[k] = {}
      BY <1>4 DEF PushHolds, EmptyLevel
    <3>1. PICK k \in 1 .. iFrame - 1 : k < kCur /\ vClauses[k] = {}
      BY <1>4 DEF PushHolds, EmptyLevel
    <3>2. k \notin {kCur, kCur + 1} /\ k \in Frames
      BY <3>1 DEF TypeOK, Frames
    <3>3. vClauses'[k] = {}
      BY <1>4, <3>1, <3>2 DEF PushHolds, TypeOK
    <3> QED
      BY <3>1, <3>3
  <2> QED
    BY <1>0, <1>2, <1>4, <2>1, PushHoldsKeeps DEF PushHolds
<1>5. CASE PushNextFrame
  <2>1. FrameInv'
    <3>1. LiveOuts' = LiveOuts
      BY <1>5 DEF PushNextFrame, LiveOuts
    <3> QED
      BY <1>0, <1>5, <3>1, SolverKept DEF PushNextFrame
  <2>2. EmptyLevel'
    <3>1. kCur \in 1 .. iFrame - 1 /\ kCur' = kCur + 1 /\ UNCHANGED <<vClauses, iFrame>>
          /\ pc = "push" /\ pc' = "push" /\ emptied' = (emptied \/ vClauses[kCur] = {})
      BY <1>5 DEF PushNextFrame, TypeOK, Located, LevelEmpty
    <3>2. CASE emptied
      <4>1. PICK k \in 1 .. iFrame - 1 : k < kCur /\ vClauses[k] = {}
        BY <3>1, <3>2 DEF EmptyLevel
      <4>2. k < kCur'
        BY <3>1, <4>1
      <4> QED
        BY <3>1, <4>1, <4>2 DEF EmptyLevel
    <3>3. CASE vClauses[kCur] = {}
      <4>1. kCur < kCur'
        BY <3>1
      <4> QED
        BY <3>1, <3>3, <4>1 DEF EmptyLevel
    <3>4. CASE ~emptied'
      BY <3>4 DEF EmptyLevel
    <3> QED
      BY <3>1, <3>2, <3>3, <3>4
  <2> QED
    BY <1>0, <1>2, <1>5, <2>1, <2>2 DEF PushNextFrame
<1>6. CASE Proved
  <2> DEFINE map == [o \in Outs |-> IF SolveAll /\ vOutMap[o] = "unknown" THEN "proved" ELSE vOutMap[o]]
  <2>1. /\ pc = "push" /\ pc' = "done" /\ iFrame' = iFrame /\ emptied' /\ AllPushed
        /\ UNCHANGED <<vCexes, nFailOuts, nDropOuts>>
        /\ vOutMap' = Settled(map)
        /\ result' = "unsat" => NOuts - nFailOuts - nDropOuts = NOuts
    BY <1>6 DEF Proved, AllPushed, Return
  <2>2. LiveOuts' \subseteq LiveOuts
    BY <2>1 DEF LiveOuts, Settled, TypeOK
  <2>3. FrameInv' /\ \A k \in Frames : F(k)' = F(k)
    BY <1>0, <2>1, <2>2, AllPushedKeeps
  <2>4. PICK k \in 1 .. iFrame - 1 : vClauses[k] = {}
    BY <1>6, <2>1 DEF Proved, EmptyLevel
  <2>5. k \in Frames /\ k + 1 \in Frames /\ k # 0 /\ k # iFrame /\ iFrame \in Nat
    BY <2>4 DEF Frames, TypeOK
  <2>6. F(k + 1) \subseteq F(k)
    <3>1. ClausesFrom(k) \subseteq ClausesFrom(k + 1)
      BY <2>4, <2>5 DEF ClausesFrom
    <3> QED
      BY <1>0, <2>5, <3>1 DEF F, SameAssumed
  <2>7. Closed(F(k))
    BY <2>5, <2>6 DEF Closed, FrameInv, FramesOverApproximate
  <2>8. ASSUME NEW o \in Outs, vOutMap'[o] = "proved" \/ result' = "unsat"
        PROVE  Excludes(k, o)
    <3>1. CASE o \in Const0
      BY <3>1, PdrAssumption DEF Excludes
    <3>2. CASE o \in LiveOuts
      BY <2>5, <3>2 DEF FrameInv, ClosedFramesSafe
    <3>3. CASE vOutMap'[o] = "proved"
      <4>1. vOutMap[o] = "proved" \/ (SolveAll /\ vOutMap[o] = "unknown")
        BY <2>1, <3>3 DEF Settled
      <4>2. vOutMap[o] = "proved" => o \in Const0
        BY <2>1 DEF Answers
      <4>3. SolveAll /\ vOutMap[o] = "unknown" => o \in LiveOuts
        BY DEF Answers, LiveOuts
      <4> QED
        BY <3>1, <3>2, <4>1, <4>2, <4>3
    <3>4. CASE result' = "unsat"
      <4>1. nFailOuts = 0 /\ nDropOuts = 0
        BY <2>1, <3>4, CircuitAssumption DEF TypeOK
      <4>2. o \in LiveOuts
        BY <2>1, <4>1 DEF Answers, LiveOuts
      <4> QED
        BY <3>2, <4>2
    <3> QED
      BY <2>8, <3>3, <3>4
  <2>9. InvariantCertificate'
    <3>1. vClauses'[k] = {}
      BY <2>1, <2>4, <2>5 DEF AllPushed, TypeOK
    <3>2. F(k)' = F(k) /\ (Closed(F(k)))' /\ \A o \in Outs : Excludes(k, o)' <=> Excludes(k, o)
      BY <2>3, <2>5, <2>7 DEF Closed, Excludes
    <3> QED
      BY <2>1, <2>4, <2>8, <3>1, <3>2 DEF InvariantCertificate
  <2>10. OutputsHold' /\ EmptyLevel'
    BY <2>1 DEF OutputsHold, EmptyLevel, Solving, DownLocations
  <2>11. Answers'
    BY <2>1 DEF Answers, Settled, TypeOK, Solving, DownLocations
  <2> QED
    BY <1>0, <2>3, <2>9, <2>10, <2>11
<1>7. CASE OpenFrame
  <2>1. /\ AllPushed /\ ~emptied /\ ~emptied' /\ iFrame' = iFrame /\ pc = "push"
        /\ UNCHANGED <<vCexes, nFailOuts, nDropOuts>>
        /\ \/ pc' = "done" /\ vOutMap' = Settled(vOutMap)
           \/ pc' = "output" /\ iOutCur' = 0 /\ UNCHANGED <<vOutMap, result>>
    BY <1>7 DEF OpenFrame, AllPushed, Return
  <2>2. LiveOuts' \subseteq LiveOuts
    BY <2>1 DEF LiveOuts, Settled, TypeOK
  <2>3. FrameInv'
    BY <1>0, <2>1, <2>2, AllPushedKeeps
  <2>4. OutputsHold' /\ EmptyLevel' /\ InvariantCertificate'
    BY <2>1 DEF OutputsHold, EmptyLevel, InvariantCertificate, Solving, DownLocations, LiveOuts, Outs
  <2>5. Answers'
    BY <2>1 DEF Answers, Settled, TypeOK, Solving, DownLocations
  <2> QED
    BY <1>0, <2>3, <2>4, <2>5
<1> QED
  BY <1>1, <1>3, <1>4, <1>5, <1>6, <1>7 DEF PushClauses

\* and running into a limit.
LEMMA SafeLimits ==
  ASSUME TypeInv, SafeInv, SoundFlags, Abort \/ OutputTimesOut
  PROVE  SafeInv'
<1> USE DEF TypeInv, SafeInv, solverVars, queueVars, cubeVars, pushVars, outVars
<1>0. SameAssumed /\ CubeInductive' /\ DownInv' /\ \A k : Assumed(k)' = {}
  <2>1. pc' \notin Generalizing
    BY DEF Abort, OutputTimesOut, EndOutput, Return, Generalizing, DownLocations
  <2>2. ~Ctgs
    BY DEF Abort, OutputTimesOut, SoundFlags, Unanswered
  <2> QED
    BY <2>1, <2>2, AssumedWithoutCtgs DEF CubeInductive, DownInv, Assumed, Generalizing, DownLocations
<1>1. CASE Abort
  <2>1. /\ pc \in Solving \cup {"push"} /\ pc' = "done" /\ result' = "undecided"
        /\ vOutMap' = Settled(vOutMap)
        /\ UNCHANGED <<solverVars, iFrame, emptied, vCexes, nFailOuts, kCur>>
    BY <1>1 DEF Abort, Return
  <2>2. LiveOuts' \subseteq LiveOuts
    BY <2>1 DEF LiveOuts, Settled, TypeOK
  <2>3. FrameInv'
    BY <2>1, <2>2, <1>0, SolverKept
  <2>4. OutputsHold' /\ EmptyLevel'
    BY <2>1 DEF OutputsHold, EmptyLevel, Solving, DownLocations
  <2>5. Answers'
    BY <2>1 DEF Answers, Settled, TypeOK, Solving, DownLocations
  <2>6. InvariantCertificate'
    <3> SUFFICES ASSUME emptied
                 PROVE  InvariantCertificate'
      BY <2>1 DEF InvariantCertificate
    <3>1. PICK k \in 1 .. iFrame - 1 : vClauses[k] = {}
      BY <2>1 DEF EmptyLevel, Solving, DownLocations
    <3>2. k \in Frames /\ k + 1 \in Frames /\ k # 0 /\ k # iFrame /\ iFrame \in Nat
      BY <3>1 DEF Frames, TypeOK
    <3>3. Closed(F(k))
      <4>1. ClausesFrom(k) \subseteq ClausesFrom(k + 1)
        BY <3>1, <3>2 DEF ClausesFrom
      <4>2. F(k + 1) \subseteq F(k)
        BY <1>0, <3>2, <4>1 DEF F, SameAssumed
      <4> QED
        BY <3>2, <4>2 DEF Closed, FrameInv, FramesOverApproximate
    <3>4. ASSUME NEW o \in Outs, vOutMap'[o] = "proved"
          PROVE  Excludes(k, o)
      <4>1. vOutMap[o] = "proved"
        BY <2>1, <3>4 DEF Settled
      <4>2. o \in Const0
        BY <2>1, <4>1 DEF Answers, Solving, DownLocations
      <4> QED
        BY <4>2, PdrAssumption DEF Excludes
    <3>5. F(k)' = F(k) /\ (Closed(F(k)))' /\ \A o \in Outs : Excludes(k, o)' <=> Excludes(k, o)
      BY <2>1, <3>3, <1>0, SameFrames DEF Closed, Excludes
    <3> QED
      BY <2>1, <3>1, <3>4, <3>5 DEF InvariantCertificate
  <2> QED
    BY <1>0, <2>3, <2>4, <2>5, <2>6
<1>2. CASE OutputTimesOut
  <2>1. /\ pc \in Solving /\ pc' = "output" /\ iOutCur' = iOutCur + 1 /\ iOutCur \in LiveOuts
        /\ vOutMap' = [vOutMap EXCEPT ![iOutCur] = "undecided"] /\ nDropOuts' = nDropOuts + 1
        /\ UNCHANGED <<solverVars, iFrame, emptied, vCexes, nFailOuts, result>>
    BY <1>2 DEF OutputTimesOut, EndOutput, Answers
  <2>2. LiveOuts' \subseteq LiveOuts \ {iOutCur}
    BY <2>1 DEF LiveOuts, TypeOK
  <2>3. FrameInv'
    BY <2>1, <2>2, <1>0, SolverKept
  <2>4. OutputsHold'
    <3>1. \A o \in LiveOuts' : o < iOutCur' => o < iOutCur
      BY <2>1, <2>2 DEF LiveOuts, Outs, TypeOK
    <3> QED
      BY <2>1, <2>2, <3>1, <1>0, SameFrames, OutputsKept
  <2>5. EmptyLevel' /\ InvariantCertificate'
    BY <2>1, NotEmptied DEF Solving
  <2>6. Answers'
    BY <2>1 DEF Answers, LiveOuts, TypeOK, Solving, DownLocations
  <2> QED
    BY <1>0, <2>3, <2>4, <2>5, <2>6
<1> QED
  BY <1>1, <1>2

\* Every step preserves the invariant.
LEMMA SafeStep ==
  ASSUME TypeInv, SafeInv, SoundFlags, [Next]_vars
  PROVE  SafeInv'
<1>1. CASE UNCHANGED vars
  <2>1. UNCHANGED <<solverVars, iFrame, iOutCur, queueVars, cubeVars, pushVars, outVars, pc, result>>
    BY <1>1 DEF vars
  <2>2. /\ LiveOuts' = LiveOuts /\ Frames' = Frames
        /\ \A k : F(k)' = F(k) /\ ClausesFrom(k)' = ClausesFrom(k)
        /\ SameAssumed
    BY <2>1 DEF LiveOuts, Frames, F, ClausesFrom, Assumed, SameAssumed, solverVars, outVars, queueVars,
      cubeVars
  <2>3. FrameInv'
    BY <2>1, <2>2, SolverKept DEF TypeInv, SafeInv
  <2> QED
    BY <2>1, <2>2, <2>3
    DEF SafeInv, OutputsHold, Excludes, CubeInductive, DownInv, Blocked, BeforeThis, EmptyLevel,
        Answers, InvariantCertificate, Closed, solverVars, outVars, queueVars, cubeVars, downVars,
        pushVars
<1> QED
  BY <1>1, SafeOutputs, SafeBlock, SafeGeneralize, SafeDown, SafePushClauses, SafeLimits
  DEF Next, Returned, Keeps

-----------------------------------------------------------------------------
\* The invariant holds always.
LEMMA SafeInvariant ==
  ASSUME SoundFlags
  PROVE  Spec => [](TypeInv /\ SafeInv)
<1>1. Init => TypeInv /\ SafeInv
  BY TypeInit, SafeInit
<1>2. TypeInv /\ SafeInv /\ [Next]_vars => TypeInv' /\ SafeInv'
  BY TypeStep, SafeStep
<1> QED
  BY <1>1, <1>2, PTL DEF Spec

(***************************************************************************)
(* The clauses of timeframe k hold in every state reachable in k steps,    *)
(* whatever the SAT solver returns, whichever literals are dropped and     *)
(* whenever a solver is recycled (vClauses of pdrInt.h).                   *)
(***************************************************************************)
THEOREM FramesCorrect ==
  ASSUME SoundFlags
  PROVE  Spec => []FramesOverApproximate
<1>1. TypeInv /\ SafeInv => FramesOverApproximate
  BY DEF SafeInv, FrameInv
<1> QED
  BY <1>1, SafeInvariant, PTL

(***************************************************************************)
(* Asserting the property in a closed timeframe (-o,                       *)
(* Pdr_ManSetPropertyOutput) is implied by the clauses: outputs disproved  *)
(* or out of time later do not spoil the proofs of the others.             *)
(***************************************************************************)
THEOREM ClosedFramesCorrect ==
  ASSUME SoundFlags
  PROVE  Spec => []ClosedFramesSafe
<1>1. TypeInv /\ SafeInv => ClosedFramesSafe
  BY DEF SafeInv, FrameInv
<1> QED
  BY <1>1, SafeInvariant, PTL

(***************************************************************************)
(* When Pdr_ManSolveInt reports outputs as proved, the clauses from the    *)
(* emptied timeframe on are an inductive invariant that excludes their     *)
(* failures: Pdr_ManVerifyInvariant, which the code runs without checking  *)
(* its result, cannot fail.                                                *)
(***************************************************************************)
THEOREM CertificateCorrect ==
  ASSUME SoundFlags
  PROVE  Spec => []InvariantCertificate
<1>1. TypeInv /\ SafeInv => InvariantCertificate
  BY DEF SafeInv
<1> QED
  BY <1>1, SafeInvariant, PTL

\* The assertion of Pdr_ManFetchSolver holds for every -M but 0.
THEOREM LastSolverCorrect ==
  ASSUME SoundFlags
  PROVE  Spec => []LastSolverNotRecycled
<1>1. TypeInv /\ SafeInv => LastSolverNotRecycled
  BY PdrAssumption DEF SafeInv, FrameInv, LastFrameOpen, LastSolverNotRecycled, Recycled, SoundFlags
<1> QED
  BY <1>1, SafeInvariant, PTL

\* No step puts a state back into a timeframe.
LEMMA FramesShrink ==
  ASSUME TypeInv, SafeInv, SoundFlags, [Next]_vars
  PROVE  \A k \in Frames : F(k)' \subseteq F(k)
<1>1. CASE AllPushed /\ (Proved \/ OpenFrame)
  <2>1. \A o \in Outs : vOutMap[o] = "undecided" => vOutMap'[o] = "undecided"
    <3>1. CASE Proved
      BY <3>1 DEF Proved, Return, Settled, TypeInv, TypeOK
    <3>2. CASE OpenFrame
      BY <3>2 DEF OpenFrame, Return, Settled, TypeInv, TypeOK
    <3> QED
      BY <1>1, <3>1, <3>2
  <2>2. LiveOuts' \subseteq LiveOuts
    BY <1>1, <2>1 DEF LiveOuts, AllPushed
  <2>3. SameAssumed
    BY <1>1, AssumedNothing DEF AllPushed, Proved, OpenFrame, Return, Generalizing, DownLocations
  <2> QED
    BY <1>1, <2>2, <2>3, AllPushedKeeps
<1>2. CASE CloseFrame
  BY <1>2, CloseFrameKeeps
<1>3. CASE \E c \in todo : PushFails(c) \/ PushHolds(c)
  BY <1>3, PushFailsKeeps, PushHoldsKeeps
<1>4. CASE Outputs \/ Block \/ PushNextFrame
  <2>1. UNCHANGED <<vClauses, iFrame>> /\ pc \notin Generalizing /\ pc' \notin Generalizing
    BY <1>4 DEF Outputs, Block, PushNextFrame, solverVars, SkipOutput, TrivialOutput, StartOutput,
      PropertyHolds, PropertyFails, EndOutput, Return, FoundCex, CubeBlocked, Restart, PopBlocked,
      PopOpen, PopObligation, Pending, FetchSolver, Generalizing, DownLocations
  <2> QED
    BY <2>1, AssumedNothing, SameFrames
<1>5. CASE Abort \/ OutputTimesOut
  <2>1. UNCHANGED <<vClauses, iFrame>> /\ ~Ctgs
    BY <1>5 DEF Abort, OutputTimesOut, solverVars, SoundFlags, Unanswered
  <2> QED
    BY <2>1, AssumedWithoutCtgs, SameFrames
<1>6. CASE Generalize
  BY <1>6, SafeGeneralize, SafeDown DEF Keeps
<1>7. CASE Returned \/ UNCHANGED vars
  <2>1. UNCHANGED <<vClauses, iFrame, pc, pThis, pCubeMin>>
    BY <1>7 DEF Returned, vars, solverVars, queueVars, cubeVars
  <2> QED
    BY <2>1, SameFrames DEF SameAssumed, Assumed
<1> QED
  BY <1>1, <1>2, <1>3, <1>4, <1>5, <1>6, <1>7 DEF Next, PushClauses, Proved, OpenFrame

\* What a timeframe excludes it excludes for good, through moving, shortening
\* and removing clauses.
THEOREM StrengtheningCorrect ==
  ASSUME SoundFlags
  PROVE  Spec => FramesOnlyStrengthen
<1>1. TypeInv /\ SafeInv /\ [Next]_vars => [\A k \in Frames : F(k)' \subseteq F(k)]_vars
  BY FramesShrink
<1> QED
  BY <1>1, SafeInvariant, PTL DEF Spec, FramesOnlyStrengthen
=============================================================================
