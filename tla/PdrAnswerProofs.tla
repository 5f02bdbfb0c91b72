--------------------------- MODULE PdrAnswerProofs ---------------------------
(***************************************************************************)
(* The traces of the engine are real and its answers are right: every      *)
(* obligation leads to a failure of the output being solved, the           *)
(* counter-example read from it is one, and the engine implements          *)
(* Verdicts.  Proved for every circuit and all flags but those excluded by *)
(* SoundFlags and OneQueue.                                                *)
(***************************************************************************)
EXTENDS PdrProofs

\* The queue never holds obligations of two outputs: with -p, unless -q is
\* given too, they outlive the output they were made for
Reuses == ReuseProofOblig /\ ~Shortest
OneQueue == NOuts = 1 \/ ~Reuses

\* The output the obligations in the queue are about
CurOut == IF NOuts = 1 THEN 0 ELSE iOutCur

\* Where the j-th step of a trace leads
Target(chain, j, o) == IF j = Len(chain) THEN Fails[o] ELSE StepsInto(chain[j + 1].cube)

\* The first cube of a trace may not hold the initial state (when ternary simulation
\* keeps literal 0), but its inputs lead on from there all the same
Starts(chain, o) == <<InitState, chain[1].in>> \in Target(chain, 1, o)

Real(chain, o) == LeadsToFailure(chain, o) /\ Starts(chain, o)

Leading ==
  {ob \in Obligations :
     /\ LeadsToFailure(ob.chain, CurOut)
     /\ ob.frame = 0 => Starts(ob.chain, CurOut)
     /\ ~Reuses => ob.frame <= iFrame}

Idle == {"output", "property", "push"}

LeadInv ==
  /\ queue \in Seq(Leading) /\ pThis \in Leading \cup {<<>>}
  /\ pc \in Idle \cup {"block"} => pThis = <<>>
  /\ ~Reuses /\ pc \in Idle => queue = <<>>

\* The traces that were recorded
CexInv == \A o \in Outs : vCexes[o] # <<>> => Real(vCexes[o], o)

\* The cube c holds no state of timeframe k
Avoids(c, k) == \A s \in F(k) : ~Covers(c, s)

Fresh ==
  {ob \in Obligations :
     /\ ob.frame <= iFrame + 1
     /\ ob.frame > 0 => Avoids(Cube(ob), ob.frame - 1)}

\* The obligations are fresh: the cube that is left of the one being blocked still
\* holds all its states
FreshInv ==
  /\ queue \in Seq(Fresh) /\ pThis \in Fresh \cup {<<>>}
  /\ pc \in Generalizing => pCubeMin \subseteq Cube(pThis)

\* An output that is said to fail has a trace, and no output fed by constant 0 is
\* ever solved
StatusInv ==
  /\ pc # "done" => \A o \in Outs : vOutMap[o] = "failed" => vCexes[o] # <<>>
  /\ nFailOuts > 0 => \E o \in Outs : vCexes[o] # <<>>
  /\ pc \in Solving \cup DownLocations \cup {"add"} => iOutCur \notin Const0

\* With -q nothing is scheduled again: all obligations are as far from the last
\* timeframe as their traces are long
Direct == {ob \in Obligations : ob.frame + Len(ob.chain) = iFrame + 1}

DirectInv ==
  /\ queue \in Seq(Direct) /\ pThis \in Direct \cup {<<>>}
  /\ pc \in Idle \cup {"block"} => pThis = <<>>
  /\ pc \in Idle => queue = <<>>

-----------------------------------------------------------------------------
(* Traces *)

\* Induction over the steps of a trace
LEMMA Climb ==
  ASSUME NEW n \in Nat \ {0}, NEW S, 1 \in S, \A j \in 1 .. n - 1 : j \in S => j + 1 \in S
  PROVE  n \in S
<1> SUFFICES ASSUME n \notin S PROVE FALSE
  OBVIOUS
<1> DEFINE R == OpToRel(<, Nat)
           T == (1 .. n) \ S
<1>1. IsWellFoundedOn(R, Nat)
  BY NatLessThanWellFounded
<1>2. T \subseteq Nat /\ T # {}
  OBVIOUS
<1>3. PICK x \in T : \A y \in T : <<y, x>> \notin R
  <2> HIDE DEF R, T
  <2> QED
    BY <1>1, <1>2, WFMin
<1>4. x - 1 \in 1 .. n - 1
  OBVIOUS
<1>5. <<x - 1, x>> \in R
  BY <1>4 DEF OpToRel
<1>6. x - 1 \notin T
  <2> HIDE DEF R, T
  <2> QED
    BY <1>3, <1>5
<1> QED
  BY <1>4, <1>6

\* The steps of a trace
LEMMA TraceType ==
  ASSUME NEW chain \in Traces \ {<<>>}
  PROVE  /\ Len(chain) \in Nat \ {0}
         /\ \A j \in 1 .. Len(chain) : chain[j].cube \in Cubes /\ chain[j].in \in Ins
<1>1. chain \in Seq([cube : Cubes, in : Ins]) /\ chain # <<>>
  BY DEF Traces
<1>2. Len(chain) \in Nat \ {0}
  BY <1>1, EmptySeq, Zenon
<1>3. \A j \in 1 .. Len(chain) : chain[j] \in [cube : Cubes, in : Ins]
  BY <1>1, ElementOfSeq
<1> QED
  BY <1>2, <1>3

\* In other words: the states of a cube lead on with the inputs kept with it
LEMMA LeadsSteps ==
  ASSUME NEW chain \in Traces \ {<<>>}, NEW o
  PROVE  LeadsToFailure(chain, o) <=>
           \A j \in 1 .. Len(chain) : \A s \in States :
             Covers(chain[j].cube, s) => <<s, chain[j].in>> \in Target(chain, j, o)
<1>1. DOMAIN chain = 1 .. Len(chain)
  BY LenProperties DEF Traces
<1>2. ASSUME NEW j \in 1 .. Len(chain), NEW s \in States, j # Len(chain)
      PROVE  Covers(chain[j + 1].cube, Trans[<<s, chain[j].in>>])
               <=> <<s, chain[j].in>> \in Target(chain, j, o)
  BY <1>2, TraceType DEF Target, StepsInto
<1> QED
  BY <1>1, <1>2 DEF LeadsToFailure, Target

\* Every state that ternary simulation leaves in the cube, and the model's own, steps
\* into the target
LEMMA TernarySimSteps ==
  ASSUME NEW m \in States \X Ins, NEW target, NEW c \in TernarySim(m, target)
  PROVE  /\ \A s \in States : Covers(c, s) => <<s, m[2]>> \in target
         /\ <<m[1], m[2]>> \in target
<1>1. PICK d \in SUBSET StateLits(m[1]) :
        /\ \A s \in States : Covers(d, s) => <<s, m[2]>> \in target
        /\ c = IF d = {} THEN {<<0, TRUE>>} ELSE d
  BY DEF TernarySim
<1>2. Covers(d, m[1])
  BY DEF StateLits, Covers
<1>3. m[1] \in States
  OBVIOUS
<1>4. ASSUME d = {}, NEW s PROVE Covers(d, s)
  BY <1>4 DEF Covers
<1> QED
  BY <1>1, <1>2, <1>3, <1>4

\* A trace of one step, and one with a step put in front
LEMMA TraceMade ==
  ASSUME NEW c \in Cubes, NEW i \in Ins, NEW o
  PROVE  LET first == <<[cube |-> c, in |-> i]>> IN
         /\ (\A s \in States : Covers(c, s) => <<s, i>> \in Fails[o]) => LeadsToFailure(first, o)
         /\ <<InitState, i>> \in Fails[o] => Starts(first, o)
         /\ \A chain \in Traces \ {<<>>} :
              /\ /\ LeadsToFailure(chain, o)
                 /\ \A s \in States : Covers(c, s) => <<s, i>> \in StepsInto(chain[1].cube)
                 => LeadsToFailure(first \o chain, o)
              /\ <<InitState, i>> \in StepsInto(chain[1].cube) => Starts(first \o chain, o)
<1> DEFINE first == <<[cube |-> c, in |-> i]>>
<1>1. first \in Traces \ {<<>>} /\ Len(first) = 1 /\ first[1] = [cube |-> c, in |-> i]
  BY DEF Traces
<1>2. ASSUME \A s \in States : Covers(c, s) => <<s, i>> \in Fails[o]
      PROVE  LeadsToFailure(first, o)
  BY <1>1, <1>2 DEF LeadsToFailure
<1>3. <<InitState, i>> \in Fails[o] => Starts(first, o)
  BY <1>1 DEF Starts, Target
<1>4. ASSUME NEW chain \in Traces \ {<<>>}
      PROVE  /\ first \o chain \in Traces \ {<<>>}
             /\ Len(first \o chain) = Len(chain) + 1
             /\ (first \o chain)[1] = [cube |-> c, in |-> i]
             /\ \A j \in 1 .. Len(chain) : (first \o chain)[j + 1] = chain[j]
  <2>1. first \in Seq([cube : Cubes, in : Ins]) /\ chain \in Seq([cube : Cubes, in : Ins])
    BY <1>1 DEF Traces
  <2>2. Len(chain) \in Nat \ {0}
    BY TraceType
  <2> HIDE DEF first
  <2>3. /\ first \o chain \in Seq([cube : Cubes, in : Ins])
        /\ Len(first \o chain) = 1 + Len(chain)
        /\ \A j \in 1 .. 1 + Len(chain) :
             (first \o chain)[j] = IF j <= 1 THEN first[j] ELSE chain[j - 1]
    BY <2>1, <1>1, ConcatProperties
  <2>4. first \o chain # <<>>
    BY <2>1, <1>1, ConcatEqualIffEmpty
  <2> QED
    BY <1>1, <2>2, <2>3, <2>4 DEF Traces
<1>5. ASSUME NEW chain \in Traces \ {<<>>}, LeadsToFailure(chain, o),
             \A s \in States : Covers(c, s) => <<s, i>> \in StepsInto(chain[1].cube)
      PROVE  LeadsToFailure(first \o chain, o)
  <2> DEFINE long == first \o chain
  <2>1. Len(chain) \in Nat \ {0}
    BY TraceType
  <2>2. ASSUME NEW j \in 1 .. Len(long), NEW s \in States, Covers(long[j].cube, s)
        PROVE  <<s, long[j].in>> \in Target(long, j, o)
    <3>1. CASE j = 1
      BY <1>4, <1>5, <2>1, <2>2, <3>1 DEF Target
    <3>2. CASE j # 1
      <4>1. j - 1 \in 1 .. Len(chain) /\ long[j] = chain[j - 1]
        BY <1>4, <2>1, <3>2
      <4>2. <<s, chain[j - 1].in>> \in Target(chain, j - 1, o)
        BY <4>1, <1>5, <2>2, LeadsSteps
      <4>3. Target(long, j, o) = Target(chain, j - 1, o)
        BY <1>4, <2>1, <4>1 DEF Target
      <4> QED
        BY <4>1, <4>2, <4>3
    <3> QED
      BY <3>1, <3>2
  <2> HIDE DEF long
  <2> QED
    BY <2>2, <1>4, LeadsSteps DEF long
<1>6. ASSUME NEW chain \in Traces \ {<<>>}, <<InitState, i>> \in StepsInto(chain[1].cube)
      PROVE  Starts(first \o chain, o)
  <2> DEFINE long == first \o chain
  <2>1. Len(long) # 1 /\ long[1].in = i /\ long[1 + 1].cube = chain[1].cube
    BY <1>4, TraceType
  <2> HIDE DEF long
  <2>2. <<InitState, long[1].in>> \in Target(long, 1, o)
    BY <1>6, <2>1 DEF Target
  <2> QED
    BY <2>2 DEF Starts, long
<1> QED
  BY <1>2, <1>3, <1>5, <1>6

\* A real trace leaves no closed set of states without a failure
LEMMA RealViolable ==
  ASSUME NEW o \in Outs, NEW chain \in Traces \ {<<>>}, Real(chain, o)
  PROVE  Violable(o)
<1> SUFFICES ASSUME NEW I \in SUBSET States, InitState \in I, Closed(I)
             PROVE  \E s \in I, i \in Ins : <<s, i>> \in Fails[o]
  BY DEF Violable
<1> DEFINE S == {j \in 1 .. Len(chain) : \E s \in I : <<s, chain[j].in>> \in Target(chain, j, o)}
<1>1. Len(chain) \in Nat \ {0} /\ \A j \in 1 .. Len(chain) : chain[j].in \in Ins
  BY TraceType
<1>2. 1 \in S
  BY <1>1 DEF Real, Starts
<1>3. ASSUME NEW j \in 1 .. Len(chain) - 1, j \in S PROVE j + 1 \in S
  <2>0. PICK s \in I : <<s, chain[j].in>> \in Target(chain, j, o)
    BY <1>3
  <2>1. <<s, chain[j].in>> \in StepsInto(chain[j + 1].cube)
    BY <1>1, <1>3, <2>0 DEF Target
  <2>2. Trans[<<s, chain[j].in>>] \in I
    BY <1>1, <1>3 DEF Closed
  <2>3. Covers(chain[j + 1].cube, Trans[<<s, chain[j].in>>])
    BY <2>1 DEF StepsInto
  <2>4. <<Trans[<<s, chain[j].in>>], chain[j + 1].in>> \in Target(chain, j + 1, o)
    BY <1>1, <1>3, <2>2, <2>3, LeadsSteps DEF Real
  <2> QED
    BY <1>1, <1>3, <2>2, <2>4
<1>4. Len(chain) \in S
  <2> HIDE DEF S
  <2> QED
    BY <1>1, <1>2, <1>3, Climb
<1> QED
  BY <1>1, <1>4 DEF Target

\* The states a trace runs through
StatesOf(chain, n, run) ==
  /\ run \in [1 .. n -> States] /\ run[1] = InitState
  /\ \A j \in 1 .. n - 1 : run[j + 1] = Trans[<<run[j], chain[j].in>>]

LEMMA StatesExist ==
  ASSUME NEW chain \in Traces \ {<<>>}
  PROVE  \E run : StatesOf(chain, Len(chain), run)
<1> DEFINE S == {n \in 1 .. Len(chain) : \E run : StatesOf(chain, n, run)}
<1>1. Len(chain) \in Nat \ {0} /\ \A j \in 1 .. Len(chain) : chain[j].in \in Ins
  BY TraceType
<1>2. 1 \in S
  <2>1. StatesOf(chain, 1, [j \in 1 .. 1 |-> InitState])
    BY DEF StatesOf, States, InitState
  <2> QED
    BY <1>1, <2>1
<1>3. ASSUME NEW n \in 1 .. Len(chain) - 1, n \in S PROVE n + 1 \in S
  <2>1. PICK run : StatesOf(chain, n, run)
    BY <1>3
  <2> DEFINE last == Trans[<<run[n], chain[n].in>>]
             long == [j \in 1 .. n + 1 |-> IF j <= n THEN run[j] ELSE last]
  <2>2. last \in States
    BY <1>1, <2>1, CircuitAssumption DEF StatesOf
  <2>3. long \in [1 .. n + 1 -> States] /\ long[1] = InitState
    BY <2>1, <2>2 DEF StatesOf
  <2>4. ASSUME NEW j \in 1 .. n PROVE long[j + 1] = Trans[<<long[j], chain[j].in>>]
    <3>0. n \in Nat /\ j \in 1 .. n + 1 /\ j + 1 \in 1 .. n + 1
      BY <1>1
    <3>1. CASE j = n
      <4>1. long[j + 1] = last /\ long[j] = run[n]
        BY <3>0, <3>1
      <4> QED
        BY <3>1, <4>1
    <3>2. CASE j # n
      <4>1. j \in 1 .. n - 1 /\ j + 1 <= n
        BY <3>0, <3>2
      <4>2. long[j + 1] = run[j + 1] /\ long[j] = run[j]
        BY <3>0, <4>1
      <4> QED
        BY <2>1, <4>1, <4>2 DEF StatesOf
    <3> QED
      BY <3>1, <3>2
  <2>5. StatesOf(chain, n + 1, long)
    <3> HIDE DEF long
    <3> QED
      BY <2>3, <2>4 DEF StatesOf
  <2> QED
    BY <1>1, <2>5
<1>4. Len(chain) \in S
  <2> HIDE DEF S
  <2> QED
    BY <1>1, <1>2, <1>3, Climb
<1> QED
  BY <1>4

LEMMA FinalStateIs ==
  ASSUME NEW chain \in Traces \ {<<>>}
  PROVE  \E run : StatesOf(chain, Len(chain), run) /\ FinalState(chain) = run[Len(chain)]
<1> DEFINE n == Len(chain)
           Defines(f) == f = [j \in 1 .. n |->
             IF j = 1 THEN InitState ELSE Trans[<<f[j - 1], chain[j - 1].in>>]]
           state == CHOOSE f : Defines(f)
<1>1. n \in Nat \ {0}
  BY TraceType
<1>2. PICK run : StatesOf(chain, n, run)
  BY StatesExist
<1>3. Defines(run)
  BY <1>1, <1>2 DEF StatesOf
<1>4. Defines(state)
  BY <1>3
<1>5. FinalState(chain) = state[n]
  BY DEF FinalState
<1> HIDE DEF state
<1>6. \A j \in 1 .. n : state[j] = IF j = 1 THEN InitState
                                   ELSE Trans[<<state[j - 1], chain[j - 1].in>>]
  BY <1>4
<1>7. ASSUME NEW j \in 1 .. n PROVE state[j] = run[j]
  <2> DEFINE S == {k \in 1 .. n : state[k] = run[k]}
  <2>0. 1 \in 1 .. n
    BY <1>1
  <2>a. state[1] = InitState
    BY <2>0, <1>6
  <2>b. run[1] = InitState
    BY <1>2 DEF StatesOf
  <2>1. 1 \in S
    BY <2>0, <2>a, <2>b
  <2>2. ASSUME NEW k \in 1 .. n - 1, k \in S PROVE k + 1 \in S
    <3>1. k + 1 \in 1 .. n /\ k + 1 # 1 /\ (k + 1) - 1 = k /\ state[k] = run[k]
      BY <1>1, <2>2
    <3>2. state[k + 1] = Trans[<<state[k], chain[k].in>>]
      BY <1>6, <3>1
    <3> QED
      BY <1>2, <3>1, <3>2 DEF StatesOf
  <2>3. j \in Nat \ {0} /\ \A k \in 1 .. j - 1 : k \in 1 .. n - 1
    BY <1>1
  <2>4. j \in S
    <3> HIDE DEF S
    <3> QED
      BY <2>1, <2>2, <2>3, Climb
  <2> QED
    BY <2>4
<1> QED
  BY <1>1, <1>2, <1>5, <1>7

-----------------------------------------------------------------------------
(* The queue holds what leads to a failure *)

\* Obligations go on leading to a failure while the output they are about stays
LEMMA LeadSame ==
  ASSUME TypeInv, iFrame' \in {iFrame, iFrame + 1}, CurOut' = CurOut
  PROVE  Leading \subseteq Leading' /\ \A q \in Seq(Leading) : q \in Seq(Leading')
<1>1. ASSUME NEW ob \in Leading PROVE ob \in Leading'
  <2>1. ob \in Obligations /\ ob.frame \in Nat /\ iFrame \in Nat
    BY CubeType DEF Leading, TypeInv, TypeOK
  <2>2. ~Reuses => ob.frame <= iFrame'
    BY <2>1 DEF Leading
  <2> QED
    BY <2>1, <2>2 DEF Leading
<1> QED
  BY <1>1, SeqMonotonic

\* Nothing is in the queue, so nothing has to lead anywhere
LEMMA LeadNothing ==
  ASSUME queue' = <<>>, pThis' = <<>>
  PROVE  LeadInv'
<1>1. \A S : <<>> \in Seq(S)
  OBVIOUS
<1> QED
  BY <1>1 DEF LeadInv

\* Steps that leave the queue alone, also to another output
LEMMA LeadIdle ==
  ASSUME TypeInv, LeadInv, OneQueue, pc \in Idle, pc' \in Idle \cup {"done"},
         UNCHANGED <<queue, pThis>>, iFrame' \in {iFrame, iFrame + 1}
  PROVE  LeadInv'
<1>1. CASE NOuts = 1
  BY <1>1, LeadSame DEF LeadInv, CurOut
<1>2. CASE ~Reuses
  BY <1>2, LeadNothing DEF LeadInv
<1> QED
  BY <1>1, <1>2 DEF OneQueue

\* Steps on the obligation being blocked
LEMMA LeadBusy ==
  ASSUME TypeInv, LeadInv, UNCHANGED <<queue, pThis, iFrame, iOutCur>>,
         pc' = pc \/ pc' \notin Idle \cup {"block"}
  PROVE  LeadInv'
BY LeadSame DEF LeadInv, CurOut

\* The current output is the one the queue is about
LEMMA CurOutIs ==
  ASSUME TypeInv, pc \in Solving \cup DownLocations \cup {"add"}
  PROVE  CurOut = iOutCur /\ CurOut \in Outs
<1>1. iOutCur \in Outs
  BY DEF TypeInv, Located
<1> QED
  BY <1>1 DEF CurOut, Outs

\* The obligation being blocked leads to a failure, too
LEMMA LeadThis ==
  ASSUME LeadInv, pThis \in Obligations
  PROVE  pThis \in Leading
BY DEF LeadInv, Obligations

\* A model of the initial timeframe is in the initial state
LEMMA InitialModel ==
  ASSUME NEW k, NEW m \in Models(k)
  PROVE  m \in States \X Ins /\ m = <<m[1], m[2]>> /\ (k = 0 => m[1] = InitState)
BY DEF Models

LEMMA LeadPropertyFails ==
  ASSUME TypeInv, LeadInv, PropertyFails
  PROVE  LeadInv'
<1>1. PICK m \in PropertyModels(iFrame) : \E c \in TernarySim(m, Fails[iOutCur]) :
        queue' = QueuePush(queue, Obligation(iFrame, 0, <<[cube |-> c, in |-> m[2]]>>))
  BY DEF PropertyFails
<1>2. PICK c \in TernarySim(m, Fails[iOutCur]) :
        queue' = QueuePush(queue, Obligation(iFrame, 0, <<[cube |-> c, in |-> m[2]]>>))
  BY <1>1
<1> DEFINE ob == Obligation(iFrame, 0, <<[cube |-> c, in |-> m[2]]>>)
<1>3. m \in Models(iFrame) /\ m \in States \X Ins /\ m[2] \in Ins
  BY <1>1 DEF PropertyModels, Models
<1>4. c \in Cubes /\ iFrame \in Nat
  BY <1>3, TernarySimType DEF TypeInv, TypeOK
<1>5. ob \in Obligations
  BY <1>3, <1>4, ObligationType
<1>6. CurOut = iOutCur /\ UNCHANGED <<iFrame, iOutCur, pThis>> /\ pc = "property" /\ pc' = "block"
  BY CurOutIs DEF PropertyFails, Solving
<1>7. LeadsToFailure(<<[cube |-> c, in |-> m[2]]>>, iOutCur)
  BY <1>3, <1>4, TernarySimSteps, TraceMade
<1>8. iFrame = 0 => Starts(<<[cube |-> c, in |-> m[2]]>>, iOutCur)
  <2> HAVE iFrame = 0
  <2>1. <<InitState, m[2]>> \in Fails[iOutCur]
    BY <1>3, TernarySimSteps, InitialModel
  <2> QED
    BY <2>1, <1>3, <1>4, TraceMade
<1>9. ob \in Leading
  BY <1>4, <1>5, <1>6, <1>7, <1>8 DEF Leading, Obligation
<1>10. QueuePush(queue, ob) \in Seq(Leading)
  <2> HIDE DEF ob
  <2> QED
    BY <1>9, QueuePushType DEF LeadInv
<1> QED
  BY <1>2, <1>6, <1>10, LeadSame DEF LeadInv, CurOut, Idle

\* The head of the queue
LEMMA LeadHead ==
  ASSUME LeadInv, queue # <<>>
  PROVE  HeadOb \in Leading /\ Tail(queue) \in Seq(Leading)
BY HeadTailProperties DEF LeadInv, HeadOb

LEMMA LeadBlock ==
  ASSUME TypeInv, LeadInv, OneQueue, Block
  PROVE  LeadInv'
<1>0. pc = "block" /\ pThis = <<>> /\ iFrame' = iFrame
  BY DEF Block, FoundCex, CubeBlocked, Restart, PopBlocked, PopOpen, PopObligation, Pending, LeadInv
<1>1. CASE FoundCex
  <2>1. CASE queue' = <<>>
    BY <1>0, <1>1, <2>1, LeadNothing DEF FoundCex
  <2>2. CASE UNCHANGED <<iOutCur, queue>> /\ pc' = "done"
    BY <1>0, <1>1, <2>2, LeadSame DEF FoundCex, LeadInv, CurOut, Idle
  <2> QED
    BY <1>1, <2>1, <2>2 DEF FoundCex, Return
<1>2. CASE CubeBlocked
  <2>1. ~Reuses => queue = <<>>
    <3> SUFFICES ASSUME ~Reuses, queue # <<>> PROVE FALSE
      OBVIOUS
    <3>1. HeadOb \in Leading /\ iFrame \in Nat
      BY LeadHead DEF TypeInv, TypeOK
    <3>2. HeadOb.frame <= iFrame /\ HeadOb.frame \in Nat
      BY <3>1, CubeType DEF Leading
    <3> QED
      BY <1>2, <3>1, <3>2 DEF CubeBlocked
  <2> QED
    BY <1>0, <1>2, <2>1, LeadSame DEF CubeBlocked, LeadInv, CurOut, queueVars
<1>3. CASE Restart
  BY <1>0, <1>3, LeadNothing DEF Restart
<1>4. CASE PopBlocked
  BY <1>0, <1>4, LeadHead, LeadSame DEF PopBlocked, PopObligation, Pending, LeadInv, CurOut, Idle
<1>5. CASE PopOpen
  BY <1>0, <1>5, LeadHead, LeadSame DEF PopOpen, PopObligation, Pending, LeadInv, CurOut, Idle
<1> QED
  BY <1>1, <1>2, <1>3, <1>4, <1>5 DEF Block

LEMMA LeadInductFails ==
  ASSUME TypeInv, LeadInv, InductFails
  PROVE  LeadInv'
<1>1. PICK m \in CubeModels(BeforeThis, Cube(pThis), Cube(pThis)) :
      \E c \in TernarySim(m, StepsInto(Cube(pThis))) :
        queue' = QueuePush(QueuePush(queue, [pThis EXCEPT !.prio = prio]),
                   Obligation(BeforeThis, prio - 1,
                              <<[cube |-> c, in |-> m[2]]>> \o pThis.chain))
  BY DEF InductFails
<1>2. PICK c \in TernarySim(m, StepsInto(Cube(pThis))) :
        queue' = QueuePush(QueuePush(queue, [pThis EXCEPT !.prio = prio]),
                   Obligation(BeforeThis, prio - 1,
                              <<[cube |-> c, in |-> m[2]]>> \o pThis.chain))
  BY <1>1
<1> DEFINE chain == <<[cube |-> c, in |-> m[2]]>> \o pThis.chain
           again == [pThis EXCEPT !.prio = prio]
           ob    == Obligation(BeforeThis, prio - 1, chain)
<1>3. pThis \in Obligations /\ pThis.frame \in 1 .. iFrame /\ iFrame \in Nat /\ prio \in Int
  BY DEF InductFails, TypeInv, TypeOK, Located
<1>4. pThis \in Leading
  BY <1>3, LeadThis
<1>5. BeforeThis \in Nat /\ BeforeThis < iFrame /\ prio - 1 \in Int
  BY <1>3 DEF BeforeThis
<1>6. m \in Models(BeforeThis) /\ m \in States \X Ins /\ m[2] \in Ins
  BY <1>1 DEF CubeModels, Models
<1>7. c \in Cubes /\ pThis.chain \in Traces \ {<<>>}
  BY <1>3, <1>6, TernarySimType DEF Obligations
<1>8. ob \in Obligations /\ again \in Obligations
  BY <1>3, <1>5, <1>6, <1>7, ObligationType, RescheduledType
<1>9. LeadsToFailure(chain, CurOut)
  <2>1. LeadsToFailure(pThis.chain, CurOut)
    BY <1>4 DEF Leading
  <2>2. \A s \in States : Covers(c, s) => <<s, m[2]>> \in StepsInto(pThis.chain[1].cube)
    BY <1>2, <1>6, TernarySimSteps DEF Cube
  <2> QED
    BY <1>6, <1>7, <2>1, <2>2, TraceMade
<1>10. BeforeThis = 0 => Starts(chain, CurOut)
  <2> HAVE BeforeThis = 0
  <2>1. <<InitState, m[2]>> \in StepsInto(pThis.chain[1].cube)
    BY <1>2, <1>6, TernarySimSteps, InitialModel DEF Cube
  <2> QED
    BY <1>6, <1>7, <2>1, TraceMade
<1>11. ob \in Leading
  <2>1. ob.chain = chain /\ ob.frame = BeforeThis
    BY DEF Obligation
  <2> HIDE DEF ob, chain
  <2> QED
    BY <1>3, <1>5, <1>8, <1>9, <1>10, <2>1 DEF Leading
<1>12. again \in Leading
  <2>1. again.chain = pThis.chain /\ again.frame = pThis.frame
    BY <1>3 DEF Obligations
  <2> HIDE DEF again
  <2> QED
    BY <1>4, <1>8, <2>1 DEF Leading
<1>13. QueuePush(QueuePush(queue, again), ob) \in Seq(Leading)
  <2> HIDE DEF again, ob
  <2>1. QueuePush(queue, again) \in Seq(Leading)
    BY <1>12, QueuePushType DEF LeadInv
  <2> QED
    BY <1>11, <2>1, QueuePushType
<1>14. UNCHANGED <<iFrame, iOutCur>> /\ pThis' = <<>> /\ pc' = "block"
  BY DEF InductFails, Release
<1> QED
  BY <1>2, <1>13, <1>14, LeadSame DEF LeadInv, CurOut, Idle

LEMMA LeadAddClause ==
  ASSUME TypeInv, LeadInv, AddClause
  PROVE  LeadInv'
<1>1. /\ pThis \in Obligations /\ pThis.frame \in 1 .. iFrame /\ iFrame \in Nat
      /\ kCur \in pThis.frame .. iFrame /\ prio \in Int
  BY DEF AddClause, TypeInv, TypeOK, Located
<1>2. UNCHANGED <<iFrame, iOutCur>> /\ pThis' = <<>> /\ pc' = "block"
  BY DEF AddClause, Release
<1>3. queue' \in Seq(Leading)
  <2>1. CASE ~Reschedules
    BY <2>1 DEF AddClause, LeadInv
  <2>2. CASE Reschedules
    <3> DEFINE again == [pThis EXCEPT !.frame = kCur + 1, !.prio = prio]
    <3>1. kCur + 1 \in Nat \ {0} /\ (~Reuses => kCur + 1 <= iFrame)
      BY <1>1, <2>2 DEF Reschedules, Reuses
    <3>2. again \in Obligations /\ again.chain = pThis.chain /\ again.frame = kCur + 1
      BY <1>1, <3>1, RescheduledType DEF Obligations
    <3>3. pThis \in Leading
      BY <1>1, LeadThis
    <3>4. again \in Leading
      <4> HIDE DEF again
      <4> QED
        BY <3>1, <3>2, <3>3 DEF Leading
    <3>5. QueuePush(queue, again) \in Seq(Leading)
      <4> HIDE DEF again
      <4> QED
        BY <3>4, QueuePushType DEF LeadInv
    <3> QED
      BY <2>2, <3>5 DEF AddClause
  <2> QED
    BY <2>1, <2>2
<1> QED
  BY <1>2, <1>3, LeadSame DEF LeadInv, CurOut, Idle

\* Every step keeps it so
LEMMA LeadStep ==
  ASSUME TypeInv, LeadInv, OneQueue, [Next]_vars
  PROVE  LeadInv'
<1>1. CASE Outputs /\ ~PropertyFails
  BY <1>1, LeadIdle DEF Outputs, SkipOutput, TrivialOutput, StartOutput, PropertyHolds, EndOutput,
    Return, queueVars, Idle
<1>2. CASE PropertyFails
  BY <1>2, LeadPropertyFails
<1>3. CASE Block
  BY <1>3, LeadBlock
<1>4. CASE InductFails \/ AddClause
  BY <1>4, LeadInductFails, LeadAddClause
<1>5. CASE Down
  <2>1. UNCHANGED <<queue, pThis, iFrame, iOutCur>> /\ pc' \notin Idle \cup {"block"}
    BY <1>5 DEF Down, CtgAssume, CtgHolds, CtgStays, CtgPushed, CtgStops, CtgDrop, CtgKeep, CtgAdd,
      RetryHolds, RetryFails, JoinFails, JoinHolds, JoinAgain, DownHolds, queueVars, Idle
  <2> QED
    BY <2>1, LeadBusy
<1>6. CASE Generalize /\ ~(InductFails \/ AddClause \/ Down)
  <2>1. UNCHANGED <<queue, pThis, iFrame, iOutCur>> /\ pc' \notin Idle \cup {"block"}
    BY <1>6 DEF Generalize, InductHolds, Generalized, DropLiteral, KeepLiteral, DownStarts,
      ForwardHolds, ForwardStops, queueVars, Idle
  <2> QED
    BY <2>1, LeadBusy
<1>7. CASE PushClauses
  <2>1. /\ pc \in Idle /\ pc' \in Idle \cup {"done"} /\ UNCHANGED <<queue, pThis>>
        /\ iFrame' \in {iFrame, iFrame + 1}
    BY <1>7 DEF PushClauses, CloseFrame, PushFails, PushHolds, PushNextFrame, Proved, OpenFrame,
      AllPushed, Return, queueVars, Idle
  <2> QED
    BY <2>1, LeadIdle
<1>8. CASE Abort
  BY <1>8, LeadBusy DEF Abort, Return, queueVars, Idle
<1>9. CASE OutputTimesOut
  BY <1>9, LeadNothing DEF OutputTimesOut, Release
<1>10. CASE UNCHANGED vars
  BY <1>10, LeadBusy DEF vars, queueVars
<1> QED
  BY <1>1, <1>2, <1>3, <1>4, <1>5, <1>6, <1>7, <1>8, <1>9, <1>10 DEF Next, Returned, Generalize

-----------------------------------------------------------------------------
(* The traces *)

\* A real trace, simulated, ends in a failure
LEMMA RealFails ==
  ASSUME NEW o \in Outs, NEW chain \in Traces \ {<<>>}, Real(chain, o)
  PROVE  <<FinalState(chain), chain[Len(chain)].in>> \in Fails[o]
<1>1. Len(chain) \in Nat \ {0}
  BY TraceType
<1>2. PICK run : StatesOf(chain, Len(chain), run) /\ FinalState(chain) = run[Len(chain)]
  BY FinalStateIs
<1> DEFINE S == {j \in 1 .. Len(chain) : <<run[j], chain[j].in>> \in Target(chain, j, o)}
<1>3. 1 \in S
  BY <1>1, <1>2 DEF Real, Starts, StatesOf
<1>4. ASSUME NEW j \in 1 .. Len(chain) - 1, j \in S PROVE j + 1 \in S
  <2>1. <<run[j], chain[j].in>> \in StepsInto(chain[j + 1].cube) /\ j + 1 \in 1 .. Len(chain)
    BY <1>1, <1>4 DEF Target
  <2>2. run[j + 1] = Trans[<<run[j], chain[j].in>>] /\ run[j + 1] \in States
    BY <1>2, <2>1 DEF StatesOf
  <2>3. Covers(chain[j + 1].cube, run[j + 1])
    BY <2>1, <2>2 DEF StepsInto
  <2> QED
    BY <2>1, <2>2, <2>3, LeadsSteps DEF Real
<1>5. Len(chain) \in S
  <2> HIDE DEF S
  <2> QED
    BY <1>1, <1>3, <1>4, Climb
<1> QED
  BY <1>1, <1>2, <1>5 DEF Target

\* The trace of an output fed by constant 1, up to timeframe k
LEMMA TrivialTrace ==
  ASSUME NEW k \in Nat, NEW i \in Ins, NEW o \in Const1
  PROVE  LET chain == [j \in 1 .. k + 1 |-> [cube |-> {}, in |-> i]]
         IN  chain \in Traces \ {<<>>} /\ Real(chain, o)
<1> DEFINE chain == [j \in 1 .. k + 1 |-> [cube |-> {}, in |-> i]]
<1>1. /\ chain \in Traces /\ Len(chain) = k + 1 /\ k + 1 \in Nat \ {0}
      /\ DOMAIN chain = 1 .. k + 1 /\ \A j \in 1 .. k + 1 : chain[j] = [cube |-> {}, in |-> i]
  <2>1. [cube |-> {}, in |-> i] \in [cube : Cubes, in : Ins] /\ k + 1 \in Nat \ {0}
    BY DEF Cubes
  <2>2. chain \in [1 .. k + 1 -> [cube : Cubes, in : Ins]]
    BY <2>1
  <2>3. chain \in Seq([cube : Cubes, in : Ins])
    BY <2>1, <2>2, SeqDef
  <2> QED
    BY <2>1, <2>3, LenProperties DEF Traces
<1>2. chain # <<>>
  <2> HIDE DEF chain
  <2> QED
    BY <1>1, EmptySeq
<1>3. Fails[o] = States \X Ins /\ InitState \in States
  BY PdrAssumption DEF States, InitState
<1>4. ASSUME NEW s \in States, NEW j \in 1 .. k + 1 PROVE <<s, i>> \in Target(chain, j, o)
  <2>1. CASE j = Len(chain)
    BY <1>3, <2>1 DEF Target
  <2>2. CASE j # Len(chain)
    <3>1. chain[j + 1].cube = {}
      BY <1>1, <2>2
    <3>2. Covers({}, Trans[<<s, i>>])
      BY DEF Covers
    <3> QED
      BY <2>2, <3>1, <3>2 DEF Target, StepsInto
  <2> QED
    BY <2>1, <2>2
<1> HIDE DEF chain
<1>5. LeadsToFailure(chain, o)
  BY <1>1, <1>2, <1>4, LeadsSteps
<1>6. Starts(chain, o)
  BY <1>1, <1>3, <1>4 DEF Starts
<1> QED
  BY <1>1, <1>2, <1>5, <1>6 DEF Real, chain

\* Recording a real trace
LEMMA CexRecorded ==
  ASSUME TypeInv, CexInv, NEW chain, RecordCex(chain), Real(chain, iOutCur)
  PROVE  CexInv'
<1>1. vCexes \in [Outs -> Traces] /\ vCexes' = [vCexes EXCEPT ![iOutCur] = chain]
  BY DEF RecordCex, TypeInv, TypeOK
<1> QED
  BY <1>1 DEF CexInv

\* The only steps that record one
LEMMA SameCexes ==
  ASSUME [Next]_vars, ~(TrivialOutput \/ FoundCex)
  PROVE  vCexes' = vCexes
<1>1. CASE Down
  BY <1>1 DEF Down, CtgAssume, CtgHolds, CtgStays, CtgPushed, CtgStops, CtgDrop, CtgKeep, CtgAdd,
    RetryHolds, RetryFails, JoinFails, JoinHolds, JoinAgain, DownHolds, outVars
<1>2. CASE Generalize /\ ~Down
  BY <1>2 DEF Generalize, InductFails, InductHolds, Generalized, DropLiteral, KeepLiteral,
    DownStarts, ForwardHolds, ForwardStops, AddClause, outVars
<1>3. CASE Outputs \/ Block \/ PushClauses
  BY <1>3 DEF Outputs, SkipOutput, StartOutput, PropertyHolds, PropertyFails, Block, CubeBlocked,
    Restart, PopBlocked, PopOpen, PushClauses, CloseFrame, PushFails, PushHolds, PushNextFrame,
    Proved, OpenFrame, AllPushed, outVars
<1>4. CASE Abort \/ OutputTimesOut \/ UNCHANGED vars
  BY <1>4 DEF Abort, OutputTimesOut, vars, outVars
<1> QED
  BY <1>1, <1>2, <1>3, <1>4 DEF Next, Returned

LEMMA CexStep ==
  ASSUME TypeInv, LeadInv, CexInv, [Next]_vars
  PROVE  CexInv'
<1>1. CASE TrivialOutput
  <2>1. PICK i \in Ins : RecordCex([j \in 1 .. iFrame + 1 |-> [cube |-> {}, in |-> i]])
    BY <1>1 DEF TrivialOutput
  <2>2. iOutCur \in Const1 /\ iFrame \in Nat
    BY <1>1 DEF TrivialOutput, TypeInv, TypeOK
  <2> QED
    BY <2>1, <2>2, TrivialTrace, CexRecorded
<1>2. CASE FoundCex
  <2>1. HeadOb \in Leading /\ HeadOb.frame = 0 /\ RecordCex(HeadOb.chain) /\ CurOut = iOutCur
    BY <1>2, LeadHead, CurOutIs DEF FoundCex, Solving
  <2>2. Real(HeadOb.chain, iOutCur)
    BY <2>1 DEF Leading, Real
  <2> QED
    BY <2>1, <2>2, CexRecorded
<1>3. CASE ~(TrivialOutput \/ FoundCex)
  BY <1>3, SameCexes DEF CexInv
<1> QED
  BY <1>1, <1>2, <1>3

\* Both invariants hold always
LEMMA LeadInvariant ==
  ASSUME OneQueue
  PROVE  Spec => [](TypeInv /\ LeadInv /\ CexInv)
<1>1. Init => TypeInv /\ LeadInv /\ CexInv
  <2> SUFFICES ASSUME Init PROVE TypeInv /\ LeadInv /\ CexInv
    OBVIOUS
  <2>1. \A S : <<>> \in Seq(S)
    OBVIOUS
  <2>2. LeadInv
    BY <2>1 DEF Init, LeadInv
  <2>3. CexInv
    BY DEF Init, CexInv
  <2> QED
    BY <2>2, <2>3, TypeInit
<1>2. TypeInv /\ LeadInv /\ CexInv /\ [Next]_vars => TypeInv' /\ LeadInv' /\ CexInv'
  BY TypeStep, LeadStep, CexStep
<1> QED
  BY <1>1, <1>2, PTL DEF Spec

(***************************************************************************)
(* Whatever cube Pdr_ManTernarySim makes of a model, and however often an  *)
(* obligation is scheduled again, following the chain of pNext from it     *)
(* makes the output being solved fail.                                     *)
(***************************************************************************)
THEOREM ObligationsCorrect ==
  ASSUME OneQueue
  PROVE  Spec => []ObligationsLeadToFailure
<1>1. TypeInv /\ LeadInv /\ CexInv => ObligationsLeadToFailure
  <2> SUFFICES ASSUME TypeInv, LeadInv, pc \in Solving \cup DownLocations \cup {"add"},
                      NEW ob \in Pendings
               PROVE  LeadsToFailure(ob.chain, iOutCur)
    BY DEF ObligationsLeadToFailure
  <2>1. \A j \in DOMAIN queue : queue[j] \in Leading
    BY LenProperties, ElementOfSeq DEF LeadInv
  <2>2. ob \in Leading
    BY <2>1 DEF Pendings, LeadInv
  <2> QED
    BY <2>2, CurOutIs DEF Leading
<1> QED
  BY <1>1, LeadInvariant, PTL

(***************************************************************************)
(* Every counter-example that is reported makes its output fail when it is *)
(* simulated from the initial state (Saig_ManVerifyCex), also when the     *)
(* literal ternary simulation keeps excludes that state.                   *)
(***************************************************************************)
THEOREM CexesCorrect ==
  ASSUME OneQueue
  PROVE  Spec => []CexesAreReal
<1>1. TypeInv /\ LeadInv /\ CexInv => CexesAreReal
  BY RealFails DEF CexInv, CexesAreReal, TypeInv, TypeOK
<1> QED
  BY <1>1, LeadInvariant, PTL

-----------------------------------------------------------------------------
(* The obligations are fresh *)

\* What a step may do to the number of timeframes
LEMMA FrameCount ==
  ASSUME TypeInv, [Next]_vars
  PROVE  iFrame' \in {iFrame, iFrame + 1}
<1>1. CASE Outputs \/ Block
  BY <1>1 DEF Outputs, SkipOutput, TrivialOutput, StartOutput, PropertyHolds, PropertyFails, Block,
    FoundCex, CubeBlocked, Restart, PopBlocked, PopOpen
<1>2. CASE Down
  BY <1>2 DEF Down, CtgAssume, CtgHolds, CtgStays, CtgPushed, CtgStops, CtgDrop, CtgKeep, CtgAdd,
    RetryHolds, RetryFails, JoinFails, JoinHolds, JoinAgain, DownHolds
<1>3. CASE Generalize /\ ~Down
  BY <1>3 DEF Generalize, InductFails, InductHolds, Generalized, DropLiteral, KeepLiteral,
    DownStarts, ForwardHolds, ForwardStops, AddClause
<1>4. CASE PushClauses
  BY <1>4 DEF PushClauses, CloseFrame, PushFails, PushHolds, PushNextFrame, Proved, OpenFrame,
    AllPushed
<1>5. CASE Abort \/ OutputTimesOut \/ UNCHANGED vars
  BY <1>5 DEF Abort, OutputTimesOut, vars
<1> QED
  BY <1>1, <1>2, <1>3, <1>4, <1>5 DEF Next, Returned

\* Timeframes only shrink, so an obligation stays fresh
LEMMA FreshSame ==
  ASSUME TypeInv, SafeInv, SoundFlags, [Next]_vars
  PROVE  Fresh \subseteq Fresh' /\ \A q \in Seq(Fresh) : q \in Seq(Fresh')
<1>1. \A k \in Frames : F(k)' \subseteq F(k)
  BY FramesShrink
<1>2. iFrame \in Nat /\ iFrame' \in {iFrame, iFrame + 1}
  BY FrameCount DEF TypeInv, TypeOK
<1>3. ASSUME NEW ob \in Fresh PROVE ob \in Fresh'
  <2>1. ob \in Obligations /\ ob.frame \in Nat /\ ob.frame <= iFrame + 1
    BY CubeType DEF Fresh
  <2>2. ob.frame <= iFrame' + 1
    BY <1>2, <2>1
  <2>3. ob.frame > 0 => Avoids(Cube(ob), ob.frame - 1)'
    <3> HAVE ob.frame > 0
    <3>1. ob.frame - 1 \in Frames
      BY <1>2, <2>1 DEF Frames
    <3>2. Avoids(Cube(ob), ob.frame - 1)
      BY DEF Fresh
    <3> QED
      BY <1>1, <3>1, <3>2 DEF Avoids
  <2> QED
    BY <2>1, <2>2, <2>3 DEF Fresh
<1> QED
  BY <1>3, SeqMonotonic

\* Steps that push nothing
LEMMA FreshKept ==
  ASSUME TypeInv, SafeInv, SoundFlags, FreshInv, [Next]_vars,
         queue' \in {queue, <<>>} \/ (queue # <<>> /\ queue' = Tail(queue)),
         pThis' \in {pThis, <<>>} \/ (queue # <<>> /\ pThis' = HeadOb),
         pc' \in Generalizing => pCubeMin' \subseteq Cube(pThis')
  PROVE  FreshInv'
<1>1. \A S : <<>> \in Seq(S)
  OBVIOUS
<1>2. queue # <<>> => HeadOb \in Fresh /\ Tail(queue) \in Seq(Fresh)
  BY HeadTailProperties DEF FreshInv, HeadOb
<1>3. queue' \in Seq(Fresh) /\ pThis' \in Fresh \cup {<<>>}
  BY <1>1, <1>2 DEF FreshInv
<1> QED
  BY <1>3, FreshSame DEF FreshInv

LEMMA FreshPropertyFails ==
  ASSUME TypeInv, SafeInv, SoundFlags, FreshInv, PropertyFails
  PROVE  FreshInv'
<1>0. [Next]_vars
  BY DEF Next, Outputs
<1>1. PICK m \in PropertyModels(iFrame) : \E c \in TernarySim(m, Fails[iOutCur]) :
        queue' = QueuePush(queue, Obligation(iFrame, 0, <<[cube |-> c, in |-> m[2]]>>))
  BY DEF PropertyFails
<1>2. PICK c \in TernarySim(m, Fails[iOutCur]) :
        queue' = QueuePush(queue, Obligation(iFrame, 0, <<[cube |-> c, in |-> m[2]]>>))
  BY <1>1
<1> DEFINE ob == Obligation(iFrame, 0, <<[cube |-> c, in |-> m[2]]>>)
<1>3. m \in States \X Ins /\ m[2] \in Ins
  BY <1>1 DEF PropertyModels, Models
<1>4. c \in Cubes /\ iFrame \in Nat
  BY <1>3, TernarySimType DEF TypeInv, TypeOK
<1>5. ob \in Obligations
  BY <1>3, <1>4, ObligationType
<1>6. iOutCur \in LiveOuts /\ UNCHANGED <<iFrame, pThis>> /\ pc' = "block"
  BY DEF PropertyFails, SafeInv, Answers, Solving
<1>7. iFrame > 0 => Avoids(c, iFrame - 1)
  <2> SUFFICES ASSUME iFrame > 0, NEW s \in F(iFrame - 1), Covers(c, s) PROVE FALSE
    BY DEF Avoids
  <2>1. iFrame - 1 \in Frames \ {iFrame}
    BY <1>4 DEF Frames
  <2>2. Excludes(iFrame - 1, iOutCur)
    BY <1>6, <2>1 DEF SafeInv, FrameInv, ClosedFramesSafe
  <2>3. s \in States
    BY DEF F
  <2>4. <<s, m[2]>> \in Fails[iOutCur]
    BY <1>3, <2>3, TernarySimSteps
  <2> QED
    BY <1>3, <2>2, <2>4 DEF Excludes
<1>8. ob \in Fresh
  <2>1. ob.frame = iFrame /\ Cube(ob) = c
    BY DEF Obligation, Cube
  <2> HIDE DEF ob
  <2> QED
    BY <1>4, <1>5, <1>7, <2>1 DEF Fresh
<1>9. queue' \in Seq(Fresh)
  <2>1. queue' = QueuePush(queue, ob) /\ queue \in Seq(Fresh)
    BY <1>2 DEF FreshInv
  <2> HIDE DEF ob
  <2> QED
    BY <1>8, <2>1, QueuePushType
<1> QED
  BY <1>0, <1>6, <1>9, FreshSame DEF FreshInv, Generalizing, DownLocations

LEMMA FreshThis ==
  ASSUME FreshInv, pThis \in Obligations
  PROVE  pThis \in Fresh
<1>1. pThis \in Fresh \cup {<<>>}
  BY DEF FreshInv
<1>2. pThis # <<>>
  BY DEF Obligations
<1> QED
  BY <1>1, <1>2

\* The first cube of a trace with a step put in front
LEMMA ChainFront ==
  ASSUME NEW c \in Cubes, NEW i \in Ins, NEW chain \in Traces
  PROVE  (<<[cube |-> c, in |-> i]>> \o chain)[1].cube = c
<1> DEFINE first == <<[cube |-> c, in |-> i]>>
<1>1. /\ first \in Seq([cube : Cubes, in : Ins]) /\ Len(first) = 1
      /\ first[1] = [cube |-> c, in |-> i]
  OBVIOUS
<1>2. chain \in Seq([cube : Cubes, in : Ins]) /\ Len(chain) \in Nat
  BY LenProperties DEF Traces
<1> HIDE DEF first
<1>3. (first \o chain)[1] = first[1]
  <2>1. \A j \in 1 .. Len(first) + Len(chain) :
          (first \o chain)[j] = IF j <= Len(first) THEN first[j] ELSE chain[j - Len(first)]
    BY <1>1, <1>2, ConcatProperties
  <2>2. 1 \in 1 .. Len(first) + Len(chain) /\ 1 <= Len(first)
    BY <1>1, <1>2
  <2> QED
    BY <2>1, <2>2
<1> QED
  BY <1>1, <1>3 DEF first

\* The part of a cube that Pdr_ManReduceClause leaves
LEMMA ReduceClauseSubset ==
  ASSUME NEW k, NEW c, NEW r \in ReduceClause(k, c)
  PROVE  r \subseteq c
BY DEF ReduceClause

LEMMA FreshInductFails ==
  ASSUME TypeInv, SafeInv, SoundFlags, FreshInv, InductFails
  PROVE  FreshInv'
<1>0. [Next]_vars
  BY DEF Next, Generalize
<1>1. PICK m \in CubeModels(BeforeThis, Cube(pThis), Cube(pThis)) :
      \E c \in TernarySim(m, StepsInto(Cube(pThis))) :
        queue' = QueuePush(QueuePush(queue, [pThis EXCEPT !.prio = prio]),
                   Obligation(BeforeThis, prio - 1,
                              <<[cube |-> c, in |-> m[2]]>> \o pThis.chain))
  BY DEF InductFails
<1>2. PICK c \in TernarySim(m, StepsInto(Cube(pThis))) :
        queue' = QueuePush(QueuePush(queue, [pThis EXCEPT !.prio = prio]),
                   Obligation(BeforeThis, prio - 1,
                              <<[cube |-> c, in |-> m[2]]>> \o pThis.chain))
  BY <1>1
<1> DEFINE chain == <<[cube |-> c, in |-> m[2]]>> \o pThis.chain
           again == [pThis EXCEPT !.prio = prio]
           ob    == Obligation(BeforeThis, prio - 1, chain)
<1>3. pThis \in Obligations /\ pThis.frame \in 1 .. iFrame /\ iFrame \in Nat /\ prio \in Int
  BY DEF InductFails, TypeInv, TypeOK, Located
<1>4. pThis \in Fresh
  BY <1>3, FreshThis
<1>5. BeforeThis \in Nat /\ BeforeThis = pThis.frame - 1 /\ prio - 1 \in Int
  BY <1>3 DEF BeforeThis
<1>6. m \in States \X Ins /\ m[2] \in Ins
  BY <1>1 DEF CubeModels, Models
<1>7. c \in Cubes /\ pThis.chain \in Traces \ {<<>>}
  BY <1>3, <1>6, TernarySimType DEF Obligations
<1>8. ob \in Obligations /\ again \in Obligations
  BY <1>3, <1>5, <1>6, <1>7, ObligationType, RescheduledType
<1>9. chain[1].cube = c
  BY <1>6, <1>7, ChainFront
<1>10. BeforeThis > 0 => Avoids(c, BeforeThis - 1)
  <2> SUFFICES ASSUME BeforeThis > 0, NEW s \in F(BeforeThis - 1), Covers(c, s) PROVE FALSE
    BY DEF Avoids
  <2>1. BeforeThis - 1 \in Frames \ {iFrame} /\ (BeforeThis - 1) + 1 = BeforeThis
    BY <1>3, <1>5 DEF Frames
  <2>2. s \in States
    BY DEF F
  <2>3. <<s, m[2]>> \in StepsInto(Cube(pThis))
    BY <1>6, <2>2, TernarySimSteps
  <2>4. Trans[<<s, m[2]>>] \in F((BeforeThis - 1) + 1)
    BY <1>6, <2>1 DEF SafeInv, FrameInv, FramesOverApproximate
  <2>5. Trans[<<s, m[2]>>] \in F(BeforeThis)
    BY <2>1, <2>4
  <2>6. Avoids(Cube(pThis), BeforeThis)
    BY <1>3, <1>4, <1>5 DEF Fresh
  <2> QED
    BY <2>3, <2>5, <2>6 DEF Avoids, StepsInto
<1>11. ob \in Fresh
  <2>1. Cube(ob) = c /\ ob.frame = BeforeThis
    BY <1>9 DEF Obligation, Cube
  <2>2. BeforeThis <= iFrame + 1
    BY <1>3, <1>5
  <2> HIDE DEF ob, chain
  <2> QED
    BY <1>8, <1>10, <2>1, <2>2 DEF Fresh
<1>12. again \in Fresh
  <2>1. Cube(again) = Cube(pThis) /\ again.frame = pThis.frame
    BY <1>3 DEF Obligations, Cube
  <2> HIDE DEF again
  <2> QED
    BY <1>4, <1>8, <2>1 DEF Fresh
<1>13. QueuePush(QueuePush(queue, again), ob) \in Seq(Fresh)
  <2> HIDE DEF again, ob
  <2>1. QueuePush(queue, again) \in Seq(Fresh)
    BY <1>12, QueuePushType DEF FreshInv
  <2> QED
    BY <1>11, <2>1, QueuePushType
<1>14. pThis' = <<>> /\ pc' = "block"
  BY DEF InductFails, Release
<1> QED
  BY <1>0, <1>2, <1>13, <1>14, FreshSame DEF FreshInv, Generalizing, DownLocations

\* The clause that is added blocks the rescheduled obligation where it was
LEMMA FreshAddClause ==
  ASSUME TypeInv, SafeInv, SoundFlags, FreshInv, AddClause
  PROVE  FreshInv'
<1>0. [Next]_vars
  BY DEF Next, Generalize
<1>1. /\ pThis \in Obligations /\ pThis.frame \in 1 .. iFrame /\ iFrame \in Nat
      /\ kCur \in pThis.frame .. iFrame /\ prio \in Int /\ pThis.frame \in Nat
      /\ pCubeMin \in Cubes /\ vClauses \in [Frames -> SUBSET Cubes]
  BY CubeType DEF AddClause, TypeInv, TypeOK, Located
<1>2. pThis' = <<>> /\ pc' = "block" /\ iFrame' = iFrame
  BY DEF AddClause, Release
<1> PICK n : n = kCur
  OBVIOUS
<1> PICK this : this = pThis
  OBVIOUS
<1> PICK c : c = pCubeMin
  OBVIOUS
<1>3. Avoids(Cube(this), n)'
  <2> SUFFICES ASSUME NEW s \in F(n)', Covers(Cube(this), s) PROVE FALSE
    BY DEF Avoids
  <2>1. n \in Frames /\ n \in n .. iFrame
    BY <1>1 DEF Frames
  <2>2. c \in vClauses'[n]
    BY <1>1, <2>1 DEF AddClause
  <2>3. c \in UNION {vClauses'[j] : j \in n .. iFrame'}
    BY <1>2, <2>1, <2>2
  <2>4. c \in ClausesFrom(n)'
    BY <2>3 DEF ClausesFrom
  <2>5. ~Covers(c, s)
    BY <2>4 DEF F
  <2>6. c \subseteq Cube(this)
    BY DEF FreshInv, AddClause, Generalizing
  <2> QED
    BY <2>5, <2>6, CoversSubset
<1>4. queue' \in Seq(Fresh')
  <2>1. CASE ~Reschedules
    BY <1>0, <2>1, FreshSame DEF AddClause, FreshInv
  <2>2. CASE Reschedules
    <3> DEFINE again == [this EXCEPT !.frame = n + 1, !.prio = prio]
    <3>1. n + 1 \in Nat /\ n + 1 <= iFrame' + 1 /\ (n + 1) - 1 = n
      BY <1>1, <1>2
    <3>2. again \in Obligations /\ Cube(again) = Cube(this) /\ again.frame = n + 1
      BY <1>1, <3>1, RescheduledType DEF Obligations, Cube
    <3>3. again \in Fresh'
      <4> PICK ob : ob = again
        OBVIOUS
      <4>1. ob \in Obligations /\ Cube(ob) = Cube(this) /\ ob.frame = n + 1
        BY <3>2
      <4>2. Avoids(Cube(ob), ob.frame - 1)'
        BY <1>3, <3>1, <4>1
      <4>3. ob \in Fresh'
        BY <3>1, <4>1, <4>2 DEF Fresh
      <4> QED
        BY <4>3
    <3>4. queue \in Seq(Fresh')
      BY <1>0, FreshSame DEF FreshInv
    <3>5. QueuePush(queue, again) \in Seq(Fresh')
      <4> HIDE DEF again
      <4> QED
        BY <3>3, <3>4, QueuePushType
    <3> QED
      BY <2>2, <3>5 DEF AddClause
  <2> QED
    BY <2>1, <2>2
<1> QED
  BY <1>2, <1>4 DEF FreshInv, Generalizing, DownLocations

LEMMA FreshDown ==
  ASSUME TypeInv, SafeInv, SoundFlags, FreshInv, Down
  PROVE  FreshInv'
<1>0. [Next]_vars
  BY DEF Next, Generalize
<1>1. /\ UNCHANGED <<queue, pThis>> /\ pc \in DownLocations /\ pCubeMin \subseteq Cube(pThis)
      /\ down.cube \subseteq pCubeMin
  <2>1. UNCHANGED <<queue, pThis>> /\ pc \in DownLocations
    BY DEF Down, CtgAssume, CtgHolds, CtgStays, CtgPushed, CtgStops, CtgDrop, CtgKeep, CtgAdd,
      RetryHolds, RetryFails, JoinFails, JoinHolds, JoinAgain, DownHolds, queueVars, DownLocations
  <2> QED
    BY <2>1 DEF FreshInv, Generalizing, SafeInv, DownInv
<1>2. pCubeMin' \subseteq pCubeMin
  <2>1. CASE RetryHolds
    BY <1>1, <2>1 DEF RetryHolds, DownHolds
  <2>2. CASE JoinHolds
    BY <1>1, <2>2 DEF JoinHolds, DownHolds, Joined
  <2>3. CASE Down /\ ~RetryHolds /\ ~JoinHolds
    BY <2>3 DEF Down, CtgAssume, CtgHolds, CtgStays, CtgPushed, CtgStops, CtgDrop, CtgKeep, CtgAdd,
      RetryFails, JoinFails, JoinAgain, cubeVars
  <2> QED
    BY <2>1, <2>2, <2>3
<1> QED
  BY <1>0, <1>1, <1>2, FreshKept

LEMMA FreshGeneralize ==
  ASSUME TypeInv, SafeInv, SoundFlags, FreshInv, Generalize, ~(InductFails \/ AddClause \/ Down)
  PROVE  FreshInv'
<1>0. [Next]_vars
  BY DEF Next
<1>1. UNCHANGED <<queue, pThis>>
  BY DEF Generalize, InductHolds, Generalized, DropLiteral, KeepLiteral, DownStarts, ForwardHolds,
    ForwardStops, queueVars
<1>2. pCubeMin' \subseteq Cube(pThis)
  <2>1. CASE InductHolds
    <3>1. pThis \in Obligations /\ pCubeMin' \in ReduceClause(BeforeThis, Cube(pThis))
      BY <2>1 DEF InductHolds, TypeInv, Located
    <3> QED
      BY <3>1, ReduceClauseSubset
  <2>2. CASE ~InductHolds
    <3>1. pCubeMin' \subseteq pCubeMin /\ pc \in Generalizing
      BY <2>2 DEF Generalize, Generalized, DropLiteral, KeepLiteral, DownStarts, ForwardHolds,
        ForwardStops, cubeVars, Generalizing
    <3> QED
      BY <3>1 DEF FreshInv
  <2> QED
    BY <2>1, <2>2
<1> QED
  BY <1>0, <1>1, <1>2, FreshKept

LEMMA FreshStep ==
  ASSUME TypeInv, SafeInv, SoundFlags, FreshInv, [Next]_vars
  PROVE  FreshInv'
<1>1. CASE (Outputs /\ ~PropertyFails) \/ PushClauses
  <2>1. UNCHANGED <<queue, pThis>> /\ pc' \notin Generalizing
    BY <1>1 DEF Outputs, SkipOutput, TrivialOutput, StartOutput, PropertyHolds, EndOutput, Return,
      PushClauses, CloseFrame, PushFails, PushHolds, PushNextFrame, Proved, OpenFrame, AllPushed,
      queueVars, Generalizing, DownLocations
  <2> QED
    BY <2>1, FreshKept
<1>2. CASE PropertyFails
  BY <1>2, FreshPropertyFails
<1>3. CASE Block
  <2>1. /\ queue' \in {queue, <<>>} \/ (queue # <<>> /\ queue' = Tail(queue))
        /\ pThis' = pThis \/ (queue # <<>> /\ pThis' = HeadOb)
        /\ pc' \notin Generalizing
    BY <1>3 DEF Block, FoundCex, CubeBlocked, Restart, PopBlocked, PopOpen, PopObligation, Pending,
      Return, queueVars, Generalizing, DownLocations
  <2> QED
    BY <2>1, FreshKept
<1>4. CASE InductFails \/ AddClause
  BY <1>4, FreshInductFails, FreshAddClause
<1>5. CASE Down
  BY <1>5, FreshDown
<1>6. CASE Generalize /\ ~(InductFails \/ AddClause \/ Down)
  BY <1>6, FreshGeneralize
<1>7. CASE Abort \/ OutputTimesOut
  <2>1. queue' \in {queue, <<>>} /\ pThis' \in {pThis, <<>>} /\ pc' \notin Generalizing
    BY <1>7 DEF Abort, OutputTimesOut, Release, Return, EndOutput, queueVars, Generalizing,
      DownLocations
  <2> QED
    BY <2>1, FreshKept
<1>8. CASE UNCHANGED vars
  <2>1. UNCHANGED <<queue, pThis, pCubeMin, pc>>
    BY <1>8 DEF vars, queueVars, cubeVars
  <2> QED
    BY <2>1, FreshKept DEF FreshInv
<1> QED
  BY <1>1, <1>2, <1>3, <1>4, <1>5, <1>6, <1>7, <1>8 DEF Next, Returned, Generalize

(***************************************************************************)
(* No state of an obligation at timeframe f is left in timeframe f-1, also *)
(* after it was scheduled again and when it comes from an earlier call:    *)
(* what Pdr_ManBlockCube asserts with !Pdr_SetIsInit, and why the engine   *)
(* makes progress.                                                         *)
(***************************************************************************)
THEOREM FreshCorrect ==
  ASSUME SoundFlags
  PROVE  Spec => []ObligationsFresh
<1>1. Init => TypeInv /\ SafeInv /\ FreshInv
  <2> SUFFICES ASSUME Init PROVE FreshInv
    BY TypeInit, SafeInit
  <2>1. \A S : <<>> \in Seq(S)
    OBVIOUS
  <2> QED
    BY <2>1 DEF Init, FreshInv, Generalizing, DownLocations
<1>2. TypeInv /\ SafeInv /\ FreshInv /\ [Next]_vars => TypeInv' /\ SafeInv' /\ FreshInv'
  BY TypeStep, SafeStep, FreshStep
<1>3. TypeInv /\ SafeInv /\ FreshInv => ObligationsFresh
  <2> SUFFICES ASSUME TypeInv, FreshInv, NEW ob \in Pendings, ob.frame > 0,
                      NEW s \in F(Min2(ob.frame - 1, iFrame))
               PROVE  ~Covers(Cube(ob), s)
    BY DEF ObligationsFresh
  <2>1. \A j \in DOMAIN queue : queue[j] \in Fresh
    BY LenProperties, ElementOfSeq DEF FreshInv
  <2>2. ob \in Fresh /\ iFrame \in Nat
    BY <2>1 DEF Pendings, FreshInv, TypeInv, TypeOK
  <2>3. ob.frame \in Nat /\ ob.frame <= iFrame + 1
    BY <2>2, CubeType DEF Fresh
  <2>4. Min2(ob.frame - 1, iFrame) = ob.frame - 1
    BY <2>2, <2>3 DEF Min2
  <2> QED
    BY <2>2, <2>4 DEF Fresh, Avoids
<1> QED
  BY <1>1, <1>2, <1>3, PTL DEF Spec

-----------------------------------------------------------------------------
(* The traces are shortest *)

\* What is reachable within k steps, and the definition of ReachableWithin
Within(n, f) ==
  /\ f \in [0 .. n - 1 -> SUBSET States]
  /\ \A j \in 0 .. n - 1 :
       f[j] = IF j = 0 THEN {InitState} ELSE f[j - 1] \cup {Trans[m] : m \in f[j - 1] \X Ins}

LEMMA WithinExists ==
  ASSUME NEW k \in Nat
  PROVE  \E f : Within(k + 1, f)
<1> DEFINE S == {n \in 1 .. k + 1 : \E f : Within(n, f)}
<1>1. 1 \in S
  <2>1. Within(1, [j \in 0 .. 0 |-> {InitState}])
    BY DEF Within, States, InitState
  <2> QED
    BY <2>1
<1>2. ASSUME NEW n \in 1 .. (k + 1) - 1, n \in S PROVE n + 1 \in S
  <2>1. PICK f : Within(n, f)
    BY <1>2
  <2> DEFINE last == f[n - 1] \cup {Trans[m] : m \in f[n - 1] \X Ins}
             long == [j \in 0 .. n |-> IF j <= n - 1 THEN f[j] ELSE last]
  <2>2. n \in Nat \ {0} /\ n - 1 \in 0 .. n - 1 /\ f[n - 1] \in SUBSET States
    BY <2>1 DEF Within
  <2>3. last \in SUBSET States
    BY <2>2, CircuitAssumption
  <2>4. long \in [0 .. (n + 1) - 1 -> SUBSET States]
    BY <2>1, <2>2, <2>3 DEF Within
  <2>5. ASSUME NEW j \in 0 .. (n + 1) - 1
        PROVE  long[j] = IF j = 0 THEN {InitState}
                         ELSE long[j - 1] \cup {Trans[m] : m \in long[j - 1] \X Ins}
    <3>1. CASE j <= n - 1
      <4>1. long[j] = f[j] /\ (j # 0 => long[j - 1] = f[j - 1]) /\ j \in 0 .. n - 1
        BY <2>2, <3>1
      <4> QED
        BY <2>1, <4>1 DEF Within
    <3>2. CASE ~(j <= n - 1)
      <4>1. j = n /\ long[j] = last /\ long[j - 1] = f[n - 1] /\ j # 0
        BY <2>2, <3>2
      <4> QED
        BY <4>1
    <3> QED
      BY <3>1, <3>2
  <2>6. Within(n + 1, long)
    <3> HIDE DEF long
    <3> QED
      BY <2>4, <2>5 DEF Within
  <2> QED
    BY <2>2, <2>6
<1>3. k + 1 \in S
  <2> HIDE DEF S
  <2> QED
    BY <1>1, <1>2, Climb
<1> QED
  BY <1>3

\* A timeframe allows every state that is reachable within so many steps
LEMMA ReachableInFrame ==
  ASSUME TypeInv, FramesOverApproximate, NEW k \in Frames
  PROVE  ReachableWithin(k) \subseteq F(k)
<1> DEFINE Defines(f) == f = [j \in 0 .. k |->
             IF j = 0 THEN {InitState} ELSE f[j - 1] \cup {Trans[m] : m \in f[j - 1] \X Ins}]
           r == CHOOSE f : Defines(f)
<1>1. k \in Nat /\ k <= iFrame /\ iFrame \in Nat
  BY DEF Frames, TypeInv, TypeOK
<1>2. PICK f : Within(k + 1, f)
  BY <1>1, WithinExists
<1>3. Defines(f)
  <2>1. (k + 1) - 1 = k
    BY <1>1
  <2> QED
    BY <1>2, <2>1 DEF Within
<1>4. Defines(r)
  BY <1>3
<1>5. ReachableWithin(k) = r[k]
  BY DEF ReachableWithin
<1> HIDE DEF r
<1>6. \A j \in 0 .. k : r[j] = IF j = 0 THEN {InitState}
                               ELSE r[j - 1] \cup {Trans[m] : m \in r[j - 1] \X Ins}
  BY <1>4
<1> DEFINE S == {n \in 1 .. k + 1 : r[n - 1] \subseteq F(n - 1)}
<1>7. 1 \in S
  <2>1. 0 \in Frames /\ 0 \in 0 .. k
    BY <1>1 DEF Frames
  <2>2. r[0] = {InitState}
    BY <1>6, <2>1
  <2>3. InitState \in F(0)
    BY <2>1 DEF FramesOverApproximate
  <2> QED
    BY <1>1, <2>2, <2>3
<1>8. ASSUME NEW n \in 1 .. (k + 1) - 1, n \in S PROVE n + 1 \in S
  <2>1. /\ n - 1 \in Frames \ {iFrame} /\ n \in Frames /\ n \in 0 .. k /\ n # 0 /\ n - 1 <= n
        /\ (n - 1) + 1 = n /\ (n + 1) - 1 = n
    BY <1>1 DEF Frames
  <2>2. r[n] = r[n - 1] \cup {Trans[m] : m \in r[n - 1] \X Ins}
    BY <1>6, <2>1
  <2>3. r[n - 1] \subseteq F(n - 1)
    BY <1>8
  <2>4. F(n - 1) \subseteq F(n)
    BY <2>1, FramesMonotone
  <2>5. \A s \in F(n - 1), i \in Ins : Trans[<<s, i>>] \in F(n)
    BY <2>1 DEF FramesOverApproximate
  <2>6. \A m \in r[n - 1] \X Ins : Trans[m] \in F(n)
    BY <2>3, <2>5
  <2> QED
    BY <1>1, <2>1, <2>2, <2>3, <2>4, <2>6
<1>9. k + 1 \in S
  <2> HIDE DEF S
  <2> QED
    BY <1>1, <1>7, <1>8, Climb
<1> QED
  BY <1>1, <1>5, <1>9

\* The trace of obligations that are pushed is one step longer each
LEMMA ChainLength ==
  ASSUME NEW c \in Cubes, NEW i \in Ins
  PROVE  /\ Len(<<[cube |-> c, in |-> i]>>) = 1
         /\ \A chain \in Traces : Len(<<[cube |-> c, in |-> i]>> \o chain) = Len(chain) + 1
<1> DEFINE first == <<[cube |-> c, in |-> i]>>
<1>1. first \in Seq([cube : Cubes, in : Ins]) /\ Len(first) = 1
  OBVIOUS
<1> HIDE DEF first
<1>2. ASSUME NEW chain \in Traces PROVE Len(first \o chain) = Len(chain) + 1
  <2>1. chain \in Seq([cube : Cubes, in : Ins]) /\ Len(chain) \in Nat
    BY LenProperties DEF Traces
  <2> QED
    BY <1>1, <2>1, ConcatProperties
<1> QED
  BY <1>1, <1>2 DEF first

\* Steps that push nothing
LEMMA DirectKept ==
  ASSUME TypeInv, DirectInv, iFrame' = iFrame,
         \/ queue' = queue /\ pThis' = pThis /\ (pc' = pc \/ pc' \notin Idle \cup {"block"})
         \/ queue' = <<>> /\ pThis' = <<>>
  PROVE  DirectInv'
<1>1. \A S : <<>> \in Seq(S)
  OBVIOUS
<1>2. Direct' = Direct
  BY DEF Direct
<1> QED
  BY <1>1, <1>2 DEF DirectInv

\* ... and those that take the head of the queue
LEMMA DirectPop ==
  ASSUME TypeInv, DirectInv, PopObligation, UNCHANGED iFrame,
         UNCHANGED <<pThis, pc>> \/ (pThis' = HeadOb /\ pc' = "induct")
  PROVE  DirectInv'
<1>1. Direct' = Direct
  BY DEF Direct
<1>2. queue # <<>> /\ queue' = Tail(queue)
  BY DEF PopObligation, Pending
<1>3. HeadOb \in Direct /\ Tail(queue) \in Seq(Direct)
  BY <1>2, HeadTailProperties DEF DirectInv, HeadOb
<1>4. pThis' \in Direct \cup {<<>>}
  BY <1>3 DEF DirectInv
<1>5. pc' \notin Idle /\ (pc' = "block" => pThis' = pThis /\ pc = "block")
  BY DEF Idle, PopObligation, Pending
<1> QED
  BY <1>1, <1>2, <1>3, <1>4, <1>5 DEF DirectInv

LEMMA DirectBlock ==
  ASSUME TypeInv, DirectInv, Block
  PROVE  DirectInv'
<1>0. pThis = <<>>
  BY DEF DirectInv, Block, FoundCex, CubeBlocked, Restart, PopBlocked, PopOpen, PopObligation, Pending
<1>1. CASE CubeBlocked
  <2>1. queue = <<>>
    <3> SUFFICES ASSUME queue # <<>> PROVE FALSE
      OBVIOUS
    <3>1. HeadOb \in Direct /\ iFrame \in Nat
      BY HeadTailProperties DEF DirectInv, HeadOb, TypeInv, TypeOK
    <3>2. HeadOb.frame \in Nat /\ Len(HeadOb.chain) \in Nat \ {0}
      BY <3>1, CubeType, TraceType DEF Direct, Obligations
    <3> QED
      BY <1>1, <3>1, <3>2 DEF CubeBlocked, Direct
  <2> QED
    BY <1>0, <1>1, <2>1, DirectKept DEF CubeBlocked, queueVars
<1>2. CASE FoundCex
  <2>1. iFrame' = iFrame /\ pThis' = pThis
    BY <1>2 DEF FoundCex
  <2>2. CASE queue' = <<>>
    BY <1>0, <2>1, <2>2, DirectKept
  <2>3. CASE queue' = queue /\ pc' = "done"
    BY <2>1, <2>3, DirectKept DEF Idle
  <2> QED
    BY <1>2, <2>2, <2>3 DEF FoundCex, Return
<1>3. CASE Restart
  BY <1>0, <1>3, DirectKept DEF Restart
<1>4. CASE PopBlocked
  <2>1. PopObligation /\ iFrame' = iFrame /\ pThis' = pThis /\ pc' = pc /\ pc = "block"
    BY <1>4 DEF PopBlocked, PopObligation, Pending
  <2> QED
    BY <2>1, DirectPop
<1>5. CASE PopOpen
  <2>1. PopObligation /\ iFrame' = iFrame /\ pThis' = HeadOb /\ pc' = "induct"
    BY <1>5 DEF PopOpen
  <2> QED
    BY <2>1, DirectPop
<1> QED
  BY <1>1, <1>2, <1>3, <1>4, <1>5 DEF Block

LEMMA DirectPropertyFails ==
  ASSUME TypeInv, DirectInv, PropertyFails
  PROVE  DirectInv'
<1>1. PICK m \in PropertyModels(iFrame) : \E c \in TernarySim(m, Fails[iOutCur]) :
        queue' = QueuePush(queue, Obligation(iFrame, 0, <<[cube |-> c, in |-> m[2]]>>))
  BY DEF PropertyFails
<1>2. PICK c \in TernarySim(m, Fails[iOutCur]) :
        queue' = QueuePush(queue, Obligation(iFrame, 0, <<[cube |-> c, in |-> m[2]]>>))
  BY <1>1
<1> DEFINE chain == <<[cube |-> c, in |-> m[2]]>>
           ob == Obligation(iFrame, 0, chain)
<1>3. m \in States \X Ins /\ m[2] \in Ins
  BY <1>1 DEF PropertyModels, Models
<1>4. c \in Cubes /\ iFrame \in Nat
  BY <1>3, TernarySimType DEF TypeInv, TypeOK
<1>5. ob \in Obligations /\ Len(chain) = 1
  BY <1>3, <1>4, ObligationType, ChainLength
<1>6. ob \in Direct
  <2>1. ob.chain = chain /\ ob.frame = iFrame
    BY DEF Obligation
  <2> HIDE DEF ob, chain
  <2> QED
    BY <1>5, <2>1 DEF Direct
<1>7. queue' \in Seq(Direct)
  <2>1. queue' = QueuePush(queue, ob) /\ queue \in Seq(Direct)
    BY <1>2 DEF DirectInv
  <2> HIDE DEF ob
  <2> QED
    BY <1>6, <2>1, QueuePushType
<1>8. UNCHANGED <<iFrame, pThis>> /\ pc = "property" /\ pc' = "block"
  BY DEF PropertyFails
<1>9. Direct' = Direct
  BY <1>8 DEF Direct
<1> QED
  BY <1>7, <1>8, <1>9 DEF DirectInv, Idle

LEMMA DirectThis ==
  ASSUME DirectInv, pThis \in Obligations
  PROVE  pThis \in Direct
<1>1. pThis \in Direct \cup {<<>>}
  BY DEF DirectInv
<1>2. pThis # <<>>
  BY DEF Obligations
<1> QED
  BY <1>1, <1>2

LEMMA DirectInductFails ==
  ASSUME TypeInv, DirectInv, InductFails
  PROVE  DirectInv'
<1>1. PICK m \in CubeModels(BeforeThis, Cube(pThis), Cube(pThis)) :
      \E c \in TernarySim(m, StepsInto(Cube(pThis))) :
        queue' = QueuePush(QueuePush(queue, [pThis EXCEPT !.prio = prio]),
                   Obligation(BeforeThis, prio - 1,
                              <<[cube |-> c, in |-> m[2]]>> \o pThis.chain))
  BY DEF InductFails
<1>2. PICK c \in TernarySim(m, StepsInto(Cube(pThis))) :
        queue' = QueuePush(QueuePush(queue, [pThis EXCEPT !.prio = prio]),
                   Obligation(BeforeThis, prio - 1,
                              <<[cube |-> c, in |-> m[2]]>> \o pThis.chain))
  BY <1>1
<1> DEFINE chain == <<[cube |-> c, in |-> m[2]]>> \o pThis.chain
           again == [pThis EXCEPT !.prio = prio]
           ob    == Obligation(BeforeThis, prio - 1, chain)
<1>3. pThis \in Obligations /\ pThis.frame \in 1 .. iFrame /\ iFrame \in Nat /\ prio \in Int
  BY DEF InductFails, TypeInv, TypeOK, Located
<1>5. pThis \in Direct
  BY <1>3, DirectThis
<1>6. BeforeThis \in Nat /\ BeforeThis = pThis.frame - 1 /\ prio - 1 \in Int
  BY <1>3 DEF BeforeThis
<1>7. m \in States \X Ins /\ m[2] \in Ins
  BY <1>1 DEF CubeModels, Models
<1>8. c \in Cubes /\ pThis.chain \in Traces \ {<<>>}
  BY <1>3, <1>7, TernarySimType DEF Obligations
<1>9. ob \in Obligations /\ again \in Obligations
  BY <1>3, <1>6, <1>7, <1>8, ObligationType, RescheduledType
<1>10. Len(chain) = Len(pThis.chain) + 1 /\ Len(pThis.chain) \in Nat
  BY <1>7, <1>8, ChainLength, TraceType
<1>11. ob \in Direct
  <2>1. ob.chain = chain /\ ob.frame = BeforeThis
    BY DEF Obligation
  <2>2. pThis.frame + Len(pThis.chain) = iFrame + 1
    BY <1>5 DEF Direct
  <2>3. BeforeThis + Len(chain) = iFrame + 1
    <3> HIDE DEF chain
    <3> QED
      BY <1>3, <1>6, <1>10, <2>2
  <2> HIDE DEF ob, chain
  <2> QED
    BY <1>9, <2>1, <2>3 DEF Direct
<1>12. again \in Direct
  <2>1. again.chain = pThis.chain /\ again.frame = pThis.frame
    BY <1>3 DEF Obligations
  <2> HIDE DEF again
  <2> QED
    BY <1>5, <1>9, <2>1 DEF Direct
<1>13. QueuePush(QueuePush(queue, again), ob) \in Seq(Direct)
  <2> HIDE DEF again, ob
  <2>1. QueuePush(queue, again) \in Seq(Direct)
    BY <1>12, QueuePushType DEF DirectInv
  <2> QED
    BY <1>11, <2>1, QueuePushType
<1>14. iFrame' = iFrame /\ pThis' = <<>> /\ pc' = "block"
  BY DEF InductFails, Release
<1>15. Direct' = Direct
  BY <1>14 DEF Direct
<1> QED
  BY <1>2, <1>13, <1>14, <1>15 DEF DirectInv, Idle

LEMMA DirectStep ==
  ASSUME TypeInv, DirectInv, Shortest, [Next]_vars
  PROVE  DirectInv'
<1>1. CASE (Outputs /\ ~PropertyFails) \/ PushClauses
  <2>1. pc \in Idle /\ UNCHANGED <<queue, pThis>>
    BY <1>1 DEF Outputs, SkipOutput, TrivialOutput, StartOutput, PropertyHolds, PushClauses,
      CloseFrame, PushFails, PushHolds, PushNextFrame, Proved, OpenFrame, AllPushed, queueVars, Idle
  <2>2. queue' = <<>> /\ pThis' = <<>>
    BY <2>1 DEF DirectInv
  <2>3. \A S : <<>> \in Seq(S)
    OBVIOUS
  <2> QED
    BY <2>2, <2>3 DEF DirectInv
<1>2. CASE PropertyFails
  BY <1>2, DirectPropertyFails
<1>3. CASE Block
  BY <1>3, DirectBlock
<1>4. CASE InductFails
  BY <1>4, DirectInductFails
<1>5. CASE AddClause
  <2>1. iFrame' = iFrame /\ queue' = queue /\ pThis' = <<>> /\ pc' = "block"
    BY <1>5 DEF AddClause, Reschedules, Release
  <2>2. Direct' = Direct
    BY <2>1 DEF Direct
  <2> QED
    BY <2>1, <2>2 DEF DirectInv, Idle
<1>6. CASE Down
  <2>1. UNCHANGED <<queue, pThis, iFrame>> /\ pc' \notin Idle \cup {"block"}
    BY <1>6 DEF Down, CtgAssume, CtgHolds, CtgStays, CtgPushed, CtgStops, CtgDrop, CtgKeep, CtgAdd,
      RetryHolds, RetryFails, JoinFails, JoinHolds, JoinAgain, DownHolds, queueVars, Idle
  <2> QED
    BY <2>1, DirectKept
<1>7. CASE Generalize /\ ~(InductFails \/ AddClause \/ Down)
  <2>1. UNCHANGED <<queue, pThis, iFrame>> /\ pc' \notin Idle \cup {"block"}
    BY <1>7 DEF Generalize, InductHolds, Generalized, DropLiteral, KeepLiteral, DownStarts,
      ForwardHolds, ForwardStops, queueVars, Idle
  <2> QED
    BY <2>1, DirectKept
<1>8. CASE Abort
  BY <1>8, DirectKept DEF Abort, Return, queueVars, Idle
<1>9. CASE OutputTimesOut
  BY <1>9, DirectKept DEF OutputTimesOut, Release
<1>10. CASE UNCHANGED vars
  <2>1. UNCHANGED <<queue, pThis, iFrame, pc>>
    BY <1>10 DEF vars, queueVars
  <2> QED
    BY <2>1, DirectKept
<1> QED
  BY <1>1, <1>2, <1>3, <1>4, <1>5, <1>6, <1>7, <1>8, <1>9, <1>10 DEF Next, Returned, Generalize

\* An output that is still live could not have failed before the last timeframe
LEMMA NotEarlier ==
  ASSUME TypeInv, SafeInv, NEW o \in LiveOuts, iFrame > 0
  PROVE  ~ \E m \in ReachableWithin(iFrame - 1) \X Ins : m \in Fails[o]
<1>1. iFrame - 1 \in Frames \ {iFrame}
  BY DEF Frames, TypeInv, TypeOK
<1>2. Excludes(iFrame - 1, o)
  BY <1>1 DEF SafeInv, FrameInv, ClosedFramesSafe
<1>3. ReachableWithin(iFrame - 1) \subseteq F(iFrame - 1)
  BY <1>1, ReachableInFrame DEF SafeInv, FrameInv
<1> QED
  BY <1>2, <1>3 DEF Excludes

\* Recording a trace that ends in the last timeframe
LEMMA ShortestRecorded ==
  ASSUME TypeInv, SafeInv, CexesAreShortest, iOutCur \in LiveOuts,
         NEW chain \in Traces, Len(chain) = iFrame + 1, RecordCex(chain)
  PROVE  CexesAreShortest'
<1>1. vCexes \in [Outs -> Traces] /\ vCexes' = [vCexes EXCEPT ![iOutCur] = chain] /\ iFrame \in Nat
  BY DEF RecordCex, TypeInv, TypeOK
<1> SUFFICES ASSUME Shortest, NEW o \in Outs, Len(vCexes'[o]) > 1
             PROVE  ~ \E m \in ReachableWithin(Len(vCexes'[o]) - 2) \X Ins : m \in Fails[o]
  BY DEF CexesAreShortest
<1>2. CASE o = iOutCur
  <2>1. vCexes'[o] = chain
    BY <1>1, <1>2
  <2>2. Len(vCexes'[o]) - 2 = iFrame - 1 /\ iFrame > 0
    BY <1>1, <2>1
  <2> QED
    BY <1>2, <2>2, NotEarlier
<1>3. CASE o # iOutCur
  <2>1. vCexes'[o] = vCexes[o]
    BY <1>1, <1>3
  <2> QED
    BY <2>1 DEF CexesAreShortest
<1> QED
  BY <1>2, <1>3

LEMMA ShortestStep ==
  ASSUME TypeInv, SafeInv, DirectInv, Shortest, CexesAreShortest, [Next]_vars
  PROVE  CexesAreShortest'
<1>1. CASE TrivialOutput
  <2>1. PICK i \in Ins : RecordCex([j \in 1 .. iFrame + 1 |-> [cube |-> {}, in |-> i]])
    BY <1>1 DEF TrivialOutput
  <2>2. iOutCur \in LiveOuts \cap Const1 /\ iFrame \in Nat
    BY <1>1 DEF TrivialOutput, TypeInv, TypeOK
  <2> DEFINE chain == [j \in 1 .. iFrame + 1 |-> [cube |-> {}, in |-> i]]
  <2>3. chain \in Traces
    BY <2>2, TrivialTrace
  <2>4. Len(chain) = iFrame + 1
    <3>1. DOMAIN chain = 1 .. iFrame + 1 /\ Len(chain) \in Nat /\ DOMAIN chain = 1 .. Len(chain)
      BY <2>3, LenProperties DEF Traces
    <3> HIDE DEF chain
    <3>2. 1 .. Len(chain) = 1 .. iFrame + 1 /\ iFrame + 1 \in Nat
      BY <2>2, <3>1
    <3> QED
      BY <3>1, <3>2
  <2> HIDE DEF chain
  <2> QED
    BY <2>1, <2>2, <2>3, <2>4, ShortestRecorded DEF chain
<1>2. CASE FoundCex
  <2>1. HeadOb \in Direct /\ HeadOb.frame = 0 /\ RecordCex(HeadOb.chain)
    BY <1>2, HeadTailProperties DEF FoundCex, DirectInv, HeadOb
  <2>2. HeadOb.chain \in Traces /\ Len(HeadOb.chain) \in Nat /\ iFrame \in Nat
    BY <2>1, CubeType, TraceType DEF Direct, Obligations, TypeInv, TypeOK
  <2>3. Len(HeadOb.chain) = iFrame + 1
    BY <2>1, <2>2 DEF Direct
  <2>4. iOutCur \in LiveOuts
    BY <1>2 DEF FoundCex, SafeInv, Answers, Solving
  <2> QED
    BY <2>1, <2>2, <2>3, <2>4, ShortestRecorded
<1>3. CASE ~(TrivialOutput \/ FoundCex)
  BY <1>3, SameCexes DEF CexesAreShortest
<1> QED
  BY <1>1, <1>2, <1>3

(***************************************************************************)
(* With -q the counter-example of an output is as short as any: it was     *)
(* found in the first timeframe the output can fail in, as every timeframe *)
(* before that excludes the failure.                                       *)
(***************************************************************************)
THEOREM ShortestCorrect ==
  ASSUME SoundFlags
  PROVE  Spec => []CexesAreShortest
<1>1. CASE ~Shortest
  <2>1. TypeInv /\ SafeInv => CexesAreShortest
    BY <1>1 DEF CexesAreShortest
  <2> QED
    BY <2>1, SafeInvariant, PTL
<1>2. CASE Shortest
  <2>1. Init => DirectInv /\ CexesAreShortest
    <3> SUFFICES ASSUME Init PROVE DirectInv /\ CexesAreShortest
      OBVIOUS
    <3>1. \A S : <<>> \in Seq(S)
      OBVIOUS
    <3>2. \A o \in Outs : vCexes[o] = <<>>
      BY DEF Init
    <3> QED
      BY <3>1, <3>2 DEF Init, DirectInv, CexesAreShortest
  <2>2. TypeInv /\ SafeInv /\ DirectInv /\ CexesAreShortest /\ [Next]_vars
          => DirectInv' /\ CexesAreShortest'
    BY <1>2, DirectStep, ShortestStep
  <2>3. Spec => [](TypeInv /\ SafeInv)
    BY SafeInvariant
  <2> QED
    BY <2>1, <2>2, <2>3, PTL DEF Spec
<1> QED
  BY <1>1, <1>2

-----------------------------------------------------------------------------
(* The answers *)

\* An output fed by constant 0 cannot be asserted
LEMMA Const0NotViolable ==
  ASSUME NEW o \in Const0
  PROVE  ~Violable(o)
<1>1. Fails[o] = {}
  BY PdrAssumption
<1>2. InitState \in States /\ Closed(States)
  BY CircuitAssumption DEF Closed, States, InitState
<1> QED
  BY <1>1, <1>2 DEF Violable

\* What may become of the answer to output o
Answering(o, answer) ==
  \/ answer = vOutMap[o]
  \/ /\ vOutMap[o] = "unknown"
     /\ \/ answer = "failed" /\ Violable(o)
        \/ answer = "proved" /\ ~Violable(o)
        \/ answer = "undecided"

Returning(value) ==
  \/ value = "unsat" /\ \A o \in Outs : ~Violable(o)
  \/ value = "sat" /\ \E o \in Outs : Violable(o)
  \/ value = "undecided"

\* A step of Verdicts
LEMMA AnswerStep ==
  ASSUME TypeOK', result = "running", \A o \in Outs : Answering(o, vOutMap'[o]),
         \/ result' = "running"
         \/ (SolveAll => \A o \in Outs : vOutMap'[o] # "unknown") /\ Returning(result')
  PROVE  V!Next
<1>1. \A o \in Outs : V!Violable(o) = Violable(o)
  BY DEF V!Violable, Violable, V!Closed, Closed, V!States, States, V!Regs, Regs, V!InitState,
    InitState
<1>2. V!Outs = Outs
  BY DEF V!Outs, Outs
<1>3. \A o \in Outs : V!Answer(o)
  BY <1>1 DEF V!Answer, Answering
<1>4. V!Result
  BY <1>1, <1>2 DEF V!Result, Returning
<1>5. vOutMap' \in [Outs -> {"unknown", "failed", "proved", "undecided"}]
  BY DEF TypeOK
<1> QED
  BY <1>2, <1>3, <1>4, <1>5 DEF V!Next

\* ... with which the engine returns
LEMMA ReturnStep ==
  ASSUME TypeOK', result = "running", NEW value, NEW map, Return(value, map),
         \A o \in Outs : Answering(o, map[o]), Returning(value)
  PROVE  V!Next
<1>1. ASSUME NEW o \in Outs
      PROVE  Answering(o, vOutMap'[o]) /\ (SolveAll => vOutMap'[o] # "unknown")
  <2>1. vOutMap'[o] = IF SolveAll /\ map[o] = "unknown" THEN "undecided" ELSE map[o]
    BY DEF Return, Settled
  <2>2. CASE SolveAll /\ map[o] = "unknown"
    BY <2>1, <2>2 DEF Answering
  <2>3. CASE ~(SolveAll /\ map[o] = "unknown")
    BY <2>1, <2>3
  <2> QED
    BY <2>2, <2>3
<1>2. result' = value
  BY DEF Return
<1> QED
  BY <1>1, <1>2, AnswerStep

\* An output that fails may be answered so
LEMMA DisprovedAnswers ==
  ASSUME TypeInv, Answers, pc # "done", iOutCur \in LiveOuts, Violable(iOutCur)
  PROVE  \A o \in Outs : Answering(o, Disproved[o]) /\ Answering(o, vOutMap[o])
<1>1. /\ vOutMap \in [Outs -> {"unknown", "failed", "proved", "undecided"}]
      /\ iOutCur \in Outs /\ vOutMap[iOutCur] # "undecided"
  BY DEF TypeInv, TypeOK, LiveOuts
<1>2. vOutMap[iOutCur] # "proved"
  BY <1>1, Const0NotViolable DEF Answers
<1>3. ASSUME NEW o \in Outs PROVE Answering(o, Disproved[o])
  <2>1. CASE o = iOutCur
    <3>1. vOutMap[o] \in {"unknown", "failed"} /\ Disproved[o] = "failed"
      BY <1>1, <1>2, <2>1 DEF Disproved
    <3> QED
      BY <2>1, <3>1 DEF Answering
  <2>2. CASE o # iOutCur
    BY <1>1, <2>2 DEF Disproved, Answering
  <2> QED
    BY <2>1, <2>2
<1> QED
  BY <1>3 DEF Answering

\* So may one that ran out of time
LEMMA ExpiredAnswers ==
  ASSUME TypeInv, Answers, StatusInv, pc \in Solving, NEW expired, EndOutput(expired)
  PROVE  \A o \in Outs : Answering(o, vOutMap'[o])
<1>1. /\ vOutMap \in [Outs -> {"unknown", "failed", "proved", "undecided"}]
      /\ iOutCur \in LiveOuts /\ iOutCur \in Outs /\ iOutCur \notin Const0
  BY DEF TypeInv, TypeOK, LiveOuts, Answers, StatusInv
<1>2. vOutMap[iOutCur] = "unknown"
  BY <1>1 DEF Answers, StatusInv, LiveOuts, Solving
<1>3. vOutMap' = vOutMap \/ vOutMap' = [vOutMap EXCEPT ![iOutCur] = "undecided"]
  BY DEF EndOutput
<1> QED
  BY <1>1, <1>2, <1>3 DEF Answering

\* A step that records a trace of the current output
LEMMA FailingStep ==
  ASSUME TypeInv, Answers, TypeOK', pc # "done", iOutCur \in LiveOuts, Violable(iOutCur),
         \/ Return("sat", vOutMap)
         \/ \E v \in {"sat", "undecided"} : Return(v, Disproved)
         \/ vOutMap' = Disproved /\ result' = result
  PROVE  V!Next
<1>1. \A o \in Outs : Answering(o, Disproved[o]) /\ Answering(o, vOutMap[o])
  BY DisprovedAnswers
<1>2. Returning("sat") /\ Returning("undecided") /\ result = "running"
  BY DEF Returning, Answers, LiveOuts
<1>3. CASE Return("sat", vOutMap)
  BY <1>1, <1>2, <1>3, ReturnStep
<1>4. CASE \E v \in {"sat", "undecided"} : Return(v, Disproved)
  BY <1>1, <1>2, <1>4, ReturnStep
<1>5. CASE vOutMap' = Disproved /\ result' = result
  BY <1>1, <1>2, <1>5, AnswerStep
<1> QED
  BY <1>3, <1>4, <1>5

\* The step that ends a proof
LEMMA ProvedStep ==
  ASSUME TypeInv, Answers, StatusInv, CexInv, TypeInv', SafeInv', Proved
  PROVE  V!Next
<1>1. PICK k \in 1 .. iFrame - 1 :
        Closed(F(k)') /\ \A o \in Outs :
          vOutMap'[o] = "proved" \/ result' = "unsat" => Excludes(k, o)'
  BY DEF SafeInv, InvariantCertificate, Proved, AllPushed, Return, Closed
<1>2. k \in Frames' /\ FramesOverApproximate'
  <2>1. iFrame' = iFrame /\ iFrame \in Nat
    BY DEF Proved, AllPushed, TypeInv, TypeOK
  <2> QED
    BY <2>1 DEF Frames, SafeInv, FrameInv
<1>3. \A o \in Outs : vOutMap'[o] = "proved" \/ result' = "unsat" => ~Violable(o)
  <2> TAKE o \in Outs
  <2>1. F(k)' \in SUBSET States /\ InitState \in F(k)'
    BY <1>2 DEF F, FramesOverApproximate
  <2> QED
    BY <1>1, <2>1 DEF Violable, Excludes
<1> DEFINE nProveOuts == NOuts - nFailOuts - nDropOuts
           value == IF nProveOuts = NOuts THEN "unsat"
                    ELSE IF nFailOuts > 0 THEN "sat" ELSE "undecided"
           map == [o \in Outs |-> IF SolveAll /\ vOutMap[o] = "unknown" THEN "proved" ELSE vOutMap[o]]
<1>4. Return(value, map) /\ result' = value /\ result = "running"
  BY DEF Proved, Return, AllPushed, Answers
<1>5. ASSUME NEW o \in Outs PROVE Answering(o, map[o])
  <2>1. CASE SolveAll /\ vOutMap[o] = "unknown"
    <3>1. map[o] = "proved" /\ vOutMap'[o] = "proved"
      BY <1>4, <2>1 DEF Return, Settled
    <3> QED
      BY <1>3, <2>1, <3>1 DEF Answering
  <2>2. CASE ~(SolveAll /\ vOutMap[o] = "unknown")
    BY <2>2 DEF Answering
  <2> QED
    BY <2>1, <2>2
<1>6. Returning(value)
  <2>1. CASE value = "unsat"
    BY <1>3, <1>4, <2>1 DEF Returning
  <2>2. CASE value = "sat"
    <3>1. PICK o \in Outs : vCexes[o] # <<>>
      BY <2>2 DEF StatusInv
    <3>2. vCexes[o] \in Traces \ {<<>>} /\ Real(vCexes[o], o)
      BY <3>1 DEF CexInv, TypeInv, TypeOK
    <3> QED
      BY <2>2, <3>2, RealViolable DEF Returning
  <2>3. CASE value = "undecided"
    BY <2>3 DEF Returning
  <2> QED
    BY <2>1, <2>2, <2>3
<1> HIDE DEF value, map
<1> QED
  BY <1>4, <1>5, <1>6, ReturnStep DEF TypeInv

\* A trace that is recorded makes its output violable
LEMMA RecordedViolable ==
  ASSUME TypeInv, TypeInv', LeadInv, TrivialOutput \/ FoundCex
  PROVE  Violable(iOutCur) /\ iOutCur \in Outs /\ vCexes'[iOutCur] # <<>>
<1>1. CASE TrivialOutput
  <2>1. PICK i \in Ins : RecordCex([j \in 1 .. iFrame + 1 |-> [cube |-> {}, in |-> i]])
    BY <1>1 DEF TrivialOutput
  <2>2. iOutCur \in Const1 /\ iFrame \in Nat /\ iOutCur \in Outs
    BY <1>1 DEF TrivialOutput, TypeInv, TypeOK, LiveOuts
  <2> DEFINE chain == [j \in 1 .. iFrame + 1 |-> [cube |-> {}, in |-> i]]
  <2>3. chain \in Traces \ {<<>>} /\ Real(chain, iOutCur)
    BY <2>2, TrivialTrace
  <2>4. vCexes' = [vCexes EXCEPT ![iOutCur] = chain] /\ vCexes \in [Outs -> Traces]
    BY <2>1 DEF RecordCex, TypeInv, TypeOK
  <2> HIDE DEF chain
  <2> QED
    BY <2>2, <2>3, <2>4, RealViolable
<1>2. CASE FoundCex
  <2>1. HeadOb \in Leading /\ HeadOb.frame = 0 /\ RecordCex(HeadOb.chain)
    BY <1>2, LeadHead DEF FoundCex
  <2>2. CurOut = iOutCur /\ iOutCur \in Outs
    BY <1>2, CurOutIs DEF FoundCex, Solving
  <2>3. Real(HeadOb.chain, iOutCur) /\ HeadOb.chain \in Traces \ {<<>>}
    BY <2>1, <2>2 DEF Leading, Real, Obligations
  <2>4. vCexes' = [vCexes EXCEPT ![iOutCur] = HeadOb.chain] /\ vCexes \in [Outs -> Traces]
    BY <2>1 DEF RecordCex, TypeInv, TypeOK
  <2> QED
    BY <2>2, <2>3, <2>4, RealViolable
<1> QED
  BY <1>1, <1>2

\* Giving up is always allowed
LEMMA GivingUpStep ==
  ASSUME Answers, TypeOK', pc # "done", Return("undecided", vOutMap)
  PROVE  V!Next
<1>1. \A o \in Outs : Answering(o, vOutMap[o])
  BY DEF Answering
<1>2. Returning("undecided") /\ result = "running"
  BY DEF Returning, Answers
<1> QED
  BY <1>1, <1>2, ReturnStep

\* Every step of the engine is a step of Verdicts, or changes none of the answers
LEMMA VerdictStep ==
  ASSUME TypeInv, SafeInv, LeadInv, CexInv, StatusInv, TypeInv', SafeInv', [Next]_vars
  PROVE  V!Next \/ UNCHANGED <<vOutMap, result>>
<1>0. Answers /\ TypeOK'
  BY DEF SafeInv, TypeInv
<1>1. CASE TrivialOutput
  <2>1. iOutCur \in LiveOuts /\ pc # "done" /\ Violable(iOutCur)
    BY <1>1, RecordedViolable DEF TrivialOutput
  <2> QED
    BY <1>0, <1>1, <2>1, FailingStep DEF TrivialOutput
<1>2. CASE FoundCex
  <2>1. iOutCur \in LiveOuts /\ pc # "done" /\ Violable(iOutCur)
    BY <1>0, <1>2, RecordedViolable DEF FoundCex, Answers, Solving
  <2> QED
    BY <1>0, <1>2, <2>1, FailingStep DEF FoundCex
<1>3. CASE PropertyHolds
  <2>1. PICK expired : EndOutput(expired)
    BY <1>3 DEF PropertyHolds
  <2>2. pc \in Solving /\ result' = result /\ result = "running"
    BY <1>0, <1>3 DEF PropertyHolds, Solving, Answers
  <2> QED
    BY <1>0, <2>1, <2>2, ExpiredAnswers, AnswerStep
<1>4. CASE OutputTimesOut
  <2>1. EndOutput(TRUE) /\ pc \in Solving /\ result' = result /\ result = "running"
    BY <1>0, <1>4 DEF OutputTimesOut, Solving, Answers
  <2> QED
    BY <1>0, <2>1, ExpiredAnswers, AnswerStep
<1>5. CASE Proved
  BY <1>0, <1>5, ProvedStep
<1>6. CASE OpenFrame
  BY <1>0, <1>6, GivingUpStep DEF OpenFrame, AllPushed
<1>7. CASE Abort
  BY <1>0, <1>7, GivingUpStep DEF Abort, Solving
<1>8. CASE Outputs /\ ~(TrivialOutput \/ PropertyHolds)
  BY <1>8 DEF Outputs, SkipOutput, StartOutput, PropertyFails, outVars
<1>9. CASE Block /\ ~FoundCex
  BY <1>9 DEF Block, CubeBlocked, Restart, PopBlocked, PopOpen, outVars
<1>10. CASE Down
  BY <1>10 DEF Down, CtgAssume, CtgHolds, CtgStays, CtgPushed, CtgStops, CtgDrop, CtgKeep, CtgAdd,
    RetryHolds, RetryFails, JoinFails, JoinHolds, JoinAgain, DownHolds, outVars
<1>11. CASE Generalize /\ ~Down
  BY <1>11 DEF Generalize, InductFails, InductHolds, Generalized, DropLiteral, KeepLiteral,
    DownStarts, ForwardHolds, ForwardStops, AddClause, outVars
<1>12. CASE PushClauses /\ ~(Proved \/ OpenFrame)
  BY <1>12 DEF PushClauses, CloseFrame, PushFails, PushHolds, PushNextFrame, outVars
<1>13. CASE UNCHANGED vars
  BY <1>13 DEF vars, outVars
<1> QED
  BY <1>1, <1>2, <1>3, <1>4, <1>5, <1>6, <1>7, <1>8, <1>9, <1>10, <1>11, <1>12, <1>13
  DEF Next, Returned

\* The traces and the answers agree after every step
LEMMA StatusStep ==
  ASSUME TypeInv, SafeInv, LeadInv, StatusInv, TypeInv', [Next]_vars
  PROVE  StatusInv'
<1>1. CASE TrivialOutput \/ FoundCex
  <2>1. iOutCur \in Outs /\ vCexes'[iOutCur] # <<>> /\ vCexes \in [Outs -> Traces]
    BY <1>1, RecordedViolable DEF TypeInv, TypeOK
  <2>2. \A o \in Outs : o # iOutCur => vCexes'[o] = vCexes[o]
    BY <1>1, <2>1 DEF TrivialOutput, FoundCex, RecordCex
  <2>3. pc' \in {"output", "done"} /\ (pc' = "output" => vOutMap' = Disproved)
    BY <1>1 DEF TrivialOutput, FoundCex, Return
  <2>4. pc # "done" /\ vOutMap \in [Outs -> {"unknown", "failed", "proved", "undecided"}]
    BY <1>1 DEF TrivialOutput, FoundCex, TypeInv, TypeOK
  <2>5. pc' # "done" => \A o \in Outs : vOutMap'[o] = "failed" => vCexes'[o] # <<>>
    BY <2>1, <2>2, <2>3, <2>4 DEF StatusInv, Disproved
  <2> QED
    BY <2>1, <2>3, <2>5 DEF StatusInv, Solving, DownLocations
<1>2. CASE PropertyHolds \/ OutputTimesOut
  <2>1. UNCHANGED <<vCexes, nFailOuts>> /\ pc' = "output" /\ pc # "done"
    BY <1>2 DEF PropertyHolds, OutputTimesOut, EndOutput, Solving
  <2>2. vOutMap' = vOutMap \/ vOutMap' = [vOutMap EXCEPT ![iOutCur] = "undecided"]
    BY <1>2 DEF PropertyHolds, OutputTimesOut, EndOutput
  <2>3. vOutMap \in [Outs -> {"unknown", "failed", "proved", "undecided"}]
    BY DEF TypeInv, TypeOK
  <2> QED
    BY <2>1, <2>2, <2>3 DEF StatusInv, Solving, DownLocations
<1>3. CASE /\ UNCHANGED <<vCexes, nFailOuts>> /\ pc' = "done"
  BY <1>3 DEF StatusInv, Solving, DownLocations
<1>4. CASE /\ UNCHANGED <<vCexes, nFailOuts, vOutMap, iOutCur>> /\ pc # "done"
           /\ pc' \in {"output", "push"} \/ pc \in Solving \cup DownLocations \cup {"add"}
  BY <1>4 DEF StatusInv, Solving, DownLocations
<1>5. CASE SkipOutput
  BY <1>5 DEF SkipOutput, StatusInv, Solving, DownLocations, outVars
<1>6. CASE StartOutput
  BY <1>6 DEF StartOutput, StatusInv, Solving, DownLocations, outVars
<1>7. CASE PropertyFails \/ (Block /\ ~FoundCex)
  BY <1>4, <1>7 DEF PropertyFails, Block, CubeBlocked, Restart, PopBlocked, PopOpen, PopObligation,
    Pending, outVars, Solving
<1>8. CASE Down
  BY <1>4, <1>8 DEF Down, CtgAssume, CtgHolds, CtgStays, CtgPushed, CtgStops, CtgDrop, CtgKeep,
    CtgAdd, RetryHolds, RetryFails, JoinFails, JoinHolds, JoinAgain, DownHolds, outVars,
    DownLocations
<1>9. CASE Generalize /\ ~Down
  BY <1>4, <1>9 DEF Generalize, InductFails, InductHolds, Generalized, DropLiteral, KeepLiteral,
    DownStarts, ForwardHolds, ForwardStops, AddClause, outVars, Solving
<1>10. CASE PushClauses /\ ~(Proved \/ OpenFrame)
  BY <1>4, <1>10 DEF PushClauses, CloseFrame, PushFails, PushHolds, PushNextFrame, outVars
<1>11. CASE Proved \/ Abort
  BY <1>3, <1>11 DEF Proved, AllPushed, Abort, Return
<1>12. CASE OpenFrame
  BY <1>3, <1>12 DEF OpenFrame, AllPushed, Return, StatusInv, Solving, DownLocations
<1>13. CASE UNCHANGED vars
  BY <1>13 DEF vars, outVars, StatusInv
<1> QED
  BY <1>1, <1>2, <1>5, <1>6, <1>7, <1>8, <1>9, <1>10, <1>11, <1>12, <1>13
  DEF Next, Returned, Outputs, Block

(***************************************************************************)
(* The engine implements what its caller relies on: an answer, once given, *)
(* stays, an output reported as failed can be asserted, a proved one       *)
(* cannot, and the value returned agrees (Pdr_ManSolve, vOutMap).          *)
(***************************************************************************)
THEOREM VerdictsCorrect ==
  ASSUME SoundFlags, OneQueue
  PROVE  Spec => VerdictsHold
<1> DEFINE Inv == TypeInv /\ SafeInv /\ LeadInv /\ CexInv /\ StatusInv
<1>1. Init => V!Init
  <2> SUFFICES ASSUME Init PROVE V!Init
    OBVIOUS
  <2>1. vOutMap \in [Outs -> {"unknown", "proved"}] /\ result = "running"
    BY DEF Init
  <2>2. ASSUME NEW o \in Outs, vOutMap[o] = "proved" PROVE ~Violable(o)
    BY <2>2, Const0NotViolable DEF Init
  <2>3. V!Outs = Outs /\ \A o \in Outs : V!Violable(o) = Violable(o)
    BY DEF V!Violable, Violable, V!Closed, Closed, V!States, States, V!Regs, Regs, V!InitState,
      InitState, V!Outs, Outs
  <2> QED
    BY <2>1, <2>2, <2>3 DEF V!Init
<1>2. Init => StatusInv
  BY CircuitAssumption DEF Init, StatusInv, Solving, DownLocations
<1>3. Inv /\ TypeInv' /\ SafeInv' /\ [Next]_vars => StatusInv' /\ [V!Next]_(V!absVars)
  BY StatusStep, VerdictStep DEF V!absVars
<1>4. Spec => [](TypeInv /\ SafeInv) /\ [](TypeInv /\ LeadInv /\ CexInv)
  BY SafeInvariant, LeadInvariant
<1> QED
  BY <1>1, <1>2, <1>3, <1>4, PTL DEF Spec, V!Spec, VerdictsHold
=============================================================================
