-------------------------- MODULE SplitSerialProofs --------------------------
(***************************************************************************)
(* &splitprove with one process loses no part of the input space, and      *)
(* every counter-example it finds sets the output to 1: for every miter    *)
(* and limit of iterations.                                                *)
(***************************************************************************)
EXTENDS SplitSerial, CofactorsProofs, WellFoundedInduction

\* The parts of this loop record the literals they are the cofactor of
Parts == {x \in [cof : SUBSET Lits, vCofVars : SUBSET Lits] : x.vCofVars = x.cof}

\* The inputs the part being split still depends on include the one it is split on
Splitting == pc \in {"first", "second"} => pLast \in Parts /\ iVar \in Free(pLast.cof)

SerialInv ==
  /\ pc \in {"whole", "pop", "first", "second", "finish", "done"}
  /\ vStack \in Seq(Parts)
  /\ Splitting
  /\ pc \in {"whole", "pop", "first", "second"} => pCexComb = {}
  /\ SerialCovered
  /\ SerialCexReal

-----------------------------------------------------------------------------
(* Parts and what they cover *)

LEMMA WholeTyped == Whole \in Parts /\ Whole.cof = {}
  BY DEF Whole, Part, Parts

LEMMA HalvesTyped ==
  ASSUME Splitting, pc \in {"first", "second"}
  PROVE  /\ First \in Parts /\ First.cof = pLast.cof \cup {<<iVar, FALSE>>}
         /\ Second \in Parts /\ Second.cof = pLast.cof \cup {<<iVar, TRUE>>}
<1>1. pLast \in Parts /\ iVar \in Pis
  BY DEF Splitting, Free
<1>2. <<iVar, FALSE>> \in Lits /\ <<iVar, TRUE>> \in Lits
  BY <1>1 DEF Lits
<1>3. pLast.cof \in SUBSET Lits /\ pLast.vCofVars = pLast.cof
  BY <1>1 DEF Parts
<1> QED
  BY <1>2, <1>3 DEF First, Second, Cofactor, Part, Parts

\* An assignment of a cofactor lies in one of its halves
LEMMA HalvesCover ==
  ASSUME NEW c, NEW v, NEW a \in SatsIn(Output, c)
  PROVE  a \in SatsIn(Output, c \cup {<<v, FALSE>>}) \/ a \in SatsIn(Output, c \cup {<<v, TRUE>>})
<1>1. a \in Sats[Output] /\ \A l \in c : l[2] = (l[1] \in a)
  BY DEF SatsIn
<1> DEFINE f == <<v, FALSE>>  t == <<v, TRUE>>
<1>2. CASE v \in a
  <2>1. t[1] = v /\ t[2] = TRUE
    OBVIOUS
  <2>2. t[2] = (t[1] \in a)
    BY <1>2, <2>1, Zenon
  <2> HIDE DEF t
  <2>3. a \in SatsIn(Output, c \cup {t})
    BY <1>1, <2>2, Zenon DEF SatsIn
  <2> QED
    BY <2>3 DEF t
<1>3. CASE v \notin a
  <2>1. f[1] = v /\ f[2] = FALSE
    OBVIOUS
  <2>2. f[2] = (f[1] \in a)
    <3>1. (v \in a) = FALSE
      BY <1>3
    <3> QED
      BY <2>1, <3>1
  <2> HIDE DEF f
  <2>3. a \in SatsIn(Output, c \cup {f})
    BY <1>1, <2>2, Zenon DEF SatsIn
  <2> QED
    BY <2>3 DEF f
<1> QED
  BY <1>2, <1>3

\* A model of a part whose literals are recorded sets the output to 1
LEMMA ModelsReal == ASSUME NEW x \in Parts PROVE DeriveModels(Output, x) \subseteq Sats[Output]
<1> SUFFICES ASSUME NEW a \in SatsIn(Output, x.cof)
             PROVE  (a \cap Free(x.cof)) \cup {l[1] : l \in {m \in x.cof : m[2]}} = a
  BY DEF DeriveModels, Parts, SatsIn
<1>1. a \subseteq Pis /\ \A l \in x.cof : l[2] = (l[1] \in a)
  BY CofactorsAssumption DEF SatsIn, Output, Outs
<1>2. x.cof \subseteq Lits
  BY DEF Parts
<1>3. \A v \in a : v \in Free(x.cof) \/ \E l \in x.cof : l[1] = v /\ l[2]
  BY <1>1, <1>2 DEF Free, Lits
<1>4. \A l \in x.cof : l[2] => l[1] \in a
  BY <1>1
<1> QED
  BY <1>3, <1>4

\* Solving a part keeps the others on the stack, and puts it there too unless it is
\* refuted; a counter-example ends the loop
LEMMA SolvePartKeeps ==
  ASSUME SerialInv, NEW x \in Parts, NEW next, SolvePart(x, next)
  PROVE  /\ vStack' \in Seq(Parts) /\ SerialCexReal'
         /\ pc' = "finish" \/ pc' = next
         /\ pCexComb = {} /\ pCexComb' = {} =>
              /\ pc' = next
              /\ \A j \in DOMAIN vStack : \E k \in DOMAIN vStack' : vStack'[k] = vStack[j]
              /\ SatsIn(Output, x.cof) = {} \/ \E k \in DOMAIN vStack' : vStack'[k] = x
<1>1. CASE "sat" \in Results(Output, x) /\ (\E a \in Model(x) : pCexComb' = {a})
             /\ pc' = "finish" /\ vStack' = vStack
  BY <1>1, ModelsReal DEF SerialInv, SerialCexReal, Model
<1>2. CASE "unsat" \in Results(Output, x) /\ pc' = next /\ vStack' = vStack /\ pCexComb' = pCexComb
  BY <1>2 DEF SerialInv, SerialCexReal, Results
<1>3. CASE vStack' = Append(vStack, x) /\ pc' = next /\ pCexComb' = pCexComb
  <2>1. vStack \in Seq(Parts)
    BY DEF SerialInv
  <2>2. /\ DOMAIN vStack = 1 .. Len(vStack) /\ DOMAIN vStack' = 1 .. Len(vStack) + 1
        /\ Len(vStack) \in Nat
        /\ \A j \in DOMAIN vStack : vStack'[j] = vStack[j]
        /\ vStack'[Len(vStack) + 1] = x /\ vStack' \in Seq(Parts)
    BY <1>3, <2>1
  <2>3. \A j \in DOMAIN vStack : j \in DOMAIN vStack'
    BY <2>2
  <2>4. Len(vStack) + 1 \in DOMAIN vStack'
    BY <2>2
  <2> QED
    BY <1>3, <2>2, <2>3, <2>4 DEF SerialInv, SerialCexReal
<1> QED
  BY <1>1, <1>2, <1>3 DEF SolvePart

-----------------------------------------------------------------------------
(* The steps *)

LEMMA InitSerial == Init => SerialInv
<1> SUFFICES ASSUME Init PROVE SerialInv
  OBVIOUS
<1>1. \A a \in Sats[Output] : a \in SatsIn(Output, Whole.cof)
  BY WholeTyped DEF SatsIn
<1> QED
  BY <1>1 DEF Init, SerialInv, Splitting, SerialCovered, SerialCexReal, OpenParts

LEMMA WholeSerial == ASSUME SerialInv, SolveWhole PROVE SerialInv'
<1>1. pCexComb = {} /\ pc = "whole"
  BY DEF SolveWhole, SerialInv
<1>2. PICK r \in Results(Output, Whole) :
        /\ RetValue' = r
        /\ pc' = IF r = "undec" THEN "pop" ELSE "done"
        /\ vStack' = IF r = "undec" THEN <<Whole>> ELSE <<>>
        /\ IF r = "sat" THEN \E a \in DeriveModels(Output, Whole) : pCexComb' = {a}
                        ELSE UNCHANGED pCexComb
  BY DEF SolveWhole
<1>3. <<Whole>> \in Seq(Parts) /\ <<>> \in Seq(Parts) /\ DOMAIN <<Whole>> = {1}
  BY WholeTyped
<1>4. SerialCexReal'
  BY <1>1, <1>2, WholeTyped, ModelsReal DEF SerialCexReal
<1>5. SerialCovered'
  <2> SUFFICES ASSUME r = "undec", NEW a \in Sats[Output]
               PROVE  \E part \in OpenParts' : a \in SatsIn(Output, part.cof)
    BY <1>2 DEF SerialCovered
  <2>1. Whole \in OpenParts'
    BY <1>2, <1>3 DEF OpenParts
  <2> QED
    BY <2>1, WholeTyped DEF SatsIn
<1> QED
  BY <1>1, <1>2, <1>3, <1>4, <1>5 DEF SerialInv, Splitting

LEMMA PopSerial == ASSUME SerialInv, Pop PROVE SerialInv'
<1>1. /\ vStack \in Seq(Parts) /\ vStack # <<>> /\ pc = "pop" /\ pc' = "first"
      /\ vStack' = SubSeq(vStack, 1, Len(vStack) - 1)
      /\ pLast' = vStack[Len(vStack)] /\ iVar' \in Free(pLast'.cof)
      /\ pCexComb' = pCexComb /\ pCexComb = {}
  BY DEF SerialInv, Pop
<1>2. /\ Len(vStack) \in Nat \ {0} /\ DOMAIN vStack = 1 .. Len(vStack)
      /\ Len(vStack) \in DOMAIN vStack
  BY <1>1
<1>3. /\ vStack' \in Seq(Parts) /\ DOMAIN vStack' = 1 .. Len(vStack) - 1
      /\ \A j \in DOMAIN vStack' : vStack'[j] = vStack[j]
  BY <1>1, <1>2
<1>4. pLast' \in Parts
  BY <1>1, <1>2
<1>5. Splitting'
  BY <1>1, <1>4 DEF Splitting
<1>6. SerialCovered'
  <2> SUFFICES ASSUME NEW a \in Sats[Output]
               PROVE  \E part \in OpenParts' : a \in SatsIn(Output, part.cof)
    BY DEF SerialCovered
  <2>1. PICK j \in DOMAIN vStack : a \in SatsIn(Output, vStack[j].cof)
    BY <1>1 DEF SerialInv, SerialCovered, OpenParts
  <2>2. CASE j = Len(vStack)
    <3>1. a \in SatsIn(Output, pLast'.cof)
      BY <1>1, <2>1, <2>2
    <3>2. a \in SatsIn(Output, First'.cof) \/ a \in SatsIn(Output, Second'.cof)
      <4>1. /\ First'.cof = pLast'.cof \cup {<<iVar', FALSE>>}
            /\ Second'.cof = pLast'.cof \cup {<<iVar', TRUE>>}
        BY DEF First, Second, Cofactor, Part
      <4> QED
        BY <3>1, <4>1, HalvesCover
    <3>3. First' \in OpenParts' /\ Second' \in OpenParts'
      BY <1>1 DEF OpenParts
    <3> QED
      BY <3>2, <3>3
  <2>3. CASE j # Len(vStack)
    <3>1. j \in DOMAIN vStack' /\ vStack'[j] = vStack[j]
      BY <1>2, <1>3, <2>3
    <3> QED
      BY <2>1, <3>1 DEF OpenParts
  <2> QED
    BY <2>2, <2>3
<1> QED
  BY <1>1, <1>3, <1>5, <1>6 DEF SerialInv, SerialCexReal

LEMMA FirstSerial == ASSUME SerialInv, SolveFirst PROVE SerialInv'
<1>1. /\ pc = "first" /\ Splitting /\ pCexComb = {}
      /\ SolvePart(First, "second") /\ pLast' = pLast /\ iVar' = iVar
  BY DEF SerialInv, SolveFirst
<1>2. First \in Parts
  BY <1>1, HalvesTyped
<1>3. /\ vStack' \in Seq(Parts) /\ SerialCexReal' /\ pc' \in {"second", "finish"}
      /\ pCexComb' = {} =>
           /\ pc' = "second"
           /\ \A j \in DOMAIN vStack : \E k \in DOMAIN vStack' : vStack'[k] = vStack[j]
           /\ SatsIn(Output, First.cof) = {} \/ \E k \in DOMAIN vStack' : vStack'[k] = First
  BY <1>1, <1>2, SolvePartKeeps
<1>4. Splitting'
  BY <1>1 DEF Splitting
<1>5. pc' = "second" => pCexComb' = {}
  BY <1>1 DEF SolvePart
<1>6. SerialCovered'
  <2> SUFFICES ASSUME pCexComb' = {}, NEW a \in Sats[Output]
               PROVE  \E part \in OpenParts' : a \in SatsIn(Output, part.cof)
    BY DEF SerialCovered
  <2>1. PICK x \in OpenParts : a \in SatsIn(Output, x.cof)
    BY <1>1 DEF SerialInv, SerialCovered
  <2>2. Second \in OpenParts'
    BY <1>1, <1>3 DEF OpenParts, Second
  <2>3. (\E j \in DOMAIN vStack : x = vStack[j]) \/ x = First \/ x = Second
    BY <1>1 DEF OpenParts
  <2>4. x # Second => \E k \in DOMAIN vStack' : vStack'[k] = x
    BY <1>3, <2>1, <2>3
  <2> QED
    BY <2>1, <2>2, <2>4 DEF OpenParts
<1> QED
  BY <1>3, <1>4, <1>5, <1>6 DEF SerialInv

LEMMA SecondSerial == ASSUME SerialInv, SolveSecond PROVE SerialInv'
<1> DEFINE next == IF NIterMax # 0 /\ nIter >= NIterMax THEN "finish" ELSE "pop"
<1>1. pc = "second" /\ Splitting /\ pCexComb = {} /\ SolvePart(Second, next)
  BY DEF SerialInv, SolveSecond
<1>2. Second \in Parts
  BY <1>1, HalvesTyped
<1>3. next \in {"finish", "pop"}
  OBVIOUS
<1> HIDE DEF next
<1>4. /\ vStack' \in Seq(Parts) /\ SerialCexReal' /\ pc' \in {"pop", "finish"}
      /\ pCexComb' = {} =>
           /\ \A j \in DOMAIN vStack : \E k \in DOMAIN vStack' : vStack'[k] = vStack[j]
           /\ SatsIn(Output, Second.cof) = {} \/ \E k \in DOMAIN vStack' : vStack'[k] = Second
  BY <1>1, <1>2, <1>3, SolvePartKeeps
<1>5. pc' = "pop" => pCexComb' = {}
  BY <1>1 DEF SolvePart
<1>6. SerialCovered'
  <2> SUFFICES ASSUME pCexComb' = {}, NEW a \in Sats[Output]
               PROVE  \E part \in OpenParts' : a \in SatsIn(Output, part.cof)
    BY DEF SerialCovered
  <2>1. PICK x \in OpenParts : a \in SatsIn(Output, x.cof)
    BY <1>1 DEF SerialInv, SerialCovered
  <2>2. (\E j \in DOMAIN vStack : x = vStack[j]) \/ x = Second
    BY <1>1 DEF OpenParts
  <2>3. \E k \in DOMAIN vStack' : vStack'[k] = x
    BY <1>4, <2>1, <2>2
  <2> QED
    BY <2>1, <2>3 DEF OpenParts
<1> QED
  BY <1>4, <1>5, <1>6 DEF SerialInv, Splitting

LEMMA FinishSerial == ASSUME SerialInv, Finish PROVE SerialInv'
<1>1. pc' = "done" /\ vStack' = <<>> /\ pCexComb' = pCexComb
  BY DEF Finish
<1> QED
  BY <1>1 DEF SerialInv, Splitting, SerialCovered, SerialCexReal

LEMMA SerialStep == ASSUME SerialInv, [Next]_vars PROVE SerialInv'
<1>1. CASE Returned \/ UNCHANGED vars
  BY <1>1 DEF Returned, vars, SerialInv, Splitting, SerialCovered, SerialCexReal, OpenParts,
              First, Second
<1> QED
  BY <1>1, WholeSerial, PopSerial, FirstSerial, SecondSerial, FinishSerial DEF Next

\* Until a counter-example is found, every assignment that sets the output to 1 lies
\* in a part still to be solved: the stack of Cec_GiaSplitTest2 loses none
THEOREM SerialNothingLost == Spec => []SerialCovered
<1>1. SerialInv => SerialCovered
  BY DEF SerialInv
<1> QED
  BY <1>1, InitSerial, SerialStep, PTL DEF Spec

\* What the default &splitprove leaves in pCexComb sets the output to 1, the
\* literals it recorded overwriting what the solver found
THEOREM SerialCexesReal == Spec => []SerialCexReal
<1>1. SerialInv => SerialCexReal
  BY DEF SerialInv
<1> QED
  BY <1>1, InitSerial, SerialStep, PTL DEF Spec

-----------------------------------------------------------------------------
(* The progress, and how often the loop can split *)

\* Cases no assignment lies in both of
Apart(c, d) == \E v \in Pis, b \in BOOLEAN : <<v, b>> \in c /\ <<v, ~b>> \in d

\* The parts left are consistent, and any two of them are disjoint
Listed ==
  /\ \A j \in DOMAIN vStack : ~Apart(vStack[j].cof, vStack[j].cof)
  /\ \A j, k \in DOMAIN vStack : j # k => Apart(vStack[j].cof, vStack[k].cof)
  /\ pc \in {"first", "second"} => ~Apart(pLast.cof, pLast.cof)
  /\ pc = "first" => \A j \in DOMAIN vStack : Apart(vStack[j].cof, pLast.cof)
  /\ pc = "second" => \A j \in DOMAIN vStack : Apart(vStack[j].cof, Second.cof)

\* What was refuted and what is left is all of it, and every part left but one came
\* from a split
Accounted ==
  (pc # "done" /\ pCexComb = {}) =>
    /\ AllMeasured(OpenParts)
    /\ Progress + TotalShare(OpenParts) = Share(0)
    /\ nIter + 1 <= Progress + Cardinality(OpenParts)

ProgressInv ==
  /\ SerialInv /\ Listed /\ Accounted
  /\ Progress \in Nat /\ nIter \in Nat /\ nIter < Share(0)
  /\ pc = "whole" => vStack = <<>>

LEMMA ApartDiffer ==
  ASSUME NEW c, NEW d, ~Apart(c, c), Apart(c, d)
  PROVE  c # d
  OBVIOUS

LEMMA ApartGrows ==
  ASSUME NEW c, NEW d, NEW e, Apart(c, d), d \subseteq e
  PROVE  Apart(c, e)
  BY DEF Apart

LEMMA HalvesApart ==
  ASSUME NEW x, NEW v \in Free(x.cof), ~Apart(x.cof, x.cof)
  PROVE  LET g == Cofactor(x, v, FALSE, <<v, FALSE>>)
             h == Cofactor(x, v, TRUE, <<v, TRUE>>)
         IN  /\ Apart(g.cof, h.cof) /\ ~Apart(g.cof, g.cof) /\ ~Apart(h.cof, h.cof)
             /\ x.cof \subseteq g.cof /\ x.cof \subseteq h.cof
<1> DEFINE g == Cofactor(x, v, FALSE, <<v, FALSE>>)
           h == Cofactor(x, v, TRUE, <<v, TRUE>>)
<1>1. g.cof = x.cof \cup {<<v, FALSE>>} /\ h.cof = x.cof \cup {<<v, TRUE>>}
  BY DEF Cofactor, Part
<1>2. v \in Pis /\ \A b : <<v, b>> \notin x.cof
  <2>1. \A b : <<v, b>>[1] = v
    OBVIOUS
  <2> QED
    BY <2>1, Zenon DEF Free
<1> HIDE DEF g, h
<1>3. Apart(g.cof, h.cof)
  <2>1. <<v, FALSE>> \in g.cof /\ <<v, TRUE>> \in h.cof
    BY <1>1
  <2> QED
    BY <1>2, <2>1 DEF Apart
<1>4. ASSUME NEW b \in BOOLEAN, NEW c, c = x.cof \cup {<<v, b>>}
      PROVE  ~Apart(c, c)
  <2> SUFFICES ASSUME NEW w \in Pis, NEW e \in BOOLEAN, <<w, e>> \in c, <<w, ~e>> \in c
               PROVE  FALSE
    BY DEF Apart
  <2>1. CASE w = v
    BY <1>2, <1>4, <2>1
  <2>2. CASE w # v
    BY <1>4, <2>2 DEF Apart
  <2> QED
    BY <2>1, <2>2
<1>5. ~Apart(g.cof, g.cof) /\ ~Apart(h.cof, h.cof)
  BY <1>1, <1>4
<1> QED
  BY <1>1, <1>3, <1>5 DEF g, h

\* The halves share what the part they come from has
LEMMA HalvesShared ==
  ASSUME NEW x, Measured(x), NEW v \in Free(x.cof)
  PROVE  LET g == Cofactor(x, v, FALSE, <<v, FALSE>>)
             h == Cofactor(x, v, TRUE, <<v, TRUE>>)
         IN  Measured(g) /\ Measured(h) /\ Share(Depth(x)) = Share(Depth(g)) + Share(Depth(h))
<1> DEFINE g == Cofactor(x, v, FALSE, <<v, FALSE>>)
           h == Cofactor(x, v, TRUE, <<v, TRUE>>)
<1>1. Measured(g) /\ Share(Depth(x)) = Share(Depth(g)) + Share(Depth(g))
  BY HalfMeasured
<1>2. Measured(h) /\ Share(Depth(x)) = Share(Depth(h)) + Share(Depth(h))
  BY HalfMeasured
<1> HIDE DEF g, h
<1>3. Share(Depth(g)) \in Nat /\ Share(Depth(h)) \in Nat
  BY <1>1, <1>2, MeasuredShare
<1>4. Share(Depth(x)) = Share(Depth(g)) + Share(Depth(h))
  BY <1>1, <1>2, <1>3
<1> QED
  BY <1>1, <1>2, <1>4 DEF g, h

LEMMA InitProgress == Init => ProgressInv
<1> SUFFICES ASSUME Init PROVE ProgressInv
  OBVIOUS
<1>1. OpenParts = {Whole}
  BY DEF Init, OpenParts
<1>2. Accounted /\ nIter < Share(0)
  BY <1>1, WholeShared DEF Init, Accounted
<1>3. Listed
  BY DEF Init, Listed
<1> QED
  BY <1>2, <1>3, InitSerial DEF Init, ProgressInv

\* As long as the accounts are right the loop has split fewer times than there are shares
LEMMA AccountBound ==
  ASSUME NEW S, AllMeasured(S), NEW done \in Nat, NEW n \in Nat,
         done + TotalShare(S) = Share(0), n + 1 <= done + Cardinality(S)
  PROVE  n < Share(0)
<1>1. Cardinality(S) <= TotalShare(S)
  BY SharesCount
<1>2. Cardinality(S) \in Nat /\ TotalShare(S) \in Nat
  BY FS_CardinalityType, MeasuredWeighed, TotalShareNat DEF AllMeasured
<1> QED
  BY <1>1, <1>2

LEMMA WholeProgress == ASSUME ProgressInv, SolveWhole PROVE ProgressInv'
<1>1. /\ pc = "whole" /\ pCexComb = {} /\ nIter' = nIter /\ Progress' = Progress
      /\ \/ pc' = "pop" /\ vStack' = <<Whole>>
         \/ pc' = "done" /\ vStack' = <<>>
  BY DEF SolveWhole, ProgressInv, SerialInv
<1>2. Listed'
  <2>1. CASE vStack' = <<>> /\ pc' = "done"
    BY <2>1 DEF Listed
  <2>2. CASE vStack' = <<Whole>> /\ pc' = "pop"
    <3>1. DOMAIN vStack' = {1} /\ vStack'[1].cof = {}
      BY <2>2, WholeTyped
    <3> QED
      BY <2>2, <3>1 DEF Listed, Apart
  <2> QED
    BY <1>1, <2>1, <2>2
<1>3. Accounted'
  <2> SUFFICES ASSUME pc' = "pop", vStack' = <<Whole>> PROVE OpenParts' = OpenParts
    BY <1>1 DEF ProgressInv, Accounted
  <2>1. OpenParts = {Whole}
    <3>1. vStack = <<>>
      BY <1>1 DEF ProgressInv
    <3> QED
      BY <1>1, <3>1 DEF OpenParts
  <2>2. OpenParts' = {Whole}
    BY DEF OpenParts
  <2> QED
    BY <2>1, <2>2
<1> QED
  BY <1>1, <1>2, <1>3, WholeSerial DEF ProgressInv

LEMMA PopProgress == ASSUME ProgressInv, Pop PROVE ProgressInv'
<1>1. /\ vStack \in Seq(Parts) /\ vStack # <<>> /\ pc = "pop" /\ pc' = "first"
      /\ vStack' = SubSeq(vStack, 1, Len(vStack) - 1)
      /\ pLast' = vStack[Len(vStack)]
      /\ pCexComb' = pCexComb /\ pCexComb = {} /\ nIter' = nIter + 1 /\ Progress' = Progress
  BY DEF ProgressInv, SerialInv, Pop
<1> DEFINE n == Len(vStack)
           x == vStack[n]
<1>2. n \in Nat \ {0} /\ DOMAIN vStack = 1 .. n /\ n \in DOMAIN vStack
  BY <1>1
<1>3. /\ DOMAIN vStack' = 1 .. n - 1
      /\ \A j \in 1 .. n - 1 : vStack'[j] = vStack[j] /\ j \in DOMAIN vStack /\ j # n
  <2>1. DOMAIN vStack' = 1 .. n - 1 /\ \A j \in DOMAIN vStack' : vStack'[j] = vStack[j]
    BY <1>1, <1>2
  <2>2. \A j \in 1 .. n - 1 : j \in 1 .. n /\ j # n
    <3>1. n \in Nat \ {0}
      BY <1>2
    <3> HIDE DEF n
    <3> QED
      BY <3>1
  <2> QED
    BY <1>2, <2>1, <2>2
<1>4. SerialInv'
  BY PopSerial DEF ProgressInv
<1>5. Splitting' /\ ~Apart(pLast'.cof, pLast'.cof)
  BY <1>1, <1>2, <1>4 DEF SerialInv, ProgressInv, Listed
<1>6. Listed'
  BY <1>1, <1>2, <1>3, <1>5 DEF ProgressInv, Listed
<1>7. /\ Apart(First'.cof, Second'.cof) /\ ~Apart(First'.cof, First'.cof) /\ ~Apart(Second'.cof, Second'.cof)
      /\ pLast'.cof \subseteq First'.cof /\ pLast'.cof \subseteq Second'.cof
  <2>1. iVar' \in Free(pLast'.cof)
    BY <1>1, <1>5 DEF Splitting
  <2> QED
    BY <1>5, <2>1, HalvesApart DEF First, Second
<1>8. OpenParts = {vStack[j] : j \in 1 .. n} /\ x \in OpenParts
  BY <1>1, <1>2 DEF OpenParts
<1>9. OpenParts' = (OpenParts \ {x}) \cup {First', Second'}
  <2>1. OpenParts' = {vStack[j] : j \in 1 .. n - 1} \cup {First', Second'}
    BY <1>1, <1>3 DEF OpenParts
  <2>2. \A j \in 1 .. n - 1 : vStack[j] # x
    <3> SUFFICES ASSUME NEW j \in 1 .. n - 1 PROVE vStack[j] # x
      OBVIOUS
    <3>1. Apart(vStack[j].cof, x.cof) /\ ~Apart(vStack[j].cof, vStack[j].cof)
      BY <1>2, <1>3 DEF ProgressInv, Listed
    <3> QED
      BY <3>1, ApartDiffer
  <2>3. 1 .. n = (1 .. n - 1) \cup {n}
    BY <1>2
  <2> HIDE DEF n
  <2>4. {vStack[j] : j \in 1 .. n} = {vStack[j] : j \in 1 .. n - 1} \cup {x}
    BY <2>3
  <2>5. {vStack[j] : j \in 1 .. n - 1} = OpenParts \ {x}
    BY <1>8, <2>2, <2>4
  <2> QED
    BY <2>1, <2>5
<1>10. First' \notin OpenParts \ {x} /\ Second' \notin OpenParts \ {x} /\ First' # Second'
  <2> SUFFICES ASSUME NEW j \in 1 .. n, j # n PROVE vStack[j] # First' /\ vStack[j] # Second'
    BY <1>7, <1>8
  <2>1. Apart(vStack[j].cof, pLast'.cof) /\ ~Apart(vStack[j].cof, vStack[j].cof)
    BY <1>1, <1>2 DEF ProgressInv, Listed
  <2>2. Apart(vStack[j].cof, First'.cof) /\ Apart(vStack[j].cof, Second'.cof)
    BY <1>7, <2>1, ApartGrows
  <2> QED
    BY <2>1, <2>2
<1>11. AllMeasured(OpenParts) /\ Accounted
  BY <1>1 DEF ProgressInv, Accounted
<1>12. /\ Measured(First') /\ Measured(Second')
       /\ Share(Depth(x)) = Share(Depth(First')) + Share(Depth(Second'))
  <2>1. Measured(pLast') /\ iVar' \in Free(pLast'.cof)
    BY <1>1, <1>5, <1>8, <1>11 DEF AllMeasured, Splitting
  <2> QED
    BY <1>1, <2>1, HalvesShared DEF First, Second
<1>13. /\ AllMeasured(OpenParts') /\ TotalShare(OpenParts') = TotalShare(OpenParts)
       /\ Cardinality(OpenParts') = Cardinality(OpenParts) + 1
  <2> HIDE DEF x
  <2> QED
    BY <1>8, <1>9, <1>10, <1>11, <1>12, SplitPart
<1>14. Cardinality(OpenParts) \in Nat
  BY <1>11, FS_CardinalityType DEF AllMeasured
<1>15. nIter' \in Nat /\ Progress' \in Nat
  BY <1>1 DEF ProgressInv
<1>16. Accounted'
  BY <1>1, <1>11, <1>13, <1>14, <1>15 DEF Accounted, ProgressInv
<1>17. nIter' < Share(0)
  BY <1>1, <1>13, <1>15, <1>16, AccountBound DEF Accounted
<1> QED
  BY <1>1, <1>4, <1>6, <1>15, <1>16, <1>17 DEF ProgressInv

\* What solving one of the parts left does to the others
LEMMA SolvePartEffect ==
  ASSUME ProgressInv, NEW x \in Parts, NEW next, SolvePart(x, next)
  PROVE  \/ pc' = "finish" /\ pCexComb' # {} /\ vStack' = vStack /\ Progress' = Progress
         \/ /\ pc' = next /\ pCexComb' = pCexComb
            /\ vStack' = vStack /\ Progress' = Progress + Share(Depth(x))
         \/ /\ pc' = next /\ pCexComb' = pCexComb /\ Progress' = Progress
            /\ vStack' = Append(vStack, x) /\ vStack' \in Seq(Parts)
            /\ DOMAIN vStack = 1 .. Len(vStack) /\ DOMAIN vStack' = 1 .. Len(vStack) + 1
            /\ \A j \in DOMAIN vStack : j \in DOMAIN vStack' /\ vStack'[j] = vStack[j]
            /\ vStack'[Len(vStack) + 1] = x
            /\ \A j \in DOMAIN vStack' : j \in DOMAIN vStack \/ j = Len(vStack) + 1
<1>1. vStack \in Seq(Parts)
  BY DEF ProgressInv, SerialInv
<1>2. CASE vStack' = Append(vStack, x) /\ pc' = next /\ pCexComb' = pCexComb /\ Progress' = Progress
  <2>1. Len(vStack) \in Nat /\ DOMAIN vStack = 1 .. Len(vStack)
    BY <1>1
  <2>2. DOMAIN vStack' = 1 .. Len(vStack) + 1 /\ vStack' \in Seq(Parts)
    BY <1>1, <1>2
  <2>3. \A j \in DOMAIN vStack : vStack'[j] = vStack[j]
    BY <1>1, <1>2
  <2>4. vStack'[Len(vStack) + 1] = x
    BY <1>1, <1>2
  <2>5. \A j \in 1 .. Len(vStack) + 1 : j \in 1 .. Len(vStack) \/ j = Len(vStack) + 1
    BY <2>1
  <2>6. \A j \in 1 .. Len(vStack) : j \in 1 .. Len(vStack) + 1
    BY <2>1
  <2> QED
    BY <1>2, <2>1, <2>2, <2>3, <2>4, <2>5, <2>6
<1> QED
  BY <1>2 DEF SolvePart, Advance

\* Appending a part that is disjoint from the others
LEMMA AppendListed ==
  ASSUME ProgressInv, NEW x, ~Apart(x.cof, x.cof),
         \A j \in DOMAIN vStack : Apart(vStack[j].cof, x.cof),
         \A j \in DOMAIN vStack : j \in DOMAIN vStack' /\ vStack'[j] = vStack[j],
         vStack'[Len(vStack) + 1] = x,
         \A j \in DOMAIN vStack' : j \in DOMAIN vStack \/ j = Len(vStack) + 1
  PROVE  /\ \A j \in DOMAIN vStack' : ~Apart(vStack'[j].cof, vStack'[j].cof)
         /\ \A j, k \in DOMAIN vStack' : j # k => Apart(vStack'[j].cof, vStack'[k].cof)
<1>1. \A j \in DOMAIN vStack : ~Apart(vStack[j].cof, vStack[j].cof)
  BY DEF ProgressInv, Listed
<1>2. \A j, k \in DOMAIN vStack : j # k => Apart(vStack[j].cof, vStack[k].cof)
  BY DEF ProgressInv, Listed
<1>3. \A j \in DOMAIN vStack : Apart(x.cof, vStack[j].cof)
  <2>1. \A c, d : Apart(c, d) => Apart(d, c)
    <3> SUFFICES ASSUME NEW c, NEW d, NEW v \in Pis, NEW b \in BOOLEAN,
                        <<v, b>> \in c, <<v, ~b>> \in d
                 PROVE  Apart(d, c)
      BY DEF Apart
    <3>1. CASE b = TRUE
      BY <3>1 DEF Apart
    <3>2. CASE b = FALSE
      BY <3>2 DEF Apart
    <3> QED
      BY <3>1, <3>2
  <2> QED
    BY <2>1
<1> QED
  BY <1>1, <1>2, <1>3

\* The parts on the stack; none of them is a part they are all disjoint from
Stacked == {vStack[j] : j \in DOMAIN vStack}

LEMMA NotStacked ==
  ASSUME Listed, NEW x, \A j \in DOMAIN vStack : Apart(vStack[j].cof, x.cof)
  PROVE  x \notin Stacked
  BY DEF Stacked, Listed

LEMMA FirstProgress == ASSUME ProgressInv, SolveFirst PROVE ProgressInv'
<1>1. /\ pc = "first" /\ pCexComb = {} /\ SolvePart(First, "second") /\ iVar \in Free(pLast.cof)
      /\ pLast' = pLast /\ iVar' = iVar /\ nIter' = nIter /\ First \in Parts /\ Second' = Second
  BY HalvesTyped DEF SolveFirst, ProgressInv, SerialInv, Splitting, Second
<1>2. SerialInv'
  BY FirstSerial DEF ProgressInv
<1>3. /\ Apart(First.cof, Second.cof) /\ ~Apart(First.cof, First.cof)
      /\ ~Apart(Second.cof, Second.cof)
      /\ \A j \in DOMAIN vStack : Apart(vStack[j].cof, First.cof) /\ Apart(vStack[j].cof, Second.cof)
  <2>1. ~Apart(pLast.cof, pLast.cof) /\ \A j \in DOMAIN vStack : Apart(vStack[j].cof, pLast.cof)
    BY <1>1 DEF ProgressInv, Listed
  <2>2. /\ Apart(First.cof, Second.cof) /\ ~Apart(First.cof, First.cof)
        /\ ~Apart(Second.cof, Second.cof)
        /\ pLast.cof \subseteq First.cof /\ pLast.cof \subseteq Second.cof
    BY <1>1, <2>1, HalvesApart DEF First, Second
  <2> QED
    BY <2>1, <2>2, ApartGrows
<1>4. First \notin Stacked /\ First # Second /\ OpenParts = Stacked \cup {First, Second}
  BY <1>1, <1>3, NotStacked DEF ProgressInv, OpenParts, Stacked
<1>5. /\ AllMeasured(OpenParts) /\ Progress + TotalShare(OpenParts) = Share(0)
      /\ nIter + 1 <= Progress + Cardinality(OpenParts) /\ Progress \in Nat /\ nIter \in Nat
      /\ nIter < Share(0)
  BY <1>1 DEF ProgressInv, Accounted
<1>6. CASE pc' = "finish" /\ pCexComb' # {} /\ vStack' = vStack /\ Progress' = Progress
  BY <1>1, <1>2, <1>5, <1>6 DEF ProgressInv, Listed, Accounted
<1>7. CASE pc' = "second" /\ pCexComb' = pCexComb /\ vStack' = vStack
             /\ Progress' = Progress + Share(Depth(First))
  <2>1. OpenParts' = OpenParts \ {First}
    <3>1. OpenParts' = Stacked \cup {Second}
      BY <1>1, <1>7 DEF OpenParts, Stacked
    <3> QED
      BY <1>4, <3>1
  <2>2. First \in OpenParts
    BY <1>4
  <2>3. Share(Depth(First)) \in Nat /\ Share(Depth(First)) >= 1
    BY <1>5, <2>2, MeasuredShare DEF AllMeasured
  <2>4. /\ AllMeasured(OpenParts')
        /\ Progress' + TotalShare(OpenParts') = Share(0)
        /\ nIter' + 1 <= Progress' + Cardinality(OpenParts')
    BY <1>1, <1>5, <1>7, <2>1, <2>2, <2>3, TakePart
  <2>5. Listed'
    BY <1>1, <1>3, <1>7 DEF ProgressInv, Listed
  <2>6. Progress' \in Nat
    BY <1>5, <1>7, <2>3
  <2> QED
    BY <1>1, <1>2, <1>5, <1>7, <2>4, <2>5, <2>6 DEF ProgressInv, Accounted
<1>8. CASE /\ pc' = "second" /\ pCexComb' = pCexComb /\ Progress' = Progress
           /\ DOMAIN vStack' = 1 .. Len(vStack) + 1
           /\ \A j \in DOMAIN vStack : j \in DOMAIN vStack' /\ vStack'[j] = vStack[j]
           /\ vStack'[Len(vStack) + 1] = First
           /\ \A j \in DOMAIN vStack' : j \in DOMAIN vStack \/ j = Len(vStack) + 1
  <2>1. Len(vStack) + 1 \in DOMAIN vStack'
    <3>1. Len(vStack) \in Nat
      BY DEF ProgressInv, SerialInv
    <3> QED
      BY <1>8, <3>1
  <2>2. OpenParts' = OpenParts
    <3>1. Stacked' = Stacked \cup {First}
      BY <1>8, <2>1 DEF Stacked
    <3>2. OpenParts' = Stacked' \cup {Second}
      BY <1>1, <1>8 DEF OpenParts, Stacked
    <3> QED
      BY <1>4, <3>1, <3>2
  <2>3. Listed'
    <3>1. /\ \A j \in DOMAIN vStack' : ~Apart(vStack'[j].cof, vStack'[j].cof)
          /\ \A j, k \in DOMAIN vStack' : j # k => Apart(vStack'[j].cof, vStack'[k].cof)
      BY <1>3, <1>8, AppendListed
    <3>2. \A j \in DOMAIN vStack' : Apart(vStack'[j].cof, Second.cof)
      BY <1>3, <1>8
    <3>3. ~Apart(pLast'.cof, pLast'.cof)
      BY <1>1 DEF ProgressInv, Listed
    <3> QED
      BY <1>1, <1>8, <3>1, <3>2, <3>3 DEF Listed
  <2> QED
    BY <1>1, <1>2, <1>5, <1>8, <2>2, <2>3 DEF ProgressInv, Accounted
<1> QED
  BY <1>1, <1>6, <1>7, <1>8, SolvePartEffect

LEMMA SecondProgress == ASSUME ProgressInv, SolveSecond PROVE ProgressInv'
<1> DEFINE next == IF NIterMax # 0 /\ nIter >= NIterMax THEN "finish" ELSE "pop"
<1>1. /\ pc = "second" /\ pCexComb = {} /\ SolvePart(Second, next) /\ iVar \in Free(pLast.cof)
      /\ nIter' = nIter /\ Second \in Parts /\ next \in {"finish", "pop"}
  BY HalvesTyped DEF SolveSecond, ProgressInv, SerialInv, Splitting
<1> HIDE DEF next
<1>2. SerialInv'
  BY SecondSerial DEF ProgressInv
<1>3. /\ ~Apart(Second.cof, Second.cof)
      /\ \A j \in DOMAIN vStack : Apart(vStack[j].cof, Second.cof)
  BY <1>1, HalvesApart DEF ProgressInv, Listed, Second
<1>4. Second \notin Stacked /\ OpenParts = Stacked \cup {Second}
  BY <1>1, <1>3, NotStacked DEF ProgressInv, OpenParts, Stacked
<1>5. /\ AllMeasured(OpenParts) /\ Progress + TotalShare(OpenParts) = Share(0)
      /\ nIter + 1 <= Progress + Cardinality(OpenParts) /\ Progress \in Nat /\ nIter \in Nat
      /\ nIter < Share(0)
  BY <1>1 DEF ProgressInv, Accounted
<1>6. pc' \in {"finish", "pop"} => OpenParts' = Stacked'
  BY DEF OpenParts, Stacked
<1>7. CASE pc' = "finish" /\ pCexComb' # {} /\ vStack' = vStack /\ Progress' = Progress
  BY <1>1, <1>2, <1>5, <1>7 DEF ProgressInv, Listed, Accounted
<1>8. CASE pc' = next /\ pCexComb' = pCexComb /\ vStack' = vStack
             /\ Progress' = Progress + Share(Depth(Second))
  <2>1. OpenParts' = OpenParts \ {Second} /\ Second \in OpenParts
    <3>1. Stacked' = Stacked
      BY <1>8 DEF Stacked
    <3> QED
      BY <1>1, <1>4, <1>6, <1>8, <3>1
  <2>2. Share(Depth(Second)) \in Nat /\ Share(Depth(Second)) >= 1
    BY <1>5, <2>1, MeasuredShare DEF AllMeasured
  <2>3. /\ AllMeasured(OpenParts')
        /\ Progress' + TotalShare(OpenParts') = Share(0)
        /\ nIter' + 1 <= Progress' + Cardinality(OpenParts')
    BY <1>1, <1>5, <1>8, <2>1, <2>2, TakePart
  <2>4. Listed'
    BY <1>1, <1>8 DEF ProgressInv, Listed
  <2>5. Progress' \in Nat
    BY <1>5, <1>8, <2>2
  <2> QED
    BY <1>1, <1>2, <1>5, <1>8, <2>3, <2>4, <2>5 DEF ProgressInv, Accounted
<1>9. CASE /\ pc' = next /\ pCexComb' = pCexComb /\ Progress' = Progress
           /\ DOMAIN vStack' = 1 .. Len(vStack) + 1
           /\ \A j \in DOMAIN vStack : j \in DOMAIN vStack' /\ vStack'[j] = vStack[j]
           /\ vStack'[Len(vStack) + 1] = Second
           /\ \A j \in DOMAIN vStack' : j \in DOMAIN vStack \/ j = Len(vStack) + 1
  <2>1. Len(vStack) + 1 \in DOMAIN vStack'
    <3>1. Len(vStack) \in Nat
      BY DEF ProgressInv, SerialInv
    <3> QED
      BY <1>9, <3>1
  <2>2. OpenParts' = OpenParts
    <3>1. Stacked' = Stacked \cup {Second}
      BY <1>9, <2>1 DEF Stacked
    <3> QED
      BY <1>1, <1>4, <1>6, <1>9, <3>1
  <2>3. Listed'
    <3>1. /\ \A j \in DOMAIN vStack' : ~Apart(vStack'[j].cof, vStack'[j].cof)
          /\ \A j, k \in DOMAIN vStack' : j # k => Apart(vStack'[j].cof, vStack'[k].cof)
      BY <1>3, <1>9, AppendListed
    <3> QED
      BY <1>1, <1>9, <3>1 DEF Listed
  <2> QED
    BY <1>1, <1>2, <1>5, <1>9, <2>2, <2>3 DEF ProgressInv, Accounted
<1> QED
  BY <1>1, <1>7, <1>8, <1>9, SolvePartEffect

LEMMA FinishProgress == ASSUME ProgressInv, Finish PROVE ProgressInv'
<1>1. pc' = "done" /\ vStack' = <<>> /\ nIter' = nIter /\ Progress' = Progress
  BY DEF Finish
<1> QED
  BY <1>1, FinishSerial DEF ProgressInv, Listed, Accounted

LEMMA ProgressStep == ASSUME ProgressInv, [Next]_vars PROVE ProgressInv'
<1>1. CASE Returned \/ UNCHANGED vars
  <2>1. SerialInv'
    BY <1>1, SerialStep DEF ProgressInv, Next
  <2> QED
    BY <1>1, <2>1 DEF Returned, vars, ProgressInv, Listed, Accounted, OpenParts, First, Second
<1> QED
  BY <1>1, WholeProgress, PopProgress, FirstProgress, SecondProgress, FinishProgress DEF Next

\* The progress printed is what was refuted: with the shares of the parts left it
\* adds up to the whole input space
THEOREM SerialProgressExact == Spec => []SerialProgress
<1>1. ProgressInv => SerialProgress
  BY DEF ProgressInv, Accounted, SerialProgress
<1> QED
  BY <1>1, InitProgress, ProgressStep, PTL DEF Spec

\* The loop of Cec_GiaSplitTest2 splits fewer times than there are assignments to the
\* inputs, also when it has no limit of iterations
THEOREM SerialSplitsBounded == Spec => [](nIter < 2 ^ Cardinality(Pis))
<1>1. ProgressInv => nIter < 2 ^ Cardinality(Pis)
  <2>1. Cardinality(Pis) - 0 = Cardinality(Pis)
    BY CofactorsAssumption, FS_CardinalityType
  <2> QED
    BY <2>1 DEF ProgressInv, Share
<1> QED
  BY <1>1, InitProgress, ProgressStep, PTL DEF Spec
-----------------------------------------------------------------------------
(* The loop ends: every step splits once more, or goes on towards the next split *)

SplitsLeft == 2 ^ Cardinality(Pis) - nIter
Place ==
  CASE pc = "whole" -> 5 [] pc = "first" -> 4 [] pc = "second" -> 3 [] pc = "pop" -> 2
    [] pc = "finish" -> 1 [] OTHER -> 0

Rank == <<SplitsLeft, Place>>

RankTyped == Rank \in [1 .. 2 -> Nat]

Descent == LexProductOrdering(OpToRel(<, Nat), Nat, 2)

\* The step takes the rank down
Descends == <<Rank', Rank>> \in Descent

\* There is no infinite descent
LEMMA DescentEnds == IsWellFoundedOn(Descent, [1 .. 2 -> Nat])
BY NatLessThanWellFounded, WFLexProductOrdering DEF Descent

LEMMA TupleDescends ==
  ASSUME NEW a \in [1 .. 2 -> Nat], NEW b \in [1 .. 2 -> Nat],
         a[1] < b[1] \/ (a[1] = b[1] /\ a[2] < b[2])
  PROVE  <<a, b>> \in Descent
<1>1. CASE a[1] < b[1]
  BY <1>1 DEF Descent, LexProductOrdering, OpToRel
<1>2. CASE a[1] = b[1] /\ a[2] < b[2]
  BY <1>2 DEF Descent, LexProductOrdering, OpToRel
<1> QED
  BY <1>1, <1>2

LEMMA PlaceStep ==
  ASSUME SerialInv, Next, vars' # vars
  PROVE  (Pop /\ nIter' = nIter + 1) \/ (nIter' = nIter /\ Place' < Place)
<1>1. ASSUME SolveWhole
      PROVE  nIter' = nIter /\ Place' < Place
  BY <1>1 DEF SolveWhole, Place
<1>2. ASSUME Pop
      PROVE  nIter' = nIter + 1
  BY <1>2 DEF Pop
<1>3. ASSUME SolveFirst
      PROVE  nIter' = nIter /\ Place' < Place
  <2>1. pc = "first" /\ pc' \in {"finish", "second"} /\ nIter' = nIter
    BY <1>3 DEF SolveFirst, SolvePart
  <2> QED
    BY <2>1 DEF Place
<1>4. ASSUME SolveSecond
      PROVE  nIter' = nIter /\ Place' < Place
  <2>1. pc = "second" /\ pc' \in {"finish", "pop"} /\ nIter' = nIter
    BY <1>4 DEF SolveSecond, SolvePart
  <2> QED
    BY <2>1 DEF Place
<1>5. ASSUME Finish
      PROVE  nIter' = nIter /\ Place' < Place
  BY <1>5 DEF Finish, Place
<1> QED
  BY <1>1, <1>2, <1>3, <1>4, <1>5 DEF Next, Returned

\* Every step of the loop takes the rank down in an order without infinite descent: it
\* ends with or without a limit of iterations, whatever the queries answer
THEOREM SerialStepsDescend ==
  /\ Spec => [][Descends]_vars
  /\ IsWellFoundedOn(Descent, [1 .. 2 -> Nat])
<1>1. ProgressInv => RankTyped
  <2> SUFFICES ASSUME ProgressInv PROVE RankTyped
    OBVIOUS
  <2>1. Cardinality(Pis) - 0 = Cardinality(Pis) /\ Cardinality(Pis) \in Nat
    BY CofactorsAssumption, FS_CardinalityType
  <2>2. nIter \in Nat /\ nIter < 2 ^ Cardinality(Pis)
    BY <2>1 DEF ProgressInv, Share
  <2>3. 2 ^ Cardinality(Pis) \in Nat
    BY <2>1, PowerCounts
  <2>4. SplitsLeft \in Nat
    <3> DEFINE n == 2 ^ Cardinality(Pis)
    <3> HIDE DEF n
    <3>1. n \in Nat /\ nIter \in Nat /\ nIter < n
      BY <2>2, <2>3 DEF n
    <3>2. n - nIter \in Nat
      BY <3>1
    <3> QED
      BY <3>2 DEF n, SplitsLeft
  <2>5. Place \in Nat
    BY DEF Place
  <2> QED
    BY <2>4, <2>5 DEF Rank, RankTyped
<1>2. ProgressInv /\ RankTyped /\ RankTyped' /\ [Next]_vars => [Descends]_vars
  <2> SUFFICES ASSUME ProgressInv, RankTyped, RankTyped', Next, vars' # vars
               PROVE  Descends
    OBVIOUS
  <2>1. (Pop /\ nIter' = nIter + 1) \/ (nIter' = nIter /\ Place' < Place)
    BY PlaceStep DEF ProgressInv
  <2>2. SplitsLeft' < SplitsLeft \/ (SplitsLeft' = SplitsLeft /\ Place' < Place)
    <3> DEFINE n == 2 ^ Cardinality(Pis)
    <3>1. SplitsLeft = n - nIter /\ SplitsLeft' = n - nIter'
      BY DEF SplitsLeft
    <3>2. n \in Nat
      BY CofactorsAssumption, FS_CardinalityType, PowerCounts
    <3>3. nIter \in Nat
      BY DEF ProgressInv
    <3> HIDE DEF n
    <3> QED
      BY <2>1, <3>1, <3>2, <3>3
  <2>3. Rank[1] = SplitsLeft /\ Rank[2] = Place /\ Rank'[1] = SplitsLeft' /\ Rank'[2] = Place'
    BY DEF Rank
  <2> QED
    BY <2>2, <2>3, TupleDescends DEF RankTyped, Descends
<1>3. Spec => [][Descends]_vars
  BY <1>1, <1>2, InitProgress, ProgressStep, PTL DEF Spec
<1> QED
  BY <1>3, DescentEnds
==============================================================================
