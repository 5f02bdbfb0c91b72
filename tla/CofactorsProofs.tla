--------------------------- MODULE CofactorsProofs ---------------------------
(***************************************************************************)
(* What &splitprove counts its progress in: the share of the input space a *)
(* part has, the shares of its halves, and the sum of the shares of a set  *)
(* of parts, for every finite set of inputs.                               *)
(***************************************************************************)
EXTENDS Cofactors, FiniteSetTheorems, TLAPS

-----------------------------------------------------------------------------
(* Powers of two, as numbers of subsets *)

LEMMA PowerCounts ==
  ASSUME NEW n \in Nat
  PROVE  /\ IsFiniteSet(SUBSET (1 .. n)) /\ 2 ^ n = Cardinality(SUBSET (1 .. n))
         /\ 2 ^ n \in Nat
<1>1. IsFiniteSet(1 .. n) /\ Cardinality(1 .. n) = n
  BY FS_Interval
<1>2. IsFiniteSet(SUBSET (1 .. n)) /\ Cardinality(SUBSET (1 .. n)) = 2 ^ Cardinality(1 .. n)
  BY <1>1, FS_SUBSET
<1>3. Cardinality(SUBSET (1 .. n)) \in Nat
  BY <1>2, FS_CardinalityType
<1> QED
  BY <1>1, <1>2, <1>3

LEMMA PowerPositive == ASSUME NEW n \in Nat PROVE 2 ^ n >= 1
<1>1. {{}} \in SUBSET (SUBSET (1 .. n))
  OBVIOUS
<1>2. Cardinality({{}}) <= Cardinality(SUBSET (1 .. n)) /\ Cardinality({{}}) = 1
  BY <1>1, PowerCounts, FS_Subset, FS_Singleton
<1> QED
  BY <1>2, PowerCounts

LEMMA PowerDoubles == ASSUME NEW n \in Nat PROVE 2 ^ (n + 1) = 2 ^ n + 2 ^ n
<1> DEFINE A == SUBSET (1 .. n)
           B == {a \cup {n + 1} : a \in A}
<1>1. IsFiniteSet(A) /\ Cardinality(A) = 2 ^ n /\ 2 ^ n \in Nat
  BY PowerCounts
<1>2. SUBSET (1 .. n + 1) = A \cup B
  <2>1. 1 .. n + 1 = (1 .. n) \cup {n + 1}
    OBVIOUS
  <2>2. \A s \in SUBSET (1 .. n + 1) : s \in A \/ s \in B
    <3> SUFFICES ASSUME NEW s \in SUBSET (1 .. n + 1), n + 1 \in s PROVE s \in B
      BY <2>1
    <3>1. s \ {n + 1} \in A /\ s = (s \ {n + 1}) \cup {n + 1}
      BY <2>1
    <3> QED
      BY <3>1
  <2>3. \A s \in A \cup B : s \in SUBSET (1 .. n + 1)
    BY <2>1
  <2> QED
    BY <2>2, <2>3
<1>3. A \cap B = {}
  <2>1. n + 1 \notin 1 .. n
    OBVIOUS
  <2> QED
    BY <2>1
<1>4. IsFiniteSet(B) /\ Cardinality(B) = Cardinality(A)
  <2> DEFINE f == [a \in A |-> a \cup {n + 1}]
  <2>1. f \in [A -> B]
    OBVIOUS
  <2>2. \A a, b \in A : f[a] = f[b] => a = b
    <3>1. n + 1 \notin 1 .. n
      OBVIOUS
    <3> SUFFICES ASSUME NEW a \in A, NEW b \in A, a \cup {n + 1} = b \cup {n + 1} PROVE a = b
      OBVIOUS
    <3>2. \A x : x \in a <=> x \in b
      BY <3>1
    <3> QED
      BY <3>2
  <2>3. \A b \in B : \E a \in A : f[a] = b
    OBVIOUS
  <2> HIDE DEF f, A, B
  <2>4. f \in Bijection(A, B)
    BY <2>1, <2>2, <2>3 DEF Bijection, Injection, Surjection, IsInjective
  <2>5. ExistsBijection(A, B)
    BY <2>4 DEF ExistsBijection
  <2> QED
    BY <1>1, <2>5, FS_Bijection
<1>5. Cardinality(A \cup B) = Cardinality(A) + Cardinality(B) - Cardinality({})
  <2> HIDE DEF A, B
  <2> QED
    BY <1>1, <1>3, <1>4, FS_Union
<1>6. Cardinality({}) = 0
  BY FS_EmptySet
<1>7. n + 1 \in Nat
  OBVIOUS
<1>8. 2 ^ (n + 1) = Cardinality(SUBSET (1 .. n + 1))
  BY <1>7, PowerCounts
<1>9. 2 ^ (n + 1) = Cardinality(A \cup B)
  BY <1>2, <1>8, Zenon
<1> HIDE DEF A, B
<1>10. Cardinality(A \cup B) = Cardinality(A) + Cardinality(A)
  BY <1>1, <1>4, <1>5, <1>6
<1> QED
  BY <1>1, <1>9, <1>10, Zenon

-----------------------------------------------------------------------------
(* The sum of the shares of a set of parts *)

\* As many units as the parts of s have together
Units(s) == UNION {{x} \X (1 .. Share(Depth(x))) : x \in s}

Weighed(S) == IsFiniteSet(S) /\ \A x \in S : Share(Depth(x)) \in Nat

LEMMA UnitsOne ==
  ASSUME NEW x, Share(Depth(x)) \in Nat
  PROVE  /\ IsFiniteSet({x} \X (1 .. Share(Depth(x))))
         /\ Cardinality({x} \X (1 .. Share(Depth(x)))) = Share(Depth(x))
<1> DEFINE n == Share(Depth(x))
<1>1. n \in Nat
  OBVIOUS
<1> HIDE DEF n
<1>2. IsFiniteSet(1 .. n) /\ Cardinality(1 .. n) = n
  <2>1. 1 \in Int /\ n \in Int
    BY <1>1
  <2>2. IsFiniteSet(1 .. n) /\ Cardinality(1 .. n) = (IF 1 > n THEN 0 ELSE n - 1 + 1)
    BY <2>1, FS_Interval
  <2> QED
    BY <1>1, <2>2
<1>3. IsFiniteSet({x}) /\ Cardinality({x}) = 1
  BY FS_Singleton
<1>4. /\ IsFiniteSet({x} \X (1 .. n))
      /\ Cardinality({x} \X (1 .. n)) = Cardinality({x}) * Cardinality(1 .. n)
  BY <1>2, <1>3, FS_Product
<1>5. Cardinality({x} \X (1 .. n)) = n
  BY <1>1, <1>2, <1>3, <1>4
<1> QED
  BY <1>4, <1>5 DEF n

LEMMA UnitsFinite == ASSUME NEW S, Weighed(S) PROVE IsFiniteSet(Units(S))
<1> DEFINE f(x) == {x} \X (1 .. Share(Depth(x)))
           g == [x \in S |-> f(x)]
           T == {f(x) : x \in S}
<1>1. \A u \in T : IsFiniteSet(u)
  BY UnitsOne DEF Weighed
<1>2. IsFiniteSet(T)
  <2>1. IsFiniteSet(S) /\ g \in Surjection(S, T)
    BY DEF Weighed, Surjection
  <2> HIDE DEF g, T
  <2> QED
    BY <2>1, FS_Surjection
<1>3. Units(S) = UNION T
  BY DEF Units
<1> HIDE DEF T
<1> QED
  BY <1>1, <1>2, <1>3, FS_UNION

LEMMA UnitsAdd ==
  ASSUME NEW S, Weighed(S), NEW x \in S
  PROVE  Cardinality(Units(S)) = Share(Depth(x)) + Cardinality(Units(S \ {x}))
<1> DEFINE A == {x} \X (1 .. Share(Depth(x)))
           B == Units(S \ {x})
<1>1. IsFiniteSet(A) /\ Cardinality(A) = Share(Depth(x)) /\ Share(Depth(x)) \in Nat
  BY UnitsOne DEF Weighed
<1>2. Weighed(S \ {x})
  BY FS_RemoveElement DEF Weighed
<1>3. IsFiniteSet(B) /\ Cardinality(B) \in Nat
  BY <1>2, UnitsFinite, FS_CardinalityType
<1>4. Units(S) = A \cup B /\ A \cap B = {}
  BY DEF Units
<1>5. Cardinality({}) = 0
  BY FS_EmptySet
<1> HIDE DEF A, B
<1>6. Cardinality(A \cup B) = Cardinality(A) + Cardinality(B) - Cardinality({})
  BY <1>1, <1>3, <1>4, FS_Union
<1> QED
  BY <1>1, <1>3, <1>4, <1>5, <1>6 DEF B

\* The fold counts the units, whatever order it takes the parts in
LEMMA TotalShareCounts ==
  ASSUME NEW S, Weighed(S)
  PROVE  TotalShare(S) = Cardinality(Units(S))
<1> DEFINE c(s) == CHOOSE x \in s : TRUE
           Rec(f) == f = [s \in SUBSET S |-> IF s = {} THEN 0
                                             ELSE Share(Depth(c(s))) + f[s \ {c(s)}]]
           g == [s \in SUBSET S |-> Cardinality(Units(s))]
<1>1. TotalShare(S) = (CHOOSE f : Rec(f))[S]
  BY DEF TotalShare, MapThenSumSet, MapThenFoldSet
<1>2. \A s \in SUBSET S : Weighed(s) /\ (s # {} => c(s) \in s)
  BY FS_Subset DEF Weighed
<1>3. Cardinality(Units({})) = 0
  <2>1. Units({}) = {}
    BY DEF Units
  <2> QED
    BY <2>1, FS_EmptySet
<1>4. \A s \in SUBSET S : s # {} =>
        Cardinality(Units(s)) = Share(Depth(c(s))) + Cardinality(Units(s \ {c(s)}))
  <2> HIDE DEF c
  <2> QED
    BY <1>2, UnitsAdd
<1>5. Rec(g)
  <2> HIDE DEF c
  <2> QED
    BY <1>3, <1>4
<1>6. Rec(CHOOSE f : Rec(f))
  <2> HIDE DEF Rec
  <2> QED
    BY <1>5
<1>7. ASSUME NEW f, Rec(f) PROVE f[S] = Cardinality(Units(S))
  <2> DEFINE T == {s \in SUBSET S : f[s] # Cardinality(Units(s))}
  <2> SUFFICES ASSUME T # {} PROVE FALSE
    OBVIOUS
  <2>1. IsWellFoundedOn(StrictSubsetOrdering(S), SUBSET S)
    BY FS_StrictSubsetOrderingWellFounded, FS_FiniteSubsetsOfFinite DEF Weighed
  <2>2. T \subseteq SUBSET S
    OBVIOUS
  <2>3. PICK s \in T : \A t \in T : ~ (<<t, s>> \in StrictSubsetOrdering(S))
    <3> HIDE DEF T
    <3> QED
      BY <2>1, <2>2, WFMin
  <2>4. CASE s = {}
    BY <1>3, <1>7, <2>3, <2>4
  <2>5. CASE s # {}
    <3>1. c(s) \in s
      BY <1>2, <2>5
    <3>2. <<s \ {c(s)}, s>> \in StrictSubsetOrdering(S)
      <4> HIDE DEF c
      <4> QED
        BY <3>1 DEF StrictSubsetOrdering
    <3>3. f[s \ {c(s)}] = Cardinality(Units(s \ {c(s)}))
      <4> HIDE DEF c
      <4> QED
        BY <2>3, <3>2
    <3>4. f[s] = Share(Depth(c(s))) + f[s \ {c(s)}]
      <4> HIDE DEF c
      <4> QED
        BY <1>7, <2>5
    <3> HIDE DEF c
    <3> QED
      BY <1>4, <2>5, <3>3, <3>4
  <2> QED
    BY <2>4, <2>5
<1> HIDE DEF Rec
<1> QED
  BY <1>1, <1>6, <1>7

LEMMA TotalShareNat == ASSUME NEW S, Weighed(S) PROVE TotalShare(S) \in Nat
  BY TotalShareCounts, UnitsFinite, FS_CardinalityType

LEMMA TotalShareEmpty == TotalShare({}) = 0
<1>1. Weighed({})
  BY FS_EmptySet DEF Weighed
<1>2. Units({}) = {}
  BY DEF Units
<1> QED
  BY <1>1, <1>2, TotalShareCounts, FS_EmptySet

LEMMA TotalShareTake ==
  ASSUME NEW S, Weighed(S), NEW x \in S
  PROVE  TotalShare(S) = Share(Depth(x)) + TotalShare(S \ {x})
<1>1. Weighed(S \ {x})
  BY FS_RemoveElement DEF Weighed
<1> QED
  BY <1>1, TotalShareCounts, UnitsAdd

-----------------------------------------------------------------------------
(* The parts of a search *)

\* The inputs a set of literals replaces by constants
Assigned(c) == {l[1] : l \in c}

\* A part records one literal of each of the inputs it replaces, right or wrong
Measured(x) ==
  /\ IsFiniteSet(x.vCofVars) /\ Assigned(x.vCofVars) = Assigned(x.cof)
  /\ Assigned(x.cof) \subseteq Pis
  /\ Depth(x) = Cardinality(Assigned(x.cof))

AllMeasured(S) == IsFiniteSet(S) /\ \A x \in S : Measured(x)

LEMMA WholeMeasured == Measured(Whole) /\ Depth(Whole) = 0
<1>1. Whole.cof = {} /\ Whole.vCofVars = {} /\ Assigned({}) = {}
  BY DEF Whole, Part, Assigned
<1>2. IsFiniteSet({}) /\ Cardinality({}) = 0
  BY FS_EmptySet
<1> QED
  BY <1>1, <1>2 DEF Measured, Depth

\* No part is deeper than there are inputs, and each has a share
LEMMA MeasuredShare ==
  ASSUME NEW x, Measured(x)
  PROVE  Depth(x) \in 0 .. Cardinality(Pis) /\ Share(Depth(x)) \in Nat /\ Share(Depth(x)) >= 1
<1>1. /\ Cardinality(Pis) \in Nat /\ Cardinality(Assigned(x.cof)) \in Nat
      /\ Cardinality(Assigned(x.cof)) <= Cardinality(Pis)
  BY CofactorsAssumption, FS_Subset, FS_CardinalityType DEF Measured
<1>2. Depth(x) \in 0 .. Cardinality(Pis) /\ Cardinality(Pis) - Depth(x) \in Nat
  BY <1>1 DEF Measured
<1> QED
  BY <1>2, PowerCounts, PowerPositive DEF Share

LEMMA MeasuredWeighed == ASSUME NEW S, AllMeasured(S) PROVE Weighed(S)
  BY MeasuredShare DEF AllMeasured, Weighed

\* A cofactor with respect to an input that is free has half the share, whatever
\* the value of that input that is recorded
LEMMA HalfMeasured ==
  ASSUME NEW x, Measured(x), NEW v \in Free(x.cof), NEW b, NEW d
  PROVE  LET h == Cofactor(x, v, b, <<v, d>>) IN
         /\ Measured(h)
         /\ Share(Depth(x)) = Share(Depth(h)) + Share(Depth(h))
<1> DEFINE h == Cofactor(x, v, b, <<v, d>>)
           A == Assigned(x.cof)
<1>1. /\ h.cof = x.cof \cup {<<v, b>>} /\ h.vCofVars = x.vCofVars \cup {<<v, d>>}
      /\ v \in Pis /\ v \notin A
  BY DEF Cofactor, Part, Free, Assigned
<1>2. Assigned(h.cof) = A \cup {v} /\ Assigned(h.vCofVars) = Assigned(x.vCofVars) \cup {v}
  <2>1. ASSUME NEW s, NEW e PROVE Assigned(s \cup {<<v, e>>}) = Assigned(s) \cup {v}
    <3> DEFINE l == <<v, e>>
    <3>1. l[1] = v
      OBVIOUS
    <3> HIDE DEF l
    <3>2. Assigned(s \cup {l}) = Assigned(s) \cup {l[1]}
      BY DEF Assigned
    <3> QED
      BY <3>1, <3>2 DEF l
  <2> QED
    BY <1>1, <2>1
<1>3. <<v, d>> \notin x.vCofVars
  BY <1>1 DEF Measured, Assigned
<1>4. IsFiniteSet(h.vCofVars) /\ Depth(h) = Depth(x) + 1
  BY <1>1, <1>3, FS_AddElement DEF Measured, Depth
<1>5. A \subseteq Pis /\ Depth(x) = Cardinality(A) /\ Assigned(x.vCofVars) = A
  BY DEF Measured
<1>6. IsFiniteSet(A)
  BY <1>5, CofactorsAssumption, FS_Subset
<1>7. Cardinality(A \cup {v}) = Cardinality(A) + 1
  <2> HIDE DEF A
  <2> QED
    BY <1>1, <1>6, FS_AddElement
<1>8. Measured(h)
  <2> HIDE DEF h, A
  <2> QED
    BY <1>1, <1>2, <1>4, <1>5, <1>7 DEF Measured
<1> HIDE DEF h, A
<1>9. /\ Depth(h) \in 0 .. Cardinality(Pis) /\ Depth(x) \in 0 .. Cardinality(Pis)
      /\ Cardinality(Pis) \in Nat
  BY <1>8, MeasuredShare, CofactorsAssumption, FS_CardinalityType
<1> DEFINE n == Cardinality(Pis) - Depth(h)
<1>10. n \in Nat /\ Cardinality(Pis) - Depth(x) = n + 1
  BY <1>4, <1>9
<1>11. Share(Depth(h)) = 2 ^ n /\ Share(Depth(x)) = 2 ^ (n + 1)
  BY <1>10 DEF Share
<1> HIDE DEF n
<1>12. Share(Depth(x)) = Share(Depth(h)) + Share(Depth(h))
  BY <1>10, <1>11, PowerDoubles
<1> QED
  BY <1>8, <1>12 DEF h

\* A part that is refuted leaves with its share
LEMMA TakePart ==
  ASSUME NEW S, AllMeasured(S), NEW x \in S
  PROVE  /\ AllMeasured(S \ {x})
         /\ TotalShare(S) = Share(Depth(x)) + TotalShare(S \ {x})
         /\ Cardinality(S) = Cardinality(S \ {x}) + 1
         /\ TotalShare(S) \in Nat /\ TotalShare(S \ {x}) \in Nat
         /\ Cardinality(S) \in Nat /\ Cardinality(S \ {x}) \in Nat
<1>1. AllMeasured(S \ {x})
  BY FS_RemoveElement DEF AllMeasured
<1>2. Weighed(S) /\ Weighed(S \ {x})
  BY <1>1, MeasuredWeighed
<1>3. Cardinality(S) \in Nat /\ Cardinality(S \ {x}) = Cardinality(S) - 1
  BY FS_RemoveElement, FS_CardinalityType DEF AllMeasured
<1>4. Cardinality(S \ {x}) \in Nat
  BY <1>1, FS_CardinalityType DEF AllMeasured
<1> QED
  BY <1>1, <1>2, <1>3, <1>4, TotalShareNat, TotalShareTake

LEMMA PutPart ==
  ASSUME NEW S, AllMeasured(S), NEW x, Measured(x), x \notin S
  PROVE  /\ AllMeasured(S \cup {x})
         /\ TotalShare(S \cup {x}) = Share(Depth(x)) + TotalShare(S)
         /\ Cardinality(S \cup {x}) = Cardinality(S) + 1
<1>1. AllMeasured(S \cup {x})
  BY FS_AddElement DEF AllMeasured
<1>2. (S \cup {x}) \ {x} = S
  OBVIOUS
<1> QED
  BY <1>1, <1>2, TakePart

\* A part that is split leaves its share to its two halves
LEMMA SplitPart ==
  ASSUME NEW S, AllMeasured(S), NEW x \in S,
         NEW g, Measured(g), NEW h, Measured(h), g # h, g \notin S \ {x}, h \notin S \ {x},
         Share(Depth(x)) = Share(Depth(g)) + Share(Depth(h))
  PROVE  /\ AllMeasured((S \ {x}) \cup {g, h})
         /\ TotalShare((S \ {x}) \cup {g, h}) = TotalShare(S)
         /\ Cardinality((S \ {x}) \cup {g, h}) = Cardinality(S) + 1
<1> DEFINE R == S \ {x}
           T == R \cup {g}
<1>1. /\ AllMeasured(R) /\ TotalShare(S) = Share(Depth(x)) + TotalShare(R)
      /\ Cardinality(S) = Cardinality(R) + 1 /\ TotalShare(R) \in Nat /\ Cardinality(R) \in Nat
  BY TakePart
<1>2. Share(Depth(g)) \in Nat /\ Share(Depth(h)) \in Nat
  BY MeasuredShare
<1>3. (S \ {x}) \cup {g, h} = T \cup {h} /\ h \notin T /\ g \notin R
  OBVIOUS
<1> HIDE DEF R
<1>4. /\ AllMeasured(T) /\ TotalShare(T) = Share(Depth(g)) + TotalShare(R)
      /\ Cardinality(T) = Cardinality(R) + 1
  BY <1>1, <1>3, PutPart
<1> HIDE DEF T
<1>5. /\ AllMeasured(T \cup {h}) /\ TotalShare(T \cup {h}) = Share(Depth(h)) + TotalShare(T)
      /\ Cardinality(T \cup {h}) = Cardinality(T) + 1
  BY <1>3, <1>4, PutPart
<1>6. TotalShare(T \cup {h}) = TotalShare(S) /\ Cardinality(T \cup {h}) = Cardinality(S) + 1
  BY <1>1, <1>2, <1>4, <1>5
<1> QED
  BY <1>3, <1>5, <1>6, Zenon

\* Every part has a share of at least one
LEMMA SharesCount ==
  ASSUME NEW S, AllMeasured(S)
  PROVE  Cardinality(S) <= TotalShare(S)
<1> DEFINE f == [x \in S |-> <<x, 1>>]
<1>1. Weighed(S) /\ IsFiniteSet(S)
  BY MeasuredWeighed DEF AllMeasured
<1>2. IsFiniteSet(Units(S)) /\ TotalShare(S) = Cardinality(Units(S))
  BY <1>1, UnitsFinite, TotalShareCounts
<1>3. \A x \in S : <<x, 1>> \in Units(S)
  <2> SUFFICES ASSUME NEW x \in S PROVE <<x, 1>> \in {x} \X (1 .. Share(Depth(x)))
    BY DEF Units
  <2>1. 1 \in 1 .. Share(Depth(x))
    BY MeasuredShare DEF AllMeasured
  <2> QED
    BY <2>1
<1>4. f \in Injection(S, Units(S))
  BY <1>3 DEF Injection, IsInjective
<1> HIDE DEF f
<1> QED
  BY <1>2, <1>4, FS_Injection

\* The whole input space, before anything is split
LEMMA WholeShared ==
  /\ AllMeasured({Whole}) /\ TotalShare({Whole}) = Share(0) /\ Cardinality({Whole}) = 1
  /\ Share(0) \in Nat /\ Share(0) >= 1
<1>1. AllMeasured({Whole}) /\ Cardinality({Whole}) = 1
  BY WholeMeasured, FS_Singleton DEF AllMeasured
<1>2. {Whole} \ {Whole} = {}
  OBVIOUS
<1>3. Share(0) \in Nat /\ Share(0) >= 1
  BY WholeMeasured, MeasuredShare
<1>4. TotalShare({Whole}) = Share(0) + 0
  BY <1>1, <1>2, WholeMeasured, TakePart, TotalShareEmpty
<1> QED
  BY <1>1, <1>3, <1>4
==============================================================================
