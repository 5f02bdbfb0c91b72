--------------------------- MODULE CaseSplitProofs ---------------------------
(***************************************************************************)
(* Case splitting gives right answers, for every miter.                    *)
(***************************************************************************)
EXTENDS CaseSplit, TLAPS

Inv == TypeOK /\ Covered /\ AnswersRight

\* What a case is left with when one more literal is fixed
LEMMA OneLiteral ==
  ASSUME NEW o, NEW c, NEW v, NEW b, NEW a \in SatsIn(o, c), b = (v \in a)
  PROVE  a \in SatsIn(o, c \cup {<<v, b>>})
<1> SUFFICES ASSUME NEW l \in c \cup {<<v, b>>} PROVE l[2] = (l[1] \in a)
  BY DEF SatsIn
<1>1. CASE l \in c
  BY <1>1 DEF SatsIn
<1>2. CASE l = <<v, b>>
  <2>1. l[1] = v /\ l[2] = b
    BY <1>2
  <2> QED
    BY <2>1, Zenon
<1> QED
  BY <1>1, <1>2

\* An assignment of a case lies in one of the two cases it is split into
LEMMA CasesCover ==
  ASSUME NEW o, NEW c, NEW v, NEW a \in SatsIn(o, c)
  PROVE  a \in SatsIn(o, c \cup {<<v, FALSE>>}) \/ a \in SatsIn(o, c \cup {<<v, TRUE>>})
<1>1. CASE v \in a
  <2>1. TRUE = (v \in a)
    BY <1>1
  <2> QED
    BY <2>1, OneLiteral
<1>2. CASE v \notin a
  <2>1. FALSE = (v \in a)
    BY <1>2
  <2> QED
    BY <2>1, OneLiteral
<1> QED
  BY <1>1, <1>2

\* The invariant is inductive: Covered makes AnswersRight so
LEMMA InvStep == ASSUME Inv, [Next]_splitVars PROVE Inv'
<1> USE DEF Inv
<1>1. CASE Split
  <2>0. PICK c \in open : \E v \in Free(c) :
          open' = (open \ {c}) \cup {c \cup {<<v, FALSE>>}, c \cup {<<v, TRUE>>}}
    BY <1>1 DEF Split
  <2>1. PICK v \in Free(c) :
          open' = (open \ {c}) \cup {c \cup {<<v, FALSE>>}, c \cup {<<v, TRUE>>}}
    BY <2>0
  <2>2. UNCHANGED <<out, answer>> /\ answer = "running"
    BY <1>1 DEF Split
  <2>3. TypeOK'
    <3>1. v \in Pis /\ c \subseteq Lits
      BY DEF TypeOK, Free
    <3>2. <<v, FALSE>> \in Lits /\ <<v, TRUE>> \in Lits
      BY <3>1 DEF Lits
    <3>3. c \cup {<<v, FALSE>>} \in SUBSET Lits /\ c \cup {<<v, TRUE>>} \in SUBSET Lits
      BY <3>1, <3>2
    <3> QED
      BY <2>1, <2>2, <3>3 DEF TypeOK
  <2>4. Covered'
    <3> SUFFICES ASSUME NEW a \in Sats[out]
                 PROVE  \E d \in open' : a \in SatsIn(out, d)
      BY <2>2 DEF Covered, SatsIn
    <3>1. PICK d \in open : a \in SatsIn(out, d)
      BY <2>2 DEF Covered
    <3> QED
      BY <2>1, <3>1, CasesCover
  <2> QED
    BY <2>2, <2>3, <2>4 DEF AnswersRight
<1>2. CASE Refute
  BY <1>2 DEF Refute, TypeOK, Covered, AnswersRight, SatsIn
<1>3. CASE Answer
  BY <1>3 DEF Answer, TypeOK, Covered, AnswersRight, SatsIn
<1>4. CASE NextOutput
  BY <1>4 DEF NextOutput, TypeOK, Covered, AnswersRight, SatsIn
<1>5. CASE UNCHANGED splitVars
  BY <1>5 DEF splitVars, TypeOK, Covered, AnswersRight, SatsIn
<1> QED
  BY <1>1, <1>2, <1>3, <1>4, <1>5 DEF Next

\* The answers given after splitting and refuting cases are right: "unsat" when
\* no assignment sets the output to 1, "sat" when one does (what the caller of
\* Cec_GiaSplitTestInt relies on)
THEOREM CaseSplitAnswers == Spec => []AnswersRight
<1>1. Init => Inv
  BY CofactorsAssumption DEF Init, Inv, TypeOK, Covered, AnswersRight, SatsIn, Outs
<1>2. Inv /\ [Next]_splitVars => Inv'
  BY InvStep
<1>3. Inv => AnswersRight
  BY DEF Inv
<1> QED
  BY <1>1, <1>2, <1>3, PTL DEF Spec
==============================================================================
