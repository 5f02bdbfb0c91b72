----------------------------- MODULE SplitProofs -----------------------------
(***************************************************************************)
(* Manager and worker threads of &splitprove never use a slot at the same  *)
(* time, no two threads are given overlapping parts of the input space,    *)
(* and what they do together is splitting and refuting cases, so that      *)
(* UNSAT is answered only when the output is never 1: for every miter,     *)
(* number of threads and limit of iterations, as long as at most one       *)
(* output is split.                                                        *)
(***************************************************************************)
EXTENDS Split, CofactorsProofs

Parts == [cof : SUBSET Lits, vCofVars : SUBSET Lits]

ThreadStates == {"none", "spin", "woken", "solving", "solved", "exited"}

\* The part of TypeOK the hand-shake rests on
Typed ==
  /\ pc \in Locations /\ slot \in Slots /\ out \in Outs
  /\ vStack \in Seq(Parts)
  /\ p \in [Slots -> PartsOrNull] /\ pCnf \in [Slots -> BOOLEAN] /\ fWorking \in [Slots -> BOOLEAN]
  /\ thread \in [Threads -> ThreadStates] /\ taken \in [Threads -> PartsOrNull]

\* The threads that were started are those of one call
OneCall ==
  /\ \A t, u \in Threads : thread[t] # "none" /\ thread[u] # "none" => t[1] = u[1]
  /\ \A o \in Outs, i \in Slots : thread[<<o, i>>] # "none" => thread[<<o, 1>>] # "none"

\* A thread that has seen its flag, and has not taken it down yet
Active(t) == thread[t] \in {"woken", "solving", "solved"}

\* What either side relies on, by the place the manager is at
HandShake ==
  /\ \A t \in Threads : Active(t) => fWorking[t[2]]
  /\ \A t \in Threads : thread[t] \in {"solving", "solved"} => taken[t] = p[t[2]]
  /\ \A i \in Slots : fWorking[i] => p[i] # <<>>
  /\ pc = "give" => ~fWorking[slot] /\ p[slot] = <<>>
  /\ pc = "start" => ~fWorking[slot] /\ p[slot] # <<>>
  /\ pc = "stop" => \A i \in Slots : ~fWorking[i]

OwnedInv == Typed /\ OneCall /\ (FrameLive => HandShake)

-----------------------------------------------------------------------------
(* Helpers *)

LEMMA ThreadSlot == ASSUME NEW t \in Threads PROVE t[1] \in Outs /\ t[2] \in Slots
  BY DEF Threads

\* Two threads of one call and one slot are the same
LEMMA ThreadUnique ==
  ASSUME NEW t \in Threads, NEW u \in Threads, t[1] = u[1], t[2] = u[2]
  PROVE  t = u
  BY DEF Threads

\* A part is not the null pointer
LEMMA PartNotNull == ASSUME NEW x \in Parts PROVE x # <<>>
<1>1. "cof" \in DOMAIN x
  BY DEF Parts
<1>2. DOMAIN <<>> = {}
  OBVIOUS
<1> QED
  BY <1>1, <1>2

\* What a part is split into
LEMMA HalvesTyped ==
  ASSUME NEW x \in Parts, NEW v \in Free(x.cof)
  PROVE  Halves(x, v) \in Seq(Parts)
<1>1. v \in Pis
  BY DEF Free
<1>2. <<v, FALSE>> \in Lits /\ <<v, TRUE>> \in Lits
  BY <1>1 DEF Lits
<1>3. \A l, r \in Lits : Part(x.cof \cup {l}, x.vCofVars \cup {r}) \in Parts
  BY DEF Parts, Part
<1>4. Cofactor(x, v, FALSE, <<v, FALSE>>) \in Parts /\ Cofactor(x, v, TRUE, <<v, FALSE>>) \in Parts
  BY <1>2, <1>3 DEF Cofactor
<1>5. \A a, b \in Parts : <<a, b>> \in Seq(Parts)
  OBVIOUS
<1> QED
  BY <1>4, <1>5, Zenon DEF Halves

LEMMA WholeTyped == <<Whole>> \in Seq(Parts)
  BY DEF Whole, Part, Parts

\* Where the manager goes after a slot
LEMMA NextSlotTyped ==
  ASSUME slot \in Slots, NextSlot
  PROVE  slot' \in Slots /\ pc' \in {"visit", "roundEnd"}
  BY SplitAssumption DEF NextSlot, Slots

-----------------------------------------------------------------------------
(* The manager's steps *)

LEMMA InitOwned == Init => OwnedInv
<1> SUFFICES ASSUME Init PROVE OwnedInv
  OBVIOUS
<1>1. 1 \in Slots /\ 0 \in Outs
  BY SplitAssumption, CofactorsAssumption DEF Slots, Outs
<1>2. Typed
  BY <1>1 DEF Init, Typed, Locations, PartsOrNull, ThreadStates
<1>3. OneCall
  BY <1>1, ThreadSlot DEF Init, OneCall, Threads
<1>4. ~FrameLive
  BY DEF Init, FrameLive
<1> QED
  BY <1>2, <1>3, <1>4 DEF OwnedInv

\* Threads are started once
LEMMA StartedFresh ==
  ASSUME NSplitMax <= 1, OwnedInv, StartThreads
  PROVE  thread' = [t \in Threads |-> IF t[1] = out THEN "spin" ELSE "none"]
<1> DEFINE S == {o \in Outs : thread[<<o, 1>>] # "none"}
<1>1. IsFiniteSet(S)
  <2>1. IsFiniteSet(0 .. NOuts - 1)
    BY FS_Interval, CofactorsAssumption
  <2> QED
    BY <2>1, FS_Subset DEF Outs
<1>2. Cardinality(S) \in Nat /\ Cardinality(S) < NSplitMax
  BY <1>1, FS_CardinalityType DEF StartThreads
<1>3. S = {}
  BY <1>1, <1>2, FS_EmptySet, SplitAssumption
<1>4. ASSUME NEW o \in Outs, NEW i \in Slots PROVE thread[<<o, i>>] = "none"
  <2>1. thread[<<o, 1>>] = "none"
    BY <1>3
  <2> QED
    BY <2>1 DEF OwnedInv, OneCall
<1>5. \A t \in Threads : thread[t] = "none"
  BY <1>4 DEF Threads
<1> QED
  BY <1>5 DEF StartThreads

\* ... all of them for the output being solved
LEMMA StartThreadsOwned ==
  ASSUME NSplitMax <= 1, OwnedInv, StartThreads
  PROVE  OwnedInv'
<1>1. thread' = [t \in Threads |-> IF t[1] = out THEN "spin" ELSE "none"]
  BY StartedFresh
<1>2. Typed'
  <2>1. thread' \in [Threads -> ThreadStates]
    BY <1>1 DEF ThreadStates
  <2>2. vStack' \in Seq(Parts)
    BY WholeTyped DEF StartThreads
  <2> QED
    BY <2>1, <2>2 DEF StartThreads, OwnedInv, Typed, Locations, PartsOrNull, testVars
<1>3. OneCall'
  <2>1. 1 \in Slots
    BY SplitAssumption DEF Slots
  <2> QED
    BY <1>1, <2>1 DEF OneCall, Threads
<1>4. HandShake'
  BY <1>1, ThreadSlot DEF StartThreads, HandShake, Active
<1> QED
  BY <1>2, <1>3, <1>4 DEF OwnedInv

\* Steps that leave the frame alone, or in which it is left
LEMMA OutsideOwned ==
  ASSUME OwnedInv, SolvedWhole \/ StopThreads \/ CollectAnswer \/ CollectOther
  PROVE  OwnedInv'
<1>1. Typed'
  <2>1. CASE SolvedWhole
    BY <2>1 DEF SolvedWhole, OwnedInv, Typed, Locations, slotVars, threadVars, testVars
  <2>2. CASE StopThreads
    <3>1. fWorking' \in [Slots -> BOOLEAN]
      BY <2>2 DEF StopThreads, OwnedInv, Typed
    <3>2. vStack' \in Seq(Parts)
      BY <2>2 DEF StopThreads
    <3> QED
      BY <2>2, <3>1, <3>2
      DEF StopThreads, OwnedInv, Typed, Locations, PartsOrNull, threadVars, testVars
  <2>3. CASE CollectAnswer
    BY <2>3 DEF CollectAnswer, OwnedInv, Typed, Locations, slotVars, threadVars, testVars
  <2>4. CASE CollectOther
    BY <2>4 DEF CollectOther, OwnedInv, Typed, Locations, slotVars, threadVars
  <2> QED
    BY <2>1, <2>2, <2>3, <2>4
<1>2. UNCHANGED thread
  BY DEF SolvedWhole, StopThreads, CollectAnswer, CollectOther, threadVars
<1>3. OneCall'
  BY <1>2 DEF OwnedInv, OneCall
<1>4. ~FrameLive'
  BY DEF SolvedWhole, StopThreads, CollectAnswer, CollectOther, FrameLive
<1> QED
  BY <1>1, <1>3, <1>4 DEF OwnedInv

\* Steps of the manager that write neither a slot nor the stack
LEMMA LookOwned ==
  ASSUME OwnedInv, FrameLive,
         StartRound \/ VisitBusy \/ VisitIdle \/ GiveNothing \/ EndRound \/ WaitForThreads
  PROVE  OwnedInv'
<1>1. UNCHANGED <<out, vStack, p, pCnf, fWorking, thread, taken>>
  BY DEF StartRound, VisitBusy, VisitIdle, GiveNothing, EndRound, WaitForThreads,
         slotVars, threadVars, testVars
<1>2. slot' \in Slots /\ pc' \in Locations
  BY NextSlotTyped, SplitAssumption
  DEF OwnedInv, Typed, Locations, Slots,
      StartRound, VisitBusy, VisitIdle, GiveNothing, EndRound, WaitForThreads
<1>3. pc' # "start" /\ (pc' = "give" => ~fWorking[slot'] /\ p[slot'] = <<>>)
                    /\ (pc' = "stop" => \A i \in Slots : ~fWorking[i])
  <2>1. CASE VisitIdle
    BY <2>1 DEF VisitIdle
  <2>2. CASE WaitForThreads
    BY <2>2 DEF WaitForThreads, AllIdle
  <2>3. CASE StartRound \/ VisitBusy \/ GiveNothing \/ EndRound
    BY <2>3 DEF StartRound, VisitBusy, GiveNothing, EndRound, NextSlot
  <2> QED
    BY <2>1, <2>2, <2>3
<1>4. HandShake'
  BY <1>1, <1>3 DEF OwnedInv, HandShake, Active
<1> QED
  BY <1>1, <1>2, <1>4 DEF OwnedInv, Typed, OneCall

\* The result of a slot is collected while its flag is down
LEMMA CollectOwned ==
  ASSUME OwnedInv, FrameLive, CollectSat \/ CollectUndec \/ CollectUnsat
  PROVE  OwnedInv'
<1> USE DEF OwnedInv
<1>1. UNCHANGED <<out, slot, fWorking, thread, taken>>
  BY DEF CollectSat, CollectUndec, CollectUnsat, FreePart, threadVars, testVars
<1>2. ~fWorking[slot] /\ slot \in Slots /\ p[slot] \in Parts
  BY DEF CollectSat, CollectUndec, CollectUnsat, Finished, Typed, PartsOrNull, Parts
<1>3. \/ p' = p /\ pc' = "wait"
      \/ p' = [p EXCEPT ![slot] = <<>>] /\ pc' = "give"
  BY DEF CollectSat, CollectUndec, CollectUnsat, FreePart
<1>4. vStack' \in Seq(Parts)
  <2>1. CASE CollectUndec
    <3>1. PICK v \in Free(p[slot].cof) : vStack' = vStack \o Halves(p[slot], v)
      BY <2>1 DEF CollectUndec
    <3>2. Halves(p[slot], v) \in Seq(Parts)
      BY <1>2, HalvesTyped
    <3> QED
      BY <3>1, <3>2 DEF Typed
  <2>2. CASE CollectSat \/ CollectUnsat
    BY <2>2 DEF CollectSat, CollectUnsat, Typed
  <2> QED
    BY <2>1, <2>2
<1>5. Typed'
  <2>1. pCnf' \in [Slots -> BOOLEAN]
    BY DEF CollectSat, CollectUndec, CollectUnsat, FreePart, Typed
  <2> QED
    BY <1>1, <1>3, <1>4, <2>1 DEF Typed, Locations, PartsOrNull
<1>6. HandShake'
  <2>1. \A t \in Threads : Active(t) => t[2] # slot
    BY <1>2 DEF HandShake
  <2>2. \A t \in Threads : Active(t) => p'[t[2]] = p[t[2]]
    BY <1>3, <2>1, ThreadSlot DEF Typed
  <2>3. \A i \in Slots : fWorking[i] => p'[i] = p[i]
    BY <1>2, <1>3 DEF Typed
  <2>4. pc' = "give" => p'[slot] = <<>>
    BY <1>2, <1>3 DEF Typed
  <2>5. \A t \in Threads : thread[t] \in {"solving", "solved"} => Active(t)
    BY DEF Active
  <2> QED
    BY <1>1, <1>2, <1>3, <2>2, <2>3, <2>4, <2>5 DEF HandShake, Active
<1> QED
  BY <1>1, <1>5, <1>6 DEF OneCall

\* A slot gets a part while its flag is down
LEMMA GivePartOwned == ASSUME OwnedInv, FrameLive, GivePart PROVE OwnedInv'
<1> USE DEF OwnedInv
<1>1. vStack[Len(vStack)] \in Parts /\ vStack' \in Seq(Parts)
  BY DEF GivePart, Typed
<1>2. ~fWorking[slot] /\ slot \in Slots
  BY DEF GivePart, HandShake, Typed
<1>3. p' = [p EXCEPT ![slot] = vStack[Len(vStack)]]
  BY DEF GivePart
<1>4. UNCHANGED <<out, slot, fWorking, thread, taken>> /\ pc' = "start"
  BY DEF GivePart, threadVars, testVars
<1>5. Typed'
  <2>1. pCnf' \in [Slots -> BOOLEAN]
    BY DEF GivePart, Typed
  <2> QED
    BY <1>1, <1>3, <1>4, <2>1 DEF Typed, Locations, PartsOrNull, Parts
<1>6. HandShake'
  <2>1. \A t \in Threads : Active(t) => t[2] # slot
    BY <1>2 DEF HandShake, GivePart
  <2>2. \A t \in Threads : Active(t) => p'[t[2]] = p[t[2]]
    BY <1>3, <2>1, ThreadSlot DEF Typed
  <2>3. \A i \in Slots : fWorking[i] => p'[i] = p[i]
    BY <1>2, <1>3 DEF Typed
  <2>4. p'[slot] # <<>>
    BY <1>1, <1>2, <1>3, PartNotNull DEF Typed
  <2>5. \A t \in Threads : thread[t] \in {"solving", "solved"} => Active(t)
    BY DEF Active
  <2> QED
    BY <1>2, <1>4, <2>2, <2>3, <2>4, <2>5 DEF HandShake, Active
<1> QED
  BY <1>4, <1>5, <1>6 DEF OneCall

\* The flag is raised when the slot has a part, and no thread works on it
LEMMA StartPartOwned == ASSUME OwnedInv, FrameLive, StartPart PROVE OwnedInv'
<1> USE DEF OwnedInv
<1>1. UNCHANGED <<out, vStack, p, pCnf, thread, taken>>
  BY DEF StartPart, threadVars, testVars
<1>2. slot' \in Slots /\ pc' \in {"visit", "roundEnd"}
  BY NextSlotTyped DEF StartPart, Typed
<1>3. fWorking' = [fWorking EXCEPT ![slot] = TRUE] /\ p[slot] # <<>>
  BY DEF StartPart, HandShake
<1>4. Typed'
  BY <1>1, <1>2, <1>3 DEF Typed, Locations
<1>5. HandShake'
  <2>1. \A i \in Slots : fWorking[i] => fWorking'[i]
    BY <1>3 DEF Typed
  <2>2. \A i \in Slots : fWorking'[i] => p[i] # <<>>
    BY <1>3 DEF Typed, HandShake
  <2> QED
    BY <1>1, <1>2, <2>1, <2>2, ThreadSlot DEF HandShake, Active
<1> QED
  BY <1>1, <1>4, <1>5 DEF OneCall

-----------------------------------------------------------------------------
(* The workers' steps *)

\* A thread sees its flag, takes the slot's part and solves it
LEMMA WorkOwned ==
  ASSUME OwnedInv, NEW t \in Threads, Wake(t) \/ Take(t) \/ Solve(t)
  PROVE  OwnedInv'
<1> USE DEF OwnedInv
<1>1. UNCHANGED <<pc, slot, out, vStack, p, pCnf, fWorking>>
  BY DEF Wake, Take, Solve, slotVars, testVars
<1>2. t[2] \in Slots
  BY ThreadSlot
<1>3. \E x \in {"woken", "solving", "solved", "exited"} : thread' = [thread EXCEPT ![t] = x]
  BY DEF Wake, Take, Solve
<1>4. thread[t] # "none"
  BY DEF Wake, Take, Solve
<1>5. OneCall'
  BY <1>3, <1>4 DEF OneCall, Typed, Threads
<1>6. Typed'
  <2>1. taken' \in [Threads -> PartsOrNull]
    BY <1>2 DEF Wake, Take, Solve, Typed
  <2> QED
    BY <1>1, <1>3, <2>1 DEF Typed, ThreadStates
<1>7. ASSUME FrameLive PROVE HandShake'
  <2>1. \A u \in Threads : u # t => thread'[u] = thread[u] /\ taken'[u] = taken[u]
    BY <1>3 DEF Wake, Take, Solve, Typed
  <2>2. fWorking[t[2]]
    BY <1>7 DEF Wake, Take, Solve, HandShake, Active
  <2>3. thread'[t] \in {"solving", "solved"} => taken'[t] = p[t[2]]
    <3>1. CASE Wake(t)
      BY <3>1 DEF Wake, Typed
    <3>2. CASE Take(t)
      BY <3>2 DEF Take, Typed
    <3>3. CASE Solve(t)
      BY <1>7, <3>3 DEF Solve, Typed, HandShake
    <3> QED
      BY <3>1, <3>2, <3>3
  <2> QED
    BY <1>1, <1>7, <2>1, <2>2, <2>3 DEF HandShake, Active
<1>8. FrameLive' => FrameLive
  BY <1>1 DEF FrameLive
<1> QED
  BY <1>5, <1>6, <1>7, <1>8

\* A thread takes its flag down: no other thread of the slot is active
LEMMA ClearOwned == ASSUME OwnedInv, NEW t \in Threads, Clear(t) PROVE OwnedInv'
<1> USE DEF OwnedInv
<1>1. UNCHANGED <<pc, slot, out, vStack, p, pCnf>>
  BY DEF Clear, testVars
<1>2. t[2] \in Slots
  BY ThreadSlot
<1>3. /\ thread[t] = "solved" /\ thread' = [thread EXCEPT ![t] = "spin"]
      /\ fWorking' = [fWorking EXCEPT ![t[2]] = FALSE]
      /\ taken' = [taken EXCEPT ![t] = <<>>]
  BY DEF Clear, Cleared
<1>4. OneCall'
  BY <1>3 DEF OneCall, Typed, Threads
<1>5. Typed'
  BY <1>1, <1>2, <1>3 DEF Typed, ThreadStates, PartsOrNull
<1>6. ASSUME FrameLive PROVE HandShake'
  <2>1. ASSUME NEW u \in Threads, Active(u)'
        PROVE  u # t /\ thread[u] = thread'[u] /\ taken'[u] = taken[u] /\ Active(u)
    BY <1>3, <2>1 DEF Typed, Active
  <2>2. ASSUME NEW u \in Threads, Active(u)' PROVE u[2] # t[2]
    <3>1. u # t /\ thread[u] # "none" /\ thread[t] # "none"
      BY <1>3, <2>1, <2>2 DEF Active
    <3> QED
      BY <3>1, ThreadUnique DEF OneCall
  <2>3. \A u \in Threads : Active(u)' => fWorking'[u[2]]
    BY <1>2, <1>3, <1>6, <2>1, <2>2, ThreadSlot DEF Typed, HandShake
  <2>4. \A i \in Slots : fWorking'[i] => fWorking[i]
    BY <1>3 DEF Typed
  <2>5. \A u \in Threads : thread'[u] \in {"solving", "solved"} => taken'[u] = p[u[2]]
    BY <1>6, <2>1 DEF HandShake, Active
  <2> QED
    BY <1>1, <1>6, <2>3, <2>4, <2>5 DEF HandShake, Active, Typed
<1>7. FrameLive' => FrameLive
  BY <1>1 DEF FrameLive
<1> QED
  BY <1>4, <1>5, <1>6, <1>7

\* A thread polls a frame that was left
LEMMA StrayOwned == ASSUME OwnedInv, NEW t \in Threads, Stray(t) PROVE OwnedInv'
<1> USE DEF OwnedInv
<1>1. UNCHANGED <<slot, out, vStack, p, pCnf, fWorking, taken>> /\ pc' \in {pc, "crashed"}
  BY DEF Stray, slotVars, testVars
<1>2. thread' = thread \/ (thread[t] # "none" /\ thread' = [thread EXCEPT ![t] = "exited"])
  BY DEF Stray
<1>3. Typed'
  BY <1>1, <1>2 DEF Typed, ThreadStates, Locations
<1>4. OneCall'
  <2>1. \A u \in Threads : thread'[u] # "none" <=> thread[u] # "none"
    BY <1>2 DEF Typed
  <2>2. \A o \in Outs, i \in Slots : <<o, i>> \in Threads /\ <<o, 1>> \in Threads
    BY SplitAssumption DEF Threads, Slots
  <2> QED
    BY <2>1, <2>2 DEF OneCall
<1>5. ~FrameLive'
  BY <1>1 DEF Stray, FrameLive
<1> QED
  BY <1>3, <1>4, <1>5

-----------------------------------------------------------------------------
LEMMA OwnedStep == ASSUME NSplitMax <= 1, OwnedInv, [Next]_vars PROVE OwnedInv'
<1>1. CASE StartThreads
  BY <1>1, StartThreadsOwned
<1>2. CASE SolvedWhole \/ StopThreads \/ CollectAnswer \/ CollectOther
  BY <1>2, OutsideOwned
<1>3. CASE StartRound \/ VisitBusy \/ VisitIdle \/ GiveNothing \/ EndRound \/ WaitForThreads
  <2>1. FrameLive
    BY <1>3 DEF FrameLive, StartRound, VisitBusy, VisitIdle, GiveNothing, EndRound, WaitForThreads
  <2> QED
    BY <1>3, <2>1, LookOwned
<1>4. CASE CollectSat \/ CollectUndec \/ CollectUnsat
  <2>1. FrameLive
    BY <1>4 DEF FrameLive, CollectSat, CollectUndec, CollectUnsat, Finished
  <2> QED
    BY <1>4, <2>1, CollectOwned
<1>5. CASE GivePart \/ StartPart
  <2>1. FrameLive
    BY <1>5 DEF FrameLive, GivePart, StartPart
  <2> QED
    BY <1>5, <2>1, GivePartOwned, StartPartOwned
<1>6. ASSUME NEW t \in Threads, Worker(t) \/ Stray(t) PROVE OwnedInv'
  BY <1>6, WorkOwned, ClearOwned, StrayOwned DEF Worker
<1>7. CASE UNCHANGED vars
  BY <1>7 DEF vars, slotVars, threadVars, testVars, OwnedInv, Typed, OneCall, HandShake, Active, FrameLive
<1> QED
  BY <1>1, <1>2, <1>3, <1>4, <1>5, <1>6, <1>7 DEF Next, Manager, Ended

\* While a slot's flag is down no thread reads or writes the slot, and while it is
\* up the thread solves the slot's part, which the manager leaves alone; the
\* assertions of cecSplit.c at lines 559, 694 and 712 hold
THEOREM SlotsOwned == ASSUME NSplitMax <= 1 PROVE Spec => []SlotOwned
<1>1. Init => OwnedInv
  BY InitOwned
<1>2. OwnedInv /\ [Next]_vars => OwnedInv'
  BY OwnedStep
<1>3. OwnedInv => SlotOwned
  BY ThreadSlot DEF OwnedInv, HandShake, Active, SlotOwned, Typed
<1> QED
  BY <1>1, <1>2, <1>3, PTL DEF Spec

-----------------------------------------------------------------------------
(* What the parts and the results are while the search goes on *)

\* Cases no assignment lies in both of
Conflict(c, d) == \E l \in c : <<l[1], ~l[2]>> \in d

Consistent(c) == ~Conflict(c, c)

InSlot(i) == p[i] # <<>>

\* The stack and the slots hold consistent parts, any two of which conflict
Disjoint ==
  /\ \A j \in DOMAIN vStack : Consistent(vStack[j].cof)
  /\ \A i \in Slots : InSlot(i) => Consistent(p[i].cof)
  /\ \A j, k \in DOMAIN vStack : j # k => Conflict(vStack[j].cof, vStack[k].cof)
  /\ \A i, k \in Slots : i # k /\ InSlot(i) /\ InSlot(k) => Conflict(p[i].cof, p[k].cof)
  /\ \A j \in DOMAIN vStack, i \in Slots :
       InSlot(i) => Conflict(vStack[j].cof, p[i].cof) /\ Conflict(p[i].cof, vStack[j].cof)

\* The result of a slot whose flag is down, or will be next, is one for its part
Solved ==
  /\ \A t \in Threads : thread[t] = "solved" => Result[t[2]] \in Results(out, p[t[2]])
  /\ \A i \in Slots :
       InSlot(i) /\ ~fWorking[i] /\ ~(pc = "start" /\ i = slot)
         => Result[i] \in Results(out, p[i])

\* A round in which nothing was left to do has found the stack and the slots empty
NothingLeft ==
  pc \in {"visit", "give", "start", "roundEnd"} /\ ~fWorkToDo =>
    /\ pc # "start" /\ vStack = <<>>
    /\ \A i \in Slots : (i < slot \/ (i = slot /\ pc \in {"give", "roundEnd"})) => ~InSlot(i)
    /\ pc = "roundEnd" => slot = NSlots

Answers == {"sat", "unsat", "undec"}

ResultTyped ==
  /\ Result \in [Slots -> Answers] /\ RetValue1 \in Answers /\ fWorkToDo \in BOOLEAN
  /\ pc = "call" => RetValue1 = "undec"

AnswerInv ==
  /\ OwnedInv /\ ResultTyped
  /\ Searching => Solved /\ Disjoint /\ NothingLeft

-----------------------------------------------------------------------------
(* Conflicting cases *)

LEMMA ConflictGrows ==
  ASSUME NEW c, NEW d, NEW e, NEW f, Conflict(c, d), c \subseteq e, d \subseteq f
  PROVE  Conflict(e, f)
  BY DEF Conflict

\* The two cases a case is split into
LEMMA HalvesConflict ==
  ASSUME NEW c, NEW v
  PROVE  /\ Conflict(c \cup {<<v, FALSE>>}, c \cup {<<v, TRUE>>})
         /\ Conflict(c \cup {<<v, TRUE>>}, c \cup {<<v, FALSE>>})
<1>1. ASSUME NEW b \in BOOLEAN PROVE Conflict(c \cup {<<v, b>>}, c \cup {<<v, ~b>>})
  <2> DEFINE l == <<v, b>>
  <2>1. l[1] = v /\ l[2] = b
    OBVIOUS
  <2>2. <<l[1], ~l[2]>> = <<v, ~b>>
    BY <2>1
  <2>3. l \in c \cup {<<v, b>>}
    OBVIOUS
  <2> HIDE DEF l
  <2> QED
    BY <2>2, <2>3 DEF Conflict
<1>2. (~FALSE) = TRUE /\ (~TRUE) = FALSE
  OBVIOUS
<1> QED
  BY <1>1, <1>2

LEMMA HalfConsistent ==
  ASSUME NEW c, Consistent(c), NEW v \in Free(c), NEW b \in BOOLEAN
  PROVE  Consistent(c \cup {<<v, b>>})
<1> SUFFICES ASSUME NEW l \in c \cup {<<v, b>>}, <<l[1], ~l[2]>> \in c \cup {<<v, b>>}
             PROVE  FALSE
  BY DEF Consistent, Conflict
<1>1. \A x \in c : x[1] # v
  BY DEF Free
<1>2. CASE l \in c /\ <<l[1], ~l[2]>> \in c
  BY <1>2 DEF Consistent, Conflict
<1>3. CASE l \in c /\ <<l[1], ~l[2]>> = <<v, b>>
  BY <1>1, <1>3
<1>4. CASE l = <<v, b>> /\ <<l[1], ~l[2]>> \in c
  <2>1. <<l[1], ~l[2]>>[1] = v
    BY <1>4
  <2> QED
    BY <1>1, <1>4, <2>1
<1>5. CASE l = <<v, b>> /\ <<l[1], ~l[2]>> = <<v, b>>
  <2>1. l[2] = b /\ ~l[2] = b
    BY <1>5
  <2> QED
    BY <2>1
<1> QED
  BY <1>2, <1>3, <1>4, <1>5

LEMMA HalvesCofs ==
  ASSUME NEW x, NEW v
  PROVE  /\ Len(Halves(x, v)) = 2
         /\ Halves(x, v)[1].cof = x.cof \cup {<<v, FALSE>>}
         /\ Halves(x, v)[2].cof = x.cof \cup {<<v, TRUE>>}
<1>1. \A a, b : Len(<<a, b>>) = 2 /\ <<a, b>>[1] = a /\ <<a, b>>[2] = b
  OBVIOUS
<1>2. \A c, d : Part(c, d).cof = c
  BY DEF Part
<1> QED
  BY <1>1, <1>2, Zenon DEF Halves, Cofactor

-----------------------------------------------------------------------------
(* The parts stay disjoint *)

\* A part that ran out of time makes way for its halves
LEMMA UndecEffect ==
  ASSUME OwnedInv, CollectUndec
  PROVE  \E v \in Free(p[slot].cof) :
           /\ Len(vStack) \in Nat /\ DOMAIN vStack = 1 .. Len(vStack)
           /\ DOMAIN vStack' = 1 .. Len(vStack) + 2
           /\ \A j \in 1 .. Len(vStack) : vStack'[j] = vStack[j]
           /\ vStack'[Len(vStack) + 1].cof = p[slot].cof \cup {<<v, FALSE>>}
           /\ vStack'[Len(vStack) + 2].cof = p[slot].cof \cup {<<v, TRUE>>}
           /\ vStack'[Len(vStack) + 1] = Cofactor(p[slot], v, FALSE, <<v, FALSE>>)
           /\ vStack'[Len(vStack) + 2] = Cofactor(p[slot], v, TRUE, <<v, FALSE>>)
<1> DEFINE n == Len(vStack)
<1>1. vStack \in Seq(Parts) /\ p[slot] \in Parts
  BY DEF OwnedInv, Typed, CollectUndec, Finished, PartsOrNull, Parts
<1>2. PICK v \in Free(p[slot].cof) : vStack' = vStack \o Halves(p[slot], v)
  BY DEF CollectUndec
<1>3. Halves(p[slot], v) \in Seq(Parts) /\ Len(Halves(p[slot], v)) = 2
  BY <1>1, HalvesTyped, HalvesCofs
<1>4. n \in Nat /\ DOMAIN vStack = 1 .. n /\ DOMAIN vStack' = 1 .. n + 2
  <2>1. \A a, b \in Seq(Parts) : a \o b \in Seq(Parts) /\ Len(a \o b) = Len(a) + Len(b)
    OBVIOUS
  <2>2. vStack' \in Seq(Parts) /\ Len(vStack') = n + 2
    BY <1>1, <1>2, <1>3, <2>1
  <2> QED
    BY <1>1, <2>2
<1>5. \A j \in 1 .. n : vStack'[j] = vStack[j]
  BY <1>1, <1>2, <1>3
<1>6. vStack'[n + 1] = Halves(p[slot], v)[1] /\ vStack'[n + 2] = Halves(p[slot], v)[2]
  BY <1>1, <1>2, <1>3, <1>4
<1>7. /\ vStack'[n + 1].cof = p[slot].cof \cup {<<v, FALSE>>}
      /\ vStack'[n + 2].cof = p[slot].cof \cup {<<v, TRUE>>}
  <2>1. /\ Halves(p[slot], v)[1].cof = p[slot].cof \cup {<<v, FALSE>>}
        /\ Halves(p[slot], v)[2].cof = p[slot].cof \cup {<<v, TRUE>>}
    BY HalvesCofs
  <2> QED
    BY <1>6, <2>1, Zenon
<1>8. /\ Halves(p[slot], v)[1] = Cofactor(p[slot], v, FALSE, <<v, FALSE>>)
      /\ Halves(p[slot], v)[2] = Cofactor(p[slot], v, TRUE, <<v, FALSE>>)
  <2>1. \A a, b : <<a, b>>[1] = a /\ <<a, b>>[2] = b
    OBVIOUS
  <2> QED
    BY <2>1, Zenon DEF Halves
<1> QED
  BY <1>4, <1>5, <1>6, <1>7, <1>8

\* What collecting a part does to the slots
LEMMA CollectEffect ==
  ASSUME OwnedInv, CollectUndec \/ CollectUnsat
  PROVE  /\ slot \in Slots /\ InSlot(slot)
         /\ \A i \in Slots : InSlot(i)' <=> i # slot /\ InSlot(i)
         /\ \A i \in Slots : i # slot => p'[i] = p[i]
<1>1. /\ slot \in Slots /\ InSlot(slot) /\ p \in [Slots -> PartsOrNull]
      /\ p' = [p EXCEPT ![slot] = <<>>]
  BY DEF OwnedInv, Typed, CollectUndec, CollectUnsat, Finished, FreePart, InSlot
<1> QED
  BY <1>1 DEF InSlot

LEMMA UndecDisjoint ==
  ASSUME OwnedInv, Disjoint, CollectUndec
  PROVE  Disjoint'
<1> DEFINE n == Len(vStack)
<1> DEFINE c0 == p[slot].cof
<1>1. slot \in Slots /\ InSlot(slot)
  BY CollectEffect
<1>2. PICK v \in Free(c0) :
        /\ n \in Nat /\ DOMAIN vStack = 1 .. n /\ DOMAIN vStack' = 1 .. n + 2
        /\ \A j \in 1 .. n : vStack'[j] = vStack[j]
        /\ vStack'[n + 1].cof = c0 \cup {<<v, FALSE>>}
        /\ vStack'[n + 2].cof = c0 \cup {<<v, TRUE>>}
  BY UndecEffect
<1>3. n \in Nat /\ DOMAIN vStack = 1 .. n /\ DOMAIN vStack' = 1 .. n + 2
  BY <1>2
<1>4. \A j \in 1 .. n : vStack'[j] = vStack[j]
  BY <1>2
<1>5. vStack'[n + 1].cof = c0 \cup {<<v, FALSE>>} /\ vStack'[n + 2].cof = c0 \cup {<<v, TRUE>>}
  BY <1>2
<1>6. \A j \in {n + 1, n + 2} : c0 \subseteq vStack'[j].cof
  BY <1>5
<1>7. \A j \in {n + 1, n + 2} : Consistent(vStack'[j].cof)
  <2>1. Consistent(c0)
    BY <1>1 DEF Disjoint
  <2>2. Consistent(c0 \cup {<<v, FALSE>>}) /\ Consistent(c0 \cup {<<v, TRUE>>})
    BY <2>1, HalfConsistent
  <2> QED
    BY <1>5, <2>2, Zenon
<1>8. Conflict(vStack'[n + 1].cof, vStack'[n + 2].cof) /\ Conflict(vStack'[n + 2].cof, vStack'[n + 1].cof)
  <2>1. /\ Conflict(c0 \cup {<<v, FALSE>>}, c0 \cup {<<v, TRUE>>})
        /\ Conflict(c0 \cup {<<v, TRUE>>}, c0 \cup {<<v, FALSE>>})
    BY HalvesConflict
  <2> HIDE DEF c0, n
  <2> QED
    BY <1>5, <2>1
<1>9. \A i \in Slots : InSlot(i)' => i # slot /\ InSlot(i) /\ p'[i] = p[i]
  BY CollectEffect
<1>10. \A j \in DOMAIN vStack' : j \in 1 .. n \/ j \in {n + 1, n + 2}
  BY <1>3
<1> HIDE DEF n, c0
<1>11. \A j \in DOMAIN vStack' : Consistent(vStack'[j].cof)
  BY <1>3, <1>4, <1>7, <1>10 DEF Disjoint
<1>12. \A i \in Slots : InSlot(i)' => Consistent(p'[i].cof)
  BY <1>9 DEF Disjoint
<1>13. \A j, k \in DOMAIN vStack' : j # k => Conflict(vStack'[j].cof, vStack'[k].cof)
  <2> SUFFICES ASSUME NEW j \in DOMAIN vStack', NEW k \in DOMAIN vStack', j # k
               PROVE  Conflict(vStack'[j].cof, vStack'[k].cof)
    OBVIOUS
  <2>1. CASE j \in 1 .. n /\ k \in 1 .. n
    BY <1>3, <1>4, <2>1 DEF Disjoint
  <2>2. CASE j \in 1 .. n /\ k \in {n + 1, n + 2}
    <3>1. Conflict(vStack[j].cof, c0)
      BY <1>1, <1>3, <2>2 DEF Disjoint, c0
    <3> QED
      BY <1>4, <1>6, <2>2, <3>1, ConflictGrows
  <2>3. CASE j \in {n + 1, n + 2} /\ k \in 1 .. n
    <3>1. Conflict(c0, vStack[k].cof)
      BY <1>1, <1>3, <2>3 DEF Disjoint, c0
    <3> QED
      BY <1>4, <1>6, <2>3, <3>1, ConflictGrows
  <2>4. CASE j \in {n + 1, n + 2} /\ k \in {n + 1, n + 2}
    BY <1>8, <2>4
  <2> QED
    BY <1>10, <2>1, <2>2, <2>3, <2>4
<1>14. \A i, k \in Slots : i # k /\ InSlot(i)' /\ InSlot(k)' => Conflict(p'[i].cof, p'[k].cof)
  BY <1>9 DEF Disjoint
<1>15. ASSUME NEW j \in DOMAIN vStack', NEW i \in Slots, InSlot(i)'
       PROVE  Conflict(vStack'[j].cof, p'[i].cof) /\ Conflict(p'[i].cof, vStack'[j].cof)
  <2>1. CASE j \in 1 .. n
    BY <1>3, <1>4, <1>9, <1>15, <2>1 DEF Disjoint
  <2>2. CASE j \in {n + 1, n + 2}
    <3>1. Conflict(c0, p[i].cof) /\ Conflict(p[i].cof, c0)
      BY <1>1, <1>9, <1>15 DEF Disjoint, c0
    <3> QED
      BY <1>6, <1>9, <1>15, <2>2, <3>1, ConflictGrows
  <2> QED
    BY <1>10, <2>1, <2>2
<1> QED
  BY <1>11, <1>12, <1>13, <1>14, <1>15 DEF Disjoint

\* A refuted part leaves the slot, and the last part of the stack goes into one
LEMMA UnsatDisjoint == ASSUME OwnedInv, Disjoint, CollectUnsat PROVE Disjoint'
<1>1. UNCHANGED vStack
  BY DEF CollectUnsat
<1>2. \A i \in Slots : InSlot(i)' => InSlot(i) /\ p'[i] = p[i]
  BY CollectEffect
<1> QED
  BY <1>1, <1>2 DEF Disjoint

LEMMA GiveDisjoint ==
  ASSUME OwnedInv, FrameLive, Disjoint, GivePart
  PROVE  /\ Disjoint'
         /\ Len(vStack) \in DOMAIN vStack /\ DOMAIN vStack' = DOMAIN vStack \ {Len(vStack)}
         /\ \A j \in DOMAIN vStack' : vStack'[j] = vStack[j]
         /\ ~InSlot(slot) /\ InSlot(slot)' /\ p'[slot] = vStack[Len(vStack)]
         /\ \A i \in Slots : i # slot => p'[i] = p[i]
<1> DEFINE n == Len(vStack)
<1>1. /\ vStack \in Seq(Parts) /\ vStack # <<>> /\ slot \in Slots /\ p \in [Slots -> PartsOrNull]
      /\ p' = [p EXCEPT ![slot] = vStack[n]] /\ vStack' = SubSeq(vStack, 1, n - 1)
  BY DEF OwnedInv, Typed, GivePart
<1>2. n \in DOMAIN vStack /\ DOMAIN vStack' = DOMAIN vStack \ {n}
  BY <1>1
<1>3. \A j \in DOMAIN vStack' : vStack'[j] = vStack[j]
  BY <1>1
<1>4. ~InSlot(slot)
  BY DEF OwnedInv, HandShake, GivePart, InSlot
<1>5. p'[slot] = vStack[n] /\ \A i \in Slots : i # slot => p'[i] = p[i]
  BY <1>1
<1>6. InSlot(slot)'
  <2>1. vStack[n] \in Parts /\ slot' = slot
    BY <1>1 DEF GivePart
  <2> QED
    BY <1>5, <2>1, PartNotNull DEF InSlot
<1>7. \A i \in Slots : i # slot => (InSlot(i)' <=> InSlot(i))
  BY <1>5 DEF InSlot
<1> HIDE DEF n
<1>8. \A i \in Slots : InSlot(i)' => Consistent(p'[i].cof)
  BY <1>2, <1>5, <1>7 DEF Disjoint
<1>9. ASSUME NEW i \in Slots, NEW k \in Slots, i # k, InSlot(i)', InSlot(k)'
      PROVE  Conflict(p'[i].cof, p'[k].cof)
  <2>1. CASE i = slot
    BY <1>2, <1>5, <1>7, <1>9, <2>1 DEF Disjoint
  <2>2. CASE k = slot
    BY <1>2, <1>5, <1>7, <1>9, <2>2 DEF Disjoint
  <2>3. CASE i # slot /\ k # slot
    BY <1>5, <1>7, <1>9, <2>3 DEF Disjoint
  <2> QED
    BY <2>1, <2>2, <2>3
<1>10. ASSUME NEW j \in DOMAIN vStack', NEW i \in Slots, InSlot(i)'
       PROVE  Conflict(vStack'[j].cof, p'[i].cof) /\ Conflict(p'[i].cof, vStack'[j].cof)
  <2>1. CASE i = slot
    BY <1>2, <1>3, <1>5, <2>1 DEF Disjoint
  <2>2. CASE i # slot
    BY <1>2, <1>3, <1>5, <1>7, <1>10, <2>2 DEF Disjoint
  <2> QED
    BY <2>1, <2>2
<1>11. Disjoint'
  BY <1>2, <1>3, <1>8, <1>9, <1>10 DEF Disjoint
<1> QED
  BY <1>2, <1>3, <1>4, <1>5, <1>6, <1>11 DEF n

-----------------------------------------------------------------------------
(* Results belong to the parts they are found with *)

LEMMA SolveTyped == ASSUME ResultTyped, NEW t \in Threads, Solve(t) PROVE ResultTyped'
<1>1. PICK r \in Results(out, taken[t]) : Result' = [Result EXCEPT ![t[2]] = r]
  BY DEF Solve
<1>2. r \in Answers
  BY <1>1 DEF Results, Answers
<1> QED
  BY <1>1, <1>2 DEF Solve, ResultTyped, callVars

\* What a step of the manager may do to a slot
LEMMA ManagerSolved ==
  ASSUME OwnedInv, FrameLive, Solved, Searching',
         StartRound \/ VisitBusy \/ VisitIdle \/ GiveNothing \/ EndRound
           \/ CollectUndec \/ CollectUnsat \/ GivePart \/ StartPart
  PROVE  Solved'
<1> USE DEF OwnedInv
<1>1. UNCHANGED <<out, thread, Result>>
  BY DEF StartRound, VisitBusy, VisitIdle, GiveNothing, EndRound, CollectUndec, CollectUnsat,
         FreePart, GivePart, StartPart, slotVars, threadVars, testVars
<1>2. slot \in Slots
  BY DEF Typed
<1>3. CASE StartRound \/ VisitBusy \/ VisitIdle \/ GiveNothing \/ EndRound
  <2>1. UNCHANGED <<p, fWorking>> /\ pc # "start"
    BY <1>3 DEF StartRound, VisitBusy, VisitIdle, GiveNothing, EndRound, slotVars
  <2> QED
    BY <1>1, <2>1 DEF Solved, InSlot
<1>4. CASE CollectUndec \/ CollectUnsat \/ GivePart
  <2>1. /\ UNCHANGED <<fWorking, slot>> /\ pc # "start" /\ ~fWorking[slot]
        /\ \A i \in Slots : i # slot => p'[i] = p[i]
    BY <1>4 DEF CollectUndec, CollectUnsat, Finished, FreePart, GivePart, HandShake, Typed
  <2>2. ~InSlot(slot)' \/ pc' = "start"
    BY <1>2, <1>4 DEF CollectUndec, CollectUnsat, FreePart, GivePart, InSlot, Typed
  <2>3. ASSUME NEW t \in Threads, thread[t] = "solved"
        PROVE  Result[t[2]] \in Results(out, p'[t[2]])
    <3>1. fWorking[t[2]] /\ t[2] \in Slots
      BY <2>3, ThreadSlot DEF HandShake, Active
    <3>2. t[2] # slot
      BY <2>1, <3>1
    <3> QED
      BY <2>1, <2>3, <3>1, <3>2 DEF Solved
  <2>4. ASSUME NEW i \in Slots, InSlot(i)', ~fWorking'[i], ~(pc' = "start" /\ i = slot')
        PROVE  Result'[i] \in Results(out', p'[i])
    <3>1. i # slot
      BY <2>1, <2>2, <2>4
    <3> QED
      BY <1>1, <2>1, <2>4, <3>1 DEF Solved, InSlot
  <2> QED
    BY <1>1, <2>3, <2>4 DEF Solved
<1>5. CASE StartPart
  <2>1. UNCHANGED p /\ fWorking' = [fWorking EXCEPT ![slot] = TRUE]
    BY <1>5 DEF StartPart
  <2>2. \A i \in Slots : ~fWorking'[i] => ~fWorking[i] /\ i # slot
    BY <1>2, <2>1 DEF Typed
  <2> QED
    BY <1>1, <2>1, <2>2 DEF Solved, InSlot
<1> QED
  BY <1>3, <1>4, <1>5

\* A thread stores the result of the slot's part before it takes the flag down
LEMMA WorkerSolved ==
  ASSUME OwnedInv, FrameLive, Solved, ResultTyped, NEW t \in Threads,
         Wake(t) \/ Take(t) \/ Solve(t) \/ Clear(t)
  PROVE  Solved'
<1> USE DEF OwnedInv
<1>1. UNCHANGED <<pc, slot, out, p, RetValue1, fWorkToDo>> /\ t[2] \in Slots
  BY ThreadSlot DEF Wake, Take, Solve, Clear, slotVars, callVars, testVars
<1>2. CASE Wake(t) \/ Take(t)
  <2>1. UNCHANGED <<Result, fWorking>>
    BY <1>2 DEF Wake, Take, slotVars
  <2>2. \A u \in Threads : thread'[u] = "solved" => thread[u] = "solved"
    BY <1>2 DEF Wake, Take, Typed
  <2> QED
    BY <1>1, <2>1, <2>2 DEF Solved, InSlot
<1>3. CASE Solve(t)
  <2>1. thread[t] = "solving" /\ UNCHANGED fWorking
        /\ thread' = [thread EXCEPT ![t] = "solved"]
    BY <1>3 DEF Solve
  <2>2. taken[t] = p[t[2]] /\ fWorking[t[2]]
    BY <2>1 DEF HandShake, Active
  <2>3. PICK r \in Results(out, p[t[2]]) : Result' = [Result EXCEPT ![t[2]] = r]
    BY <1>3, <2>2 DEF Solve
  <2>4. ASSUME NEW u \in Threads, thread'[u] = "solved"
        PROVE  Result'[u[2]] \in Results(out, p[u[2]])
    <3>1. CASE u = t
      BY <1>1, <2>3, <3>1 DEF ResultTyped
    <3>2. CASE u # t
      <4>1. thread[u] = "solved"
        BY <2>1, <2>4, <3>2 DEF Typed
      <4>2. u[2] # t[2]
        BY <2>1, <3>2, <4>1, ThreadUnique DEF OneCall
      <4> QED
        BY <1>1, <2>3, <4>1, <4>2, ThreadSlot DEF ResultTyped, Solved
    <3> QED
      BY <3>1, <3>2
  <2>5. \A i \in Slots : ~fWorking[i] => Result'[i] = Result[i]
    BY <1>1, <2>2, <2>3 DEF ResultTyped
  <2> QED
    BY <1>1, <2>1, <2>4, <2>5 DEF Solved, InSlot
<1>4. CASE Clear(t)
  <2>1. /\ thread[t] = "solved" /\ UNCHANGED Result
        /\ thread' = [thread EXCEPT ![t] = "spin"]
        /\ fWorking' = [fWorking EXCEPT ![t[2]] = FALSE]
    BY <1>4 DEF Clear, Cleared
  <2>2. \A u \in Threads : thread'[u] = "solved" => thread[u] = "solved"
    BY <2>1 DEF Typed
  <2>3. \A i \in Slots : ~fWorking'[i] => ~fWorking[i] \/ i = t[2]
    BY <2>1 DEF Typed
  <2>4. Result[t[2]] \in Results(out, p[t[2]])
    BY <2>1 DEF Solved
  <2> QED
    BY <1>1, <2>1, <2>2, <2>3, <2>4 DEF Solved, InSlot
<1> QED
  BY <1>2, <1>3, <1>4

-----------------------------------------------------------------------------
(* The invariant *)

\* Work left in a slot or on the stack is seen before the round ends
LEMMA ManagerNothingLeft ==
  ASSUME OwnedInv, FrameLive, ResultTyped, NothingLeft,
         StartRound \/ VisitBusy \/ VisitIdle \/ GiveNothing \/ EndRound
           \/ CollectUndec \/ CollectUnsat \/ GivePart \/ StartPart
  PROVE  NothingLeft'
<1>1. slot \in Slots /\ slot \in Int /\ NSlots \in Nat /\ p \in [Slots -> PartsOrNull]
  BY SplitAssumption DEF OwnedInv, Typed, Slots
<1>2. CASE StartRound
  <2>1. slot' = 1 /\ pc' = "visit" /\ vStack' = vStack /\ (~fWorkToDo' => vStack = <<>>)
    BY <1>2, Zenon DEF StartRound
  <2>2. \A i \in Slots : ~(i < 1)
    BY DEF Slots
  <2> QED
    BY <2>1, <2>2 DEF NothingLeft
<1>3. CASE VisitBusy \/ CollectUndec
  BY <1>3 DEF VisitBusy, CollectUndec, NothingLeft
<1>4. CASE VisitIdle
  BY <1>4 DEF VisitIdle, slotVars, callVars, NothingLeft, InSlot
<1>5. CASE CollectUnsat
  <2>1. UNCHANGED <<vStack, slot, fWorkToDo>> /\ pc = "visit" /\ pc' = "give"
    BY <1>5 DEF CollectUnsat, Finished
  <2>2. \A i \in Slots : InSlot(i)' => InSlot(i) /\ i # slot
    BY <1>1, <1>5 DEF CollectUnsat, FreePart, InSlot
  <2> QED
    BY <2>1, <2>2 DEF NothingLeft
<1>6. CASE GiveNothing
  <2>1. UNCHANGED <<vStack, p, fWorkToDo>> /\ pc = "give"
    BY <1>6 DEF GiveNothing, slotVars, callVars
  <2>2. \/ slot' = slot + 1 /\ pc' = "visit"
        \/ slot' = slot /\ slot = NSlots /\ pc' = "roundEnd"
    BY <1>1, <1>6 DEF GiveNothing, NextSlot, Slots
  <2>3. \A i \in Slots : i < slot + 1 => i < slot \/ i = slot
    BY <1>1 DEF Slots
  <2> QED
    BY <2>1, <2>2, <2>3 DEF NothingLeft, InSlot
<1>7. CASE GivePart \/ StartPart
  <2>1. fWorkToDo
    BY <1>7 DEF GivePart, StartPart, NothingLeft
  <2>2. UNCHANGED fWorkToDo
    BY <1>7 DEF GivePart, StartPart, callVars
  <2> QED
    BY <2>1, <2>2 DEF NothingLeft
<1>8. CASE EndRound
  BY <1>8 DEF EndRound, NothingLeft
<1> QED
  BY <1>2, <1>3, <1>4, <1>5, <1>6, <1>7, <1>8

LEMMA InitAnswers == Init => AnswerInv
<1>1. Init => OwnedInv
  BY InitOwned
<1>2. Init => ResultTyped
  BY DEF Init, ResultTyped, Answers
<1>3. Init => ~Searching
  BY DEF Init, Searching, FrameLive
<1> QED
  BY <1>1, <1>2, <1>3 DEF AnswerInv

\* The threads are started with the whole output on the stack
LEMMA StartThreadsAnswers ==
  ASSUME StartThreads, \A t \in Threads : thread'[t] # "solved"
  PROVE  ResultTyped' /\ Solved' /\ Disjoint' /\ NothingLeft'
<1>1. ResultTyped'
  BY DEF StartThreads, ResultTyped, Answers
<1>2. \A i \in Slots : ~InSlot(i)'
  BY DEF StartThreads, InSlot
<1>3. Solved'
  BY <1>2 DEF Solved
<1>4. Disjoint'
  <2>1. vStack' = <<Whole>>
    BY DEF StartThreads
  <2>2. DOMAIN vStack' = {1} /\ vStack'[1] = Whole
    BY <2>1
  <2>3. Consistent(Whole.cof)
    BY DEF Whole, Part, Consistent, Conflict
  <2> QED
    BY <1>2, <2>2, <2>3 DEF Disjoint
<1>5. NothingLeft'
  BY DEF StartThreads, NothingLeft
<1> QED
  BY <1>1, <1>3, <1>4, <1>5

\* Steps of the manager within the loop
LEMMA LoopAnswers ==
  ASSUME AnswerInv, Searching, Searching',
         StartRound \/ VisitBusy \/ VisitIdle \/ GiveNothing \/ EndRound
           \/ CollectUndec \/ CollectUnsat \/ GivePart \/ StartPart
  PROVE  ResultTyped' /\ Solved' /\ Disjoint' /\ NothingLeft'
<1>1. FrameLive
  BY DEF Searching
<1>2. ResultTyped'
  BY DEF AnswerInv, ResultTyped, Answers, Searching, FrameLive,
         StartRound, VisitBusy, VisitIdle, GiveNothing, EndRound, CollectUndec, CollectUnsat,
         GivePart, StartPart, FreePart, NextSlot, slotVars, callVars
<1>3. Solved' /\ NothingLeft'
  BY <1>1, ManagerSolved, ManagerNothingLeft DEF AnswerInv
<1>4. Disjoint'
  <2>1. CASE CollectUndec \/ CollectUnsat \/ GivePart
    BY <1>1, <2>1, UndecDisjoint, UnsatDisjoint, GiveDisjoint DEF AnswerInv
  <2>2. CASE StartRound \/ VisitBusy \/ VisitIdle \/ GiveNothing \/ EndRound \/ StartPart
    <3>1. UNCHANGED <<vStack, p>>
      BY <2>2 DEF StartRound, VisitBusy, VisitIdle, GiveNothing, EndRound, StartPart, slotVars
    <3> QED
      BY <3>1 DEF AnswerInv, Disjoint, InSlot
  <2> QED
    BY <2>1, <2>2
<1> QED
  BY <1>2, <1>3, <1>4

LEMMA AnswerStep == ASSUME NSplitMax <= 1, AnswerInv, [Next]_vars PROVE AnswerInv'
<1> SUFFICES ResultTyped' /\ (Searching' => Solved' /\ Disjoint' /\ NothingLeft')
  BY OwnedStep DEF AnswerInv
<1>1. CASE StartThreads
  <2>1. \A t \in Threads : thread'[t] # "solved"
    BY <1>1, StartedFresh DEF AnswerInv
  <2> QED
    BY <1>1, <2>1, StartThreadsAnswers
<1>2. CASE SolvedWhole \/ StopThreads \/ CollectAnswer \/ CollectOther \/ WaitForThreads \/ CollectSat
  <2>1. ~Searching'
    BY <1>2 DEF SolvedWhole, StopThreads, CollectAnswer, CollectOther, WaitForThreads, CollectSat,
                Searching, FrameLive
  <2>2. ResultTyped'
    <3> USE DEF AnswerInv, ResultTyped, Answers
    <3>1. CASE SolvedWhole
      <4>1. RetValue1' \in Results(out, Whole) /\ pc' = "collect"
        BY <3>1 DEF SolvedWhole
      <4>2. RetValue1' \in Answers
        BY <4>1 DEF Results
      <4> QED
        BY <3>1, <4>1, <4>2 DEF SolvedWhole, slotVars
    <3>2. CASE CollectOther
      BY <3>2 DEF CollectOther, slotVars
    <3>3. CASE StopThreads \/ CollectAnswer \/ WaitForThreads \/ CollectSat
      BY <3>3 DEF StopThreads, CollectAnswer, WaitForThreads, CollectSat, slotVars, callVars
    <3> QED
      BY <1>2, <3>1, <3>2, <3>3
  <2> QED
    BY <2>1, <2>2
<1>3. CASE StartRound \/ VisitBusy \/ VisitIdle \/ GiveNothing \/ EndRound
             \/ CollectUndec \/ CollectUnsat \/ GivePart \/ StartPart
  <2>1. Searching
    BY <1>3 DEF Searching, FrameLive, StartRound, VisitBusy, VisitIdle, GiveNothing, EndRound,
                CollectUndec, CollectUnsat, Finished, GivePart, StartPart
  <2>2. CASE Searching'
    BY <1>3, <2>1, <2>2, LoopAnswers
  <2>3. CASE ~Searching'
    <3>1. EndRound
      BY <1>3, <2>3 DEF Searching, FrameLive, StartRound, VisitBusy, VisitIdle, GiveNothing,
                        CollectUndec, CollectUnsat, GivePart, StartPart, NextSlot
    <3> QED
      BY <2>3, <3>1 DEF EndRound, AnswerInv, ResultTyped, Answers, slotVars
  <2> QED
    BY <2>2, <2>3
<1>4. ASSUME NEW t \in Threads, Worker(t)
      PROVE  ResultTyped' /\ (Searching' => Solved' /\ Disjoint' /\ NothingLeft')
  <2>1. UNCHANGED <<pc, slot, vStack, p, fWorkToDo, RetValue1>>
    BY <1>4 DEF Worker, Wake, Take, Solve, Clear, slotVars, callVars
  <2>2. ResultTyped'
    <3>1. CASE Solve(t)
      BY <3>1, <2>1, SolveTyped DEF AnswerInv
    <3>2. CASE Wake(t) \/ Take(t) \/ Clear(t)
      BY <3>2, <2>1 DEF Wake, Take, Clear, AnswerInv, ResultTyped, slotVars
    <3> QED
      BY <1>4, <3>1, <3>2 DEF Worker
  <2>3. ASSUME Searching' PROVE Solved' /\ Disjoint' /\ NothingLeft'
    <3>1. Searching /\ FrameLive
      BY <2>1, <2>3 DEF Searching, FrameLive
    <3>2. Solved'
      BY <1>4, <3>1, WorkerSolved DEF AnswerInv, Worker
    <3>3. Disjoint' /\ NothingLeft'
      BY <2>1, <3>1 DEF AnswerInv, Disjoint, NothingLeft, InSlot
    <3> QED
      BY <3>2, <3>3
  <2> QED
    BY <2>2, <2>3
<1>5. ASSUME NEW t \in Threads, Stray(t)
      PROVE  ResultTyped' /\ ~Searching'
  BY <1>5 DEF Stray, FrameLive, Searching, AnswerInv, ResultTyped, slotVars, callVars
<1>6. CASE UNCHANGED vars
  BY <1>6 DEF vars, slotVars, threadVars, callVars, testVars, AnswerInv, ResultTyped, Solved,
              Disjoint, NothingLeft, InSlot, Searching, FrameLive
<1> QED
  BY <1>1, <1>2, <1>3, <1>4, <1>5, <1>6 DEF Next, Manager, Ended

\* A listing of T without repetitions, by the elements of S
LEMMA BijectionCard ==
  ASSUME NEW S, NEW T, IsFiniteSet(S), NEW f \in [S -> T],
         \A x, y \in S : f[x] = f[y] => x = y,
         \A y \in T : \E x \in S : f[x] = y
  PROVE  IsFiniteSet(T) /\ Cardinality(T) = Cardinality(S)
<1>1. f \in Bijection(S, T)
  BY DEF Bijection, Injection, Surjection, IsInjective
<1>2. ExistsBijection(S, T)
  BY <1>1 DEF ExistsBijection
<1> QED
  BY <1>2, FS_Bijection

\* Consistent cases that conflict differ
LEMMA ConflictDiffer == ASSUME NEW c, NEW d, Consistent(c), Conflict(c, d) PROVE c # d
  BY DEF Consistent

\* Parts that conflict are as many as the places that hold one
LEMMA AnswersPartsDisjoint == ASSUME AnswerInv PROVE PartsDisjoint
<1> SUFFICES ASSUME Searching
             PROVE  /\ \A x, y \in OpenParts : x # y => Conflict(x.cof, y.cof)
                    /\ Cardinality(OpenParts) = Len(vStack) + Cardinality({i \in Slots : p[i] # <<>>})
  BY DEF PartsDisjoint, Conflict
<1>1. Disjoint
  BY DEF AnswerInv
<1> DEFINE J == 1 .. Len(vStack)
           K == {i \in Slots : InSlot(i)}
           S == {vStack[j] : j \in J}
           T == {p[i] : i \in K}
<1>2. vStack \in Seq(Parts) /\ DOMAIN vStack = J /\ Len(vStack) \in Nat
  BY DEF AnswerInv, OwnedInv, Typed
<1>3. OpenParts = S \cup T
  BY <1>2 DEF OpenParts, Searching, FrameLive, InSlot
<1>4. \A x, y \in OpenParts : x # y => Conflict(x.cof, y.cof)
  BY <1>1, <1>2, <1>3 DEF Disjoint
<1>5. IsFiniteSet(J) /\ Cardinality(J) = Len(vStack)
  <2> DEFINE n == Len(vStack)
  <2>1. n \in Nat /\ 1 \in Int /\ n \in Int
    BY <1>2
  <2> HIDE DEF n
  <2>2. IsFiniteSet(1 .. n) /\ Cardinality(1 .. n) = IF 1 > n THEN 0 ELSE n - 1 + 1
    BY <2>1, FS_Interval
  <2>3. Cardinality(1 .. n) = n
    BY <2>1, <2>2
  <2> QED
    BY <2>2, <2>3 DEF n
<1>6. IsFiniteSet(K)
  <2>1. IsFiniteSet(Slots)
    BY FS_Interval, SplitAssumption DEF Slots
  <2>2. K \in SUBSET Slots
    OBVIOUS
  <2> QED
    BY <2>1, <2>2, FS_Subset
<1>7. IsFiniteSet(S) /\ Cardinality(S) = Cardinality(J)
  <2> DEFINE f == [j \in J |-> vStack[j]]
  <2>1. f \in [J -> S]
    OBVIOUS
  <2>2. \A j, k \in J : f[j] = f[k] => j = k
    BY <1>1, <1>2, ConflictDiffer DEF Disjoint
  <2>3. \A y \in S : \E j \in J : f[j] = y
    OBVIOUS
  <2> HIDE DEF f, J, S
  <2> QED
    BY <1>5, <2>1, <2>2, <2>3, BijectionCard
<1>8. IsFiniteSet(T) /\ Cardinality(T) = Cardinality(K)
  <2> DEFINE f == [i \in K |-> p[i]]
  <2>1. f \in [K -> T]
    OBVIOUS
  <2>2. \A i, k \in K : f[i] = f[k] => i = k
    BY <1>1, ConflictDiffer DEF Disjoint
  <2>3. \A y \in T : \E i \in K : f[i] = y
    OBVIOUS
  <2> HIDE DEF f, K, T
  <2> QED
    BY <1>6, <2>1, <2>2, <2>3, BijectionCard
<1>9. S \cap T = {}
  <2> SUFFICES ASSUME NEW j \in J, NEW i \in K PROVE vStack[j] # p[i]
    OBVIOUS
  <2> QED
    BY <1>1, <1>2, ConflictDiffer DEF Disjoint
<1>10. Cardinality(OpenParts) = Cardinality(S) + Cardinality(T) - Cardinality({})
  <2> HIDE DEF S, T
  <2> QED
    BY <1>3, <1>7, <1>8, <1>9, FS_Union
<1>11. Cardinality({}) = 0 /\ Cardinality(K) \in Nat
  BY <1>6, FS_EmptySet, FS_CardinalityType
<1>12. K = {i \in Slots : p[i] # <<>>}
  BY DEF InSlot
<1> HIDE DEF J, K, S, T
<1> QED
  BY <1>2, <1>4, <1>5, <1>7, <1>8, <1>10, <1>11, <1>12

\* No part of the input space is with two threads, or with one and on the stack
THEOREM SplitPartsDisjoint == ASSUME NSplitMax <= 1 PROVE Spec => []PartsDisjoint
<1>1. Init => AnswerInv
  BY InitAnswers
<1>2. AnswerInv /\ [Next]_vars => AnswerInv'
  BY AnswerStep
<1>3. AnswerInv => PartsDisjoint
  BY AnswersPartsDisjoint
<1> QED
  BY <1>1, <1>2, <1>3, PTL DEF Spec

-----------------------------------------------------------------------------
(* The progress, and how often a call can split *)

\* The parts on the stack and in the slots
Placed == {vStack[j] : j \in DOMAIN vStack} \cup {p[i] : i \in {j \in Slots : InSlot(j)}}

\* What was refuted and what is left is all of it, and every part left but one came
\* from a split
Accounted ==
  /\ AllMeasured(Placed)
  /\ Progress + TotalShare(Placed) = Share(0)
  /\ nIter + 1 <= Progress + Cardinality(Placed)

CountInv ==
  /\ AnswerInv
  /\ Searching => Accounted
  /\ Progress \in Nat /\ nIter \in Nat /\ nIter < Share(0)

LEMMA PlacedOpen == Searching => OpenParts = Placed
  BY DEF Searching, FrameLive, OpenParts, Placed, InSlot

\* As long as the accounts are right fewer parts were split than there are shares
LEMMA AccountBound ==
  ASSUME NEW S, AllMeasured(S), NEW done \in Nat, NEW n \in Nat,
         done + TotalShare(S) = Share(0), n + 1 <= done + Cardinality(S)
  PROVE  n < Share(0)
<1>1. Cardinality(S) <= TotalShare(S)
  BY SharesCount
<1>2. Cardinality(S) \in Nat /\ TotalShare(S) \in Nat
  BY FS_CardinalityType, MeasuredWeighed, TotalShareNat DEF AllMeasured
<1> QED
  BY <1>1, <1>2

LEMMA UndecCounts ==
  ASSUME OwnedInv, Disjoint, Disjoint', Accounted, CollectUndec, Progress \in Nat, nIter \in Nat
  PROVE  Accounted' /\ Progress' = Progress /\ nIter' = nIter + 1 /\ nIter' < Share(0)
<1> DEFINE n == Len(vStack)
           x == p[slot]
           g == vStack'[n + 1]
           h == vStack'[n + 2]
           R == {vStack[j] : j \in DOMAIN vStack} \cup {p[i] : i \in {j \in Slots : InSlot(j) /\ j # slot}}
<1>1. /\ slot \in Slots /\ InSlot(slot) /\ Progress' = Progress /\ nIter' = nIter + 1
      /\ \A i \in Slots : InSlot(i)' <=> i # slot /\ InSlot(i)
      /\ \A i \in Slots : i # slot => p'[i] = p[i]
  BY CollectEffect DEF CollectUndec
<1>2. PICK v \in Free(x.cof) :
        /\ n \in Nat /\ DOMAIN vStack = 1 .. n /\ DOMAIN vStack' = 1 .. n + 2
        /\ \A j \in 1 .. n : vStack'[j] = vStack[j]
        /\ g = Cofactor(x, v, FALSE, <<v, FALSE>>)
        /\ h = Cofactor(x, v, TRUE, <<v, FALSE>>)
  BY UndecEffect
<1>3. /\ n + 1 \in DOMAIN vStack' /\ n + 2 \in DOMAIN vStack' /\ n + 1 # n + 2
      /\ \A j \in DOMAIN vStack : j \in DOMAIN vStack' /\ j # n + 1 /\ j # n + 2
      /\ \A j \in DOMAIN vStack' : j \in DOMAIN vStack \/ j = n + 1 \/ j = n + 2
  BY <1>2
<1>4. Placed = R \cup {x} /\ x \notin R
  <2>1. Placed = R \cup {x}
    BY <1>1 DEF Placed
  <2>2. Consistent(x.cof)
    BY <1>1 DEF Disjoint
  <2>3. \A j \in DOMAIN vStack : Conflict(x.cof, vStack[j].cof)
    BY <1>1 DEF Disjoint
  <2>4. \A i \in Slots : InSlot(i) /\ i # slot => Conflict(x.cof, p[i].cof)
    BY <1>1 DEF Disjoint
  <2> QED
    BY <2>1, <2>2, <2>3, <2>4 DEF Consistent
<1>5. Placed' = R \cup {g, h}
  <2>1. {vStack'[j] : j \in DOMAIN vStack'} = {vStack[j] : j \in DOMAIN vStack} \cup {g, h}
    <3>1. \A j \in DOMAIN vStack : vStack'[j] = vStack[j]
      BY <1>2
    <3>2. \A j \in DOMAIN vStack' : j \in DOMAIN vStack \/ vStack'[j] = g \/ vStack'[j] = h
      <4> SUFFICES ASSUME NEW j \in DOMAIN vStack', j \notin DOMAIN vStack
                   PROVE  vStack'[j] = g \/ vStack'[j] = h
        OBVIOUS
      <4>1. j = n + 1 \/ j = n + 2
        BY <1>3
      <4> HIDE DEF n
      <4> QED
        BY <4>1 DEF g, h
    <3> DEFINE A == {vStack'[j] : j \in DOMAIN vStack'}
               B == {vStack[j] : j \in DOMAIN vStack} \cup {g, h}
    <3>3. \A y \in A : y \in B
      <4> HIDE DEF g, h
      <4> QED
        BY <3>1, <3>2
    <3>4. g \in A /\ h \in A
      BY <1>3
    <3>5. \A y \in B : y \in A
      <4> HIDE DEF g, h
      <4> QED
        BY <1>3, <3>1, <3>4
    <3> QED
      BY <3>3, <3>5, Zenon
  <2>2. {p'[i] : i \in {j \in Slots : InSlot(j)'}}
          = {p[i] : i \in {j \in Slots : InSlot(j) /\ j # slot}}
    BY <1>1
  <2>3. Placed' = {vStack'[j] : j \in DOMAIN vStack'} \cup {p'[i] : i \in {j \in Slots : InSlot(j)'}}
    BY DEF Placed, Slots
  <2> QED
    BY <2>1, <2>2, <2>3
<1>6. g # h /\ g \notin R /\ h \notin R
  <2>1. Consistent(g.cof) /\ Consistent(h.cof) /\ Conflict(g.cof, h.cof)
    BY <1>3 DEF Disjoint
  <2>2. ASSUME NEW j \in DOMAIN vStack
        PROVE  Conflict(g.cof, vStack[j].cof) /\ Conflict(h.cof, vStack[j].cof)
    <3> HIDE DEF n
    <3> QED
      BY <1>2, <1>3 DEF Disjoint
  <2>3. ASSUME NEW i \in Slots, InSlot(i), i # slot
        PROVE  Conflict(g.cof, p[i].cof) /\ Conflict(h.cof, p[i].cof)
    <3> HIDE DEF n
    <3> QED
      BY <1>1, <1>3, <2>3 DEF Disjoint
  <2> HIDE DEF g, h
  <2> QED
    BY <2>1, <2>2, <2>3 DEF Consistent
<1>7. AllMeasured(Placed) /\ x \in Placed /\ Placed \ {x} = R
  BY <1>4 DEF Accounted
<1>8. /\ Measured(g) /\ Measured(h) /\ Share(Depth(x)) = Share(Depth(g)) + Share(Depth(h))
  <2>1. Measured(x)
    BY <1>7 DEF AllMeasured
  <2> DEFINE c == Cofactor(x, v, FALSE, <<v, FALSE>>)
             d == Cofactor(x, v, TRUE, <<v, FALSE>>)
  <2>5. v \in Free(x.cof) /\ g = c /\ h = d
    BY <1>2
  <2> HIDE DEF g, h, x, n
  <2>6. Measured(c) /\ Share(Depth(x)) = Share(Depth(c)) + Share(Depth(c))
    BY <2>1, <2>5, HalfMeasured
  <2>7. Measured(d) /\ Share(Depth(x)) = Share(Depth(d)) + Share(Depth(d))
    BY <2>1, <2>5, HalfMeasured
  <2> HIDE DEF c, d
  <2>2. Measured(g) /\ Share(Depth(x)) = Share(Depth(g)) + Share(Depth(g))
    BY <2>5, <2>6
  <2>3. Measured(h) /\ Share(Depth(x)) = Share(Depth(h)) + Share(Depth(h))
    BY <2>5, <2>7
  <2>4. Share(Depth(g)) \in Nat /\ Share(Depth(h)) \in Nat
    BY <2>2, <2>3, MeasuredShare
  <2> QED
    BY <2>2, <2>3, <2>4
<1>9. /\ AllMeasured(Placed') /\ TotalShare(Placed') = TotalShare(Placed)
      /\ Cardinality(Placed') = Cardinality(Placed) + 1
  <2> HIDE DEF g, h, x, R
  <2>1. Placed' = (Placed \ {x}) \cup {g, h}
    BY <1>5, <1>7
  <2> QED
    BY <1>6, <1>7, <1>8, <2>1, SplitPart
<1>10. Cardinality(Placed) \in Nat
  BY <1>7, FS_CardinalityType DEF AllMeasured
<1>11. /\ Progress' + TotalShare(Placed') = Share(0)
       /\ nIter' + 1 <= Progress' + Cardinality(Placed')
  BY <1>1, <1>9, <1>10 DEF Accounted
<1>12. nIter' < Share(0)
  BY <1>1, <1>9, <1>11, AccountBound
<1> QED
  BY <1>1, <1>9, <1>11, <1>12 DEF Accounted, Share

LEMMA UnsatCounts ==
  ASSUME OwnedInv, Disjoint, Accounted, CollectUnsat, Progress \in Nat, nIter \in Nat
  PROVE  Accounted' /\ Progress' \in Nat /\ nIter' = nIter
<1> DEFINE x == p[slot]
           R == {vStack[j] : j \in DOMAIN vStack} \cup {p[i] : i \in {j \in Slots : InSlot(j) /\ j # slot}}
<1>1. /\ slot \in Slots /\ InSlot(slot) /\ Progress' = Progress + Share(Depth(x))
      /\ nIter' = nIter /\ vStack' = vStack
      /\ \A i \in Slots : InSlot(i)' <=> i # slot /\ InSlot(i)
      /\ \A i \in Slots : i # slot => p'[i] = p[i]
  BY CollectEffect DEF CollectUnsat, Advance
<1>2. Placed = R \cup {x} /\ x \notin R
  <2>1. Placed = R \cup {x}
    BY <1>1 DEF Placed
  <2>2. Consistent(x.cof)
    BY <1>1 DEF Disjoint
  <2>3. \A j \in DOMAIN vStack : Conflict(x.cof, vStack[j].cof)
    BY <1>1 DEF Disjoint
  <2>4. \A i \in Slots : InSlot(i) /\ i # slot => Conflict(x.cof, p[i].cof)
    BY <1>1 DEF Disjoint
  <2> QED
    BY <2>1, <2>2, <2>3, <2>4 DEF Consistent
<1>3. Placed' = R
  <2>1. {p'[i] : i \in {j \in Slots : InSlot(j)'}}
          = {p[i] : i \in {j \in Slots : InSlot(j) /\ j # slot}}
    BY <1>1
  <2>2. Placed' = {vStack'[j] : j \in DOMAIN vStack'} \cup {p'[i] : i \in {j \in Slots : InSlot(j)'}}
    BY DEF Placed, Slots
  <2> QED
    BY <1>1, <2>1, <2>2
<1> HIDE DEF x, R
<1>4. /\ AllMeasured(Placed) /\ x \in Placed /\ Placed' = Placed \ {x}
      /\ Progress + TotalShare(Placed) = Share(0) /\ nIter + 1 <= Progress + Cardinality(Placed)
  BY <1>2, <1>3 DEF Accounted
<1>5. Share(Depth(x)) \in Nat /\ Share(Depth(x)) >= 1
  BY <1>4, MeasuredShare DEF AllMeasured
<1>6. /\ AllMeasured(Placed')
      /\ TotalShare(Placed) = Share(Depth(x)) + TotalShare(Placed')
      /\ Cardinality(Placed) = Cardinality(Placed') + 1
      /\ TotalShare(Placed') \in Nat /\ Cardinality(Placed') \in Nat
  BY <1>4, TakePart
<1> HIDE DEF Placed
<1>7. Progress' \in Nat /\ Progress' + TotalShare(Placed') = Share(0)
  BY <1>1, <1>4, <1>5, <1>6
<1>8. nIter' + 1 <= Progress' + Cardinality(Placed')
  BY <1>1, <1>4, <1>5, <1>6
<1> QED
  BY <1>1, <1>6, <1>7, <1>8 DEF Accounted, Share

\* A part that is given to a slot is where it was not, and no longer where it was
LEMMA GiveCounts ==
  ASSUME OwnedInv, FrameLive, Disjoint, Accounted, GivePart
  PROVE  Accounted'
<1> DEFINE n == Len(vStack)
           A == {vStack[j] : j \in DOMAIN vStack}
           A2 == {vStack'[j] : j \in DOMAIN vStack'}
           B == {p[i] : i \in {j \in Slots : InSlot(j)}}
           B2 == {p'[i] : i \in {j \in Slots : InSlot(j)'}}
<1>1. /\ n \in DOMAIN vStack /\ DOMAIN vStack' = DOMAIN vStack \ {n}
      /\ ~InSlot(slot) /\ InSlot(slot)' /\ p'[slot] = vStack[n] /\ slot \in Slots
      /\ Progress' = Progress /\ nIter' = nIter
  BY GiveDisjoint DEF OwnedInv, Typed, GivePart, callVars
<1>2. \A j \in DOMAIN vStack' : vStack'[j] = vStack[j]
  BY GiveDisjoint
<1>3. \A i \in Slots : i # slot => p'[i] = p[i] /\ (InSlot(i)' <=> InSlot(i))
  BY GiveDisjoint DEF InSlot
<1> HIDE DEF n
<1>4. A = A2 \cup {vStack[n]}
  BY <1>1, <1>2
<1>5. B2 = B \cup {vStack[n]}
  <2>1. \A i \in Slots : InSlot(i)' /\ i # slot => p'[i] \in B
    BY <1>3
  <2>2. \A i \in Slots : InSlot(i) => i # slot /\ InSlot(i)' /\ p'[i] = p[i]
    BY <1>1, <1>3
  <2>3. \A i \in Slots : InSlot(i) => p[i] \in B2
    BY <2>2
  <2>4. vStack[n] \in B2
    <3>1. slot' = slot
      BY DEF GivePart
    <3>2. p'[slot] # <<>>
      BY <1>1, <3>1 DEF InSlot
    <3> QED
      BY <1>1, <3>2 DEF InSlot
  <2>5. \A y \in B2 : y \in B \/ y = vStack[n]
    <3> HIDE DEF B
    <3> QED
      BY <1>1, <2>1
  <2>6. \A y \in B : y \in B2
    <3> HIDE DEF B2
    <3> QED
      BY <2>3
  <2> HIDE DEF B, B2
  <2> QED
    BY <2>4, <2>5, <2>6
<1>6. Placed = A \cup B
  BY DEF Placed
<1>7. Placed' = A2 \cup B2
  BY DEF Placed, Slots
<1> HIDE DEF A, A2, B, B2
<1>8. Placed' = Placed
  BY <1>4, <1>5, <1>6, <1>7
<1> QED
  BY <1>1, <1>8 DEF Accounted, Share

LEMMA StartCounts ==
  ASSUME StartThreads
  PROVE  Accounted' /\ Progress' \in Nat /\ nIter' \in Nat /\ nIter' < Share(0)
<1>1. /\ vStack' = <<Whole>> /\ p' = [i \in Slots |-> <<>>] /\ Progress' = 0 /\ nIter' = 0
  BY DEF StartThreads
<1>2. Placed' = {Whole}
  <2>1. {vStack'[j] : j \in DOMAIN vStack'} = {Whole}
    BY <1>1
  <2>2. {j \in Slots : InSlot(j)'} = {}
    BY <1>1 DEF InSlot
  <2>3. Placed' = {vStack'[j] : j \in DOMAIN vStack'} \cup {p'[i] : i \in {j \in Slots : InSlot(j)'}}
    BY DEF Placed, Slots
  <2> QED
    BY <2>1, <2>2, <2>3
<1>3. 0 + 1 <= 0 + 1 /\ 0 \in Nat
  OBVIOUS
<1> QED
  BY <1>1, <1>2, <1>3, WholeShared DEF Accounted, Share

LEMMA InitCounts == Init => CountInv
<1> SUFFICES ASSUME Init PROVE CountInv
  OBVIOUS
<1>1. ~Searching
  BY DEF Init, Searching, FrameLive
<1> QED
  BY <1>1, InitAnswers, WholeShared DEF Init, CountInv

LEMMA CountStep == ASSUME NSplitMax <= 1, CountInv, [Next]_vars PROVE CountInv'
<1>1. AnswerInv' /\ AnswerInv /\ OwnedInv /\ Progress \in Nat /\ nIter \in Nat /\ nIter < Share(0)
  BY AnswerStep DEF CountInv, AnswerInv
<1> SUFFICES /\ Searching' => Accounted'
             /\ Progress' \in Nat /\ nIter' \in Nat /\ nIter' < Share(0)
  BY <1>1 DEF CountInv, Share
<1>2. ASSUME UNCHANGED <<vStack, p, Progress, nIter>>, Searching' => Searching
      PROVE  (Searching' => Accounted') /\ Progress' \in Nat /\ nIter' \in Nat /\ nIter' < Share(0)
  <2>1. Placed' = Placed
    BY <1>2 DEF Placed, InSlot, Slots
  <2> QED
    BY <1>1, <1>2, <2>1 DEF CountInv, Accounted, Share
<1>3. CASE StartThreads
  BY <1>3, StartCounts
<1>4. CASE CollectUndec \/ CollectUnsat \/ GivePart
  <2>1. Searching /\ Searching' /\ FrameLive
    BY <1>4 DEF CollectUndec, CollectUnsat, GivePart, Finished, Searching, FrameLive
  <2>2. Disjoint /\ Disjoint' /\ Accounted
    BY <1>1, <2>1 DEF AnswerInv, CountInv
  <2>3. CASE CollectUndec
    BY <1>1, <2>2, <2>3, UndecCounts
  <2>4. CASE CollectUnsat
    BY <1>1, <2>2, <2>4, UnsatCounts
  <2>5. CASE GivePart
    <3>1. UNCHANGED <<Progress, nIter>>
      BY <2>5 DEF GivePart, callVars
    <3> QED
      BY <1>1, <2>1, <2>2, <2>5, <3>1, GiveCounts
  <2> QED
    BY <1>4, <2>3, <2>4, <2>5
<1>5. CASE StopThreads
  <2>1. ~Searching' /\ UNCHANGED <<Progress, nIter>>
    BY <1>5 DEF StopThreads, Searching, FrameLive, callVars
  <2> QED
    BY <1>1, <2>1
<1>6. CASE SolvedWhole \/ CollectAnswer \/ CollectOther \/ WaitForThreads \/ CollectSat
  <2>1. UNCHANGED <<vStack, p, Progress, nIter>> /\ ~Searching'
    BY <1>6 DEF SolvedWhole, CollectAnswer, CollectOther, WaitForThreads, CollectSat, Searching,
                FrameLive, slotVars, callVars
  <2> QED
    BY <1>2, <2>1
<1>7. CASE StartRound \/ VisitBusy \/ VisitIdle \/ GiveNothing \/ EndRound \/ StartPart
  <2>1. UNCHANGED <<vStack, p, Progress, nIter>> /\ Searching
    BY <1>7 DEF StartRound, VisitBusy, VisitIdle, GiveNothing, EndRound, StartPart, Searching,
                FrameLive, slotVars, callVars
  <2> QED
    BY <1>2, <2>1
<1>8. ASSUME NEW t \in Threads, Worker(t) \/ Stray(t)
      PROVE  (Searching' => Accounted') /\ Progress' \in Nat /\ nIter' \in Nat /\ nIter' < Share(0)
  <2>1. UNCHANGED <<vStack, p, Progress, nIter>> /\ (Searching' => Searching)
    BY <1>8 DEF Worker, Wake, Take, Solve, Clear, Stray, Searching, FrameLive, slotVars, callVars
  <2> QED
    BY <1>2, <2>1
<1>9. CASE UNCHANGED vars
  BY <1>2, <1>9 DEF vars, slotVars, callVars, Searching, FrameLive
<1> QED
  BY <1>3, <1>4, <1>5, <1>6, <1>7, <1>8, <1>9 DEF Next, Manager, Ended

\* The progress printed is what was refuted: with the shares of the parts on the stack
\* and in the slots it adds up to the whole input space
THEOREM SplitProgressExact == ASSUME NSplitMax <= 1 PROVE Spec => []ProgressExact
<1>1. CountInv /\ [Next]_vars => CountInv'
  BY CountStep
<1>2. CountInv => ProgressExact
  BY PlacedOpen DEF CountInv, Accounted, ProgressExact
<1> QED
  BY <1>1, <1>2, InitCounts, PTL DEF Spec

\* A call splits fewer times than there are assignments to the inputs, also when there
\* is no limit of iterations: the rounds that split something are bounded
THEOREM SplitsBounded == ASSUME NSplitMax <= 1 PROVE Spec => [](nIter < 2 ^ Cardinality(Pis))
<1>1. CountInv /\ [Next]_vars => CountInv'
  BY CountStep
<1>2. CountInv => nIter < 2 ^ Cardinality(Pis)
  <2>1. Cardinality(Pis) - 0 = Cardinality(Pis)
    BY CofactorsAssumption, FS_CardinalityType
  <2> QED
    BY <2>1 DEF CountInv, Share
<1> QED
  BY <1>1, <1>2, InitCounts, PTL DEF Spec

-----------------------------------------------------------------------------
(* No thread is missing, and everything is well-typed *)

\* Every slot of a call that is running has its thread
Served ==
  FrameLive =>
    \A i \in Slots : thread[<<out, i>>] \in {"spin", "woken", "solving", "solved"}

\* Once the frame is left no thread is at work in it
NoneAtWork ==
  ~FrameLive =>
    /\ \A i \in Slots : ~InSlot(i)
    /\ \A t \in Threads : thread[t] \notin {"solving", "solved"}

TypeInv ==
  /\ CountInv /\ Served /\ NoneAtWork
  /\ model \in [Slots -> SUBSET SUBSET Pis] /\ pCexComb \subseteq SUBSET Pis
  /\ fOneUndef \in BOOLEAN /\ RetValue \in Answers

LEMMA OwnThread == ASSUME NEW o \in Outs, NEW i \in Slots PROVE <<o, i>> \in Threads
  BY DEF Threads

LEMMA ModelsTyped ==
  ASSUME NEW o \in Outs, NEW x \in Parts, NEW a \in DeriveModels(o, x)
  PROVE  a \in SUBSET Pis
<1>1. \A l \in x.vCofVars : l[1] \in Pis
  BY DEF Parts, Lits
<1>2. PICK m \in SatsIn(o, x.cof) :
        a = (m \cap Free(x.vCofVars)) \cup {l[1] : l \in {k \in x.vCofVars : k[2]}}
  BY DEF DeriveModels
<1> QED
  BY <1>1, <1>2 DEF Free

\* A thread that solves a part has one
LEMMA SolvingPart ==
  ASSUME OwnedInv, NoneAtWork, NEW t \in Threads, thread[t] = "solving"
  PROVE  taken[t] \in Parts
<1>1. FrameLive /\ HandShake
  BY DEF NoneAtWork, OwnedInv
<1>2. taken[t] = p[t[2]] /\ p[t[2]] # <<>> /\ p[t[2]] \in PartsOrNull
  BY <1>1, ThreadSlot DEF HandShake, Active, OwnedInv, Typed
<1> QED
  BY <1>2 DEF PartsOrNull, Parts

LEMMA InitTyped == Init => TypeInv
<1> SUFFICES ASSUME Init PROVE TypeInv
  OBVIOUS
<1>1. CountInv
  BY InitCounts
<1>2. ~FrameLive
  BY DEF Init, FrameLive
<1> QED
  BY <1>1, <1>2 DEF Init, TypeInv, Served, NoneAtWork, InSlot, Answers, Threads

LEMMA ServedStep ==
  ASSUME OwnedInv, Served, [Next]_vars
  PROVE  Served'
<1> SUFFICES ASSUME FrameLive', NEW i \in Slots
             PROVE  thread'[<<out', i>>] \in {"spin", "woken", "solving", "solved"}
  BY DEF Served, Slots
<1>1. CASE StartThreads
  <2>1. <<out, i>> \in Threads /\ <<out, i>>[1] = out
    BY OwnThread DEF OwnedInv, Typed
  <2> QED
    BY <1>1, <2>1 DEF StartThreads, testVars
<1>2. CASE UNCHANGED <<thread, out>> /\ FrameLive
  BY <1>2 DEF Served
<1>3. CASE SolvedWhole \/ CollectAnswer \/ CollectOther \/ StopThreads
  BY <1>3 DEF SolvedWhole, CollectAnswer, CollectOther, StopThreads, FrameLive
<1>4. CASE StartRound \/ VisitBusy \/ CollectSat \/ CollectUndec \/ CollectUnsat \/ VisitIdle
             \/ GiveNothing \/ GivePart \/ StartPart \/ EndRound \/ WaitForThreads
  <2>1. UNCHANGED <<thread, out>>
    BY <1>4 DEF StartRound, VisitBusy, CollectSat, CollectUndec, CollectUnsat, VisitIdle,
                GiveNothing, GivePart, StartPart, EndRound, WaitForThreads, threadVars, testVars
  <2>2. FrameLive
    BY <1>4 DEF StartRound, VisitBusy, CollectSat, CollectUndec, CollectUnsat, VisitIdle,
                GiveNothing, GivePart, StartPart, EndRound, WaitForThreads, Finished, FrameLive
  <2> QED
    BY <1>2, <2>1, <2>2
<1>5. ASSUME NEW t \in Threads, Worker(t)
      PROVE  thread'[<<out', i>>] \in {"spin", "woken", "solving", "solved"}
  <2>1. UNCHANGED <<pc, out>> /\ FrameLive
    BY <1>5 DEF Worker, Wake, Take, Solve, Clear, testVars, FrameLive
  <2>2. thread \in [Threads -> ThreadStates] /\ <<out, i>> \in Threads /\ HandShake
    BY <2>1, OwnThread DEF OwnedInv, Typed
  <2>3. thread[<<out, i>>] \in {"spin", "woken", "solving", "solved"}
    BY <2>1 DEF Served
  <2>4. thread'[t] \in {"spin", "woken", "solving", "solved"}
    <3>1. thread[t] = "woken" => p[t[2]] # <<>>
      BY <2>2, ThreadSlot DEF HandShake, Active
    <3> QED
      BY <1>5, <2>2, <3>1 DEF Worker, Wake, Take, Solve, Clear
  <2>5. \A u \in Threads : u # t => thread'[u] = thread[u]
    BY <1>5, <2>2 DEF Worker, Wake, Take, Solve, Clear
  <2> QED
    BY <2>1, <2>2, <2>3, <2>4, <2>5
<1>6. ASSUME NEW t \in Threads, Stray(t) PROVE FALSE
  BY <1>6 DEF Stray, FrameLive
<1>7. CASE UNCHANGED vars
  BY <1>2, <1>7 DEF vars, threadVars, testVars, FrameLive
<1> QED
  BY <1>1, <1>3, <1>4, <1>5, <1>6, <1>7 DEF Next, Manager, Ended

LEMMA NoneAtWorkStep ==
  ASSUME OwnedInv, NoneAtWork, [Next]_vars
  PROVE  NoneAtWork'
<1> SUFFICES ASSUME ~FrameLive'
             PROVE  /\ \A i \in Slots : p'[i] = <<>>
                    /\ \A t \in Threads : thread'[t] \notin {"solving", "solved"}
  BY DEF NoneAtWork, InSlot, Slots, Threads, Outs
<1>1. CASE StopThreads
  <2>1. HandShake /\ pc = "stop" /\ UNCHANGED thread
    BY <1>1 DEF StopThreads, OwnedInv, FrameLive, threadVars
  <2>2. \A t \in Threads : thread[t] \notin {"solving", "solved"}
    BY <2>1, ThreadSlot DEF HandShake, Active
  <2> QED
    BY <1>1, <2>1, <2>2 DEF StopThreads
<1>2. CASE UNCHANGED <<p, thread>> /\ ~FrameLive
  BY <1>2 DEF NoneAtWork, InSlot
<1>3. CASE SolvedWhole \/ CollectAnswer \/ CollectOther
  <2>1. UNCHANGED <<p, thread>> /\ ~FrameLive
    BY <1>3 DEF SolvedWhole, CollectAnswer, CollectOther, FrameLive, slotVars, threadVars
  <2> QED
    BY <1>2, <2>1
<1>4. CASE StartThreads \/ StartRound \/ VisitBusy \/ CollectSat \/ CollectUndec \/ CollectUnsat
             \/ VisitIdle \/ GiveNothing \/ GivePart \/ StartPart \/ EndRound \/ WaitForThreads
  BY <1>4 DEF StartThreads, StartRound, VisitBusy, CollectSat, CollectUndec, CollectUnsat,
              VisitIdle, GiveNothing, GivePart, StartPart, EndRound, WaitForThreads, NextSlot,
              FrameLive
<1>5. ASSUME NEW t \in Threads, Worker(t)
      PROVE  /\ \A i \in Slots : p'[i] = <<>>
             /\ \A u \in Threads : thread'[u] \notin {"solving", "solved"}
  <2>1. UNCHANGED <<pc, p>> /\ ~FrameLive
    BY <1>5 DEF Worker, Wake, Take, Solve, Clear, slotVars, FrameLive
  <2>2. /\ \A i \in Slots : p[i] = <<>>
        /\ \A u \in Threads : thread[u] \notin {"solving", "solved"}
    BY <2>1 DEF NoneAtWork, InSlot
  <2>3. thread \in [Threads -> ThreadStates] /\ p[t[2]] = <<>>
    BY <2>2, ThreadSlot DEF OwnedInv, Typed
  <2> QED
    BY <1>5, <2>1, <2>2, <2>3 DEF Worker, Wake, Take, Solve, Clear
<1>6. ASSUME NEW t \in Threads, Stray(t)
      PROVE  /\ \A i \in Slots : p'[i] = <<>>
             /\ \A u \in Threads : thread'[u] \notin {"solving", "solved"}
  <2>1. UNCHANGED p /\ ~FrameLive /\ (thread' = [thread EXCEPT ![t] = "exited"] \/ UNCHANGED thread)
    BY <1>6 DEF Stray, slotVars
  <2> QED
    BY <2>1 DEF NoneAtWork, InSlot, OwnedInv, Typed
<1>7. CASE UNCHANGED vars
  BY <1>2, <1>7 DEF vars, slotVars, threadVars, FrameLive
<1> QED
  BY <1>1, <1>3, <1>4, <1>5, <1>6, <1>7 DEF Next, Manager, Ended

LEMMA TypeStep == ASSUME NSplitMax <= 1, TypeInv, [Next]_vars PROVE TypeInv'
<1>1. CountInv' /\ OwnedInv /\ OwnedInv'
  BY CountStep DEF TypeInv, CountInv, AnswerInv
<1>2. Served' /\ NoneAtWork'
  BY <1>1, ServedStep, NoneAtWorkStep DEF TypeInv
<1> SUFFICES /\ model' \in [Slots -> SUBSET SUBSET Pis] /\ pCexComb' \subseteq SUBSET Pis
             /\ fOneUndef' \in BOOLEAN /\ RetValue' \in Answers
  BY <1>1, <1>2 DEF TypeInv, Slots, Answers
<1> USE DEF TypeInv, Answers
<1>3. CASE SolvedWhole
  <2>1. Whole \in Parts /\ out \in Outs
    BY <1>1 DEF Whole, Part, Parts, OwnedInv, Typed
  <2> QED
    BY <1>3, <2>1, ModelsTyped DEF SolvedWhole, slotVars, testVars
<1>4. CASE StartThreads
  BY <1>4 DEF StartThreads, testVars
<1>5. CASE CollectSat
  <2>1. slot \in Slots
    BY <1>1 DEF OwnedInv, Typed
  <2> QED
    BY <1>5, <2>1 DEF CollectSat, testVars
<1>6. CASE CollectUndec \/ CollectUnsat
  BY <1>6 DEF CollectUndec, CollectUnsat, FreePart, testVars
<1>7. CASE CollectOther
  BY <1>7 DEF CollectOther, slotVars
<1>8. CASE StopThreads
  BY <1>8 DEF StopThreads, callVars, testVars
<1>9. CASE StartRound \/ VisitBusy \/ VisitIdle \/ GiveNothing \/ GivePart \/ StartPart
             \/ EndRound \/ WaitForThreads \/ CollectAnswer
  BY <1>9 DEF StartRound, VisitBusy, VisitIdle, GiveNothing, GivePart, StartPart, EndRound,
              WaitForThreads, CollectAnswer, slotVars, callVars, testVars
<1>10. ASSUME NEW t \in Threads, Solve(t)
       PROVE  /\ model' \in [Slots -> SUBSET SUBSET Pis] /\ pCexComb' \subseteq SUBSET Pis
              /\ fOneUndef' \in BOOLEAN /\ RetValue' \in Answers
  <2>1. taken[t] \in Parts /\ out \in Outs /\ t[2] \in Slots
    BY <1>1, <1>10, SolvingPart, ThreadSlot DEF Solve, OwnedInv, Typed
  <2>2. model' \in [Slots -> SUBSET SUBSET Pis]
    BY <1>10, <2>1, ModelsTyped DEF Solve
  <2> QED
    BY <1>10, <2>2 DEF Solve, callVars, testVars
<1>11. ASSUME NEW t \in Threads, Wake(t) \/ Take(t) \/ Clear(t) \/ Stray(t)
       PROVE  UNCHANGED <<model, pCexComb, fOneUndef, RetValue>>
  BY <1>11 DEF Wake, Take, Clear, Stray, slotVars, callVars, testVars
<1>12. CASE UNCHANGED vars
  BY <1>12 DEF vars, slotVars, callVars, testVars
<1> QED
  BY <1>3, <1>4, <1>5, <1>6, <1>7, <1>8, <1>9, <1>10, <1>11, <1>12 DEF Next, Manager, Worker, Ended

\* Every reachable state of the manager and the threads is well-typed
THEOREM SplitTypeCorrect == ASSUME NSplitMax <= 1 PROVE Spec => []TypeOK
<1>1. TypeInv /\ [Next]_vars => TypeInv'
  BY TypeStep
<1>2. TypeInv => TypeOK
  BY DEF TypeInv, CountInv, AnswerInv, OwnedInv, Typed, ResultTyped, Answers, ThreadStates, TypeOK
<1> QED
  BY <1>1, <1>2, InitTyped, PTL DEF Spec

\* While a call runs each of its slots has a thread that polls it or works on it: a flag
\* the manager raises is not one nobody takes down
THEOREM FlagsServed == ASSUME NSplitMax <= 1 PROVE Spec => []Served
<1>1. TypeInv /\ [Next]_vars => TypeInv'
  BY TypeStep
<1>2. TypeInv => Served
  BY DEF TypeInv
<1> QED
  BY <1>1, <1>2, InitTyped, PTL DEF Spec

-----------------------------------------------------------------------------
(* Every step is a step of CaseSplit, or none *)

\* The cases of a stack and of slots
CasesOf(stack, slots) ==
  {stack[j].cof : j \in DOMAIN stack} \cup {slots[i].cof : i \in {k \in Slots : slots[k] # <<>>}}

LEMMA SearchingCases == Searching => OpenCases = CasesOf(vStack, p) /\ CaseAnswer = "running"
  BY DEF OpenCases, CaseAnswer, CasesOf, OpenParts, Searching, FrameLive

LEMMA SearchingCasesNext ==
  Searching' => OpenCases' = CasesOf(vStack', p') /\ CaseAnswer' = "running"
  BY DEF OpenCases, CaseAnswer, CasesOf, OpenParts, Searching, FrameLive

LEMMA CallCases == pc = "call" => OpenCases = {{}} /\ CaseAnswer = "running"
  BY DEF OpenCases, CaseAnswer, OpenParts, Whole, Part

LEMMA CallCasesNext == pc' = "call" => OpenCases' = {{}} /\ CaseAnswer' = "running"
  BY DEF OpenCases, CaseAnswer, OpenParts, Whole, Part

LEMMA OverCases ==
  /\ pc # "call" /\ ~Searching => OpenCases = {} /\ CaseAnswer = RetValue1
  /\ pc' # "call" /\ ~Searching' => OpenCases' = {} /\ CaseAnswer' = RetValue1'
  BY DEF OpenCases, CaseAnswer

\* The cases after a part was split, refuted or moved from the stack to a slot
LEMMA UndecCases ==
  ASSUME OwnedInv, Disjoint, CollectUndec
  PROVE  \E c \in CasesOf(vStack, p) : \E v \in Free(c) :
           CasesOf(vStack', p') =
             (CasesOf(vStack, p) \ {c}) \cup {c \cup {<<v, FALSE>>}, c \cup {<<v, TRUE>>}}
<1> DEFINE n == Len(vStack)
<1> DEFINE c0 == p[slot].cof
<1> DEFINE rest == {vStack[j].cof : j \in DOMAIN vStack}
                     \cup {p[i].cof : i \in {k \in Slots : k # slot /\ InSlot(k)}}
<1>1. slot \in Slots /\ InSlot(slot)
  BY CollectEffect
<1>2. PICK v \in Free(c0) :
        /\ n \in Nat /\ DOMAIN vStack = 1 .. n /\ DOMAIN vStack' = 1 .. n + 2
        /\ \A j \in 1 .. n : vStack'[j] = vStack[j]
        /\ vStack'[n + 1].cof = c0 \cup {<<v, FALSE>>}
        /\ vStack'[n + 2].cof = c0 \cup {<<v, TRUE>>}
  BY UndecEffect
<1>3. CasesOf(vStack, p) = rest \cup {c0}
  BY <1>1 DEF CasesOf, InSlot
<1>4. c0 \notin rest
  BY <1>1 DEF Disjoint, Consistent
<1>5. CasesOf(vStack', p') = rest \cup {c0 \cup {<<v, FALSE>>}, c0 \cup {<<v, TRUE>>}}
  <2> DEFINE a == c0 \cup {<<v, FALSE>>}
  <2> DEFINE b == c0 \cup {<<v, TRUE>>}
  <2>1. {vStack'[j].cof : j \in DOMAIN vStack'} = {vStack[j].cof : j \in DOMAIN vStack} \cup {a, b}
    <3>1. DOMAIN vStack' = DOMAIN vStack \cup {n + 1, n + 2}
      BY <1>2
    <3>2. \A j \in DOMAIN vStack : vStack'[j] = vStack[j]
      BY <1>2
    <3>3. vStack'[n + 1].cof = a /\ vStack'[n + 2].cof = b
      BY <1>2
    <3> HIDE DEF a, b, n
    <3> QED
      BY <3>1, <3>2, <3>3
  <2>2. {p'[i].cof : i \in {k \in Slots : p'[k] # <<>>}}
          = {p[i].cof : i \in {k \in Slots : k # slot /\ InSlot(k)}}
    <3>1. \A i \in Slots : p'[i] # <<>> <=> i # slot /\ InSlot(i)
      BY CollectEffect DEF InSlot
    <3>2. \A i \in Slots : i # slot => p'[i] = p[i]
      BY CollectEffect
    <3> QED
      BY <3>1, <3>2
  <2> QED
    BY <2>1, <2>2 DEF CasesOf
<1> HIDE DEF c0, rest, n
<1>6. (rest \cup {c0}) \ {c0} = rest /\ c0 \in rest \cup {c0}
  BY <1>4
<1> QED
  BY <1>3, <1>5, <1>6

LEMMA UnsatCases ==
  ASSUME OwnedInv, Disjoint, Solved, CollectUnsat
  PROVE  \E c \in CasesOf(vStack, p) :
           SatsIn(out, c) = {} /\ CasesOf(vStack', p') = CasesOf(vStack, p) \ {c}
<1> DEFINE c0 == p[slot].cof
<1> DEFINE rest == {vStack[j].cof : j \in DOMAIN vStack}
                     \cup {p[i].cof : i \in {k \in Slots : k # slot /\ InSlot(k)}}
<1>1. slot \in Slots /\ InSlot(slot)
  BY CollectEffect
<1>2. CasesOf(vStack, p) = rest \cup {c0}
  BY <1>1 DEF CasesOf, InSlot
<1>3. c0 \notin rest
  BY <1>1 DEF Disjoint, Consistent
<1>4. CasesOf(vStack', p') = rest
  <2>1. vStack' = vStack
    BY DEF CollectUnsat
  <2>2. \A i \in Slots : p'[i] # <<>> <=> i # slot /\ InSlot(i)
    BY CollectEffect DEF InSlot
  <2>3. \A i \in Slots : i # slot => p'[i] = p[i]
    BY CollectEffect
  <2> QED
    BY <2>1, <2>2, <2>3 DEF CasesOf
<1>5. SatsIn(out, c0) = {}
  <2>1. "unsat" \in Results(out, p[slot])
    BY <1>1 DEF CollectUnsat, Finished, Solved
  <2> QED
    BY <2>1 DEF Results
<1> HIDE DEF c0, rest
<1> QED
  BY <1>2, <1>3, <1>4, <1>5

LEMMA GiveCases ==
  ASSUME OwnedInv, FrameLive, Disjoint, GivePart
  PROVE  CasesOf(vStack', p') = CasesOf(vStack, p)
<1> DEFINE n == Len(vStack)
<1>1. /\ n \in DOMAIN vStack /\ DOMAIN vStack' = DOMAIN vStack \ {n}
      /\ \A j \in DOMAIN vStack' : vStack'[j] = vStack[j]
      /\ ~InSlot(slot) /\ InSlot(slot)' /\ p'[slot] = vStack[n]
      /\ \A i \in Slots : i # slot => p'[i] = p[i]
  BY GiveDisjoint
<1>2. slot \in Slots /\ slot' = slot
  BY DEF OwnedInv, Typed, GivePart
<1> HIDE DEF n
<1>3. {vStack[j].cof : j \in DOMAIN vStack}
        = {vStack'[j].cof : j \in DOMAIN vStack'} \cup {vStack[n].cof}
  BY <1>1
<1>4. {p'[i].cof : i \in {k \in Slots : p'[k] # <<>>}}
        = {p[i].cof : i \in {k \in Slots : p[k] # <<>>}} \cup {vStack[n].cof}
  BY <1>1, <1>2 DEF InSlot
<1> QED
  BY <1>3, <1>4 DEF CasesOf

\* The answers given when the search ends
LEMMA AnswerRefines ==
  ASSUME AnswerInv,
         SolvedWhole \/ CollectSat \/ (EndRound /\ ~Searching')
  PROVE  C!Answer
<1>1. CaseAnswer = "running" /\ CaseAnswer' = RetValue1' /\ OpenCases' = {} /\ UNCHANGED out
  BY SearchingCases, CallCases, OverCases
  DEF SolvedWhole, CollectSat, EndRound, Finished, Searching, FrameLive, testVars
<1>2. \/ RetValue1' = "unsat" /\ \A c \in OpenCases : SatsIn(out, c) = {}
      \/ RetValue1' = "sat" /\ \E c \in OpenCases : SatsIn(out, c) # {}
      \/ RetValue1' = "undec"
  <2>1. CASE SolvedWhole
    <3>1. RetValue1' \in {"sat", "unsat"} /\ RetValue1' \in Results(out, Whole)
      BY <2>1 DEF SolvedWhole, Results
    <3>2. OpenCases = {{}} /\ Whole.cof = {}
      BY <2>1, CallCases DEF SolvedWhole, Whole, Part
    <3> QED
      BY <3>1, <3>2 DEF Results
  <2>2. CASE CollectSat
    <3>1. slot \in Slots /\ InSlot(slot) /\ "sat" \in Results(out, p[slot])
      BY <2>2 DEF AnswerInv, OwnedInv, Typed, CollectSat, Finished, InSlot, Solved,
                  Searching, FrameLive
    <3>2. p[slot].cof \in OpenCases
      BY <2>2, <3>1, SearchingCases
      DEF CasesOf, InSlot, CollectSat, Finished, Searching, FrameLive
    <3>3. SatsIn(out, p[slot].cof) # {}
      BY <3>1 DEF Results
    <3> QED
      BY <2>2, <3>2, <3>3 DEF CollectSat
  <2>3. CASE EndRound /\ ~Searching'
    <3>1. CASE fWorkToDo
      BY <2>3, <3>1 DEF EndRound, Searching, FrameLive
    <3>2. CASE ~fWorkToDo
      <4>1. RetValue1' = "unsat" /\ Searching /\ pc = "roundEnd"
        BY <2>3, <3>2 DEF EndRound, Searching, FrameLive
      <4>2. vStack = <<>> /\ \A i \in Slots : ~InSlot(i)
        <5>1. NothingLeft
          BY <4>1 DEF AnswerInv
        <5>2. slot = NSlots /\ vStack = <<>>
          BY <3>2, <4>1, <5>1 DEF NothingLeft
        <5>3. \A i \in Slots : i < slot \/ i = slot
          BY <5>2, SplitAssumption DEF Slots
        <5> QED
          BY <3>2, <4>1, <5>1, <5>2, <5>3 DEF NothingLeft
      <4>3. OpenCases = {}
        BY <4>1, <4>2, SearchingCases DEF CasesOf, InSlot
      <4> QED
        BY <4>1, <4>3
    <3> QED
      BY <3>1, <3>2
  <2> QED
    BY <2>1, <2>2, <2>3
<1> QED
  BY <1>1, <1>2 DEF C!Answer, C!SatsIn, SatsIn

LEMMA StepRefines == ASSUME AnswerInv, Next PROVE C!Next \/ UNCHANGED C!splitVars
<1>1. CASE SolvedWhole \/ CollectSat \/ (EndRound /\ ~Searching')
  BY <1>1, AnswerRefines DEF C!Next
<1>2. CASE StartThreads
  <2>1. OpenCases = {{}} /\ CaseAnswer = "running"
    BY <1>2, CallCases DEF StartThreads
  <2>2. vStack' = <<Whole>> /\ \A i \in Slots : p'[i] = <<>>
    BY <1>2 DEF StartThreads
  <2>3. CasesOf(vStack', p') = {{}}
    <3>1. DOMAIN vStack' = {1} /\ vStack'[1].cof = {}
      BY <2>2 DEF Whole, Part
    <3> QED
      BY <2>2, <3>1 DEF CasesOf
  <2>4. Searching' /\ UNCHANGED out
    BY <1>2 DEF StartThreads, Searching, FrameLive, testVars
  <2> QED
    BY <2>1, <2>3, <2>4, SearchingCasesNext DEF C!splitVars
<1>3. CASE StartRound \/ VisitBusy \/ VisitIdle \/ GiveNothing \/ StartPart
             \/ (EndRound /\ Searching')
  <2>1. Searching /\ Searching' /\ UNCHANGED <<out, vStack, p>>
    BY <1>3 DEF StartRound, VisitBusy, VisitIdle, GiveNothing, StartPart, EndRound, NextSlot,
                Searching, FrameLive, slotVars, testVars
  <2> QED
    BY <2>1, SearchingCases, SearchingCasesNext DEF C!splitVars
<1>4. CASE CollectUndec
  <2>1. Searching /\ Searching' /\ UNCHANGED out
    BY <1>4 DEF CollectUndec, Finished, Searching, FrameLive, testVars
  <2>2. C!Split
    BY <1>4, <2>1, UndecCases, SearchingCases, SearchingCasesNext
    DEF AnswerInv, C!Split, C!Free, Free
  <2> QED
    BY <2>2 DEF C!Next
<1>5. CASE CollectUnsat
  <2>1. Searching /\ Searching' /\ UNCHANGED out
    BY <1>5 DEF CollectUnsat, Finished, Searching, FrameLive, testVars
  <2>2. C!Refute
    BY <1>5, <2>1, UnsatCases, SearchingCases, SearchingCasesNext
    DEF AnswerInv, C!Refute, C!SatsIn, SatsIn
  <2> QED
    BY <2>2 DEF C!Next
<1>6. CASE GivePart
  <2>1. Searching /\ Searching' /\ FrameLive /\ UNCHANGED out
    BY <1>6 DEF GivePart, Searching, FrameLive, testVars
  <2> QED
    BY <1>6, <2>1, GiveCases, SearchingCases, SearchingCasesNext DEF AnswerInv, C!splitVars
<1>7. CASE WaitForThreads \/ StopThreads \/ CollectAnswer
  <2>1. /\ pc # "call" /\ ~Searching /\ pc' # "call" /\ ~Searching'
        /\ UNCHANGED <<out, RetValue1>>
    BY <1>7 DEF WaitForThreads, StopThreads, CollectAnswer, Searching, FrameLive, callVars, testVars
  <2> QED
    BY <2>1, OverCases DEF C!splitVars
<1>8. CASE CollectOther
  <2>1. pc = "collect" /\ pc # "call" /\ ~Searching
    BY <1>8 DEF CollectOther, Searching, FrameLive
  <2>2. RetValue1 # "running"
    BY DEF AnswerInv, ResultTyped, Answers
  <2>3. CASE out + 1 \in Outs
    <3>1. out' = out + 1 /\ pc' = "call"
      BY <1>8, <2>3 DEF CollectOther
    <3>2. C!NextOutput
      BY <2>1, <2>2, <2>3, <3>1, OverCases, CallCasesNext DEF C!NextOutput, C!Outs, Outs
    <3> QED
      BY <3>2 DEF C!Next
  <2>4. CASE out + 1 \notin Outs
    <3>1. pc' # "call" /\ ~Searching' /\ UNCHANGED <<out, RetValue1>>
      BY <1>8, <2>4 DEF CollectOther, Searching, FrameLive
    <3> QED
      BY <2>1, <3>1, OverCases DEF C!splitVars
  <2> QED
    BY <2>3, <2>4
<1>9. ASSUME NEW t \in Threads, Worker(t) PROVE UNCHANGED C!splitVars
  <2>1. UNCHANGED <<pc, out, vStack, p, RetValue1>>
    BY <1>9 DEF Worker, Wake, Take, Solve, Clear, slotVars, callVars, testVars
  <2> QED
    BY <2>1 DEF C!splitVars, OpenCases, CaseAnswer, OpenParts, Searching, FrameLive
<1>10. ASSUME NEW t \in Threads, Stray(t) PROVE C!Next \/ UNCHANGED C!splitVars
  <2>1. ~Searching /\ ~Searching' /\ UNCHANGED <<out, RetValue1>> /\ pc' \in {pc, "crashed"}
    BY <1>10 DEF Stray, Searching, FrameLive, callVars, testVars
  <2>2. CASE pc = "call" /\ pc' = "crashed"
    <3>1. RetValue1' = "undec"
      BY <2>1, <2>2 DEF AnswerInv, ResultTyped
    <3>2. C!Answer
      BY <2>1, <2>2, <3>1, CallCases, OverCases DEF C!Answer
    <3> QED
      BY <3>2 DEF C!Next
  <2>3. CASE pc = "call" /\ pc' = "call"
    BY <2>1, <2>3, CallCases, CallCasesNext DEF C!splitVars
  <2>4. CASE pc # "call"
    BY <2>1, <2>4, OverCases DEF C!splitVars
  <2> QED
    BY <2>1, <2>2, <2>3, <2>4
<1>11. CASE Ended
  BY <1>11 DEF Ended, vars, slotVars, callVars, testVars, C!splitVars, OpenCases, CaseAnswer,
               OpenParts, Searching, FrameLive
<1> QED
  BY <1>1, <1>2, <1>3, <1>4, <1>5, <1>6, <1>7, <1>8, <1>9, <1>10, <1>11 DEF Next, Manager

\* Handing parts out to threads and collecting their results, in whatever order
\* they come, is splitting and refuting cases: no part is lost or taken for
\* refuted that a thread still has
THEOREM SplitImplementsCaseSplit == ASSUME NSplitMax <= 1 PROVE Spec => AnswersJustified
<1>1. Init => AnswerInv /\ C!Init
  <2>1. Init => AnswerInv
    BY InitAnswers
  <2>2. Init => C!Init
    BY CallCases DEF Init, C!Init
  <2> QED
    BY <2>1, <2>2
<1>2. AnswerInv /\ [Next]_vars => AnswerInv'
  BY AnswerStep
<1>3. AnswerInv /\ [Next]_vars => [C!Next]_(C!splitVars)
  <2>1. CASE Next
    BY <2>1, StepRefines
  <2>2. CASE UNCHANGED vars
    BY <2>2 DEF vars, slotVars, callVars, testVars, C!splitVars, OpenCases, CaseAnswer,
                OpenParts, Searching, FrameLive
  <2> QED
    BY <2>1, <2>2
<1> QED
  BY <1>1, <1>2, <1>3, PTL DEF Spec, AnswersJustified, C!Spec

\* CaseSplit with its theorem, for the cases of the threads
CP == INSTANCE CaseSplitProofs WITH open <- OpenCases, answer <- CaseAnswer

\* An output for which UNSAT is returned is never 1: what was refuted in parts, by
\* threads in any order, was all of it
THEOREM SplitUnsatRight == ASSUME NSplitMax <= 1 PROVE Spec => []UnsatRight
<1>1. Spec => C!Spec
  BY SplitImplementsCaseSplit DEF AnswersJustified
<1>2. C!Init => CP!Init
  BY DEF C!Init, CP!Init
<1>3. [C!Next]_(C!splitVars) => [CP!Next]_(CP!splitVars)
  BY DEF C!Next, C!Split, C!Refute, C!Answer, C!NextOutput, C!splitVars, C!Free, C!SatsIn, C!Outs,
         CP!Next, CP!Split, CP!Refute, CP!Answer, CP!NextOutput, CP!splitVars, CP!Free, CP!SatsIn,
         CP!Outs
<1>4. CP!CofactorsAssumption
  BY CofactorsAssumption DEF IsFiniteSet, CP!IsFiniteSet, CP!CofactorsAssumption, CP!Outs, Outs
<1>5. CP!Init => CP!Inv
  BY <1>4 DEF CP!Init, CP!Inv, CP!TypeOK, CP!Covered, CP!AnswersRight, CP!SatsIn, CP!Outs, CP!CofactorsAssumption
<1>6. CP!Inv /\ [CP!Next]_(CP!splitVars) => CP!Inv'
  BY <1>4, CP!InvStep
<1>7. CP!Inv => UnsatRight
  BY OverCases DEF CP!Inv, CP!AnswersRight, UnsatRight, Searching, FrameLive
<1> QED
  BY <1>1, <1>2, <1>3, <1>5, <1>6, <1>7, PTL DEF C!Spec, CP!Spec
==============================================================================
