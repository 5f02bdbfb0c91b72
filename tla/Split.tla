-------------------------------- MODULE Split --------------------------------
(***************************************************************************)
(* &splitprove with several processes (src/proof/cec/cecSplit.c):          *)
(* Cec_GiaSplitTest calls Cec_GiaSplitTestInt for one output after the     *)
(* other, which hands parts of the miter to worker threads through slots   *)
(* both poll.  Memory is sequentially consistent here (the code has no     *)
(* barrier, and declares only the worker's pointer to fWorking volatile).  *)
(*                                                                         *)
(* The slots, ThData, live in the frame of Cec_GiaSplitTestInt.  They are  *)
(* at the same address in every call, so that a thread of an earlier call  *)
(* that was not stopped shares them with a thread of the current one.      *)
(***************************************************************************)
EXTENDS Cofactors, Sequences

CONSTANTS
  NSlots,    \* worker threads, one less than -P
  NIterMax,  \* -I, 0 is no limit
  NSplitMax  \* bound: the outputs that cannot be solved whole within -T

ASSUME SplitAssumption == NSlots \in Nat \ {0} /\ NIterMax \in Nat /\ NSplitMax \in Nat

VARIABLES
  pc,         \* where the manager is: see Locations
  out,        \* i of Cec_GiaSplitTest, the output being solved
  slot,       \* i of the manager's loop
  vStack,     \* parts no thread has been given
  p, pCnf, fWorking, Result,   \* the fields of the slots; p is <<>> for NULL
  model,      \* p->pCexComb of the slot's part, a set of at most one assignment
  thread,     \* thread[<<o, i>>]: where the thread started for slot i by call o is
  taken,      \* ... and the part it is solving
  fWorkToDo, nIter, Progress,
  RetValue1, pCexComb,   \* what the call returns, and the model it found
  fOneUndef, RetValue    \* what Cec_GiaSplitTest returns

slotVars   == <<p, pCnf, fWorking, Result, model>>
threadVars == <<thread, taken>>
callVars   == <<fWorkToDo, nIter, Progress, RetValue1, pCexComb>>
testVars   == <<out, fOneUndef, RetValue>>
vars == <<pc, slot, vStack, slotVars, threadVars, callVars, testVars>>

Locations == {"call", "round", "visit", "give", "start", "roundEnd", "wait", "stop", "collect",
              "done", "crashed"}

Slots   == 1 .. NSlots
Threads == Outs \X Slots

Init ==
  /\ pc = "call" /\ out = 0 /\ slot = 1 /\ vStack = <<>>
  /\ p = [i \in Slots |-> <<>>] /\ pCnf = [i \in Slots |-> FALSE]
  /\ fWorking = [i \in Slots |-> FALSE] /\ Result = [i \in Slots |-> "undec"]
  /\ model = [i \in Slots |-> {}]
  /\ thread = [t \in Threads |-> "none"] /\ taken = [t \in Threads |-> <<>>]
  /\ fWorkToDo = TRUE /\ nIter = 0 /\ Progress = 0 /\ RetValue1 = "undec" /\ pCexComb = {}
  /\ fOneUndef = FALSE /\ RetValue = "undec"

-----------------------------------------------------------------------------
(* The manager: Cec_GiaSplitTestInt *)

\* The output is decided without cofactoring
SolvedWhole ==
  /\ pc = "call"
  /\ \E r \in Results(out, Whole) \ {"undec"} :
       /\ RetValue1' = r
       /\ IF r = "sat" THEN \E a \in DeriveModels(out, Whole) : pCexComb' = {a}
                       ELSE pCexComb' = {}
  /\ pc' = "collect"
  /\ UNCHANGED <<slot, vStack, slotVars, threadVars, fWorkToDo, nIter, Progress, testVars>>

\* ... or it is not, the slots are initialised and their threads created
StartThreads ==
  /\ pc = "call" /\ "undec" \in Results(out, Whole)
  /\ Cardinality({o \in Outs : thread[<<o, 1>>] # "none"}) < NSplitMax
  /\ vStack' = <<Whole>>
  /\ p' = [i \in Slots |-> <<>>] /\ pCnf' = [i \in Slots |-> FALSE]
  /\ fWorking' = [i \in Slots |-> FALSE] /\ Result' = [i \in Slots |-> "undec"]
  /\ model' = [i \in Slots |-> {}]
  /\ thread' = [t \in Threads |-> IF t[1] = out THEN "spin" ELSE thread[t]]
  /\ fWorkToDo' = TRUE /\ nIter' = 0 /\ Progress' = 0
  /\ RetValue1' = "undec" /\ pCexComb' = {}
  /\ pc' = "round"
  /\ UNCHANGED <<slot, taken, testVars>>

StartRound ==
  /\ pc = "round"
  /\ fWorkToDo' = (vStack # <<>>)
  /\ slot' = 1 /\ pc' = "visit"
  /\ UNCHANGED <<vStack, slotVars, threadVars, nIter, Progress, RetValue1, pCexComb, testVars>>

\* A mutant of NextSlot: one slot too many
NextSlotOver ==
  IF slot <= NSlots THEN slot' = slot + 1 /\ pc' = "visit"
                    ELSE slot' = slot /\ pc' = "roundEnd"

NextSlot ==
  IF slot < NSlots THEN slot' = slot + 1 /\ pc' = "visit"
                   ELSE slot' = slot /\ pc' = "roundEnd"

\* A mutant of VisitBusy: a busy thread is no work to do
VisitBusyForgotten ==
  /\ pc = "visit" /\ fWorking[slot]
  /\ NextSlot
  /\ UNCHANGED <<vStack, slotVars, threadVars, callVars, testVars>>

\* The slot's thread is working
VisitBusy ==
  /\ pc = "visit" /\ fWorking[slot]
  /\ fWorkToDo' = TRUE
  /\ NextSlot
  /\ UNCHANGED <<vStack, slotVars, threadVars, nIter, Progress, RetValue1, pCexComb, testVars>>

Finished(r) == pc = "visit" /\ ~fWorking[slot] /\ p[slot] # <<>> /\ Result[slot] = r

\* The slot's part has been solved and is freed
FreePart ==
  /\ p' = [p EXCEPT ![slot] = <<>>] /\ pCnf' = [pCnf EXCEPT ![slot] = FALSE]
  /\ model' = [model EXCEPT ![slot] = {}]
  /\ UNCHANGED <<fWorking, Result>>

\* A counter-example: the loop is left, with the part still in its slot
CollectSat ==
  /\ Finished("sat")
  /\ pCexComb' = model[slot] /\ model' = [model EXCEPT ![slot] = {}]
  /\ RetValue1' = "sat" /\ pc' = "wait"
  /\ UNCHANGED <<slot, vStack, p, pCnf, fWorking, Result, threadVars, fWorkToDo, nIter, Progress,
                 testVars>>

\* A mutant of Halves: the same cofactor twice
HalvesSame(part, v) ==
  <<Cofactor(part, v, FALSE, <<v, FALSE>>), Cofactor(part, v, FALSE, <<v, FALSE>>)>>

\* Both cofactors record input value 0 (lines 663 and 677)
Halves(part, v) ==
  <<Cofactor(part, v, FALSE, <<v, FALSE>>), Cofactor(part, v, TRUE, <<v, FALSE>>)>>

\* Out of time: the part is split
CollectUndec ==
  /\ Finished("undec")
  /\ \E v \in Free(p[slot].cof) : vStack' = vStack \o Halves(p[slot], v)
  /\ fWorkToDo' = TRUE /\ nIter' = nIter + 1
  /\ FreePart
  /\ pc' = "give"
  /\ UNCHANGED <<slot, threadVars, Progress, RetValue1, pCexComb, testVars>>

\* A mutant of Advance: the depth of its cofactors
AdvanceBelow(part) == Progress' = Progress + Share(Depth(part) + 1)

Advance(part) == Progress' = Progress + Share(Depth(part))

CollectUnsat ==
  /\ Finished("unsat")
  /\ Advance(p[slot])
  /\ FreePart
  /\ pc' = "give"
  /\ UNCHANGED <<slot, vStack, threadVars, fWorkToDo, nIter, RetValue1, pCexComb, testVars>>

VisitIdle ==
  /\ pc = "visit" /\ ~fWorking[slot] /\ p[slot] = <<>>
  /\ pc' = "give"
  /\ UNCHANGED <<slot, vStack, slotVars, threadVars, callVars, testVars>>

GiveNothing ==
  /\ pc = "give" /\ vStack = <<>>
  /\ NextSlot
  /\ UNCHANGED <<vStack, slotVars, threadVars, callVars, testVars>>

\* The slot gets the last part of the stack
GivePart ==
  /\ pc = "give" /\ vStack # <<>>
  /\ p' = [p EXCEPT ![slot] = vStack[Len(vStack)]]
  /\ pCnf' = [pCnf EXCEPT ![slot] = TRUE]
  /\ vStack' = SubSeq(vStack, 1, Len(vStack) - 1)
  /\ pc' = "start"
  /\ UNCHANGED <<slot, fWorking, Result, model, threadVars, callVars, testVars>>

StartPart ==
  /\ pc = "start"
  /\ fWorking' = [fWorking EXCEPT ![slot] = TRUE]
  /\ NextSlot
  /\ UNCHANGED <<vStack, p, pCnf, Result, model, threadVars, callVars, testVars>>

EndRound ==
  /\ pc = "roundEnd"
  /\ IF fWorkToDo /\ (NIterMax = 0 \/ nIter < NIterMax)
       THEN pc' = "round" /\ UNCHANGED RetValue1
       ELSE pc' = "wait" /\ RetValue1' = IF fWorkToDo THEN "undec" ELSE "unsat"
  /\ UNCHANGED <<slot, vStack, slotVars, threadVars, fWorkToDo, nIter, Progress, pCexComb,
                 testVars>>

\* A mutant of AllIdle: the last thread is not waited for
AllIdleButLast == \A i \in Slots \ {NSlots} : ~fWorking[i]

AllIdle == \A i \in Slots : ~fWorking[i]

WaitForThreads ==
  /\ pc = "wait" /\ AllIdle
  /\ pc' = "stop"
  /\ UNCHANGED <<slot, vStack, slotVars, threadVars, callVars, testVars>>

\* Only the threads of slots that still have a CNF are told to stop (line 715),
\* none is joined, and the frame is left
StopThreads ==
  /\ pc = "stop"
  /\ p' = [i \in Slots |-> <<>>] /\ pCnf' = [i \in Slots |-> FALSE]
  /\ fWorking' = [i \in Slots |-> pCnf[i]]
  /\ model' = [i \in Slots |-> {}]
  /\ vStack' = <<>>
  /\ pc' = "collect"
  /\ UNCHANGED <<slot, Result, threadVars, callVars, testVars>>

-----------------------------------------------------------------------------
(* Cec_GiaSplitTest *)

\* The call returned 0: its AIG is freed (line 753), which clears pCexComb
\* (giaMan.c:164), and then read: line 758 goes through a null pointer
CollectAnswer ==
  /\ pc = "collect" /\ RetValue1 = "sat" /\ RetValue = "undec"
  /\ pc' = "crashed"
  /\ UNCHANGED <<slot, vStack, slotVars, threadVars, callVars, testVars>>

CollectOther ==
  /\ pc = "collect" /\ RetValue1 # "sat"
  /\ fOneUndef' = (fOneUndef \/ RetValue1 = "undec")
  /\ IF out + 1 \in Outs
       THEN /\ out' = out + 1 /\ pc' = "call" /\ RetValue1' = "undec"
            /\ UNCHANGED RetValue
       ELSE /\ pc' = "done" /\ RetValue' = (IF fOneUndef' THEN "undec" ELSE "unsat")
            /\ UNCHANGED <<out, RetValue1>>
  /\ UNCHANGED <<slot, vStack, slotVars, threadVars, fWorkToDo, nIter, Progress, pCexComb>>

-----------------------------------------------------------------------------
(* Cec_GiaSplitWorkerThread *)

\* It sees the flag
Wake(t) ==
  /\ thread[t] = "spin" /\ fWorking[t[2]]
  /\ thread' = [thread EXCEPT ![t] = "woken"]
  /\ UNCHANGED <<pc, slot, vStack, slotVars, taken, callVars, testVars>>

\* It exits when there is no part, or starts to solve the part
Take(t) ==
  /\ thread[t] = "woken"
  /\ thread' = [thread EXCEPT ![t] = IF p[t[2]] = <<>> THEN "exited" ELSE "solving"]
  /\ taken' = [taken EXCEPT ![t] = p[t[2]]]
  /\ UNCHANGED <<pc, slot, vStack, slotVars, callVars, testVars>>

Solve(t) ==
  /\ thread[t] = "solving"
  /\ \E r \in Results(out, taken[t]) :
       /\ Result' = [Result EXCEPT ![t[2]] = r]
       /\ IF r = "sat"
            THEN \E a \in DeriveModels(out, taken[t]) : model' = [model EXCEPT ![t[2]] = {a}]
            ELSE UNCHANGED model
  /\ thread' = [thread EXCEPT ![t] = "solved"]
  /\ UNCHANGED <<pc, slot, vStack, p, pCnf, fWorking, taken, callVars, testVars>>

\* A mutant of Cleared: the flag stays
ClearedNot(i) == fWorking

Cleared(i) == [fWorking EXCEPT ![i] = FALSE]

Clear(t) ==
  /\ thread[t] = "solved"
  /\ fWorking' = Cleared(t[2])
  /\ thread' = [thread EXCEPT ![t] = "spin"]
  /\ taken' = [taken EXCEPT ![t] = <<>>]
  /\ UNCHANGED <<pc, slot, vStack, p, pCnf, Result, model, callVars, testVars>>

FrameLive == pc \in {"round", "visit", "give", "start", "roundEnd", "wait", "stop"}

\* A thread that polls a frame that was left may read anything: it exits when it
\* reads a flag and a null pointer, and takes the program down with another one
Stray(t) ==
  /\ ~FrameLive /\ pc # "crashed"
  /\ thread[t] = "spin"
  /\ \/ thread' = [thread EXCEPT ![t] = "exited"] /\ UNCHANGED pc
     \/ pc' = "crashed" /\ UNCHANGED thread
  /\ UNCHANGED <<slot, vStack, slotVars, taken, callVars, testVars>>

-----------------------------------------------------------------------------
Manager ==
  \/ SolvedWhole \/ StartThreads \/ StartRound \/ VisitBusy \/ CollectSat \/ CollectUndec
  \/ CollectUnsat \/ VisitIdle \/ GiveNothing \/ GivePart \/ StartPart \/ EndRound
  \/ WaitForThreads \/ StopThreads \/ CollectAnswer \/ CollectOther

Worker(t) == pc # "crashed" /\ (Wake(t) \/ Take(t) \/ Solve(t) \/ Clear(t))

Ended == pc \in {"done", "crashed"} /\ UNCHANGED vars

Next == Manager \/ (\E t \in Threads : Worker(t) \/ Stray(t)) \/ Ended

\* The threads are scheduled preemptively, and queries have a time limit
Spec ==
  /\ Init /\ [][Next]_vars
  /\ WF_vars(Manager) /\ \A t \in Threads : WF_vars(Worker(t))

-----------------------------------------------------------------------------
(* Properties *)

PartsOrNull == [cof : SUBSET Lits, vCofVars : SUBSET Lits] \cup {<<>>}

TypeOK ==
  /\ pc \in Locations /\ out \in Outs /\ slot \in Slots
  /\ p \in [Slots -> PartsOrNull] /\ pCnf \in [Slots -> BOOLEAN]
  /\ fWorking \in [Slots -> BOOLEAN] /\ Result \in [Slots -> {"sat", "unsat", "undec"}]
  /\ model \in [Slots -> SUBSET SUBSET Pis]
  /\ thread \in [Threads -> {"none", "spin", "woken", "solving", "solved", "exited"}]
  /\ taken \in [Threads -> PartsOrNull]
  /\ fWorkToDo \in BOOLEAN /\ nIter \in Nat /\ Progress \in Nat
  /\ RetValue1 \in {"sat", "unsat", "undec"} /\ pCexComb \subseteq SUBSET Pis
  /\ fOneUndef \in BOOLEAN /\ RetValue \in {"sat", "unsat", "undec"}

\* The parts not refuted yet, on the stack and in the slots
OpenParts ==
  IF pc = "call" THEN {Whole}
  ELSE {vStack[j] : j \in DOMAIN vStack} \cup {p[i] : i \in {j \in Slots : p[j] # <<>>}}

Searching == FrameLive /\ pc \notin {"wait", "stop"}

(***************************************************************************)
(* The parts on the stack and in the slots are disjoint cofactors: no part *)
(* of the input space is given to two threads, whatever the order in which *)
(* threads finish.                                                         *)
(***************************************************************************)
PartsDisjoint ==
  Searching =>
    /\ \A x, y \in OpenParts : x # y => \E l \in x.cof : <<l[1], ~l[2]>> \in y.cof
    /\ Cardinality(OpenParts) = Len(vStack) + Cardinality({i \in Slots : p[i] # <<>>})

\* "Solved %8.4f %%" (line 379): what was refuted and what is open adds up to the
\* whole input space
ProgressExact == Searching => Progress + TotalShare(OpenParts) = Share(0)

(***************************************************************************)
(* The hand-shake through fWorking: while it is down no thread reads or    *)
(* writes the slot, and while it is up the part the thread solves is the   *)
(* slot's, so that the manager never frees a part that is being solved.    *)
(* Includes the assertions at lines 559, 694 and 712.                      *)
(***************************************************************************)
SlotOwned ==
  FrameLive =>
    \A t \in Threads :
      LET i == t[2] IN
      /\ thread[t] \in {"woken", "solving", "solved"} => fWorking[i] /\ p[i] # <<>>
      /\ thread[t] \in {"solving", "solved"} => taken[t] = p[i]
      /\ pc = "give" /\ i = slot => p[i] = <<>>
      /\ pc = "stop" => ~fWorking[i]

\* The cases still open, and the answer once the search is over
OpenCases  == IF pc = "call" \/ Searching THEN {part.cof : part \in OpenParts} ELSE {}
CaseAnswer == IF pc = "call" \/ Searching THEN "running" ELSE RetValue1

\* Handing parts out and collecting them in any order is splitting and refuting
\* cases, and the answer is one the cases justify
C == INSTANCE CaseSplit WITH open <- OpenCases, answer <- CaseAnswer
AnswersJustified == C!Spec

\* "The problem is UNSAT" (line 608), "Problem is UNSAT" (line 730): the output is
\* never 1, in whatever order the threads finished
UnsatRight == (pc = "collect" /\ RetValue1 = "unsat") => Sats[out] = {}

\* Every call returns
CallsReturn == \A o \in Outs : (pc = "call" /\ out = o) ~> (pc # "call" /\ ~FrameLive)
==============================================================================
