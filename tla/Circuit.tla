------------------------------- MODULE Circuit -------------------------------
(***************************************************************************)
(* The sequential AIG the engines of src/proof work on (Aig_Man_t read     *)
(* through the Saig_Man* macros).  Registers start at 0, primary inputs    *)
(* are free in every timeframe, and an output fails when it evaluates to   *)
(* 1.  The gates between them are abstracted to two functions: Trans, the  *)
(* values the register inputs take, and Fails, where each output is 1.     *)
(***************************************************************************)
EXTENDS Integers

CONSTANTS
  NRegs,    \* Aig_ManRegNum; `pdr' adds a latch when there is none
  Ins,      \* assignments of the primary inputs in one timeframe
  NOuts,    \* Saig_ManPoNum
  Trans,    \* Trans[<<s, i>>]: the state after s under inputs i
  Fails     \* Fails[o]: the pairs <<state, input>> in which output o is 1

Regs   == 0 .. NRegs - 1
Outs   == 0 .. NOuts - 1
States == SUBSET Regs          \* a state is the set of registers that are 1
InitState == {}                \* the state 000...0

ASSUME CircuitAssumption ==
  /\ NRegs \in Nat \ {0}
  /\ NOuts \in Nat \ {0}
  /\ Ins # {}
  /\ Trans \in [States \X Ins -> States]
  /\ Fails \in [Outs -> SUBSET (States \X Ins)]

(***************************************************************************)
(* A literal <<r, v>> says that register r has value v, a cube (Pdr_Set_t, *)
(* its Lits[0..nLits-1]) is a set of literals, and the clause the engine   *)
(* learns from a cube is its negation.                                     *)
(***************************************************************************)
Lits  == Regs \X BOOLEAN
Cubes == SUBSET Lits

Covers(c, s) == \A l \in c : l[2] = (l[1] \in s)

\* Pdr_SetIsInit: no positive literal
IsInit(c) == \A l \in c : ~l[2]

\* A mutant of SetContains: the arguments are swapped
SetContainsSwapped(old, new) == old \subseteq new

\* Pdr_SetContains(old, new): the cube old is one of those new already blocks
SetContains(old, new) == new \subseteq old

(***************************************************************************)
(* Reachability without recursion: an output can be asserted iff every     *)
(* set of states that holds the initial one and is closed under Trans      *)
(* holds a state in which it fails.                                        *)
(***************************************************************************)
Closed(I) == \A s \in I, i \in Ins : Trans[<<s, i>>] \in I

Violable(o) ==
  \A I \in SUBSET States :
    (InitState \in I /\ Closed(I)) => \E s \in I, i \in Ins : <<s, i>> \in Fails[o]
==============================================================================
