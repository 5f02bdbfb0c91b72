------------------------------- MODULE MCPdr -------------------------------
(***************************************************************************)
(* Small circuits for the PDR engine.                                      *)
(***************************************************************************)
EXTENDS Pdr, TLC

MCStates(n) == SUBSET (0 .. n - 1)

\* A one-hot counter modulo 3 over two registers that an input enables:
\* {} -> {0} -> {1} -> {}; the state {0, 1} is not reachable
Mod3(s, i) ==
  IF i = 0 THEN s
  ELSE CASE s = {} -> {0} [] s = {0} -> {1} [] s = {1} -> {} [] OTHER -> {0, 1}

\* The counter with a register 2 that is 0 only in the initial state, to which
\* nothing returns.  The output fails in two unreachable states: both counter
\* registers are 1, or one of them is while register 2 is 0.
StartedTrans == [m \in MCStates(3) \X {0, 1} |-> Mod3(m[1] \ {2}, m[2]) \cup {2}]
StartedSafe  == [o \in {0} |-> {{0, 1, 2}, {0}} \X {0, 1}]

\* A lock: the right input in {0} is 0 and in {0, 1} it is 1, a wrong one
\* resets it.  The output fails after three steps, in {1, 2}.
Lock(s, i) ==
  CASE s = {}     -> IF i = 0 THEN {0} ELSE {0, 1}
    [] s = {0}    -> IF i = 0 THEN {2} ELSE {}
    [] s = {0, 1} -> IF i = 1 THEN {2} ELSE {}
    [] s = {2}    -> IF i = 1 THEN {1, 2} ELSE {2}
    [] OTHER      -> {}

LockTrans == [m \in MCStates(3) \X {0, 1} |-> Lock(m[1], m[2])]
LockFails == [o \in {0} |-> {{1, 2}} \X {0, 1}]

\* A fork: output 1 fails on one branch after two steps, in {0, 1, 2}, and on the
\* other after three, in {0, 2}; output 0 fails in {2}.  What blocks {0, 2} in
\* timeframe 1 does not block {1}, which leads to it.
Fork(s, i) ==
  CASE s = {}  -> IF i = 0 THEN {0} ELSE {2}
    [] s = {0} -> {0, 1, 2}
    [] s = {2} -> {1}
    [] s = {1} -> {0, 2}
    [] OTHER   -> s

ForkTrans == [m \in MCStates(3) \X {0, 1} |-> Fork(m[1], m[2])]

\* ... output 2 fails in {1, 2}, which is not reachable, output 3 is constant 1
\* and output 4 constant 0
ForkFails ==
  [o \in 0 .. 4 |-> CASE o = 0 -> {<<{2}, 1>>}
                      [] o = 1 -> {{0, 1, 2}, {0, 2}} \X {0, 1}
                      [] o = 2 -> {{1, 2}} \X {0, 1}
                      [] o = 3 -> MCStates(3) \X {0, 1}
                      [] OTHER -> {}]

\* Four registers without inputs: from {} the circuit alternates between {0, 1} and
\* {1}, and the other states are such that `down' takes every turn
Turns ==
  [s \in MCStates(4) |->
     CASE s = {}        -> {0, 1}       [] s = {0}       -> {}
       [] s = {1}       -> {0, 1}       [] s = {0, 1}    -> {1}
       [] s = {2}       -> {2, 3}       [] s = {0, 2}    -> {0}
       [] s = {1, 2}    -> {0}          [] s = {0, 1, 2} -> {0, 2, 3}
       [] s = {3}       -> {1}          [] s = {0, 3}    -> {1, 3}
       [] s = {1, 3}    -> {1, 2}       [] s = {0, 1, 3} -> {0}
       [] s = {1, 2, 3} -> {2}          [] s = 0 .. 3  -> 0 .. 3
       [] OTHER         -> {0, 1, 3}]

TurnsTrans == [m \in MCStates(4) \X {0} |-> Turns[m[1]]]
TurnsSafe  == [o \in {0} |-> {{2}, {1, 2, 3}} \X {0}]

\* Output 1 is safe too: it fails in {0, 2, 3}, which is not reachable
TurnsBoth == [o \in {0, 1} |-> (IF o = 0 THEN {{2}, {1, 2, 3}} ELSE {{0, 2, 3}}) \X {0}]
==============================================================================
