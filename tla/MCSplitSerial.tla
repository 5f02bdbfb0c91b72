---------------------------- MODULE MCSplitSerial ----------------------------
(***************************************************************************)
(* Small miters for &splitprove without threads.                           *)
(***************************************************************************)
EXTENDS SplitSerial

\* The output is 1 when exactly input "a" is 0, or no input is 1
TwoSats == [o \in Outs |-> {Pis \ {"a"}, {}}]
==============================================================================
