------------------------------- MODULE MCSplit -------------------------------
(***************************************************************************)
(* Small miters for the threads of &splitprove.                            *)
(***************************************************************************)
EXTENDS Split

\* The last output is 1 when all inputs are
OneSat == [o \in Outs |-> IF o = NOuts - 1 THEN {Pis} ELSE {}]
==============================================================================
