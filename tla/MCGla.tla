-------------------------------- MODULE MCGla --------------------------------
(***************************************************************************)
(* Small designs for gate-level abstraction.  An object "o" drives the     *)
(* output.                                                                 *)
(***************************************************************************)
EXTENDS Gla, TLC

MCObjs == {"o", "a", "b"}

\* Never fails if a is kept; with b alone it fails in every second timeframe
Safe ==
  [k \in SUBSET MCObjs |-> CASE "a" \in k -> {}
                             [] "b" \in k -> {2, 4}
                             [] "o" \in k -> 1 .. 4
                             [] OTHER -> 0 .. 4]

\* Fails in timeframes 2 and 3, and under the abstractions that keep less earlier
Fails2 ==
  [k \in SUBSET MCObjs |-> CASE {"a", "b"} \subseteq k -> {2, 3}
                             [] "b" \in k -> {2, 3, 4}
                             [] "a" \in k -> 1 .. 4
                             [] OTHER -> 0 .. 4]

MCDesigns == {Safe, Fails2}

\* Output 1 has something to solve; what drives it is kept alone
MCStart == [i \in {0, 1} |-> IF i = 1 THEN {"o"} ELSE {}]

\* Two such outputs
MCBoth == [i \in {0, 1} |-> {"o"}]
==============================================================================
