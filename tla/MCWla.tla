-------------------------------- MODULE MCWla --------------------------------
(***************************************************************************)
(* Small designs for word-level abstraction refinement.                    *)
(***************************************************************************)
EXTENDS Wla, TLC

MCSignals == {"a", "b", "c"}

\* Never fails if a is kept with b or c; b and c alone only push the failure away
Safe ==
  [k \in SUBSET MCSignals |-> CASE "a" \in k /\ k # {"a"} -> {}
                                [] "a" \in k -> {2, 3}
                                [] {"b", "c"} \subseteq k -> {3}
                                [] k = {} -> 0 .. 3
                                [] OTHER -> 1 .. 3]

\* Fails in timeframe 2 and later
Fails2 ==
  [k \in SUBSET MCSignals |-> IF {"a", "b"} \subseteq k THEN {2, 3} ELSE 1 .. 3]

\* No output can be 1 without the other of its pair
Alone(frames) == [miter |-> frames, outs |-> frames]

\* The two outputs of a pair are 1 together from timeframe 1 on
Pair == [miter |-> Safe, outs |-> [k \in SUBSET MCSignals |-> Safe[k] \cup 1 .. 3]]

MCDesigns == {Alone(Safe), Alone(Fails2), Pair}
MCFails == {Alone(Fails2)}

\* Every other part of the safe design is found to be constant
MCGateless == {<<Safe, {"a", "b"}>>}

\* The output is a register, driven by a register: no gate between them
MCRegisters == {<<Fails2, {"b"}>>}

Options(q, s, t, l, p, u, x) ==
  [fUseBmc3 |-> q, fShrinkAbs |-> s, fShrinkScratch |-> t, fLoadTrace |-> l, fPushClauses |-> p,
   fCheckCombUnsat |-> u, fXorOutput |-> x]

MCPars ==
  {Options(FALSE, FALSE, FALSE, TRUE, TRUE, TRUE, TRUE),
   Options(TRUE, FALSE, FALSE, TRUE, TRUE, FALSE, FALSE),
   Options(TRUE, TRUE, FALSE, FALSE, FALSE, FALSE, TRUE),
   Options(TRUE, TRUE, TRUE, TRUE, FALSE, FALSE, TRUE),
   Options(TRUE, TRUE, FALSE, TRUE, FALSE, TRUE, FALSE)}

\* -u -x
MCComb == {Options(FALSE, FALSE, FALSE, TRUE, FALSE, TRUE, FALSE)}
==============================================================================
