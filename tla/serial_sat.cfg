\* -P 1: is UNSAT right?
SPECIFICATION Spec
CONSTANTS
  Pis = {"a", "b", "c"}
  NOuts = 1
  Sats <- TwoSats
  NIterMax = 0
INVARIANTS
  SerialUnsatRight
