\* -P 1 -I 9
SPECIFICATION Spec
CONSTANTS
  Pis = {"a", "b", "c", "d"}
  NOuts = 1
  Sats <- TwoSats
  NIterMax = 9
INVARIANTS
  SerialCovered
  SerialProgress
  SerialCexReal
