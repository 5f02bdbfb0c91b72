\* -P 3 -I 3: two outputs, the second can be 1, either is split
SPECIFICATION Spec
CONSTANTS
  Pis = {"a", "b", "c"}
  NOuts = 2
  Sats <- OneSat
  NSlots = 2
  NIterMax = 3
  NSplitMax = 1
INVARIANTS
  TypeOK
  SlotOwned
  PartsDisjoint
  ProgressExact
  UnsatRight
PROPERTIES
  AnswersJustified
  CallsReturn
