SPECIFICATION Spec
CONSTANTS
  NUnits = 12
  PageUnits = 4
  IntUnits = 13
  MaxRequest = 3
  Vals = {0, 1}
INVARIANTS TagsExact ListExact
PROPERTIES ImplementsHeap
VIEW View
