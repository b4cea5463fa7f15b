SPECIFICATION Spec
CONSTANTS
  NUnits = 8
  PageUnits = 4
  IntUnits = 9
  MaxRequest = 3
  Vals = {0, 1}
INVARIANTS SizesTile ListSorted Coalesced
PROPERTIES ImplementsHeap
VIEW View
