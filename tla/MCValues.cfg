CONSTANTS
  Goroutine <- Goroutines
  Type <- Types
  Asked <- AskedTypes
  TagName <- TagNames
  MaxDepth = 3
  MaxCalls = 2
  Fold <- Folded
  IntOf <- Ints
  FloatOf <- Floats
  Scalar <- Literals
  Ascending <- Names
  Declared <- Variables
  Settings = {{}, {"UseNumber", "DisallowUnknownFields"}}
  Tree <- Trees
SPECIFICATION Spec
CHECK_DEADLOCK FALSE
INVARIANTS TablesRight WrittenReadsBack ErrorKeepsRest NothingStale
PROPERTIES LookupsEnd
