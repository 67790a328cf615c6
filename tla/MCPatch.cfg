CONSTANTS
  MaxInt = 10
  InSyntax <- Accepted
  SameValue <- jsonNodesEqual
  Merged <- mergePatch
  Foreign <- MCForeign
  Quantity <- MCQuantity
  MaxCalls = 2
  Source <- Sources
  PatchDocument <- MCPatchDocument
  PatchList <- MCPatchList
  MergeDocument <- MCMerge
  PathEdit <- MCEdit
  Receiver <- Receivers
  Departures = {"self move", "numerals", "strange null", "unused from", "kept nulls"}
SPECIFICATION Spec
CHECK_DEADLOCK FALSE
INVARIANT CloneIsPrivate
PROPERTIES AllOrNothing FormerTreesKept ImplementsPatchSpec
