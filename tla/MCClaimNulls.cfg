CONSTANTS
  MaxInt = 10
  InSyntax <- Accepted
  SameValue <- jsonNodesEqual
  Merged <- mergePatch
  Foreign <- MCForeign
  Quantity <- MCQuantity
  MaxCalls = 1
  Source <- PlainSource
  PatchDocument <- NoCalls
  PatchList <- NoCalls
  MergeDocument <- NewNulls
  PathEdit <- NoCalls
  Receiver <- RootOnly
  Departures = {}
SPECIFICATION Spec
CHECK_DEADLOCK FALSE
PROPERTY FollowsRFC7396
