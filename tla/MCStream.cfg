CONSTANTS
  MaxInt = 10
  Options = {"SingleLineComments", "MultilineComments"}
  Number = {}
  Quoted = {}
  Identifier = {}
  LineComment = {"//"}
  BlockComment = {"/**/"}
  NameOf <- KeyNames
  Streams <- MCStreams
  MaxChunk = 2
  MaxFailures = 1
SPECIFICATION Spec
CHECK_DEADLOCK FALSE
INVARIANTS TypeOK EveryCharacterOnce PositionsRight
PROPERTIES ImplementsStreamSpec ReturnsPromptly Returns
