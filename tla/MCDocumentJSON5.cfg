CONSTANTS
  Options = {"TrailingCommas", "SingleLineComments", "MultilineComments", "ECMAScriptIdentifiers"}
  Number = {"1", "2"}
  Quoted <- QuotedNames
  Identifier = {"a", "b"}
  LineComment = {"//"}
  BlockComment = {"/**/", "/*/"}
  NameOf <- NameTable
  QuoteOf <- QuoteTable
  Source <- JSON5Source
  Input <- JSON5Input
  Name = {"a", "b"}
  Body <- Bodies
  LineOf <- LineTable
  BlockOf <- BlockTable
  HandleKind = {}
  MaxEdits = 2
SPECIFICATION Spec
VIEW View
CHECK_DEADLOCK FALSE
INVARIANTS TypeOK RoundTrips AnchorsMatch EveryCommentFound
PROPERTIES OthersUntouched CommentsKept ImplementsJSONValue
