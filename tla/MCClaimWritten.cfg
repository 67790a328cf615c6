CONSTANTS
  Options = {"TrailingCommas", "SingleLineComments", "MultilineComments", "ECMAScriptIdentifiers"}
  Number = {"1", "2"}
  Quoted <- QuotedNames
  Identifier = {"a", "b"}
  LineComment = {"//"}
  BlockComment = {"/**/", "/*/"}
  NameOf <- NameTable
  QuoteOf <- QuoteTable
  Source <- PlainArray
  Input <- NumberAndComment
  Name = {"a", "b"}
  Body <- Bodies
  LineOf <- LineTable
  BlockOf <- BlockTable
  HandleKind = {}
  MaxEdits = 1
SPECIFICATION Spec
VIEW View
CHECK_DEADLOCK FALSE
INVARIANT CanBeWritten
