CONSTANTS
  Options = {}
  Number = {"1", "2"}
  Quoted <- QuotedNames
  Identifier = {}
  LineComment = {"//"}
  BlockComment = {"/**/", "/*/"}
  NameOf <- NameTable
  QuoteOf <- QuoteTable
  Source <- StrictSource
  Input <- StrictInput
  Name = {"a", "b"}
  Body <- Bodies
  LineOf <- LineTable
  BlockOf <- BlockTable
  HandleKind = {}
  MaxEdits = 3
SPECIFICATION Spec
VIEW View
CHECK_DEADLOCK FALSE
PROPERTIES ImplementsJSONValue
