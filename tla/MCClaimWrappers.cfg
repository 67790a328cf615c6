CONSTANTS
  Options = {}
  Number = {"1", "2"}
  Quoted <- QuotedNames
  Identifier = {}
  LineComment = {"//"}
  BlockComment = {"/**/", "/*/"}
  NameOf <- NameTable
  QuoteOf <- QuoteTable
  Source <- PlainArray
  Input <- ANumber
  Name = {"a", "b"}
  Body <- Bodies
  LineOf <- LineTable
  BlockOf <- BlockTable
  HandleKind = {"wrapper"}
  MaxEdits = 1
SPECIFICATION Spec
VIEW View
CHECK_DEADLOCK FALSE
INVARIANT ChildrenAreWrappers
