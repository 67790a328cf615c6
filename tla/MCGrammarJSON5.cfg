CONSTANTS
  Options = {"TrailingCommas", "SingleLineComments", "MultilineComments", "ECMAScriptIdentifiers"}
  Number = {"1"}
  Quoted <- QuotedNames
  Identifier = {"a"}
  LineComment = {"//"}
  BlockComment = {"/**/"}
  NameOf <- NameTable
  Lexeme <- JSON5Lexeme
  MaxTokens = 6
  MaxText = 6
  Indentation <- Indentations
SPECIFICATION Spec
CHECK_DEADLOCK FALSE
INVARIANTS AcceptsGrammar KeepsText LayoutsKeepText IndentationFound
