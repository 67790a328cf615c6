CONSTANTS
  Options = {}
  Number = {"1"}
  Quoted <- QuotedNames
  Identifier = {}
  LineComment = {"//"}
  BlockComment = {"/**/"}
  NameOf <- NameTable
  Lexeme <- StrictLexeme
  MaxTokens = 9
  MaxText = 9
  Indentation <- Indentations
SPECIFICATION Spec
CHECK_DEADLOCK FALSE
INVARIANTS AcceptsGrammar TreeFits
