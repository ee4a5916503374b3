------------------------------- MODULE Tokens -------------------------------
(***************************************************************************)
(* The tokens the lexer hands to the parser (src/include/token.h).  A      *)
(* token has a type t (its spelling, or Identifier, Number, String, Eof),  *)
(* a text s (empty for operators) and a value v.                           *)
(***************************************************************************)
EXTENDS Program

\* kTokenKeywordsAndLiterals
Keywords ==
  {"NaN", "break", "case", "catch", "class", "const", "continue", "default", "do",
   "else", "extends", "false", "finally", "func", "guard", "if", "ignoreconst",
   "import", "let", "loop", "match", "new", "null", "primitive", "property", "return",
   "self", "static", "super", "switch", "__syscall", "throw", "true", "try", "typeof",
   "unless", "until", "while", "yield"}

\* kTokenAndAssignmentOperators
AndAssignments ==
  [t \in {"+=", "-=", "*=", "/=", "%=", "**=", "&=", "|=", "^=", "<<=", ">>="} |->
     SubSeq(t, 1, Len(t) - 1)]

\* Token::could_start_class_expression
StartsClassExpression == {"property", "static", "Identifier"}
=============================================================================
