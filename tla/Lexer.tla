------------------------------- MODULE Lexer -------------------------------
(***************************************************************************)
(* The lexer (src/compiler/lexer.cpp) over a source file                   *)
(* (src/include/sourcefile.h): a step is one pass of read_token, which     *)
(* consumes a token, or a run of characters the parser never sees.         *)
(***************************************************************************)
EXTENDS Tokens, SequencesExt, FiniteSetsExt

CONSTANT
  IntBits  \* the width of the integers a literal is decoded into, 64

ASSUME IntBitsAssumption == IntBits \in Nat \ {0}

VARIABLES
  text,    \* the source file, a string
  pos,     \* the position of the current character
  tokens,  \* the tokens read so far
  lexed    \* "reading", "done", or "error" after an UnexpectedCharError

lexerVars == <<text, pos, tokens, lexed>>

-----------------------------------------------------------------------------
(* Characters                                                              *)

Chars(s) == {SubSeq(s, i, i) : i \in 1 .. Len(s)}

Digits      == Chars("0123456789")
OctalDigits == Chars("01234567")
HexDigits   == Digits \cup Chars("abcdefABCDEF")
IdentStart  == Chars("abcdefghijklmnopqrstuvwxyzABCDEFGHIJKLMNOPQRSTUVWXYZ_$")
IdentPart   == IdentStart \cup Digits

\* SourceFile::read_char and peek_char: there is no character after the last.
CharAt(i) == IF i \in 1 .. Len(text) THEN SubSeq(text, i, i) ELSE ""

Cut(i, j) == SubSeq(text, i, Min({j - 1, Len(text)}))

\* The end of the run of characters of a set S that starts at i.
SpanEnd(i, S) == Min({j \in i .. Len(text) + 1 : CharAt(j) \notin S})

\* SourceFile::get_current_frame, when a lexeme that started at i has been
\* consumed up to j: it drops the last character of the frame, which is the
\* one after the lexeme unless the file has ended.
CurrentFrame(i, j) == IF CharAt(j) = "" THEN Cut(i, j - 1) ELSE Cut(i, j)

-----------------------------------------------------------------------------
(* Lexemes                                                                 *)

Punctuation == Chars(";,.~!(){}[]?:")

\* Faulty: a power followed by an assignment is not recognised.
OperatorOrAssignment_Without_Pow(i, op) ==
  IF CharAt(i + Len(op)) = "=" /\ op # "**" THEN op \o "=" ELSE op

\* consume_operator_or_assignment
OperatorOrAssignment(i, op) == IF CharAt(i + Len(op)) = "=" THEN op \o "=" ELSE op

\* The operator that read_token finds at i, none is "".
OperatorAt(i) ==
  LET c == CharAt(i)
      d == CharAt(i + 1)
  IN  CASE c \in Punctuation \cup {"@"} -> c
        [] c = "-" -> IF d = ">" THEN "->" ELSE OperatorOrAssignment(i, c)
        [] c = "*" -> OperatorOrAssignment(i, IF d = "*" THEN "**" ELSE c)
        [] c \in {"&", "|"} -> IF d = c THEN c \o d ELSE OperatorOrAssignment(i, c)
        [] c = "=" -> IF d \in {"=", ">"} THEN c \o d ELSE c
        [] c = "<" -> CASE d \in {"=", "-"} -> c \o d
                        [] d = "<" -> OperatorOrAssignment(i, "<<")
                        [] OTHER -> c
        [] c = ">" -> CASE d = "=" -> ">="
                        [] d = ">" -> OperatorOrAssignment(i, ">>")
                        [] OTHER -> c
        [] c \in {"+", "/", "%", "^"} -> OperatorOrAssignment(i, c)
        [] OTHER -> ""

\* The value of a string of digits.
DigitValue(c) == CHOOSE n \in 0 .. 15 : c \in {SubSeq("0123456789abcdef", n + 1, n + 1),
                                               SubSeq("0123456789ABCDEF", n + 1, n + 1)}

Decode(s, base) == FoldLeft(LAMBDA n, c : n * base + DigitValue(c), 0,
                            [i \in 1 .. Len(s) |-> SubSeq(s, i, i)])

\* A stream that reads more than its type holds stores the greatest value:
\* of a signed type for decimals, of an unsigned one for the others, which
\* the parser then takes as signed.
DecimalValue(s) == Num(Min({Decode(s, 10), 2 ^ (IntBits - 1) - 1}))

UnsignedValue(s, base) ==
  LET n == Min({Decode(s, base), 2 ^ IntBits - 1})
  IN  Num(IF n < 2 ^ (IntBits - 1) THEN n ELSE n - 2 ^ IntBits)

\* A float is told apart by its digits.
FloatValue(s) == [k |-> "float", n |-> 0, s |-> s]

RECURSIVE WithoutUnderscores(_)
WithoutUnderscores(s) ==
  IF s = "" THEN ""
  ELSE (IF SubSeq(s, 1, 1) = "_" THEN "" ELSE SubSeq(s, 1, 1))
       \o WithoutUnderscores(SubSeq(s, 2, Len(s)))

\* The end of the number that starts at i, as consume_numeric splits into
\* hexadecimal, octal and decimal ones.
IsHex(i)   == CharAt(i) = "0" /\ CharAt(i + 1) = "x"
IsOctal(i) == CharAt(i) = "0" /\ CharAt(i + 1) \in Digits

IntegerEnd(i) == SpanEnd(i + 1, Digits \cup {"_"})
IsFloat(i)    == CharAt(IntegerEnd(i)) = "." /\ CharAt(IntegerEnd(i) + 1) \in Digits
DecimalEnd(i) == IF IsFloat(i) THEN SpanEnd(IntegerEnd(i) + 1, Digits \cup {"_"})
                 ELSE IntegerEnd(i)

\* What an escaped character stands for.  TLA+ cannot spell four of them.
Escapes == [a |-> "<bell>", b |-> "<backspace>", n |-> "\n", r |-> "\r", t |-> "\t",
            v |-> "<tab>", f |-> "\f", e |-> "<escape>"] @@ ("\"" :> "\"") @@ ("\\" :> "\\")

\* consume_string: the position after the closing quote, 0 if the file ends
\* before it, and the text between.  Unknown escapes are dropped.
RECURSIVE StringFrom(_, _)
StringFrom(i, s) ==
  LET c == CharAt(i)
      d == CharAt(i + 1)
  IN  CASE c = "" \/ (c = "\\" /\ d = "") -> [end |-> 0, s |-> s]
        [] c = "\"" -> [end |-> i + 1, s |-> s]
        [] c = "\\" /\ d # "" -> StringFrom(i + 2, s \o (IF d \in DOMAIN Escapes
                                                         THEN Escapes[d] ELSE ""))
        [] OTHER -> StringFrom(i + 1, s \o c)

\* consume_multiline_comment: comments nest, and the end of the file ends
\* them all.
RECURSIVE CommentEnd(_, _)
CommentEnd(i, depth) ==
  LET two == Cut(i, i + 2)
  IN  CASE CharAt(i) = "" -> i
        [] two = "*/" -> IF depth = 1 THEN i + 2 ELSE CommentEnd(i + 2, depth - 1)
        [] two = "/*" -> CommentEnd(i + 2, depth + 1)
        [] OTHER -> CommentEnd(i + 1, depth)

-----------------------------------------------------------------------------
(* Steps                                                                   *)

LexerInit(source) ==
  /\ text = source
  /\ pos = 1
  /\ tokens = <<>>
  /\ lexed = "reading"

Token(t, s, v) == [t |-> t, s |-> s, v |-> v, at |-> pos]

Produce(token, end) ==
  /\ tokens' = Append(tokens, token)
  /\ pos' = end
  /\ UNCHANGED <<text, lexed>>

Discard(end) == pos' = end /\ UNCHANGED <<text, tokens, lexed>>

UnexpectedChar == lexed' = "error" /\ UNCHANGED <<text, pos, tokens>>

ReadEof ==
  /\ CharAt(pos) = ""
  /\ tokens' = Append(tokens, Token("Eof", "", Null))
  /\ lexed' = "done"
  /\ UNCHANGED <<text, pos>>

AtComment == Cut(pos, pos + 2) \in {"//", "/*"}
AtQuotedName == Cut(pos, pos + 2) = "@\""

ReadOperator ==
  /\ OperatorAt(pos) # "" /\ ~AtComment /\ ~AtQuotedName
  /\ Produce(Token(OperatorAt(pos), "", Null), pos + Len(OperatorAt(pos)))

ReadHex ==
  LET end == SpanEnd(pos + 2, HexDigits)
  IN  /\ IsHex(pos)
      /\ IF end = pos + 2 THEN UnexpectedChar
         ELSE Produce(Token("Number", "", UnsignedValue(Cut(pos + 2, end), 16)), end)

ReadOctal ==
  LET end == SpanEnd(pos, OctalDigits)
  IN  /\ IsOctal(pos)
      /\ Produce(Token("Number", "", UnsignedValue(Cut(pos, end), 8)), end)

ReadDecimal ==
  LET digits == WithoutUnderscores(Cut(pos, DecimalEnd(pos)))
  IN  /\ CharAt(pos) \in Digits /\ ~IsHex(pos) /\ ~IsOctal(pos)
      /\ Produce(Token("Number", "", IF IsFloat(pos) THEN FloatValue(digits)
                                     ELSE DecimalValue(digits)), DecimalEnd(pos))

ReadString ==
  LET r == StringFrom(pos + 1, "")
  IN  /\ CharAt(pos) = "\""
      /\ IF r.end = 0 THEN UnexpectedChar ELSE Produce(Token("String", r.s, Str(r.s)), r.end)

\* @"name" is an identifier whatever its name.
ReadQuotedName ==
  LET r == StringFrom(pos + 2, "")
  IN  /\ AtQuotedName
      /\ IF r.end = 0 THEN UnexpectedChar ELSE Produce(Token("Identifier", r.s, Null), r.end)

ReadIdent ==
  LET end == SpanEnd(pos, IdentPart)
      s   == CurrentFrame(pos, end)
  IN  /\ CharAt(pos) \in IdentStart
      /\ Produce(Token(IF s \in Keywords THEN s ELSE "Identifier", s, Null), end)

SkipWhitespace ==
  /\ CharAt(pos) \in {" ", "\t"}
  /\ Discard(SpanEnd(pos, {" ", "\t"}))

SkipNewline ==
  /\ CharAt(pos) \in {"\n", "\r"}
  /\ CASE CharAt(pos) = "\n" -> Discard(pos + 1)
       [] Cut(pos, pos + 2) = "\r\n" -> Discard(pos + 2)
       [] OTHER -> UnexpectedChar

\* consume_comment looks for the end of the line only: at the end of the file
\* it reads on for ever.
SkipComment ==
  LET end == SpanEnd(pos, Chars(text) \ {"\n", "\r"})
  IN  /\ Cut(pos, pos + 2) = "//"
      /\ IF CharAt(end) = "" THEN UNCHANGED lexerVars ELSE Discard(end)

\* Faulty: nor does it end at the end of the file.
SkipMultilineComment_Endless ==
  LET end == CommentEnd(pos + 2, 1)
  IN  /\ Cut(pos, pos + 2) = "/*"
      /\ IF CharAt(end) = "" THEN UNCHANGED lexerVars ELSE Discard(end)

SkipMultilineComment ==
  /\ Cut(pos, pos + 2) = "/*"
  /\ Discard(CommentEnd(pos + 2, 1))

ReadNothing ==
  /\ CharAt(pos) \notin IdentPart \cup {"", "\"", " ", "\t", "\n", "\r"}
  /\ OperatorAt(pos) = ""
  /\ UnexpectedChar

\* Lexer::read_token
ReadToken ==
  /\ lexed = "reading"
  /\ \/ ReadEof \/ ReadOperator \/ ReadHex \/ ReadOctal \/ ReadDecimal
     \/ ReadString \/ ReadQuotedName \/ ReadIdent
     \/ SkipWhitespace \/ SkipNewline \/ SkipComment \/ SkipMultilineComment
     \/ ReadNothing
=============================================================================
