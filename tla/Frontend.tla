------------------------------ MODULE Frontend ------------------------------
(***************************************************************************)
(* Source files from their text to their syntax tree: read by module       *)
(* Lexer, parsed by module Parser, compared with the tree they were        *)
(* printed from.                                                           *)
(***************************************************************************)
EXTENDS Lexer, Parser, Printer

CONSTANT
  Sources  \* the source files: the statements ss of a program and the style it
           \* is printed in, or a text of the style "raw"

VARIABLES
  source,   \* which source file is read
  outcome,  \* "reading", "accepted", "rejected", or "crash" of the process
  tree      \* the tree of an accepted file

frontVars == <<source, outcome, tree>>

Printed(s)  == s.style # "raw"
FileText(s) == IF Printed(s) THEN SourceText(s.ss, s.style) ELSE s.text

Init ==
  \E s \in DOMAIN Sources :
    /\ source = s
    /\ LexerInit(FileText(Sources[s]))
    /\ outcome = "reading"
    /\ tree = Empty

Read == ReadToken /\ UNCHANGED frontVars

\* Parser::parse.  The parser asks for a token at a time; errors of the lexer
\* and of the parser look the same, save that of the very first token, which
\* is read before the try block and which nobody catches.
ParseTokens ==
  LET r == Parse(tokens)
  IN  /\ lexed # "reading" /\ outcome = "reading"
      /\ outcome' = CASE lexed = "error" /\ tokens = <<>> -> "crash"
                      [] lexed = "error" /\ tokens # <<>> -> "rejected"
                      [] lexed = "done" -> IF r.ok THEN "accepted" ELSE "rejected"
      /\ tree' = IF lexed = "done" THEN r.tree ELSE Empty
      /\ UNCHANGED <<lexerVars, source>>

Next == Read \/ ParseTokens

\* Nothing interrupts the lexer.
Spec == Init /\ [][Next]_<<lexerVars, frontVars>> /\ WF_<<lexerVars, frontVars>>(Read)

-----------------------------------------------------------------------------
(* Tokens                                                                  *)

\* Every operator and every mark that opens a comment.
Operators == Punctuation \cup DOMAIN AndAssignments
             \cup {"+", "-", "*", "/", "%", "**", "&", "|", "^", "<<", ">>", "=", "==", "<", ">",
                   "<=", ">=", "&&", "||", "->", "<-", "=>", "@"}

Openings == {"//", "/*", "@\""}

StartsAt(i, s) == Cut(i, i + Len(s)) = s

\* An operator is the longest one at its place, and no comment begins there.
OperatorRight(k) ==
  tokens[k].t \in Operators =>
    /\ StartsAt(tokens[k].at, tokens[k].t)
    /\ \A o \in Operators \cup Openings :
         StartsAt(tokens[k].at, o) => Len(o) <= Len(tokens[k].t)

\* A name has all the characters that follow one another, and is a keyword
\* only as a whole; the last name of a file that has no end of line is cut.
NameRight(k) ==
  LET tk  == tokens[k]
      end == SpanEnd(tk.at, IdentPart)
  IN  CharAt(tk.at) \in IdentStart /\ CharAt(end) # "" =>
        tk.s = Cut(tk.at, end) /\ (tk.t = "Identifier" <=> tk.s \notin Keywords)

\* A number that fits has its value.  One that does not fit is not refused: a
\* hexadecimal or octal one is decoded without a sign and then taken with one,
\* and is negative, which no literal that fits is (lexer.cpp:556-559); a decimal
\* one is the largest integer, and cannot be told from it (lexer.cpp:526-528).
NumberRight(k) ==
  LET tk    == tokens[k]
      base  == IF IsHex(tk.at) THEN 16 ELSE IF IsOctal(tk.at) THEN 8 ELSE 10
      run   == CASE base = 16 -> Cut(tk.at + 2, SpanEnd(tk.at + 2, HexDigits))
                 [] base = 8  -> Cut(tk.at, SpanEnd(tk.at, OctalDigits))
                 [] base = 10 -> WithoutUnderscores(Cut(tk.at, IntegerEnd(tk.at)))
      exact == Decode(run, base)
      max   == 2 ^ (IntBits - 1) - 1
  IN  tk.t = "Number" /\ tk.v.k = "num" =>
        IF exact <= max THEN tk.v.n = exact
                        ELSE IF base = 10 THEN tk.v.n = max ELSE tk.v.n < 0

\* Where token k ends.
TokenEnd(k) ==
  LET at == tokens[k].at
  IN  CASE tokens[k].t \in Operators -> at + Len(tokens[k].t)
        [] StartsAt(at, "@\"") -> StringFrom(at + 2, "").end
        [] StartsAt(at, "\"") -> StringFrom(at + 1, "").end
        [] IsHex(at) -> SpanEnd(at + 2, HexDigits)
        [] IsOctal(at) -> SpanEnd(at, OctalDigits)
        [] tokens[k].t = "Number" /\ ~IsHex(at) /\ ~IsOctal(at) -> DecimalEnd(at)
        [] OTHER -> SpanEnd(at, IdentPart)

\* What has been skipped after a token is blank or a comment.
GapRight(k) ==
  LET from == SpanEnd(TokenEnd(k), {" ", "\t", "\r", "\n"})
  IN  from < pos => Cut(from, from + 2) \in {"//", "/*"}

\* Every character of the file is part of the right token: of the longest
\* operator, of a whole name or of a number with its value as far as that fits,
\* or it is blank or in a comment (Lexer::read_token).  Tokens are only appended: it is enough
\* to look at the latest and what has been skipped after it.
LexesRight ==
  LET k == Len(tokens)
  IN  k > 0 => /\ OperatorRight(k) /\ NameRight(k) /\ NumberRight(k)
               /\ tokens[k].t # "Eof" => GapRight(k)

-----------------------------------------------------------------------------
(* Trees                                                                   *)

\* The tree of a file that was printed from a tree is that tree: operators
\* bind and group, and bodies, arguments and members end where the text says.
ParsesBack ==
  outcome = "accepted" /\ Printed(Sources[source]) => tree = Block(Sources[source].ss)

\* What a part of a node is for the keywords in it.
Role(n, i) ==
  CASE n.t \in Loops /\ i = Len(n.k) -> "loop"
    [] n.t \in {"case", "arm"} \/ (n.t = "switch" /\ i = 2) -> "selection"
    [] n.t = "try" /\ n.k[2].t = "empty" /\ i = 3 -> "cleanup"
    [] n.t = "function" /\ i = 1 -> "function"
    [] OTHER -> "none"

\* A function of a class is a constructor, a method or a static function.
MemberRole(i) == CASE i = 2 -> "constructor" [] i = 4 -> "method" [] OTHER -> "static"

Functions_ == {"function", "constructor", "method", "static"}

\* The nearest of the given roles around a place, "none" for a place that has
\* none of them around it.
Nearest(roles, which) ==
  LET at == {i \in DOMAIN roles : roles[i] \in which}
  IN  IF at = {} THEN "none" ELSE roles[Max(at)]

\* Where a keyword may be.  super() may be in every method but a static one:
\* so the parser has it (parser.cpp:1802) and so the repository's Readme.md:158-160
\* uses it, in the method greet.  The comment at parser.cpp:1797 disagrees with
\* both: "Only the constructor method is allowed to have a 'super()' call".
InPlace(t, roles) ==
  CASE t = "break" ->
         Nearest(roles, {"loop", "selection", "cleanup"} \cup Functions_) \in {"loop", "selection"}
    [] t = "continue" -> Nearest(roles, {"loop", "cleanup"} \cup Functions_) = "loop"
    [] t = "return" -> Nearest(roles, {"cleanup"} \cup Functions_) \notin {"cleanup", "constructor"}
    [] t = "yield" ->
         Nearest(roles, {"cleanup"} \cup Functions_) \notin {"none", "cleanup", "constructor"}
    [] t \in {"super", "supermember"} ->
         Nearest(roles, Functions_) \in {"constructor", "method"}
    [] OTHER -> TRUE

\* All keywords in n, which is in places of the given roles, are in place.
\* The end of a constructor returns the object.
RECURSIVE AllInPlace(_, _)
AllInPlace(n, roles) ==
  /\ InPlace(n.t, roles)
  /\ \A i \in DOMAIN n.k :
       LET m == n.k[i]
       IN  IF n.t = "class" /\ i \in {2, 4, 6}
           THEN LET fs == IF i = 2 THEN IF m.t = "empty" THEN <<>> ELSE <<m>> ELSE m.k
                IN  \A f \in DOMAIN fs :
                      LET body == IF i = 2 THEN [fs[f].k[1] EXCEPT !.k = Front(@)] ELSE fs[f].k[1]
                      IN  AllInPlace(body, Append(roles, MemberRole(i)))
           ELSE AllInPlace(m, IF Role(n, i) = "none" THEN roles ELSE Append(roles, Role(n, i)))

\* A program is accepted exactly when every break, continue, return, yield and
\* super of it is where the language allows it: KeywordContext is set for every
\* body and restored after it (src/include/parser.h).
KeywordsInPlace ==
  outcome # "reading" /\ Printed(Sources[source]) =>
    (outcome = "accepted" <=> AllInPlace(Block(Sources[source].ss), <<>>))

\* Every file is read to its end, whatever is in it; only a comment that the
\* end of the file cuts off keeps the lexer reading (consume_comment).
CutOffComment ==
  \E i \in 1 .. Len(text) : StartsAt(i, "//") /\ SpanEnd(i, Chars(text) \ {"\n", "\r"}) > Len(text)

Finishes == <>(lexed # "reading" \/ CutOffComment)
=============================================================================
