------------------------------ MODULE Printer ------------------------------
(***************************************************************************)
(* The text of a program, read off its syntax tree: the reference the      *)
(* lexer and the parser are compared with.  In the full style every        *)
(* operand is in parentheses, in the brief one only those that bind weaker *)
(* than their place asks for, and every abbreviation is used.              *)
(***************************************************************************)
EXTENDS Program, SequencesExt

-----------------------------------------------------------------------------
(* Precedence                                                              *)

\* What the places of an expression ask for, the weakest first.
Whole   == 0   \* a whole expression
Choice  == 1   \* a branch of a ternary
Prefix  == 13  \* the operand of a sign
Power   == 14  \* the right side of a power
Operand == 15  \* the left side of a power, what typeof is applied to
Target  == 16  \* what is called or has a member
Atom    == 17

\* The strength of the left-associative operators.
Strength ==
  LET table == << {"||"}, {"&&"}, {"|"}, {"^"}, {"&"}, {"==", "!"}, {"<", ">", "<=", ">="},
                  {"<<", ">>"}, {"+", "-"}, {"*", "/"}, {"%"} >>
  IN  [o \in UNION Range(table) |-> 1 + CHOOSE i \in DOMAIN table : o \in table[i]]

Rank(n) ==
  CASE IsAssignment(n) \/ n.t \in {"yield", "import"} -> Whole
    [] n.t = "ternary" -> Choice
    [] n.t = "or"  -> Strength["||"]
    [] n.t = "and" -> Strength["&&"]
    [] n.t = "binary" -> IF n.s = "**" THEN Power ELSE Strength[n.s]
    [] n.t = "unary" -> Prefix
    [] n.t \in {"typeof", "new"} -> Operand
    [] n.t \in {"call", "callmember", "callindex", "member", "index"} -> Target
    [] OTHER -> Atom

-----------------------------------------------------------------------------
(* Expressions                                                             *)

\* Texts, one after the other, and separated by commas.
Spaced(ts) == FoldLeft(LAMBDA a, b : a \o " " \o b, "", ts)
Commas(ts) == IF ts = <<>> THEN "" ELSE FoldLeft(LAMBDA a, b : a \o "," \o b, Head(ts), Tail(ts))

Quoted(s) == "\"" \o s \o "\""

LitText(v) ==
  CASE v.k = "num" -> ToString(v.n)
    [] v.k = "str" -> Quoted(v.s)
    [] v.k = "nan" -> "NaN"
    [] OTHER -> v.k

AndAssignment(op) == op \o "="

RECURSIVE Text(_, _), StatementText(_, _), FunctionText(_, _, _)

\* n where a strength is asked for.
At_(n, strength, style) ==
  IF Rank(n) < strength \/ (style = "full" /\ strength > Whole)
  THEN "(" \o Text(n, style) \o ")" ELSE Text(n, style)

Arguments(n, from, style) ==
  "(" \o Commas([i \in 1 .. Len(n.k) - from + 1 |-> Text(n.k[from + i - 1], style)]) \o ")"

MemberText(n, style) ==
  CASE n.k[1].t = "self" /\ style = "brief" -> "@" \o n.s
    [] n.k[1].t # "self" /\ style = "brief" -> At_(n.k[1], Target, style) \o "." \o n.s
    [] OTHER -> At_(n.k[1], Target, style) \o "[" \o Quoted(n.s) \o "]"

IndexText(n, style) == At_(n.k[1], Target, style) \o "[" \o Text(n.k[2], style) \o "]"

BlockText(n, style) == "{" \o Spaced([i \in DOMAIN n.k |-> StatementText(n.k[i], style)]) \o "}"

ParamText(p, style) ==
  (IF p.v = True THEN "@" ELSE "") \o p.s
  \o (IF p.k[1].t = "empty" THEN "" ELSE " = " \o Text(p.k[1], style))

\* word is what comes before the parameters.
FunctionText(n, word, style) ==
  word \o "(" \o Commas([i \in DOMAIN Params(n) |-> ParamText(Params(n)[i], style)]) \o ")"
  \o BlockText(n.k[1], style)

\* The constructor returns the object without being told so.
ClassText(n, style) ==
  LET Silent(f) == [f EXCEPT !.k[1].k = Front(@)]
      constructor == IF ConstructorOf(n).t = "empty" THEN ""
                     ELSE FunctionText(Silent(ConstructorOf(n)), "constructor", style)
      Method(f) == FunctionText(f, f.s, style)
  IN  "class " \o n.s
      \o (IF ParentOf(n).t = "empty" THEN "" ELSE " extends " \o Text(ParentOf(n), style))
      \o "{"
      \o Spaced([i \in DOMAIN PropsOf(n) |-> "property " \o PropsOf(n)[i].s \o ";"])
      \o Spaced([i \in DOMAIN StaticsOf(n) |-> "static property " \o StaticsOf(n)[i].s \o " = "
                                               \o Text(StaticsOf(n)[i].k[1], style)])
      \o " " \o constructor
      \o Spaced([i \in DOMAIN FuncsOf(n) |-> Method(FuncsOf(n)[i])])
      \o Spaced([i \in DOMAIN StaticFuncsOf(n) |-> "static " \o Method(StaticFuncsOf(n)[i])])
      \o "}"

\* What the text of n begins with.
RECURSIVE Leftmost(_)
Leftmost(n) ==
  IF n.t \in {"call", "callmember", "callindex", "member", "index", "binary", "and", "or",
              "ternary", "memberassign", "andmember", "indexassign", "andindex"}
  THEN Leftmost(n.k[1]) ELSE n.t

\* A hash where a brace would open a block.
Unbraced(n, style) ==
  IF Leftmost(n) = "hash" THEN "(" \o Text(n, style) \o ")" ELSE Text(n, style)

ArmText(n, style) ==
  Text(n.k[1], style) \o "=>"
  \o (IF n.k[2].t = "block" THEN BlockText(n.k[2], style) ELSE Unbraced(n.k[2], style))

MatchText(n, style) ==
  "match(" \o Text(n.k[1], style) \o ")" \o (IF n.s = "" THEN "" ELSE "-> " \o n.s)
  \o "{" \o Spaced([i \in 1 .. Len(n.k) - 2 |-> ArmText(n.k[i + 2], style)])
  \o (IF n.k[2].t = "empty" THEN "" ELSE " " \o ArmText(n.k[2], style)) \o "}"

Text(n, style) ==
  LET Child(i) == Text(n.k[i], style)
      Infix(op, left, right) == At_(n.k[1], left, style) \o " " \o op \o " "
                                \o At_(n.k[2], right, style)
      LeftInfix(op) == Infix(op, Strength[op], Strength[op] + 1)
      updates == /\ style = "brief" /\ n.k[1].t = "binary" /\ n.k[1].k[1] = Id(n.s)
                 /\ n.k[1].s \in {"+", "-", "*", "/", "%", "**", "&", "|", "^", "<<", ">>"}
  IN  CASE n.t = "lit" -> LitText(n.v)
        [] n.t = "id" -> n.s
        [] n.t \in {"self", "super"} -> n.t
        [] n.t = "supermember" -> "super." \o n.s
        [] n.t = "member" -> MemberText(n, style)
        [] n.t = "index" -> IndexText(n, style)
        [] n.t = "assign" ->
             IF updates THEN n.s \o " " \o AndAssignment(n.k[1].s) \o " " \o Text(n.k[1].k[2], style)
             ELSE n.s \o " = " \o Child(1)
        [] n.t = "memberassign" -> MemberText(n, style) \o " = " \o Child(2)
        [] n.t = "andmember" -> MemberText(n, style) \o " " \o AndAssignment(n.v.s) \o " " \o Child(2)
        [] n.t = "indexassign" -> IndexText(n, style) \o " = " \o Child(3)
        [] n.t = "andindex" -> IndexText(n, style) \o " " \o AndAssignment(n.s) \o " " \o Child(3)
        [] n.t = "unary" -> n.s \o " " \o At_(n.k[1], Prefix, style)
        [] n.t = "binary" -> IF n.s = "**" THEN Infix("**", Operand, Power) ELSE LeftInfix(n.s)
        [] n.t = "and" -> LeftInfix("&&")
        [] n.t = "or" -> LeftInfix("||")
        [] n.t = "ternary" -> At_(n.k[1], Strength["||"], style) \o "?" \o At_(n.k[2], Choice, style)
                              \o ":" \o At_(n.k[3], Choice, style)
        [] n.t = "typeof" -> "typeof " \o At_(n.k[1], Operand, style)
        [] n.t \in {"yield", "import"} -> n.t \o " " \o Child(1)
        [] n.t = "call" -> At_(n.k[1], Target, style) \o Arguments(n, 2, style)
        [] n.t = "callmember" -> MemberText(n, style) \o Arguments(n, 2, style)
        [] n.t = "callindex" -> IndexText(n, style) \o Arguments(n, 3, style)
        [] n.t = "new" -> "new " \o At_(n.k[1], Target, style) \o Arguments(n, 2, style)
        [] n.t = "syscall" ->
             "__syscall(" \o Commas(<<Quoted(n.s)>> \o [i \in DOMAIN n.k |-> Child(i)]) \o ")"
        [] n.t = "array" -> "[" \o Commas([i \in DOMAIN n.k |-> Child(i)]) \o "]"
        [] n.t = "hash" -> "{" \o Commas([i \in DOMAIN n.k |-> Child(i)]) \o "}"
        [] n.t = "entry" -> IF style = "brief" /\ n.k[1] = Id(n.s) THEN n.s
                            ELSE n.s \o ":" \o Child(1)
        [] n.t = "function" -> FunctionText(n, IF n.v = True THEN "->" ELSE "func " \o n.s, style)
        [] n.t = "class" -> ClassText(n, style)
        [] n.t = "match" -> MatchText(n, style)

-----------------------------------------------------------------------------
(* Statements                                                              *)

ExpressionText(n, style) ==
  IF style = "full" \/ Leftmost(n) \in {"match", "import", "hash"}
  THEN "(" \o Text(n, style) \o ")" ELSE Text(n, style)

IsControl(n) == n.t \in {"return", "throw", "break", "continue"} \/ (YieldsValue(n) /\ n.t # "match")

\* A body of one control statement needs no braces.
BodyText(n, style) ==
  IF style = "brief" /\ Len(n.k) = 1 /\ IsControl(n.k[1]) THEN StatementText(n.k[1], style)
  ELSE BlockText(n, style)

TestText(n, style) == "(" \o Text(n, style) \o ")"

ElseText(n, style) ==
  IF style = "brief" /\ Len(n.k) = 1 /\ n.k[1].t \in {"if", "ifelse"}
  THEN " else " \o StatementText(n.k[1], style)
  ELSE " else " \o BodyText(n, style)

CaseText(n, style) ==
  "case(" \o Commas([i \in 1 .. Len(n.k) - 1 |-> Text(n.k[i + 1], style)]) \o ")"
  \o BodyText(n.k[1], style)

StatementText(n, style) ==
  LET Test(i)  == TestText(n.k[i], style)
      Body(i)  == BodyText(n.k[i], style)
      Braced(i) == BlockText(n.k[i], style)
  IN  CASE n.t \in {"let", "const"} ->
             n.t \o " " \o n.s
             \o (IF n.k[1].t = "empty" THEN "" ELSE " = " \o Text(n.k[1], style)) \o ";"
        [] n.t = "if" -> "if " \o Test(1) \o Body(2)
        [] n.t = "ifelse" -> "if " \o Test(1) \o Braced(2)
                             \o ElseText(n.k[3], style)
        [] n.t = "unless" -> (IF style = "brief" THEN "guard " ELSE "unless ") \o Test(1) \o Body(2)
        [] n.t = "unlesselse" -> "unless " \o Test(1) \o Braced(2) \o " else " \o Body(3)
        [] n.t \in {"while", "until"} -> n.t \o " " \o Test(1) \o Body(2)
        [] n.t = "dowhile" -> "do " \o Body(2) \o " while " \o Test(1)
        [] n.t = "dountil" -> "do " \o Body(2) \o " until " \o Test(1)
        [] n.t = "loop" -> "loop " \o Body(1)
        [] n.t = "switch" ->
             "switch " \o Test(1) \o "{"
             \o Spaced([i \in 1 .. Len(n.k) - 2 |-> CaseText(n.k[i + 2], style)])
             \o (IF n.k[2].t = "empty" THEN "" ELSE " default " \o Body(2)) \o "}"
        [] n.t = "match" -> MatchText(n, style)
        [] n.t = "try" ->
             "try " \o Braced(1)
             \o (IF n.k[2].t = "empty" THEN "" ELSE "catch(" \o n.s \o ")" \o Braced(2))
             \o (IF n.k[3].t = "empty" THEN "" ELSE "finally" \o Braced(3))
        [] n.t = "block" -> "ignoreconst " \o BlockText(n, style)
        [] n.t = "return" -> IF style = "brief" /\ n.k[1] = Lit(Null) THEN "return;"
                             ELSE "return " \o Text(n.k[1], style) \o ";"
        [] n.t = "throw" -> "throw " \o Text(n.k[1], style) \o ";"
        [] n.t \in {"break", "continue"} -> n.t \o ";"
        [] OTHER -> ExpressionText(n, style) \o ";"

\* A source file.
SourceText(ss, style) == Spaced([i \in DOMAIN ss |-> StatementText(ss[i], style)]) \o "\n"
=============================================================================
