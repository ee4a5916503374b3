----------------------------- MODULE MCFrontend -----------------------------
(***************************************************************************)
(* The source files the lexer and the parser are checked with: every kind  *)
(* of expression as every part of every other, every keyword in every two  *)
(* statements around it, all short runs of operator characters, and        *)
(* hand-picked texts.                                                      *)
(***************************************************************************)
EXTENDS Frontend

B(ss) == Block(ss)
N(n)  == Lit(Num(n))
A     == Id("a")
X     == Id("x")

-----------------------------------------------------------------------------
(* Expressions                                                             *)

\* The expressions with the part e.
Around(e) ==
  << Or(e, X), Or(X, e), And(e, X), And(X, e),
     Binary("|", e, X), Binary("|", X, e), Binary("^", e, X), Binary("^", X, e),
     Binary("&", e, X), Binary("&", X, e), Binary("==", e, X), Binary("!", X, e),
     Binary("<", e, X), Binary(">=", X, e), Binary("<<", e, X), Binary(">>", X, e),
     Binary("+", e, X), Binary("-", X, e), Binary("*", e, X), Binary("/", X, e),
     Binary("%", e, X), Binary("%", X, e), Binary("**", e, X), Binary("**", X, e),
     Unary("-", e), Unary("!", e), Typeof(e),
     Ternary(e, X, N(1)), Ternary(X, e, N(1)), Ternary(X, N(1), e),
     Assign("x", e), MemberAssign(e, "m", X), MemberAssign(X, "m", e), IndexAssign(e, X, N(1)),
     IndexAssign(X, e, N(1)), AndMemberAssign(X, "m", "**", e), AndIndexAssign(X, N(1), "<<", e),
     Member(e, "if"), Index(e, X), Index(X, e), CallMember(e, "m", <<X>>),
     CallMember(Self, "m", <<X, e>>), CallIndex(e, X, <<>>), CallIndex(X, e, <<N(1)>>),
     Call(X, <<e, N(1)>>), New(e, <<X>>), New(X, <<e>>), Import(e), Syscall("s", <<e>>),
     ArrayNode(<<X, e>>), HashNode(<<Entry("x", e), Entry("y", X)>>),
     FuncNode("", FALSE, <<Param("x", FALSE, e), Param("y", TRUE, Lit(Null))>>, B(<<>>)),
     FuncNode("f", FALSE, <<Param("x", TRUE, Empty)>>, B(<<e>>)),
     FuncNode("", TRUE, <<Param("x", FALSE, Empty)>>, B(<<ReturnNode(e)>>)),
     ClassNode("C", e, Empty, <<X>>, <<>>, <<Assign("y", e)>>, <<>>),
     Match(e, "x", <<MatchArm(N(1), e)>>, MatchArm(Id("_"), X)) >>

Leaves == << A, N(0), Lit(NaN), Lit(True), Lit(Str("a")), Self, ArrayNode(<<>>), HashNode(<<>>) >>

\* A member or an element that is called is another kind of call, a string as
\* an index a member.
Expressible(e) ==
  /\ e.t \in {"call"} => e.k[1].t \notin {"member", "index"}
  /\ e.t \in {"index", "indexassign", "callindex"} => ~(e.k[2].t = "lit" /\ e.k[2].v.k = "str")

-----------------------------------------------------------------------------
(* Statements                                                              *)

Made(name, ss) == FuncNode(name, FALSE, <<>>, B(ss))

\* The statements around s that decide about keywords, and all of them.
Scopes(s) ==
  << While(X, B(<<s>>)), Loop(B(<<s>>)), DoUntil(X, B(<<s, A>>)),
     Switch(X, <<SwitchNode(B(<<s>>), <<N(1), A>>)>>, Empty), Switch(X, <<>>, B(<<s>>)),
     Match(X, "", <<MatchArm(N(1), B(<<s>>))>>, Empty),
     Try(B(<<>>), "__CHARLY_INTERNAL_EXCEPTION_NAME", Empty, B(<<s>>)),
     Made("f", <<s>>), Let("x", FuncNode("", TRUE, <<>>, B(<<s>>))),
     ClassNode("C", Empty, Made("constructor", <<s, ReturnNode(Self)>>), <<>>, <<>>, <<>>, <<>>),
     ClassNode("C", X, Empty, <<>>, <<Made("m", <<s>>)>>, <<>>, <<>>),
     ClassNode("C", Empty, Empty, <<>>, <<>>, <<>>, <<Made("m", <<s>>)>>) >>

Within_(s) ==
  Scopes(s) \o
  << If(X, B(<<s>>)), IfElse(X, B(<<s>>), B(<<If(A, B(<<N(1)>>))>>)), IfElse(X, B(<<>>), B(<<s>>)),
     Unless(X, B(<<s>>)), UnlessElse(X, B(<<A>>), B(<<s>>)), Until(X, B(<<s>>)), DoWhile(X, B(<<s>>)),
     Try(B(<<s>>), "e", B(<<>>), Empty), Try(B(<<>>), "e", B(<<s>>), Empty),
     Try(B(<<>>), "e", B(<<>>), B(<<s>>)), IgnoreConst(<<s>>),
     If(X, B(<<While(X, B(<<>>)), s>>)), If(X, B(<<Switch(X, <<>>, B(<<>>)), Made("g", <<A>>), s>>)) >>

Keywords_ ==
  << BreakNode, ContinueNode, ReturnNode(Lit(Null)), Yield(A), Call(Super, <<>>),
     Call(SuperMember("m"), <<A>>), ThrowNode(A), Let("y", Empty), Const("y", N(2)) >>

-----------------------------------------------------------------------------
(* Texts                                                                   *)

Print_(n, style) == [text |-> "", ss |-> <<n>>, style |-> style]
Raw(t)           == [text |-> t, ss |-> <<>>, style |-> "raw"]

OperatorChars == << "<", ">", "=", "-", "*", "&", "/", "@" >>

Chosen ==
  <<"0x1f 0x8 0x7 017 08 9 7 1_0 1.5 1.a 12\n", "0x g\n", "a 0xg", "\"a\\\"b\\n\\q\" @\"if x\" a\n",
   "a \"open", "a @\"open", "\"open", "$1 breaks break_ if1 if $\n", "a.if.while @if\n",
   "a /* x /* y */ z */ b\n", "a /* open", "a // x\r\n b\n", "// open", "a // b", "a\r b\n",
   "# a\n", "a # b\n", "", "\t\n", "a /= b **= c <<= d", "a<-b\n", "let x = class", "{ a b }\n",
   "func f(a, a) {}\n", "->(a = 1, b) {}\n", "a.1\n", "1 = 2\n", "match x { 1 => {} } + 1\n",
   "y = match x { 1 => {} }\n", "y = match x { _ => 1 _ => 2 }\n", "new a\n", "new a.b\n",
   "switch a { default {} default {} }\n", "class { constructor() {} constructor() {} }\n",
   "class { property }\n", "class { m }\n", "__syscall(a)\n", "a(\n", "[1, \n", "{ 1: 2 }\n",
   "do {} if\n", "try {}\n", "import \"a\"\nimport a\n", "if a b\n", "const a\n", "func f a\n",
   "func f = a\n", "x = { if: 1, \"y\": 2 }\n", "a[\"b\"] = 1\n", "super.x\n", "@1\n">>

\* All pairs of numbers up to m and n.
Pairs(m, n) == [i \in 1 .. m * n |-> <<1 + ((i - 1) \div n), 1 + ((i - 1) % n)>>]

\* All operators of three characters, right or not.
Runs ==
  LET n == Len(OperatorChars)
      Char(i) == OperatorChars[1 + (i % n)]
  IN  [i \in 1 .. n * n * n |-> Char(i) \o Char(i \div n) \o Char(i \div (n * n)) \o "\n"]

\* Those that are nested twice alternate in style.
Style(i) == IF i % 2 = 0 THEN "brief" ELSE "full"

Nodes ==
  LET Filled(p) == Around(Leaves[p[1]])[p[2]]
      Nested(p) == Around(Around(A)[p[1]])[p[2]]
      Placed(p) == Within_(Keywords_[p[1]])[p[2]]
      Each(ps, Op(_)) == [i \in DOMAIN ps |-> Op(ps[i])]
      forms  == Len(Around(A))
      placed == Each(Pairs(Len(Keywords_), Len(Within_(A))), Placed)
      Deeper(p) == Scopes(placed[p[1]])[p[2]]
  IN  Each(Pairs(Len(Leaves), forms), Filled) \o Each(Pairs(forms, forms), Nested)
      \o Keywords_ \o placed
      \o Each(Pairs(5 * Len(Within_(A)), Len(Scopes(A))), Deeper)

MCSources ==
  LET nodes == SelectSeq(Nodes, Expressible)
  IN  [i \in DOMAIN nodes |-> Print_(nodes[i], Style(i))]
      \o [i \in DOMAIN Runs |-> Raw(Runs[i])] \o [i \in DOMAIN Chosen |-> Raw(Chosen[i])]
=============================================================================
