----------------------------- MODULE MCPipeline -----------------------------
(***************************************************************************)
(* The programs the compiler and the VM are checked with: every statement  *)
(* nested in every other, around every way to leave it, and hand-picked    *)
(* ones about variables, calls, objects and classes.                       *)
(***************************************************************************)
EXTENDS Pipeline

B(ss)     == Block(ss)
N(n)      == Lit(Num(n))
InCall    == Call(Id("in"), <<>>)
OutCall(e) == Call(Id("out"), <<e>>)
Lambda(ss) == Func("", <<>>, B(ss))
LetFn(f, ss) == Let(f, Lambda(ss))
CallOf(f) == Call(Id(f), <<>>)
Scope(ss) == IgnoreConst(ss)
S(s)      == Lit(Str(s))

-----------------------------------------------------------------------------
(* Nested statements                                                       *)

Condition(i) ==
  CASE i = 1 -> InCall
    [] i = 2 -> Unary("!", Binary("<", InCall, N(1)))
    [] i = 3 -> Binary("==", InCall, N(1))
    [] i = 4 -> Binary(">", Or(InCall, N(0)), N(0))
    [] i = 5 -> And(InCall, Ternary(InCall, N(0), N(1)))

\* What the innermost block does.
Leaf(i) ==
  CASE i = 1 -> OutCall(N(1))
    [] i = 2 -> ThrowNode(N(2))
    [] i = 3 -> ReturnNode(N(3))
    [] i = 4 -> BreakNode
    [] i = 5 -> ContinueNode

Leaves == 1 .. 5

\* The i-th statement around s.  Loops consume input or produce output.
Around(i, s, c) ==
  CASE i = 1  -> If(c, B(<<s>>))
    [] i = 2  -> IfElse(c, B(<<OutCall(N(4))>>), B(<<s, OutCall(N(5))>>))
    [] i = 3  -> UnlessElse(c, B(<<s>>), B(<<OutCall(N(5))>>))
    [] i = 4  -> Unless(c, B(<<s, OutCall(N(5))>>))
    [] i = 5  -> While(c, B(<<OutCall(N(6)), s, OutCall(N(7))>>))
    [] i = 6  -> Until(c, B(<<OutCall(N(6)), s>>))
    [] i = 7  -> DoWhile(c, B(<<OutCall(N(6)), s>>))
    [] i = 8  -> DoUntil(c, B(<<s, OutCall(N(7))>>))
    [] i = 9  -> Loop(B(<<OutCall(N(6)), If(InCall, B(<<BreakNode>>)), s>>))
    [] i = 10 -> Switch(InCall, <<SwitchNode(B(<<s, OutCall(N(5))>>), <<N(7), N(1)>>)>>, Empty)
    [] i = 11 -> Switch(InCall, <<SwitchNode(B(<<OutCall(N(4))>>), <<N(1)>>)>>, B(<<s>>))
    [] i = 12 -> Try(B(<<OutCall(N(4)), s>>), "e", B(<<OutCall(Id("e"))>>), Empty)
    [] i = 13 -> Try(B(<<ThrowNode(N(8))>>), "e", B(<<s, OutCall(Id("e"))>>), Empty)
    [] i = 14 -> Try(B(<<s>>), "e", Empty, B(<<OutCall(N(9))>>))
    [] i = 15 -> Try(B(<<OutCall(N(4))>>), "e", B(<<OutCall(Id("e"))>>), B(<<s>>))
    [] i = 16 -> IgnoreConst(<<Const("x", InCall), s, OutCall(Id("x"))>>)
    [] i = 17 -> IgnoreConst(<<Let("y", Lambda(<<s, N(6)>>)), OutCall(CallOf("y"))>>)

Kinds == 1 .. 17

Jumps == {"break", "continue"}

\* Whether n leaves itself with one of the statements in ts.
RECURSIVE LeavesBy(_, _)
LeavesBy(n, ts) ==
  \/ n.t \in ts
  \/ /\ n.t # "function"
     /\ LET inner == CASE n.t \in Loops -> ts \ Jumps
                        [] n.t = "switch" -> ts \ {"break"}
                        [] OTHER -> ts
        IN  \E i \in DOMAIN n.k : LeavesBy(n.k[i], inner)

\* What the compiler is known not to handle (todos.md:344-346): a break or
\* continue out of a try block, and a finally block that is left out by a break,
\* a continue or a return.  A finally block that is left out by an exception in
\* the handler is not named there, and not handled either: the handler's code is
\* not covered by a catchtable (codegenerator.cpp:808-819).
RECURSIVE Handled(_)
Handled(n) ==
  /\ n.t = "try" =>
       /\ ~LeavesBy(n.k[1], Jumps)
       /\ n.k[3].t # "empty" =>
            /\ ~LeavesBy(n.k[1], {"return"})
            /\ ~LeavesBy(n.k[2], Jumps \cup {"return", "throw"})
  /\ \A i \in DOMAIN n.k : Handled(n.k[i])

\* The parser accepts a break only in a loop or a switch and a continue only
\* in a loop, of the same function.
RECURSIVE Legal(_)
Legal(n) ==
  /\ n.t = "function" => ~LeavesBy(n.k[1], Jumps)
  /\ \A i \in DOMAIN n.k : Legal(n.k[i])

\* The two conditions vary with the statements.
Nested(o, i, l) ==
  Around(o, Around(i, Leaf(l), Condition(1 + ((o + i + l) % 5))),
         Condition(1 + ((2 * o + i) % 5)))

NestedIds ==
  {p \in Kinds \X Kinds \X Leaves :
     LET s == Nested(p[1], p[2], p[3]) IN Legal(Lambda(<<s>>)) /\ Handled(s)}

\* The statement in a function whose result is put out.
Module(s) == <<LetFn("f", <<s, N(10)>>), OutCall(CallOf("f")), OutCall(N(11))>>

-----------------------------------------------------------------------------
(* Variables and calls                                                     *)

Show(x) == OutCall(Id(x))

\* A function with parameters, as a statement.
Fun(f, params, ss) == Func(f, params, B(ss))

Variables ==
  << \* a name in an inner block hides the outer one
     <<Let("a", InCall), Scope(<<Let("a", N(2)), Show("a")>>), Show("a")>>,
     \* a closure keeps its variable when the block is left
     <<Let("f", Lit(Null)), Scope(<<Let("a", InCall), Assign("f", Lambda(<<Id("a")>>))>>),
       Scope(<<Let("b", N(2)), Show("b")>>), OutCall(CallOf("f"))>>,
     \* two functions out, written and read
     <<Let("a", InCall), Let("b", N(1)),
       LetFn("f", <<Let("c", N(2)), Lambda(<<Assign("a", Id("c")), Assign("b", Id("a"))>>)>>),
       OutCall(Call(CallOf("f"), <<>>)), Show("a"), Show("b")>>,
     \* arguments beyond the parameters, and too few
     <<Fun("g", <<"x">>, <<Let("y", N(5)), Show("x"), Show("y"), Let("z", Empty), Show("z")>>),
       Call(Id("g"), <<InCall, N(2), N(3)>>), CallOf("g"), OutCall(N(9))>>,
     \* each activation has its own variables
     <<Fun("r", <<"x">>, <<Let("y", InCall), If(Id("y"), B(<<Call(Id("r"), <<N(4)>>)>>)),
                           Show("x"), Id("y")>>),
       OutCall(Call(Id("r"), <<N(3)>>))>>,
     \* a handler cuts the stack of a call that was being prepared
     <<Fun("g", <<"x", "y">>, <<Show("x"), Id("y")>>),
       LetFn("t", <<If(InCall, B(<<ThrowNode(N(6))>>)), N(7)>>),
       Try(B(<<OutCall(Call(Id("g"), <<N(1), CallOf("t")>>))>>), "e",
           B(<<Show("e"), Let("h", N(8)), Show("h"), Show("e")>>), Empty),
       OutCall(N(9))>>,
     \* internal errors, caught and not
     <<Try(B(<<OutCall(Id("missing"))>>), "e", B(<<Show("e")>>), Empty),
       Try(B(<<Call(N(1), <<N(2)>>)>>), "e", B(<<Show("e")>>), B(<<Let("z", N(3)), Show("z")>>)),
       OutCall(Call(Id("out"), <<>>))>>,
     \* the value of an assignment and of functions without a return
     <<Let("x", N(0)), OutCall(Assign("x", InCall)), LetFn("f", <<Assign("x", N(5))>>),
       LetFn("g", <<Let("y", N(1))>>), LetFn("h", <<>>), OutCall(CallOf("f")),
       OutCall(CallOf("g")), OutCall(CallOf("h")), Show("x")>>,
     \* a loop that makes functions
     <<Let("f", Lit(Null)),
       While(InCall, B(<<Let("a", InCall), Unless(Id("f"), B(<<Assign("f", Lambda(<<Id("a")>>))>>))>>)),
       If(Id("f"), B(<<OutCall(CallOf("f"))>>))>>,
     \* a function in a finally block, compiled twice
     <<Let("a", N(1)),
       Try(B(<<If(InCall, B(<<ThrowNode(N(2))>>))>>), "e", Empty,
           B(<<Call(Lambda(<<Show("a"), Assign("a", N(3))>>), <<>>)>>)),
       Show("a")>>,
     \* dead code, literals as statements, values of conditions
     <<N(1), Let("v", Or(InCall, And(InCall, N(4)))), Show("v"),
       OutCall(Ternary(Binary("!", Id("v"), N(1)), Unary("!", Id("v")), Binary(">=", Id("v"), N(1)))),
       LetFn("f", <<ReturnNode(N(1)), OutCall(N(5))>>), OutCall(CallOf("f"))>>,
     \* rejected: a constant is assigned to, a name is declared twice
     <<Fun("g", <<>>, <<N(1)>>), Assign("g", N(2))>>,
     <<Let("a", N(1)), Let("a", N(2))>> >>

-----------------------------------------------------------------------------
(* Objects, classes and operators                                          *)

Method(x, params, ss) == Fun(x, params, ss)
Constructor_(params, ss) == FuncNode("constructor", FALSE, params, B(Append(ss, ReturnNode(Self))))
Property(x) == Id(x)
Required(x) == Param(x, FALSE, Empty)
SelfParam(x) == Param(x, TRUE, Empty)
My(x)       == Member(Self, x)
Caught(ss)  == Try(B(ss), "e", B(<<Show("e")>>), Empty)

Values_ ==
  << \* members, by name and by index
     <<Let("o", HashNode(<<Entry("a", InCall), Entry("b", N(2)), Entry("a", N(3))>>)),
       OutCall(Member(Id("o"), "a")), MemberAssign(Id("o"), "c", Member(Id("o"), "b")),
       OutCall(Index(Id("o"), S("c"))), OutCall(IndexAssign(Id("o"), S("d"), N(5))),
       OutCall(Or(Member(Id("o"), "e"), Member(Id("o"), "d")))>>,
     \* an operation reads its target once, before its right side changes it
     <<Let("o", HashNode(<<Entry("a", N(1)), Entry("k", N(0))>>)),
       OutCall(AndMemberAssign(Id("o"), "a", "+", MemberAssign(Id("o"), "a", N(5)))),
       Let("b", ArrayNode(<<InCall, N(7)>>)),
       AndIndexAssign(Id("b"), AndMemberAssign(Id("o"), "k", "+", N(1)), "*", N(3)),
       OutCall(Index(Id("b"), N(1))), OutCall(Member(Id("o"), "k")),
       AndMemberAssign(Id("o"), "k", "-", N(4)), OutCall(Member(Id("o"), "k"))>>,
     \* elements: the last, one after the last, one beyond
     <<Let("a", ArrayNode(<<N(1), InCall>>)), OutCall(Index(Id("a"), N(-1))),
       OutCall(IndexAssign(Id("a"), N(2), N(9))), OutCall(IndexAssign(Id("a"), N(7), N(8))),
       OutCall(Member(Id("a"), "length"))>>,
     \* sums make a new array, shifts do not; arrays are equal by their elements
     <<Let("a", ArrayNode(<<InCall>>)), Let("b", Binary("+", Id("a"), N(2))),
       Binary("<<", Id("a"), N(3)),
       IfElse(Binary("==", Id("a"), ArrayNode(<<N(1), N(3)>>)), B(<<OutCall(N(1))>>),
              B(<<OutCall(Member(Id("b"), "length"))>>)),
       OutCall(Binary("==", Id("b"), Binary("+", ArrayNode(<<InCall>>), ArrayNode(<<N(2)>>)))),
       OutCall(Binary("!", Id("a"), Id("b")))>>,
     \* arithmetic, and what is not a number
     <<Let("x", InCall), OutCall(Binary("/", N(6), Id("x"))),
       OutCall(Binary("%", Unary("-", N(7)), Binary("+", Id("x"), N(2)))),
       OutCall(Unary("~", Binary("<<", Id("x"), N(3)))),
       OutCall(Binary("**", N(3), Binary("^", Id("x"), N(3))))>>,
     <<Let("x", InCall), OutCall(Binary("-", S("a"), Id("x"))),
       OutCall(Unary("-", Binary("&", N(6), Unary("!", Id("x"))))),
       OutCall(Binary(">>", N(-8), Binary("|", Id("x"), N(2)))),
       OutCall(Binary("+", Binary("*", Id("x"), S("b")), Id("x")))>>,
     \* strings, folded and not
     <<Let("s", S("abcdefgh")), OutCall(Binary("+", Id("s"), Binary("+", S("x"), S("y")))),
       OutCall(Binary("*", S("ab"), N(2))), OutCall(Binary("*", Binary("+", InCall, N(1)), S("ab"))),
       OutCall(Ternary(Binary("<", S("abc"), S("b")), InCall, Index(Id("s"), InCall)))>>,
     \* types
     <<OutCall(Typeof(InCall)), OutCall(Typeof(ArrayNode(<<>>))),
       OutCall(Typeof(Lambda(<<>>))), OutCall(Binary("==", Typeof(Id("in")), Typeof(Lit(Null))))>> >>

Selfs ==
  << \* a method called on its object, and taken from it
     <<MemberAssign(Self, "v", N(4)),
       Let("o", HashNode(<<Entry("v", InCall), Entry("m", Lambda(<<My("v")>>)),
                           Entry("n", Arrow(<<>>, B(<<My("v")>>)))>>)),
       OutCall(CallMember(Id("o"), "m", <<>>)), OutCall(CallIndex(Id("o"), S("n"), <<>>)),
       Let("m", Member(Id("o"), "m")), OutCall(CallOf("m")),
       MemberAssign(Id("m"), "bound_self", HashNode(<<Entry("v", N(6))>>)),
       OutCall(CallMember(Id("o"), "m", <<>>))>>,
     \* an arrow function in a method
     <<Let("o", HashNode(<<Entry("v", N(5)),
              Entry("m", Lambda(<<Let("f", Arrow(<<>>, B(<<My("v")>>))), CallOf("f")>>)),
              Entry("g", Lambda(<<Arrow(<<"x">>, B(<<MemberAssign(Self, "v", Id("x"))>>))>>))>>)),
       OutCall(CallMember(Id("o"), "m", <<>>)),
       Call(CallMember(Id("o"), "g", <<>>), <<InCall>>), OutCall(CallMember(Id("o"), "m", <<>>))>>,
     \* the method is read before its arguments are evaluated
     <<Let("o", HashNode(<<Entry("m", Fun("", <<"x">>, <<Id("x")>>))>>)),
       OutCall(CallMember(Id("o"), "m", <<MemberAssign(Id("o"), "m", InCall)>>)),
       Caught(<<CallMember(Id("o"), "m", <<N(1)>>)>>)>>,
     \* default values, evaluated when they are needed and in order
     <<FuncNode("f", FALSE, <<Required("a"), Param("b", FALSE, InCall),
                              Param("c", FALSE, Binary("+", Id("b"), Id("a")))>>,
                B(<<OutCall(Id("c"))>>)),
       Call(Id("f"), <<N(1)>>), Call(Id("f"), <<N(1), N(2)>>),
       Call(Id("f"), <<N(1), N(2), N(8)>>), Caught(<<CallOf("f")>>)>>,
     \* arguments by position, in their variable or in the array of arguments
     <<Fun("f", <<"a">>, <<OutCall(Id("$1")), Assign("$0", N(7)), OutCall(Id("a")),
                           OutCall(Or(Id("$2"), Index(Id("arguments"), N(0)))),
                           Member(Id("arguments"), "length")>>),
       OutCall(Call(Id("f"), <<InCall, N(6)>>))>>,
     <<Fun("f", <<>>, <<Let("g", Arrow(<<>>, B(<<Id("$0")>>))),
                        Binary("+", Call(Id("g"), <<Id("$0")>>), Member(Id("arguments"), "length"))>>),
       OutCall(Call(Id("f"), <<N(5), InCall>>))>>,
     \* globals: fields of the object module code runs in
     <<Caught(<<OutCall(Assign("g", N(1)))>>), MemberAssign(Self, "g", InCall),
       Assign("g", Binary("+", Id("g"), N(2))), OutCall(Id("g")), OutCall(Assign("g", N(9))),
       OutCall(My("g")), Assign("out", N(1))>>,
     \* a constant in a block that ignores it
     <<Const("a", InCall), IgnoreConst(<<Assign("a", N(2))>>), Show("a")>> >>

Classes ==
  << \* properties, a constructor, methods and what belongs to the class
     <<ClassNode("A", Empty, Constructor_(<<SelfParam("x"), Param("y", FALSE, N(3))>>,
                                          <<MemberAssign(Self, "z", Id("y"))>>),
                 <<Property("x"), Property("z")>>,
                 <<Method("sum", <<>>, <<Binary("+", My("x"), My("z"))>>)>>,
                 <<Assign("made", InCall)>>,
                 <<Method("make", <<"v">>, <<AndMemberAssign(Self, "made", "+", N(1)),
                                             New(Id("A"), <<Id("v")>>)>>)>>),
       OutCall(CallMember(CallMember(Id("A"), "make", <<InCall>>), "sum", <<>>)),
       OutCall(Member(Id("A"), "made")), OutCall(Member(New(Id("A"), <<N(1), N(2)>>), "z")),
       Caught(<<New(Id("A"), <<>>)>>)>>,
     \* a constructor that takes the properties, inherited
     <<ClassNode("P", Empty, Empty, <<Property("a"), Property("b")>>, <<>>, <<>>, <<>>),
       ClassNode("Q", Id("P"), Empty, <<>>, <<>>, <<>>, <<>>),
       Let("q", New(Id("Q"), <<InCall>>)), OutCall(Member(Id("q"), "a")),
       OutCall(Member(Id("q"), "b")), OutCall(Member(Member(Id("q"), "klass"), "name")),
       OutCall(Binary("==", Member(Id("Q"), "parent"), Id("P")))>>,
     \* super in a constructor and in methods
     <<ClassNode("A", Empty, Constructor_(<<SelfParam("x")>>, <<>>), <<Property("x")>>,
                 <<Method("m", <<>>, <<My("x")>>), Method("k", <<>>, <<N(3)>>)>>, <<>>, <<>>),
       ClassNode("B", Id("A"),
                 Constructor_(<<Required("v")>>, <<Call(Super, <<Binary("+", Id("v"), N(1))>>)>>),
                 <<Property("y")>>,
                 <<Method("m", <<>>, <<Binary("*", Call(Super, <<>>), Call(SuperMember("k"), <<>>))>>),
                   Method("n", <<>>, <<Typeof(Super)>>)>>, <<>>, <<>>),
       Let("b", New(Id("B"), <<InCall>>)), OutCall(CallMember(Id("b"), "m", <<>>)),
       OutCall(CallMember(Id("b"), "n", <<>>)), OutCall(Member(Id("b"), "y"))>>,
     \* super refers to the parent of the class the method is written in
     <<ClassNode("A", Empty, Empty, <<>>, <<Method("m", <<>>, <<N(1)>>)>>, <<>>, <<>>),
       ClassNode("B", Id("A"), Empty, <<>>,
                 <<Method("m", <<>>, <<Binary("+", Call(Super, <<>>), N(1))>>)>>, <<>>, <<>>),
       ClassNode("C", Id("B"), Empty, <<>>,
                 <<Method("m", <<>>, <<Binary("+", Call(Super, <<>>), N(5))>>)>>, <<>>, <<>>),
       OutCall(CallMember(New(Id("C"), <<>>), "m", <<>>)), MemberAssign(Id("C"), "name", N(1)),
       OutCall(Member(Id("C"), "name"))>>,
     \* exceptions: what is no class, and a constructor that throws
     <<Caught(<<New(N(1), <<InCall>>)>>),
       Caught(<<ClassNode("D", InCall, Empty, <<>>, <<>>, <<Assign("s", OutCall(N(1)))>>, <<>>)>>),
       ClassNode("E", Empty, Constructor_(<<Required("v")>>,
                                          <<If(Id("v"), B(<<ThrowNode(N(6))>>))>>),
                 <<>>, <<>>, <<>>, <<>>),
       Caught(<<OutCall(ArrayNode(<<N(1), New(Id("E"), <<InCall>>)>>))>>)>>,
     \* a class is a value; its methods are found through the prototype
     <<LetFn("f", <<ClassNode("A", Empty, Empty, <<>>, <<>>, <<Assign("s", N(4))>>, <<>>)>>),
       Let("c", CallOf("f")), OutCall(Member(Id("c"), "s")),
       MemberAssign(Member(Id("c"), "prototype"), "m", Lambda(<<My("v")>>)),
       Let("o", New(Id("c"), <<>>)), MemberAssign(Id("o"), "v", InCall),
       OutCall(CallMember(Id("o"), "m", <<>>)), OutCall(Binary("==", Id("o"), Id("o")))>>,
     \* rejected: a subclass with properties that does not construct its parent
     <<Let("A", N(1)), ClassNode("B", Id("A"), Empty, <<Property("x")>>, <<>>, <<>>, <<>>)>>,
     <<ClassNode("A", Empty, Empty, <<Property("x")>>, <<Method("x", <<>>, <<>>)>>, <<>>, <<>>)>> >>

Chosen == Variables \o Values_ \o Selfs \o Classes

MCPrograms ==
  [p \in NestedIds \cup {<<0, 0, i>> : i \in DOMAIN Chosen} |->
     IF p[1] = 0 THEN Chosen[p[3]] ELSE Module(Nested(p[1], p[2], p[3]))]

\* Programs on which the compiled code and the source disagree.
MCRethrow ==
  << <<Try(B(<<Try(B(<<ThrowNode(N(1))>>), "cleanup", Empty, B(<<Let("y", N(2))>>))>>), "e",
           B(<<Show("e")>>), Empty)>> >>

MCClosure ==
  << <<Let("f", Lit(Null)),
       While(InCall,
             B(<<Scope(<<Let("b", N(2)), If(Id("f"), B(<<OutCall(CallOf("f"))>>))>>),
                 Scope(<<Let("a", N(1)), Assign("f", Lambda(<<Id("a")>>))>>)>>))>> >>

MCInputs == {<<a, b, c>> : a, b, c \in {Num(0), Num(1)}}
=============================================================================
