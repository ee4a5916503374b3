------------------------------ MODULE Program ------------------------------
(***************************************************************************)
(* The syntax trees the parser hands to the compiler (src/include/ast.h):  *)
(* a node has a type t, a name or operator s, a value v, and its children  *)
(* k in the order they are traversed.  Operators are named by their        *)
(* spelling.                                                               *)
(***************************************************************************)
EXTENDS Values, TLC

\* ValueLocation: where a variable lives, set by the LVarRewriter.
Nowhere == [kind |-> "none", level |-> 0, index |-> 0]

\* lvars and args are Function::lvarcount and Function::needs_arguments, needed
\* is yielded_value_needed.
Node(t, s, v, k) ==
  [t |-> t, s |-> s, v |-> v, k |-> k, loc |-> Nowhere, lvars |-> 0, args |-> FALSE,
   needed |-> TRUE]

Empty == Node("empty", "", Null, <<>>)

-----------------------------------------------------------------------------
(* Expressions                                                             *)

Lit(v) == Node("lit", "", v, <<>>)
Id(x)  == Node("id", x, Null, <<>>)
Self   == Node("self", "", Null, <<>>)
Super  == Node("super", "", Null, <<>>)
SuperMember(x) == Node("supermember", x, Null, <<>>)

Member(e, x) == Node("member", x, Null, <<e>>)
Index(e, i)  == Node("index", "", Null, <<e, i>>)

Assign(x, e)            == Node("assign", x, Null, <<e>>)
MemberAssign(o, x, e)   == Node("memberassign", x, Null, <<o, e>>)
IndexAssign(o, i, e)    == Node("indexassign", "", Null, <<o, i, e>>)

\* ANDMemberAssignment and ANDIndexAssignment: the target is evaluated once.
AndMemberAssign(o, x, op, e) == Node("andmember", x, Str(op), <<o, e>>)
AndIndexAssign(o, i, op, e)  == Node("andindex", op, Null, <<o, i, e>>)

Unary(op, e)     == Node("unary", op, Null, <<e>>)
Binary(op, l, r) == Node("binary", op, Null, <<l, r>>)
And(l, r)        == Node("and", "", Null, <<l, r>>)
Or(l, r)         == Node("or", "", Null, <<l, r>>)
Ternary(c, a, b) == Node("ternary", "", Null, <<c, a, b>>)
Typeof(e)        == Node("typeof", "", Null, <<e>>)
Yield(e)         == Node("yield", "", Null, <<e>>)
Import(e)        == Node("import", "", Null, <<e>>)

Call(f, args)          == Node("call", "", Null, <<f>> \o args)
CallMember(o, x, args) == Node("callmember", x, Null, <<o>> \o args)
CallIndex(o, i, args)  == Node("callindex", "", Null, <<o, i>> \o args)
New(c, args)           == Node("new", "", Null, <<c>> \o args)
Syscall(x, args)       == Node("syscall", x, Null, args)

ArrayNode(es)  == Node("array", "", Null, es)
HashNode(ps)   == Node("hash", "", Null, ps)
Entry(key, e)  == Node("entry", key, Null, <<e>>)

\* A parameter: whether it also initialises a property, and its default value
\* or Empty.
Param(x, self, default) == Node("param", x, Bool(self), <<default>>)

\* An arrow function is anonymous.  A function with default values is called
\* with the array of its arguments.
FuncNode(x, anonymous, params, body) ==
  [Node("function", x, Bool(anonymous), <<body>> \o params) EXCEPT
     !.args = \E i \in DOMAIN params : params[i].k[1].t # "empty"]

Params(n) == Tail(n.k)

\* Functions whose parameters are all required.
Func(x, params, body) ==
  FuncNode(x, FALSE, [i \in DOMAIN params |-> Param(params[i], FALSE, Empty)], body)
Arrow(params, body) ==
  FuncNode("", TRUE, [i \in DOMAIN params |-> Param(params[i], FALSE, Empty)], body)

NodeList(ns) == Node("list", "", Null, ns)

\* parent and constructor may be Empty; properties are identifiers, static
\* properties are assignments.
ClassNode(x, parent, constructor, props, funcs, sprops, sfuncs) ==
  Node("class", x, Null, <<parent, constructor, NodeList(props), NodeList(funcs),
                           NodeList(sprops), NodeList(sfuncs)>>)

\* The parts of a class.
ParentOf(n)  == n.k[1]
ConstructorOf(n) == n.k[2]
PropsOf(n)   == n.k[3].k
FuncsOf(n)   == n.k[4].k
StaticsOf(n) == n.k[5].k
StaticFuncsOf(n) == n.k[6].k

\* The names that stand for the arguments of a function by their position.
ArgumentIndex == ("$0" :> 0) @@ ("$1" :> 1) @@ ("$2" :> 2)

-----------------------------------------------------------------------------
(* Statements                                                              *)

Block(ss) == Node("block", "", Null, ss)

\* A block in which constants may be assigned to.
IgnoreConst(ss) == Node("block", "ignoreconst", Null, ss)

\* Parser::assign_default_name
Named(e, x) == IF e.t \in {"function", "class"} /\ e.s = "" THEN [e EXCEPT !.s = x] ELSE e

Let(x, e)        == Node("let", x, Null, <<Named(e, x)>>)
Const(x, e)      == Node("const", x, Null, <<Named(e, x)>>)
If(c, a)         == Node("if", "", Null, <<c, a>>)
IfElse(c, a, b)  == Node("ifelse", "", Null, <<c, a, b>>)
Unless(c, a)     == Node("unless", "", Null, <<c, a>>)
UnlessElse(c, a, b) == Node("unlesselse", "", Null, <<c, a, b>>)
While(c, b)      == Node("while", "", Null, <<c, b>>)
Until(c, b)      == Node("until", "", Null, <<c, b>>)
DoWhile(c, b)    == Node("dowhile", "", Null, <<c, b>>)
DoUntil(c, b)    == Node("dountil", "", Null, <<c, b>>)
Loop(b)          == Node("loop", "", Null, <<b>>)

\* cases holds SwitchNodes; the default block may be Empty.
Switch(c, cases, default) == Node("switch", "", Null, <<c, default>> \o cases)
SwitchNode(block, conds)  == Node("case", "", Null, <<block>> \o conds)

\* x names the value in the arms, "" when it has no name; the default arm may
\* be Empty.
Match(c, x, arms, default) == Node("match", x, Null, <<c, default>> \o arms)
MatchArm(c, e)             == Node("arm", "", Null, <<c, e>>)

\* A try statement: the handler or the finally block may be Empty.
Try(b, x, h, f) == Node("try", x, Null, <<b, h, f>>)
ReturnNode(e)   == Node("return", "", Null, <<e>>)
ThrowNode(e)    == Node("throw", "", Null, <<e>>)
BreakNode       == Node("break", "", Null, <<>>)
ContinueNode    == Node("continue", "", Null, <<>>)

Loops == {"while", "until", "dowhile", "dountil", "loop"}

-----------------------------------------------------------------------------

\* AST::terminates_block
TerminatesBlock(n) == n.t \in {"return", "break", "continue", "throw"}

\* AST::is_literal
IsLiteral(n) == n.t \in {"id", "self", "lit", "function"}

\* AST::is_assignment
IsAssignment(n) == n.t \in {"assign", "memberassign", "andmember", "indexassign", "andindex"}

\* AST::is_comparison
IsComparison(n) == n.t = "binary" /\ n.s \in {"==", "!", "<", ">", "<=", ">="}

\* AST::yields_value, Match::yields_value
YieldsValue(n) ==
  IF n.t = "match" THEN \E i \in 3 .. Len(n.k) : n.k[i].k[2].t # "block"
  ELSE /\ n.needed
       /\ \/ IsAssignment(n) \/ IsLiteral(n)
          \/ n.t \in {"ternary", "unary", "binary", "and", "or", "typeof", "new", "call",
                      "callmember", "callindex", "syscall", "member", "index", "yield",
                      "array", "hash", "class", "import", "super", "supermember"}

\* AST::find_child_nodes as the Normalizer uses it: whether a constructor
\* refers to super outside the functions and classes in it.  Arrow functions
\* are searched.
RECURSIVE RefersToSuper(_)
RefersToSuper(n) ==
  \/ n.t = "super"
  \/ \E i \in DOMAIN n.k :
       LET c == n.k[i]
       IN  c.t # "class" /\ (c.t = "function" => c.v = True) /\ RefersToSuper(c)

\* Compiler::compile wraps the module in a function that receives the object
\* it exports, an empty one, and calls it.
Wrapped(body) ==
  ReturnNode(Call(Func("main", <<"export">>,
                       Block(Append(body, ReturnNode(Id("export"))))),
                  <<HashNode(<<>>)>>))
=============================================================================
