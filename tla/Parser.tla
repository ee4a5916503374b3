------------------------------- MODULE Parser -------------------------------
(***************************************************************************)
(* The recursive descent parser (src/compiler/parser.cpp), one operator    *)
(* for a parse method.  A parser state p holds the tokens, the position of *)
(* the current one, the keyword context and whether a SyntaxError has been *)
(* thrown; a method returns the state after it and the node n it made.     *)
(***************************************************************************)
EXTENDS Tokens

\* The left-associative operators, from parse_or to parse_mod: those of a
\* level bind weaker than those of the next.  There is no token for
\* inequality, which is spelled as a binary "!".
Levels == << {"||"}, {"&&"}, {"|"}, {"^"}, {"&"}, {"==", "!"}, {"<", ">", "<=", ">="},
             {"<<", ">>"}, {"+", "-"}, {"*", "/"}, {"%"} >>

-----------------------------------------------------------------------------
(* KeywordContext: which keywords are allowed.                             *)

ModuleContext ==
  [break |-> FALSE, continue |-> FALSE, return |-> TRUE, yield |-> FALSE,
   super |-> FALSE, supermember |-> FALSE]

\* The body of a function and the braces of an arrow function.
FunctionContext == [ModuleContext EXCEPT !.yield = TRUE]

\* A function in a class.
MethodContext(constructor, static) ==
  [FunctionContext EXCEPT !.return = ~constructor, !.yield = ~constructor,
                          !.super = ~static, !.supermember = ~static]

LoopContext(c) == [c EXCEPT !.break = TRUE, !.continue = TRUE]

\* A finally block of a try statement that has no handler.
FinallyContext(c) ==
  [c EXCEPT !.break = FALSE, !.continue = FALSE, !.return = FALSE, !.yield = FALSE]

-----------------------------------------------------------------------------
(* Tokens                                                                  *)

EofToken == [t |-> "Eof", s |-> "", v |-> Null]

Ready(tokens) == [toks |-> tokens, i |-> 1, ctx |-> ModuleContext, err |-> FALSE]

\* Nothing is read after an error.
Cur(p)   == IF p.err THEN EofToken ELSE p.toks[p.i]
On(p, t) == Cur(p).t = t

Result(p, n) == [p |-> p, n |-> n]
Fail(p)      == [p EXCEPT !.err = TRUE]
Failed(p)    == Result(Fail(p), Empty)

Advance(p)    == IF p.i < Len(p.toks) THEN [p EXCEPT !.i = @ + 1] ELSE p
Expect(p, t)  == IF On(p, t) THEN Advance(p) ELSE Fail(p)
Skip(p, t)    == IF On(p, t) THEN Advance(p) ELSE p

\* interpret_keyword_as_identifier: any token whose text is that of a keyword.
InterpretKeyword(p) ==
  IF ~p.err /\ Cur(p).s \in Keywords THEN [p EXCEPT !.toks[p.i].t = "Identifier"] ELSE p

Within(p, c)   == [p EXCEPT !.ctx = c]

\* Faulty: the context is not restored.
Restored_Not(r, p) == r

Restored(r, p) == Result([r.p EXCEPT !.ctx = p.ctx], r.n)

\* wrap_in_block
WrapInBlock(r) == IF r.n.t = "block" THEN r ELSE Result(r.p, Block(<<r.n>>))

\* Methods that call one another do so by name.
RECURSIVE Parsed(_, _), ParseList(_, _), ParseBinary(_, _), ParseRight(_, _), ParseSuffixes(_),
          ParseEntries(_, _), ParseParams(_, _, _), ParseStatements(_, _, _), ParseMembers(_, _),
          ParseCases(_, _, _, _), ParseArms(_, _, _, _, _), ParseIf(_)

-----------------------------------------------------------------------------
(* Expressions                                                             *)

\* One expression, or several separated by commas.
ParseList(p, es) ==
  LET r == Parsed("expression", p)
  IN  IF On(r.p, ",") THEN ParseList(Advance(r.p), Append(es, r.n))
      ELSE Result(r.p, Append(es, r.n))

\* A list that may be empty and ends in a given token.
ParseListUntil(p, end) ==
  IF On(p, end) THEN Result(Advance(p), <<>>)
  ELSE LET r == ParseList(p, <<>>) IN Result(Expect(r.p, end), r.n)

\* The assignment of e to a target; op is the operator of an and-assignment.
AssignTo(p, target, op, e) ==
  LET plain == op = "="
  IN  CASE target.t = "id" ->
             Result(p, Assign(target.s, IF plain THEN e ELSE Binary(op, Id(target.s), e)))
        [] target.t = "member" ->
             Result(p, IF plain THEN MemberAssign(target.k[1], target.s, e)
                       ELSE AndMemberAssign(target.k[1], target.s, op, e))
        [] target.t = "index" ->
             Result(p, IF plain THEN IndexAssign(target.k[1], target.k[2], e)
                       ELSE AndIndexAssign(target.k[1], target.k[2], op, e))
        [] OTHER -> Failed(p)

ParseAssignment(p) ==
  LET l  == Parsed("ternary", p)
      op == Cur(l.p).t
      r  == Parsed("expression", Advance(l.p))
  IN  CASE op \in DOMAIN AndAssignments -> AssignTo(r.p, l.n, AndAssignments[op], r.n)
        [] op = "=" -> AssignTo(r.p, l.n, "=", r.n)
        [] OTHER -> l

\* parse_expression and parse_yield
ParseExpression(p) ==
  IF ~On(p, "yield") THEN ParseAssignment(p)
  ELSE IF ~p.ctx.yield THEN Failed(p)
  ELSE LET r == Parsed("expression", Advance(p)) IN Result(r.p, Yield(r.n))

ParseTernary(p) ==
  LET c == ParseBinary(p, 1)
      a == Parsed("ternary", Advance(c.p))
      b == Parsed("ternary", Expect(a.p, ":"))
  IN  IF On(c.p, "?") THEN Result(b.p, Ternary(c.n, a.n, b.n)) ELSE c

\* Faulty: the operands of one level are grouped from the right.
ParseRight_Associates_Right(l, level) ==
  IF Cur(l.p).t \notin Levels[level] THEN l
  ELSE LET op == Cur(l.p).t
           r  == ParseBinary(Advance(l.p), level)
           n  == CASE op = "||" -> Or(l.n, r.n)
                   [] op = "&&" -> And(l.n, r.n)
                   [] OTHER -> Binary(op, l.n, r.n)
       IN  Result(r.p, n)

\* The loops of parse_or to parse_mod: l is what has been read so far.
ParseRight(l, level) ==
  IF Cur(l.p).t \notin Levels[level] THEN l
  ELSE LET op == Cur(l.p).t
           r  == ParseBinary(Advance(l.p), level + 1)
           n  == CASE op = "||" -> Or(l.n, r.n)
                   [] op = "&&" -> And(l.n, r.n)
                   [] OTHER -> Binary(op, l.n, r.n)
       IN  ParseRight(Result(r.p, n), level)

\* parse_or, parse_and, parse_bitwise_or ... parse_mod
ParseBinary(p, level) ==
  IF level > Len(Levels) THEN Parsed("unary", p)
  ELSE ParseRight(ParseBinary(p, level + 1), level)

ParseUnary(p) ==
  IF Cur(p).t \notin {"+", "-", "!", "~"} THEN Parsed("pow", p)
  ELSE LET r == Parsed("unary", Advance(p)) IN Result(r.p, Unary(Cur(p).t, r.n))

ParsePow(p) ==
  LET l == Parsed("typeof", p)
      r == Parsed("pow", Advance(l.p))
  IN  IF On(l.p, "**") THEN Result(r.p, Binary("**", l.n, r.n)) ELSE l

-----------------------------------------------------------------------------
(* Calls, members and literals                                             *)

\* A call of a member or of an element keeps the object it is called on.
CallOn(target, args) ==
  CASE target.t = "member" -> CallMember(target.k[1], target.s, args)
    [] target.t = "index"  -> CallIndex(target.k[1], target.k[2], args)
    [] OTHER -> Call(target, args)

\* new takes the outermost call that follows it apart again.
NewFrom(r) ==
  LET args(i) == SubSeq(r.n.k, i, Len(r.n.k))
  IN  CASE r.n.t = "call" -> Result(r.p, New(r.n.k[1], args(2)))
        [] r.n.t = "callmember" -> Result(r.p, New(Member(r.n.k[1], r.n.s), args(2)))
        [] r.n.t = "callindex" -> Result(r.p, New(Index(r.n.k[1], r.n.k[2]), args(3)))
        [] OTHER -> Failed(r.p)

\* The part after a point, read on super only where that is allowed.
MemberOf(r) ==
  LET q == InterpretKeyword(Advance(r.p))
      x == Cur(q).s
  IN  IF ~On(q, "Identifier") THEN Failed(q)
      ELSE IF r.n.t # "super" THEN Result(Advance(q), Member(r.n, x))
      ELSE IF q.ctx.supermember THEN Result(Advance(q), SuperMember(x))
      ELSE Failed(q)

\* An index that is a string literal names a member.
IndexOf(r) ==
  LET i == Parsed("expression", Advance(r.p))
      n == IF i.n.t = "lit" /\ i.n.v.k = "str" THEN Member(r.n, i.n.v.s) ELSE Index(r.n, i.n)
  IN  Result(Expect(i.p, "]"), n)

\* The loop of parse_member_call.
ParseSuffixes(r) ==
  CASE On(r.p, "(") -> LET a == ParseListUntil(Advance(r.p), ")")
                       IN  ParseSuffixes(Result(a.p, CallOn(r.n, a.n)))
    [] On(r.p, "[") -> ParseSuffixes(IndexOf(r))
    [] On(r.p, ".") -> ParseSuffixes(MemberOf(r))
    [] OTHER -> r

ParseEntries(p, es) ==
  LET q == InterpretKeyword(p)
      x == Cur(q).s
      a == Advance(q)
      e == IF On(a, ":") THEN Parsed("expression", Advance(a)) ELSE Result(a, Id(x))
      all == Append(es, Entry(x, e.n))
  IN  IF Cur(q).t \notin {"Identifier", "String"} THEN Failed(q)
      ELSE IF On(e.p, ",") THEN ParseEntries(Advance(e.p), all)
      ELSE Result(Expect(e.p, "}"), HashNode(all))

ParseHash(p) ==
  IF On(p, "}") THEN Result(Advance(p), HashNode(<<>>)) ELSE ParseEntries(p, <<>>)

ParseSyscall(p) ==
  LET q == Expect(p, "(")
      a == Advance(q)
      r == IF On(a, ",") THEN ParseList(Advance(a), <<>>) ELSE Result(a, <<>>)
  IN  IF On(q, "String") THEN Result(Expect(r.p, ")"), Syscall(Cur(q).s, r.n)) ELSE Failed(q)

\* What follows the name of a parameter: its default value.  After one that
\* has a default value a parameter without one gets null, in an arrow
\* function it is an error.
ParseDefault(p, arrow, seen) ==
  CASE On(p, "=") -> Parsed("expression", Advance(p))
    [] ~On(p, "=") /\ seen /\ arrow -> Failed(p)
    [] ~On(p, "=") /\ seen /\ ~arrow -> Result(p, Lit(Null))
    [] OTHER -> Result(p, Empty)

\* The parameters of a function or of an arrow function: ps are those before,
\* d is the default value of the last of them.
ParamsAfter(d, arrow, ps) ==
  IF On(d.p, ",") THEN ParseParams(Advance(d.p), arrow, ps) ELSE Result(Expect(d.p, ")"), ps)

ParseParam(p, self, arrow, ps) ==
  LET seen == \E i \in DOMAIN ps : ps[i].k[1].t # "empty"
      d    == ParseDefault(Advance(p), arrow, seen)
  IN  IF ~On(p, "Identifier") \/ \E i \in DOMAIN ps : ps[i].s = Cur(p).s
      THEN Result(Fail(p), <<>>)
      ELSE ParamsAfter(d, arrow, Append(ps, Param(Cur(p).s, self, d.n)))

ParseParams(p, arrow, ps) ==
  LET self == ~arrow /\ On(p, "@")
  IN  ParseParam(IF self THEN Advance(p) ELSE p, self, arrow, ps)

ParseParameters(p, arrow) ==
  CASE ~On(p, "(") -> Result(p, <<>>)
    [] On(p, "(") /\ On(Advance(p), ")") -> Result(Advance(Advance(p)), <<>>)
    [] OTHER -> ParseParams(Advance(p), arrow, <<>>)

ParseBlock(p) ==
  LET r == ParseStatements(Expect(p, "{"), <<>>, "}")
  IN  Result(Expect(r.p, "}"), Block(r.n))

FuncBody(p) ==
  CASE On(p, "{") -> Parsed("block", p)
    [] On(p, "=") -> WrapInBlock(Parsed("control", Advance(p)))
    [] On(p, "}") \/ Cur(p).t \in StartsClassExpression -> Result(p, Block(<<>>))
    [] OTHER -> Failed(p)

\* parse_func, from the name of the function on; its body is in context c.
ParseFunc(p, c) ==
  LET q == InterpretKeyword(p)
      x == IF On(q, "Identifier") THEN Cur(q).s ELSE ""
      a == ParseParameters(Skip(q, "Identifier"), FALSE)
      body == FuncBody(Within(a.p, c))
  IN  Result(Restored(body, p).p, FuncNode(x, FALSE, a.n, body.n))

\* Without braces the body is read in the context around the function.
ParseArrowFunc(p) ==
  LET a == ParseParameters(p, TRUE)
      body == IF On(a.p, "{")
              THEN Restored(Parsed("block", Within(a.p, FunctionContext)), p)
              ELSE WrapInBlock(Parsed("control", a.p))
  IN  Result(body.p, FuncNode("", TRUE, a.n, body.n))
-----------------------------------------------------------------------------
(* Classes                                                                 *)

\* A property of a class: a static one has a value.
ParseProperty(p, static) ==
  LET a == Expect(p, "Identifier")
      e == Parsed("expression", Expect(a, "="))
  IN  IF static THEN Result(Skip(e.p, ";"), Assign(Cur(p).s, e.n))
      ELSE Result(Skip(a, ";"), Id(Cur(p).s))

\* The body of a class.  m holds what has been read: the constructor, the
\* properties and functions of the instances and those of the class.
IsConstructor(f, static) == f.s = "constructor" /\ ~static

AddFunction(m, f, static) ==
  CASE static -> [m EXCEPT !.sfuncs = Append(@, f)]
    [] IsConstructor(f, static) ->
         [m EXCEPT !.constructor = [f EXCEPT !.k[1].k = Append(@, ReturnNode(Self))]]
    [] OTHER -> [m EXCEPT !.funcs = Append(@, f)]

AddProperty(m, x, static) ==
  IF static THEN [m EXCEPT !.sprops = Append(@, x)] ELSE [m EXCEPT !.props = Append(@, x)]

AfterFunction(f, m, static) ==
  LET second == IsConstructor(f.n, static) /\ m.constructor # Empty
  IN  ParseMembers(IF second THEN Fail(f.p) ELSE f.p, AddFunction(m, f.n, static))

AfterProperty(r, m, static) == ParseMembers(r.p, AddProperty(m, r.n, static))

\* A member, after the keyword static.
ParseMember(p, m, static) ==
  LET q == InterpretKeyword(p)
      c == MethodContext(Cur(q).s = "constructor" /\ ~static, static)
  IN  CASE On(p, "property") -> AfterProperty(ParseProperty(Advance(p), static), m, static)
        [] ~On(p, "property") /\ On(q, "Identifier") -> AfterFunction(ParseFunc(q, c), m, static)
        [] OTHER -> Result(Fail(q), m)

ParseMembers(p, m) ==
  IF On(p, "}") \/ p.err THEN Result(p, m)
  ELSE ParseMember(Skip(p, "static"), m, On(p, "static"))

NoMembers == [constructor |-> Empty, props |-> <<>>, funcs |-> <<>>, sprops |-> <<>>, sfuncs |-> <<>>]

\* parse_class, after the keyword.
ClassOf(x, parent, m) ==
  ClassNode(x, parent, m.constructor, m.props, m.funcs, m.sprops, m.sfuncs)

ParseClass(p) ==
  LET x == IF On(p, "Identifier") THEN Cur(p).s ELSE ""
      a == Skip(p, "Identifier")
      parent == IF On(a, "extends") THEN Parsed("expression", Advance(a)) ELSE Result(a, Empty)
      r == ParseMembers(Expect(parent.p, "{"), NoMembers)
  IN  Result(Expect(r.p, "}"), ClassOf(x, parent.n, r.n))

-----------------------------------------------------------------------------
(* Tests, bodies, switch and match                                         *)

\* A test that begins with a parenthesis ends with it.
ParseTest(p) ==
  LET r == Parsed("expression", Skip(p, "("))
  IN  IF On(p, "(") THEN Result(Expect(r.p, ")"), r.n) ELSE r

\* A block, or one control statement wrapped in a block.
ParseBody(p) ==
  IF On(p, "{") THEN Parsed("block", p)
  ELSE LET r == WrapInBlock(Parsed("control", p)) IN Result(Skip(r.p, ";"), r.n)

\* parse_switch_statement from the opening brace on, parse_switch_node
ParseCases(p, test, cases, default) ==
  LET a == Advance(p)
      conds == ParseList(Skip(a, "("), <<>>)
      c == ParseBody(IF On(a, "(") THEN Expect(conds.p, ")") ELSE conds.p)
      d == ParseBody(a)
  IN  CASE On(p, "case") ->
             ParseCases(c.p, test, Append(cases, SwitchNode(c.n, conds.n)), default)
        [] On(p, "default") ->
             ParseCases(IF default = Empty THEN d.p ELSE Fail(d.p), test, cases, d.n)
        [] OTHER -> Result(Expect(p, "}"), Switch(test, cases, default))

ParseSwitch(p) ==
  LET test == ParseTest(p)
      body == Within(test.p, [p.ctx EXCEPT !.break = TRUE])
  IN  Restored(ParseCases(Expect(body, "{"), test.n, <<>>, Empty), p)

\* parse_match_statement from the opening brace on, parse_match_arm.  The arm
\* of the identifier _ is the default.
ParseArms(p, test, x, arms, default) ==
  LET c == Parsed("expression", p)
      a == Expect(c.p, "=>")
      e == IF On(a, "{") THEN Parsed("block", a) ELSE Parsed("expression", a)
      arm == MatchArm(c.n, e.n)
  IN  CASE On(p, "}") \/ p.err -> Result(Expect(p, "}"), Match(test, x, arms, default))
        [] OTHER -> IF c.n = Id("_")
                    THEN ParseArms(IF default = Empty THEN e.p ELSE Fail(e.p),
                                   test, x, arms, arm)
                    ELSE ParseArms(e.p, test, x, Append(arms, arm), default)

ParseMatch(p) ==
  LET test == ParseTest(p)
      named == On(test.p, "->")
      a == Advance(test.p)
      x == IF named THEN Cur(a).s ELSE ""
      b == IF named THEN Expect(a, "Identifier") ELSE test.p
      body == Within(b, [p.ctx EXCEPT !.break = TRUE])
  IN  Restored(ParseArms(Expect(body, "{"), test.n, x, <<>>, Empty), p)

ParseImport(p) == LET r == Parsed("expression", p) IN Result(r.p, Import(r.n))

-----------------------------------------------------------------------------

\* parse_literal, parse_array
ParseLiteral(p) ==
  LET a == Advance(p)
      t == Cur(p).t
      name == InterpretKeyword(a)
      inner == Parsed("expression", a)
      list  == ParseListUntil(a, "]")
      match == ParseMatch(a)
  IN  CASE t = "@" -> IF On(name, "Identifier")
                      THEN Result(Advance(name), Member(Self, Cur(name).s)) ELSE Failed(name)
        [] t = "self"   -> Result(a, Self)
        [] t = "super"  -> IF p.ctx.super THEN Result(a, Super) ELSE Failed(p)
        [] t = "Identifier" -> Result(a, Id(Cur(p).s))
        [] t = "("      -> Result(Expect(inner.p, ")"), inner.n)
        [] t \in {"Number", "String"} -> Result(a, Lit(Cur(p).v))
        [] t = "true"   -> Result(a, Lit(True))
        [] t = "false"  -> Result(a, Lit(False))
        [] t = "null"   -> Result(a, Lit(Null))
        [] t = "NaN"    -> Result(a, Lit(NaN))
        [] t = "["      -> Result(list.p, ArrayNode(list.n))
        [] t = "{"      -> ParseHash(a)
        [] t = "->"     -> ParseArrowFunc(a)
        [] t = "func"   -> ParseFunc(a, FunctionContext)
        [] t = "class"  -> ParseClass(a)
        [] t = "match"  -> IF YieldsValue(match.n) THEN match ELSE Failed(match.p)
        [] t = "import" -> ParseImport(a)
        [] t = "__syscall" -> ParseSyscall(a)
        [] OTHER -> Failed(p)

ParseTypeofNew(p) ==
  LET inner == Parsed("typeof", Advance(p))
  IN  CASE On(p, "typeof") -> Result(inner.p, Typeof(inner.n))
        [] On(p, "new") -> NewFrom(ParseSuffixes(Parsed("literal", Advance(p))))
        [] OTHER -> ParseSuffixes(Parsed("literal", p))

-----------------------------------------------------------------------------
(* Statements                                                              *)

\* parse_control_statement
ParseControl(p) ==
  LET a == Advance(p)
      e == IF On(p, "return") /\ Cur(a).t \in {";", "}", "Eof"}
           THEN Result(a, Lit(Null)) ELSE Parsed("expression", a)
      r == CASE On(p, "return") ->
                  IF p.ctx.return THEN Result(e.p, ReturnNode(e.n)) ELSE Failed(p)
             [] On(p, "break") -> IF p.ctx.break THEN Result(a, BreakNode) ELSE Failed(p)
             [] On(p, "continue") ->
                  IF p.ctx.continue THEN Result(a, ContinueNode) ELSE Failed(p)
             [] On(p, "throw") -> Result(e.p, ThrowNode(e.n))
             [] OTHER -> Parsed("expression", p)
  IN  Result(Skip(r.p, ";"), r.n)

\* parse_if_statement, parse_unless_statement: there is no else after a body
\* without braces, and no "else unless" or "unless ... else if".
ParseIf(p) ==
  LET if   == On(p, "if")
      test == ParseTest(Advance(p))
      then == ParseBody(test.p)
      a    == Advance(then.p)
      else == IF if /\ On(a, "if") THEN WrapInBlock(ParseIf(a)) ELSE ParseBody(a)
      has  == On(test.p, "{") /\ On(then.p, "else")
  IN  Result(IF has THEN else.p ELSE then.p,
             CASE if /\ has   -> IfElse(test.n, then.n, else.n)
               [] if /\ ~has  -> If(test.n, then.n)
               [] ~if /\ has  -> UnlessElse(test.n, then.n, else.n)
               [] ~if /\ ~has -> Unless(test.n, then.n))

\* A body in which break and continue are allowed.
ParseLoopBody(p) == Restored(ParseBody(Within(p, LoopContext(p.ctx))), p)

\* parse_while_statement, parse_until_statement
ParseWhile(p) ==
  LET test == ParseTest(Advance(p))
      body == ParseLoopBody(test.p)
  IN  Result(body.p, IF On(p, "while") THEN While(test.n, body.n) ELSE Until(test.n, body.n))

ParseDo(p) ==
  LET body == ParseLoopBody(Advance(p))
      test == ParseTest(Advance(body.p))
  IN  CASE On(body.p, "while") -> Result(test.p, DoWhile(test.n, body.n))
        [] On(body.p, "until") -> Result(test.p, DoUntil(test.n, body.n))
        [] OTHER -> Failed(body.p)

ParseTry(p) ==
  LET b    == Parsed("block", Advance(p))
      q    == Expect(Advance(b.p), "(")
      h    == Parsed("block", Expect(Expect(q, "Identifier"), ")"))
      f    == Parsed("block", Advance(h.p))
      only == Expect(b.p, "finally")
      fin  == Restored(Parsed("block", Within(only, FinallyContext(p.ctx))), p)
  IN  CASE On(b.p, "catch") /\ On(h.p, "finally")  -> Result(f.p, Try(b.n, Cur(q).s, h.n, f.n))
        [] On(b.p, "catch") /\ ~On(h.p, "finally") -> Result(h.p, Try(b.n, Cur(q).s, h.n, Empty))
        [] OTHER -> Result(fin.p, Try(b.n, "__CHARLY_INTERNAL_EXCEPTION_NAME", Empty, fin.n))

\* A declaration; a variable needs no value.
ParseLet(p) ==
  LET q == Advance(p)
      x == Cur(q).s
      a == Expect(q, "Identifier")
      e == Parsed("expression", Expect(a, "="))
  IN  IF On(p, "let") /\ ~On(a, "=") THEN Result(Skip(a, ";"), Let(x, Empty))
      ELSE Result(Skip(e.p, ";"), IF On(p, "let") THEN Let(x, e.n) ELSE Const(x, e.n))

\* An import of a string literal declares a constant of that name.
ParseImportStatement(p) ==
  LET r == ParseImport(Advance(p))
      source == r.n.k[1]
  IN  IF source.t = "lit" /\ source.v.k = "str" THEN Result(r.p, Const(source.v.s, r.n)) ELSE r

ParseStatement(p) ==
  LET t    == Cur(p).t
      test == ParseTest(Advance(p))
      body == ParseBody(test.p)
      loop == ParseLoopBody(Advance(p))
      ign  == Parsed("block", Advance(p))
  IN  CASE t \in {"let", "const"}   -> ParseLet(p)
        [] t = "import"             -> ParseImportStatement(p)
        [] t \in {"if", "unless"}   -> ParseIf(p)
        [] t = "guard"              -> Result(body.p, Unless(test.n, body.n))
        [] t = "do"                 -> ParseDo(p)
        [] t \in {"while", "until"} -> ParseWhile(p)
        [] t = "loop"               -> Result(loop.p, Loop(loop.n))
        [] t = "try"                -> ParseTry(p)
        [] t = "switch"             -> ParseSwitch(Advance(p))
        [] t = "match"              -> ParseMatch(Advance(p))
        [] t = "ignoreconst"        -> Result(ign.p, IgnoreConst(ign.n.k))
        [] OTHER                    -> Parsed("control", p)

\* The statements up to a closing brace or the end of the file.
ParseStatements(p, ss, end) ==
  IF p.err \/ On(p, end) THEN Result(p, ss)
  ELSE LET r == Parsed("statement", p) IN ParseStatements(r.p, Append(ss, r.n), end)

\* The parse method m, called in state p.
Parsed(m, p) ==
  CASE m = "expression" -> ParseExpression(p)
    [] m = "ternary"    -> ParseTernary(p)
    [] m = "unary"      -> ParseUnary(p)
    [] m = "pow"        -> ParsePow(p)
    [] m = "typeof"     -> ParseTypeofNew(p)
    [] m = "literal"    -> ParseLiteral(p)
    [] m = "block"      -> ParseBlock(p)
    [] m = "control"    -> ParseControl(p)
    [] m = "statement"  -> ParseStatement(p)

\* Parser::parse, parse_program: what the compiler gets of a list of tokens.
Parse(tokens) ==
  LET r == ParseStatements(Ready(tokens), <<>>, "Eof")
  IN  IF r.p.err THEN [ok |-> FALSE, tree |-> Empty] ELSE [ok |-> TRUE, tree |-> Block(r.n)]
=============================================================================
