------------------------------ MODULE Compiler ------------------------------
(***************************************************************************)
(* From a syntax tree to an instruction block: the Normalizer, the         *)
(* LVarRewriter, the CodeGenerator and the Assembler (src/compiler/).      *)
(***************************************************************************)
EXTENDS Program, Machine, SequencesExt

-----------------------------------------------------------------------------
(* Normalizer                                                              *)

\* visit_function: a body that ends in an expression returns its value, one
\* that does not end in a return or a throw returns null.
ImplicitReturn(ss) ==
  CASE ss = <<>> -> <<ReturnNode(Lit(Null))>>
    [] ss # <<>> /\ YieldsValue(Last(ss)) /\ Last(ss).t # "yield" ->
         Append(Front(ss), ReturnNode(Last(ss)))
    [] ss # <<>> /\ Last(ss).t \in {"return", "throw"} -> ss
    [] OTHER -> Append(ss, ReturnNode(Lit(Null)))

\* What is put in front of the body: first the default values, for as many
\* parameters as there are arguments missing, then the properties that are
\* initialised, the last first.
Prologue(params) ==
  LET Default(i) == If(Binary("<=", Member(Id("arguments"), "length"), Lit(Num(i - 1))),
                       Block(<<Assign(params[i].s, params[i].k[1])>>))
      Property(i) == [MemberAssign(Self, params[i].s, Id(params[i].s)) EXCEPT !.needed = FALSE]
      all == [i \in DOMAIN params |-> i]
      defaults == SelectSeq(all, LAMBDA i : params[i].k[1].t # "empty")
      selfs    == Reverse(SelectSeq(all, LAMBDA i : params[i].v = True))
  IN  [i \in DOMAIN defaults |-> Default(defaults[i])]
      \o [i \in DOMAIN selfs |-> Property(selfs[i])]

\* visit_identifier: an argument that has a name is replaced by it.
NamedArgument(n, params) ==
  IF n.s \in DOMAIN ArgumentIndex /\ ArgumentIndex[n.s] < Len(params)
  THEN [n EXCEPT !.s = params[ArgumentIndex[n.s] + 1].s]
  ELSE n

\* mark_func_needs_arguments: whether the array of arguments is read.
RECURSIVE NeedsArguments(_)
NeedsArguments(n) ==
  \/ n.t = "id" /\ n.s \in DOMAIN ArgumentIndex \cup {"arguments"}
  \/ \E i \in DOMAIN n.k : n.k[i].t # "function" /\ NeedsArguments(n.k[i])

\* visit_if, visit_ifelse, visit_unless, visit_unlesselse: a negated condition
\* is turned into the opposite statement.
Opposite == [if |-> "unless", ifelse |-> "unlesselse",
             unless |-> "if", unlesselse |-> "ifelse"]

Unnegate(n) ==
  IF n.t \in DOMAIN Opposite /\ n.k[1].t = "unary" /\ n.k[1].s = "!"
  THEN [n EXCEPT !.t = Opposite[n.t], !.k[1] = n.k[1].k[1]]
  ELSE n

\* visit_binary: sums of arrays or strings and repeated strings are folded.
Folded(n) ==
  LET l == n.k[1]
      r == n.k[2]
      Is(m, kind) == m.t = "lit" /\ m.v.k = kind
      Repeated(x, count) == Lit(Str(Repeat(x, count)))
  IN  CASE n.s = "+" /\ l.t = "array" /\ r.t = "array" -> ArrayNode(l.k \o r.k)
        [] n.s = "+" /\ Is(l, "str") /\ Is(r, "str") -> Lit(Str(l.v.s \o r.v.s))
        [] n.s = "*" /\ Is(l, "str") /\ Is(r, "num") -> Repeated(l.v.s, r.v.n)
        [] n.s = "*" /\ Is(l, "num") /\ Is(r, "str") -> Repeated(r.v.s, l.v.n)
        [] OTHER -> n

\* visit_block, its statements being normalised: a named function or class
\* becomes a declaration, literals are dropped, so is what follows a statement
\* that leaves the block, and nobody needs the value of an assignment.
Statements(ss) ==
  LET Declared(n) == IF n.t \in {"function", "class"} /\ n.s # "" THEN Const(n.s, n) ELSE n
      Unused(n)   == IF IsAssignment(n) THEN [n EXCEPT !.needed = FALSE] ELSE n
      kept == SelectSeq([i \in DOMAIN ss |-> Declared(ss[i])], LAMBDA n : ~IsLiteral(n))
      ends == {i \in DOMAIN kept : TerminatesBlock(kept[i])}
      all  == IF ends = {} THEN kept ELSE SubSeq(kept, 1, Min(ends))
  IN  [i \in DOMAIN all |-> Unused(all[i])]

\* visit_class: a class without a superclass and a constructor gets one that
\* takes its properties.
DefaultConstructor(n) ==
  FuncNode("constructor", FALSE,
           [i \in DOMAIN PropsOf(n) |-> Param(PropsOf(n)[i].s, TRUE, Lit(Null))],
           Block(<<ReturnNode(Self)>>))

LacksConstructor(n) ==
  PropsOf(n) # <<>> /\ ParentOf(n).t = "empty" /\ ConstructorOf(n).t = "empty"

\* params are the parameters of the function n is in.
RECURSIVE Normalize(_, _)
Normalize(n, params) ==
  LET ks   == [i \in DOMAIN n.k |-> Normalize(n.k[i], params)]
      body == Normalize([n.k[1] EXCEPT !.k = Prologue(Params(n)) \o ImplicitReturn(@)],
                        Params(n))
  IN  CASE n.t = "function" ->
             [n EXCEPT !.k[1] = body, !.args = @ \/ NeedsArguments(body)]
        [] n.t = "class" /\ LacksConstructor(n) ->
             [n EXCEPT !.k = [ks EXCEPT ![2] = Normalize(DefaultConstructor(n), params)]]
        [] n.t = "id" -> NamedArgument(n, params)
        [] n.t = "binary" -> Folded([n EXCEPT !.k = ks])
        [] n.t = "block" -> [n EXCEPT !.k = Statements(ks)]
        [] OTHER -> Unnegate([n EXCEPT !.k = ks])

\* What the Normalizer reports: of a class, two members of a name, or
\* properties in a subclass whose constructor is missing or never refers to
\* super; a parameter named arguments; yield.
Names(ns) == [i \in DOMAIN ns |-> ns[i].s]

IllegalClass(n) ==
  \/ ~IsInjective(Names(FuncsOf(n) \o PropsOf(n)))
  \/ ~IsInjective(Names(StaticFuncsOf(n) \o StaticsOf(n)))
  \/ /\ PropsOf(n) # <<>> /\ ParentOf(n).t # "empty"
     /\ ConstructorOf(n).t = "empty" \/ ~RefersToSuper(ConstructorOf(n).k[1])

RECURSIVE Illegal(_)
Illegal(n) ==
  \/ n.t = "yield"
  \/ n.t = "function" /\ "arguments" \in Range(Names(Params(n)))
  \/ n.t = "class" /\ IllegalClass(n)
  \/ \E i \in DOMAIN n.k : Illegal(n.k[i])

-----------------------------------------------------------------------------
(* LVarRewriter, with the scopes of lvar-alloc.h.  e holds the functions   *)
(* and the blocks that are open, the innermost last.                       *)

\* A FunctionScope: the number of slots, the inactive and the leaked ones, and
\* of the function n the number of parameters and needs_arguments.
FunctionScope(n) ==
  [count |-> 0, free |-> {}, leaked |-> {}, params |-> Len(Params(n)), args |-> n.args]

\* ignore is allow_const_assignment.
NoScopes == [fns |-> <<>>, scopes |-> <<>>, err |-> FALSE, ignore |-> FALSE]

PushScope(e) ==
  [e EXCEPT !.scopes = Append(@, [fn |-> Len(e.fns), locals |-> <<>>])]

\* Faulty: a slot is reused although a function still refers to it.
MarkAsFree_Leaked(f, locals) ==
  [f EXCEPT !.free = @ \cup {l.slot : l \in Range(locals)}]

\* FunctionScope::mark_as_free for every local of the block: its slot can be
\* reused unless it has been leaked.
MarkAsFree(f, locals) ==
  [f EXCEPT !.free = @ \cup ({l.slot : l \in Range(locals)} \ f.leaked)]

\* LVarRewriter::pop_scope and ~LocalScope
PopScope(e) ==
  LET s == Last(e.scopes)
  IN  [e EXCEPT !.scopes = Front(@), !.fns[s.fn] = MarkAsFree(@, s.locals)]

\* FunctionScope::alloc_slot: the highest inactive slot or a new one.
Slot(f) == IF f.free = {} THEN f.count ELSE Max(f.free)

\* LocalScope::alloc_slot
Alloc(e, x, constant) ==
  LET fn == Len(e.fns)
      i  == Slot(e.fns[fn])
  IN  [e EXCEPT !.fns[fn].count = Max({@, i + 1}),
                !.fns[fn].free = @ \ {i},
                !.scopes[Len(e.scopes)].locals =
                   Append(@, [x |-> x, slot |-> i, constant |-> constant])]

Declares(s, x) == \E l \in Range(s.locals) : l.x = x

\* The scopes in which a lookup of x ends, none for a global.
Holding(e, x) == {i \in DOMAIN e.scopes : Declares(e.scopes[i], x)}

Local(e, x) == CHOOSE l \in Range(e.scopes[Max(Holding(e, x))].locals) : l.x = x

\* Faulty: blocks are counted as well as functions.
Location_Counts_Blocks(e, x) ==
  IF Holding(e, x) = {} THEN [kind |-> "global", level |-> 0, index |-> 0]
  ELSE [kind |-> "frame", index |-> Local(e, x).slot,
        level |-> Len(e.scopes) - Max(Holding(e, x))]

\* LocalScope::access_symbol of a symbol: how many functions lie between the
\* use and the declaration is the level.
Location(e, x) ==
  IF Holding(e, x) = {} THEN [kind |-> "global", level |-> 0, index |-> 0]
  ELSE [kind |-> "frame", index |-> Local(e, x).slot,
        level |-> Len(e.fns) - e.scopes[Max(Holding(e, x))].fn]

\* A slot is leaked when it is accessed from another function.
Access(e, x) ==
  IF Location(e, x).level = 0 THEN e
  ELSE [e EXCEPT !.fns[e.scopes[Max(Holding(e, x))].fn].leaked =
          @ \cup {Location(e, x).index}]

\* LocalScope::access_symbol of a name: an argument by its position is in the
\* slot of its parameter, or in the array of arguments.
NameLocation(e, x) ==
  LET f == Last(e.fns)
      i == ArgumentIndex[x]
  IN  CASE x \notin DOMAIN ArgumentIndex -> Location(e, x)
        [] x \in DOMAIN ArgumentIndex /\ i < f.params ->
             [kind |-> "frame", level |-> 0, index |-> IF f.args THEN i + 1 ELSE i]
        [] OTHER -> [kind |-> "arguments", level |-> 0, index |-> i]

NameAccess(e, x) == IF x \in DOMAIN ArgumentIndex THEN e ELSE Access(e, x)

Error(e) == [e EXCEPT !.err = TRUE]

\* Rewrite(n, e) is the node with its locations and the scopes after it;
\* RewriteAll does the children of a node from the i-th on.
RECURSIVE Rewrite(_, _), RewriteAll(_, _, _)

RewriteAll(n, e, i) ==
  IF i > Len(n.k) THEN [n |-> n, e |-> e]
  ELSE LET r == Rewrite(n.k[i], e)
       IN  RewriteAll([n EXCEPT !.k[i] = r.n], r.e, i + 1)

\* A name is looked up before it is declared, which may leak a slot.
DeclareName(e, x, constant) == Alloc(Access(e, x), x, constant)

\* visit_function: its own slots, the array of arguments and the parameters
\* first.
RewriteFunction(n, e) ==
  LET open   == PushScope([e EXCEPT !.fns = Append(@, FunctionScope(n))])
      array  == IF n.args THEN Alloc(open, "arguments", TRUE) ELSE open
      params == FoldLeft(LAMBDA a, x : DeclareName(a, x.s, FALSE), array, Params(n))
      body   == Rewrite(n.k[1], params)
      count  == Last(body.e.fns).count
  IN  [n |-> [n EXCEPT !.k[1] = body.n, !.lvars = count],
       e |-> [body.e EXCEPT !.fns = Front(@), !.scopes = Front(@)]]

\* visit_block
RewriteBlock(n, e) ==
  LET r == RewriteAll(n, PushScope([e EXCEPT !.ignore = @ \/ n.s = "ignoreconst"]), 1)
  IN  [n |-> r.n, e |-> [PopScope(r.e) EXCEPT !.ignore = e.ignore]]

\* visit_localinitialisation: the variable exists before its initial value is
\* computed; the declaration becomes an assignment.
RewriteLet(n, e) ==
  IF Declares(Last(e.scopes), n.s) THEN [n |-> n, e |-> Error(e)]
  ELSE LET a == DeclareName(e, n.s, n.t = "const")
           r == RewriteAll([n EXCEPT !.t = "assign", !.needed = FALSE,
                                     !.loc = Location(a, n.s)], a, 1)
       IN  IF r.n.k[1].t = "empty" THEN [r EXCEPT !.n.k[1] = Lit(Null)] ELSE r

\* visit_assignment
RewriteAssign(n, e) ==
  IF /\ n.s \notin DOMAIN ArgumentIndex /\ Holding(e, n.s) # {}
     /\ Local(e, n.s).constant /\ ~e.ignore
  THEN [n |-> n, e |-> Error(e)]
  ELSE RewriteAll([n EXCEPT !.loc = NameLocation(e, n.s)], NameAccess(e, n.s), 1)

\* visit_class: the superclass, the functions, and in a scope of their own the
\* static ones and the values of the static properties.
RewriteClass(n, e) ==
  LET statics == [n.k[5] EXCEPT !.k = [i \in DOMAIN @ |-> [@[i] EXCEPT !.t = "static"]]]
      p  == Rewrite(n.k[1], e)
      f  == Rewrite(n.k[4], PushScope(p.e))
      c  == Rewrite(n.k[2], f.e)
      sf == Rewrite(n.k[6], PushScope(PopScope(c.e)))
      sp == Rewrite(statics, sf.e)
  IN  [n |-> [n EXCEPT !.k = <<p.n, c.n, n.k[3], f.n, sp.n, sf.n>>], e |-> PopScope(sp.e)]

\* visit_trycatch: the exception lives in the handler's scope, which is gone
\* when the finally block is visited.
RewriteTry(n, e) ==
  LET b == Rewrite(n.k[1], e)
      s == DeclareName(PushScope(b.e), n.s, FALSE)
      h == Rewrite(n.k[2], s)
      f == Rewrite(n.k[3], PushScope(PopScope(h.e)))
  IN  [n |-> [n EXCEPT !.k = <<b.n, h.n, f.n>>, !.loc = Location(s, n.s)],
       e |-> PopScope(f.e)]

Rewrite(n, e) ==
  CASE n.t = "function" -> RewriteFunction(n, e)
    [] n.t = "class" -> RewriteClass(n, e)
    [] n.t = "block" -> RewriteBlock(n, e)
    [] n.t \in {"let", "const"} -> RewriteLet(n, e)
    [] n.t = "assign" -> RewriteAssign(n, e)
    [] n.t = "id" -> [n |-> [n EXCEPT !.loc = NameLocation(e, n.s)], e |-> NameAccess(e, n.s)]
    [] n.t = "try" -> RewriteTry(n, e)
    [] OTHER -> RewriteAll(n, e, 1)

-----------------------------------------------------------------------------
(* CodeGenerator.  A label is named after the node that reserves it.  The  *)
(* operators below put the code of a node together from that of its        *)
(* children c, at being the path of the node in the tree.                  *)

Label(at, name) == [at |-> at, name |-> name]
NoLabel == Label(<<>>, "none")

Ins(op) == [op |-> op, v |-> Null, to |-> NoLabel, level |-> 0, index |-> 0,
            n |-> 0, s |-> "", d |-> Null, fn |-> Empty]

Place(l)        == <<[Ins("label") EXCEPT !.to = l]>>
BranchTo(op, l) == <<[Ins(op) EXCEPT !.to = l]>>
Named_(op, x)   == <<[Ins(op) EXCEPT !.s = x]>>
Counted(op, n)  == <<[Ins(op) EXCEPT !.n = n]>>

\* visit_null ... visit_boolean: a string of up to six bytes is a value.
PutValue(v) ==
  <<[Ins(IF v.k = "str" /\ Len(v.s) > 6 THEN "putstring" ELSE "putvalue") EXCEPT !.v = v]>>

InFrame(op, loc) == <<[Ins(op) EXCEPT !.level = loc.level, !.index = loc.index]>>

\* codegen_read
ReadFrom(loc, x) ==
  CASE loc.kind = "global" -> Named_("readglobal", x)
    [] loc.kind = "frame" -> InFrame("readlocal", loc)
    [] loc.kind = "arguments" -> InFrame("readlocal", [loc EXCEPT !.index = 0])
                                 \o InFrame("readarrayindex", loc)

\* codegen_write
WriteTo(loc, x, push) ==
  LET Op(op) == IF push THEN op \o "push" ELSE op
  IN  CASE loc.kind = "global" -> Named_(Op("setglobal"), x)
        [] loc.kind = "frame" -> InFrame(Op("setlocal"), loc)
        [] loc.kind = "arguments" -> InFrame("readlocal", [loc EXCEPT !.index = 0])
                                     \o InFrame(Op("setarrayindex"), loc)

\* codegen_cmp_arguments and codegen_cmp_branchunless: a comparison is fused
\* with the branch that skips the block, on the opposite comparison.
OppositeOf ==
  ("<" :> ">=") @@ (">" :> "<=") @@ ("<=" :> ">") @@ (">=" :> "<") @@ ("==" :> "!")
  @@ ("!" :> "==")

SkipUnless(n, c, l) ==
  IF IsComparison(n)
  THEN Front(c) \o <<[Ins("branchcmp") EXCEPT !.s = OppositeOf[n.s], !.to = l]>>
  ELSE c \o BranchTo("branchunless", l)

\* Faulty: values nobody needs stay on the stack.
BlockCode_No_Pop(n, c) == <<Ins("nop")>> \o FlattenSeq(c)

\* visit_block: what a statement leaves on the stack is popped.
BlockCode(n, c) ==
  LET Stmt(i) == IF YieldsValue(n.k[i]) /\ ~IsAssignment(n.k[i])
                 THEN Append(c[i], Ins("pop")) ELSE c[i]
  IN  <<Ins("nop")>> \o FlattenSeq([i \in DOMAIN c |-> Stmt(i)])

\* visit_ifelse and visit_ternaryif
IfElseCode(n, c, at) ==
  SkipUnless(n.k[1], c[1], Label(at, "else")) \o c[2]
  \o BranchTo("branch", Label(at, "end")) \o Place(Label(at, "else")) \o c[3]
  \o Place(Label(at, "end"))

\* visit_if
IfCode(n, c, at) ==
  SkipUnless(n.k[1], c[1], Label(at, "end")) \o c[2] \o Place(Label(at, "end"))

\* visit_unless and visit_unlesselse
UnlessCode(c, at) ==
  c[1] \o BranchTo("branchif", Label(at, "end")) \o c[2] \o Place(Label(at, "end"))

UnlessElseCode(c, at) ==
  c[1] \o BranchTo("branchif", Label(at, "else")) \o c[2]
  \o BranchTo("branch", Label(at, "end")) \o Place(Label(at, "else")) \o c[3]
  \o Place(Label(at, "end"))

\* visit_do_while, visit_do_until
DoCode(n, c, at) ==
  Place(Label(at, "block")) \o c[2] \o Place(Label(at, "condition"))
  \o (IF n.t = "dowhile" THEN SkipUnless(n.k[1], c[1], Label(at, "break"))
      ELSE c[1] \o BranchTo("branchif", Label(at, "break")))
  \o BranchTo("branch", Label(at, "block")) \o Place(Label(at, "break"))

\* visit_while, visit_until, visit_loop
WhileCode(n, c, at) ==
  Place(Label(at, "condition"))
  \o (CASE n.t = "while" -> SkipUnless(n.k[1], c[1], Label(at, "break"))
        [] n.t = "until" -> c[1] \o BranchTo("branchif", Label(at, "break"))
        [] n.t = "loop"  -> <<>>)
  \o Last(c) \o BranchTo("branch", Label(at, "condition")) \o Place(Label(at, "break"))

\* visit_switch: the value is compared with every condition in turn and is
\* popped at the start of the block that is selected.
SwitchCode(n, c, cases, at) ==
  LET Test(i) == FlattenSeq([j \in DOMAIN cases[i].conds |->
                   <<Ins("dup")>> \o cases[i].conds[j]
                   \o Named_("operator", "==")
                   \o BranchTo("branchif", Label(Append(at, i), "case"))])
      Body(i) == Place(Label(Append(at, i), "case")) \o <<Ins("pop")>> \o cases[i].block
                 \o BranchTo("branch", Label(at, "end"))
  IN  c[1] \o FlattenSeq([i \in DOMAIN cases |-> Test(i)])
      \o (IF cases # <<>> THEN BranchTo("branch", Label(at, "default")) ELSE <<>>)
      \o FlattenSeq([i \in DOMAIN cases |-> Body(i)])
      \o Place(Label(at, "default")) \o <<Ins("pop")>> \o c[2] \o Place(Label(at, "end"))

\* visit_and, visit_or
ShortCircuit(op, c, at) ==
  c[1] \o <<Ins("dup")>> \o BranchTo(op, Label(at, "end"))
  \o <<Ins("pop")>> \o c[2] \o Place(Label(at, "end"))

\* visit_trycatch.  Without a handler the exception is stored, the finally
\* block runs and the exception is thrown again; again is that copy of the
\* finally block.
TryCode(n, c, again, at) ==
  BranchTo("registercatchtable", Label(at, "handler"))
  \o c[1] \o <<Ins("popcatchtable")>> \o BranchTo("branch", Label(at, "finally"))
  \o Place(Label(at, "handler")) \o WriteTo(n.loc, n.s, FALSE)
  \o (IF n.k[2].t # "empty" THEN c[2]
      ELSE again \o ReadFrom(n.loc, n.s) \o <<Ins("throw")>>)
  \o Place(Label(at, "finally")) \o c[3]

\* visit_memberassignment ... visit_andindexassignment
AssignMember(n, c) ==
  LET Op(op) == IF n.needed THEN op \o "push" ELSE op
  IN  CASE n.t = "memberassign" -> c[1] \o c[2] \o Named_(Op("setmembersymbol"), n.s)
        [] n.t = "andmember" ->
             c[1] \o <<Ins("dup")>> \o Named_("readmembersymbol", n.s) \o c[2]
             \o Named_("operator", n.v.s) \o Named_(Op("setmembersymbol"), n.s)
        [] n.t = "indexassign" -> c[1] \o c[2] \o c[3] \o <<Ins(Op("setmembervalue"))>>
        [] n.t = "andindex" ->
             c[1] \o c[2] \o Counted("dupn", 2) \o <<Ins("readmembervalue")>> \o c[3]
             \o Named_("operator", n.s) \o <<Ins(Op("setmembervalue"))>>

\* visit_call ... visit_callindex, visit_new: the object a method is called on
\* stays below the method.
CallCode(n, c) ==
  LET From(i) == FlattenSeq(SubSeq(c, i, Len(c)))
  IN  CASE n.t \in {"call", "new"} -> c[1] \o From(2) \o Counted(n.t, Len(c) - 1)
        [] n.t = "callmember" ->
             c[1] \o <<Ins("dup")>> \o Named_("readmembersymbol", n.s) \o From(2)
             \o Counted("callmember", Len(c) - 1)
        [] n.t = "callindex" ->
             c[1] \o <<Ins("dup")>> \o c[2] \o <<Ins("readmembervalue")>> \o From(3)
             \o Counted("callmember", Len(c) - 2)

\* visit_function
FunctionCode(n, at) ==
  LET params == Params(n)
  IN  <<[Ins("putfunction") EXCEPT
           !.to = Label(at, "function"), !.s = n.s, !.fn = n,
           !.d = [argc |-> Len(params), lvarcount |-> n.lvars, anonymous |-> n.v = True,
                  args |-> n.args,
                  minimum |-> Len(SelectSeq(params, LAMBDA p : p.k[1].t = "empty"))]]>>

\* visit_class: names and functions are put on the stack, the static
\* properties are set on the class; values is the code of theirs.
ClassCode(n, c, values) ==
  LET One(m) == IF m.t = "empty" THEN 0 ELSE 1
      Symbols(ns) == FlattenSeq([i \in DOMAIN ns |-> PutValue(Sym(ns[i].s))])
      Static(i) == <<Ins("dup")>> \o values[i] \o Named_("setmembersymbol", StaticsOf(n)[i].s)
  IN  Symbols(PropsOf(n)) \o Symbols(StaticsOf(n)) \o c[4] \o c[6] \o c[1] \o c[2]
      \o <<[Ins("putclass") EXCEPT
              !.s = n.s,
              !.d = [props |-> Len(PropsOf(n)), sprops |-> Len(StaticsOf(n)),
                     funcs |-> Len(FuncsOf(n)), sfuncs |-> Len(StaticFuncsOf(n)),
                     parent |-> One(n.k[1]), constructor |-> One(n.k[2])]]>>
      \o FlattenSeq([i \in DOMAIN values |-> Static(i)])

\* The code of a node.  brk and cont are the tops of break_stack and
\* continue_stack.
RECURSIVE Gen(_, _, _, _)
Gen(n, at, brk, cont) ==
  LET breaks == IF n.t \in Loops THEN Label(at, "break")
                ELSE IF n.t = "switch" THEN Label(at, "end") ELSE brk
      continues == IF n.t \in Loops THEN Label(at, "condition") ELSE cont
      Sub(m, path) == Gen(m, at \o path, breaks, continues)
      c == [i \in DOMAIN n.k |-> Sub(n.k[i], <<i>>)]
      SubCase(i) ==
        LET m == n.k[i]
        IN  [block |-> Sub(m.k[1], <<i, 1>>),
             conds |-> [j \in 1 .. Len(m.k) - 1 |-> Sub(m.k[j + 1], <<i, j + 1>>)]]
      Static(i) == Sub(StaticsOf(n)[i].k[1], <<5, i, 1>>)
  IN  CASE n.t = "empty" -> <<>>
        [] n.t = "lit" -> PutValue(n.v)
        [] n.t = "id" -> ReadFrom(n.loc, n.s)
        [] n.t = "self" -> <<Ins("putself")>>
        [] n.t = "super" -> <<Ins("putsuper")>>
        [] n.t = "supermember" -> Named_("putsupermember", n.s)
        [] n.t = "member" -> c[1] \o Named_("readmembersymbol", n.s)
        [] n.t = "index" -> c[1] \o c[2] \o <<Ins("readmembervalue")>>
        [] n.t = "assign" -> c[1] \o WriteTo(n.loc, n.s, n.needed)
        [] n.t \in {"memberassign", "andmember", "indexassign", "andindex"} -> AssignMember(n, c)
        [] n.t = "unary" -> c[1] \o Named_("unary", n.s)
        [] n.t = "binary" -> c[1] \o c[2] \o Named_("operator", n.s)
        [] n.t = "and" -> ShortCircuit("branchunless", c, at)
        [] n.t = "or" -> ShortCircuit("branchif", c, at)
        [] n.t = "typeof" -> Append(c[1], Ins("typeof"))
        [] n.t \in {"call", "new", "callmember", "callindex"} -> CallCode(n, c)
        [] n.t = "array" -> FlattenSeq(c) \o Counted("putarray", Len(n.k))
        [] n.t = "hash" -> FlattenSeq(c) \o Counted("puthash", Len(n.k))
        [] n.t = "entry" -> c[1] \o PutValue(Sym(n.s))
        [] n.t = "function" -> FunctionCode(n, at)
        [] n.t = "list" -> FlattenSeq(c)
        [] n.t = "class" -> ClassCode(n, c, [i \in DOMAIN StaticsOf(n) |-> Static(i)])
        [] n.t = "block" -> BlockCode(n, c)
        [] n.t = "if" -> IfCode(n, c, at)
        [] n.t \in {"ifelse", "ternary"} -> IfElseCode(n, c, at)
        [] n.t = "unless" -> UnlessCode(c, at)
        [] n.t = "unlesselse" -> UnlessElseCode(c, at)
        [] n.t \in {"dowhile", "dountil"} -> DoCode(n, c, at)
        [] n.t \in {"while", "until", "loop"} -> WhileCode(n, c, at)
        [] n.t = "switch" ->
             SwitchCode(n, [i \in 1 .. 2 |-> Sub(n.k[i], <<i>>)],
                        [i \in 1 .. Len(n.k) - 2 |-> SubCase(i + 2)], at)
        [] n.t = "return" -> Append(c[1], Ins("return"))
        [] n.t = "throw" -> Append(c[1], Ins("throw"))
        [] n.t = "break" -> BranchTo("branch", brk)
        [] n.t = "continue" -> BranchTo("branch", cont)
        [] n.t = "try" -> TryCode(n, c, Sub(n.k[3], <<4>>), at)

\* The functions visit_function queues.
Queued(items) == SelectSeq(items, LAMBDA i : i.op = "putfunction")

\* CodeGenerator::compile: the bodies of queued functions follow, first queued
\* first, where no loop is open.
RECURSIVE GenQueued(_, _)
GenQueued(q, done) ==
  IF q = <<>> THEN done
  ELSE LET f    == Head(q)
           body == Place(f.to) \o Gen(f.fn.k[1], Append(f.to.at, 1), NoLabel, NoLabel)
       IN  GenQueued(Tail(q) \o Queued(body), done \o body)

GenModule(n) ==
  LET top == Gen(n, <<1>>, NoLabel, NoLabel) IN GenQueued(Queued(top), top)

-----------------------------------------------------------------------------
(* Assembler                                                               *)

IsLabel(i) == i.op = "label"

\* The offset each item is written at, the first at o.
RECURSIVE Offsets(_, _)
Offsets(items, o) ==
  IF items = <<>> THEN <<>>
  ELSE <<o>> \o Offsets(Tail(items),
                        IF IsLabel(Head(items)) THEN o ELSE o + Length(Head(items).op))

\* resolve_unresolved_label_references and the write_..._to_label functions:
\* a distance counts from the first byte of the instruction.  A reference to
\* a label nobody places keeps the distance 0.
Assemble(items) ==
  LET off == Offsets(items, 0)
      placed == [l \in {items[i].to : i \in {j \in DOMAIN items : IsLabel(items[j])}} |->
                   off[CHOOSE i \in DOMAIN items : IsLabel(items[i]) /\ items[i].to = l]]
      real == {i \in DOMAIN items : ~IsLabel(items[i])}
      At_(o) == CHOOSE i \in real : off[i] = o
      Resolve(i, o) == IF i.to \in DOMAIN placed THEN placed[i.to] - o ELSE 0
  IN  [o \in {off[i] : i \in real} |->
         LET i == items[At_(o)]
         IN  [op |-> i.op, v |-> i.v, to |-> Resolve(i, o), level |-> i.level,
              index |-> i.index, n |-> i.n, s |-> i.s, d |-> i.d]]

-----------------------------------------------------------------------------
\* Compiler::compile, body being the statements of the module.
Normalized(body) == Normalize(Wrapped(body), <<>>)

Located(body) == Rewrite(Normalized(body), NoScopes)

HasErrors(body) == Illegal(Normalized(body)) \/ Located(body).e.err

Compile(body) == Assemble(GenModule(Located(body).n))
=============================================================================
