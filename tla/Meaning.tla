------------------------------ MODULE Meaning ------------------------------
(***************************************************************************)
(* What a program means, read off its syntax tree: the reference the       *)
(* compiled code is compared with.  A variable is a cell, one for each     *)
(* declaration and activation of the function it is in; no cell is shared. *)
(*                                                                         *)
(* Running a node in the store st gives its completion c (normal, break,   *)
(* continue, return, throw, or cut when input or output ran out), its      *)
(* value v, and the store and the variables in scope after it.             *)
(***************************************************************************)
EXTENDS Program, Objects, SequencesExt

-----------------------------------------------------------------------------
(* A store has the cells, the heap, the activations of functions with      *)
(* their self and function, the input left and the output so far.  A       *)
(* function on the heap keeps its tree and the variables it was made with. *)

Start(input) ==
  [cells |-> <<>>, heap |-> <<Instance(0, NoFields), Instance(0, NoFields)>>,
   acts |-> <<[self |-> GlobalsObject, fn |-> 0]>>, tape |-> input, trace |-> <<>>]

\* The cell of the declaration at a path in activation a.
Cell(a, at) == [a |-> a, at |-> at]

Put(st, cell, v) == [st EXCEPT !.cells = (cell :> v) @@ @]

\* The name "" stands for the activation.
Activation(env, st) == st.acts[env[""].a]

Done(c, v, env, st) == [c |-> c, v |-> v, env |-> env, st |-> st]

Normal(r) == r.c = "normal"

Added(st, record) == [st EXCEPT !.heap = Append(@, record)]

Latest(kind, st) == Value(kind, Len(st.heap))

Closure(n, at, env, host) ==
  [fields |-> NoFields, name |-> n.s, host |-> host, bound |-> <<>>, at |-> at, env |-> env,
   params |-> Params(n), body |-> n.k[1], anonymous |-> n.v = True,
   minimum |-> Len(SelectSeq(Params(n), LAMBDA p : p.k[1].t = "empty"))]

-----------------------------------------------------------------------------
(* Variables                                                               *)

\* The cell of parameter i of the function in activation a.
ParamCell(st, a, i) == Cell(a, Append(st.heap[st.acts[a].fn].at, i + 1))

\* The cell a name refers to; none is <<>>.
CellOf(x, env, st) ==
  LET act == Activation(env, st)
  IN  CASE x \in DOMAIN ArgumentIndex /\ ArgumentIndex[x] < Len(st.heap[act.fn].params) ->
             <<ParamCell(st, env[""].a, ArgumentIndex[x] + 1)>>
        [] OTHER -> IF x \in DOMAIN env THEN <<env[x]>> ELSE <<>>

ReadName(x, env, st) ==
  LET cell    == CellOf(x, env, st)
      globals == st.heap[GlobalsObject.n].fields
  IN  CASE cell # <<>> -> Done("normal", st.cells[cell[1]], env, st)
        [] cell = <<>> /\ x \in DOMAIN ArgumentIndex ->
             Done("normal", ReadIndex(st.heap, st.cells[env["arguments"]],
                                      Num(ArgumentIndex[x])), env, st)
        [] cell = <<>> /\ x \in DOMAIN Globals -> Done("normal", Globals[x], env, st)
        [] OTHER -> IF x \in DOMAIN globals THEN Done("normal", globals[x], env, st)
                    ELSE Done("throw", InternalError, env, st)

\* The value of r is written to x.
WriteName(x, r) ==
  LET cell == CellOf(x, r.env, r.st)
  IN  IF cell # <<>> THEN [r EXCEPT !.st = Put(@, cell[1], r.v)]
      ELSE IF x \notin DOMAIN Globals /\ x \in DOMAIN r.st.heap[GlobalsObject.n].fields
      THEN [r EXCEPT !.st.heap = WriteMember(@, GlobalsObject, x, r.v)]
      ELSE Done("throw", InternalError, r.env, r.st)

\* A declaration in the activation env is in.
Declare(n, at, env) == (n.s :> Cell(env[""].a, at)) @@ env

-----------------------------------------------------------------------------
(* Expressions                                                             *)

RECURSIVE Run(_, _, _, _), RunAll(_, _, _, _, _, _), Steps(_, _, _, _, _)

\* The expressions n.k[i], n.k[i + 1] ... in order; the value is the sequence of
\* theirs, vs those of the ones before.
RunAll(n, at, i, env, st, vs) ==
  IF i > Len(n.k) THEN Done("normal", vs, env, st)
  ELSE LET r == Run(n.k[i], Append(at, i), env, st)
       IN  IF Normal(r) THEN RunAll(n, at, i + 1, env, r.st, Append(vs, r.v)) ELSE r

\* The first j children only.
RunFirst(n, j, at, env, st) == RunAll([n EXCEPT !.k = SubSeq(@, 1, j)], at, 1, env, st, <<>>)

\* The default values of the parameters from the i-th on, for which there is
\* no argument.
RECURSIVE Defaults(_, _, _, _, _)
Defaults(fn, argc, i, env, st) ==
  IF i > Len(fn.params) THEN Done("normal", Null, env, st)
  ELSE IF i <= argc \/ fn.params[i].k[1].t = "empty" THEN Defaults(fn, argc, i + 1, env, st)
  ELSE LET r == Run(fn.params[i].k[1], fn.at \o <<i + 1, 1>>, env, st)
       IN  IF Normal(r)
           THEN Defaults(fn, argc, i + 1, env, Put(r.st, env[fn.params[i].s], r.v)) ELSE r

\* Parameters written @x set the property x of self.
SetProperties(fn, self, env, st) ==
  FoldLeft(LAMBDA s, p : IF p.v = True
                         THEN [s EXCEPT !.heap = WriteMember(@, self, p.s, s.cells[env[p.s]])]
                         ELSE s,
           st, fn.params)

\* The body of function f, called on self.
Activate(f, self, args, env, st) ==
  LET fn    == st.heap[f]
      a     == Len(st.acts) + 1
      array == Append(fn.at, 0)
      Param_(i) == fn.params[i].s :> Cell(a, Append(fn.at, i + 1))
      scope == FoldLeft(LAMBDA e, i : Param_(i) @@ e,
                        ("" :> Cell(a, <<>>)) @@ ("arguments" :> Cell(a, array)) @@ fn.env,
                        [i \in DOMAIN fn.params |-> i])
      made  == Added([st EXCEPT !.acts = Append(@, [self |-> self, fn |-> f])], ArrayOf(args))
      start == FoldLeft(LAMBDA s, i : Put(s, scope[fn.params[i].s],
                                          IF i <= Len(args) THEN args[i] ELSE Null),
                        Put(made, Cell(a, array), Latest("array", made)),
                        [i \in DOMAIN fn.params |-> i])
      d == Defaults(fn, Len(args), 1, scope, start)
      r == IF Normal(d) THEN Steps(fn.body, Append(fn.at, 1), 1, scope,
                                   SetProperties(fn, self, scope, d.st))
           ELSE d
  IN  Done(IF r.c = "return" THEN "normal" ELSE r.c, r.v, env, r.st)

\* What self is in a call: the value the function is bound to, the object it
\* is called on, or what self was where the function was made.
SelfIn(st, f, target) ==
  LET fn == st.heap[f]
  IN  IF fn.bound # <<>> THEN fn.bound[1]
      ELSE IF target = <<>> \/ fn.anonymous THEN Activation(fn.env, st).self
      ELSE target[1]

\* A call of f on the target, if there is one.  The variables of the caller
\* come back.
Apply(f, target, args, env, st) ==
  CASE f = In /\ st.tape = <<>> -> Done("cut", Null, env, st)
    [] f = In /\ st.tape # <<>> ->
         Done("normal", Head(st.tape), env, [st EXCEPT !.tape = Tail(@)])
    [] f = Out /\ Len(args) > 0 ->
         IF Len(st.trace) = MaxOut THEN Done("cut", Null, env, st)
         ELSE Done("normal", Null, env, [st EXCEPT !.trace = Append(@, Shown(args[1]))])
    [] f.k = "function" /\ Len(args) >= st.heap[f.n].minimum ->
         Activate(f.n, SelfIn(st, f.n, target), args, env, st)
    [] OTHER -> Done("throw", InternalError, env, st)

\* new: the properties are null before the constructor runs.
Instantiate(c, args, env, st) ==
  LET made   == Added(st, Instance(c.n, MemberProperties(st.heap, c.n)))
      object == Latest("object", made)
      f      == FindConstructor(st.heap, c.n)
  IN  IF c.k # "class" THEN Done("throw", InternalError, env, st)
      ELSE IF f = Null THEN Done("normal", object, env, made)
      ELSE Apply(f, <<object>>, args, env, made)

\* What is called is known before the arguments are.
RunCall(n, at, env, st) ==
  LET j == IF n.t = "callindex" THEN 2 ELSE 1
      t == RunFirst(n, j, at, env, st)
      f == CASE n.t = "call" -> t.v[1]
             [] n.t = "callmember" -> ReadMember(t.st.heap, t.v[1], n.s)
             [] n.t = "callindex" -> ReadAt(t.st.heap, t.v[1], t.v[2])
      a == RunAll(n, at, j + 1, env, t.st, <<>>)
  IN  CASE ~Normal(t) -> t
        [] Normal(t) /\ ~Normal(a) -> a
        [] OTHER -> IF n.t = "new" THEN Instantiate(t.v[1], a.v, env, a.st)
                    ELSE Apply(f, IF n.t = "call" THEN <<>> ELSE <<t.v[1]>>, a.v, env, a.st)

\* An assignment to a member or an index, of a value or of an operation on
\* what was there when its right side was evaluated.
RunMemberAssign(n, at, env, st) ==
  LET member == n.t \in {"memberassign", "andmember"}
      op  == CASE n.t = "andmember" -> n.v.s [] n.t = "andindex" -> n.s [] OTHER -> ""
      t   == RunFirst(n, Len(n.k) - 1, at, env, st)
      old == IF member THEN ReadMember(t.st.heap, t.v[1], n.s)
             ELSE ReadAt(t.st.heap, t.v[1], t.v[2])
      e   == Run(Last(n.k), Append(at, Len(n.k)), env, t.st)
      h   == IF op = "" THEN e.st.heap ELSE HeapAfter(e.st.heap, op, old, e.v)
      new == IF op = "" THEN e.v ELSE Operate(e.st.heap, op, old, e.v)
  IN  CASE ~Normal(t) -> t
        [] Normal(t) /\ ~Normal(e) -> e
        [] OTHER ->
             Done("normal", IF member THEN new ELSE WriteYields(h, t.v[1], t.v[2], new), env,
                  [e.st EXCEPT !.heap = IF member THEN WriteMember(h, t.v[1], n.s, new)
                                        ELSE WriteAt(h, t.v[1], t.v[2], new)])

\* super in a method of class c: the constructor or the method of its parent,
\* or another member of it, called on the same self.
RunSuper(n, env, st) ==
  LET act    == Activation(env, st)
      fn     == st.heap[act.fn]
      parent == st.heap[fn.host].parent
      found  == FindValue(st.heap, parent, IF n.t = "super" THEN fn.name ELSE n.s)
      v == IF n.t = "super" /\ fn.name = "constructor" THEN FindConstructor(st.heap, parent)
           ELSE IF found = <<>> THEN Null ELSE found[1]
      made == Added(st, [st.heap[v.n] EXCEPT !.bound = <<act.self>>])
  IN  IF v.k = "function" THEN Done("normal", Latest("function", made), env, made)
      ELSE Done("normal", v, env, st)

\* The class with the given parent: the functions are followed on the heap by
\* the prototype and the class.  A class that only declares properties is
\* constructed from their values.
MakeClass(n, at, env, parent, st) ==
  LET Property(i) == Param(PropsOf(n)[i].s, TRUE, Lit(Null))
      constructor ==
        IF ConstructorOf(n).t = "empty" /\ ParentOf(n).t = "empty" /\ PropsOf(n) # <<>>
        THEN FuncNode("constructor", FALSE, [i \in DOMAIN PropsOf(n) |-> Property(i)],
                      Block(<<ReturnNode(Self)>>))
        ELSE ConstructorOf(n)
      funcs   == FuncsOf(n)
      sfuncs  == StaticFuncsOf(n)
      all     == funcs \o sfuncs \o (IF constructor.t = "empty" THEN <<>> ELSE <<constructor>>)
      paths   == [i \in DOMAIN funcs |-> <<4, i>>] \o [i \in DOMAIN sfuncs |-> <<6, i>>]
                 \o <<<<2>>>>
      base    == Len(st.heap)
      c       == base + Len(all) + 2
      F(i)    == Value("function", base + i)
      methods == [i \in DOMAIN funcs |-> F(i)]
      statics == [i \in DOMAIN sfuncs |-> F(Len(funcs) + i)]
      class   == [name |-> n.s, parent |-> parent, proto |-> c - 1,
                  constructor |-> IF constructor.t = "empty" THEN Null ELSE F(Len(all)),
                  props |-> {p.s : p \in Range(PropsOf(n))},
                  fields |-> FieldsOf([i \in DOMAIN StaticsOf(n) |-> StaticsOf(n)[i].s]
                                        \o [i \in DOMAIN sfuncs |-> sfuncs[i].s],
                                      [i \in DOMAIN StaticsOf(n) |-> Null] \o statics)]
  IN  [st EXCEPT !.heap =
         @ \o [i \in DOMAIN all |-> Closure(all[i], at \o paths[i], env, c)]
           \o <<Instance(0, FieldsOf([i \in DOMAIN funcs |-> funcs[i].s], methods)), class>>]

\* The values of the static properties, in order, in the new class.
RECURSIVE RunStatics(_, _, _, _, _, _)
RunStatics(n, at, i, class, env, st) ==
  IF i > Len(StaticsOf(n)) THEN Done("normal", class, env, st)
  ELSE LET r == Run(StaticsOf(n)[i].k[1], at \o <<5, i, 1>>, env, st)
       IN  IF ~Normal(r) THEN r
           ELSE RunStatics(n, at, i + 1, class, env,
                           [r.st EXCEPT !.heap = WriteMember(@, class, StaticsOf(n)[i].s, r.v)])

RunClass(n, at, env, st) ==
  LET p    == Run(ParentOf(n), Append(at, 1), env, st)
      made == MakeClass(n, at, env, IF ParentOf(n).t = "empty" THEN 0 ELSE p.v.n, p.st)
  IN  IF ~Normal(p) THEN p
      ELSE IF ParentOf(n).t # "empty" /\ p.v.k # "class"
      THEN Done("throw", InternalError, env, p.st)
      ELSE RunStatics(n, at, 1, Latest("class", made), env, made)

-----------------------------------------------------------------------------
(* Statements                                                              *)

\* A named function or class that is a statement declares its name.
Statement(n) == IF n.t \in {"function", "class"} /\ n.s # "" THEN Const(n.s, n) ELSE n

\* Statements, each with the variables declared before it.  The value is that
\* of the last one when it is an expression.
Steps(n, at, i, env, st) ==
  IF i > Len(n.k) THEN Done("normal", Null, env, st)
  ELSE LET r == Run(Statement(n.k[i]), Append(at, i), env, st)
       IN  IF Normal(r) /\ i < Len(n.k) THEN Steps(n, at, i + 1, r.env, r.st)
           ELSE IF Normal(r) /\ ~YieldsValue(n.k[i]) THEN [r EXCEPT !.v = Null]
           ELSE r

\* Whether the loop goes on after its condition.
GoesOn(n, v) == IF n.t \in {"while", "dowhile"} THEN Truthy(v) ELSE ~Truthy(v)

\* A loop, from its condition (test) or from its body.
RECURSIVE Iterate(_, _, _, _, _)
Iterate(n, at, test, env, st) ==
  IF test /\ n.t # "loop"
  THEN LET r == Run(n.k[1], Append(at, 1), env, st)
       IN  IF Normal(r) /\ GoesOn(n, r.v) THEN Iterate(n, at, FALSE, env, r.st)
           ELSE IF Normal(r) THEN Done("normal", Null, env, r.st) ELSE r
  ELSE LET r == Run(Last(n.k), Append(at, Len(n.k)), env, st)
       IN  IF r.c \in {"normal", "continue"} THEN Iterate(n, at, TRUE, env, r.st)
           ELSE IF r.c = "break" THEN Done("normal", Null, env, r.st)
           ELSE [r EXCEPT !.env = env]

\* A switch on v: the first case from the i-th on with a condition equal to v.
RECURSIVE Select(_, _, _, _, _, _, _)
Select(n, at, i, j, v, env, st) ==
  IF i > Len(n.k) THEN Run(n.k[2], Append(at, 2), env, st)
  ELSE IF j > Len(n.k[i].k) THEN Select(n, at, i + 1, 2, v, env, st)
  ELSE LET r == Run(n.k[i].k[j], at \o <<i, j>>, env, st)
       IN  IF ~Normal(r) THEN r
           ELSE IF Equal(r.st.heap, v, r.v) THEN Run(n.k[i].k[1], at \o <<i, 1>>, env, r.st)
           ELSE Select(n, at, i, j + 1, v, env, r.st)

\* try: the handler for an exception, then the finally block whatever
\* happened; what the finally block does prevails.
RunTry(n, at, env, st) ==
  LET b == Run(n.k[1], Append(at, 1), env, st)
      caught == b.c = "throw" /\ n.k[2].t # "empty"
      h == IF caught THEN Run(n.k[2], Append(at, 2), Declare(n, at, env),
                              Put(b.st, Cell(env[""].a, at), b.v))
           ELSE b
      f == Run(n.k[3], Append(at, 3), env, h.st)
  IN  IF h.c = "cut" \/ n.k[3].t = "empty" THEN [h EXCEPT !.env = env]
      ELSE IF Normal(f) THEN [h EXCEPT !.env = env, !.st = f.st]
      ELSE f

Run(n, at, env, st) ==
  LET \* the first child, and the i-th in the store after it
      r == Run(n.k[1], Append(at, 1), env, st)
      Then(i) == [Run(n.k[i], Append(at, i), env, r.st) EXCEPT !.env = env]
      Nothing == Done("normal", Null, env, r.st)
      After(x) == IF Normal(r) THEN x ELSE r
      \* all children, and what is made of their values
      all == RunAll(n, at, 1, env, st, <<>>)
      Made(kind, record) ==
        IF Normal(all) THEN Done("normal", Value(kind, Len(all.st.heap) + 1), env,
                                 Added(all.st, record))
        ELSE all
  IN  CASE n.t = "empty" -> Done("normal", Null, env, st)
        [] n.t = "lit" -> Done("normal", n.v, env, st)
        [] n.t = "id" -> ReadName(n.s, env, st)
        [] n.t = "self" -> Done("normal", Activation(env, st).self, env, st)
        [] n.t \in {"super", "supermember"} -> RunSuper(n, env, st)
        [] n.t = "function" ->
             LET made == Added(st, Closure(n, at, env, 0))
             IN  Done("normal", Latest("function", made), env, made)
        [] n.t = "class" -> RunClass(n, at, env, st)
        [] n.t = "array" -> Made("array", ArrayOf(all.v))
        [] n.t = "hash" ->
             Made("object", Instance(0, FieldsOf([i \in DOMAIN n.k |-> n.k[i].s], all.v)))
        [] n.t = "entry" -> r
        [] n.t = "member" -> After([r EXCEPT !.v = ReadMember(r.st.heap, @, n.s)])
        [] n.t = "index" ->
             IF Normal(all) THEN [all EXCEPT !.v = ReadAt(all.st.heap, @[1], @[2])] ELSE all
        [] n.t = "unary" -> After([r EXCEPT !.v = UnaryOf(n.s, @)])
        [] n.t = "binary" ->
             IF Normal(all)
             THEN LET h == all.st.heap
                  IN  [all EXCEPT !.v = Operate(h, n.s, @[1], @[2]),
                                  !.st.heap = HeapAfter(h, n.s, all.v[1], all.v[2])]
             ELSE all
        [] n.t = "typeof" -> After([r EXCEPT !.v = Str(TypeString(@))])
        [] n.t = "and" -> After(IF Truthy(r.v) THEN Then(2) ELSE r)
        [] n.t = "or" -> After(IF Truthy(r.v) THEN r ELSE Then(2))
        [] n.t = "assign" -> After(WriteName(n.s, [r EXCEPT !.env = env]))
        [] n.t \in {"memberassign", "andmember", "indexassign", "andindex"} ->
             RunMemberAssign(n, at, env, st)
        [] n.t \in {"call", "callmember", "callindex", "new"} -> RunCall(n, at, env, st)
        [] n.t \in {"let", "const"} ->
             LET e == Declare(n, at, env)
                 i == Run(n.k[1], Append(at, 1), e, st)
             IN  IF Normal(i) THEN Done("normal", i.v, e, Put(i.st, e[n.s], i.v)) ELSE i
        [] n.t = "block" -> [Steps(n, at, 1, env, st) EXCEPT !.env = env]
        [] n.t = "if" -> After(IF Truthy(r.v) THEN Then(2) ELSE Nothing)
        [] n.t = "unless" -> After(IF Truthy(r.v) THEN Nothing ELSE Then(2))
        [] n.t \in {"ifelse", "ternary"} -> After(IF Truthy(r.v) THEN Then(2) ELSE Then(3))
        [] n.t = "unlesselse" -> After(IF Truthy(r.v) THEN Then(3) ELSE Then(2))
        [] n.t \in {"while", "until", "loop"} -> Iterate(n, at, TRUE, env, st)
        [] n.t \in {"dowhile", "dountil"} -> Iterate(n, at, FALSE, env, st)
        [] n.t = "switch" ->
             After(LET s == [Select(n, at, 3, 2, r.v, env, r.st) EXCEPT !.env = env]
                   IN  IF s.c = "break" THEN [s EXCEPT !.c = "normal"] ELSE s)
        [] n.t = "return" -> After([r EXCEPT !.c = "return"])
        [] n.t = "throw" -> After([r EXCEPT !.c = "throw"])
        [] n.t \in {"break", "continue"} -> Done(n.t, Null, env, st)
        [] n.t = "try" -> RunTry(n, at, env, st)

-----------------------------------------------------------------------------
\* What a module does with an input: how it ends, with which value, and what
\* it has put out.
MeaningOf(body, input) ==
  LET r == Run(Wrapped(body), <<1>>, "" :> Cell(1, <<>>), Start(input))
  IN  [status |-> CASE r.c = "return" -> "done"
                    [] r.c = "throw"  -> "uncaught"
                    [] r.c = "cut"    -> "cut",
       result |-> IF r.c = "cut" THEN Null ELSE Shown(r.v),
       trace  |-> r.st.trace]
=============================================================================
