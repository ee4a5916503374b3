------------------------------- MODULE Machine -------------------------------
(***************************************************************************)
(* The instructions of the Charly VM: how they move control and data       *)
(* between the operand stack, the heap, the frames and the catchtables     *)
(* (src/vm/vm.cpp).  The code is arbitrary; module Pipeline runs what the  *)
(* compiler produces.                                                      *)
(*                                                                         *)
(* The code maps the offset of an instruction's first byte to a record of  *)
(* its opcode op and its operands: a value v, a distance to, a level and   *)
(* an index, a count n, a name or operator s, and the remaining operands   *)
(* of putfunction and putclass in a record d.                              *)
(***************************************************************************)
EXTENDS Objects

VARIABLES
  code,        \* the instruction block
  ip,          \* offset of the next instruction
  stack,       \* VM::stack, the top last
  frames,      \* every Frame object made
  fp,          \* VM::frames, the current one
  heap,        \* everything else made, see module Objects
  catchstack,  \* VM::catchstack: the catchtables along get_parent()
  status,      \* what run() is at: see Statuses
  result,      \* the value the program ended with
  tape,        \* values the native in() will return
  trace        \* values passed to the native out()

frameVars == <<frames, fp, catchstack>>
endVars   == <<status, result>>
ioVars    == <<tape, trace>>
vars      == <<code, ip, stack, heap, frameVars, endVars, ioVars>>

Statuses ==
  {"run",       \* executing
   "done",      \* the outermost frame has returned
   "uncaught",  \* an exception no catchtable is left for
   "cut"}       \* in() finds no more input, or out() no more space

NoFrame   == 0   \* a null Frame*
NoAddress == -1  \* a null address

GlobalTable == heap[GlobalsObject.n].fields

Instr == code[ip]

\* kInstructionLengths: the opcode, four bytes for a distance, an index, a
\* level or a count, eight for a value or a symbol.
Length(op) ==
  CASE op \in {"nop", "pop", "dup", "swap", "return", "throw", "popcatchtable", "unary",
               "operator", "readmembervalue", "setmembervalue", "setmembervaluepush",
               "putself", "putsuper", "typeof"} -> 1
    [] op \in {"call", "callmember", "new", "registercatchtable", "branch", "branchif",
               "branchunless", "branchcmp", "readarrayindex", "setarrayindex",
               "setarrayindexpush", "putarray", "puthash", "dupn"} -> 1 + 4
    [] op \in {"readlocal", "setlocal", "setlocalpush", "putstring"} -> 1 + 4 + 4
    [] op \in {"readglobal", "setglobal", "setglobalpush", "readmembersymbol",
               "setmembersymbol", "setmembersymbolpush", "putsupermember", "putvalue"} -> 1 + 8
    [] op = "putfunction" -> 1 + 8 + 4 + 2 + 4 + 4 + 4
    [] op = "putclass" -> 1 + 8 + 4 * 4 + 1 + 1

\* The k-th value from the top of the stack, the top k values, the lowest
\* first, and what is below them.
Arg(k)   == stack[Len(stack) - k + 1]
Top(k)   == SubSeq(stack, Len(stack) - k + 1, Len(stack))
Below(k) == SubSeq(stack, 1, Len(stack) - k)

\* How many values an instruction pops.
Pops(i) ==
  CASE i.op \in {"nop", "readlocal", "readglobal", "putvalue", "putstring", "putfunction",
                 "putself", "putsuper", "putsupermember", "registercatchtable",
                 "popcatchtable", "branch", "return"} -> 0
    [] i.op \in {"setlocal", "setlocalpush", "setglobal", "setglobalpush", "pop", "dup",
                 "unary", "typeof", "readmembersymbol", "readarrayindex", "throw",
                 "branchif", "branchunless"} -> 1
    [] i.op \in {"operator", "branchcmp", "swap", "readmembervalue", "setmembersymbol",
                 "setmembersymbolpush", "setarrayindex", "setarrayindexpush"} -> 2
    [] i.op \in {"setmembervalue", "setmembervaluepush"} -> 3
    [] i.op \in {"putarray", "dupn"} -> i.n
    [] i.op = "puthash" -> 2 * i.n
    [] i.op \in {"call", "new"} -> i.n + 1
    [] i.op = "callmember" -> i.n + 2
    [] i.op = "putclass" -> i.d.props + i.d.sprops + i.d.funcs + i.d.sfuncs
                            + i.d.parent + i.d.constructor

Rest == Below(Pops(Instr))

-----------------------------------------------------------------------------
(* Errors                                                                  *)

\* The frame n levels out, along the frames functions were made in; NoFrame
\* when there are not that many.
Outer(n) ==
  LET out[i \in 0 .. n] ==
        IF i = 0 THEN fp
        ELSE IF out[i - 1] = NoFrame THEN NoFrame ELSE frames[out[i - 1]].env
  IN  out[n]

HasLocal ==
  LET f == Outer(Instr.level)
  IN  f # NoFrame /\ Instr.index \in DOMAIN frames[f].locals

\* Arguments of a call, the first first, and what is called.
CallArgs == Top(Instr.n)
Callee   == Arg(Instr.n + 1)

\* How many arguments the called function wants.
MinArgc ==
  IF Callee.k = "function" THEN heap[Callee.n].minimum ELSE NativeArgc(Callee)

Callable == Callee.k \in {"function", "native"} /\ Instr.n >= MinArgc

\* The function new calls on the object it makes, Null for none.
Constructor == FindConstructor(heap, Callee.n)

Constructible ==
  /\ Callee.k = "class"
  /\ Constructor # Null => Instr.n >= heap[Constructor.n].minimum

\* Operands of putclass: the superclass, and the values below it.
ParentArg == Arg(1 + Instr.d.constructor)

Operands ==
  LET d == Instr.d
      below == Below(d.parent + d.constructor)
      At_(from, n) == SubSeq(below, Len(below) - from + 1, Len(below) - from + n)
  IN  [sfuncs |-> At_(d.sfuncs, d.sfuncs),
       funcs  |-> At_(d.sfuncs + d.funcs, d.funcs),
       sprops |-> At_(d.sfuncs + d.funcs + d.sprops, d.sprops),
       props  |-> At_(d.sfuncs + d.funcs + d.sprops + d.props, d.props)]

\* The exception the instruction throws: its operand, or an InternalError for
\* a call of what is not callable or wants more arguments, for new of what is
\* not a class, for a superclass that is none, or for a global that does not
\* exist or is a native that is written to.
Throws ==
  \/ Instr.op = "throw"
  \/ Instr.op \in {"call", "callmember"} /\ ~Callable
  \/ Instr.op = "new" /\ ~Constructible
  \/ Instr.op = "putclass" /\ Instr.d.parent = 1 /\ ParentArg.k # "class"
  \/ Instr.op = "readglobal" /\ Instr.s \notin DOMAIN Globals \cup DOMAIN GlobalTable
  \/ /\ Instr.op \in {"setglobal", "setglobalpush"}
     /\ Instr.s \in DOMAIN Globals \/ Instr.s \notin DOMAIN GlobalTable

Thrown == IF Instr.op = "throw" THEN Arg(1) ELSE InternalError

\* The stack an exception leaves behind: setglobalpush has pushed its value
\* back, putclass has popped no more than the superclass.
Left ==
  CASE Instr.op = "setglobalpush" -> stack
    [] Instr.op = "putclass" -> Below(1 + Instr.d.constructor)
    [] OTHER -> Rest

HostClass == heap[frames[fp].fn].host

\* VM::panic, which ends the process: a pop of an empty stack (start_runtime
\* pops what the module returns; op_dup reads below an empty stack), a local
\* that does not exist, an operand of the wrong type, super in a function that
\* belongs to no class, or a handler that was registered at a higher stack.
Panics ==
  \/ Len(stack) < Pops(Instr)
  \/ Instr.op = "return" /\ frames[fp].origin = NoAddress /\ stack = <<>>
  \/ Instr.op \in {"readlocal", "setlocal", "setlocalpush"} /\ ~HasLocal
  \/ Instr.op = "readarrayindex" /\ Arg(1).k # "array"
  \/ Instr.op \in {"setarrayindex", "setarrayindexpush"} /\ Arg(2).k # "array"
  \/ Instr.op \in {"putsuper", "putsupermember"} /\ HostClass = 0
  \/ Instr.op = "putclass" /\ Instr.d.constructor = 1 /\ Arg(1).k # "function"
  \/ /\ Instr.op = "putclass" /\ ~Throws
     /\ \/ \E f \in DOMAIN Operands.funcs : Operands.funcs[f].k # "function"
        \/ \E f \in DOMAIN Operands.sfuncs : Operands.sfuncs[f].k # "function"
        \/ \E p \in DOMAIN Operands.props : Operands.props[p].k # "symbol"
        \/ \E p \in DOMAIN Operands.sprops : Operands.sprops[p].k # "symbol"
  \/ Throws /\ catchstack # <<>> /\ Len(Left) < Head(catchstack).height

At(op) == status = "run" /\ Instr.op = op /\ ~Panics

Advance == ip' = ip + Length(Instr.op)

\* CONDINCIP: an instruction that may jump advances when ip has not changed,
\* so none can jump to itself.
Goto(address) == IF address = ip THEN Advance ELSE ip' = address

-----------------------------------------------------------------------------
(* Exceptions                                                              *)

MayThrow ==
  {"throw", "call", "callmember", "new", "putclass", "readglobal", "setglobal",
   "setglobalpush"}

\* unwind_catchstack: the topmost catchtable names the frame, the height of
\* the stack and the address to go on at.  Frames are searched from the
\* current one along get_parent().
Unwind ==
  /\ \E op \in MayThrow : At(op)
  /\ Throws
  /\ catchstack # <<>>
  /\ LET t == Head(catchstack)
     IN  /\ catchstack' = Tail(catchstack)
         /\ fp' = IF t.frame \in frames[fp].chain THEN t.frame ELSE NoFrame
         /\ ip' = t.address
         /\ stack' = Append(SubSeq(Left, 1, t.height), Thrown)
  /\ UNCHANGED <<code, frames, heap, endVars, ioVars>>

\* Without a catchtable the uncaught exception handler is called; it ends the
\* program.
Uncaught ==
  /\ \E op \in MayThrow : At(op)
  /\ Throws
  /\ catchstack = <<>>
  /\ status' = "uncaught" /\ result' = Thrown
  /\ stack' = Left
  /\ UNCHANGED <<code, ip, heap, frameVars, ioVars>>

RegisterCatchTable ==
  /\ At("registercatchtable")
  /\ catchstack' = <<[frame |-> fp, address |-> ip + Instr.to,
                      height |-> Len(stack)]>> \o catchstack
  /\ Advance
  /\ UNCHANGED <<code, stack, frames, fp, heap, endVars, ioVars>>

\* pop_catchtable does nothing when there is none.
PopCatchTable ==
  /\ At("popcatchtable")
  /\ catchstack' = IF catchstack = <<>> THEN <<>> ELSE Tail(catchstack)
  /\ Advance
  /\ UNCHANGED <<code, stack, frames, fp, heap, endVars, ioVars>>

-----------------------------------------------------------------------------
(* Calls                                                                   *)

\* Slots of a new frame, args being the arguments and array the place of the
\* array of them.  A function that needs this array has it in its first slot;
\* otherwise arguments are copied up to the number of slots, not of
\* parameters.
NewLocals(f, args, array) ==
  [i \in 0 .. f.lvarcount - 1 |->
     CASE f.args /\ i = 0 -> Value("array", array)
       [] f.args /\ i \in 1 .. Len(args) /\ i <= f.argc -> args[i]
       [] ~f.args /\ i < Len(args) -> args[i + 1]
       [] OTHER -> Null]

\* Faulty: the array of the arguments is not made.
Enter_No_Array(h, f, self) ==
  /\ frames' = Append(frames,
       [parent |-> fp, env |-> h[f].context, catchtable |-> catchstack,
        origin |-> ip, locals |-> NewLocals(h[f], CallArgs, Len(h) + 1),
        chain |-> {Len(frames) + 1} \cup frames[fp].chain, base |-> Len(Rest),
        self |-> self, fn |-> f])
  /\ fp' = Len(frames) + 1
  /\ heap' = h
  /\ Goto(h[f].body)
  /\ stack' = Rest
  /\ UNCHANGED <<code, catchstack, endVars, ioVars>>

\* call_function and Frame::init: a call of function f in the heap h.  chain
\* holds the frames get_parent() leads to, base is the height of the stack the
\* function starts at.
Enter(h, f, self) ==
  /\ frames' = Append(frames,
       [parent |-> fp, env |-> h[f].context, catchtable |-> catchstack,
        origin |-> ip, locals |-> NewLocals(h[f], CallArgs, Len(h) + 1),
        chain |-> {Len(frames) + 1} \cup frames[fp].chain, base |-> Len(Rest),
        self |-> self, fn |-> f])
  /\ fp' = Len(frames) + 1
  /\ heap' = IF h[f].args THEN Append(h, ArrayOf(CallArgs)) ELSE h
  /\ Goto(h[f].body)
  /\ stack' = Rest
  /\ UNCHANGED <<code, catchstack, endVars, ioVars>>

\* Function::get_self: target holds the object a method is called on.  The
\* frame the function was made in exists, as only the module has none.
SelfOf(f, target) ==
  LET fn == heap[f]
  IN  CASE fn.bound # <<>> -> fn.bound[1]
        [] fn.bound = <<>> /\ ~fn.anonymous /\ target # <<>> -> target[1]
        [] OTHER -> frames[fn.context].self

\* op_call and op_callmember of a function.
CallFunction ==
  /\ At("call") \/ At("callmember")
  /\ ~Throws /\ Callee.k = "function"
  /\ Enter(heap, Callee.n,
           SelfOf(Callee.n, IF Instr.op = "call" THEN <<>> ELSE <<Arg(Instr.n + 2)>>))

\* op_new: the new object has the properties of its class, the constructor is
\* called on it as a method.
Construct ==
  LET object == Value("object", Len(heap) + 1)
      made   == Append(heap, Instance(Callee.n, MemberProperties(heap, Callee.n)))
  IN  /\ At("new") /\ ~Throws
      /\ \/ /\ Constructor # Null
            /\ Enter(made, Constructor.n, SelfOf(Constructor.n, <<object>>))
         \/ /\ Constructor = Null
            /\ heap' = made
            /\ stack' = Append(Rest, object)
            /\ Advance
            /\ UNCHANGED <<code, frameVars, endVars, ioVars>>

\* call_cfunction
CallNative ==
  /\ At("call") \/ At("callmember")
  /\ ~Throws
  /\ \/ /\ Callee = In /\ tape # <<>>
        /\ stack' = Append(Rest, Head(tape))
        /\ tape' = Tail(tape)
        /\ UNCHANGED trace
     \/ /\ Callee = Out /\ Len(trace) < MaxOut
        /\ stack' = Append(Rest, Null)
        /\ trace' = Append(trace, Shown(CallArgs[1]))
        /\ UNCHANGED tape
  /\ Advance
  /\ UNCHANGED <<code, heap, frameVars, endVars>>

\* The bound on the program's input and output.
Cut ==
  /\ At("call") \/ At("callmember")
  /\ ~Throws
  /\ \/ Callee = In /\ tape = <<>>
     \/ Callee = Out /\ Len(trace) = MaxOut
  /\ status' = "cut"
  /\ UNCHANGED <<code, ip, stack, heap, frameVars, result, ioVars>>

\* Faulty: op_return leaves the catchtables of the function registered.
Return_Keeps_Handlers ==
  /\ At("return")
  /\ LET f == frames[fp]
     IN  /\ fp' = f.parent
         /\ IF f.origin = NoAddress
            THEN status' = "done" /\ result' = Arg(1) /\ UNCHANGED ip
            ELSE ip' = f.origin + Length(code[f.origin].op) /\ UNCHANGED endVars
  /\ UNCHANGED <<code, stack, frames, heap, catchstack, ioVars>>

\* Faulty: run() goes on at a null address (DISPATCH instead of
\* DISPATCH_POSSIBLY_NULL).
Return_Into_Nothing ==
  /\ At("return")
  /\ frames[fp].origin # NoAddress
  /\ LET f == frames[fp]
     IN  /\ catchstack' = f.catchtable
         /\ fp' = f.parent
         /\ ip' = f.origin + Length(code[f.origin].op)
  /\ UNCHANGED <<code, stack, frames, heap, endVars, ioVars>>

\* op_return and Frame::get_return_address.  The return value stays on top of
\* the stack; a frame made for the module itself has no address to return to.
Return ==
  /\ At("return")
  /\ LET f == frames[fp]
     IN  /\ catchstack' = f.catchtable
         /\ fp' = f.parent
         /\ IF f.origin = NoAddress
            THEN status' = "done" /\ result' = Arg(1) /\ UNCHANGED ip
            ELSE ip' = f.origin + Length(code[f.origin].op) /\ UNCHANGED endVars
  /\ UNCHANGED <<code, stack, frames, heap, ioVars>>

-----------------------------------------------------------------------------
(* Values, locals and branches                                             *)

\* What the instruction pushes in place of the values it pops.
Pushed ==
  CASE Instr.op \in {"putvalue", "putstring"} -> <<Instr.v>>
    [] Instr.op = "putself"   -> <<frames[fp].self>>
    [] Instr.op = "dup"       -> <<Arg(1), Arg(1)>>
    [] Instr.op = "dupn"      -> Top(Instr.n) \o Top(Instr.n)
    [] Instr.op = "swap"      -> <<Arg(1), Arg(2)>>
    [] Instr.op = "unary"     -> <<UnaryOf(Instr.s, Arg(1))>>
    [] Instr.op = "typeof"    -> <<Str(TypeString(Arg(1)))>>
    [] Instr.op = "readlocal" -> <<frames[Outer(Instr.level)].locals[Instr.index]>>
    [] Instr.op = "readglobal" -> <<IF Instr.s \in DOMAIN Globals THEN Globals[Instr.s]
                                    ELSE GlobalTable[Instr.s]>>
    [] Instr.op = "readmembersymbol" -> <<ReadMember(heap, Arg(1), Instr.s)>>
    [] Instr.op = "readmembervalue"  -> <<ReadAt(heap, Arg(2), Arg(1))>>
    [] Instr.op = "readarrayindex"   -> <<ReadIndex(heap, Arg(1), Num(Instr.index))>>
    [] OTHER -> <<>>

Push ==
  /\ \E op \in {"nop", "pop", "putvalue", "putstring", "putself", "dup", "dupn", "swap",
                "unary", "typeof", "readlocal", "readglobal", "readmembersymbol",
                "readmembervalue", "readarrayindex"} : At(op)
  /\ ~Throws
  /\ stack' = Rest \o Pushed
  /\ Advance
  /\ UNCHANGED <<code, heap, frameVars, endVars, ioVars>>

\* VM::add ... VM::ubxor
Operator ==
  /\ At("operator")
  /\ heap' = HeapAfter(heap, Instr.s, Arg(2), Arg(1))
  /\ stack' = Append(Rest, Operate(heap, Instr.s, Arg(2), Arg(1)))
  /\ Advance
  /\ UNCHANGED <<code, frameVars, endVars, ioVars>>

SetLocal ==
  /\ At("setlocal") \/ At("setlocalpush")
  /\ frames' = [frames EXCEPT ![Outer(Instr.level)].locals[Instr.index] = Arg(1)]
  /\ stack' = IF Instr.op = "setlocalpush" THEN stack ELSE Rest
  /\ Advance
  /\ UNCHANGED <<code, fp, heap, catchstack, endVars, ioVars>>

\* op_setglobal, op_setglobalpush: only a global that exists is written.
SetGlobal ==
  /\ At("setglobal") \/ At("setglobalpush")
  /\ ~Throws
  /\ heap' = WriteMember(heap, GlobalsObject, Instr.s, Arg(1))
  /\ stack' = IF Instr.op = "setglobalpush" THEN stack ELSE Rest
  /\ Advance
  /\ UNCHANGED <<code, frameVars, endVars, ioVars>>

\* The heap after a member, an index or an element of an array is written,
\* and what the instruction pushes when it pushes something.
Written ==
  CASE Instr.op \in {"setmembersymbol", "setmembersymbolpush"} ->
         WriteMember(heap, Arg(2), Instr.s, Arg(1))
    [] Instr.op \in {"setmembervalue", "setmembervaluepush"} ->
         WriteAt(heap, Arg(3), Arg(2), Arg(1))
    [] Instr.op \in {"setarrayindex", "setarrayindexpush"} ->
         WriteAt(heap, Arg(2), Num(Instr.index), Arg(1))

Yielded ==
  IF Instr.op = "setmembervaluepush" THEN WriteYields(heap, Arg(3), Arg(2), Arg(1)) ELSE Arg(1)

\* op_setmembersymbol ... op_setarrayindexpush
SetMember ==
  /\ \E op \in {"setmembersymbol", "setmembersymbolpush", "setmembervalue",
                "setmembervaluepush", "setarrayindex", "setarrayindexpush"} : At(op)
  /\ heap' = Written
  /\ stack' = IF Instr.op \in {"setmembersymbol", "setmembervalue", "setarrayindex"}
              THEN Rest ELSE Append(Rest, Yielded)
  /\ Advance
  /\ UNCHANGED <<code, frameVars, endVars, ioVars>>

\* What the instruction makes is put on the heap and pushed.
Make(kind, record) ==
  /\ heap' = Append(heap, record)
  /\ stack' = Append(Rest, Value(kind, Len(heap) + 1))
  /\ Advance
  /\ UNCHANGED <<code, frameVars, endVars, ioVars>>

\* op_putfunction: the function remembers the frame it is made in.
PutFunction ==
  /\ At("putfunction")
  /\ Make("function",
       [fields |-> NoFields, name |-> Instr.s, body |-> ip + Instr.to, context |-> fp,
        argc |-> Instr.d.argc, minimum |-> Instr.d.minimum,
        lvarcount |-> Instr.d.lvarcount, anonymous |-> Instr.d.anonymous,
        args |-> Instr.d.args, host |-> 0, bound |-> <<>>])

PutArray == At("putarray") /\ Make("array", ArrayOf(Top(Instr.n)))

\* op_puthash: a value is below its key.
PutHash ==
  /\ At("puthash")
  /\ LET operands == Top(2 * Instr.n)
     IN  Make("object",
              Instance(0, FieldsOf([i \in 1 .. Instr.n |-> operands[2 * i].s],
                                   [i \in 1 .. Instr.n |-> operands[2 * i - 1]])))

\* op_putsuper, op_putsupermember: the constructor or the method of the
\* superclass, or a given member of it; a function is bound to self in a copy.
SuperValue ==
  LET parent == heap[HostClass].parent
      name   == IF Instr.op = "putsuper" THEN heap[frames[fp].fn].name ELSE Instr.s
      found  == FindValue(heap, parent, name)
  IN  CASE Instr.op = "putsuper" /\ name = "constructor" -> FindConstructor(heap, parent)
        [] OTHER -> IF found = <<>> THEN Null ELSE found[1]

PutSuper ==
  /\ At("putsuper") \/ At("putsupermember")
  /\ \/ /\ SuperValue.k = "function"
        /\ Make("function", [heap[SuperValue.n] EXCEPT !.bound = <<frames[fp].self>>])
     \/ /\ SuperValue.k # "function"
        /\ stack' = Append(Rest, SuperValue)
        /\ Advance
        /\ UNCHANGED <<code, heap, frameVars, endVars, ioVars>>

\* op_putclass: the prototype and then the class are made, the functions get
\* to know their class.
PutClass ==
  LET c == Len(heap) + 2
      d == Instr.d
      Names(fs)   == [i \in DOMAIN fs |-> heap[fs[i].n].name]
      Symbols(ps) == [i \in DOMAIN ps |-> ps[i].s]
      constructor == IF d.constructor = 1 THEN <<Arg(1)>> ELSE <<>>
      fns     == constructor \o Operands.funcs \o Operands.sfuncs
      statics == FieldsOf(Symbols(Operands.sprops), [i \in 1 .. d.sprops |-> Null])
      methods == FieldsOf(Names(Operands.sfuncs), Operands.sfuncs)
      hosted  == [i \in DOMAIN heap |->
                    IF \E j \in DOMAIN fns : fns[j].n = i THEN [heap[i] EXCEPT !.host = c]
                    ELSE heap[i]]
      class   == [name |-> Instr.s, parent |-> IF d.parent = 1 THEN ParentArg.n ELSE 0,
                  constructor |-> IF d.constructor = 1 THEN Arg(1) ELSE Null,
                  proto |-> c - 1,
                  props |-> {Operands.props[i].s : i \in DOMAIN Operands.props},
                  fields |-> [x \in DOMAIN statics \cup DOMAIN methods |->
                                IF x \in DOMAIN statics THEN Null ELSE methods[x]]]
  IN  /\ At("putclass") /\ ~Throws
      /\ heap' = hosted \o <<Instance(0, FieldsOf(Names(Operands.funcs), Operands.funcs)),
                              class>>
      /\ stack' = Append(Rest, Value("class", c))
      /\ Advance
      /\ UNCHANGED <<code, frameVars, endVars, ioVars>>

\* Whether a branch is taken.
Taken ==
  CASE Instr.op = "branch"       -> TRUE
    [] Instr.op = "branchif"     -> Truthy(Arg(1))
    [] Instr.op = "branchunless" -> ~Truthy(Arg(1))
    [] Instr.op = "branchcmp"    -> Compare(heap, Instr.s, Arg(2), Arg(1))

Branch ==
  /\ \E op \in {"branch", "branchif", "branchunless", "branchcmp"} : At(op)
  /\ Goto(IF Taken THEN ip + Instr.to ELSE ip)
  /\ stack' = Rest
  /\ UNCHANGED <<code, heap, frameVars, endVars, ioVars>>

-----------------------------------------------------------------------------
\* Function::init of the function of a module, which has no locals.
ModuleFunction ==
  [fields |-> NoFields, name |-> "module", body |-> 0, context |-> NoFrame, argc |-> 0,
   minimum |-> 0, lvarcount |-> 0, anonymous |-> FALSE, args |-> FALSE, host |-> 0,
   bound |-> <<>>]

\* start_runtime calls the function of the module c on the globals object.
MachineInit(c, input) ==
  /\ code = c
  /\ ip = 0
  /\ stack = <<>>
  /\ frames = <<[parent |-> NoFrame, env |-> NoFrame, catchtable |-> <<>>,
                 origin |-> NoAddress, locals |-> [i \in {} |-> Null],
                 chain |-> {1}, base |-> 0, self |-> GlobalsObject, fn |-> 1]>>
  /\ fp = 1
  /\ heap = <<ModuleFunction, Instance(0, NoFields)>>
  /\ catchstack = <<>>
  /\ status = "run"
  /\ result = Null
  /\ tape = input
  /\ trace = <<>>

MachineNext ==
  \/ Push \/ Operator \/ SetLocal \/ SetGlobal \/ SetMember
  \/ PutFunction \/ PutArray \/ PutHash \/ PutSuper \/ PutClass \/ Branch
  \/ CallFunction \/ Construct \/ CallNative \/ Cut \/ Return
  \/ Unwind \/ Uncaught
  \/ RegisterCatchTable \/ PopCatchTable

\* The VM running any code on any input.
MachineSpec == (\E c, input : MachineInit(c, input)) /\ [][MachineNext]_vars

-----------------------------------------------------------------------------
\* An exception always finds the frame of its handler: the frame of every
\* registered catchtable is still on the chain unwind_catchstack searches, so
\* the walk never runs off its end and leaves the VM without a frame.
HandlerFrameLive ==
  status = "run" =>
    \A i \in DOMAIN catchstack : catchstack[i].frame \in frames[fp].chain

-----------------------------------------------------------------------------
(* References.  The value of something on the heap names its place; the    *)
(* C++ code casts the pointer in it to the type its kind says.             *)

\* What each kind of thing on the heap consists of.
ObjectShape   == {"klass", "fields"}
ArrayShape    == {"elems"}
ClassShape    == {"name", "parent", "constructor", "proto", "props", "fields"}
FunctionShape == {"fields", "name", "body", "context", "argc", "minimum", "lvarcount",
                  "anonymous", "args", "host", "bound"}

IsA(h, i, shape) == i \in DOMAIN h /\ DOMAIN h[i] = shape

\* v refers to something of its kind in the heap h, if to anything.  The
\* function of the module, the first on the heap, is no value.
Live(h, v) ==
  /\ v.k = "object"   => IsA(h, v.n, ObjectShape)
  /\ v.k = "array"    => IsA(h, v.n, ArrayShape)
  /\ v.k = "class"    => v.n \in ClassesIn(h)
  /\ v.k = "function" => IsA(h, v.n, FunctionShape) /\ v.n # 1

AllLive(h, f) == \A x \in DOMAIN f : Live(h, f[x])

IsSeq(s) == Len(s) \in Nat /\ s = [i \in 1 .. Len(s) |-> s[i]]

\* What o at place i of the heap h refers to is of the right kind, when n
\* frames were made.
Sound(h, i, o, n) ==
  \/ DOMAIN o = ObjectShape /\ o.klass \in ClassesIn(h) /\ AllLive(h, o.fields)
  \/ DOMAIN o = ArrayShape /\ IsSeq(o.elems) /\ AllLive(h, o.elems)
  \/ /\ DOMAIN o = ClassShape
     /\ o.parent \in 0 .. i - 1 /\ o.parent \in ClassesIn(h)
     /\ IsA(h, o.proto, ObjectShape)
     /\ o.constructor = Null \/ (o.constructor.k = "function" /\ Live(h, o.constructor))
     /\ AllLive(h, o.fields)
  \/ /\ DOMAIN o = FunctionShape
     /\ o.context \in 0 .. n /\ (o.context = NoFrame => i = 1)
     /\ o.lvarcount \in Nat /\ o.args \in BOOLEAN /\ o.anonymous \in BOOLEAN
     /\ o.host \in ClassesIn(h)
     /\ IsSeq(o.bound) /\ AllLive(h, o.bound)
     /\ AllLive(h, o.fields)

\* Every reference leads to something of the kind it is taken for: from the
\* stack, the locals of every frame and from the heap, also after an exception
\* or a return has skipped instructions.  A class is made after its parent and
\* a frame after the one its function was made in, so that the searches along
\* get_parent_class() and get_environment() end (vm.cpp, class.cpp).
MemorySafe ==
  /\ \A i \in DOMAIN heap : Sound(heap, i, heap[i], Len(frames))
  /\ AllLive(heap, stack) /\ AllLive(heap, tape) /\ Live(heap, result)
  /\ \A f \in DOMAIN frames :
       /\ frames[f].parent \in 0 .. f - 1 /\ frames[f].env \in 0 .. f - 1
       /\ IsA(heap, frames[f].fn, FunctionShape)
       /\ Live(heap, frames[f].self) /\ AllLive(heap, frames[f].locals)
  /\ status = "run" => fp \in DOMAIN frames

\* The operands of an instruction are of the types its decoding in run() gives
\* them; no value in the code is on the heap.
IsInstruction(i) ==
  /\ i.op \in {"putvalue", "putstring"} =>
       i.v.k \notin {"object", "array", "class", "function"}
  /\ i.op \in {"call", "callmember", "new", "putarray", "puthash", "dupn"} => i.n \in Nat
  /\ i.op \in {"readlocal", "setlocal", "setlocalpush"} => i.level \in Nat
  /\ i.op = "unary" => i.s \in {"!", "+", "-", "~"}
  /\ i.op = "putfunction" =>
       i.d.lvarcount \in Nat /\ i.d.args \in BOOLEAN /\ i.d.anonymous \in BOOLEAN
  /\ i.op = "putclass" =>
       /\ i.d.props \in Nat /\ i.d.sprops \in Nat /\ i.d.funcs \in Nat /\ i.d.sfuncs \in Nat
       /\ i.d.parent \in {0, 1} /\ i.d.constructor \in {0, 1}

\* What an instruction reads or writes a member of is no primitive class: their
\* members are not modelled.
NoPrimitiveMember ==
  LET object == CASE Instr.op = "readmembersymbol" -> Arg(1)
                  [] Instr.op \in {"readmembervalue", "setmembersymbol",
                                   "setmembersymbolpush"} -> Arg(2)
                  [] Instr.op \in {"setmembervalue", "setmembervaluepush"} -> Arg(3)
                  [] OTHER -> Null
  IN  ~(object.k = "class" /\ object.n = 0)

\* ip is at an instruction: no branch, handler or function leads elsewhere.
Executable ==
  status = "run" => ip \in DOMAIN code /\ IsInstruction(Instr) /\ NoPrimitiveMember
=============================================================================
