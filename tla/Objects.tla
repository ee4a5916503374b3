------------------------------ MODULE Objects ------------------------------
(***************************************************************************)
(* What lives on the heap (src/vm/primitives/, src/vm/vm.cpp) and how it   *)
(* is read and written.  A heap h is the sequence of what was made:        *)
(*   an object   has its fields and its klass, 0 when it has none,         *)
(*   an array    has its elems,                                            *)
(*   a class     has its fields, name, parent (0: the primitive Object),   *)
(*               constructor or Null, the place proto of its prototype     *)
(*               object and the member properties props,                   *)
(*   a function  has at least its fields, name, minimum (arguments), host  *)
(*               (its class, 0 for none) and bound, the value bound to     *)
(*               self in a sequence of at most one.                        *)
(* The primitive classes have no members that programs name.               *)
(***************************************************************************)
EXTENDS Values, TLC

NoFields == [x \in {} |-> Null]

\* Container::write
With(f, x, v) == [y \in DOMAIN f \cup {x} |-> IF y = x THEN v ELSE f[y]]

\* Several writes, the last first: the first of two for one name stays.
FieldsOf(names, values) ==
  [x \in {names[i] : i \in DOMAIN names} |->
     values[Min({i \in DOMAIN names : names[i] = x})]]

Instance(klass, fields) == [klass |-> klass, fields |-> fields]
ArrayOf(elems)          == [elems |-> elems]

\* VM::globals, made before the program starts: the second on the heap.
GlobalsObject == Value("object", 2)

Primitive(type) == [k |-> "class", n |-> 0, s |-> type]

ClassValue(c) == IF c = 0 THEN Primitive("object") ELSE Value("class", c)

-----------------------------------------------------------------------------
(* Classes.  A class is made after its parent.                             *)

\* The classes in a heap, and the primitive Object.
ClassesIn(h) == {0} \cup {i \in DOMAIN h : "parent" \in DOMAIN h[i]}

\* Class::find_value: the nearest prototype from class c on that has x, none
\* is <<>>.
FindValue(h, c, x) ==
  LET find[i \in ClassesIn(h)] ==
        IF i = 0 THEN <<>>
        ELSE LET f == h[h[i].proto].fields
             IN  IF x \in DOMAIN f THEN <<f[x]>> ELSE find[h[i].parent]
  IN  find[c]

\* Class::find_constructor: the nearest constructor, none is Null.
FindConstructor(h, c) ==
  LET find[i \in ClassesIn(h)] ==
        IF i = 0 THEN Null
        ELSE IF h[i].constructor # Null THEN h[i].constructor ELSE find[h[i].parent]
  IN  find[c]

\* Class::initialize_member_properties
MemberProperties(h, c) ==
  LET all[i \in ClassesIn(h)] == IF i = 0 THEN {} ELSE all[h[i].parent] \cup h[i].props
  IN  [x \in all[c] |-> Null]

-----------------------------------------------------------------------------
(* Members                                                                 *)

\* What is no field but is read like one.
Builtin(h, v, x) ==
  LET o == h[v.n]
  IN  CASE v.k = "object" /\ x = "klass" -> <<ClassValue(o.klass)>>
        [] v.k \in {"function", "class"} /\ x = "name" -> <<Str(o.name)>>
        [] v.k = "function" /\ x = "host_class" ->
             <<IF o.host = 0 THEN Null ELSE Value("class", o.host)>>
        [] v.k = "function" /\ x = "argc" -> <<Num(o.minimum)>>
        [] v.k = "class" /\ x = "prototype" -> <<Value("object", o.proto)>>
        [] v.k = "class" /\ x = "constructor" -> <<o.constructor>>
        [] v.k = "class" /\ x = "parent" -> <<ClassValue(o.parent)>>
        [] v.k = "array" /\ x = "length" -> <<Num(Len(o.elems))>>
        [] v.k = "str" /\ x = "length" -> <<Num(Len(v.s))>>
        [] v.k # "object" /\ x = "klass" -> <<Primitive(TypeString(v))>>
        [] OTHER -> <<>>

HasFields(v) == v.k \in {"object", "class", "function"}

\* VM::readmembersymbol: built in, a field, a method of the class, or null.
ReadMember(h, v, x) ==
  LET inherited == IF v.k = "object" THEN FindValue(h, h[v.n].klass, x) ELSE <<>>
  IN  CASE Builtin(h, v, x) # <<>> -> Builtin(h, v, x)[1]
        [] HasFields(v) /\ x \in DOMAIN h[v.n].fields -> h[v.n].fields[x]
        [] OTHER -> IF inherited # <<>> THEN inherited[1] ELSE Null

\* The names that cannot be written.
ReadOnly(v) ==
  CASE v.k = "object"   -> {"klass"}
    [] v.k = "function" -> {"name", "host_class"}
    [] v.k = "class"    -> {"prototype", "constructor", "name", "parent"}

\* VM::setmembersymbol: the heap after it.
WriteMember(h, v, x, value) ==
  CASE ~HasFields(v) -> h
    [] HasFields(v) /\ x \in ReadOnly(v) -> h
    [] v.k = "function" /\ x = "bound_self" -> [h EXCEPT ![v.n].bound = <<value>>]
    [] OTHER -> [h EXCEPT ![v.n].fields = With(@, x, value)]

\* Array::read and Array::write: a negative index counts from the end.
WrapIndex(i, n) == IF i < 0 THEN i + n ELSE i

IntOf(v) == IF v = NaN THEN 0 ELSE v.n

ReadIndex(h, v, i) ==
  LET size == IF v.k = "array" THEN Len(h[v.n].elems) ELSE Len(v.s)
      at   == WrapIndex(IntOf(i), size)
  IN  CASE at \notin 0 .. size - 1 -> Null
        [] at \in 0 .. size - 1 /\ v.k = "array" -> h[v.n].elems[at + 1]
        [] OTHER -> Str(SubSeq(v.s, at + 1, at + 1))

\* VM::readmembervalue.  What is no number is a name.
ReadAt(h, v, i) ==
  IF v.k \in {"array", "str"} /\ IsNumber(i) THEN ReadIndex(h, v, i)
  ELSE ReadMember(h, v, i.s)

\* Writing to the index after the last appends; a write elsewhere outside the
\* array is ignored and yields null.
WriteIndex(elems, i, value) ==
  LET at == IF i = Len(elems) THEN i ELSE WrapIndex(i, Len(elems))
  IN  CASE at = Len(elems) -> Append(elems, value)
        [] at \in 0 .. Len(elems) - 1 -> [elems EXCEPT ![at + 1] = value]
        [] OTHER -> elems

InRange(elems, i) == i \in -Len(elems) .. Len(elems)

\* VM::setmembervalue: the heap after it, and what it yields.
WriteAt(h, v, i, value) ==
  IF v.k = "array" /\ IsNumber(i)
  THEN [h EXCEPT ![v.n].elems = WriteIndex(@, IntOf(i), value)]
  ELSE WriteMember(h, v, i.s, value)

WriteYields(h, v, i, value) ==
  IF v.k = "array" /\ IsNumber(i) /\ ~InRange(h[v.n].elems, IntOf(i)) THEN Null ELSE value

-----------------------------------------------------------------------------
(* Operators                                                               *)

\* VM::eq: arrays are compared by their elements.
Equal(h, l, r) ==
  LET Plain(a, b) == a = b /\ a # NaN
      same[i \in DOMAIN h, j \in DOMAIN h] ==
        /\ Len(h[i].elems) = Len(h[j].elems)
        /\ \A k \in DOMAIN h[i].elems :
             LET a == h[i].elems[k]
                 b == h[j].elems[k]
             IN  IF a.k = "array" /\ b.k = "array" THEN same[a.n, b.n] ELSE Plain(a, b)
  IN  IF l.k = "array" /\ r.k = "array" THEN same[l.n, r.n] ELSE Plain(l, r)

Compare(h, o, l, r) ==
  CASE o = "==" -> Equal(h, l, r)
    [] o = "!"  -> ~Equal(h, l, r)
    [] OTHER    -> Order(o, l, r)

\* An operator that changes the heap: a sum makes a new array, a shift
\* appends to the array.
MakesArray(o, l) == l.k = "array" /\ o = "+"
AppendsTo(o, l)  == l.k = "array" /\ o = "<<"

\* charly_to_string; of what is on the heap only the kind is kept.
TextOf(v) ==
  CASE v.k = "str" -> v.s
    [] v.k = "num" -> ToString(v.n)
    [] OTHER -> v.k

\* A string that is repeated as often as the number says.
Repeat(x, count) ==
  LET rep[i \in 0 .. Max({0, count})] == IF i = 0 THEN "" ELSE rep[i - 1] \o x
  IN  rep[Max({0, count})]

Operate(h, o, l, r) ==
  CASE o \in Comparisons -> Bool(Compare(h, o, l, r))
    [] MakesArray(o, l) -> Value("array", Len(h) + 1)
    [] AppendsTo(o, l) -> l
    [] IsNumber(l) /\ IsNumber(r) /\ o \notin Comparisons -> Arithmetic(o, l, r)
    [] o = "+" /\ l.k # "array" /\ "str" \in {l.k, r.k} -> Str(TextOf(l) \o TextOf(r))
    [] o = "*" /\ l.k = "str" /\ IsNumber(r) -> Str(Repeat(l.s, IntOf(r)))
    [] o = "*" /\ IsNumber(l) /\ r.k = "str" -> Str(Repeat(r.s, IntOf(l)))
    [] OTHER -> NaN

HeapAfter(h, o, l, r) ==
  CASE MakesArray(o, l) ->
         Append(h, ArrayOf(h[l.n].elems \o (IF r.k = "array" THEN h[r.n].elems ELSE <<r>>)))
    [] AppendsTo(o, l) -> [h EXCEPT ![l.n].elems = Append(@, r)]
    [] OTHER -> h
=============================================================================
