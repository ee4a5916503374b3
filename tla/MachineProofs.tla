--------------------------- MODULE MachineProofs ---------------------------
(***************************************************************************)
(* Whatever the code, an exception finds the frame of its handler, and     *)
(* every reference leads to something of its kind.                         *)
(*                                                                         *)
(* HandlerFrameLive is not inductive: a return reinstates the catchtables  *)
(* its frame was called with, and the exception handler of an outer        *)
(* function becomes the current one.  The invariant below speaks of every  *)
(* catchtable that can become current, in the frame it becomes current in. *)
(* ParentsLeadDown ties the chains it uses to what get_parent() returns.   *)
(*                                                                         *)
(* MemorySafe needs HandlerInv, for the frame an exception or a return     *)
(* goes on in; that the stack, the arrays and the bound values are         *)
(* sequences; that the object of the globals is where the code expects it; *)
(* and that the heights in catchtables are numbers: SafeInv.               *)
(***************************************************************************)
EXTENDS Machine, SequenceTheorems, NaturalsInduction, WellFoundedInduction, TLAPS

FrameFields ==
  {"parent", "env", "catchtable", "origin", "locals", "chain", "base", "self", "fn"}

\* The frames get_parent() leads to from a frame, itself included.
Chains(F) ==
  /\ IsSeq(F)
  /\ \A i \in DOMAIN F :
       /\ DOMAIN F[i] = FrameFields
       /\ i \in F[i].chain
       /\ F[i].chain \subseteq DOMAIN F
       /\ \A j \in F[i].chain : F[j].chain \subseteq F[i].chain

\* The catchtables cs can be unwound one after the other, starting in top.
Nested(F, cs, top) ==
  /\ IsSeq(cs)
  /\ \A i \in DOMAIN cs : cs[i].frame \in F[top].chain
  /\ \A i, j \in DOMAIN cs : i < j => cs[j].frame \in F[cs[i].frame].chain

\* What a return from a frame reinstates.
Saved(F) ==
  \A i \in DOMAIN F :
    \/ F[i].parent = NoFrame /\ F[i].origin = NoAddress
    \/ /\ F[i].parent \in F[i].chain
       /\ Nested(F, F[i].catchtable, F[i].parent)

HandlerInv ==
  /\ Chains(frames)
  /\ Saved(frames)
  /\ status = "run" => fp \in DOMAIN frames /\ Nested(frames, catchstack, fp)

-----------------------------------------------------------------------------
(* Sequences                                                               *)

LEMMA IsSeqIntro ==
  ASSUME NEW S, NEW s \in Seq(S)
  PROVE  IsSeq(s)
BY DEF IsSeq

LEMMA IsSeqElim ==
  ASSUME NEW s, IsSeq(s)
  PROVE  \E S : s \in Seq(S)
<1> DEFINE S == {s[i] : i \in 1 .. Len(s)}
<1>1. s \in [1 .. Len(s) -> S] /\ Len(s) \in Nat
  BY DEF IsSeq
<1>2. s \in Seq(S)
  BY <1>1, SeqDef
<1> QED
  BY <1>2

\* Append, as call_function extends the list of frames.
LEMMA AppendFacts ==
  ASSUME NEW s, NEW x, IsSeq(s)
  PROVE  /\ IsSeq(Append(s, x))
         /\ Len(s) \in Nat
         /\ DOMAIN s = 1 .. Len(s)
         /\ DOMAIN Append(s, x) = 1 .. Len(s) + 1
         /\ \A i \in DOMAIN s : Append(s, x)[i] = s[i]
         /\ Append(s, x)[Len(s) + 1] = x
<1>1. PICK S : s \in Seq(S)
  BY IsSeqElim
<1>2. s \in Seq(S \cup {x}) /\ x \in S \cup {x}
  BY <1>1
<1>3. Append(s, x) \in Seq(S \cup {x})
  BY <1>2
<1>4. IsSeq(Append(s, x))
  BY <1>3, IsSeqIntro
<1>5. QED
  BY <1>2, <1>3, <1>4

\* A new element in front, as op_registercatchtable adds a catchtable.
LEMMA ConsFacts ==
  ASSUME NEW s, NEW x, IsSeq(s)
  PROVE  /\ IsSeq(<<x>> \o s)
         /\ Len(s) \in Nat
         /\ DOMAIN s = 1 .. Len(s)
         /\ DOMAIN (<<x>> \o s) = 1 .. Len(s) + 1
         /\ (<<x>> \o s)[1] = x
         /\ \A i \in 1 .. Len(s) + 1 : i # 1 => (<<x>> \o s)[i] = s[i - 1]
<1>1. PICK S : s \in Seq(S)
  BY IsSeqElim
<1>2. s \in Seq(S \cup {x}) /\ <<x>> \in Seq(S \cup {x})
  BY <1>1
<1>3. <<x>> \o s \in Seq(S \cup {x})
  BY <1>2
<1>4. IsSeq(<<x>> \o s)
  BY <1>3, IsSeqIntro
<1>5. QED
  BY <1>2, <1>3, <1>4

\* The rest of a sequence, as pop_catchtable leaves it.
LEMMA TailFacts ==
  ASSUME NEW s, IsSeq(s), s # <<>>
  PROVE  /\ IsSeq(Tail(s))
         /\ Len(s) \in Nat
         /\ 1 \in DOMAIN s
         /\ DOMAIN s = 1 .. Len(s)
         /\ DOMAIN Tail(s) = 1 .. Len(s) - 1
         /\ Head(s) = s[1]
         /\ \A i \in DOMAIN Tail(s) : Tail(s)[i] = s[i + 1]
<1>1. PICK S : s \in Seq(S)
  BY IsSeqElim
<1>2. Tail(s) \in Seq(S)
  BY <1>1
<1>3. IsSeq(Tail(s))
  BY <1>2, IsSeqIntro
<1>4. QED
  BY <1>1, <1>2, <1>3

-----------------------------------------------------------------------------
(* Catchtables                                                             *)

\* F grows into G: frames are added and keep their chains.
Grows(F, G) ==
  /\ DOMAIN F \subseteq DOMAIN G
  /\ \A i \in DOMAIN F : G[i].chain = F[i].chain

\* New frames do not disturb the catchtables that exist.
LEMMA NestedGrows ==
  ASSUME NEW F, NEW G, NEW cs, NEW top, Chains(F), Grows(F, G),
         top \in DOMAIN F, Nested(F, cs, top)
  PROVE  Nested(G, cs, top)
BY DEF Chains, Grows, Nested

\* A handler runs in the frame of its catchtable, below the others.
LEMMA NestedTail ==
  ASSUME NEW F, NEW cs, NEW top, Chains(F), top \in DOMAIN F,
         Nested(F, cs, top), cs # <<>>
  PROVE  /\ Head(cs).frame \in F[top].chain
         /\ Head(cs).frame \in DOMAIN F
         /\ Nested(F, Tail(cs), Head(cs).frame)
         /\ Nested(F, Tail(cs), top)
<1>1. IsSeq(cs)
  BY DEF Nested
<1>2. /\ IsSeq(Tail(cs))
      /\ Len(cs) \in Nat /\ DOMAIN cs = 1 .. Len(cs) /\ 1 \in DOMAIN cs
      /\ DOMAIN Tail(cs) = 1 .. Len(cs) - 1
      /\ Head(cs) = cs[1]
      /\ \A i \in DOMAIN Tail(cs) : Tail(cs)[i] = cs[i + 1]
  BY <1>1, TailFacts
<1>3. Head(cs).frame \in F[top].chain /\ Head(cs).frame \in DOMAIN F
  BY <1>2 DEF Nested, Chains
<1>4. \A i \in DOMAIN Tail(cs) : i + 1 \in DOMAIN cs /\ 1 < i + 1
  BY <1>2
<1>5. \A i \in DOMAIN Tail(cs) :
        /\ Tail(cs)[i].frame \in F[Head(cs).frame].chain
        /\ Tail(cs)[i].frame \in F[top].chain
  BY <1>2, <1>4 DEF Nested
<1>6. ASSUME NEW i \in DOMAIN Tail(cs), NEW j \in DOMAIN Tail(cs), i < j
      PROVE  Tail(cs)[j].frame \in F[Tail(cs)[i].frame].chain
  <2>1. i + 1 < j + 1
    BY <1>2, <1>6
  <2>2. QED
    BY <2>1, <1>2, <1>4 DEF Nested
<1>7. QED
  BY <1>2, <1>3, <1>5, <1>6 DEF Nested

\* The frame that registers a catchtable is in its own chain.
LEMMA NestedCons ==
  ASSUME NEW F, NEW cs, NEW top, NEW t, Chains(F), top \in DOMAIN F,
         Nested(F, cs, top), t.frame = top
  PROVE  Nested(F, <<t>> \o cs, top)
<1> DEFINE new == <<t>> \o cs
<1>1. IsSeq(cs)
  BY DEF Nested
<1>2. /\ IsSeq(new)
      /\ Len(cs) \in Nat /\ DOMAIN cs = 1 .. Len(cs)
      /\ DOMAIN new = 1 .. Len(cs) + 1
      /\ new[1] = t
      /\ \A i \in 1 .. Len(cs) + 1 : i # 1 => new[i] = cs[i - 1]
  BY <1>1, ConsFacts
<1> HIDE DEF new
<1>3. \A i \in DOMAIN new : i # 1 => i - 1 \in DOMAIN cs
  BY <1>2
<1>4. \A i \in DOMAIN new : new[i].frame \in F[top].chain
  BY <1>2, <1>3 DEF Nested, Chains
<1>5. ASSUME NEW i \in DOMAIN new, NEW j \in DOMAIN new, i < j
      PROVE  new[j].frame \in F[new[i].frame].chain
  <2>1. j # 1
    BY <1>2, <1>5
  <2>2. CASE i = 1
    BY <2>2, <1>2, <1>4
  <2>3. CASE i # 1
    <3>1. i - 1 < j - 1
      BY <1>2, <1>5
    <3>2. QED
      BY <3>1, <2>1, <2>3, <1>2, <1>3 DEF Nested
  <2>4. QED
    BY <2>2, <2>3
<1>6. Nested(F, new, top)
  BY <1>2, <1>4, <1>5 DEF Nested
<1>7. QED
  BY <1>6 DEF new

\* A callee keeps the catchtables of its caller.
LEMMA NestedDeeper ==
  ASSUME NEW F, NEW cs, NEW top, NEW n, F[top].chain \subseteq F[n].chain,
         Nested(F, cs, top)
  PROVE  Nested(F, cs, n)
BY DEF Nested

-----------------------------------------------------------------------------
(* The steps                                                               *)

\* The module's own frame.
LEMMA HandlerInit ==
  ASSUME NEW c, NEW input, MachineInit(c, input)
  PROVE  HandlerInv
<1>1. /\ DOMAIN frames = {1}
      /\ DOMAIN frames[1] = FrameFields
      /\ frames[1].chain = {1}
      /\ frames[1].parent = NoFrame
      /\ frames[1].origin = NoAddress
  BY DEF MachineInit, FrameFields
<1>2. IsSeq(frames)
  <2> DEFINE f == frames[1]
  <2>1. frames = <<f>>
    BY DEF MachineInit
  <2>2. frames \in Seq({f})
    BY <2>1
  <2>3. QED
    BY <2>2, IsSeqIntro
<1>3. Chains(frames) /\ Saved(frames)
  BY <1>1, <1>2 DEF Chains, Saved
<1>4. fp \in DOMAIN frames /\ Nested(frames, catchstack, fp)
  <2>1. catchstack = <<>> /\ fp = 1
    BY DEF MachineInit
  <2>2. <<>> \in Seq({}) /\ DOMAIN <<>> = {}
    OBVIOUS
  <2>3. QED
    BY <2>1, <2>2, <1>1, IsSeqIntro DEF Nested
<1>5. QED
  BY <1>3, <1>4 DEF HandlerInv

\* Steps that change neither the frames nor the handlers.
LEMMA HandlerQuiet ==
  ASSUME HandlerInv, UNCHANGED <<frames, fp, catchstack>>,
         status' = "run" => status = "run"
  PROVE  HandlerInv'
BY DEF HandlerInv

\* unwind_catchstack
LEMMA HandlerUnwind == HandlerInv /\ Unwind => HandlerInv'
<1> SUFFICES ASSUME HandlerInv, Unwind
             PROVE  HandlerInv'
  OBVIOUS
<1> DEFINE t == Head(catchstack)
<1>1. /\ status = "run" /\ catchstack # <<>>
      /\ catchstack' = Tail(catchstack)
      /\ fp' = IF t.frame \in frames[fp].chain THEN t.frame ELSE NoFrame
      /\ frames' = frames
  BY DEF Unwind, At
<1>2. Chains(frames) /\ Saved(frames) /\ fp \in DOMAIN frames
      /\ Nested(frames, catchstack, fp)
  BY <1>1 DEF HandlerInv
<1>3. /\ t.frame \in frames[fp].chain
      /\ t.frame \in DOMAIN frames
      /\ Nested(frames, Tail(catchstack), t.frame)
  BY <1>1, <1>2, NestedTail
<1>4. QED
  BY <1>1, <1>2, <1>3 DEF HandlerInv

\* op_registercatchtable
LEMMA HandlerRegister == HandlerInv /\ RegisterCatchTable => HandlerInv'
<1> SUFFICES ASSUME HandlerInv, RegisterCatchTable
             PROVE  HandlerInv'
  OBVIOUS
<1> DEFINE t == [frame |-> fp, address |-> ip + Instr.to, height |-> Len(stack)]
<1>1. /\ status = "run" /\ status' = status
      /\ catchstack' = <<t>> \o catchstack
      /\ fp' = fp /\ frames' = frames
  BY DEF RegisterCatchTable, At, endVars
<1>2. t.frame = fp
  OBVIOUS
<1> HIDE DEF t
<1>3. Chains(frames) /\ Saved(frames) /\ fp \in DOMAIN frames
      /\ Nested(frames, catchstack, fp)
  BY <1>1 DEF HandlerInv
<1>4. Nested(frames, <<t>> \o catchstack, fp)
  BY <1>2, <1>3, NestedCons
<1>5. QED
  BY <1>1, <1>3, <1>4 DEF HandlerInv

\* op_popcatchtable
LEMMA HandlerPop == HandlerInv /\ PopCatchTable => HandlerInv'
<1> SUFFICES ASSUME HandlerInv, PopCatchTable
             PROVE  HandlerInv'
  OBVIOUS
<1>1. /\ status = "run" /\ status' = status
      /\ catchstack' = IF catchstack = <<>> THEN <<>> ELSE Tail(catchstack)
      /\ fp' = fp /\ frames' = frames
  BY DEF PopCatchTable, At, endVars
<1>2. Chains(frames) /\ Saved(frames) /\ fp \in DOMAIN frames
      /\ Nested(frames, catchstack, fp)
  BY <1>1 DEF HandlerInv
<1>3. Nested(frames, catchstack', fp)
  BY <1>1, <1>2, NestedTail
<1>4. QED
  BY <1>1, <1>2, <1>3 DEF HandlerInv

\* call_function
LEMMA HandlerEnter ==
  ASSUME NEW h, NEW f, NEW self, HandlerInv, status = "run", Enter(h, f, self)
  PROVE  HandlerInv'
<1> DEFINE n == Len(frames) + 1
<1>1. PICK r : /\ frames' = Append(frames, r)
               /\ DOMAIN r = FrameFields
               /\ r.parent = fp /\ r.catchtable = catchstack
               /\ r.chain = {n} \cup frames[fp].chain
  <2> WITNESS [parent |-> fp, env |-> h[f].context, catchtable |-> catchstack,
               origin |-> ip, locals |-> NewLocals(h[f], CallArgs, Len(h) + 1),
               chain |-> {n} \cup frames[fp].chain, base |-> Len(Rest),
               self |-> self, fn |-> f]
  <2>1. QED
    BY DEF Enter, FrameFields
<1>2. /\ status = "run" /\ status' = status
      /\ catchstack' = catchstack /\ fp' = n
  BY DEF Enter, endVars
<1>3. /\ Chains(frames) /\ Saved(frames) /\ fp \in DOMAIN frames
      /\ Nested(frames, catchstack, fp)
  BY <1>2 DEF HandlerInv
<1>4. /\ IsSeq(frames')
      /\ Len(frames) \in Nat
      /\ DOMAIN frames = 1 .. Len(frames)
      /\ DOMAIN frames' = 1 .. n
      /\ \A i \in DOMAIN frames : frames'[i] = frames[i]
      /\ frames'[n] = r
  BY <1>1, <1>3, AppendFacts DEF Chains
<1> HIDE DEF n
<1>5. /\ DOMAIN frames' = DOMAIN frames \cup {n}
      /\ n \notin DOMAIN frames
  BY <1>4 DEF n
<1>6. Grows(frames, frames')
  BY <1>4, <1>5 DEF Grows
<1>7. Chains(frames')
  <2>1. ASSUME NEW i \in DOMAIN frames
        PROVE  /\ DOMAIN frames'[i] = FrameFields
               /\ i \in frames'[i].chain
               /\ frames'[i].chain \subseteq DOMAIN frames'
               /\ \A j \in frames'[i].chain : frames'[j].chain \subseteq frames'[i].chain
    BY <1>3, <1>4, <1>5 DEF Chains
  <2>2. /\ DOMAIN frames'[n] = FrameFields
        /\ n \in frames'[n].chain
        /\ frames'[n].chain \subseteq DOMAIN frames'
        /\ \A j \in frames'[n].chain : frames'[j].chain \subseteq frames'[n].chain
    BY <1>1, <1>3, <1>4, <1>5 DEF Chains
  <2>3. QED
    BY <2>1, <2>2, <1>4, <1>5 DEF Chains
<1>8. Nested(frames', catchstack, fp)
  BY <1>3, <1>6, NestedGrows
<1>9. Nested(frames', catchstack, n)
  <2>1. frames'[fp].chain \subseteq frames'[n].chain
    BY <1>1, <1>3, <1>4
  <2>2. QED
    BY <2>1, <1>8, NestedDeeper
<1>10. Saved(frames')
  <2>1. ASSUME NEW i \in DOMAIN frames
        PROVE  \/ frames'[i].parent = NoFrame /\ frames'[i].origin = NoAddress
               \/ /\ frames'[i].parent \in frames'[i].chain
                  /\ Nested(frames', frames'[i].catchtable, frames'[i].parent)
    <3>1. CASE frames[i].parent = NoFrame /\ frames[i].origin = NoAddress
      BY <3>1, <1>4
    <3>2. CASE /\ frames[i].parent \in frames[i].chain
               /\ Nested(frames, frames[i].catchtable, frames[i].parent)
      <4>1. frames[i].parent \in DOMAIN frames
        BY <3>2, <1>3 DEF Chains
      <4>2. Nested(frames', frames[i].catchtable, frames[i].parent)
        BY <4>1, <3>2, <1>3, <1>6, NestedGrows
      <4>3. QED
        BY <4>2, <3>2, <1>4
    <3>3. QED
      BY <3>1, <3>2, <1>3 DEF Saved
  <2>2. /\ frames'[n].parent \in frames'[n].chain
        /\ Nested(frames', frames'[n].catchtable, frames'[n].parent)
    BY <1>1, <1>3, <1>4, <1>8 DEF Chains
  <2>3. QED
    BY <2>1, <2>2, <1>5 DEF Saved
<1>11. QED
  BY <1>2, <1>5, <1>7, <1>9, <1>10 DEF HandlerInv

\* op_call and op_callmember of a function
LEMMA HandlerCall == HandlerInv /\ CallFunction => HandlerInv'
<1> SUFFICES ASSUME HandlerInv, CallFunction
             PROVE  HandlerInv'
  OBVIOUS
<1>1. status = "run" /\ \E self : Enter(heap, Callee.n, self)
  BY DEF CallFunction, At
<1>2. QED
  BY <1>1, HandlerEnter

\* op_new, with and without a constructor
LEMMA HandlerConstruct == HandlerInv /\ Construct => HandlerInv'
<1> SUFFICES ASSUME HandlerInv, Construct
             PROVE  HandlerInv'
  OBVIOUS
<1>1. status = "run"
  BY DEF Construct, At
<1>2. \/ \E h, self : Enter(h, Constructor.n, self)
      \/ UNCHANGED <<frameVars, endVars>>
  BY DEF Construct
<1>3. CASE \E h, self : Enter(h, Constructor.n, self)
  BY <1>1, <1>3, HandlerEnter
<1>4. CASE UNCHANGED <<frameVars, endVars>>
  BY <1>4, HandlerQuiet DEF frameVars, endVars
<1>5. QED
  BY <1>2, <1>3, <1>4

\* op_return
LEMMA HandlerReturn == HandlerInv /\ Return => HandlerInv'
<1> SUFFICES ASSUME HandlerInv, Return
             PROVE  HandlerInv'
  OBVIOUS
<1>1. /\ status = "run"
      /\ catchstack' = frames[fp].catchtable /\ fp' = frames[fp].parent
      /\ frames' = frames
      /\ frames[fp].origin = NoAddress => status' = "done"
  BY DEF Return, At
<1>2. Chains(frames) /\ Saved(frames) /\ fp \in DOMAIN frames
  BY <1>1 DEF HandlerInv
<1>3. CASE frames[fp].origin = NoAddress
  BY <1>1, <1>2, <1>3 DEF HandlerInv
<1>4. CASE frames[fp].origin # NoAddress
  <2>1. /\ frames[fp].parent \in frames[fp].chain
        /\ Nested(frames, frames[fp].catchtable, frames[fp].parent)
    BY <1>2, <1>4 DEF Saved
  <2>2. frames[fp].parent \in DOMAIN frames
    BY <2>1, <1>2 DEF Chains
  <2>3. QED
    BY <2>1, <2>2, <1>1, <1>2 DEF HandlerInv
<1>5. QED
  BY <1>3, <1>4

\* op_setlocal writes a local of some frame and nothing else.
LEMMA HandlerSetLocal == HandlerInv /\ SetLocal => HandlerInv'
<1> SUFFICES ASSUME HandlerInv, SetLocal
             PROVE  HandlerInv'
  OBVIOUS
<1>1. PICK o, x, v : frames' = [frames EXCEPT ![o].locals[x] = v]
  BY DEF SetLocal
<1>2. /\ status = "run" /\ status' = status
      /\ catchstack' = catchstack /\ fp' = fp
  BY DEF SetLocal, At, endVars
<1>3. /\ Chains(frames) /\ Saved(frames) /\ fp \in DOMAIN frames
      /\ Nested(frames, catchstack, fp)
  BY <1>2 DEF HandlerInv
<1>4. DOMAIN frames' = DOMAIN frames
  BY <1>1
<1>5. ASSUME NEW i \in DOMAIN frames
      PROVE  /\ DOMAIN frames'[i] = FrameFields
             /\ frames'[i].chain = frames[i].chain
             /\ frames'[i].parent = frames[i].parent
             /\ frames'[i].origin = frames[i].origin
             /\ frames'[i].catchtable = frames[i].catchtable
  <2>1. DOMAIN frames[i] = FrameFields
    BY <1>3 DEF Chains
  <2>2. CASE i = o
    BY <2>1, <2>2, <1>1 DEF FrameFields
  <2>3. CASE i # o
    BY <2>1, <2>3, <1>1
  <2>4. QED
    BY <2>2, <2>3
<1>6. IsSeq(frames')
  <2>1. PICK S : frames \in Seq(S)
    BY <1>3, IsSeqElim DEF Chains
  <2> DEFINE new == [frames[o] EXCEPT !.locals[x] = v]
  <2>2. frames' = [frames EXCEPT ![o] = new]
    BY <1>1
  <2> HIDE DEF new
  <2>3. frames \in Seq(S \cup {new}) /\ new \in S \cup {new}
    BY <2>1
  <2>4. frames' \in Seq(S \cup {new})
    <3>1. CASE o \in 1 .. Len(frames)
      BY <3>1, <2>2, <2>3, ExceptSeq
    <3>2. CASE o \notin 1 .. Len(frames)
      <4>1. DOMAIN frames = 1 .. Len(frames) /\ frames = [i \in DOMAIN frames |-> frames[i]]
        BY <2>3
      <4>2. frames' = frames
        BY <4>1, <3>2, <2>2
      <4>3. QED
        BY <4>2, <2>3
    <3>3. QED
      BY <3>1, <3>2
  <2>5. QED
    BY <2>4, IsSeqIntro
<1>7. Grows(frames, frames')
  BY <1>4, <1>5 DEF Grows
<1>8. Chains(frames')
  BY <1>3, <1>4, <1>5, <1>6 DEF Chains
<1>9. Nested(frames', catchstack, fp)
  BY <1>3, <1>7, NestedGrows
<1>10. Saved(frames')
  <2>1. ASSUME NEW i \in DOMAIN frames
        PROVE  \/ frames'[i].parent = NoFrame /\ frames'[i].origin = NoAddress
               \/ /\ frames'[i].parent \in frames'[i].chain
                  /\ Nested(frames', frames'[i].catchtable, frames'[i].parent)
    <3>1. CASE frames[i].parent = NoFrame /\ frames[i].origin = NoAddress
      BY <3>1, <1>5
    <3>2. CASE /\ frames[i].parent \in frames[i].chain
               /\ Nested(frames, frames[i].catchtable, frames[i].parent)
      <4>1. frames[i].parent \in DOMAIN frames
        BY <3>2, <1>3 DEF Chains
      <4>2. Nested(frames', frames[i].catchtable, frames[i].parent)
        BY <4>1, <3>2, <1>3, <1>7, NestedGrows
      <4>3. QED
        BY <4>2, <3>2, <1>5
    <3>3. QED
      BY <3>1, <3>2, <1>3 DEF Saved
  <2>2. QED
    BY <2>1, <1>4 DEF Saved
<1>11. QED
  BY <1>2, <1>3, <1>4, <1>8, <1>9, <1>10 DEF HandlerInv

\* HandlerInv is inductive, whatever the code.
LEMMA HandlerStep == HandlerInv /\ [MachineNext]_vars => HandlerInv'
<1> SUFFICES ASSUME HandlerInv, [MachineNext]_vars
             PROVE  HandlerInv'
  OBVIOUS
<1>1. CASE Push \/ Operator \/ SetGlobal \/ SetMember \/ Branch \/ CallNative
  BY <1>1, HandlerQuiet
     DEF Push, Operator, SetGlobal, SetMember, Branch, CallNative, frameVars, endVars
<1>2. CASE PutFunction \/ PutArray \/ PutHash
  BY <1>2, HandlerQuiet DEF PutFunction, PutArray, PutHash, Make, frameVars, endVars
<1>3. CASE PutSuper \/ PutClass
  BY <1>3, HandlerQuiet DEF PutSuper, PutClass, Make, frameVars, endVars
<1>4. CASE Cut
  BY <1>4, HandlerQuiet DEF Cut, frameVars
<1>5. CASE Uncaught
  BY <1>5, HandlerQuiet DEF Uncaught, frameVars
<1>6. CASE SetLocal
  BY <1>6, HandlerSetLocal
<1>7. CASE CallFunction
  BY <1>7, HandlerCall
<1>8. CASE Construct
  BY <1>8, HandlerConstruct
<1>9. CASE Return
  BY <1>9, HandlerReturn
<1>10. CASE Unwind
  BY <1>10, HandlerUnwind
<1>11. CASE RegisterCatchTable
  BY <1>11, HandlerRegister
<1>12. CASE PopCatchTable
  BY <1>12, HandlerPop
<1>13. CASE UNCHANGED vars
  BY <1>13, HandlerQuiet DEF vars, frameVars, endVars
<1>14. QED
  BY <1>1, <1>2, <1>3, <1>4, <1>5, <1>6, <1>7, <1>8, <1>9, <1>10, <1>11, <1>12, <1>13
     DEF MachineNext

\* Whatever code the VM runs, every registered catchtable belongs to a frame
\* on the chain of the current one, so unwind_catchstack finds it.
THEOREM HandlersAlwaysFound == MachineSpec => []HandlerFrameLive
<1>1. (\E c, input : MachineInit(c, input)) => HandlerInv
  BY HandlerInit
<1>2. HandlerInv /\ [MachineNext]_vars => HandlerInv'
  BY HandlerStep
<1>3. HandlerInv => HandlerFrameLive
  BY DEF HandlerInv, HandlerFrameLive, Nested
<1>4. QED
  BY <1>1, <1>2, <1>3, PTL DEF MachineSpec

-----------------------------------------------------------------------------
(* get_parent()                                                            *)

\* The chain of a frame is what get_parent() leads to: the frame itself, then
\* the chain of its parent.  A parent is older than its child, so the walk of
\* unwind_catchstack along the parents goes down and ends.
ParentsLeadDown ==
  \A i \in DOMAIN frames :
    \/ frames[i].parent = NoFrame /\ frames[i].chain = {i}
    \/ /\ frames[i].parent \in DOMAIN frames
       /\ frames[i].parent < i
       /\ frames[i].chain = {i} \cup frames[frames[i].parent].chain

\* Steps that keep the frames, or change their locals only.
LEMMA ParentsKept ==
  ASSUME ParentsLeadDown, DOMAIN frames' = DOMAIN frames,
         \A i \in DOMAIN frames : /\ frames'[i].parent = frames[i].parent
                                  /\ frames'[i].chain = frames[i].chain
  PROVE  ParentsLeadDown'
BY DEF ParentsLeadDown

\* The new frame of a call is the youngest.
LEMMA ParentsEnter ==
  ASSUME NEW h, NEW f, NEW self, HandlerInv, ParentsLeadDown, status = "run",
         Enter(h, f, self)
  PROVE  ParentsLeadDown'
<1> DEFINE n == Len(frames) + 1
<1>1. PICK r : /\ frames' = Append(frames, r)
               /\ r.parent = fp
               /\ r.chain = {n} \cup frames[fp].chain
  <2> WITNESS [parent |-> fp, env |-> h[f].context, catchtable |-> catchstack,
               origin |-> ip, locals |-> NewLocals(h[f], CallArgs, Len(h) + 1),
               chain |-> {n} \cup frames[fp].chain, base |-> Len(Rest),
               self |-> self, fn |-> f]
  <2>1. QED
    BY DEF Enter
<1>2. IsSeq(frames) /\ fp \in DOMAIN frames
  BY DEF HandlerInv, Chains
<1>3. /\ Len(frames) \in Nat
      /\ DOMAIN frames = 1 .. Len(frames)
      /\ DOMAIN frames' = 1 .. n
      /\ \A i \in DOMAIN frames : frames'[i] = frames[i]
      /\ frames'[n] = r
  BY <1>1, <1>2, AppendFacts
<1>4. /\ DOMAIN frames' = DOMAIN frames \cup {n}
      /\ \A i \in DOMAIN frames : i < n
  BY <1>3
<1> HIDE DEF n
<1>5. ASSUME NEW i \in DOMAIN frames
      PROVE  \/ frames'[i].parent = NoFrame /\ frames'[i].chain = {i}
             \/ /\ frames'[i].parent \in DOMAIN frames'
                /\ frames'[i].parent < i
                /\ frames'[i].chain = {i} \cup frames'[frames'[i].parent].chain
  BY <1>3, <1>4 DEF ParentsLeadDown
<1>6. /\ frames'[n].parent \in DOMAIN frames'
      /\ frames'[n].parent < n
      /\ frames'[n].chain = {n} \cup frames'[frames'[n].parent].chain
  BY <1>1, <1>2, <1>3, <1>4
<1>7. QED
  BY <1>4, <1>5, <1>6 DEF ParentsLeadDown

\* op_setlocal
LEMMA ParentsSetLocal == HandlerInv /\ ParentsLeadDown /\ SetLocal => ParentsLeadDown'
<1> SUFFICES ASSUME HandlerInv, ParentsLeadDown, SetLocal
             PROVE  ParentsLeadDown'
  OBVIOUS
<1>1. PICK o, x, v : frames' = [frames EXCEPT ![o].locals[x] = v]
  BY DEF SetLocal
<1>2. DOMAIN frames' = DOMAIN frames
  BY <1>1
<1>3. ASSUME NEW i \in DOMAIN frames
      PROVE  /\ frames'[i].parent = frames[i].parent
             /\ frames'[i].chain = frames[i].chain
  <2>1. DOMAIN frames[i] = FrameFields
    BY DEF HandlerInv, Chains
  <2>2. CASE i = o
    BY <2>1, <2>2, <1>1 DEF FrameFields
  <2>3. CASE i # o
    BY <2>1, <2>3, <1>1
  <2>4. QED
    BY <2>2, <2>3
<1>4. QED
  BY <1>2, <1>3, ParentsKept

LEMMA ParentsStep ==
  HandlerInv /\ ParentsLeadDown /\ [MachineNext]_vars => ParentsLeadDown'
<1> SUFFICES ASSUME HandlerInv, ParentsLeadDown, [MachineNext]_vars
             PROVE  ParentsLeadDown'
  OBVIOUS
<1>1. frames' = frames => ParentsLeadDown'
  BY ParentsKept
<1>2. CASE Push \/ Operator \/ SetGlobal \/ SetMember \/ Branch \/ CallNative
  BY <1>1, <1>2 DEF Push, Operator, SetGlobal, SetMember, Branch, CallNative, frameVars
<1>3. CASE PutFunction \/ PutArray \/ PutHash \/ PutSuper \/ PutClass
  BY <1>1, <1>3 DEF PutFunction, PutArray, PutHash, PutSuper, PutClass, Make, frameVars
<1>4. CASE Cut \/ Uncaught \/ RegisterCatchTable \/ PopCatchTable
  BY <1>1, <1>4 DEF Cut, Uncaught, RegisterCatchTable, PopCatchTable, frameVars
<1>5. CASE Return \/ Unwind
  BY <1>1, <1>5 DEF Return, Unwind
<1>6. CASE SetLocal
  BY <1>6, ParentsSetLocal
<1>7. CASE CallFunction
  <2>1. status = "run" /\ \E self : Enter(heap, Callee.n, self)
    BY <1>7 DEF CallFunction, At
  <2>2. QED
    BY <2>1, ParentsEnter
<1>8. CASE Construct
  <2>1. status = "run"
    BY <1>8 DEF Construct, At
  <2>2. \/ \E h, self : Enter(h, Constructor.n, self)
        \/ UNCHANGED <<frameVars, endVars>>
    BY <1>8 DEF Construct
  <2>3. CASE \E h, self : Enter(h, Constructor.n, self)
    BY <2>1, <2>3, ParentsEnter
  <2>4. CASE UNCHANGED <<frameVars, endVars>>
    BY <2>4, <1>1 DEF frameVars
  <2>5. QED
    BY <2>2, <2>3, <2>4
<1>9. CASE UNCHANGED vars
  BY <1>1, <1>9 DEF vars, frameVars
<1>10. QED
  BY <1>2, <1>3, <1>4, <1>5, <1>6, <1>7, <1>8, <1>9 DEF MachineNext

\* Whatever code the VM runs, following get_parent() from a frame visits older
\* and older frames, ends, and passes exactly the frames of its chain: the loops
\* of unwind_catchstack and debug_stacktrace are not endless, and the chain that
\* HandlersAlwaysFound speaks of is the one unwind_catchstack walks.
THEOREM ParentWalkEnds == MachineSpec => []ParentsLeadDown
<1>1. (\E c, input : MachineInit(c, input)) => HandlerInv
  BY HandlerInit
<1>2. HandlerInv /\ [MachineNext]_vars => HandlerInv'
  BY HandlerStep
<1>3. (\E c, input : MachineInit(c, input)) => ParentsLeadDown
  BY DEF MachineInit, ParentsLeadDown
<1>4. HandlerInv /\ ParentsLeadDown /\ [MachineNext]_vars => ParentsLeadDown'
  BY ParentsStep
<1>5. QED
  BY <1>1, <1>2, <1>3, <1>4, PTL DEF MachineSpec

-----------------------------------------------------------------------------
(* References                                                              *)

\* What was in the heap h is in the heap g, and is of the same kind.
Keeps(h, g) ==
  /\ DOMAIN h \subseteq DOMAIN g
  /\ \A i \in DOMAIN h : DOMAIN g[i] = DOMAIN h[i]

\* The heap, when n frames were made.
HeapSound(h, n) ==
  /\ IsSeq(h)
  /\ \A i \in DOMAIN h : Sound(h, i, h[i], n)
  /\ IsA(h, 2, ObjectShape)

LEMMA ShapesDiffer ==
  /\ "klass" \in ObjectShape /\ "klass" \notin ArrayShape \cup ClassShape \cup FunctionShape
  /\ "elems" \in ArrayShape /\ "elems" \notin ObjectShape \cup ClassShape \cup FunctionShape
  /\ "parent" \in ClassShape /\ "parent" \notin ObjectShape \cup ArrayShape \cup FunctionShape
  /\ "bound" \in FunctionShape /\ "bound" \notin ObjectShape \cup ArrayShape \cup ClassShape
BY DEF ObjectShape, ArrayShape, ClassShape, FunctionShape

LEMMA KeepsLive ==
  ASSUME NEW h, NEW g, NEW v, Keeps(h, g), Live(h, v)
  PROVE  Live(g, v)
BY DEF Keeps, Live, IsA, ClassesIn

LEMMA KeepsAll ==
  ASSUME NEW h, NEW g, NEW f, Keeps(h, g), AllLive(h, f)
  PROVE  AllLive(g, f)
BY KeepsLive DEF AllLive

\* New places and new frames do not disturb what exists.
LEMMA KeepsSound ==
  ASSUME NEW h, NEW g, NEW i, NEW o, NEW n \in Nat, NEW m \in Nat,
         Keeps(h, g), n <= m, Sound(h, i, o, n)
  PROVE  Sound(g, i, o, m)
<1>1. \A f : AllLive(h, f) => AllLive(g, f)
  BY KeepsAll
<1>2. \A v : Live(h, v) => Live(g, v)
  BY KeepsLive
<1>3. ClassesIn(h) \subseteq ClassesIn(g)
  BY DEF Keeps, ClassesIn
<1>4. \A j, shape : IsA(h, j, shape) => IsA(g, j, shape)
  BY DEF Keeps, IsA
<1>5. CASE DOMAIN o = ObjectShape /\ o.klass \in ClassesIn(h) /\ AllLive(h, o.fields)
  BY <1>1, <1>3, <1>5 DEF Sound
<1>6. CASE DOMAIN o = ArrayShape /\ IsSeq(o.elems) /\ AllLive(h, o.elems)
  BY <1>1, <1>6 DEF Sound
<1>7. CASE /\ DOMAIN o = ClassShape
           /\ o.parent \in 0 .. i - 1 /\ o.parent \in ClassesIn(h)
           /\ IsA(h, o.proto, ObjectShape)
           /\ o.constructor = Null \/ (o.constructor.k = "function" /\ Live(h, o.constructor))
           /\ AllLive(h, o.fields)
  BY <1>1, <1>2, <1>3, <1>4, <1>7 DEF Sound
<1>8. CASE /\ DOMAIN o = FunctionShape
           /\ o.context \in 0 .. n /\ (o.context = NoFrame => i = 1)
           /\ o.lvarcount \in Nat /\ o.args \in BOOLEAN /\ o.anonymous \in BOOLEAN
           /\ o.host \in ClassesIn(h)
           /\ IsSeq(o.bound) /\ AllLive(h, o.bound)
           /\ AllLive(h, o.fields)
  <2>1. o.context \in 0 .. m
    BY <1>8
  <2>2. QED
    BY <2>1, <1>1, <1>3, <1>8 DEF Sound
<1>9. QED
  BY <1>5, <1>6, <1>7, <1>8 DEF Sound

\* What places of each kind hold.
LEMMA ObjectHolds ==
  ASSUME NEW h, NEW n, NEW i, HeapSound(h, n), IsA(h, i, ObjectShape)
  PROVE  h[i].klass \in ClassesIn(h) /\ AllLive(h, h[i].fields)
BY ShapesDiffer DEF HeapSound, IsA, Sound

LEMMA ArrayHolds ==
  ASSUME NEW h, NEW n, NEW i, HeapSound(h, n), IsA(h, i, ArrayShape)
  PROVE  IsSeq(h[i].elems) /\ AllLive(h, h[i].elems)
BY ShapesDiffer DEF HeapSound, IsA, Sound

LEMMA ClassHolds ==
  ASSUME NEW h, NEW n, NEW i, HeapSound(h, n), i \in ClassesIn(h), i # 0
  PROVE  /\ i \in DOMAIN h /\ DOMAIN h[i] = ClassShape
         /\ h[i].parent \in 0 .. i - 1 /\ h[i].parent \in ClassesIn(h)
         /\ IsA(h, h[i].proto, ObjectShape)
         /\ \/ h[i].constructor = Null
            \/ h[i].constructor.k = "function" /\ Live(h, h[i].constructor)
         /\ AllLive(h, h[i].fields)
BY ShapesDiffer DEF HeapSound, ClassesIn, Sound

LEMMA FunctionHolds ==
  ASSUME NEW h, NEW n, NEW i, HeapSound(h, n), IsA(h, i, FunctionShape)
  PROVE  /\ h[i].context \in 0 .. n /\ (h[i].context = NoFrame => i = 1)
         /\ h[i].lvarcount \in Nat /\ h[i].args \in BOOLEAN /\ h[i].anonymous \in BOOLEAN
         /\ h[i].host \in ClassesIn(h)
         /\ IsSeq(h[i].bound) /\ AllLive(h, h[i].bound)
         /\ AllLive(h, h[i].fields)
BY ShapesDiffer DEF HeapSound, IsA, Sound

\* A heap that keeps what was there, and whose places refer to what was there.
LEMMA HeapKept ==
  ASSUME NEW h, NEW g, NEW n \in Nat, HeapSound(h, n), IsSeq(g), Keeps(h, g),
         \A i \in DOMAIN g : Sound(h, i, g[i], n)
  PROVE  HeapSound(g, n)
BY KeepsSound DEF HeapSound, Keeps, IsA

\* Something new is made.
LEMMA HeapAppend ==
  ASSUME NEW h, NEW n \in Nat, NEW o, HeapSound(h, n), Sound(h, Len(h) + 1, o, n)
  PROVE  /\ HeapSound(Append(h, o), n)
         /\ Keeps(h, Append(h, o))
         /\ Len(h) \in Nat
         /\ Len(h) + 1 \in DOMAIN Append(h, o)
         /\ Append(h, o)[Len(h) + 1] = o
<1> DEFINE g == Append(h, o)
<1>1. /\ IsSeq(g) /\ Len(h) \in Nat /\ DOMAIN h = 1 .. Len(h)
      /\ DOMAIN g = 1 .. Len(h) + 1
      /\ \A i \in DOMAIN h : g[i] = h[i]
      /\ g[Len(h) + 1] = o
  BY AppendFacts DEF HeapSound
<1> HIDE DEF g
<1>2. DOMAIN g = DOMAIN h \cup {Len(h) + 1}
  BY <1>1
<1>3. Keeps(h, g)
  BY <1>1, <1>2 DEF Keeps
<1>4. \A i \in DOMAIN g : Sound(h, i, g[i], n)
  BY <1>1, <1>2 DEF HeapSound
<1>5. HeapSound(g, n)
  BY <1>1, <1>3, <1>4, HeapKept
<1>6. QED
  BY <1>1, <1>2, <1>3, <1>5 DEF g

\* A place is written.
LEMMA HeapWrite ==
  ASSUME NEW h, NEW n \in Nat, NEW i \in DOMAIN h, NEW o, HeapSound(h, n),
         DOMAIN o = DOMAIN h[i], Sound(h, i, o, n)
  PROVE  /\ HeapSound([h EXCEPT ![i] = o], n)
         /\ Keeps(h, [h EXCEPT ![i] = o])
<1> DEFINE g == [h EXCEPT ![i] = o]
<1>1. PICK S : h \in Seq(S)
  BY IsSeqElim DEF HeapSound
<1>2. h \in Seq(S \cup {o}) /\ i \in 1 .. Len(h)
  BY <1>1
<1>3. g \in Seq(S \cup {o})
  BY <1>2, ExceptSeq
<1>4. IsSeq(g)
  BY <1>3, IsSeqIntro
<1>5. /\ DOMAIN g = DOMAIN h /\ g[i] = o
      /\ \A j \in DOMAIN h : j # i => g[j] = h[j]
  OBVIOUS
<1> HIDE DEF g
<1>6. Keeps(h, g)
  BY <1>5 DEF Keeps
<1>7. \A j \in DOMAIN g : Sound(h, j, g[j], n)
  BY <1>5 DEF HeapSound
<1>8. HeapSound(g, n)
  BY <1>4, <1>6, <1>7, HeapKept
<1>9. QED
  BY <1>6, <1>8 DEF g

\* Sequences of none, one and two values.
LEMMA OneLive ==
  ASSUME NEW h, NEW v, Live(h, v)
  PROVE  IsSeq(<<v>>) /\ AllLive(h, <<v>>)
<1>1. <<v>> \in Seq({v}) /\ DOMAIN <<v>> = {1}
  OBVIOUS
<1>2. AllLive(h, <<v>>)
  BY DEF AllLive
<1> QED
  BY <1>1, <1>2, IsSeqIntro

LEMMA NoneLive ==
  ASSUME NEW h
  PROVE  IsSeq(<<>>) /\ AllLive(h, <<>>)
<1>1. <<>> \in Seq({}) /\ DOMAIN <<>> = {}
  OBVIOUS
<1> QED
  BY <1>1, IsSeqIntro DEF AllLive

LEMMA TwoLive ==
  ASSUME NEW h, NEW v, NEW w, Live(h, v), Live(h, w)
  PROVE  IsSeq(<<v, w>>) /\ AllLive(h, <<v, w>>)
<1>1. <<v, w>> \in Seq({v, w}) /\ DOMAIN <<v, w>> = {1, 2}
  OBVIOUS
<1>2. AllLive(h, <<v, w>>)
  BY <1>1 DEF AllLive
<1> QED
  BY <1>1, <1>2, IsSeqIntro

-----------------------------------------------------------------------------
(* Searches.  A recursive function that goes down is defined, and what it  *)
(* finds is at a place it stops at: by contradiction, at the first place   *)
(* where this is not so.                                                   *)

\* A set of naturals has a least element.
LEMMA LeastOf ==
  ASSUME NEW T, T \subseteq Nat, T # {}
  PROVE  \E x \in T : \A y \in T : x <= y
<1> DEFINE R == {ss \in Nat \X Nat : ss[1] < ss[2]}
<1>1. IsWellFoundedOn(R, Nat)
  BY NatLessThanWellFounded DEF OpToRel
<1>2. \A x, y \in Nat : x < y => <<x, y>> \in R
  OBVIOUS
<1> HIDE DEF R
<1>3. PICK x \in T : \A y \in T : ~(<<y, x>> \in R)
  BY <1>1, WFMin
<1>4. ASSUME NEW y \in T PROVE x <= y
  <2>1. x \in Nat /\ y \in Nat
    OBVIOUS
  <2>2. ~(y < x)
    BY <1>2, <1>3, <2>1
  <2> QED
    BY <2>1, <2>2
<1> QED
  BY <1>4

\* g searches from places in D down along p, and stops at those in stop.
Searches(g, D, stop, d, p) ==
  \A i \in D : g[i] = IF i \in stop THEN d[i] ELSE g[p[i]]

\* ... and is defined on these places alone.
IsSearch(g, D, stop, d, p) ==
  g = [i \in D |-> IF i \in stop THEN d[i] ELSE g[p[i]]]

GoesDown(D, stop, p) ==
  /\ \E m \in Nat : D \subseteq 0 .. m
  /\ \A i \in D : i \in stop \/ (p[i] \in D /\ p[i] < i)

LEMMA SearchExists ==
  ASSUME NEW D, NEW stop, NEW d, NEW p, GoesDown(D, stop, p)
  PROVE  \E g : IsSearch(g, D, stop, d, p)
<1> PICK m \in Nat : D \subseteq 0 .. m
  BY DEF GoesDown
<1> DEFINE To(n) == {i \in D : i <= n}
           Bad == {n \in Nat : ~ \E g : Searches(g, To(n), stop, d, p)}
<1>1. Bad = {}
  <2> SUFFICES ASSUME Bad # {} PROVE FALSE
    OBVIOUS
  <2>1. PICK n \in Bad : \A k \in Bad : n <= k
    <3>1. Bad \subseteq Nat
      OBVIOUS
    <3> HIDE DEF Bad
    <3> QED
      BY <3>1, LeastOf
  <2>2. n \in Nat
    OBVIOUS
  <2>3. \E g : \A i \in D : i < n => g[i] = IF i \in stop THEN d[i] ELSE g[p[i]]
    <3>1. CASE n = 0
      BY <3>1
    <3>2. CASE n # 0
      <4>1. n - 1 \in Nat /\ ~(n <= n - 1)
        BY <2>2, <3>2
      <4>2. n - 1 \notin Bad
        BY <2>1, <4>1
      <4>3. PICK g : Searches(g, To(n - 1), stop, d, p)
        BY <4>1, <4>2
      <4>4. \A i \in D : i < n => i \in To(n - 1)
        BY <2>2
      <4> QED
        BY <4>3, <4>4 DEF Searches
    <3> QED
      BY <3>1, <3>2
  <2>4. PICK g : \A i \in D : i < n => g[i] = IF i \in stop THEN d[i] ELSE g[p[i]]
    BY <2>3
  <2> DEFINE f == [i \in D |-> IF i < n THEN g[i] ELSE IF i \in stop THEN d[i] ELSE g[p[i]]]
  <2>5. ASSUME NEW i \in To(n)
        PROVE  f[i] = IF i \in stop THEN d[i] ELSE f[p[i]]
    <3>1. i \in D /\ i \in Nat /\ i <= n
      OBVIOUS
    <3>2. CASE i \in stop
      BY <2>4, <3>1, <3>2
    <3>3. CASE i \notin stop
      <4>0. p[i] \in D /\ p[i] < i /\ p[i] \in 0 .. m
        BY <3>1, <3>3 DEF GoesDown
      <4>1. p[i] \in D /\ p[i] < n
        BY <2>2, <3>1, <4>0
      <4>2. f[p[i]] = g[p[i]]
        BY <4>1
      <4>3. f[i] = g[p[i]]
        BY <2>4, <3>1, <3>3
      <4> QED
        BY <3>3, <4>2, <4>3
    <3> QED
      BY <3>2, <3>3
  <2>6. Searches(f, To(n), stop, d, p)
    BY <2>5 DEF Searches
  <2>7. n \notin Bad
    <3> HIDE DEF f
    <3> QED
      BY <2>6
  <2> QED
    BY <2>1, <2>7
<1>2. PICK g : Searches(g, To(m), stop, d, p)
  BY <1>1
<1>3. ASSUME NEW i \in D PROVE i \in To(m)
  <2>1. i \in 0 .. m
    OBVIOUS
  <2>2. i <= m
    BY <2>1
  <2> QED
    BY <2>2
<1> DEFINE f == [i \in D |-> g[i]]
<1>4. ASSUME NEW i \in D
      PROVE  f[i] = IF i \in stop THEN d[i] ELSE f[p[i]]
  BY <1>2, <1>3 DEF Searches, GoesDown
<1>5. f = [i \in D |-> IF i \in stop THEN d[i] ELSE f[p[i]]]
  BY <1>4
<1>6. IsSearch(f, D, stop, d, p)
  BY <1>5 DEF IsSearch
<1> HIDE DEF f
<1> QED
  BY <1>6

LEMMA SearchFinds ==
  ASSUME NEW D, NEW stop, NEW d, NEW p, NEW g, NEW c \in D,
         GoesDown(D, stop, p), Searches(g, D, stop, d, p)
  PROVE  \E i \in D \cap stop : g[c] = d[i]
<1> PICK m \in Nat : D \subseteq 0 .. m
  BY DEF GoesDown
<1> DEFINE Bad == {i \in D : ~ \E j \in D \cap stop : g[i] = d[j]}
<1> SUFFICES ASSUME Bad # {} PROVE FALSE
  OBVIOUS
<1>1. PICK i \in Bad : \A k \in Bad : i <= k
  <2>1. Bad \subseteq Nat
    <3>1. Bad \subseteq D
      OBVIOUS
    <3>2. D \subseteq Nat
      <4>1. 0 .. m \subseteq Nat
        OBVIOUS
      <4> QED
        BY <4>1
    <3> QED
      BY <3>1, <3>2
  <2> HIDE DEF Bad
  <2> QED
    BY <2>1, LeastOf
<1>2. i \in D /\ i \notin stop
  BY DEF Searches
<1>3. p[i] \in D /\ p[i] < i /\ g[i] = g[p[i]]
  BY <1>2 DEF Searches, GoesDown
<1>4. p[i] \notin Bad
  <2>1. p[i] \in 0 .. m /\ i \in 0 .. m
    BY <1>2, <1>3
  <2>2. ~(i <= p[i])
    BY <1>3, <2>1
  <2> HIDE DEF Bad
  <2> QED
    BY <1>1, <2>2
<1> QED
  BY <1>1, <1>3, <1>4

-----------------------------------------------------------------------------
\* The classes of a sound heap lead down to the primitive Object.
LEMMA ClassesLeadDown ==
  ASSUME NEW h, NEW n, HeapSound(h, n), NEW stop, 0 \in stop
  PROVE  GoesDown(ClassesIn(h), stop, [i \in ClassesIn(h) |-> h[i].parent])
<1>1. Len(h) \in Nat /\ DOMAIN h = 1 .. Len(h)
  BY AppendFacts DEF HeapSound
<1>2. ClassesIn(h) \subseteq 0 .. Len(h)
  BY <1>1 DEF ClassesIn
<1>3. ASSUME NEW i \in ClassesIn(h), i \notin stop
      PROVE  h[i].parent \in ClassesIn(h) /\ h[i].parent < i
  <2>1. i # 0
    BY <1>3
  <2>2. h[i].parent \in 0 .. i - 1 /\ h[i].parent \in ClassesIn(h)
    BY <2>1, ClassHolds
  <2> QED
    BY <1>2, <2>2
<1> QED
  BY <1>1, <1>2, <1>3 DEF GoesDown

\* Class::find_constructor
LEMMA FindConstructorFinds ==
  ASSUME NEW h, NEW n, HeapSound(h, n), NEW c \in ClassesIn(h)
  PROVE  \/ FindConstructor(h, c) = Null
         \/ FindConstructor(h, c).k = "function" /\ Live(h, FindConstructor(h, c))
<1> DEFINE D == ClassesIn(h)
           Eq(g) == g = [i \in D |->
                           IF i = 0 THEN Null
                           ELSE IF h[i].constructor # Null THEN h[i].constructor
                                ELSE g[h[i].parent]]
           find == CHOOSE g : Eq(g)
           stop == {i \in D : i = 0 \/ h[i].constructor # Null}
           d    == [i \in D |-> IF i = 0 THEN Null ELSE h[i].constructor]
           p    == [i \in D |-> h[i].parent]
<1>1. FindConstructor(h, c) = find[c]
  BY DEF FindConstructor
<1>2. GoesDown(D, stop, p)
  <2>1. 0 \in stop
    BY DEF ClassesIn
  <2> QED
    BY <2>1, ClassesLeadDown
<1>3. ASSUME NEW g, IsSearch(g, D, stop, d, p)
      PROVE  Eq(g)
  <2>1. ASSUME NEW i \in D
        PROVE  g[i] = IF i = 0 THEN Null
                      ELSE IF h[i].constructor # Null THEN h[i].constructor
                           ELSE g[h[i].parent]
    BY <1>3 DEF IsSearch
  <2>2. g = [i \in D |-> g[i]]
    BY <1>3 DEF IsSearch
  <2> QED
    BY <2>1, <2>2
<1>4. \E g : IsSearch(g, D, stop, d, p)
  <2> HIDE DEF D, stop, d, p
  <2> QED
    BY <1>2, SearchExists
<1>5. Eq(find)
  <2> HIDE DEF Eq
  <2>1. \E g : Eq(g)
    BY <1>3, <1>4
  <2> QED
    BY <2>1
<1> HIDE DEF find
<1>6. Searches(find, D, stop, d, p)
  BY <1>5 DEF Searches
<1>7. PICK i \in D \cap stop : find[c] = d[i]
  <2>1. c \in D
    OBVIOUS
  <2> HIDE DEF D, stop, d, p, Eq
  <2> QED
    BY <1>2, <1>6, <2>1, SearchFinds
<1>8. CASE i = 0
  BY <1>1, <1>7, <1>8
<1>9. CASE i # 0
  <2>1. \/ h[i].constructor = Null
        \/ h[i].constructor.k = "function" /\ Live(h, h[i].constructor)
    BY <1>9, ClassHolds
  <2> QED
    BY <1>1, <1>7, <1>9, <2>1
<1> QED
  BY <1>8, <1>9

\* Class::find_value
LEMMA FindValueFinds ==
  ASSUME NEW h, NEW n, HeapSound(h, n), NEW c \in ClassesIn(h), NEW x
  PROVE  \/ FindValue(h, c, x) = <<>>
         \/ \E v : FindValue(h, c, x) = <<v>> /\ Live(h, v)
<1> DEFINE D == ClassesIn(h)
           F(i) == h[h[i].proto].fields
           Eq(g) == g = [i \in D |->
                           IF i = 0 THEN <<>>
                           ELSE IF x \in DOMAIN F(i) THEN <<F(i)[x]>> ELSE g[h[i].parent]]
           find == CHOOSE g : Eq(g)
           stop == {i \in D : i = 0 \/ x \in DOMAIN F(i)}
           d    == [i \in D |-> IF i = 0 THEN <<>> ELSE <<F(i)[x]>>]
           p    == [i \in D |-> h[i].parent]
<1>1. FindValue(h, c, x) = find[c]
  BY DEF FindValue
<1>2. GoesDown(D, stop, p)
  <2>1. 0 \in stop
    BY DEF ClassesIn
  <2> QED
    BY <2>1, ClassesLeadDown
<1>3. ASSUME NEW g, IsSearch(g, D, stop, d, p)
      PROVE  Eq(g)
  <2>1. ASSUME NEW i \in D
        PROVE  g[i] = IF i = 0 THEN <<>>
                      ELSE IF x \in DOMAIN F(i) THEN <<F(i)[x]>> ELSE g[h[i].parent]
    BY <1>3 DEF IsSearch
  <2>2. g = [i \in D |-> g[i]]
    BY <1>3 DEF IsSearch
  <2> QED
    BY <2>1, <2>2
<1>4. \E g : IsSearch(g, D, stop, d, p)
  <2> HIDE DEF D, stop, d, p
  <2> QED
    BY <1>2, SearchExists
<1>5. Eq(find)
  <2> HIDE DEF Eq
  <2>1. \E g : Eq(g)
    BY <1>3, <1>4
  <2> QED
    BY <2>1
<1> HIDE DEF find
<1>6. Searches(find, D, stop, d, p)
  BY <1>5 DEF Searches
<1>7. PICK i \in D \cap stop : find[c] = d[i]
  <2>1. c \in D
    OBVIOUS
  <2> HIDE DEF D, stop, d, p, Eq
  <2> QED
    BY <1>2, <1>6, <2>1, SearchFinds
<1>8. CASE i = 0
  BY <1>1, <1>7, <1>8
<1>9. CASE i # 0
  <2>1. IsA(h, h[i].proto, ObjectShape) /\ x \in DOMAIN F(i)
    BY <1>7, <1>9, ClassHolds
  <2>2. AllLive(h, F(i))
    BY <2>1, ObjectHolds
  <2>3. Live(h, F(i)[x])
    BY <2>1, <2>2 DEF AllLive
  <2>4. find[c] = <<F(i)[x]>>
    BY <1>7, <1>9
  <2> QED
    BY <1>1, <2>3, <2>4
<1> QED
  BY <1>8, <1>9

-----------------------------------------------------------------------------
(* The frames out                                                          *)

\* g repeats F, from a on.
Repeats(g, n, a, F) == g[0] = a /\ \A i \in 1 .. n : g[i] = F[g[i - 1]]

LEMMA RepeatExists ==
  ASSUME NEW S, NEW a \in S, NEW F \in [S -> S], NEW n \in Nat
  PROVE  \E g \in [0 .. n -> S] : Repeats(g, n, a, F)
<1> DEFINE Bad == {k \in Nat : ~ \E g \in [0 .. k -> S] : Repeats(g, k, a, F)}
<1> SUFFICES ASSUME Bad # {} PROVE FALSE
  OBVIOUS
<1>1. PICK k \in Bad : \A j \in Bad : k <= j
  <2>1. Bad \subseteq Nat
    OBVIOUS
  <2> HIDE DEF Bad
  <2> QED
    BY <2>1, LeastOf
<1>2. k \in Nat /\ ~ \E g \in [0 .. k -> S] : Repeats(g, k, a, F)
  OBVIOUS
<1>3. CASE k = 0
  <2> DEFINE f == [i \in 0 .. k |-> a]
  <2>1. f \in [0 .. k -> S] /\ Repeats(f, k, a, F)
    BY <1>3 DEF Repeats
  <2> HIDE DEF f
  <2> QED
    BY <1>2, <2>1
<1>4. CASE k # 0
  <2>1. k - 1 \in Nat /\ ~(k <= k - 1)
    BY <1>2, <1>4
  <2>2. k - 1 \notin Bad
    <3> HIDE DEF Bad
    <3> QED
      BY <1>1, <2>1
  <2>3. PICK g \in [0 .. k - 1 -> S] : Repeats(g, k - 1, a, F)
    BY <2>1, <2>2
  <2> DEFINE f == [i \in 0 .. k |-> IF i = k THEN F[g[k - 1]] ELSE g[i]]
  <2>4. f \in [0 .. k -> S]
    <3>1. \A i \in 0 .. k : i # k => i \in 0 .. k - 1
      BY <1>2
    <3>2. k - 1 \in 0 .. k - 1
      BY <2>1
    <3> QED
      BY <3>1, <3>2
  <2>5. f[0] = a
    BY <1>2, <1>4, <2>3 DEF Repeats
  <2>6. ASSUME NEW i \in 1 .. k PROVE f[i] = F[f[i - 1]]
    <3>1. i \in 0 .. k /\ i - 1 \in 0 .. k /\ i - 1 # k
      BY <1>2
    <3>2. f[i - 1] = g[i - 1]
      BY <3>1
    <3>3. CASE i = k
      BY <3>1, <3>2, <3>3
    <3>4. CASE i # k
      <4>1. i \in 1 .. k - 1
        BY <1>2, <3>4
      <4> QED
        BY <2>3, <3>1, <3>2, <3>4, <4>1 DEF Repeats
    <3> QED
      BY <3>3, <3>4
  <2>7. Repeats(f, k, a, F)
    BY <2>5, <2>6 DEF Repeats
  <2> HIDE DEF f
  <2> QED
    BY <1>2, <2>4, <2>7
<1> QED
  BY <1>3, <1>4

\* The environments lead to frames, or to none.
LEMMA OuterIsFrame ==
  ASSUME Len(frames) \in Nat, DOMAIN frames = 1 .. Len(frames), fp \in DOMAIN frames,
         \A f \in DOMAIN frames : frames[f].env \in 0 .. f - 1,
         NEW n \in Nat
  PROVE  Outer(n) \in 0 .. Len(frames)
<1> DEFINE S == 0 .. Len(frames)
           F == [f \in S |-> IF f = NoFrame THEN NoFrame ELSE frames[f].env]
           Eq(g) == g = [i \in 0 .. n |->
                           IF i = 0 THEN fp
                           ELSE IF g[i - 1] = NoFrame THEN NoFrame ELSE frames[g[i - 1]].env]
           out == CHOOSE g : Eq(g)
<1>1. Outer(n) = out[n]
  BY DEF Outer
<1>2. fp \in S /\ F \in [S -> S]
  <2>1. ASSUME NEW f \in S, f # NoFrame PROVE frames[f].env \in S
    <3>1. f \in DOMAIN frames
      BY <2>1 DEF NoFrame
    <3>2. frames[f].env \in 0 .. f - 1
      BY <3>1
    <3> QED
      BY <3>2
  <2>2. NoFrame \in S
    BY DEF NoFrame
  <2> QED
    BY <2>1, <2>2
<1>3. \E g : Eq(g)
  <2>1. PICK g \in [0 .. n -> S] : Repeats(g, n, fp, F)
    <3> HIDE DEF S, F
    <3> QED
      BY <1>2, RepeatExists
  <2>2. ASSUME NEW i \in 0 .. n
        PROVE  g[i] = IF i = 0 THEN fp
                      ELSE IF g[i - 1] = NoFrame THEN NoFrame ELSE frames[g[i - 1]].env
    <3>1. CASE i = 0
      BY <2>1, <3>1 DEF Repeats
    <3>2. CASE i # 0
      <4>1. i \in 1 .. n /\ i - 1 \in 0 .. n
        BY <3>2
      <4>2. g[i] = F[g[i - 1]] /\ g[i - 1] \in S
        BY <2>1, <4>1 DEF Repeats
      <4> QED
        BY <3>2, <4>2
    <3> QED
      BY <3>1, <3>2
  <2>3. Eq(g)
    BY <2>1, <2>2
  <2> HIDE DEF Eq
  <2> QED
    BY <2>3
<1>4. Eq(out)
  <2> HIDE DEF Eq
  <2> QED
    BY <1>3
<1> HIDE DEF out
<1>5. \A i \in 0 .. n : out[i] \in S
  <2> DEFINE Bad == {i \in 0 .. n : out[i] \notin S}
  <2> SUFFICES ASSUME Bad # {} PROVE FALSE
    OBVIOUS
  <2>1. PICK i \in Bad : \A j \in Bad : i <= j
    <3>1. Bad \subseteq Nat
      <4>1. Bad \subseteq 0 .. n
        OBVIOUS
      <4> QED
        BY <4>1
    <3> HIDE DEF Bad
    <3> QED
      BY <3>1, LeastOf
  <2>2. i \in 0 .. n /\ out[i] \notin S
    OBVIOUS
  <2>3. i # 0
    BY <1>2, <1>4, <2>2
  <2>4. i - 1 \in 0 .. n /\ ~(i <= i - 1)
    BY <2>2, <2>3
  <2>5. out[i - 1] \in S
    BY <2>1, <2>4
  <2>6. out[i] = F[out[i - 1]]
    BY <1>4, <2>2, <2>3, <2>5
  <2> HIDE DEF S, F
  <2> QED
    BY <1>2, <2>2, <2>5, <2>6
<1> QED
  BY <1>1, <1>5

-----------------------------------------------------------------------------
(* Members and elements                                                    *)

\* A value that is not on the heap refers to nothing.
LEMMA PlainLive ==
  ASSUME NEW h, NEW v, v.k \notin {"object", "array", "class", "function"}
  PROVE  Live(h, v)
BY DEF Live

LEMMA ConstantsLive ==
  ASSUME NEW h
  PROVE  /\ Live(h, Null) /\ Live(h, True) /\ Live(h, False) /\ Live(h, NaN)
         /\ Live(h, InternalError) /\ Live(h, In) /\ Live(h, Out)
         /\ \A n : Live(h, Num(n))
         /\ \A s : Live(h, Str(s))
         /\ \A s : Live(h, Primitive(s))
BY DEF Live, Null, True, False, NaN, InternalError, In, Out, Num, Str, Primitive, Value,
       ClassesIn

LEMMA ClassValueLive ==
  ASSUME NEW h, NEW c \in ClassesIn(h)
  PROVE  Live(h, ClassValue(c))
BY ConstantsLive DEF Live, ClassValue, Value

\* A value of a class with members.
IsMade(v) == ~(v.k = "class" /\ v.n = 0)

\* At most one live value.
Option(h, s) == s = <<>> \/ \E v : s = <<v>> /\ Live(h, v)

LEMMA OptionLive ==
  ASSUME NEW h, NEW s, Option(h, s), s # <<>>
  PROVE  Live(h, s[1])
BY DEF Option

\* What is read like a field.
LEMMA BuiltinLive ==
  ASSUME NEW h, NEW n, HeapSound(h, n), NEW v, Live(h, v), IsMade(v), NEW x
  PROVE  Option(h, Builtin(h, v, x))
<1> DEFINE o == h[v.n]
<1> USE ConstantsLive
<1>1. CASE v.k = "object"
  <2>1. IsA(h, v.n, ObjectShape)
    BY <1>1 DEF Live
  <2>2. Live(h, ClassValue(o.klass))
    BY <2>1, ObjectHolds, ClassValueLive
  <2>3. Builtin(h, v, x) = IF x = "klass" THEN <<ClassValue(o.klass)>> ELSE <<>>
    BY <1>1 DEF Builtin
  <2> QED
    BY <2>2, <2>3 DEF Option
<1>2. CASE v.k = "array"
  <2>1. \/ Builtin(h, v, x) = <<Num(Len(o.elems))>>
        \/ Builtin(h, v, x) = <<Primitive(TypeString(v))>>
        \/ Builtin(h, v, x) = <<>>
    BY <1>2 DEF Builtin
  <2> QED
    BY <2>1 DEF Option
<1>3. CASE v.k = "class"
  <2>1. v.n \in ClassesIn(h) /\ v.n # 0
    BY <1>3 DEF Live, IsMade
  <2>2. /\ Live(h, ClassValue(o.parent))
        /\ Live(h, o.constructor)
        /\ IsA(h, o.proto, ObjectShape)
    BY <2>1, ClassHolds, ClassValueLive
  <2>3. Live(h, Value("object", o.proto))
    BY <2>2 DEF Live, Value
  <2>4. \/ Builtin(h, v, x) = <<Str(o.name)>>
        \/ Builtin(h, v, x) = <<Value("object", o.proto)>>
        \/ Builtin(h, v, x) = <<o.constructor>>
        \/ Builtin(h, v, x) = <<ClassValue(o.parent)>>
        \/ Builtin(h, v, x) = <<Primitive(TypeString(v))>>
        \/ Builtin(h, v, x) = <<>>
    BY <1>3 DEF Builtin
  <2> QED
    BY <2>2, <2>3, <2>4 DEF Option
<1>4. CASE v.k = "function"
  <2>1. IsA(h, v.n, FunctionShape)
    BY <1>4 DEF Live
  <2>2. o.host \in ClassesIn(h)
    BY <2>1, FunctionHolds
  <2> DEFINE host == IF o.host = 0 THEN Null ELSE Value("class", o.host)
  <2>3. Live(h, host)
    BY <2>2 DEF Live, Value
  <2>4. \/ Builtin(h, v, x) = <<Str(o.name)>>
        \/ Builtin(h, v, x) = <<host>>
        \/ Builtin(h, v, x) = <<Num(o.minimum)>>
        \/ Builtin(h, v, x) = <<Primitive(TypeString(v))>>
        \/ Builtin(h, v, x) = <<>>
    BY <1>4 DEF Builtin
  <2> HIDE DEF host
  <2> QED
    BY <2>3, <2>4 DEF Option
<1>5. CASE v.k \notin {"object", "array", "class", "function"}
  <2>1. \/ Builtin(h, v, x) = <<Num(Len(v.s))>>
        \/ Builtin(h, v, x) = <<Primitive(TypeString(v))>>
        \/ Builtin(h, v, x) = <<>>
    BY <1>5 DEF Builtin
  <2> QED
    BY <2>1 DEF Option
<1> QED
  BY <1>1, <1>2, <1>3, <1>4, <1>5

\* The fields of what has fields.
LEMMA FieldsLive ==
  ASSUME NEW h, NEW n, HeapSound(h, n), NEW v, Live(h, v), IsMade(v), HasFields(v)
  PROVE  /\ v.n \in DOMAIN h /\ "fields" \in DOMAIN h[v.n]
         /\ AllLive(h, h[v.n].fields)
<1>1. CASE v.k = "object"
  BY <1>1, ObjectHolds DEF Live, IsA, ObjectShape
<1>2. CASE v.k = "class"
  <2>1. v.n \in ClassesIn(h) /\ v.n # 0
    BY <1>2 DEF Live, IsMade
  <2>2. v.n \in DOMAIN h /\ DOMAIN h[v.n] = ClassShape /\ AllLive(h, h[v.n].fields)
    BY <2>1, ClassHolds
  <2> QED
    BY <2>2 DEF ClassShape
<1>3. CASE v.k = "function"
  BY <1>3, FunctionHolds DEF Live, IsA, FunctionShape
<1> QED
  BY <1>1, <1>2, <1>3 DEF HasFields

\* VM::readmembersymbol
LEMMA ReadMemberLive ==
  ASSUME NEW h, NEW n, HeapSound(h, n), NEW v, Live(h, v), IsMade(v), NEW x
  PROVE  Live(h, ReadMember(h, v, x))
<1> DEFINE b == Builtin(h, v, x)
           inherited == IF v.k = "object" THEN FindValue(h, h[v.n].klass, x) ELSE <<>>
<1>1. b # <<>> => Live(h, b[1])
  BY BuiltinLive, OptionLive
<1>2. inherited # <<>> => Live(h, inherited[1])
  <2>1. CASE v.k = "object"
    <3>1. h[v.n].klass \in ClassesIn(h)
      BY <2>1, ObjectHolds DEF Live
    <3>2. Option(h, FindValue(h, h[v.n].klass, x))
      BY <3>1, FindValueFinds DEF Option
    <3> QED
      BY <2>1, <3>2, OptionLive
  <2>2. CASE v.k # "object"
    BY <2>2
  <2> QED
    BY <2>1, <2>2
<1>3. HasFields(v) /\ x \in DOMAIN h[v.n].fields => Live(h, h[v.n].fields[x])
  BY FieldsLive DEF AllLive
<1>4. Live(h, Null)
  BY ConstantsLive
<1>5. ReadMember(h, v, x) =
        CASE b # <<>> -> b[1]
          [] HasFields(v) /\ x \in DOMAIN h[v.n].fields -> h[v.n].fields[x]
          [] OTHER -> IF inherited # <<>> THEN inherited[1] ELSE Null
  BY DEF ReadMember
<1> HIDE DEF b, inherited
<1>6. \/ b # <<>> /\ ReadMember(h, v, x) = b[1]
      \/ HasFields(v) /\ x \in DOMAIN h[v.n].fields /\ ReadMember(h, v, x) = h[v.n].fields[x]
      \/ inherited # <<>> /\ ReadMember(h, v, x) = inherited[1]
      \/ ReadMember(h, v, x) = Null
  BY <1>5
<1> QED
  BY <1>1, <1>2, <1>3, <1>4, <1>6

\* Array::read and the elements of a string
LEMMA ReadIndexLive ==
  ASSUME NEW h, NEW n, HeapSound(h, n), NEW v, Live(h, v), NEW i
  PROVE  Live(h, ReadIndex(h, v, i))
<1> DEFINE size == IF v.k = "array" THEN Len(h[v.n].elems) ELSE Len(v.s)
           at == WrapIndex(IntOf(i), size)
<1>1. \/ ReadIndex(h, v, i) = Null
      \/ at \in 0 .. size - 1 /\ v.k = "array" /\ ReadIndex(h, v, i) = h[v.n].elems[at + 1]
      \/ ReadIndex(h, v, i) = Str(SubSeq(v.s, at + 1, at + 1))
  BY DEF ReadIndex
<1> HIDE DEF at
<1>2. CASE at \in 0 .. size - 1 /\ v.k = "array"
  <2>1. IsSeq(h[v.n].elems) /\ AllLive(h, h[v.n].elems)
    BY <1>2, ArrayHolds DEF Live
  <2>2. Len(h[v.n].elems) \in Nat /\ DOMAIN h[v.n].elems = 1 .. Len(h[v.n].elems)
    BY <2>1, AppendFacts
  <2>3. at + 1 \in DOMAIN h[v.n].elems
    BY <1>2, <2>2
  <2>4. Live(h, h[v.n].elems[at + 1])
    BY <2>1, <2>3 DEF AllLive
  <2> QED
    BY <1>1, <2>4, ConstantsLive
<1> QED
  BY <1>1, <1>2, ConstantsLive

\* VM::readmembervalue
LEMMA ReadAtLive ==
  ASSUME NEW h, NEW n, HeapSound(h, n), NEW v, Live(h, v), IsMade(v), NEW i
  PROVE  Live(h, ReadAt(h, v, i))
BY ReadIndexLive, ReadMemberLive DEF ReadAt

-----------------------------------------------------------------------------
(* Writes                                                                  *)

\* Other fields of something.
LEMMA SoundFields ==
  ASSUME NEW h, NEW i, NEW o, NEW n, NEW f, Sound(h, i, o, n),
         "fields" \in DOMAIN o, AllLive(h, f)
  PROVE  /\ DOMAIN [o EXCEPT !.fields = f] = DOMAIN o
         /\ Sound(h, i, [o EXCEPT !.fields = f], n)
<1> DEFINE w == [o EXCEPT !.fields = f]
<1>1. DOMAIN w = DOMAIN o /\ w.fields = f
  OBVIOUS
<1>2. \A x \in DOMAIN o : x # "fields" => w[x] = o[x]
  OBVIOUS
<1> HIDE DEF w
<1>3. CASE DOMAIN o = ObjectShape
  <2>1. w.klass = o.klass /\ o.klass \in ClassesIn(h)
    BY <1>2, <1>3, ShapesDiffer DEF Sound
  <2> QED
    BY <1>1, <1>3, <2>1 DEF Sound, w
<1>4. CASE DOMAIN o = ClassShape
  <2>1. /\ w.parent = o.parent /\ w.proto = o.proto /\ w.constructor = o.constructor
    BY <1>2, <1>4 DEF ClassShape
  <2>2. /\ o.parent \in 0 .. i - 1 /\ o.parent \in ClassesIn(h)
        /\ IsA(h, o.proto, ObjectShape)
        /\ o.constructor = Null \/ (o.constructor.k = "function" /\ Live(h, o.constructor))
    BY <1>4, ShapesDiffer DEF Sound
  <2> QED
    BY <1>1, <1>4, <2>1, <2>2 DEF Sound, w
<1>5. CASE DOMAIN o = FunctionShape
  <2>1. /\ w.context = o.context /\ w.lvarcount = o.lvarcount /\ w.args = o.args
        /\ w.anonymous = o.anonymous /\ w.host = o.host /\ w.bound = o.bound
    BY <1>2, <1>5 DEF FunctionShape
  <2>2. /\ o.context \in 0 .. n /\ (o.context = NoFrame => i = 1)
        /\ o.lvarcount \in Nat /\ o.args \in BOOLEAN /\ o.anonymous \in BOOLEAN
        /\ o.host \in ClassesIn(h)
        /\ IsSeq(o.bound) /\ AllLive(h, o.bound)
    BY <1>5, ShapesDiffer DEF Sound
  <2> QED
    BY <1>1, <1>5, <2>1, <2>2 DEF Sound, w
<1>6. DOMAIN o # ArrayShape
  BY DEF ArrayShape
<1>7. DOMAIN o \in {ObjectShape, ArrayShape, ClassShape, FunctionShape}
  BY DEF Sound
<1> QED
  BY <1>1, <1>3, <1>4, <1>5, <1>6, <1>7 DEF w

\* A function bound to another value, or known to belong to a class.
LEMMA SoundBound ==
  ASSUME NEW h, NEW i, NEW o, NEW n, NEW v, Sound(h, i, o, n),
         DOMAIN o = FunctionShape, Live(h, v)
  PROVE  /\ DOMAIN [o EXCEPT !.bound = <<v>>] = FunctionShape
         /\ Sound(h, i, [o EXCEPT !.bound = <<v>>], n)
         /\ o.context # NoFrame => \A j : Sound(h, j, [o EXCEPT !.bound = <<v>>], n)
<1> DEFINE w == [o EXCEPT !.bound = <<v>>]
<1>1. DOMAIN w = FunctionShape /\ w.bound = <<v>>
  BY DEF FunctionShape
<1>2. /\ w.context = o.context /\ w.lvarcount = o.lvarcount /\ w.args = o.args
      /\ w.anonymous = o.anonymous /\ w.host = o.host /\ w.fields = o.fields
  BY DEF FunctionShape
<1>3. /\ o.context \in 0 .. n /\ (o.context = NoFrame => i = 1)
      /\ o.lvarcount \in Nat /\ o.args \in BOOLEAN /\ o.anonymous \in BOOLEAN
      /\ o.host \in ClassesIn(h) /\ AllLive(h, o.fields)
  BY ShapesDiffer DEF Sound
<1> HIDE DEF w
<1>4. IsSeq(w.bound) /\ AllLive(h, w.bound)
  BY <1>1, OneLive
<1>5. ASSUME NEW j, o.context = NoFrame => j = 1 PROVE Sound(h, j, w, n)
  BY <1>1, <1>2, <1>3, <1>4, <1>5 DEF Sound
<1> QED
  BY <1>1, <1>3, <1>5 DEF w

\* An array with other elements.
LEMMA SoundElems ==
  ASSUME NEW h, NEW i, NEW o, NEW n, NEW s, DOMAIN o = ArrayShape,
         IsSeq(s), AllLive(h, s)
  PROVE  /\ DOMAIN [o EXCEPT !.elems = s] = ArrayShape
         /\ Sound(h, i, [o EXCEPT !.elems = s], n)
<1> DEFINE w == [o EXCEPT !.elems = s]
<1>1. DOMAIN w = ArrayShape /\ w.elems = s
  BY DEF ArrayShape
<1> HIDE DEF w
<1>2. Sound(h, i, w, n)
  BY <1>1 DEF Sound
<1> QED
  BY <1>1, <1>2 DEF w

\* Container::write
LEMMA WithLive ==
  ASSUME NEW h, NEW f, NEW x, NEW v, AllLive(h, f), Live(h, v)
  PROVE  AllLive(h, With(f, x, v))
BY DEF AllLive, With

\* VM::setmembersymbol
LEMMA WriteMemberSound ==
  ASSUME NEW h, NEW n \in Nat, HeapSound(h, n), NEW v, Live(h, v), IsMade(v), NEW x,
         NEW value, Live(h, value)
  PROVE  /\ HeapSound(WriteMember(h, v, x, value), n)
         /\ Keeps(h, WriteMember(h, v, x, value))
<1> DEFINE w == WriteMember(h, v, x, value)
<1>1. CASE w = h
  BY <1>1 DEF Keeps
<1>2. CASE v.k = "function" /\ w = [h EXCEPT ![v.n].bound = <<value>>]
  <2> DEFINE o == [h[v.n] EXCEPT !.bound = <<value>>]
  <2>1. v.n \in DOMAIN h /\ DOMAIN h[v.n] = FunctionShape /\ Sound(h, v.n, h[v.n], n)
    BY <1>2 DEF Live, IsA, HeapSound
  <2>2. DOMAIN o = DOMAIN h[v.n] /\ Sound(h, v.n, o, n)
    BY <2>1, SoundBound
  <2>3. w = [h EXCEPT ![v.n] = o]
    BY <1>2
  <2> HIDE DEF o, w
  <2>4. HeapSound([h EXCEPT ![v.n] = o], n) /\ Keeps(h, [h EXCEPT ![v.n] = o])
    BY <2>1, <2>2, HeapWrite
  <2> QED
    BY <2>3, <2>4 DEF w
<1>3. CASE HasFields(v) /\ w = [h EXCEPT ![v.n].fields = With(@, x, value)]
  <2> DEFINE f == With(h[v.n].fields, x, value)
             o == [h[v.n] EXCEPT !.fields = f]
  <2>1. /\ v.n \in DOMAIN h /\ "fields" \in DOMAIN h[v.n] /\ Sound(h, v.n, h[v.n], n)
        /\ AllLive(h, h[v.n].fields)
    BY <1>3, FieldsLive DEF HeapSound
  <2>2. AllLive(h, f)
    BY <2>1, WithLive
  <2>3. w = [h EXCEPT ![v.n] = o]
    BY <1>3
  <2> HIDE DEF f
  <2>4. DOMAIN o = DOMAIN h[v.n] /\ Sound(h, v.n, o, n)
    BY <2>1, <2>2, SoundFields
  <2> HIDE DEF o, w
  <2>5. HeapSound([h EXCEPT ![v.n] = o], n) /\ Keeps(h, [h EXCEPT ![v.n] = o])
    BY <2>1, <2>4, HeapWrite
  <2> QED
    BY <2>3, <2>5 DEF w
<1>4. \/ w = h
      \/ v.k = "function" /\ w = [h EXCEPT ![v.n].bound = <<value>>]
      \/ HasFields(v) /\ w = [h EXCEPT ![v.n].fields = With(@, x, value)]
  BY DEF WriteMember
<1> QED
  BY <1>1, <1>2, <1>3, <1>4

-----------------------------------------------------------------------------
(* Sequences of values                                                     *)

\* Part of a sequence, as instructions take their operands from the stack.
LEMMA PartFacts ==
  ASSUME NEW s, IsSeq(s), NEW m \in Int, NEW n \in Int, 1 <= m, n <= Len(s)
  PROVE  /\ IsSeq(SubSeq(s, m, n))
         /\ Len(SubSeq(s, m, n)) = IF m <= n THEN n - m + 1 ELSE 0
         /\ DOMAIN SubSeq(s, m, n) = 1 .. n - m + 1
         /\ \A i \in 1 .. n - m + 1 : /\ SubSeq(s, m, n)[i] = s[m + i - 1]
                                      /\ m + i - 1 \in DOMAIN s
<1> DEFINE t == SubSeq(s, m, n)
<1>1. PICK S : s \in Seq(S)
  BY IsSeqElim
<1>2. \A i \in m .. n : s[i] \in S
  BY <1>1
<1>3. /\ t \in Seq(S)
      /\ Len(t) = IF m <= n THEN n - m + 1 ELSE 0
      /\ \A i \in 1 .. n - m + 1 : t[i] = s[m + i - 1]
  BY <1>1, <1>2, SubSeqProperties
<1>4. Len(s) \in Nat /\ DOMAIN s = 1 .. Len(s) /\ DOMAIN t = 1 .. Len(t)
  BY <1>1, <1>3
<1>5. IsSeq(t)
  BY <1>3, IsSeqIntro
<1> HIDE DEF t
<1>6. DOMAIN t = 1 .. n - m + 1
  BY <1>3, <1>4
<1>7. \A i \in 1 .. n - m + 1 : m + i - 1 \in DOMAIN s
  BY <1>4
<1> QED
  BY <1>3, <1>5, <1>6, <1>7 DEF t

LEMMA PartLive ==
  ASSUME NEW h, NEW s, IsSeq(s), AllLive(h, s), NEW m \in Int, NEW n \in Int,
         1 <= m, n <= Len(s)
  PROVE  IsSeq(SubSeq(s, m, n)) /\ AllLive(h, SubSeq(s, m, n))
<1> DEFINE t == SubSeq(s, m, n)
<1>1. /\ IsSeq(t) /\ DOMAIN t = 1 .. n - m + 1
      /\ \A i \in 1 .. n - m + 1 : t[i] = s[m + i - 1] /\ m + i - 1 \in DOMAIN s
  BY PartFacts
<1> HIDE DEF t
<1>2. AllLive(h, t)
  BY <1>1 DEF AllLive
<1> QED
  BY <1>1, <1>2 DEF t

\* One sequence after the other.
LEMMA JoinFacts ==
  ASSUME NEW s, NEW t, IsSeq(s), IsSeq(t)
  PROVE  /\ IsSeq(s \o t)
         /\ Len(s) \in Nat /\ Len(t) \in Nat
         /\ DOMAIN s = 1 .. Len(s) /\ DOMAIN t = 1 .. Len(t)
         /\ DOMAIN (s \o t) = 1 .. Len(s) + Len(t)
         /\ \A i \in 1 .. Len(s) + Len(t) :
              (s \o t)[i] = IF i <= Len(s) THEN s[i] ELSE t[i - Len(s)]
<1>1. PICK S : s \in Seq(S)
  BY IsSeqElim
<1>2. PICK T : t \in Seq(T)
  BY IsSeqElim
<1>3. s \in Seq(S \cup T) /\ t \in Seq(S \cup T)
  BY <1>1, <1>2
<1>4. /\ s \o t \in Seq(S \cup T)
      /\ Len(s \o t) = Len(s) + Len(t)
      /\ \A i \in 1 .. Len(s) + Len(t) :
           (s \o t)[i] = IF i <= Len(s) THEN s[i] ELSE t[i - Len(s)]
  BY <1>3, ConcatProperties
<1>5. IsSeq(s \o t)
  BY <1>4, IsSeqIntro
<1> QED
  BY <1>3, <1>4, <1>5

LEMMA JoinLive ==
  ASSUME NEW h, NEW s, NEW t, IsSeq(s), IsSeq(t), AllLive(h, s), AllLive(h, t)
  PROVE  IsSeq(s \o t) /\ AllLive(h, s \o t)
<1> DEFINE u == s \o t
<1>1. /\ IsSeq(u)
      /\ Len(s) \in Nat /\ Len(t) \in Nat
      /\ DOMAIN s = 1 .. Len(s) /\ DOMAIN t = 1 .. Len(t)
      /\ DOMAIN u = 1 .. Len(s) + Len(t)
      /\ \A i \in 1 .. Len(s) + Len(t) : u[i] = IF i <= Len(s) THEN s[i] ELSE t[i - Len(s)]
  BY JoinFacts
<1> HIDE DEF u
<1>2. ASSUME NEW i \in DOMAIN u PROVE Live(h, u[i])
  <2>1. CASE i <= Len(s)
    BY <1>1, <2>1 DEF AllLive
  <2>2. CASE ~(i <= Len(s))
    <3>1. i - Len(s) \in DOMAIN t
      BY <1>1, <2>2
    <3> QED
      BY <1>1, <2>2, <3>1 DEF AllLive
  <2> QED
    BY <2>1, <2>2
<1> QED
  BY <1>1, <1>2 DEF u, AllLive

LEMMA PushLive ==
  ASSUME NEW h, NEW s, NEW v, IsSeq(s), AllLive(h, s), Live(h, v)
  PROVE  IsSeq(Append(s, v)) /\ AllLive(h, Append(s, v))
<1> DEFINE t == Append(s, v)
<1>1. /\ IsSeq(t) /\ Len(s) \in Nat
      /\ DOMAIN s = 1 .. Len(s)
      /\ DOMAIN t = 1 .. Len(s) + 1
      /\ \A i \in DOMAIN s : t[i] = s[i]
      /\ t[Len(s) + 1] = v
  BY AppendFacts
<1> HIDE DEF t
<1>2. \A i \in DOMAIN t : i \in DOMAIN s \/ i = Len(s) + 1
  BY <1>1
<1>3. AllLive(h, t)
  BY <1>1, <1>2 DEF AllLive
<1> QED
  BY <1>1, <1>3 DEF t

\* Several writes to an object.
LEMMA FieldsOfLive ==
  ASSUME NEW h, NEW names, NEW values, DOMAIN names \subseteq Nat,
         \A i \in DOMAIN names : Live(h, values[i])
  PROVE  AllLive(h, FieldsOf(names, values))
<1> DEFINE f == FieldsOf(names, values)
<1>1. SUFFICES ASSUME NEW x \in DOMAIN f PROVE Live(h, f[x])
  BY DEF AllLive
<1> DEFINE at == {i \in DOMAIN names : names[i] = x}
<1>2. at # {} /\ at \subseteq Nat /\ f[x] = values[Min(at)]
  BY DEF FieldsOf
<1>3. at \subseteq DOMAIN names
  OBVIOUS
<1> HIDE DEF at, f
<1>4. Min(at) \in at
  <2>1. \E y \in at : \A z \in at : y <= z
    BY <1>2, LeastOf
  <2> QED
    BY <2>1 DEF Min
<1> QED
  BY <1>2, <1>3, <1>4

-----------------------------------------------------------------------------
(* Arrays and operators                                                    *)

\* Array::write
LEMMA WriteIndexLive ==
  ASSUME NEW h, NEW s, NEW i, NEW v, IsSeq(s), AllLive(h, s), Live(h, v)
  PROVE  IsSeq(WriteIndex(s, i, v)) /\ AllLive(h, WriteIndex(s, i, v))
<1> DEFINE at == IF i = Len(s) THEN i ELSE WrapIndex(i, Len(s))
           w == WriteIndex(s, i, v)
<1>1. \/ w = Append(s, v)
      \/ at \in 0 .. Len(s) - 1 /\ w = [s EXCEPT ![at + 1] = v]
      \/ w = s
  BY DEF WriteIndex
<1>2. CASE w = Append(s, v)
  BY <1>2, PushLive
<1>3. CASE at \in 0 .. Len(s) - 1 /\ w = [s EXCEPT ![at + 1] = v]
  <2> HIDE DEF at
  <2>1. PICK S : s \in Seq(S)
    BY IsSeqElim
  <2>2. s \in Seq(S \cup {v}) /\ at + 1 \in 1 .. Len(s)
    BY <1>3, <2>1
  <2>3. w \in Seq(S \cup {v})
    BY <1>3, <2>2, ExceptSeq
  <2>4. IsSeq(w)
    BY <2>3, IsSeqIntro
  <2>5. DOMAIN w = DOMAIN s /\ \A j \in DOMAIN s : w[j] = s[j] \/ w[j] = v
    BY <1>3
  <2> HIDE DEF w
  <2>6. AllLive(h, w)
    BY <2>5 DEF AllLive
  <2> QED
    BY <2>4, <2>6 DEF w
<1> QED
  BY <1>1, <1>2, <1>3

\* VM::setmembervalue
LEMMA WriteAtSound ==
  ASSUME NEW h, NEW n \in Nat, HeapSound(h, n), NEW v, Live(h, v), IsMade(v), NEW i,
         NEW value, Live(h, value)
  PROVE  /\ HeapSound(WriteAt(h, v, i, value), n)
         /\ Keeps(h, WriteAt(h, v, i, value))
<1> DEFINE w == WriteAt(h, v, i, value)
<1>1. CASE v.k = "array" /\ IsNumber(i)
  <2> DEFINE s == WriteIndex(h[v.n].elems, IntOf(i), value)
             o == [h[v.n] EXCEPT !.elems = s]
  <2>1. v.n \in DOMAIN h /\ DOMAIN h[v.n] = ArrayShape
    BY <1>1 DEF Live, IsA
  <2>2. IsSeq(h[v.n].elems) /\ AllLive(h, h[v.n].elems)
    BY <2>1, ArrayHolds DEF IsA
  <2>3. IsSeq(s) /\ AllLive(h, s)
    BY <2>2, WriteIndexLive
  <2>4. w = [h EXCEPT ![v.n] = o]
    BY <1>1 DEF WriteAt
  <2> HIDE DEF s
  <2>5. DOMAIN o = DOMAIN h[v.n] /\ Sound(h, v.n, o, n)
    BY <2>1, <2>3, SoundElems
  <2> HIDE DEF o, w
  <2>6. HeapSound([h EXCEPT ![v.n] = o], n) /\ Keeps(h, [h EXCEPT ![v.n] = o])
    BY <2>1, <2>5, HeapWrite
  <2> QED
    BY <2>4, <2>6 DEF w
<1>2. CASE ~(v.k = "array" /\ IsNumber(i))
  <2>1. w = WriteMember(h, v, i.s, value)
    BY <1>2 DEF WriteAt
  <2> QED
    BY <2>1, WriteMemberSound
<1> QED
  BY <1>1, <1>2

LEMMA ArithmeticLive ==
  ASSUME NEW h, NEW o, NEW l, NEW r
  PROVE  Live(h, Arithmetic(o, l, r))
<1>1. \A S : \E n : FromBits(S) = Num(n)
  BY DEF FromBits
<1>2. Arithmetic(o, l, r) = NaN \/ \E n : Arithmetic(o, l, r) = Num(n)
  BY <1>1 DEF Arithmetic
<1> QED
  BY <1>2, ConstantsLive

\* VM::uadd, usub, unot, ubnot
LEMMA UnaryLive ==
  ASSUME NEW h, NEW o \in {"!", "+", "-", "~"}, NEW v, Live(h, v)
  PROVE  Live(h, UnaryOf(o, v))
<1>1. \A S : \E n : FromBits(S) = Num(n)
  BY DEF FromBits
<1>2. \/ UnaryOf(o, v) \in {v, True, False, NaN}
      \/ \E n : UnaryOf(o, v) = Num(n)
  BY <1>1 DEF UnaryOf, Bool
<1> QED
  BY <1>2, ConstantsLive

\* VM::add ... VM::ubxor, and what they make of the heap
LEMMA OperateLive ==
  ASSUME NEW h, NEW n \in Nat, HeapSound(h, n), NEW o, NEW l, NEW r,
         Live(h, l), Live(h, r)
  PROVE  /\ HeapSound(HeapAfter(h, o, l, r), n)
         /\ Keeps(h, HeapAfter(h, o, l, r))
         /\ Live(HeapAfter(h, o, l, r), Operate(h, o, l, r))
<1> DEFINE w == HeapAfter(h, o, l, r)
           v == Operate(h, o, l, r)
<1>1. CASE MakesArray(o, l)
  <2> DEFINE t == IF r.k = "array" THEN h[r.n].elems ELSE <<r>>
             s == h[l.n].elems \o t
             a == ArrayOf(s)
  <2>1. IsSeq(h[l.n].elems) /\ AllLive(h, h[l.n].elems)
    BY <1>1, ArrayHolds DEF Live, MakesArray
  <2>2. IsSeq(t) /\ AllLive(h, t)
    BY ArrayHolds, OneLive DEF Live
  <2> HIDE DEF t
  <2>3. IsSeq(s) /\ AllLive(h, s)
    BY <2>1, <2>2, JoinLive
  <2> HIDE DEF s
  <2>4. DOMAIN a = ArrayShape /\ a.elems = s
    BY DEF ArrayOf, ArrayShape
  <2> HIDE DEF a
  <2>5. Sound(h, Len(h) + 1, a, n)
    BY <2>3, <2>4 DEF Sound
  <2>6. w = Append(h, a)
    BY <1>1 DEF HeapAfter, MakesArray, AppendsTo, a, s, t
  <2>7. /\ HeapSound(w, n) /\ Keeps(h, w)
        /\ Len(h) + 1 \in DOMAIN w /\ w[Len(h) + 1] = a
    BY <2>5, <2>6, HeapAppend
  <2>8. v = Value("array", Len(h) + 1)
    BY <1>1 DEF Operate, MakesArray, AppendsTo, IsNumber, Comparisons
  <2> HIDE DEF w, v
  <2>9. Live(w, v)
    BY <2>4, <2>7, <2>8 DEF Live, Value, IsA
  <2> QED
    BY <2>7, <2>9 DEF w, v
<1>2. CASE AppendsTo(o, l)
  <2> DEFINE s == Append(h[l.n].elems, r)
             a == [h[l.n] EXCEPT !.elems = s]
  <2>1. l.n \in DOMAIN h /\ DOMAIN h[l.n] = ArrayShape
    BY <1>2 DEF Live, IsA, AppendsTo
  <2>2. IsSeq(h[l.n].elems) /\ AllLive(h, h[l.n].elems)
    BY <2>1, ArrayHolds DEF IsA
  <2>3. IsSeq(s) /\ AllLive(h, s)
    BY <2>2, PushLive
  <2>4. w = [h EXCEPT ![l.n] = a]
    BY <1>2 DEF HeapAfter, AppendsTo, MakesArray
  <2> HIDE DEF s
  <2>5. DOMAIN a = DOMAIN h[l.n] /\ Sound(h, l.n, a, n)
    BY <2>1, <2>3, SoundElems
  <2>6. v = l
    BY <1>2 DEF Operate, MakesArray, AppendsTo, IsNumber, Comparisons
  <2> HIDE DEF a, w, v
  <2>7. HeapSound([h EXCEPT ![l.n] = a], n) /\ Keeps(h, [h EXCEPT ![l.n] = a])
    BY <2>1, <2>5, HeapWrite
  <2>8. HeapSound(w, n) /\ Keeps(h, w)
    BY <2>4, <2>7
  <2>9. Live(w, v)
    BY <2>6, <2>8, KeepsLive
  <2> QED
    BY <2>8, <2>9 DEF w, v
<1>3. CASE ~MakesArray(o, l) /\ ~AppendsTo(o, l)
  <2>1. w = h
    BY <1>3 DEF HeapAfter
  <2>2. \/ v \in {True, False, NaN}
        \/ \E x : v = Str(x)
        \/ v = Arithmetic(o, l, r)
    BY <1>3 DEF Operate, Bool
  <2> HIDE DEF v
  <2>3. Live(h, v)
    BY <2>2, ConstantsLive, ArithmeticLive
  <2>4. Keeps(h, h)
    BY DEF Keeps
  <2> QED
    BY <2>1, <2>3, <2>4 DEF v
<1> QED
  BY <1>1, <1>2, <1>3

-----------------------------------------------------------------------------
(* The invariant                                                           *)

Heights(cs) == \A i \in DOMAIN cs : cs[i].height \in Nat

\* The frames F refer to the heap h.
FramesSound(h, F) ==
  \A f \in DOMAIN F :
    /\ F[f].parent \in 0 .. f - 1 /\ F[f].env \in 0 .. f - 1
    /\ IsA(h, F[f].fn, FunctionShape)
    /\ Live(h, F[f].self) /\ AllLive(h, F[f].locals)
    /\ Heights(F[f].catchtable)

SafeInv ==
  /\ HandlerInv
  /\ HeapSound(heap, Len(frames))
  /\ FramesSound(heap, frames)
  /\ IsSeq(stack) /\ AllLive(heap, stack)
  /\ IsSeq(tape) /\ AllLive(heap, tape)
  /\ Live(heap, result)
  /\ Heights(catchstack)

\* Nothing the native in() returns is on the heap.
PlainInput ==
  /\ IsSeq(tape)
  /\ \A i \in DOMAIN tape : tape[i].k \notin {"object", "array", "class", "function"}

LEMMA SafeInit ==
  ASSUME NEW c, NEW input, MachineInit(c, input), PlainInput
  PROVE  SafeInv
<1>1. HandlerInv
  BY HandlerInit
<1> DEFINE f == ModuleFunction
           o == Instance(0, NoFields)
<1>2. heap = <<f, o>> /\ DOMAIN heap = {1, 2} /\ heap[1] = f /\ heap[2] = o
  BY DEF MachineInit
<1>3. /\ DOMAIN f = FunctionShape /\ f.context = 0 /\ f.lvarcount = 0 /\ f.args = FALSE
      /\ f.anonymous = FALSE /\ f.host = 0 /\ f.bound = <<>> /\ f.fields = NoFields
  BY DEF ModuleFunction, FunctionShape, NoFrame
<1>4. DOMAIN o = ObjectShape /\ o.klass = 0 /\ o.fields = NoFields
  BY DEF Instance, ObjectShape
<1> HIDE DEF f, o
<1>5. AllLive(heap, NoFields) /\ AllLive(heap, <<>>) /\ IsSeq(<<>>)
  BY NoneLive DEF AllLive, NoFields
<1>6. Len(frames) = 1 /\ DOMAIN frames = {1}
  BY DEF MachineInit
<1>7. 0 \in ClassesIn(heap)
  BY DEF ClassesIn
<1>8. Sound(heap, 1, f, 1)
  <2>1. IsSeq(f.bound) /\ AllLive(heap, f.bound) /\ AllLive(heap, f.fields)
    BY <1>3, <1>5
  <2>2. f.context \in 0 .. 1 /\ f.lvarcount \in Nat /\ f.host \in ClassesIn(heap)
    BY <1>3, <1>7
  <2>3. f.args \in BOOLEAN /\ f.anonymous \in BOOLEAN
    BY <1>3
  <2> QED
    BY <1>3, <2>1, <2>2, <2>3 DEF Sound
<1>9. Sound(heap, 2, o, 1)
  BY <1>4, <1>5, <1>7 DEF Sound
<1>10. IsSeq(heap)
  <2>1. heap \in Seq({f, o})
    BY <1>2
  <2> QED
    BY <2>1, IsSeqIntro
<1>11. IsA(heap, 2, ObjectShape) /\ IsA(heap, 1, FunctionShape)
  BY <1>2, <1>3, <1>4 DEF IsA
<1>12. HeapSound(heap, Len(frames))
  BY <1>2, <1>6, <1>8, <1>9, <1>10, <1>11 DEF HeapSound
<1>13. FramesSound(heap, frames)
  <2>1. /\ frames[1].parent = 0 /\ frames[1].env = 0 /\ frames[1].fn = 1
        /\ frames[1].self = GlobalsObject /\ frames[1].catchtable = <<>>
        /\ frames[1].locals = [i \in {} |-> Null]
    BY DEF MachineInit, NoFrame
  <2>2. Live(heap, GlobalsObject)
    BY <1>11 DEF GlobalsObject, Value, Live
  <2>3. AllLive(heap, [i \in {} |-> Null]) /\ Heights(<<>>)
    BY DEF AllLive, Heights
  <2> QED
    BY <2>1, <2>2, <2>3, <1>6, <1>11 DEF FramesSound
<1>14. stack = <<>> /\ result = Null /\ catchstack = <<>>
  BY DEF MachineInit
<1>15. AllLive(heap, tape) /\ IsSeq(tape)
  BY PlainLive DEF PlainInput, AllLive
<1>16. Live(heap, Null) /\ Heights(<<>>)
  BY ConstantsLive DEF Heights
<1> QED
  BY <1>1, <1>5, <1>12, <1>13, <1>14, <1>15, <1>16 DEF SafeInv

LEMMA SafeIsSafe == SafeInv => MemorySafe
BY DEF SafeInv, MemorySafe, HeapSound, FramesSound, HandlerInv

LEMMA SafeFrames ==
  ASSUME SafeInv
  PROVE  /\ IsSeq(frames) /\ Len(frames) \in Nat /\ DOMAIN frames = 1 .. Len(frames)
         /\ status = "run" => fp \in DOMAIN frames
BY AppendFacts DEF SafeInv, HandlerInv, Chains

LEMMA FramesKept ==
  ASSUME NEW h, NEW g, NEW F, Keeps(h, g), FramesSound(h, F)
  PROVE  FramesSound(g, F)
<1>1. \A f : AllLive(h, f) => AllLive(g, f)
  BY KeepsAll
<1>2. \A v : Live(h, v) => Live(g, v)
  BY KeepsLive
<1>3. \A j, shape : IsA(h, j, shape) => IsA(g, j, shape)
  BY DEF Keeps, IsA
<1> QED
  BY <1>1, <1>2, <1>3 DEF FramesSound

\* Steps that keep the frames.
LEMMA SafeQuiet ==
  ASSUME SafeInv, HandlerInv', frames' = frames, Keeps(heap, heap'),
         HeapSound(heap', Len(frames)), IsSeq(stack'), AllLive(heap', stack'),
         IsSeq(tape'), AllLive(heap, tape'), Live(heap, result'), Heights(catchstack')
  PROVE  SafeInv'
<1>1. FramesSound(heap', frames')
  BY FramesKept DEF SafeInv
<1>2. AllLive(heap', tape') /\ Live(heap', result')
  BY KeepsAll, KeepsLive
<1> QED
  BY <1>1, <1>2 DEF SafeInv

\* ... and change the heap and the stack only.
LEMMA SafeWrites ==
  ASSUME SafeInv, HandlerInv', UNCHANGED <<frames, catchstack, result, tape>>,
         Keeps(heap, heap'), HeapSound(heap', Len(frames)),
         IsSeq(stack'), AllLive(heap', stack')
  PROVE  SafeInv'
BY SafeQuiet DEF SafeInv

\* ... or the stack alone.
LEMMA SafePushes ==
  ASSUME SafeInv, HandlerInv', UNCHANGED <<frames, catchstack, result, tape, heap>>,
         IsSeq(stack'), AllLive(heap, stack')
  PROVE  SafeInv'
<1>1. Keeps(heap, heap)
  BY DEF Keeps
<1> QED
  BY <1>1, SafeWrites DEF SafeInv

-----------------------------------------------------------------------------
(* Operands                                                                *)

\* The opcodes.
Opcodes ==
  {"nop", "readlocal", "readglobal", "putvalue", "putstring", "putfunction", "putself",
   "putsuper", "putsupermember", "registercatchtable", "popcatchtable", "branch", "return",
   "setlocal", "setlocalpush", "setglobal", "setglobalpush", "pop", "dup", "unary", "typeof",
   "readmembersymbol", "readarrayindex", "throw", "branchif", "branchunless", "operator",
   "branchcmp", "swap", "readmembervalue", "setmembersymbol", "setmembersymbolpush",
   "setarrayindex", "setarrayindexpush", "setmembervalue", "setmembervaluepush", "putarray",
   "dupn", "puthash", "call", "new", "callmember", "putclass"}

LEMMA PopsNat ==
  ASSUME NEW i, IsInstruction(i), i.op \in Opcodes
  PROVE  Pops(i) \in Nat
<1>1. CASE i.op \in {"putarray", "dupn", "puthash", "call", "new", "callmember"}
  <2>1. i.n \in Nat
    BY <1>1 DEF IsInstruction
  <2>2. Pops(i) \in {i.n, 2 * i.n, i.n + 1, i.n + 2}
    BY <1>1 DEF Pops
  <2> QED
    BY <2>1, <2>2
<1>2. CASE i.op = "putclass"
  <2>1. /\ i.d.props \in Nat /\ i.d.sprops \in Nat /\ i.d.funcs \in Nat /\ i.d.sfuncs \in Nat
        /\ i.d.parent \in Nat /\ i.d.constructor \in Nat
    BY <1>2 DEF IsInstruction
  <2>2. Pops(i) = i.d.props + i.d.sprops + i.d.funcs + i.d.sfuncs
                  + i.d.parent + i.d.constructor
    BY <1>2 DEF Pops
  <2> QED
    BY <2>1, <2>2
<1>3. CASE i.op \notin {"putarray", "dupn", "puthash", "call", "new", "callmember", "putclass"}
  <2>1. Pops(i) \in {0, 1, 2, 3}
    BY <1>3 DEF Pops, Opcodes
  <2> QED
    BY <2>1
<1> QED
  BY <1>1, <1>2, <1>3

\* The operands of an instruction are on the stack, and refer to the heap.
LEMMA StackFacts ==
  ASSUME SafeInv
  PROVE  /\ Len(stack) \in Nat /\ DOMAIN stack = 1 .. Len(stack)
         /\ \A k \in 1 .. Len(stack) : Live(heap, Arg(k))
         /\ \A k \in 0 .. Len(stack) :
              /\ IsSeq(Top(k)) /\ AllLive(heap, Top(k)) /\ DOMAIN Top(k) = 1 .. k
              /\ Len(Top(k)) = k
         /\ \A k \in 0 .. Len(stack) :
              /\ IsSeq(Below(k)) /\ AllLive(heap, Below(k))
              /\ Len(Below(k)) = Len(stack) - k
<1>1. IsSeq(stack) /\ AllLive(heap, stack)
  BY DEF SafeInv
<1>2. Len(stack) \in Nat /\ DOMAIN stack = 1 .. Len(stack)
  BY <1>1, AppendFacts
<1>3. ASSUME NEW k \in 1 .. Len(stack) PROVE Live(heap, Arg(k))
  <2>1. Len(stack) - k + 1 \in DOMAIN stack
    BY <1>2
  <2> QED
    BY <1>1, <2>1 DEF AllLive, Arg
<1>4. ASSUME NEW k \in 0 .. Len(stack)
      PROVE  /\ IsSeq(Top(k)) /\ AllLive(heap, Top(k)) /\ DOMAIN Top(k) = 1 .. k
             /\ Len(Top(k)) = k
  <2> DEFINE m == Len(stack) - k + 1
             n == Len(stack)
  <2>1. m \in Int /\ n \in Int /\ 1 <= m /\ n <= Len(stack) /\ n - m + 1 = k
    BY <1>2
  <2>2. (IF m <= n THEN n - m + 1 ELSE 0) = k
    BY <1>2
  <2> HIDE DEF m, n
  <2>3. IsSeq(SubSeq(stack, m, n)) /\ AllLive(heap, SubSeq(stack, m, n))
    BY <1>1, <2>1, PartLive
  <2>4. /\ Len(SubSeq(stack, m, n)) = IF m <= n THEN n - m + 1 ELSE 0
        /\ DOMAIN SubSeq(stack, m, n) = 1 .. n - m + 1
    BY <1>1, <2>1, PartFacts
  <2> QED
    BY <2>1, <2>2, <2>3, <2>4 DEF Top, m, n
<1>5. ASSUME NEW k \in 0 .. Len(stack)
      PROVE  /\ IsSeq(Below(k)) /\ AllLive(heap, Below(k))
             /\ Len(Below(k)) = Len(stack) - k
  <2> DEFINE n == Len(stack) - k
  <2>1. n \in Nat /\ n \in Int /\ n <= Len(stack)
    BY <1>2
  <2> HIDE DEF n
  <2>2. (IF 1 <= n THEN n - 1 + 1 ELSE 0) = n
    BY <2>1
  <2>3. IsSeq(SubSeq(stack, 1, n)) /\ AllLive(heap, SubSeq(stack, 1, n))
    BY <1>1, <2>1, PartLive
  <2>4. Len(SubSeq(stack, 1, n)) = IF 1 <= n THEN n - 1 + 1 ELSE 0
    BY <1>1, <2>1, PartFacts
  <2> QED
    BY <2>2, <2>3, <2>4 DEF Below, n
<1> QED
  BY <1>2, <1>3, <1>4, <1>5

LEMMA OperandsLive ==
  ASSUME SafeInv, Executable, NEW op \in Opcodes, At(op)
  PROVE  /\ status = "run" /\ fp \in DOMAIN frames /\ IsInstruction(Instr)
         /\ Instr.op = op
         /\ Len(stack) \in Nat /\ Pops(Instr) \in 0 .. Len(stack)
         /\ \A k \in 1 .. Pops(Instr) : Live(heap, Arg(k))
         /\ IsSeq(Rest) /\ AllLive(heap, Rest)
<1>1. status = "run" /\ Instr.op = op /\ ~Panics
  BY DEF At
<1>2. IsInstruction(Instr)
  BY <1>1 DEF Executable
<1>3. Pops(Instr) \in Nat
  BY <1>1, <1>2, PopsNat
<1>4. ~(Len(stack) < Pops(Instr))
  BY <1>1 DEF Panics
<1>5. fp \in DOMAIN frames
  BY <1>1, SafeFrames
<1>6. Len(stack) \in Nat
  BY StackFacts
<1>7. Pops(Instr) \in 0 .. Len(stack) /\ 1 .. Pops(Instr) \subseteq 1 .. Len(stack)
  BY <1>3, <1>4, <1>6
<1>8. IsSeq(Below(Pops(Instr))) /\ AllLive(heap, Below(Pops(Instr)))
  BY <1>7, StackFacts
<1>9. \A k \in 1 .. Pops(Instr) : Live(heap, Arg(k))
  BY <1>7, StackFacts
<1> QED
  BY <1>1, <1>2, <1>5, <1>6, <1>7, <1>8, <1>9 DEF Rest

-----------------------------------------------------------------------------
(* The steps                                                               *)

\* A local that exists.
LEMMA LocalLive ==
  ASSUME SafeInv, Executable, status = "run", HasLocal,
         Instr.op \in {"readlocal", "setlocal", "setlocalpush"}
  PROVE  /\ Outer(Instr.level) \in DOMAIN frames
         /\ Instr.index \in DOMAIN frames[Outer(Instr.level)].locals
         /\ Live(heap, frames[Outer(Instr.level)].locals[Instr.index])
<1>1. Instr.level \in Nat
  BY DEF Executable, IsInstruction
<1>2. Len(frames) \in Nat /\ DOMAIN frames = 1 .. Len(frames) /\ fp \in DOMAIN frames
  BY SafeFrames
<1>3. \A f \in DOMAIN frames : frames[f].env \in 0 .. f - 1 /\ AllLive(heap, frames[f].locals)
  BY DEF SafeInv, FramesSound
<1> DEFINE o == Outer(Instr.level)
<1>4. o \in 0 .. Len(frames)
  BY <1>1, <1>2, <1>3, OuterIsFrame
<1>5. o # NoFrame /\ Instr.index \in DOMAIN frames[o].locals
  BY DEF HasLocal
<1> HIDE DEF o
<1>6. o \in DOMAIN frames
  BY <1>2, <1>4, <1>5 DEF NoFrame
<1> QED
  BY <1>3, <1>5, <1>6 DEF AllLive, o

\* What is pushed refers to the heap.
LEMMA PushedLive ==
  ASSUME SafeInv, Executable, ~Throws,
         NEW op \in {"nop", "pop", "putvalue", "putstring", "putself", "dup", "dupn", "swap",
                     "unary", "typeof", "readlocal", "readglobal", "readmembersymbol",
                     "readmembervalue", "readarrayindex"},
         At(op)
  PROVE  IsSeq(Pushed) /\ AllLive(heap, Pushed)
<1>1. /\ status = "run" /\ fp \in DOMAIN frames /\ IsInstruction(Instr)
      /\ Instr.op = op
      /\ Len(stack) \in Nat /\ Pops(Instr) \in 0 .. Len(stack)
      /\ \A k \in 1 .. Pops(Instr) : Live(heap, Arg(k))
  <2>1. op \in Opcodes
    BY DEF Opcodes
  <2> QED
    BY <2>1, OperandsLive
<1>2. HeapSound(heap, Len(frames))
  BY DEF SafeInv
<1>3. ASSUME NEW v, Live(heap, v), Pushed = <<v>>
      PROVE  IsSeq(Pushed) /\ AllLive(heap, Pushed)
  BY <1>3, OneLive
<1>4. CASE op \in {"nop", "pop"}
  <2>1. Pushed = <<>>
    BY <1>1, <1>4 DEF Pushed
  <2> QED
    BY <2>1, NoneLive
<1>5. CASE op \in {"putvalue", "putstring"}
  <2>1. Pushed = <<Instr.v>>
    BY <1>1, <1>5 DEF Pushed
  <2>2. Instr.v.k \notin {"object", "array", "class", "function"}
    BY <1>1, <1>5 DEF IsInstruction
  <2> QED
    BY <1>3, <2>1, <2>2, PlainLive
<1>6. CASE op = "putself"
  <2>1. Pushed = <<frames[fp].self>>
    BY <1>1, <1>6 DEF Pushed
  <2> QED
    BY <1>1, <1>3, <2>1 DEF SafeInv, FramesSound
<1>7. CASE op \in {"dup", "swap"}
  <2>1. Pushed = <<Arg(1), Arg(1)>> \/ (Pushed = <<Arg(1), Arg(2)>> /\ Pops(Instr) = 2)
    BY <1>1, <1>7 DEF Pushed, Pops
  <2>2. Live(heap, Arg(1))
    <3>1. Pops(Instr) \in {1, 2}
      BY <1>1, <1>7 DEF Pops
    <3> QED
      BY <1>1, <3>1
  <2>3. Pops(Instr) = 2 => Live(heap, Arg(2))
    BY <1>1
  <2> QED
    BY <2>1, <2>2, <2>3, TwoLive
<1>8. CASE op = "dupn"
  <2>1. Pushed = Top(Instr.n) \o Top(Instr.n) /\ Pops(Instr) = Instr.n
    BY <1>1, <1>8 DEF Pushed, Pops
  <2>2. IsSeq(Top(Instr.n)) /\ AllLive(heap, Top(Instr.n))
    BY <1>1, <2>1, StackFacts
  <2> QED
    BY <2>1, <2>2, JoinLive
<1>9. CASE op \in {"unary", "typeof"}
  <2>1. Pops(Instr) = 1
    BY <1>1, <1>9 DEF Pops
  <2>2. Live(heap, Arg(1))
    BY <1>1, <2>1
  <2>3. \/ Pushed = <<UnaryOf(Instr.s, Arg(1))>> /\ Instr.s \in {"!", "+", "-", "~"}
        \/ Pushed = <<Str(TypeString(Arg(1)))>>
    BY <1>1, <1>9 DEF Pushed, IsInstruction
  <2> QED
    BY <1>3, <2>2, <2>3, UnaryLive, ConstantsLive
<1>10. CASE op = "readlocal"
  <2>1. Pushed = <<frames[Outer(Instr.level)].locals[Instr.index]>>
    BY <1>1, <1>10 DEF Pushed
  <2>2. HasLocal
    BY <1>1, <1>10 DEF At, Panics
  <2> QED
    BY <1>1, <1>3, <1>10, <2>1, <2>2, LocalLive
<1>11. CASE op = "readglobal"
  <2> DEFINE v == IF Instr.s \in DOMAIN Globals THEN Globals[Instr.s] ELSE GlobalTable[Instr.s]
  <2>1. Pushed = <<v>>
    BY <1>1, <1>11 DEF Pushed
  <2>2. Instr.s \in DOMAIN Globals \cup DOMAIN GlobalTable
    BY <1>1, <1>11 DEF Throws
  <2>3. AllLive(heap, GlobalTable)
    BY <1>2, ObjectHolds DEF HeapSound, GlobalTable, GlobalsObject, Value
  <2>4. ASSUME NEW x \in DOMAIN Globals PROVE Live(heap, Globals[x])
    BY ConstantsLive DEF Globals
  <2>5. Live(heap, v)
    BY <2>2, <2>3, <2>4 DEF AllLive
  <2> HIDE DEF v
  <2> QED
    BY <1>3, <2>1, <2>5
<1>12. CASE op = "readmembersymbol"
  <2>1. Pushed = <<ReadMember(heap, Arg(1), Instr.s)>> /\ Pops(Instr) = 1
    BY <1>1, <1>12 DEF Pushed, Pops
  <2>2. Live(heap, Arg(1)) /\ IsMade(Arg(1))
    BY <1>1, <1>12, <2>1 DEF Executable, NoPrimitiveMember, IsMade
  <2>3. Live(heap, ReadMember(heap, Arg(1), Instr.s))
    BY <1>2, <2>2, ReadMemberLive
  <2> QED
    BY <1>3, <2>1, <2>3
<1>13. CASE op = "readmembervalue"
  <2>1. Pushed = <<ReadAt(heap, Arg(2), Arg(1))>> /\ Pops(Instr) = 2
    BY <1>1, <1>13 DEF Pushed, Pops
  <2>2. Live(heap, Arg(2)) /\ IsMade(Arg(2))
    BY <1>1, <1>13, <2>1 DEF Executable, NoPrimitiveMember, IsMade
  <2>3. Live(heap, ReadAt(heap, Arg(2), Arg(1)))
    BY <1>2, <2>2, ReadAtLive
  <2> QED
    BY <1>3, <2>1, <2>3
<1>14. CASE op = "readarrayindex"
  <2>1. Pushed = <<ReadIndex(heap, Arg(1), Num(Instr.index))>> /\ Pops(Instr) = 1
    BY <1>1, <1>14 DEF Pushed, Pops
  <2>2. Live(heap, Arg(1))
    BY <1>1, <2>1
  <2>3. Live(heap, ReadIndex(heap, Arg(1), Num(Instr.index)))
    BY <1>2, <2>2, ReadIndexLive
  <2> QED
    BY <1>3, <2>1, <2>3
<1> QED
  BY <1>4, <1>5, <1>6, <1>7, <1>8, <1>9, <1>10, <1>11, <1>12, <1>13, <1>14

LEMMA SafePush == SafeInv /\ Executable /\ HandlerInv' /\ Push => SafeInv'
<1> SUFFICES ASSUME SafeInv, Executable, HandlerInv', Push PROVE SafeInv'
  OBVIOUS
<1>1. PICK op \in {"nop", "pop", "putvalue", "putstring", "putself", "dup", "dupn", "swap",
                   "unary", "typeof", "readlocal", "readglobal", "readmembersymbol",
                   "readmembervalue", "readarrayindex"} : At(op)
  BY DEF Push
<1>2. IsSeq(Pushed) /\ AllLive(heap, Pushed)
  <2>1. ~Throws
    BY DEF Push
  <2> QED
    BY <1>1, <2>1, PushedLive
<1>3. IsSeq(Rest) /\ AllLive(heap, Rest)
  <2>1. op \in Opcodes
    BY DEF Opcodes
  <2> QED
    BY <1>1, <2>1, OperandsLive
<1>4. stack' = Rest \o Pushed /\ UNCHANGED <<frames, catchstack, result, tape, heap>>
  BY DEF Push, frameVars, endVars, ioVars
<1>5. IsSeq(stack') /\ AllLive(heap, stack')
  BY <1>2, <1>3, <1>4, JoinLive
<1> QED
  BY <1>4, <1>5, SafePushes

\* VM::add ... VM::ubxor
LEMMA SafeOperator == SafeInv /\ Executable /\ HandlerInv' /\ Operator => SafeInv'
<1> SUFFICES ASSUME SafeInv, Executable, HandlerInv', Operator PROVE SafeInv'
  OBVIOUS
<1>1. /\ Instr.op = "operator" /\ IsSeq(Rest) /\ AllLive(heap, Rest)
      /\ \A k \in 1 .. Pops(Instr) : Live(heap, Arg(k))
  BY OperandsLive DEF Operator, Opcodes
<1>2. Live(heap, Arg(1)) /\ Live(heap, Arg(2))
  <2>1. Pops(Instr) = 2
    BY <1>1 DEF Pops
  <2> QED
    BY <1>1, <2>1
<1> DEFINE v == Operate(heap, Instr.s, Arg(2), Arg(1))
<1>3. /\ heap' = HeapAfter(heap, Instr.s, Arg(2), Arg(1)) /\ stack' = Append(Rest, v)
      /\ UNCHANGED <<frames, catchstack, result, tape>>
  BY DEF Operator, frameVars, endVars, ioVars
<1>4. HeapSound(heap, Len(frames)) /\ Len(frames) \in Nat
  BY SafeFrames DEF SafeInv
<1>5. HeapSound(heap', Len(frames)) /\ Keeps(heap, heap') /\ Live(heap', v)
  BY <1>2, <1>3, <1>4, OperateLive
<1> HIDE DEF v
<1>6. AllLive(heap', Rest)
  BY <1>1, <1>5, KeepsAll
<1>7. IsSeq(stack') /\ AllLive(heap', stack')
  BY <1>1, <1>3, <1>5, <1>6, PushLive
<1> QED
  BY <1>3, <1>5, <1>7, SafeWrites

\* op_setglobal, op_setglobalpush
LEMMA SafeSetGlobal == SafeInv /\ Executable /\ HandlerInv' /\ SetGlobal => SafeInv'
<1> SUFFICES ASSUME SafeInv, Executable, HandlerInv', SetGlobal PROVE SafeInv'
  OBVIOUS
<1>1. PICK op \in {"setglobal", "setglobalpush"} : At(op)
  BY DEF SetGlobal
<1>2. /\ Instr.op = op /\ IsSeq(Rest) /\ AllLive(heap, Rest)
      /\ \A k \in 1 .. Pops(Instr) : Live(heap, Arg(k))
  BY <1>1, OperandsLive DEF Opcodes
<1>3. Live(heap, Arg(1))
  <2>1. Pops(Instr) = 1
    BY <1>2 DEF Pops
  <2> QED
    BY <1>2, <2>1
<1>4. /\ heap' = WriteMember(heap, GlobalsObject, Instr.s, Arg(1))
      /\ stack' \in {stack, Rest}
      /\ UNCHANGED <<frames, catchstack, result, tape>>
  BY DEF SetGlobal, frameVars, endVars, ioVars
<1>5. /\ HeapSound(heap, Len(frames)) /\ Len(frames) \in Nat
      /\ IsSeq(stack) /\ AllLive(heap, stack)
  BY SafeFrames DEF SafeInv
<1>6. Live(heap, GlobalsObject) /\ IsMade(GlobalsObject)
  BY <1>5 DEF HeapSound, GlobalsObject, Value, Live, IsMade
<1>7. HeapSound(heap', Len(frames)) /\ Keeps(heap, heap')
  BY <1>3, <1>4, <1>5, <1>6, WriteMemberSound
<1>8. IsSeq(stack') /\ AllLive(heap', stack')
  BY <1>2, <1>4, <1>5, <1>7, KeepsAll
<1> QED
  BY <1>4, <1>7, <1>8, SafeWrites

\* op_setmembersymbol ... op_setarrayindexpush
LEMMA SafeSetMember == SafeInv /\ Executable /\ HandlerInv' /\ SetMember => SafeInv'
<1> SUFFICES ASSUME SafeInv, Executable, HandlerInv', SetMember PROVE SafeInv'
  OBVIOUS
<1>1. PICK op \in {"setmembersymbol", "setmembersymbolpush", "setmembervalue",
                   "setmembervaluepush", "setarrayindex", "setarrayindexpush"} : At(op)
  BY DEF SetMember
<1>2. /\ status = "run" /\ Instr.op = op /\ IsSeq(Rest) /\ AllLive(heap, Rest)
      /\ \A k \in 1 .. Pops(Instr) : Live(heap, Arg(k))
  BY <1>1, OperandsLive DEF Opcodes
<1>3. HeapSound(heap, Len(frames)) /\ Len(frames) \in Nat
  BY SafeFrames DEF SafeInv
<1>4. Live(heap, Arg(1)) /\ Live(heap, Arg(2)) /\ (Pops(Instr) = 3 => Live(heap, Arg(3)))
  <2>1. Pops(Instr) \in {2, 3}
    BY <1>2 DEF Pops
  <2> QED
    BY <1>2, <2>1
<1>5. /\ heap' = Written
      /\ stack' \in {Rest, Append(Rest, Yielded)}
      /\ UNCHANGED <<frames, catchstack, result, tape>>
  BY DEF SetMember, frameVars, endVars, ioVars
<1>6. HeapSound(Written, Len(frames)) /\ Keeps(heap, Written)
  <2>1. CASE op \in {"setmembersymbol", "setmembersymbolpush"}
    <3>1. Written = WriteMember(heap, Arg(2), Instr.s, Arg(1))
      BY <1>2, <2>1 DEF Written
    <3>2. IsMade(Arg(2))
      BY <1>2, <2>1 DEF Executable, NoPrimitiveMember, IsMade
    <3> QED
      BY <1>3, <1>4, <3>1, <3>2, WriteMemberSound
  <2>2. CASE op \in {"setmembervalue", "setmembervaluepush"}
    <3>1. Written = WriteAt(heap, Arg(3), Arg(2), Arg(1)) /\ Pops(Instr) = 3
      BY <1>2, <2>2 DEF Written, Pops
    <3>2. IsMade(Arg(3))
      BY <1>2, <2>2 DEF Executable, NoPrimitiveMember, IsMade
    <3> QED
      BY <1>3, <1>4, <3>1, <3>2, WriteAtSound
  <2>3. CASE op \in {"setarrayindex", "setarrayindexpush"}
    <3>1. Written = WriteAt(heap, Arg(2), Num(Instr.index), Arg(1))
      BY <1>2, <2>3 DEF Written
    <3>2. IsMade(Arg(2))
      BY <1>1, <1>2, <2>3 DEF At, Panics, IsMade
    <3> QED
      BY <1>3, <1>4, <3>1, <3>2, WriteAtSound
  <2> QED
    BY <2>1, <2>2, <2>3
<1>7. Live(heap, Yielded)
  <2>1. Yielded \in {Null, Arg(1)}
    BY DEF Yielded, WriteYields
  <2> QED
    BY <1>4, <2>1, ConstantsLive
<1>8. AllLive(heap', Rest) /\ Live(heap', Yielded)
  BY <1>2, <1>5, <1>6, <1>7, KeepsAll, KeepsLive
<1>9. IsSeq(stack') /\ AllLive(heap', stack')
  BY <1>2, <1>5, <1>8, PushLive
<1> QED
  BY <1>5, <1>6, <1>9, SafeWrites

\* op_setlocal
LEMMA SafeSetLocal == SafeInv /\ Executable /\ HandlerInv' /\ SetLocal => SafeInv'
<1> SUFFICES ASSUME SafeInv, Executable, HandlerInv', SetLocal PROVE SafeInv'
  OBVIOUS
<1>1. PICK op \in {"setlocal", "setlocalpush"} : At(op)
  BY DEF SetLocal
<1>2. /\ status = "run" /\ Instr.op = op /\ IsSeq(Rest) /\ AllLive(heap, Rest)
      /\ \A k \in 1 .. Pops(Instr) : Live(heap, Arg(k))
  BY <1>1, OperandsLive DEF Opcodes
<1>3. Live(heap, Arg(1))
  <2>1. Pops(Instr) = 1
    BY <1>2 DEF Pops
  <2> QED
    BY <1>2, <2>1
<1> DEFINE o == Outer(Instr.level)
           x == Instr.index
           v == Arg(1)
<1>4. o \in DOMAIN frames /\ x \in DOMAIN frames[o].locals
  <2>1. HasLocal
    BY <1>1, <1>2 DEF At, Panics
  <2> QED
    BY <1>2, <2>1, LocalLive
<1>5. /\ frames' = [frames EXCEPT ![o].locals[x] = v]
      /\ stack' \in {stack, Rest}
      /\ UNCHANGED <<heap, catchstack, result, tape>>
  BY DEF SetLocal, endVars, ioVars
<1> HIDE DEF o, x, v
<1>6. DOMAIN frames' = DOMAIN frames
  BY <1>5
<1>7. Len(frames') = Len(frames)
  <2>1. Len(frames) \in Nat /\ DOMAIN frames = 1 .. Len(frames)
    BY SafeFrames
  <2>2. IsSeq(frames')
    BY DEF HandlerInv, Chains
  <2>3. Len(frames') \in Nat /\ DOMAIN frames' = 1 .. Len(frames')
    BY <2>2, AppendFacts
  <2> QED
    BY <1>6, <2>1, <2>3
<1>8. FramesSound(heap, frames')
  <2>1. ASSUME NEW f \in DOMAIN frames
        PROVE  /\ frames'[f].parent \in 0 .. f - 1 /\ frames'[f].env \in 0 .. f - 1
               /\ IsA(heap, frames'[f].fn, FunctionShape)
               /\ Live(heap, frames'[f].self) /\ AllLive(heap, frames'[f].locals)
               /\ Heights(frames'[f].catchtable)
    <3>1. /\ frames[f].parent \in 0 .. f - 1 /\ frames[f].env \in 0 .. f - 1
          /\ IsA(heap, frames[f].fn, FunctionShape)
          /\ Live(heap, frames[f].self) /\ AllLive(heap, frames[f].locals)
          /\ Heights(frames[f].catchtable)
      BY DEF SafeInv, FramesSound
    <3>2. DOMAIN frames[f] = FrameFields
      BY DEF SafeInv, HandlerInv, Chains
    <3>3. CASE f # o
      <4>1. frames'[f] = frames[f]
        BY <1>5, <3>3
      <4> QED
        BY <3>1, <4>1
    <3>4. CASE f = o
      <4>1. /\ frames'[f].parent = frames[f].parent /\ frames'[f].env = frames[f].env
            /\ frames'[f].fn = frames[f].fn /\ frames'[f].self = frames[f].self
            /\ frames'[f].catchtable = frames[f].catchtable
            /\ frames'[f].locals = [frames[f].locals EXCEPT ![x] = v]
        BY <1>4, <1>5, <3>2, <3>4 DEF FrameFields
      <4>2. AllLive(heap, [frames[f].locals EXCEPT ![x] = v])
        BY <1>3, <3>1 DEF AllLive, v
      <4> QED
        BY <3>1, <4>1, <4>2
    <3> QED
      BY <3>3, <3>4
  <2> QED
    BY <1>6, <2>1 DEF FramesSound
<1>9. IsSeq(stack') /\ AllLive(heap, stack')
  BY <1>2, <1>5 DEF SafeInv
<1> QED
  BY <1>5, <1>7, <1>8, <1>9 DEF SafeInv

-----------------------------------------------------------------------------
\* The kinds of what an instruction makes.
ShapeOf(kind) ==
  CASE kind = "object" -> ObjectShape
    [] kind = "array" -> ArrayShape
    [] kind = "function" -> FunctionShape

LEMMA SafeMake ==
  ASSUME SafeInv, HandlerInv', NEW kind \in {"object", "array", "function"}, NEW record,
         Make(kind, record), IsSeq(Rest), AllLive(heap, Rest), DOMAIN record = ShapeOf(kind),
         Sound(heap, Len(heap) + 1, record, Len(frames))
  PROVE  SafeInv'
<1> DEFINE i == Len(heap) + 1
           v == Value(kind, i)
<1>1. /\ heap' = Append(heap, record) /\ stack' = Append(Rest, v)
      /\ UNCHANGED <<frames, catchstack, result, tape>>
  BY DEF Make, frameVars, endVars, ioVars
<1>2. HeapSound(heap, Len(frames)) /\ Len(frames) \in Nat
  BY SafeFrames DEF SafeInv
<1>3. /\ HeapSound(heap', Len(frames)) /\ Keeps(heap, heap')
      /\ Len(heap) \in Nat /\ i \in DOMAIN heap' /\ heap'[i] = record
  BY <1>1, <1>2, HeapAppend
<1>4. i # 1
  <2>1. 2 \in DOMAIN heap
    BY <1>2 DEF HeapSound, IsA
  <2>2. DOMAIN heap = 1 .. Len(heap)
    BY <1>2, AppendFacts DEF HeapSound
  <2> QED
    BY <1>3, <2>1, <2>2
<1>5. v.k = kind /\ v.n = i
  BY DEF Value
<1> HIDE DEF i, v
<1>6. Live(heap', v)
  BY <1>3, <1>4, <1>5 DEF Live, IsA, ShapeOf
<1>7. AllLive(heap', Rest)
  BY <1>3, KeepsAll
<1>8. IsSeq(stack') /\ AllLive(heap', stack')
  BY <1>1, <1>6, <1>7, PushLive
<1> QED
  BY <1>1, <1>3, <1>8, SafeWrites

\* op_putfunction
LEMMA SafePutFunction == SafeInv /\ Executable /\ HandlerInv' /\ PutFunction => SafeInv'
<1> SUFFICES ASSUME SafeInv, Executable, HandlerInv', PutFunction PROVE SafeInv'
  OBVIOUS
<1> DEFINE r ==
      [fields |-> NoFields, name |-> Instr.s, body |-> ip + Instr.to, context |-> fp,
       argc |-> Instr.d.argc, minimum |-> Instr.d.minimum,
       lvarcount |-> Instr.d.lvarcount, anonymous |-> Instr.d.anonymous,
       args |-> Instr.d.args, host |-> 0, bound |-> <<>>]
<1>1. At("putfunction") /\ Make("function", r)
  BY DEF PutFunction
<1>2. /\ IsInstruction(Instr) /\ Instr.op = "putfunction" /\ fp \in DOMAIN frames
      /\ IsSeq(Rest) /\ AllLive(heap, Rest)
  BY <1>1, OperandsLive DEF Opcodes
<1>3. /\ DOMAIN r = FunctionShape /\ r.context = fp /\ r.lvarcount = Instr.d.lvarcount
      /\ r.host = 0 /\ r.bound = <<>> /\ r.fields = NoFields
  BY DEF FunctionShape
<1>4. r.args = Instr.d.args /\ r.anonymous = Instr.d.anonymous
  OBVIOUS
<1> HIDE DEF r
<1>5. /\ r.lvarcount \in Nat /\ r.args \in BOOLEAN /\ r.anonymous \in BOOLEAN
  BY <1>2, <1>3, <1>4 DEF IsInstruction
<1>6. r.context \in 0 .. Len(frames) /\ r.context # NoFrame
  BY <1>2, <1>3, SafeFrames DEF NoFrame
<1>7. IsSeq(r.bound) /\ AllLive(heap, r.bound) /\ AllLive(heap, r.fields)
  <2>1. AllLive(heap, NoFields)
    BY DEF AllLive, NoFields
  <2> QED
    BY <1>3, <2>1, NoneLive
<1>8. r.host \in ClassesIn(heap)
  BY <1>3 DEF ClassesIn
<1>9. Sound(heap, Len(heap) + 1, r, Len(frames))
  BY <1>3, <1>5, <1>6, <1>7, <1>8 DEF Sound
<1>10. DOMAIN r = ShapeOf("function")
  BY <1>3 DEF ShapeOf
<1> QED
  BY <1>1, <1>2, <1>9, <1>10, SafeMake

\* op_putarray
LEMMA SafePutArray == SafeInv /\ Executable /\ HandlerInv' /\ PutArray => SafeInv'
<1> SUFFICES ASSUME SafeInv, Executable, HandlerInv', PutArray PROVE SafeInv'
  OBVIOUS
<1> DEFINE r == ArrayOf(Top(Instr.n))
<1>1. At("putarray") /\ Make("array", r)
  BY DEF PutArray
<1>2. /\ IsInstruction(Instr) /\ Instr.op = "putarray" /\ Pops(Instr) \in 0 .. Len(stack)
      /\ IsSeq(Rest) /\ AllLive(heap, Rest)
  BY <1>1, OperandsLive DEF Opcodes
<1>3. DOMAIN r = ArrayShape /\ r.elems = Top(Instr.n)
  BY DEF ArrayShape, ArrayOf
<1> HIDE DEF r
<1>4. Pops(Instr) = Instr.n
  BY <1>2 DEF Pops
<1>5. IsSeq(r.elems) /\ AllLive(heap, r.elems)
  BY <1>2, <1>3, <1>4, StackFacts
<1>6. Sound(heap, Len(heap) + 1, r, Len(frames)) /\ DOMAIN r = ShapeOf("array")
  BY <1>3, <1>5 DEF Sound, ShapeOf
<1> QED
  BY <1>1, <1>2, <1>6, SafeMake

\* An object with fields.
LEMMA InstanceSound ==
  ASSUME NEW h, NEW i, NEW n, NEW c \in ClassesIn(h), NEW f, AllLive(h, f)
  PROVE  DOMAIN Instance(c, f) = ObjectShape /\ Sound(h, i, Instance(c, f), n)
<1> DEFINE o == Instance(c, f)
<1>1. DOMAIN o = ObjectShape /\ o.klass = c /\ o.fields = f
  BY DEF Instance, ObjectShape
<1> HIDE DEF o
<1>2. Sound(h, i, o, n)
  BY <1>1 DEF Sound
<1> QED
  BY <1>1, <1>2 DEF o

\* op_puthash
LEMMA SafePutHash == SafeInv /\ Executable /\ HandlerInv' /\ PutHash => SafeInv'
<1> SUFFICES ASSUME SafeInv, Executable, HandlerInv', PutHash PROVE SafeInv'
  OBVIOUS
<1> DEFINE operands == Top(2 * Instr.n)
           names == [i \in 1 .. Instr.n |-> operands[2 * i].s]
           values == [i \in 1 .. Instr.n |-> operands[2 * i - 1]]
           r == Instance(0, FieldsOf(names, values))
<1>1. At("puthash") /\ Make("object", r)
  BY DEF PutHash
<1>2. /\ IsInstruction(Instr) /\ Instr.op = "puthash" /\ Pops(Instr) \in 0 .. Len(stack)
      /\ IsSeq(Rest) /\ AllLive(heap, Rest)
  BY <1>1, OperandsLive DEF Opcodes
<1>3. Pops(Instr) = 2 * Instr.n /\ Instr.n \in Nat
  BY <1>2 DEF Pops, IsInstruction
<1>4. AllLive(heap, operands) /\ DOMAIN operands = 1 .. 2 * Instr.n
  BY <1>2, <1>3, StackFacts
<1>5. DOMAIN names = 1 .. Instr.n /\ DOMAIN names \subseteq Nat
  BY <1>3
<1>6. \A i \in 1 .. Instr.n : Live(heap, values[i])
  <2> HIDE DEF operands
  <2>1. \A i \in 1 .. Instr.n : 2 * i - 1 \in 1 .. 2 * Instr.n
    BY <1>3
  <2> QED
    BY <1>4, <2>1 DEF AllLive
<1> HIDE DEF names, values
<1>7. AllLive(heap, FieldsOf(names, values))
  BY <1>5, <1>6, FieldsOfLive
<1>8. 0 \in ClassesIn(heap)
  BY DEF ClassesIn
<1>9. DOMAIN r = ObjectShape /\ Sound(heap, Len(heap) + 1, r, Len(frames))
  BY <1>7, <1>8, InstanceSound
<1>10. DOMAIN r = ShapeOf("object")
  BY <1>9 DEF ShapeOf
<1> HIDE DEF r
<1> QED
  BY <1>1, <1>2, <1>9, <1>10, SafeMake

\* op_putsuper, op_putsupermember
LEMMA SafePutSuper == SafeInv /\ Executable /\ HandlerInv' /\ PutSuper => SafeInv'
<1> SUFFICES ASSUME SafeInv, Executable, HandlerInv', PutSuper PROVE SafeInv'
  OBVIOUS
<1>1. PICK op \in {"putsuper", "putsupermember"} : At(op)
  BY DEF PutSuper
<1>2. /\ Instr.op = op /\ fp \in DOMAIN frames /\ IsSeq(Rest) /\ AllLive(heap, Rest)
  BY <1>1, OperandsLive DEF Opcodes
<1>3. HeapSound(heap, Len(frames))
  BY DEF SafeInv
<1>4. /\ IsA(heap, frames[fp].fn, FunctionShape) /\ Live(heap, frames[fp].self)
  BY <1>2 DEF SafeInv, FramesSound
<1>5. HostClass \in ClassesIn(heap) /\ HostClass # 0
  <2>1. HostClass # 0
    BY <1>1, <1>2 DEF At, Panics
  <2> QED
    BY <1>3, <1>4, <2>1, FunctionHolds DEF HostClass
<1> DEFINE parent == heap[HostClass].parent
<1>6. parent \in ClassesIn(heap)
  BY <1>3, <1>5, ClassHolds
<1> DEFINE name == IF Instr.op = "putsuper" THEN heap[frames[fp].fn].name ELSE Instr.s
           found == FindValue(heap, parent, name)
<1>7. Option(heap, found)
  BY <1>3, <1>6, FindValueFinds DEF Option
<1>8. Live(heap, SuperValue)
  <2>1. \/ SuperValue = FindConstructor(heap, parent)
        \/ found # <<>> /\ SuperValue = found[1]
        \/ SuperValue = Null
    BY DEF SuperValue
  <2>2. Live(heap, FindConstructor(heap, parent))
    BY <1>3, <1>6, FindConstructorFinds, ConstantsLive
  <2>3. found # <<>> => Live(heap, found[1])
    BY <1>7, OptionLive
  <2> HIDE DEF found, parent
  <2> QED
    BY <2>1, <2>2, <2>3, ConstantsLive
<1> HIDE DEF found, parent, name
<1>9. CASE SuperValue.k = "function"
  <2> DEFINE s == SuperValue
             r == [heap[s.n] EXCEPT !.bound = <<frames[fp].self>>]
  <2>1. Make("function", r)
    BY <1>9 DEF PutSuper
  <2>2. IsA(heap, s.n, FunctionShape) /\ s.n # 1
    BY <1>8, <1>9 DEF Live
  <2> HIDE DEF s
  <2>3. Sound(heap, s.n, heap[s.n], Len(frames)) /\ DOMAIN heap[s.n] = FunctionShape
    BY <1>3, <2>2 DEF HeapSound, IsA
  <2>4. heap[s.n].context # NoFrame
    BY <1>3, <2>2, FunctionHolds
  <2>5. DOMAIN r = FunctionShape /\ Sound(heap, Len(heap) + 1, r, Len(frames))
    BY <1>4, <2>3, <2>4, SoundBound
  <2>6. DOMAIN r = ShapeOf("function")
    BY <2>5 DEF ShapeOf
  <2> HIDE DEF r
  <2> QED
    BY <1>2, <2>1, <2>5, <2>6, SafeMake
<1>10. CASE SuperValue.k # "function"
  <2>1. stack' = Append(Rest, SuperValue) /\ UNCHANGED <<frames, catchstack, result, tape, heap>>
    BY <1>10 DEF PutSuper, frameVars, endVars, ioVars
  <2>2. IsSeq(stack') /\ AllLive(heap, stack')
    BY <1>2, <1>8, <2>1, PushLive
  <2> QED
    BY <2>1, <2>2, SafePushes
<1> QED
  BY <1>9, <1>10

\* The operands of putclass: the values below the constructor and the parent.
LEMMA ClassOperands ==
  ASSUME SafeInv, Executable, At("putclass")
  PROVE  /\ \A s \in {Operands.sfuncs, Operands.funcs, Operands.sprops, Operands.props} :
              IsSeq(s) /\ AllLive(heap, s)
         /\ Instr.d.constructor = 1 => Live(heap, Arg(1))
         /\ Instr.d.parent = 1 => Live(heap, ParentArg)
<1> DEFINE d == Instr.d
           below == Below(d.parent + d.constructor)
           Part(from, n) == SubSeq(below, Len(below) - from + 1, Len(below) - from + n)
<1>1. /\ IsInstruction(Instr) /\ Instr.op = "putclass"
      /\ Len(stack) \in Nat /\ Pops(Instr) \in 0 .. Len(stack)
      /\ \A k \in 1 .. Pops(Instr) : Live(heap, Arg(k))
  BY OperandsLive DEF Opcodes
<1>2. /\ d.props \in Nat /\ d.sprops \in Nat /\ d.funcs \in Nat /\ d.sfuncs \in Nat
      /\ d.parent \in {0, 1} /\ d.constructor \in {0, 1}
  BY <1>1 DEF IsInstruction
<1>3. Pops(Instr) = d.props + d.sprops + d.funcs + d.sfuncs + d.parent + d.constructor
  BY <1>1 DEF Pops
<1>4. d.constructor = 1 => Live(heap, Arg(1))
  <2>1. d.constructor = 1 => 1 \in 1 .. Pops(Instr)
    BY <1>2, <1>3
  <2> QED
    BY <1>1, <2>1
<1>5. d.parent = 1 => Live(heap, ParentArg)
  <2>1. d.parent = 1 => 1 + d.constructor \in 1 .. Pops(Instr)
    BY <1>2, <1>3
  <2> QED
    BY <1>1, <2>1 DEF ParentArg
<1>6. /\ IsSeq(below) /\ AllLive(heap, below)
      /\ Len(below) \in Nat /\ d.sfuncs + d.funcs + d.sprops + d.props <= Len(below)
  <2> DEFINE a == d.props + d.sprops + d.funcs + d.sfuncs
             b == d.parent + d.constructor
  <2>0. a \in Nat /\ b \in Nat /\ Pops(Instr) = a + b
    <3>1. d.parent \in Nat /\ d.constructor \in Nat
      BY <1>2
    <3>2. \A p, q, r, t, u, v \in Nat :
            /\ p + q + r + t \in Nat /\ u + v \in Nat
            /\ p + q + r + t + u + v = (p + q + r + t) + (u + v)
      OBVIOUS
    <3>3. a \in Nat /\ b \in Nat
      BY <1>2, <3>1
    <3>4. Pops(Instr) = a + b
      BY <1>2, <1>3, <3>1, <3>2
    <3> QED
      BY <3>3, <3>4
  <2>1. b \in 0 .. Len(stack) /\ a <= Len(stack) - b
    <3> HIDE DEF a, b
    <3> QED
      BY <1>1, <2>0
  <2>2. /\ IsSeq(below) /\ AllLive(heap, below)
        /\ Len(below) = Len(stack) - b
    BY <2>1, StackFacts
  <2>3. d.sfuncs + d.funcs + d.sprops + d.props = a
    <3> HIDE DEF d
    <3> QED
      BY <1>2
  <2> HIDE DEF a, b, below
  <2> QED
    BY <1>1, <2>0, <2>1, <2>2, <2>3
<1> HIDE DEF below
<1>7. ASSUME NEW from \in Nat, NEW n \in Nat, n <= from, from <= Len(below)
      PROVE  IsSeq(Part(from, n)) /\ AllLive(heap, Part(from, n))
  <2>1. /\ Len(below) - from + 1 \in Int /\ Len(below) - from + n \in Int
        /\ 1 <= Len(below) - from + 1 /\ Len(below) - from + n <= Len(below)
    BY <1>6, <1>7
  <2> QED
    BY <1>6, <2>1, PartLive
<1>8. /\ Operands.sfuncs = Part(d.sfuncs, d.sfuncs)
      /\ Operands.funcs = Part(d.sfuncs + d.funcs, d.funcs)
      /\ Operands.sprops = Part(d.sfuncs + d.funcs + d.sprops, d.sprops)
      /\ Operands.props = Part(d.sfuncs + d.funcs + d.sprops + d.props, d.props)
  BY DEF Operands, below
<1> HIDE DEF d, Part
<1>9. /\ d.sfuncs \in Nat /\ d.sfuncs <= d.sfuncs /\ d.sfuncs <= Len(below)
      /\ d.sfuncs + d.funcs \in Nat /\ d.funcs <= d.sfuncs + d.funcs
      /\ d.sfuncs + d.funcs <= Len(below)
      /\ d.sfuncs + d.funcs + d.sprops \in Nat /\ d.sprops <= d.sfuncs + d.funcs + d.sprops
      /\ d.sfuncs + d.funcs + d.sprops <= Len(below)
      /\ d.sfuncs + d.funcs + d.sprops + d.props \in Nat
      /\ d.props <= d.sfuncs + d.funcs + d.sprops + d.props
      /\ d.sfuncs + d.funcs + d.sprops + d.props <= Len(below)
  BY <1>2, <1>6
<1>10. /\ IsSeq(Operands.sfuncs) /\ AllLive(heap, Operands.sfuncs)
       /\ IsSeq(Operands.funcs) /\ AllLive(heap, Operands.funcs)
       /\ IsSeq(Operands.sprops) /\ AllLive(heap, Operands.sprops)
       /\ IsSeq(Operands.props) /\ AllLive(heap, Operands.props)
  BY <1>2, <1>7, <1>8, <1>9
<1> QED
  BY <1>4, <1>5, <1>10 DEF d

\* A function that gets to know its class.
LEMMA SoundHost ==
  ASSUME NEW h, NEW i, NEW o, NEW n, NEW c \in ClassesIn(h), Sound(h, i, o, n),
         DOMAIN o = FunctionShape
  PROVE  Sound(h, i, [o EXCEPT !.host = c], n)
<1> DEFINE w == [o EXCEPT !.host = c]
<1>1. DOMAIN w = FunctionShape /\ w.host = c
  BY DEF FunctionShape
<1>2. /\ w.context = o.context /\ w.lvarcount = o.lvarcount /\ w.args = o.args
      /\ w.anonymous = o.anonymous /\ w.bound = o.bound /\ w.fields = o.fields
  BY DEF FunctionShape
<1>3. /\ o.context \in 0 .. n /\ (o.context = NoFrame => i = 1)
      /\ o.lvarcount \in Nat /\ o.args \in BOOLEAN /\ o.anonymous \in BOOLEAN
      /\ IsSeq(o.bound) /\ AllLive(h, o.bound) /\ AllLive(h, o.fields)
  BY ShapesDiffer DEF Sound
<1> HIDE DEF w
<1>4. Sound(h, i, w, n)
  BY <1>1, <1>2, <1>3 DEF Sound
<1> QED
  BY <1>4 DEF w

\* op_putclass
LEMMA SafePutClass == SafeInv /\ Executable /\ HandlerInv' /\ PutClass => SafeInv'
<1> SUFFICES ASSUME SafeInv, Executable, HandlerInv', PutClass PROVE SafeInv'
  OBVIOUS
<1> DEFINE c == Len(heap) + 2
           d == Instr.d
           Names(fs)   == [i \in DOMAIN fs |-> heap[fs[i].n].name]
           Symbols(ps) == [i \in DOMAIN ps |-> ps[i].s]
           constructor == IF d.constructor = 1 THEN <<Arg(1)>> ELSE <<>>
           fns     == constructor \o Operands.funcs \o Operands.sfuncs
           statics == FieldsOf(Symbols(Operands.sprops), [i \in 1 .. d.sprops |-> Null])
           methods == FieldsOf(Names(Operands.sfuncs), Operands.sfuncs)
           hosted  == [i \in DOMAIN heap |->
                         IF \E j \in DOMAIN fns : fns[j].n = i
                         THEN [heap[i] EXCEPT !.host = c] ELSE heap[i]]
           fields  == [x \in DOMAIN statics \cup DOMAIN methods |->
                         IF x \in DOMAIN statics THEN Null ELSE methods[x]]
           proto   == Instance(0, FieldsOf(Names(Operands.funcs), Operands.funcs))
           class   == [name |-> Instr.s, parent |-> IF d.parent = 1 THEN ParentArg.n ELSE 0,
                       constructor |-> IF d.constructor = 1 THEN Arg(1) ELSE Null,
                       proto |-> c - 1,
                       props |-> {Operands.props[i].s : i \in DOMAIN Operands.props},
                       fields |-> fields]
           n == Len(frames)
<1>1. /\ At("putclass") /\ ~Throws
      /\ heap' = hosted \o <<proto, class>>
      /\ stack' = Append(Rest, Value("class", c))
      /\ UNCHANGED <<frames, catchstack, result, tape>>
  BY DEF PutClass, frameVars, endVars, ioVars
<1>2. /\ Instr.op = "putclass" /\ IsSeq(Rest) /\ AllLive(heap, Rest)
      /\ d.parent \in {0, 1} /\ d.constructor \in {0, 1}
  BY <1>1, OperandsLive DEF Opcodes, IsInstruction
<1>3. /\ IsSeq(Operands.funcs) /\ AllLive(heap, Operands.funcs)
      /\ IsSeq(Operands.sfuncs) /\ AllLive(heap, Operands.sfuncs)
      /\ d.constructor = 1 => Live(heap, Arg(1))
      /\ d.parent = 1 => Live(heap, ParentArg)
  BY <1>1, ClassOperands
<1>4. /\ d.constructor = 1 => Arg(1).k = "function"
      /\ d.parent = 1 => ParentArg.k = "class"
      /\ \A f \in DOMAIN Operands.funcs : Operands.funcs[f].k = "function"
      /\ \A f \in DOMAIN Operands.sfuncs : Operands.sfuncs[f].k = "function"
  <2>1. ~Panics
    BY <1>1 DEF At
  <2>2. d.parent = 1 => ParentArg.k = "class"
    BY <1>1, <1>2 DEF Throws
  <2>3. d.constructor = 1 => Arg(1).k = "function"
    BY <1>2, <2>1 DEF Panics
  <2>4. /\ \A f \in DOMAIN Operands.funcs : Operands.funcs[f].k = "function"
        /\ \A f \in DOMAIN Operands.sfuncs : Operands.sfuncs[f].k = "function"
    BY <1>1, <1>2, <2>1 DEF Panics
  <2> QED
    BY <2>2, <2>3, <2>4
<1>5. HeapSound(heap, n) /\ n \in Nat
  BY SafeFrames DEF SafeInv
<1>6. Len(heap) \in Nat /\ DOMAIN heap = 1 .. Len(heap) /\ IsSeq(heap)
  BY <1>5, AppendFacts DEF HeapSound
\* The functions.
<1>7. ASSUME NEW j \in DOMAIN fns PROVE IsA(heap, fns[j].n, FunctionShape)
  <2>1. IsSeq(constructor) /\ AllLive(heap, constructor)
    BY <1>2, <1>3, OneLive, NoneLive
  <2>2. \A i \in DOMAIN constructor : constructor[i].k = "function"
    BY <1>4
  <2> HIDE DEF constructor
  <2>3. Live(heap, fns[j]) /\ fns[j].k = "function"
    <3> DEFINE a == constructor \o Operands.funcs
    <3>1. IsSeq(a) /\ AllLive(heap, a)
      BY <1>3, <2>1, JoinLive
    <3>2. \A i \in DOMAIN a : a[i].k = "function"
      <4>1. /\ Len(constructor) \in Nat /\ Len(Operands.funcs) \in Nat
            /\ DOMAIN constructor = 1 .. Len(constructor)
            /\ DOMAIN Operands.funcs = 1 .. Len(Operands.funcs)
            /\ DOMAIN a = 1 .. Len(constructor) + Len(Operands.funcs)
            /\ \A i \in 1 .. Len(constructor) + Len(Operands.funcs) :
                 a[i] = IF i <= Len(constructor) THEN constructor[i]
                        ELSE Operands.funcs[i - Len(constructor)]
        BY <1>3, <2>1, JoinFacts
      <4> HIDE DEF a
      <4>2. \A i \in DOMAIN a : i <= Len(constructor) => i \in DOMAIN constructor
        BY <4>1
      <4>3. \A i \in DOMAIN a : ~(i <= Len(constructor))
                                  => i - Len(constructor) \in DOMAIN Operands.funcs
        BY <4>1
      <4> QED
        BY <1>4, <2>2, <4>1, <4>2, <4>3
    <3> HIDE DEF a
    <3>3. fns = a \o Operands.sfuncs
      BY DEF a
    <3> HIDE DEF fns
    <3>4. IsSeq(fns) /\ AllLive(heap, fns)
      BY <1>3, <3>1, <3>3, JoinLive
    <3>5. /\ Len(a) \in Nat /\ Len(Operands.sfuncs) \in Nat
          /\ DOMAIN a = 1 .. Len(a)
          /\ DOMAIN Operands.sfuncs = 1 .. Len(Operands.sfuncs)
          /\ DOMAIN fns = 1 .. Len(a) + Len(Operands.sfuncs)
          /\ \A i \in 1 .. Len(a) + Len(Operands.sfuncs) :
               fns[i] = IF i <= Len(a) THEN a[i] ELSE Operands.sfuncs[i - Len(a)]
      BY <1>3, <3>1, <3>3, JoinFacts
    <3>6. j <= Len(a) => j \in DOMAIN a
      BY <3>5
    <3>7. ~(j <= Len(a)) => j - Len(a) \in DOMAIN Operands.sfuncs
      BY <3>5
    <3>8. fns[j].k = "function"
      BY <1>4, <3>2, <3>5, <3>6, <3>7
    <3> QED
      BY <3>4, <3>8 DEF AllLive
  <2> QED
    BY <2>3 DEF Live
<1> HIDE DEF fns
\* The places of the new heap.
<1> DEFINE g == hosted \o <<proto, class>>
<1>8. IsSeq(hosted) /\ Len(hosted) = Len(heap) /\ DOMAIN hosted = DOMAIN heap
  <2>1. hosted \in Seq({hosted[i] : i \in 1 .. Len(heap)})
    BY <1>6
  <2>2. IsSeq(hosted) /\ DOMAIN hosted = DOMAIN heap
    BY <2>1, IsSeqIntro
  <2> HIDE DEF hosted
  <2>3. Len(hosted) \in Nat /\ DOMAIN hosted = 1 .. Len(hosted)
    BY <2>2, AppendFacts
  <2> QED
    BY <1>6, <2>2, <2>3
<1>9. \A i \in DOMAIN heap :
        \/ hosted[i] = heap[i]
        \/ IsA(heap, i, FunctionShape) /\ hosted[i] = [heap[i] EXCEPT !.host = c]
  BY <1>7
<1> HIDE DEF hosted, proto, class
<1>10. /\ IsSeq(g) /\ DOMAIN g = 1 .. c
       /\ \A i \in DOMAIN heap : g[i] = hosted[i]
       /\ g[c - 1] = proto /\ g[c] = class
  <2>1. IsSeq(<<proto, class>>) /\ Len(<<proto, class>>) = 2
    <3>1. <<proto, class>> \in Seq({proto, class})
      OBVIOUS
    <3> QED
      BY <3>1, IsSeqIntro
  <2>2. /\ IsSeq(g) /\ DOMAIN g = 1 .. Len(heap) + 2
        /\ \A i \in 1 .. Len(heap) + 2 :
             g[i] = IF i <= Len(heap) THEN hosted[i] ELSE <<proto, class>>[i - Len(heap)]
    BY <1>8, <2>1, JoinFacts
  <2> HIDE DEF g
  <2>3. c - 1 - Len(heap) = 1 /\ c - Len(heap) = 2 /\ c - 1 \in 1 .. Len(heap) + 2
    BY <1>6
  <2> QED
    BY <1>6, <2>2, <2>3
<1> HIDE DEF g
<1>11. DOMAIN class = ClassShape /\ class.proto = c - 1 /\ class.fields = fields
       /\ class.parent = (IF d.parent = 1 THEN ParentArg.n ELSE 0)
       /\ class.constructor = (IF d.constructor = 1 THEN Arg(1) ELSE Null)
  BY DEF class, ClassShape
<1>12. Keeps(heap, g)
  <2>1. \A i \in DOMAIN heap : DOMAIN hosted[i] = DOMAIN heap[i]
    BY <1>9
  <2> QED
    BY <1>6, <1>10, <2>1 DEF Keeps
<1>13. c \in ClassesIn(g) /\ 0 \in ClassesIn(g) /\ c \in Nat /\ c # 0
  <2>1. "parent" \in DOMAIN g[c] /\ c \in DOMAIN g
    BY <1>6, <1>10, <1>11 DEF ClassShape
  <2> QED
    BY <1>6, <2>1 DEF ClassesIn
<1> HIDE DEF c
<1>14. DOMAIN proto = ObjectShape /\ Sound(g, c - 1, proto, n)
  <2>1. DOMAIN Names(Operands.funcs) \subseteq Nat
        /\ DOMAIN Names(Operands.funcs) = DOMAIN Operands.funcs
    BY <1>3, AppendFacts
  <2>2. \A i \in DOMAIN Operands.funcs : Live(g, Operands.funcs[i])
    BY <1>3, <1>12, KeepsLive DEF AllLive
  <2> DEFINE names == Names(Operands.funcs)
  <2> HIDE DEF names
  <2>3. AllLive(g, FieldsOf(names, Operands.funcs))
    BY <2>1, <2>2, FieldsOfLive DEF names
  <2>4. proto = Instance(0, FieldsOf(names, Operands.funcs))
    BY DEF proto, names
  <2> QED
    BY <1>13, <2>3, <2>4, InstanceSound
<1>15. AllLive(g, fields)
  <2> DEFINE names == Names(Operands.sfuncs)
  <2>1. DOMAIN names \subseteq Nat /\ DOMAIN names = DOMAIN Operands.sfuncs
    BY <1>3, AppendFacts
  <2>2. \A i \in DOMAIN Operands.sfuncs : Live(g, Operands.sfuncs[i])
    BY <1>3, <1>12, KeepsLive DEF AllLive
  <2>3. methods = FieldsOf(names, Operands.sfuncs)
    OBVIOUS
  <2> HIDE DEF names, methods, statics
  <2>4. AllLive(g, methods)
    BY <2>1, <2>2, <2>3, FieldsOfLive
  <2> QED
    BY <2>4, ConstantsLive DEF AllLive
<1> HIDE DEF fields
<1>16. Sound(g, c, class, n)
  <2>1. class.parent \in 0 .. c - 1 /\ class.parent \in ClassesIn(g)
    <3>1. CASE d.parent = 1
      <4>1. ParentArg.n \in ClassesIn(heap)
        BY <1>3, <1>4, <3>1 DEF Live
      <4>2. ParentArg.n \in 0 .. Len(heap)
        BY <1>6, <4>1 DEF ClassesIn
      <4>3. ParentArg.n \in ClassesIn(g)
        BY <1>12, <4>1 DEF ClassesIn, Keeps
      <4> QED
        BY <1>6, <1>11, <3>1, <4>2, <4>3 DEF c
    <3>2. CASE d.parent # 1
      BY <1>6, <1>11, <1>13, <3>2 DEF c
    <3> QED
      BY <3>1, <3>2
  <2>2. IsA(g, class.proto, ObjectShape)
    <3>1. c - 1 \in DOMAIN g
      BY <1>6, <1>10 DEF c
    <3> QED
      BY <1>10, <1>11, <1>14, <3>1 DEF IsA
  <2>3. \/ class.constructor = Null
        \/ class.constructor.k = "function" /\ Live(g, class.constructor)
    BY <1>3, <1>4, <1>11, <1>12, KeepsLive
  <2> QED
    BY <1>11, <1>15, <2>1, <2>2, <2>3 DEF Sound
<1>17. ASSUME NEW i \in DOMAIN heap PROVE Sound(g, i, g[i], n)
  <2>1. Sound(g, i, heap[i], n)
    BY <1>5, <1>12, KeepsSound DEF HeapSound
  <2>2. CASE hosted[i] = heap[i]
    BY <1>10, <2>1, <2>2
  <2>3. CASE IsA(heap, i, FunctionShape) /\ hosted[i] = [heap[i] EXCEPT !.host = c]
    <3>1. DOMAIN heap[i] = FunctionShape
      BY <2>3 DEF IsA
    <3>2. Sound(g, i, [heap[i] EXCEPT !.host = c], n)
      BY <1>13, <2>1, <3>1, SoundHost
    <3> QED
      BY <1>10, <2>3, <3>2
  <2> QED
    BY <1>9, <2>2, <2>3
<1>18. HeapSound(g, n)
  <2>1. \A i \in DOMAIN g : i \in DOMAIN heap \/ i = c - 1 \/ i = c
    BY <1>6, <1>10 DEF c
  <2>2. \A i \in DOMAIN g : Sound(g, i, g[i], n)
    BY <1>10, <1>14, <1>16, <1>17, <2>1
  <2>3. IsA(g, 2, ObjectShape)
    BY <1>5, <1>12 DEF HeapSound, IsA, Keeps
  <2> QED
    BY <1>10, <2>2, <2>3 DEF HeapSound
<1>19. heap' = g
  BY <1>1 DEF g
<1>20. Live(g, Value("class", c))
  BY <1>13 DEF Live, Value
<1>21. IsSeq(stack') /\ AllLive(g, stack')
  <2>1. AllLive(g, Rest)
    BY <1>2, <1>12, KeepsAll
  <2>2. stack' = Append(Rest, Value("class", c))
    BY <1>1
  <2> DEFINE v == Value("class", c)
  <2> HIDE DEF v
  <2> QED
    BY <1>2, <1>20, <2>1, <2>2, PushLive DEF v
<1> QED
  BY <1>1, <1>12, <1>18, <1>19, <1>21, SafeWrites

\* The slots of a new frame.
LEMMA NewLocalsLive ==
  ASSUME NEW g, NEW f, NEW args, NEW array, f.args \in BOOLEAN, f.lvarcount \in Nat,
         IsSeq(args), AllLive(g, args), f.args => IsA(g, array, ArrayShape)
  PROVE  AllLive(g, NewLocals(f, args, array))
<1> DEFINE locals == NewLocals(f, args, array)
<1>1. Len(args) \in Nat /\ DOMAIN args = 1 .. Len(args)
  BY AppendFacts
<1>2. DOMAIN locals = 0 .. f.lvarcount - 1
  BY DEF NewLocals
<1>3. ASSUME NEW i \in DOMAIN locals PROVE Live(g, locals[i])
  <2>1. i \in 0 .. f.lvarcount - 1 /\ i \in Nat
    BY <1>2
  <2>2. \/ f.args /\ locals[i] = Value("array", array)
        \/ i \in 1 .. Len(args) /\ locals[i] = args[i]
        \/ i < Len(args) /\ locals[i] = args[i + 1]
        \/ locals[i] = Null
    BY <2>1 DEF NewLocals
  <2> HIDE DEF locals
  <2>3. CASE f.args /\ locals[i] = Value("array", array)
    <3>1. IsA(g, array, ArrayShape)
      BY <2>3
    <3>2. Live(g, Value("array", array))
      BY <3>1 DEF Live, Value
    <3> QED
      BY <2>3, <3>2
  <2>4. CASE i \in 1 .. Len(args) /\ locals[i] = args[i]
    BY <1>1, <2>4 DEF AllLive
  <2>5. CASE i < Len(args) /\ locals[i] = args[i + 1]
    <3>1. i + 1 \in DOMAIN args
      BY <1>1, <2>1, <2>5
    <3> QED
      BY <2>5, <3>1 DEF AllLive
  <2>6. CASE locals[i] = Null
    BY <2>6, ConstantsLive
  <2> QED
    BY <2>2, <2>3, <2>4, <2>5, <2>6
<1> QED
  BY <1>3 DEF AllLive

\* call_function
LEMMA SafeEnter ==
  ASSUME SafeInv, HandlerInv', status = "run",
         IsSeq(Rest), AllLive(heap, Rest), IsSeq(CallArgs), AllLive(heap, CallArgs),
         NEW h, HeapSound(h, Len(frames)), Keeps(heap, h),
         NEW f, IsA(h, f, FunctionShape), f # 1, NEW self, Live(h, self),
         Enter(h, f, self)
  PROVE  SafeInv'
<1> DEFINE n == Len(frames) + 1
           locals == NewLocals(h[f], CallArgs, Len(h) + 1)
<1>1. PICK r : /\ frames' = Append(frames, r)
               /\ r.parent = fp /\ r.env = h[f].context /\ r.catchtable = catchstack
               /\ r.locals = locals /\ r.self = self /\ r.fn = f
  <2> WITNESS [parent |-> fp, env |-> h[f].context, catchtable |-> catchstack,
               origin |-> ip, locals |-> locals,
               chain |-> {n} \cup frames[fp].chain, base |-> Len(Rest),
               self |-> self, fn |-> f]
  <2>1. QED
    BY DEF Enter
<1>2. /\ heap' = IF h[f].args THEN Append(h, ArrayOf(CallArgs)) ELSE h
      /\ stack' = Rest
      /\ UNCHANGED <<catchstack, result, tape>>
  BY DEF Enter, endVars, ioVars
<1>3. /\ h[f].context \in 1 .. Len(frames)
      /\ h[f].lvarcount \in Nat /\ h[f].args \in BOOLEAN
  <2>1. /\ h[f].context \in 0 .. Len(frames) /\ h[f].context # NoFrame
        /\ h[f].lvarcount \in Nat /\ h[f].args \in BOOLEAN
    BY FunctionHolds
  <2>2. Len(frames) \in Nat
    BY SafeFrames
  <2> QED
    BY <2>1, <2>2 DEF NoFrame
<1>4. IsSeq(frames) /\ Len(frames) \in Nat /\ DOMAIN frames = 1 .. Len(frames)
      /\ fp \in DOMAIN frames
  BY SafeFrames
<1>5. /\ DOMAIN frames' = 1 .. n
      /\ \A i \in DOMAIN frames : frames'[i] = frames[i]
      /\ frames'[n] = r
  BY <1>1, <1>4, AppendFacts
<1>6. Len(frames') = n
  <2>1. IsSeq(frames')
    BY DEF HandlerInv, Chains
  <2>2. Len(frames') \in Nat /\ DOMAIN frames' = 1 .. Len(frames')
    BY <2>1, AppendFacts
  <2> QED
    BY <1>4, <1>5, <2>2
<1>7. /\ HeapSound(heap', Len(frames)) /\ Keeps(h, heap')
      /\ h[f].args => IsA(heap', Len(h) + 1, ArrayShape)
  <2>1. CASE h[f].args
    <3> DEFINE a == ArrayOf(CallArgs)
    <3>1. DOMAIN a = ArrayShape /\ a.elems = CallArgs
      BY DEF ArrayOf, ArrayShape
    <3> HIDE DEF a
    <3>2. AllLive(h, CallArgs)
      BY KeepsAll
    <3>3. Sound(h, Len(h) + 1, a, Len(frames))
      BY <3>1, <3>2 DEF Sound
    <3>4. heap' = Append(h, a)
      BY <1>2, <2>1 DEF a
    <3>5. /\ HeapSound(heap', Len(frames)) /\ Keeps(h, heap')
          /\ Len(h) + 1 \in DOMAIN heap' /\ heap'[Len(h) + 1] = a
      BY <1>4, <3>3, <3>4, HeapAppend
    <3> QED
      BY <3>1, <3>5 DEF IsA
  <2>2. CASE ~h[f].args
    <3>1. heap' = h
      BY <1>2, <2>2
    <3> QED
      BY <2>2, <3>1 DEF Keeps
  <2> QED
    BY <2>1, <2>2
<1>8. Keeps(heap, heap')
  BY <1>7 DEF Keeps
<1>9. HeapSound(heap', Len(frames'))
  <2>1. Len(frames) \in Nat /\ n \in Nat /\ Len(frames) <= n
    BY <1>4
  <2>2. Keeps(heap', heap')
    BY DEF Keeps
  <2> HIDE DEF n
  <2>3. \A i \in DOMAIN heap' : Sound(heap', i, heap'[i], n)
    BY <1>7, <2>1, <2>2, KeepsSound DEF HeapSound
  <2> QED
    BY <1>6, <1>7, <2>3 DEF HeapSound
<1>10. AllLive(heap', locals)
  <2>1. AllLive(heap', CallArgs)
    BY <1>8, KeepsAll
  <2> QED
    BY <1>3, <1>7, <2>1, NewLocalsLive
<1> HIDE DEF locals
<1>11. FramesSound(heap', frames')
  <2>1. FramesSound(heap', frames)
    BY <1>8, FramesKept DEF SafeInv
  <2>2. ASSUME NEW i \in DOMAIN frames
        PROVE  /\ frames'[i].parent \in 0 .. i - 1 /\ frames'[i].env \in 0 .. i - 1
               /\ IsA(heap', frames'[i].fn, FunctionShape)
               /\ Live(heap', frames'[i].self) /\ AllLive(heap', frames'[i].locals)
               /\ Heights(frames'[i].catchtable)
    BY <1>5, <2>1 DEF FramesSound
  <2>3. r.parent \in 0 .. n - 1 /\ r.env \in 0 .. n - 1
    BY <1>1, <1>3, <1>4
  <2>4. IsA(heap', r.fn, FunctionShape)
    BY <1>1, <1>7 DEF Keeps, IsA
  <2>5. Live(heap', r.self) /\ AllLive(heap', r.locals) /\ Heights(r.catchtable)
    BY <1>1, <1>7, <1>10, KeepsLive DEF SafeInv
  <2>6. \A i \in DOMAIN frames' : i \in DOMAIN frames \/ i = n
    BY <1>4, <1>5
  <2> HIDE DEF n
  <2> QED
    BY <1>5, <2>2, <2>3, <2>4, <2>5, <2>6 DEF FramesSound
<1>12. AllLive(heap', stack') /\ IsSeq(stack')
  BY <1>2, <1>8, KeepsAll
<1>13. AllLive(heap', tape') /\ IsSeq(tape') /\ Live(heap', result') /\ Heights(catchstack')
  BY <1>2, <1>8, KeepsAll, KeepsLive DEF SafeInv
<1> QED
  BY <1>9, <1>11, <1>12, <1>13 DEF SafeInv

\* Function::get_self
LEMMA SelfLive ==
  ASSUME SafeInv, NEW h, Keeps(heap, h), NEW f, IsA(heap, f, FunctionShape), f # 1,
         NEW target, target # <<>> => Live(h, target[1])
  PROVE  Live(h, SelfOf(f, target))
<1> DEFINE fn == heap[f]
<1>1. HeapSound(heap, Len(frames))
  BY DEF SafeInv
<1>2. /\ fn.context \in 0 .. Len(frames) /\ fn.context # NoFrame
      /\ IsSeq(fn.bound) /\ AllLive(heap, fn.bound) /\ fn.anonymous \in BOOLEAN
  BY <1>1, FunctionHolds
<1>3. fn.bound # <<>> => Live(heap, fn.bound[1])
  <2>1. fn.bound # <<>> => 1 \in DOMAIN fn.bound
    BY <1>2, TailFacts
  <2> QED
    BY <1>2, <2>1 DEF AllLive
<1>4. fn.context \in DOMAIN frames
  BY <1>2, SafeFrames DEF NoFrame
<1>5. Live(heap, frames[fn.context].self)
  BY <1>4 DEF SafeInv, FramesSound
<1>6. \/ fn.bound # <<>> /\ SelfOf(f, target) = fn.bound[1]
      \/ target # <<>> /\ SelfOf(f, target) = target[1]
      \/ SelfOf(f, target) = frames[fn.context].self
  BY <1>2 DEF SelfOf
<1> HIDE DEF fn
<1> QED
  BY <1>3, <1>5, <1>6, KeepsLive

\* The operands of a call.
LEMMA CallOperands ==
  ASSUME SafeInv, Executable, NEW op \in {"call", "callmember", "new"}, At(op)
  PROVE  /\ status = "run" /\ Instr.op = op
         /\ IsSeq(Rest) /\ AllLive(heap, Rest)
         /\ IsSeq(CallArgs) /\ AllLive(heap, CallArgs)
         /\ Live(heap, Callee)
         /\ op = "callmember" => Live(heap, Arg(Instr.n + 2))
<1>1. /\ status = "run" /\ Instr.op = op /\ IsInstruction(Instr)
      /\ Len(stack) \in Nat /\ Pops(Instr) \in 0 .. Len(stack)
      /\ \A k \in 1 .. Pops(Instr) : Live(heap, Arg(k))
      /\ IsSeq(Rest) /\ AllLive(heap, Rest)
  BY OperandsLive DEF Opcodes
<1>2. Instr.n \in Nat
  BY <1>1 DEF IsInstruction
<1>3. /\ Pops(Instr) \in {Instr.n + 1, Instr.n + 2}
      /\ op = "callmember" => Pops(Instr) = Instr.n + 2
  BY <1>1 DEF Pops
<1>4. Instr.n \in 0 .. Len(stack) /\ Instr.n + 1 \in 1 .. Pops(Instr)
      /\ (Pops(Instr) = Instr.n + 2 => Instr.n + 2 \in 1 .. Pops(Instr))
  BY <1>1, <1>2, <1>3
<1>5. IsSeq(CallArgs) /\ AllLive(heap, CallArgs)
  BY <1>4, StackFacts DEF CallArgs
<1> QED
  BY <1>1, <1>3, <1>4, <1>5 DEF Callee

\* op_call and op_callmember of a function
LEMMA SafeCall == SafeInv /\ Executable /\ HandlerInv' /\ CallFunction => SafeInv'
<1> SUFFICES ASSUME SafeInv, Executable, HandlerInv', CallFunction PROVE SafeInv'
  OBVIOUS
<1>1. PICK op \in {"call", "callmember"} : At(op)
  BY DEF CallFunction
<1>2. /\ status = "run" /\ Instr.op = op
      /\ IsSeq(Rest) /\ AllLive(heap, Rest)
      /\ IsSeq(CallArgs) /\ AllLive(heap, CallArgs)
      /\ Live(heap, Callee)
      /\ op = "callmember" => Live(heap, Arg(Instr.n + 2))
  BY <1>1, CallOperands
<1> DEFINE target == IF Instr.op = "call" THEN <<>> ELSE <<Arg(Instr.n + 2)>>
<1>3. Callee.k = "function" /\ Enter(heap, Callee.n, SelfOf(Callee.n, target))
  BY DEF CallFunction
<1>4. IsA(heap, Callee.n, FunctionShape) /\ Callee.n # 1
  BY <1>2, <1>3 DEF Live
<1>5. target # <<>> => Live(heap, target[1])
  BY <1>2
<1>6. Keeps(heap, heap) /\ HeapSound(heap, Len(frames))
  BY DEF Keeps, SafeInv
<1> HIDE DEF target
<1>7. Live(heap, SelfOf(Callee.n, target))
  BY <1>4, <1>5, <1>6, SelfLive
<1> QED
  BY <1>2, <1>3, <1>4, <1>6, <1>7, SafeEnter

\* op_new
LEMMA SafeConstruct == SafeInv /\ Executable /\ HandlerInv' /\ Construct => SafeInv'
<1> SUFFICES ASSUME SafeInv, Executable, HandlerInv', Construct PROVE SafeInv'
  OBVIOUS
<1> DEFINE object == Value("object", Len(heap) + 1)
           props == MemberProperties(heap, Callee.n)
           o == Instance(Callee.n, props)
           made == Append(heap, o)
<1>1. At("new") /\ ~Throws
  BY DEF Construct
<1>2. /\ status = "run" /\ Instr.op = "new"
      /\ IsSeq(Rest) /\ AllLive(heap, Rest)
      /\ IsSeq(CallArgs) /\ AllLive(heap, CallArgs)
      /\ Live(heap, Callee)
  BY <1>1, CallOperands
<1>3. Callee.k = "class"
  BY <1>1, <1>2 DEF Throws, Constructible
<1>4. Callee.n \in ClassesIn(heap)
  BY <1>2, <1>3 DEF Live
<1>5. AllLive(heap, props)
  <2>1. PICK S : props = [x \in S |-> Null]
    BY DEF MemberProperties
  <2> HIDE DEF props
  <2> QED
    BY <2>1, ConstantsLive DEF AllLive
<1> HIDE DEF props
<1>6. DOMAIN o = ObjectShape /\ Sound(heap, Len(heap) + 1, o, Len(frames))
  BY <1>4, <1>5, InstanceSound
<1>7. HeapSound(heap, Len(frames)) /\ Len(frames) \in Nat
  BY SafeFrames DEF SafeInv
<1> HIDE DEF o
<1>8. /\ HeapSound(made, Len(frames)) /\ Keeps(heap, made)
      /\ Len(heap) + 1 \in DOMAIN made /\ made[Len(heap) + 1] = o
  BY <1>6, <1>7, HeapAppend
<1> HIDE DEF made
<1>9. Live(made, object)
  BY <1>6, <1>8 DEF Live, Value, IsA
<1> HIDE DEF object
<1>10. \/ Constructor # Null /\ Enter(made, Constructor.n, SelfOf(Constructor.n, <<object>>))
       \/ /\ Constructor = Null /\ heap' = made /\ stack' = Append(Rest, object)
          /\ UNCHANGED <<frames, catchstack, result, tape>>
  BY DEF Construct, made, object, o, props, frameVars, endVars, ioVars
<1>11. CASE Constructor # Null /\ Enter(made, Constructor.n, SelfOf(Constructor.n, <<object>>))
  <2>1. Constructor.k = "function" /\ Live(heap, Constructor)
    BY <1>4, <1>7, <1>11, FindConstructorFinds DEF Constructor
  <2>2. IsA(heap, Constructor.n, FunctionShape) /\ Constructor.n # 1
    BY <2>1 DEF Live
  <2>3. IsA(made, Constructor.n, FunctionShape)
    BY <1>8, <2>2 DEF Keeps, IsA
  <2> DEFINE target == <<object>>
  <2>4. target # <<>> => Live(made, target[1])
    BY <1>9
  <2> HIDE DEF target
  <2>5. Live(made, SelfOf(Constructor.n, target))
    BY <1>8, <2>2, <2>4, SelfLive
  <2>6. Enter(made, Constructor.n, SelfOf(Constructor.n, target))
    BY <1>11 DEF target
  <2> QED
    BY <1>2, <1>8, <2>2, <2>3, <2>5, <2>6, SafeEnter
<1>12. CASE /\ Constructor = Null /\ heap' = made /\ stack' = Append(Rest, object)
            /\ UNCHANGED <<frames, catchstack, result, tape>>
  <2>1. AllLive(made, Rest)
    BY <1>2, <1>8, KeepsAll
  <2>2. IsSeq(stack') /\ AllLive(heap', stack')
    BY <1>2, <1>9, <1>12, <2>1, PushLive
  <2> QED
    BY <1>8, <1>12, <2>2, SafeWrites
<1> QED
  BY <1>10, <1>11, <1>12

\* Branches, and steps of the catchtables that leave the stack alone.
LEMMA SafeBranch == SafeInv /\ Executable /\ HandlerInv' /\ Branch => SafeInv'
<1> SUFFICES ASSUME SafeInv, Executable, HandlerInv', Branch PROVE SafeInv'
  OBVIOUS
<1>1. PICK op \in {"branch", "branchif", "branchunless", "branchcmp"} : At(op)
  BY DEF Branch
<1>2. IsSeq(Rest) /\ AllLive(heap, Rest)
  BY <1>1, OperandsLive DEF Opcodes
<1>3. stack' = Rest /\ UNCHANGED <<frames, catchstack, result, tape, heap>>
  BY DEF Branch, frameVars, endVars, ioVars
<1> QED
  BY <1>2, <1>3, SafePushes

\* call_cfunction
LEMMA SafeNative == SafeInv /\ Executable /\ HandlerInv' /\ CallNative => SafeInv'
<1> SUFFICES ASSUME SafeInv, Executable, HandlerInv', CallNative PROVE SafeInv'
  OBVIOUS
<1>1. PICK op \in {"call", "callmember"} : At(op)
  BY DEF CallNative
<1>2. IsSeq(Rest) /\ AllLive(heap, Rest)
  BY <1>1, CallOperands
<1>3. /\ UNCHANGED <<frames, catchstack, result, heap>>
      /\ \/ tape # <<>> /\ stack' = Append(Rest, Head(tape)) /\ tape' = Tail(tape)
         \/ stack' = Append(Rest, Null) /\ tape' = tape
  BY DEF CallNative, frameVars, endVars
<1>4. /\ IsSeq(tape) /\ AllLive(heap, tape) /\ Live(heap, result) /\ Heights(catchstack)
      /\ HeapSound(heap, Len(frames)) /\ Keeps(heap, heap)
  BY DEF SafeInv, Keeps
<1>5. CASE tape # <<>> /\ stack' = Append(Rest, Head(tape)) /\ tape' = Tail(tape)
  <2>1. /\ IsSeq(Tail(tape)) /\ 1 \in DOMAIN tape /\ Len(tape) \in Nat
        /\ DOMAIN tape = 1 .. Len(tape) /\ DOMAIN Tail(tape) = 1 .. Len(tape) - 1
        /\ Head(tape) = tape[1]
        /\ \A i \in DOMAIN Tail(tape) : Tail(tape)[i] = tape[i + 1]
    BY <1>4, <1>5, TailFacts
  <2>2. Live(heap, Head(tape))
    BY <1>4, <2>1 DEF AllLive
  <2>3. AllLive(heap, Tail(tape))
    <3>1. \A i \in DOMAIN Tail(tape) : i + 1 \in DOMAIN tape
      BY <2>1
    <3> QED
      BY <1>4, <2>1, <3>1 DEF AllLive
  <2>4. IsSeq(stack') /\ AllLive(heap', stack')
    BY <1>2, <1>3, <1>5, <2>2, PushLive
  <2>5. IsSeq(tape') /\ AllLive(heap, tape')
    BY <1>5, <2>1, <2>3
  <2> QED
    BY <1>3, <1>4, <2>4, <2>5, SafeQuiet
<1>6. CASE stack' = Append(Rest, Null) /\ tape' = tape
  <2>1. IsSeq(stack') /\ AllLive(heap, stack')
    BY <1>2, <1>6, ConstantsLive, PushLive
  <2> QED
    BY <1>3, <1>6, <2>1, SafePushes
<1> QED
  BY <1>3, <1>5, <1>6

\* op_return
LEMMA SafeReturn == SafeInv /\ Executable /\ HandlerInv' /\ Return => SafeInv'
<1> SUFFICES ASSUME SafeInv, Executable, HandlerInv', Return PROVE SafeInv'
  OBVIOUS
<1>1. /\ At("return") /\ UNCHANGED <<stack, frames, heap, tape>>
      /\ catchstack' = frames[fp].catchtable
      /\ \/ frames[fp].origin = NoAddress /\ result' = Arg(1)
         \/ result' = result
  BY DEF Return, endVars, ioVars
<1>2. status = "run" /\ Instr.op = "return" /\ fp \in DOMAIN frames
  BY <1>1, OperandsLive DEF Opcodes
<1>3. Heights(catchstack')
  BY <1>1, <1>2 DEF SafeInv, FramesSound
<1>4. Live(heap, result')
  <2>1. CASE frames[fp].origin = NoAddress /\ result' = Arg(1)
    <3>1. stack # <<>>
      BY <1>1, <1>2, <2>1 DEF At, Panics
    <3>2. Len(stack) \in Nat /\ 1 \in 1 .. Len(stack)
      <4>1. IsSeq(stack)
        BY DEF SafeInv
      <4>2. 1 \in DOMAIN stack /\ DOMAIN stack = 1 .. Len(stack) /\ Len(stack) \in Nat
        BY <3>1, <4>1, TailFacts
      <4> QED
        BY <4>2
    <3> QED
      BY <2>1, <3>2, StackFacts
  <2>2. CASE result' = result
    BY <2>2 DEF SafeInv
  <2> QED
    BY <1>1, <2>1, <2>2
<1>5. /\ IsSeq(tape) /\ AllLive(heap, tape) /\ IsSeq(stack) /\ AllLive(heap, stack)
      /\ HeapSound(heap, Len(frames)) /\ Keeps(heap, heap)
  BY DEF SafeInv, Keeps
<1> QED
  BY <1>1, <1>3, <1>4, <1>5, SafeQuiet

\* op_registercatchtable and op_popcatchtable
LEMMA SafeCatchTables ==
  /\ SafeInv /\ HandlerInv' /\ RegisterCatchTable => SafeInv'
  /\ SafeInv /\ HandlerInv' /\ PopCatchTable => SafeInv'
<1> SUFFICES ASSUME SafeInv, HandlerInv', RegisterCatchTable \/ PopCatchTable
             PROVE  SafeInv'
  OBVIOUS
<1>1. /\ status = "run" /\ UNCHANGED <<stack, frames, heap, result, tape>>
  BY DEF RegisterCatchTable, PopCatchTable, At, endVars, ioVars
<1>2. IsSeq(catchstack) /\ Heights(catchstack)
  BY <1>1 DEF SafeInv, HandlerInv, Nested
<1>3. CASE RegisterCatchTable
  <2> DEFINE t == [frame |-> fp, address |-> ip + Instr.to, height |-> Len(stack)]
  <2>1. catchstack' = <<t>> \o catchstack
    BY <1>3 DEF RegisterCatchTable
  <2>2. t.height \in Nat
    BY StackFacts
  <2> HIDE DEF t
  <2>3. /\ Len(catchstack) \in Nat
        /\ DOMAIN catchstack = 1 .. Len(catchstack)
        /\ DOMAIN catchstack' = 1 .. Len(catchstack) + 1
        /\ catchstack'[1] = t
        /\ \A i \in 1 .. Len(catchstack) + 1 : i # 1 => catchstack'[i] = catchstack[i - 1]
    BY <1>2, <2>1, ConsFacts
  <2>4. \A i \in DOMAIN catchstack' : i # 1 => i - 1 \in DOMAIN catchstack
    BY <2>3
  <2>5. Heights(catchstack')
    BY <1>2, <2>2, <2>3, <2>4 DEF Heights
  <2> QED
    BY <1>1, <2>5 DEF SafeInv
<1>4. CASE PopCatchTable
  <2>1. catchstack' = IF catchstack = <<>> THEN <<>> ELSE Tail(catchstack)
    BY <1>4 DEF PopCatchTable
  <2>2. CASE catchstack = <<>>
    BY <1>1, <2>1, <2>2 DEF SafeInv
  <2>3. CASE catchstack # <<>>
    <3>1. /\ Len(catchstack) \in Nat /\ DOMAIN catchstack = 1 .. Len(catchstack)
          /\ DOMAIN catchstack' = 1 .. Len(catchstack) - 1
          /\ \A i \in DOMAIN catchstack' : catchstack'[i] = catchstack[i + 1]
      BY <1>2, <2>1, <2>3, TailFacts
    <3>2. \A i \in DOMAIN catchstack' : i + 1 \in DOMAIN catchstack
      BY <3>1
    <3>3. Heights(catchstack')
      BY <1>2, <3>1, <3>2 DEF Heights
    <3> QED
      BY <1>1, <3>3 DEF SafeInv
  <2> QED
    BY <2>2, <2>3
<1> QED
  BY <1>3, <1>4

\* What an exception leaves on the stack.
LEMMA LeftLive ==
  ASSUME SafeInv, Executable, NEW op \in MayThrow, At(op), Throws
  PROVE  /\ status = "run" /\ ~Panics
         /\ IsSeq(Left) /\ AllLive(heap, Left) /\ Live(heap, Thrown)
<1>1. /\ status = "run" /\ Instr.op = op /\ IsInstruction(Instr)
      /\ Len(stack) \in Nat /\ Pops(Instr) \in 0 .. Len(stack)
      /\ \A k \in 1 .. Pops(Instr) : Live(heap, Arg(k))
      /\ IsSeq(Rest) /\ AllLive(heap, Rest)
  BY OperandsLive DEF Opcodes, MayThrow
<1>2. IsSeq(Left) /\ AllLive(heap, Left)
  <2>1. CASE op = "setglobalpush"
    BY <1>1, <2>1 DEF Left, SafeInv
  <2>2. CASE op = "putclass"
    <3>1. Left = Below(1 + Instr.d.constructor)
      BY <1>1, <2>2 DEF Left
    <3>2. Instr.d.parent = 1
      BY <1>1, <2>2 DEF Throws
    <3>3. /\ Instr.d.props \in Nat /\ Instr.d.sprops \in Nat
          /\ Instr.d.funcs \in Nat /\ Instr.d.sfuncs \in Nat
          /\ Instr.d.constructor \in Nat
      BY <1>1, <2>2 DEF IsInstruction
    <3>4. Pops(Instr) = Instr.d.props + Instr.d.sprops + Instr.d.funcs + Instr.d.sfuncs
                        + Instr.d.parent + Instr.d.constructor
      BY <1>1, <2>2 DEF Pops
    <3>5. 1 + Instr.d.constructor \in 0 .. Len(stack)
      <4>1. \A p, q, r, t, v \in Nat : 1 + v <= p + q + r + t + 1 + v
        OBVIOUS
      <4>2. 1 + Instr.d.constructor <= Pops(Instr)
        BY <3>2, <3>3, <3>4, <4>1
      <4> QED
        BY <1>1, <3>3, <4>2
    <3> QED
      BY <3>1, <3>5, StackFacts
  <2>3. CASE op \notin {"setglobalpush", "putclass"}
    <3>1. Left = Rest
      BY <1>1, <2>3 DEF Left
    <3> QED
      BY <1>1, <3>1
  <2> QED
    BY <2>1, <2>2, <2>3
<1>3. Live(heap, Thrown)
  <2>1. CASE op = "throw"
    <3>1. Pops(Instr) = 1 /\ Thrown = Arg(1)
      BY <1>1, <2>1 DEF Pops, Thrown
    <3> QED
      BY <1>1, <3>1
  <2>2. CASE op # "throw"
    BY <1>1, <2>2, ConstantsLive DEF Thrown
  <2> QED
    BY <2>1, <2>2
<1> QED
  BY <1>1, <1>2, <1>3 DEF At

\* unwind_catchstack
LEMMA SafeUnwind == SafeInv /\ Executable /\ HandlerInv' /\ Unwind => SafeInv'
<1> SUFFICES ASSUME SafeInv, Executable, HandlerInv', Unwind PROVE SafeInv'
  OBVIOUS
<1>1. PICK op \in MayThrow : At(op)
  BY DEF Unwind
<1> DEFINE t == Head(catchstack)
<1>2. /\ Throws /\ catchstack # <<>> /\ catchstack' = Tail(catchstack)
      /\ stack' = Append(SubSeq(Left, 1, t.height), Thrown)
      /\ UNCHANGED <<frames, heap, result, tape>>
  BY DEF Unwind, endVars, ioVars
<1>3. /\ status = "run" /\ ~Panics
      /\ IsSeq(Left) /\ AllLive(heap, Left) /\ Live(heap, Thrown)
  BY <1>1, <1>2, LeftLive
<1>4. IsSeq(catchstack) /\ Heights(catchstack)
  BY <1>3 DEF SafeInv, HandlerInv, Nested
<1>5. /\ Len(catchstack) \in Nat /\ DOMAIN catchstack = 1 .. Len(catchstack)
      /\ 1 \in DOMAIN catchstack
      /\ DOMAIN catchstack' = 1 .. Len(catchstack) - 1
      /\ t = catchstack[1]
      /\ \A i \in DOMAIN catchstack' : catchstack'[i] = catchstack[i + 1]
  BY <1>2, <1>4, TailFacts
<1>6. Heights(catchstack')
  <2>1. \A i \in DOMAIN catchstack' : i + 1 \in DOMAIN catchstack
    BY <1>5
  <2> QED
    BY <1>4, <1>5, <2>1 DEF Heights
<1>7. t.height \in Nat
  BY <1>4, <1>5 DEF Heights
<1>8. ~(Len(Left) < t.height)
  BY <1>2, <1>3 DEF Panics
<1>9. Len(Left) \in Nat
  BY <1>3, AppendFacts
<1> HIDE DEF t
<1>10. IsSeq(SubSeq(Left, 1, t.height)) /\ AllLive(heap, SubSeq(Left, 1, t.height))
  <2>1. t.height \in Int /\ t.height <= Len(Left)
    BY <1>7, <1>8, <1>9
  <2> QED
    BY <1>3, <2>1, PartLive
<1>11. IsSeq(stack') /\ AllLive(heap, stack')
  BY <1>2, <1>3, <1>10, PushLive
<1> QED
  BY <1>2, <1>6, <1>11 DEF SafeInv

LEMMA SafeUncaught == SafeInv /\ Executable /\ HandlerInv' /\ Uncaught => SafeInv'
<1> SUFFICES ASSUME SafeInv, Executable, HandlerInv', Uncaught PROVE SafeInv'
  OBVIOUS
<1>1. PICK op \in MayThrow : At(op)
  BY DEF Uncaught
<1>2. /\ Throws /\ stack' = Left /\ result' = Thrown
      /\ UNCHANGED <<frames, heap, catchstack, tape>>
  BY DEF Uncaught, frameVars, ioVars
<1>3. IsSeq(Left) /\ AllLive(heap, Left) /\ Live(heap, Thrown)
  BY <1>1, <1>2, LeftLive
<1> QED
  BY <1>2, <1>3 DEF SafeInv

\* SafeInv is inductive while ip is at an instruction.
LEMMA SafeStep == SafeInv /\ Executable /\ [MachineNext]_vars => SafeInv'
<1> SUFFICES ASSUME SafeInv, Executable, [MachineNext]_vars
             PROVE  SafeInv'
  OBVIOUS
<1>1. HandlerInv'
  BY HandlerStep DEF SafeInv
<1>2. CASE Push
  BY <1>1, <1>2, SafePush
<1>3. CASE Operator
  BY <1>1, <1>3, SafeOperator
<1>4. CASE SetLocal
  BY <1>1, <1>4, SafeSetLocal
<1>5. CASE SetGlobal
  BY <1>1, <1>5, SafeSetGlobal
<1>6. CASE SetMember
  BY <1>1, <1>6, SafeSetMember
<1>7. CASE PutFunction
  BY <1>1, <1>7, SafePutFunction
<1>8. CASE PutArray
  BY <1>1, <1>8, SafePutArray
<1>9. CASE PutHash
  BY <1>1, <1>9, SafePutHash
<1>10. CASE PutSuper
  BY <1>1, <1>10, SafePutSuper
<1>11. CASE PutClass
  BY <1>1, <1>11, SafePutClass
<1>12. CASE Branch
  BY <1>1, <1>12, SafeBranch
<1>13. CASE CallFunction
  BY <1>1, <1>13, SafeCall
<1>14. CASE Construct
  BY <1>1, <1>14, SafeConstruct
<1>15. CASE CallNative
  BY <1>1, <1>15, SafeNative
<1>16. CASE Cut
  BY <1>1, <1>16 DEF Cut, SafeInv, frameVars, ioVars
<1>17. CASE Return
  BY <1>1, <1>17, SafeReturn
<1>18. CASE Unwind
  BY <1>1, <1>18, SafeUnwind
<1>19. CASE Uncaught
  BY <1>1, <1>19, SafeUncaught
<1>20. CASE RegisterCatchTable \/ PopCatchTable
  BY <1>1, <1>20, SafeCatchTables
<1>21. CASE UNCHANGED vars
  BY <1>1, <1>21 DEF vars, SafeInv, frameVars, endVars, ioVars
<1> QED
  BY <1>2, <1>3, <1>4, <1>5, <1>6, <1>7, <1>8, <1>9, <1>10, <1>11, <1>12, <1>13, <1>14, <1>15,
     <1>16, <1>17, <1>18, <1>19, <1>20, <1>21 DEF MachineNext

\* Whatever code the VM runs, as long as ip is at an instruction and the input is
\* not on the heap, every reference on the stack, in the frames and in the heap
\* leads to something of the kind it is cast to.
THEOREM MemoryAlwaysSafe ==
  MachineSpec /\ PlainInput /\ []Executable => []MemorySafe
<1>1. (\E c, input : MachineInit(c, input)) /\ PlainInput => SafeInv
  BY SafeInit
<1>2. SafeInv /\ Executable /\ [MachineNext]_vars => SafeInv'
  BY SafeStep
<1>3. SafeInv => MemorySafe
  BY SafeIsSafe
<1> QED
  BY <1>1, <1>2, <1>3, PTL DEF MachineSpec
=============================================================================
