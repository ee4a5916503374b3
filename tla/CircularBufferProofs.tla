------------------------ MODULE CircularBufferProofs ------------------------
(***************************************************************************)
(* The circular buffer implements a bounded queue, for every size.         *)
(***************************************************************************)
EXTENDS CircularBuffer, SequenceTheorems, TLAPS

\* % on the numbers the two indices reach before they wrap.
LEMMA ModWrap ==
  ASSUME NEW a \in 0 .. 2 * Size - 1
  PROVE  a % Size = IF a < Size THEN a ELSE a - Size
<1>1. Size \in Nat /\ Size > 0
  BY BufferAssumption
<1> DEFINE q == a \div Size  r == a % Size
<1>2. q \in Int /\ r \in 0 .. Size - 1 /\ a = Size * q + r
  BY <1>1
<1> HIDE DEF q, r
<1>3. q = 0 \/ q = 1
  <2>1. q >= 0
    <3> SUFFICES ASSUME q <= -1 PROVE FALSE
      BY <1>2
    <3>1. Size * q <= -Size
      BY <1>1, <1>2
    <3> QED
      BY <1>1, <1>2, <3>1
  <2>2. q < 2
    <3> SUFFICES ASSUME q >= 2 PROVE FALSE
      BY <1>2
    <3>1. Size * q >= 2 * Size
      BY <1>1, <1>2
    <3> QED
      BY <1>1, <1>2, <3>1
  <2> QED
    BY <1>2, <2>1, <2>2
<1>4. CASE q = 0
  <2>1. a = r
    BY <1>1, <1>2, <1>4
  <2> QED
    BY <1>1, <1>2, <2>1 DEF r
<1>5. CASE q = 1
  <2>1. a = Size + r
    BY <1>1, <1>2, <1>5
  <2> QED
    BY <1>1, <1>2, <2>1 DEF r
<1> QED
  BY <1>3, <1>4, <1>5

-----------------------------------------------------------------------------
(* The ring                                                                *)

\* The write index follows the last value.
RingInv == TypeOK /\ writex = SlotFrom(readx, length + 1)

\* Where the slots of the window and the one behind it lie.
LEMMA SlotValue ==
  ASSUME NEW r \in Slots, NEW i \in 1 .. Size + 1
  PROVE  /\ SlotFrom(r, i) = IF r + i - 1 < Size THEN r + i - 1 ELSE r + i - 1 - Size
         /\ SlotFrom(r, i) \in Slots
<1>1. Size \in Nat /\ Size > 0 /\ r \in 0 .. Size - 1
  BY BufferAssumption DEF Slots
<1> DEFINE a == r + i - 1
<1>2. a \in 0 .. 2 * Size - 1
  BY <1>1
<1>3. a % Size = IF a < Size THEN a ELSE a - Size
  <2> HIDE DEF a
  <2> QED
    BY <1>2, ModWrap
<1>4. SlotFrom(r, i) = IF r + i - 1 < Size THEN r + i - 1 ELSE r + i - 1 - Size
  <2>1. SlotFrom(r, i) = a % Size
    BY DEF SlotFrom
  <2>2. SlotFrom(r, i) = IF a < Size THEN a ELSE a - Size
    <3> HIDE DEF a
    <3> QED
      BY <1>3, <2>1
  <2> QED
    BY <1>1, <2>2
<1> QED
  BY <1>1, <1>4 DEF Slots

\* No two values share a slot.
LEMMA SlotsDiffer ==
  ASSUME NEW r \in Slots, NEW i \in 1 .. Size, NEW j \in 1 .. Size,
         SlotFrom(r, i) = SlotFrom(r, j)
  PROVE  i = j
<1>1. Size \in Nat /\ Size > 0 /\ r \in 0 .. Size - 1
  BY BufferAssumption DEF Slots
<1> QED
  BY <1>1, SlotValue

\* An index moves on by one slot.
LEMMA FollowingValue ==
  ASSUME NEW x \in Slots
  PROVE  Following(x) = (IF x + 1 < Size THEN x + 1 ELSE 0) /\ Following(x) \in Slots
<1>1. Size \in Nat /\ Size > 0 /\ x \in 0 .. Size - 1
  BY BufferAssumption DEF Slots
<1> DEFINE a == x + 1
<1>2. a \in 0 .. 2 * Size - 1
  BY <1>1
<1>3. a % Size = IF a < Size THEN a ELSE a - Size
  <2> HIDE DEF a
  <2> QED
    BY <1>2, ModWrap
<1>4. Following(x) = IF x + 1 < Size THEN x + 1 ELSE x + 1 - Size
  <2>1. Following(x) = a % Size
    BY DEF Following
  <2>2. Following(x) = IF a < Size THEN a ELSE a - Size
    <3> HIDE DEF a
    <3> QED
      BY <1>3, <2>1
  <2> QED
    BY <1>1, <2>2
<1> QED
  BY <1>1, <1>4 DEF Slots

\* The window moves on by one slot when the oldest value is read.
LEMMA SlotAfterRead ==
  ASSUME NEW r \in Slots, NEW i \in 1 .. Size
  PROVE  SlotFrom(Following(r), i) = SlotFrom(r, i + 1)
<1>1. Size \in Nat /\ Size > 0 /\ r \in 0 .. Size - 1
  BY BufferAssumption DEF Slots
<1> DEFINE n == Following(r)
<1>2. n = (IF r + 1 < Size THEN r + 1 ELSE 0) /\ n \in Slots
  BY FollowingValue
<1> HIDE DEF n
<1>3. SlotFrom(n, i) = IF n + i - 1 < Size THEN n + i - 1 ELSE n + i - 1 - Size
  BY <1>1, <1>2, SlotValue
<1>4. SlotFrom(r, i + 1) = IF r + (i + 1) - 1 < Size THEN r + (i + 1) - 1
                           ELSE r + (i + 1) - 1 - Size
  BY <1>1, SlotValue
<1> QED
  BY <1>1, <1>2, <1>3, <1>4 DEF n

-----------------------------------------------------------------------------
(* The invariant                                                           *)

\* The new buffer satisfies the invariant.
LEMMA InitRing == Init => RingInv
<1> SUFFICES ASSUME Init PROVE RingInv
  OBVIOUS
<1>1. TypeOK
  BY BufferAssumption DEF Init, TypeOK, Slots
<1>2. SlotFrom(0, 1) = 0
  BY <1>1, SlotValue, BufferAssumption DEF Init, TypeOK
<1> QED
  BY <1>1, <1>2 DEF RingInv, Init

\* Every operation keeps the write index behind the last value.
LEMMA NextRing == RingInv /\ [Next]_vars => RingInv'
<1> SUFFICES ASSUME RingInv, [Next]_vars PROVE RingInv'
  OBVIOUS
<1>0. /\ Size \in Nat /\ Size > 0 /\ length \in 0 .. Size /\ TypeOK
      /\ writex = SlotFrom(readx, length + 1) /\ readx \in Slots /\ writex \in Slots
  BY BufferAssumption DEF RingInv, TypeOK
<1>1. ASSUME NEW v \in Values, Write(v) PROVE RingInv'
  <2>1. length' = length + 1 /\ length' \in 0 .. Size /\ readx' = readx
        /\ length + 1 \in 1 .. Size
    BY <1>0, <1>1 DEF Write
  <2>2. writex' = Following(writex) /\ writex' \in Slots
    BY <1>0, <1>1, FollowingValue DEF Write
  <2>3. TypeOK'
    BY <1>0, <1>1, <2>1, <2>2 DEF Write, TypeOK
  <2>4. Following(writex) = IF writex + 1 < Size THEN writex + 1 ELSE 0
    BY <1>0, FollowingValue
  <2>5. writex = IF readx + (length + 1) - 1 < Size THEN readx + (length + 1) - 1
                 ELSE readx + (length + 1) - 1 - Size
    BY <1>0, <2>1, SlotValue
  <2>6. SlotFrom(readx, (length + 1) + 1)
          = IF readx + ((length + 1) + 1) - 1 < Size THEN readx + ((length + 1) + 1) - 1
            ELSE readx + ((length + 1) + 1) - 1 - Size
    BY <1>0, <2>1, SlotValue
  <2>7. Following(writex) = SlotFrom(readx, (length + 1) + 1)
    BY <1>0, <2>1, <2>4, <2>5, <2>6 DEF Slots
  <2> QED
    BY <2>1, <2>2, <2>3, <2>7 DEF RingInv
<1>2. CASE Read
  <2>1. length' = length - 1 /\ length' \in 0 .. Size /\ readx' = Following(readx)
        /\ writex' = writex /\ length \in 1 .. Size /\ length' + 1 = length
    BY <1>0, <1>2 DEF Read
  <2>2. readx' \in Slots
    BY <1>0, <2>1, FollowingValue
  <2>3. storage[readx] \in Values \cup {Null}
    BY <1>0 DEF TypeOK
  <2>4. TypeOK'
    BY <1>0, <1>2, <2>1, <2>2, <2>3 DEF Read, TypeOK
  <2>5. SlotFrom(Following(readx), length) = SlotFrom(readx, length + 1)
    BY <1>0, <2>1, SlotAfterRead
  <2> QED
    BY <1>0, <2>1, <2>4, <2>5 DEF RingInv
<1>3. CASE Clear
  <2>1. TypeOK'
    BY <1>0, <1>3 DEF Clear, TypeOK
  <2>2. readx' = writex /\ writex' = writex /\ length' = 0
    BY <1>3 DEF Clear
  <2>3. SlotFrom(writex, 1) = writex
    BY <1>0, SlotValue DEF Slots
  <2> QED
    BY <2>1, <2>2, <2>3 DEF RingInv
<1>4. CASE UNCHANGED vars
  BY <1>4 DEF vars, RingInv, TypeOK
<1> QED
  BY <1>1, <1>2, <1>3, <1>4 DEF Next

-----------------------------------------------------------------------------
(* The theorems                                                            *)

\* The values waiting, from the length slots that begin with readx.
LEMMA ContentsType ==
  ASSUME TypeOK
  PROVE  /\ Contents \in Seq(Values \cup {Null})
         /\ Len(Contents) = length
         /\ \A i \in 1 .. length : Contents[i] = storage[SlotFrom(readx, i)]
<1>1. length \in Nat /\ length <= Size /\ Size \in Nat
  BY BufferAssumption DEF TypeOK
<1>2. \A i \in 1 .. length : storage[SlotFrom(readx, i)] \in Values \cup {Null}
  BY <1>1, SlotValue DEF TypeOK
<1> QED
  BY <1>1, <1>2 DEF Contents, Slot

\* What Append does, index by index.
LEMMA AppendIs ==
  ASSUME NEW T, NEW s \in Seq(T), NEW v \in T
  PROVE  Append(s, v) = [i \in 1 .. Len(s) + 1 |-> IF i = Len(s) + 1 THEN v ELSE s[i]]
<1> DEFINE a == Append(s, v)
           f == [i \in 1 .. Len(s) + 1 |-> IF i = Len(s) + 1 THEN v ELSE s[i]]
<1>1. /\ a \in Seq(T) /\ Len(a) = Len(s) + 1 /\ Len(s) \in Nat
      /\ \A i \in 1 .. Len(s) : a[i] = s[i]
      /\ a[Len(s) + 1] = v
  BY AppendProperties
<1>2. f \in Seq(T) /\ Len(f) = Len(s) + 1
  BY <1>1
<1>3. \A i \in 1 .. Len(a) : a[i] = f[i]
  BY <1>1
<1> HIDE DEF a, f
<1>4. a = f
  BY <1>1, <1>2, <1>3, SeqEqual
<1> QED
  BY <1>4 DEF a, f

\* The same for Tail.
LEMMA TailIs ==
  ASSUME NEW T, NEW s \in Seq(T), s # <<>>
  PROVE  Tail(s) = [i \in 1 .. Len(s) - 1 |-> s[i + 1]]
<1> DEFINE t == Tail(s)  f == [i \in 1 .. Len(s) - 1 |-> s[i + 1]]
<1>1. /\ t \in Seq(T) /\ Len(t) = Len(s) - 1 /\ Len(s) \in Nat
      /\ \A i \in 1 .. Len(t) : t[i] = s[i + 1]
  BY HeadTailProperties
<1>2. f \in Seq(T) /\ Len(f) = Len(s) - 1
  BY <1>1
<1>3. \A i \in 1 .. Len(t) : t[i] = f[i]
  BY <1>1
<1> HIDE DEF t, f
<1>4. t = f
  BY <1>1, <1>2, <1>3, SeqEqual
<1> QED
  BY <1>4 DEF t, f

\* Every operation of the ring is the operation of the queue.
LEMMA StepIsFifo == RingInv /\ RingInv' /\ [Next]_vars => [Buffer!Next]_(Buffer!vars)
<1> SUFFICES ASSUME RingInv, RingInv', [Next]_vars PROVE [Buffer!Next]_(Buffer!vars)
  OBVIOUS
<1>0. /\ Size \in Nat /\ Size > 0 /\ length \in 0 .. Size /\ TypeOK
      /\ writex = SlotFrom(readx, length + 1) /\ readx \in Slots
  BY BufferAssumption DEF RingInv, TypeOK
<1>a. /\ Contents \in Seq(Values \cup {Null}) /\ Len(Contents) = length
      /\ \A i \in 1 .. length : Contents[i] = storage[SlotFrom(readx, i)]
  BY <1>0, ContentsType
<1>b. \A i \in 1 .. Size : SlotFrom(readx, i) \in Slots
  BY <1>0, SlotValue
<1>1. ASSUME NEW v \in Values, Write(v) PROVE Buffer!Write(v)
  <2>1. length' = length + 1 /\ readx' = readx /\ length + 1 \in 1 .. Size /\ out' = out
        /\ storage' = [storage EXCEPT ![SlotFrom(readx, length + 1)] = v]
    BY <1>0, <1>1 DEF Write
  <2>2. \A i \in 1 .. length : SlotFrom(readx, i) # SlotFrom(readx, length + 1)
    BY <1>0, <2>1, SlotsDiffer
  <2>3. \A i \in 1 .. length : storage'[SlotFrom(readx, i)] = Contents[i]
    BY <1>0, <1>a, <1>b, <2>1, <2>2 DEF TypeOK
  <2>4. storage'[SlotFrom(readx, length + 1)] = v
    BY <1>0, <1>b, <2>1 DEF TypeOK
  <2>5. Contents' = [i \in 1 .. length + 1 |-> storage'[SlotFrom(readx, i)]]
    BY <2>1 DEF Contents, Slot
  <2>6. Append(Contents, v) = [i \in 1 .. length + 1 |-> IF i = length + 1 THEN v ELSE Contents[i]]
    BY <1>a, AppendIs
  <2>7. Contents' = Append(Contents, v)
    BY <1>0, <2>3, <2>4, <2>5, <2>6
  <2> QED
    BY <1>0, <1>a, <2>1, <2>7 DEF Buffer!Write
<1>2. ASSUME Read PROVE Buffer!Read
  <2>1. length' = length - 1 /\ readx' = Following(readx) /\ length \in 1 .. Size
        /\ out' = storage[readx] /\ storage' = [storage EXCEPT ![readx] = Null]
    BY <1>0, <1>2 DEF Read
  <2>2. SlotFrom(readx, 1) = readx
    BY <1>0, SlotValue DEF Slots
  <2>3. \A i \in 1 .. length - 1 : SlotFrom(Following(readx), i) = SlotFrom(readx, i + 1)
    BY <1>0, <2>1, SlotAfterRead
  <2>4. \A i \in 1 .. length - 1 :
          SlotFrom(readx, i + 1) # readx /\ SlotFrom(readx, i + 1) \in Slots
    <3> TAKE i \in 1 .. length - 1
    <3>1. i + 1 \in 1 .. Size /\ 1 \in 1 .. Size /\ i + 1 # 1
      BY <1>0
    <3> QED
      BY <1>0, <1>b, <2>2, <3>1, SlotsDiffer
  <2>5. \A i \in 1 .. length - 1 : storage'[SlotFrom(readx, i + 1)] = Contents[i + 1]
    BY <1>0, <1>a, <2>1, <2>4 DEF TypeOK
  <2>6. Contents' = [i \in 1 .. length - 1 |-> storage'[SlotFrom(Following(readx), i)]]
    BY <2>1 DEF Contents, Slot
  <2>7. Contents # <<>> /\ Head(Contents) = storage[readx]
    BY <1>0, <1>a, <2>1, <2>2
  <2>8. Tail(Contents) = [i \in 1 .. length - 1 |-> Contents[i + 1]]
    BY <1>a, <2>7, TailIs
  <2>9. Contents' = Tail(Contents)
    BY <2>3, <2>5, <2>6, <2>8
  <2> QED
    BY <2>1, <2>7, <2>9 DEF Buffer!Read
<1>3. ASSUME Clear PROVE Buffer!Clear
  <2>1. length' = 0 /\ out' = out
    BY <1>3 DEF Clear
  <2>2. Contents' = [i \in 1 .. 0 |-> storage'[SlotFrom(readx', i)]]
    BY <2>1 DEF Contents, Slot
  <2>3. Contents' = <<>>
    BY <2>2
  <2> QED
    BY <2>1, <2>3 DEF Buffer!Clear
<1>4. CASE UNCHANGED vars
  BY <1>4 DEF vars, Buffer!vars, Contents, Slot
<1> QED
  BY <1>1, <1>2, <1>3, <1>4 DEF Next, Buffer!Next

\* The ring is a bounded queue whatever its size and however often the two
\* indices wrap (circular_buffer.ch:42-75).
THEOREM RingIsFifo == Spec => IsFifo
<1>1. Init => Buffer!Init
  <2> SUFFICES ASSUME Init PROVE Contents = <<>> /\ out = Null
    BY DEF Buffer!Init
  <2>1. Contents = [i \in 1 .. 0 |-> storage[SlotFrom(readx, i)]]
    BY DEF Init, Contents, Slot
  <2>2. Contents = <<>>
    BY <2>1
  <2> QED
    BY <2>2 DEF Init
<1> QED
  BY <1>1, InitRing, NextRing, StepIsFifo, PTL DEF Spec, IsFifo, Buffer!Spec

\* The indices stay inside the array and length between 0 and its size.
THEOREM RingTypeCorrect == Spec => []TypeOK
<1>1. RingInv => TypeOK
  BY DEF RingInv
<1> QED
  BY InitRing, NextRing, <1>1, PTL DEF Spec

-----------------------------------------------------------------------------
(* What the array keeps alive.  OnlyWindowHeld compares two sets of slots; *)
(* slot by slot, counted from readx, it is inductive.                      *)

\* The first length slots from readx on hold a value, the others null.
HeldInv ==
  /\ \A i \in 1 .. length : storage[SlotFrom(readx, i)] # Null
  /\ \A i \in length + 1 .. Size : storage[SlotFrom(readx, i)] = Null

\* Going once around the ring meets every slot.
LEMMA EverySlotMet ==
  ASSUME NEW r \in Slots, NEW x \in Slots
  PROVE  \E i \in 1 .. Size : SlotFrom(r, i) = x
<1>1. Size \in Nat /\ Size > 0 /\ r \in 0 .. Size - 1 /\ x \in 0 .. Size - 1
  BY BufferAssumption DEF Slots
<1>2. CASE r <= x
  <2>1. x - r + 1 \in 1 .. Size /\ x - r + 1 \in 1 .. Size + 1
    BY <1>1, <1>2
  <2>2. SlotFrom(r, x - r + 1) = x
    BY <1>1, <1>2, <2>1, SlotValue
  <2> QED
    BY <2>1, <2>2
<1>3. CASE x < r
  <2>1. x - r + 1 + Size \in 1 .. Size /\ x - r + 1 + Size \in 1 .. Size + 1
    BY <1>1, <1>3
  <2>2. SlotFrom(r, x - r + 1 + Size) = x
    BY <1>1, <1>3, <2>1, SlotValue
  <2> QED
    BY <2>1, <2>2
<1> QED
  BY <1>1, <1>2, <1>3

\* A new buffer holds nothing.
LEMMA InitHeld == Init => HeldInv
<1> SUFFICES ASSUME Init PROVE HeldInv
  OBVIOUS
<1>1. 0 \in Slots /\ Size \in Nat
  BY BufferAssumption DEF Slots
<1>2. \A i \in 1 .. Size : SlotFrom(0, i) \in Slots
  BY <1>1, SlotValue
<1> QED
  BY <1>1, <1>2 DEF Init, HeldInv

\* Every operation keeps the values in the window and nulls outside.
LEMMA NextHeld == RingInv /\ HeldInv /\ [Next]_vars => HeldInv'
<1> SUFFICES ASSUME RingInv, HeldInv, [Next]_vars PROVE HeldInv'
  OBVIOUS
<1>0. /\ Size \in Nat /\ Size > 0 /\ length \in 0 .. Size
      /\ storage \in [Slots -> Values \cup {Null}]
      /\ writex = SlotFrom(readx, length + 1) /\ readx \in Slots /\ writex \in Slots
  BY BufferAssumption DEF RingInv, TypeOK
<1>b. \A i \in 1 .. Size : SlotFrom(readx, i) \in Slots
  BY <1>0, SlotValue
<1>1. ASSUME NEW v \in Values, Write(v) PROVE HeldInv'
  <2>1. length' = length + 1 /\ readx' = readx /\ length + 1 \in 1 .. Size
        /\ storage' = [storage EXCEPT ![SlotFrom(readx, length + 1)] = v]
    BY <1>0, <1>1 DEF Write
  <2>2. \A i \in 1 .. Size : i # length + 1
          => storage'[SlotFrom(readx, i)] = storage[SlotFrom(readx, i)]
    <3> TAKE i \in 1 .. Size
    <3> HAVE i # length + 1
    <3>1. SlotFrom(readx, i) # SlotFrom(readx, length + 1)
      BY <1>0, <2>1, SlotsDiffer
    <3> QED
      BY <1>0, <1>b, <2>1, <3>1
  <2>3. storage'[SlotFrom(readx, length + 1)] # Null
    BY <1>0, <1>b, <2>1, BufferAssumption
  <2> QED
    BY <1>0, <2>1, <2>2, <2>3 DEF HeldInv
<1>2. CASE Read
  <2>1. length' = length - 1 /\ readx' = Following(readx) /\ length \in 1 .. Size
        /\ storage' = [storage EXCEPT ![readx] = Null]
    BY <1>0, <1>2 DEF Read
  <2>2. SlotFrom(readx, 1) = readx /\ SlotFrom(readx, Size + 1) = readx
    BY <1>0, SlotValue DEF Slots
  <2>3. \A i \in 1 .. Size : SlotFrom(Following(readx), i) = SlotFrom(readx, i + 1)
    BY <1>0, SlotAfterRead
  <2>4. \A j \in 2 .. Size : storage'[SlotFrom(readx, j)] = storage[SlotFrom(readx, j)]
    <3> TAKE j \in 2 .. Size
    <3>1. SlotFrom(readx, j) # readx
      <4>1. j \in 1 .. Size /\ 1 \in 1 .. Size /\ j # 1
        BY <1>0
      <4> QED
        BY <1>0, <2>2, <4>1, SlotsDiffer
    <3> QED
      BY <1>0, <1>b, <2>1, <3>1
  <2>5. storage'[readx] = Null
    BY <1>0, <2>1
  <2>6. \A i \in 1 .. length - 1 : storage'[SlotFrom(Following(readx), i)] # Null
    <3> TAKE i \in 1 .. length - 1
    <3>1. i + 1 \in 2 .. Size /\ i + 1 \in 1 .. length /\ i \in 1 .. Size
      BY <1>0
    <3> QED
      BY <2>3, <2>4, <3>1 DEF HeldInv
  <2>7. \A i \in length .. Size : storage'[SlotFrom(Following(readx), i)] = Null
    <3> TAKE i \in length .. Size
    <3>1. i \in 1 .. Size
      BY <1>0, <2>1
    <3>2. CASE i = Size
      BY <2>2, <2>3, <2>5, <3>1, <3>2
    <3>3. CASE i # Size
      <4>1. i + 1 \in 2 .. Size /\ i + 1 \in length + 1 .. Size
        BY <1>0, <2>1, <3>3
      <4> QED
        BY <2>3, <2>4, <3>1, <4>1 DEF HeldInv
    <3> QED
      BY <3>2, <3>3
  <2> QED
    BY <1>0, <2>1, <2>6, <2>7 DEF HeldInv
<1>3. CASE Clear
  <2>1. \A i \in 1 .. Size : SlotFrom(writex, i) \in Slots
    BY <1>0, SlotValue
  <2> QED
    BY <1>0, <1>3, <2>1 DEF Clear, HeldInv
<1>4. CASE UNCHANGED vars
  BY <1>4 DEF vars, HeldInv
<1> QED
  BY <1>1, <1>2, <1>3, <1>4 DEF Next

\* A value that was read or cleared is not kept alive by the array, whatever
\* its size and however often the indices wrapped (circular_buffer.ch:56-75).
THEOREM RingKeepsNothing == Spec => []OnlyWindowHeld
<1>1. RingInv /\ HeldInv => OnlyWindowHeld
  <2> SUFFICES ASSUME RingInv, HeldInv PROVE OnlyWindowHeld
    OBVIOUS
  <2>1. /\ Size \in Nat /\ length \in 0 .. Size /\ readx \in Slots
        /\ \A i \in 1 .. Size : SlotFrom(readx, i) \in Slots
    BY SlotValue, BufferAssumption DEF RingInv, TypeOK
  <2>2. ASSUME NEW x \in Slots, storage[x] # Null
        PROVE  \E i \in 1 .. length : x = SlotFrom(readx, i)
    <3>1. PICK i \in 1 .. Size : SlotFrom(readx, i) = x
      BY <2>1, EverySlotMet
    <3> QED
      BY <2>1, <2>2, <3>1 DEF HeldInv
  <2>3. \A i \in 1 .. length : storage[SlotFrom(readx, i)] # Null
                               /\ SlotFrom(readx, i) \in Slots
    BY <2>1 DEF HeldInv
  <2> QED
    BY <2>2, <2>3 DEF OnlyWindowHeld, Slot
<1> QED
  BY <1>1, InitRing, NextRing, InitHeld, NextHeld, PTL DEF Spec
=============================================================================
