--------------------------- MODULE CircularBuffer ---------------------------
(***************************************************************************)
(* The CircularBuffer class (src/stdlib/libs/circular_buffer.ch): a fixed  *)
(* array used as a ring.  A write to a full buffer and a read from an      *)
(* empty one throw and change nothing.                                     *)
(***************************************************************************)
EXTENDS Integers, Sequences

CONSTANTS
  Size,    \* number of slots, the length of storage
  Values,  \* values written
  Null     \* the null an unused slot holds

ASSUME BufferAssumption == Size \in Nat \ {0} /\ Null \notin Values

VARIABLES
  storage,  \* slots 0 .. Size - 1
  length,
  readx,
  writex,
  out       \* the value the last read returned

vars == <<storage, length, readx, writex, out>>

Slots == 0 .. Size - 1

\* Faulty: the index runs one slot beyond the array before it wraps.
Following_Late(x) == (x + 1) % (Size + 1)

\* The slot after x.
Following(x) == (x + 1) % Size

Init ==
  /\ storage = [i \in Slots |-> Null]
  /\ length = 0
  /\ readx = 0
  /\ writex = 0
  /\ out = Null

Write(v) ==
  /\ length # Size
  /\ storage' = [storage EXCEPT ![writex] = v]
  /\ writex' = Following(writex)
  /\ length' = length + 1
  /\ UNCHANGED <<readx, out>>

\* Faulty: the slot keeps its value.
Read_Keeps_Slot ==
  /\ length # 0
  /\ out' = storage[readx]
  /\ readx' = Following(readx)
  /\ length' = length - 1
  /\ UNCHANGED <<storage, writex>>

Read ==
  /\ length # 0
  /\ out' = storage[readx]
  /\ storage' = [storage EXCEPT ![readx] = Null]
  /\ readx' = Following(readx)
  /\ length' = length - 1
  /\ UNCHANGED writex

\* Faulty: the read index stays where it is.
Clear_Keeps_Readx ==
  /\ length' = 0
  /\ storage' = [i \in Slots |-> Null]
  /\ UNCHANGED <<readx, writex, out>>

\* The indices stay in the middle of the array.
Clear ==
  /\ readx' = writex
  /\ length' = 0
  /\ storage' = [i \in Slots |-> Null]
  /\ UNCHANGED <<writex, out>>

Next == (\E v \in Values : Write(v)) \/ Read \/ Clear

Spec == Init /\ [][Next]_vars

-----------------------------------------------------------------------------
(* Properties                                                              *)

TypeOK ==
  /\ storage \in [Slots -> Values \cup {Null}]
  /\ length \in 0 .. Size
  /\ readx \in Slots
  /\ writex \in Slots
  /\ out \in Values \cup {Null}

\* The slot of the i-th oldest value when the oldest lies in slot r.
SlotFrom(r, i) == (r + i - 1) % Size

Slot(i) == SlotFrom(readx, i)

\* The slots that hold a value are the length slots from readx on: a value
\* read or cleared is not kept alive by the array (circular_buffer.ch:56-75).
OnlyWindowHeld == {i \in Slots : storage[i] # Null} = {Slot(i) : i \in 1 .. length}

Contents == [i \in 1 .. length |-> storage[Slot(i)]]

Buffer == INSTANCE Fifo WITH Capacity <- Size, items <- Contents

\* The ring is a bounded queue: values come out in the order they went in,
\* across every wrap of the two indices (circular_buffer.ch:42-65).
IsFifo == Buffer!Spec
=============================================================================
