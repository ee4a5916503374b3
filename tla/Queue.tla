------------------------------- MODULE Queue -------------------------------
(***************************************************************************)
(* The Queue class (src/stdlib/libs/queue.ch): a linked list of            *)
(* QueueEntry objects with a head, a tail and a length.  A read from an    *)
(* empty queue throws and changes nothing.                                 *)
(***************************************************************************)
EXTENDS Integers, Sequences

CONSTANTS
  MaxEntries,  \* bound: number of QueueEntry objects ever made
  Values,      \* values written
  Null         \* null

VARIABLES
  head,    \* an entry or null
  tail,    \* an entry or null
  length,
  data,    \* QueueEntry::data of the entries made
  next,    \* QueueEntry::next
  made,    \* number of entries made
  out      \* the value the last read returned

vars == <<head, tail, length, data, next, made, out>>

Entries  == 1 .. MaxEntries
NullHead == 0   \* stands for null where an entry is expected

Init ==
  /\ head = NullHead /\ tail = NullHead /\ length = 0
  /\ data = [e \in Entries |-> Null]
  /\ next = [e \in Entries |-> NullHead]
  /\ made = 0
  /\ out = Null

\* @head = @tail = null, @length = 0
Reset == head' = NullHead /\ tail' = NullHead /\ length' = 0

\* Faulty: the tail of a list that becomes empty is kept.
Read_Forgets_Reset ==
  /\ length # 0
  /\ out' = data[head]
  /\ head' = next[head] /\ length' = length - 1
  /\ UNCHANGED <<tail, data, next, made>>

\* The last entry is taken off by clear(), any other by moving the head.
Read ==
  /\ length # 0
  /\ out' = data[head]
  /\ IF length = 1
     THEN Reset
     ELSE head' = next[head] /\ length' = length - 1 /\ UNCHANGED tail
  /\ UNCHANGED <<data, next, made>>

\* Faulty: the new entry goes in front of the list.
Write_In_Front(v) ==
  /\ made < MaxEntries
  /\ made' = made + 1
  /\ data' = [data EXCEPT ![made + 1] = v]
  /\ head' = made + 1
  /\ length' = length + 1
  /\ IF length = 0
     THEN tail' = made + 1 /\ UNCHANGED next
     ELSE next' = [next EXCEPT ![made + 1] = head] /\ UNCHANGED tail
  /\ UNCHANGED out

Write(v) ==
  /\ made < MaxEntries
  /\ made' = made + 1
  /\ data' = [data EXCEPT ![made + 1] = v]
  /\ tail' = made + 1
  /\ length' = length + 1
  /\ IF length = 0
     THEN head' = made + 1 /\ UNCHANGED next
     ELSE next' = [next EXCEPT ![tail] = made + 1] /\ UNCHANGED head
  /\ UNCHANGED out

Clear == Reset /\ UNCHANGED <<data, next, made, out>>

Next == (\E v \in Values : Write(v)) \/ Read \/ Clear

Spec == Init /\ [][Next]_vars

-----------------------------------------------------------------------------
(* Properties                                                              *)

\* The entries one gets to from the head along next, the head first.
Chain ==
  LET step[i \in 1 .. length] == IF i = 1 THEN head ELSE next[step[i - 1]]
  IN  [i \in 1 .. length |-> step[i]]

\* head, tail and length agree: length steps along next lead from the head
\* to the tail, which ends the list, over entries that differ; an empty queue
\* holds on to no entry (queue.ch:43-76).
WellFormed ==
  /\ length = 0 => head = NullHead /\ tail = NullHead
  /\ length > 0 =>
       /\ \A i, j \in 1 .. length : Chain[i] = Chain[j] => i = j
       /\ Chain[length] = tail
       /\ next[tail] = NullHead

Contents == [i \in 1 .. length |-> data[Chain[i]]]

List == INSTANCE Fifo WITH Capacity <- MaxEntries, items <- Contents

\* The list is a queue: also across the reads that empty it and the writes
\* that fill it again (queue.ch:43-76).
IsFifo == List!Spec
=============================================================================
