------------------------------ MODULE MCBuffers ------------------------------
(***************************************************************************)
(* The two containers that hold values for waiting fibers side by side: a  *)
(* CircularBuffer, the buffer of a channel, and a Queue, the waiters of a  *)
(* notifier.  They share nothing but the values, so their steps interleave.*)
(***************************************************************************)
EXTENDS CircularBuffer

CONSTANT MaxEntries  \* bound: number of QueueEntry objects ever made

ASSUME ListAssumption == MaxEntries \in Nat

VARIABLES listHead, listTail, listLength, listData, listNext, listMade, listOut

Waiters ==
  INSTANCE Queue WITH head <- listHead, tail <- listTail, length <- listLength,
                      data <- listData, next <- listNext, made <- listMade,
                      out <- listOut

listVars == <<listHead, listTail, listLength, listData, listNext, listMade, listOut>>
allVars  == <<vars, listVars>>

BothInit == Init /\ Waiters!Init

BothNext ==
  \/ Next /\ UNCHANGED listVars
  \/ Waiters!Next /\ UNCHANGED vars

BothSpec == BothInit /\ [][BothNext]_allVars

\* head, tail and length of the list agree (queue.ch:43-76).
ListWellFormed == Waiters!WellFormed

\* The list implements a queue (queue.ch:43-76).
ListIsFifo == Waiters!IsFifo
=============================================================================
