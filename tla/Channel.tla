------------------------------- MODULE Channel -------------------------------
(***************************************************************************)
(* The Channel class (src/stdlib/libs/channel.ch): fibers read from and    *)
(* write to one channel, with or without a buffer, that one of them may    *)
(* close.  Two notifiers hold the readers and the writers that wait; the   *)
(* buffer is the queue that CircularBuffer implements.                     *)
(***************************************************************************)
EXTENDS Sync

CONSTANTS
  Sizes,     \* sizes a channel is made with, 0 for no buffer
  MaxWrites  \* bound: number of calls of write()

ASSUME ChannelAssumption ==
  Sizes \subseteq Nat /\ MaxWrites \in Nat /\ Notifiers = {"read", "write"}

VARIABLES
  size,     \* the argument of the constructor
  open,     \* Channel::open
  buffer,   \* Channel::buffer, the oldest value first
  writing,  \* the argument of the write() a paused writer is in
  writes,   \* number of calls of write()
  \* History
  accepted,  \* the values the channel has taken, in that order
  handed     \* the values handed to readers, in that order

chanVars == <<size, open, buffer, writing, writes, accepted, handed>>
vars     == <<syncVars, chanVars>>

Init ==
  /\ SyncInit
  /\ size \in Sizes
  /\ open = TRUE
  /\ buffer = <<>>
  /\ writing = [f \in Fibers |-> Null]
  /\ writes = 0
  /\ accepted = <<>> /\ handed = <<>>

\* Faulty: off by one.
HasSpace_One_More == Len(buffer) <= size

HasSpace == Len(buffer) < size

-----------------------------------------------------------------------------
(* read()                                                                  *)

\* Wakes a waiting writer, if there is one.
WakeWriter ==
  IF HasWaiters("write")
  THEN /\ ready' = Append(ready, Resume(Head(nt["write"].pending), Null))
       /\ nt' = [nt EXCEPT !["write"] = Notified(nt["write"])]
  ELSE UNCHANGED <<ready, nt>>

\* Faulty: wakes no writer.
ReadBuffer_No_Wake ==
  /\ current # Idle
  /\ buffer # <<>>
  /\ buffer' = Tail(buffer)
  /\ handed' = Append(handed, Head(buffer))
  /\ UNCHANGED <<syncVars, size, open, writing, writes, accepted>>

\* The buffer holds a value, also after the channel was closed.
ReadBuffer ==
  /\ current # Idle
  /\ buffer # <<>>
  /\ buffer' = Tail(buffer)
  /\ handed' = Append(handed, Head(buffer))
  /\ WakeWriter
  /\ UNCHANGED <<schedVars, current, paused, where, waits,
                 size, open, writing, writes, accepted>>

\* Faulty: waits although the buffer holds a value.
ReadWait_Skips_Buffer ==
  /\ current # Idle
  /\ open
  /\ Suspend("read", nt["read"])
  /\ UNCHANGED <<ready, schedVars, chanVars>>

\* Nothing there: wake a writer and wait for a value.
ReadWait ==
  /\ current # Idle
  /\ buffer = <<>> /\ open
  /\ waits[current] < MaxWaits
  /\ IF HasWaiters("write")
     THEN ready' = Append(ready, Resume(Head(nt["write"].pending), Null))
     ELSE UNCHANGED ready
  /\ nt' = [nt EXCEPT
              !["read"]  = [nt["read"] EXCEPT !.pending = Append(@, current)],
              !["write"] = IF HasWaiters("write") THEN Notified(nt["write"])
                                                  ELSE nt["write"]]
  /\ paused' = paused \cup {current}
  /\ where' = [where EXCEPT ![current] = "read"]
  /\ waits' = [waits EXCEPT ![current] = @ + 1]
  /\ current' = Idle
  /\ UNCHANGED <<schedVars, chanVars>>

\* A reader comes out of wait(): with the value it was resumed with, null
\* when the channel was closed, or the stale exception.
ReadResumed ==
  /\ Resuming
  /\ WokenWhere = "read"
  /\ ready' = Tail(ready)
  /\ current' = Woken
  /\ paused' = paused \ {Woken}
  /\ where' = [where EXCEPT ![Woken] = Null]
  /\ nt' = [nt EXCEPT !["read"] = AfterWait]
  /\ UNCHANGED <<schedVars, waits, chanVars>>

-----------------------------------------------------------------------------
(* write()                                                                 *)

\* The write() of the fiber f is over: f goes on.
WriteOver(f) ==
  /\ current' = f
  /\ paused' = paused \ {f}
  /\ where' = [where EXCEPT ![f] = Null]
  /\ writing' = [writing EXCEPT ![f] = Null]

Hand(f, v, tasks) ==
  /\ HasWaiters("read")
  /\ ready' = Append(tasks, Resume(Head(nt["read"].pending), v))
  /\ nt' = [nt EXCEPT !["read"] = Notified(nt["read"])]
  /\ accepted' = Append(accepted, v)
  /\ handed' = Append(handed, v)
  /\ WriteOver(f)
  /\ UNCHANGED buffer

Store(f, v, tasks) ==
  /\ ~HasWaiters("read") /\ HasSpace
  /\ buffer' = Append(buffer, v)
  /\ accepted' = Append(accepted, v)
  /\ WriteOver(f)
  /\ ready' = tasks
  /\ UNCHANGED <<nt, handed>>

WriteWait(f, v, tasks) ==
  /\ ~HasWaiters("read") /\ ~HasSpace
  /\ nt' = [nt EXCEPT !["write"].pending = Append(@, f)]
  /\ paused' = paused \cup {f}
  /\ where' = [where EXCEPT ![f] = "write"]
  /\ writing' = [writing EXCEPT ![f] = v]
  /\ current' = Idle
  /\ ready' = tasks
  /\ UNCHANGED <<buffer, accepted, handed>>

\* write(v) of the fiber f on an open channel, tasks being in the task queue:
\* hand v to a reader, store it, or wait.
Put(f, v, tasks) == Hand(f, v, tasks) \/ Store(f, v, tasks) \/ WriteWait(f, v, tasks)

Write(v) ==
  /\ current # Idle
  /\ open
  /\ writes < MaxWrites
  /\ writes' = writes + 1
  /\ Put(current, v, ready)
  /\ UNCHANGED <<schedVars, waits, size, open>>

\* A writer was notified: it starts over.  Others may have been faster.
WriteAgain ==
  /\ Resuming
  /\ WokenWhere = "write"
  /\ ~WaitThrows /\ open
  /\ Put(Woken, writing[Woken], Tail(ready))
  /\ UNCHANGED <<schedVars, waits, size, open, writes>>

\* A writer comes out of wait() with the error of close() or the stale
\* exception, or finds the channel closed: its value is not written.
WriteFails ==
  /\ Resuming
  /\ WokenWhere = "write"
  /\ WaitThrows \/ ~open
  /\ ready' = Tail(ready)
  /\ nt' = [nt EXCEPT !["write"] = AfterWait]
  /\ WriteOver(Woken)
  /\ UNCHANGED <<schedVars, waits, size, open, buffer, writes,
                 accepted, handed>>

-----------------------------------------------------------------------------
\* The error object pending_write is closed with.
Cancelled == CHOOSE v \in Values : TRUE

\* Faulty: the waiting writers are forgotten.
Close_Forgets_Writers ==
  /\ current # Idle
  /\ open
  /\ open' = FALSE
  /\ ready' = ready \o Resumes(nt["read"].pending, Null)
  /\ nt' = [nt EXCEPT !["read"] = Closed(@, Null)]
  /\ UNCHANGED <<schedVars, current, paused, where, waits,
                 size, buffer, writing, writes, accepted, handed>>

\* close(): readers get null, writers an error.
Close ==
  /\ current # Idle
  /\ open
  /\ open' = FALSE
  /\ ready' = ready \o Resumes(nt["read"].pending, Null)
                    \o Resumes(nt["write"].pending, Null)
  /\ nt' = [nt EXCEPT !["read"]  = Closed(@, Null),
                      !["write"] = Closed([@ EXCEPT !.error = Cancelled], Null)]
  /\ UNCHANGED <<schedVars, current, paused, where, waits,
                 size, buffer, writing, writes, accepted, handed>>

-----------------------------------------------------------------------------
Scheduler ==
  /\ Spawn \/ Fire \/ Start \/ Return \/ Exit \/ ExitCheck \/ InvalidThread
  /\ UNCHANGED chanVars

Resumed == ReadResumed \/ WriteAgain \/ WriteFails

Next ==
  \/ Scheduler \/ Resumed
  \/ ReadBuffer \/ ReadWait
  \/ \E v \in Values : Write(v)
  \/ Close

Spec == Init /\ [][Next]_vars

\* The loop goes on, and a running fiber sooner or later gives the VM back.
FairSpec ==
  /\ Spec
  /\ WF_vars((Fire \/ Start \/ ExitCheck \/ InvalidThread) /\ UNCHANGED chanVars)
  /\ WF_vars(Resumed)
  /\ WF_vars(Return /\ UNCHANGED chanVars)

-----------------------------------------------------------------------------
(* Properties                                                              *)

TypeOK ==
  /\ SyncTypeOK
  /\ open \in BOOLEAN
  /\ size \in Sizes
  /\ buffer \in Seq(Values) /\ Len(buffer) <= size
  /\ writing \in [Fibers -> Values \cup {Null}]
  /\ writes \in 0 .. MaxWrites
  /\ accepted \in Seq(Values) /\ handed \in Seq(Values)

\* A channel hands out what it accepted in that order, each value once and
\* none in between lost, whether a value goes through the buffer or straight
\* to a reader, before and after close() (channel.ch:41-81).
FifoDelivery == accepted = handed \o buffer

\* Writers on their way out of wait() to start over.
Retrying == {i \in DOMAIN ready : ready[i].kind = "resume" /\ where[ready[i].id] = "write"}

\* Nobody waits in vain: if writers wait then every waiting reader and every
\* free slot of the buffer has a notified writer on its way, and readers only
\* wait while the buffer is empty (channel.ch:41-81).  The exit check resumes
\* whom it likes, and exit drops the tasks.
NoMissedRendezvous ==
  ~stalled =>
    /\ HasWaiters("write") =>
         Cardinality(Retrying) >= Len(nt["read"].pending) + (size - Len(buffer))
    /\ HasWaiters("read") => buffer = <<>>

\* close() leaves nobody behind: every fiber that waits in a closed channel
\* is about to be resumed (channel.ch:83-88), unless exit drops the tasks.
CloseReleases ==
  ~open /\ ~stalled =>
    \A f \in paused : \E i \in DOMAIN ready : ready[i].kind = "resume" /\ ready[i].id = f
=============================================================================
