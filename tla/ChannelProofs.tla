---------------------------- MODULE ChannelProofs ----------------------------
(***************************************************************************)
(* A channel hands out what it accepted, in that order, wakes every fiber  *)
(* that waits in it once, misses no pair of a reader and a writer, and     *)
(* leaves nobody behind when it is closed: for every size of the buffer    *)
(* and any number of fibers.                                               *)
(***************************************************************************)
EXTENDS Channel, SyncProofs

\* The state of the channel.  A writer that waits has its value with it.
ChanTypes ==
  /\ open \in BOOLEAN
  /\ size \in Sizes
  /\ buffer \in Seq(Values) /\ Len(buffer) <= size
  /\ writing \in [Fibers -> V0]
  /\ writes \in 0 .. MaxWrites
  /\ accepted \in Seq(Values)
  /\ handed \in Seq(Values)
  /\ \A f \in Fibers : where[f] = "write" => writing[f] \in Values

\* Readers wait only while the buffer is empty: a value handed to a reader
\* overtakes none in the buffer.
NoOvertaking == nt["read"].pending # <<>> => buffer = <<>>

ChanInv == SyncInv /\ ChanTypes /\ NoOvertaking /\ FifoDelivery

-----------------------------------------------------------------------------
(* Where the wakeups are                                                   *)

\* The two notifiers are there.
LEMMA TwoNotifiers ==
  ASSUME SyncInv
  PROVE  /\ nt["read"] \in NotifierState /\ nt["write"] \in NotifierState
         /\ "read" \in Notifiers /\ "write" \in Notifiers
         /\ nt \in [Notifiers -> NotifierState] /\ ready \in Seq(SyncTask)
         /\ Lists(nt)["read"] = nt["read"].pending
         /\ Lists(nt)["write"] = nt["write"].pending
         /\ nt["read"].pending \in Seq(Fibers) /\ nt["write"].pending \in Seq(Fibers)
<1>1. "read" \in Notifiers /\ "write" \in Notifiers
  BY ChannelAssumption
<1> QED
  BY <1>1, NotifierIs DEF SyncInv, SyncTypes

\* Waking a writer, where the fibers are the same as before.
LEMMA WakeWriterSync ==
  ASSUME SyncInv, HasWaiters("write")
  PROVE  LET N == [nt EXCEPT !["write"] = Notified(nt["write"])]
             r == Append(ready, Resume(Head(nt["write"].pending), Null))
         IN  /\ N \in [Notifiers -> NotifierState] /\ r \in Seq(SyncTask)
             /\ N["read"] = nt["read"] /\ N["write"] = Notified(nt["write"])
             /\ ~stalled => Wake(r, Lists(N), paused, where)
<1> DEFINE f == Head(nt["write"].pending)  M == Notified(nt["write"])
           N == [nt EXCEPT !["write"] = M]  r == Append(ready, Resume(f, Null))
<1>0. Null \in V0
  BY DEF V0
<1>1. /\ nt["write"] \in NotifierState /\ nt["write"].pending \in Seq(Fibers)
      /\ "read" \in Notifiers /\ "write" \in Notifiers
      /\ nt \in [Notifiers -> NotifierState] /\ ready \in Seq(SyncTask)
      /\ Lists(nt)["write"] = nt["write"].pending
      /\ nt["write"].pending # <<>>
  BY TwoNotifiers DEF HasWaiters
<1>2. M \in NotifierState /\ M.pending = Tail(nt["write"].pending)
  BY <1>1, NotifierOps
<1>3. ~stalled => Wake(r, [Lists(nt) EXCEPT !["write"] = M.pending], paused, where)
  BY <1>0, <1>1, <1>2, WakeNotify DEF SyncInv
<1>4. r \in Seq(SyncTask)
  <2>1. f \in Fibers
    BY <1>1
  <2>2. Resume(f, Null) \in SyncTask
    BY <1>0, <2>1, TaskTypes
  <2> QED
    BY <1>1, <2>2
<1> HIDE DEF M, r
<1>5. /\ N \in [Notifiers -> NotifierState]
      /\ Lists(N) = [Lists(nt) EXCEPT !["write"] = M.pending]
  BY <1>1, <1>2, ListsUpdate
<1>6. N["read"] = nt["read"] /\ N["write"] = M
  BY <1>1
<1>7. /\ N \in [Notifiers -> NotifierState] /\ r \in Seq(SyncTask)
      /\ N["read"] = nt["read"] /\ N["write"] = M
      /\ ~stalled => Wake(r, Lists(N), paused, where)
  BY <1>3, <1>4, <1>5, <1>6
<1> QED
  BY <1>7 DEF M, r

\* read() that finds a value.
LEMMA ReadBufferSync ==
  ASSUME SyncInv, ReadBuffer
  PROVE  SyncInv'
<1>1. UNCHANGED <<spawned, started, panic, halted, stalled, current, paused, where, waits>>
  BY DEF ReadBuffer, schedVars
<1>2. /\ nt' \in [Notifiers -> NotifierState] /\ ready' \in Seq(SyncTask)
      /\ ~stalled => Wake(ready', Lists(nt'), paused, where)
  <2>1. CASE HasWaiters("write")
    BY <2>1, WakeWriterSync DEF ReadBuffer, WakeWriter
  <2>2. CASE ~HasWaiters("write")
    BY <2>2 DEF ReadBuffer, WakeWriter, SyncInv, SyncTypes
  <2> QED
    BY <2>1, <2>2
<1>3. SyncTypes' /\ FibersApart'
  BY <1>1, <1>2 DEF SyncInv, SyncTypes, FibersApart
<1> QED
  BY <1>1, <1>2, <1>3 DEF SyncInv

\* read() that waits.
LEMMA ReadWaitSync ==
  ASSUME SyncInv, ReadWait
  PROVE  SyncInv'
<1> DEFINE R == [nt["read"] EXCEPT !.pending = Append(@, current)]
<1>a. PICK N, r :
        /\ N = IF HasWaiters("write")
               THEN [nt EXCEPT !["write"] = Notified(nt["write"])] ELSE nt
        /\ r = IF HasWaiters("write")
               THEN Append(ready, Resume(Head(nt["write"].pending), Null)) ELSE ready
  OBVIOUS
<1>b. /\ nt["read"] \in NotifierState /\ nt["write"] \in NotifierState
      /\ "read" \in Notifiers /\ "write" \in Notifiers
      /\ nt \in [Notifiers -> NotifierState] /\ ready \in Seq(SyncTask)
  BY TwoNotifiers
<1>1. /\ current # Idle /\ waits[current] < MaxWaits
      /\ paused' = paused \cup {current}
      /\ where' = [where EXCEPT ![current] = "read"]
      /\ waits' = [waits EXCEPT ![current] = @ + 1]
      /\ current' = Idle /\ ready' = r
      /\ nt' = [nt EXCEPT !["read"] = R,
                  !["write"] = IF HasWaiters("write") THEN Notified(nt["write"])
                                                      ELSE nt["write"]]
      /\ UNCHANGED schedVars
  BY <1>a DEF ReadWait
<1>2. /\ current \in Fibers /\ current \notin paused /\ current < started
  BY <1>1 DEF SyncInv, SyncTypes, FibersApart
<1>3. /\ N \in [Notifiers -> NotifierState] /\ r \in Seq(SyncTask)
      /\ N["read"] = nt["read"]
      /\ N["write"] = IF HasWaiters("write") THEN Notified(nt["write"]) ELSE nt["write"]
      /\ ~stalled => Wake(r, Lists(N), paused, where)
  <2>1. CASE HasWaiters("write")
    BY <1>a, <2>1, WakeWriterSync
  <2>2. CASE ~HasWaiters("write")
    BY <1>a, <1>b, <2>2 DEF SyncInv
  <2> QED
    BY <2>1, <2>2
<1>4. R \in NotifierState /\ R.pending = Append(nt["read"].pending, current)
  BY <1>b, <1>2, NotifierOps
<1> HIDE DEF R
<1>5. nt' = [N EXCEPT !["read"] = R]
  <2>1. CASE HasWaiters("write")
    BY <1>1, <1>a, <1>b, <2>1
  <2>2. CASE ~HasWaiters("write")
    BY <1>1, <1>a, <1>b, <2>2
  <2> QED
    BY <2>1, <2>2
<1>6. /\ nt' \in [Notifiers -> NotifierState]
      /\ Lists(nt') = [Lists(N) EXCEPT !["read"] = Append(Lists(N)["read"], current)]
  <2>0. N \in [Notifiers -> NotifierState] /\ R \in NotifierState /\ "read" \in Notifiers
    BY <1>b, <1>3, <1>4
  <2>1. /\ [N EXCEPT !["read"] = R] \in [Notifiers -> NotifierState]
        /\ Lists([N EXCEPT !["read"] = R]) = [Lists(N) EXCEPT !["read"] = R.pending]
    BY <2>0, ListsUpdate
  <2>2. Lists(N)["read"] = nt["read"].pending
    BY <1>b, <1>3, ListsType
  <2> QED
    BY <1>4, <1>5, <2>1, <2>2
<1>7. waits' \in [Fibers -> 0 .. MaxWaits]
  BY <1>1, <1>2, SyncAssumption DEF SyncInv, SyncTypes
<1>8. ~stalled => Wake(ready', Lists(nt'), paused', where')
  <2> SUFFICES ASSUME ~stalled PROVE Wake(ready', Lists(nt'), paused', where')
    OBVIOUS
  <2>1. Wake(r, Lists(N), paused, where) /\ "read" \in Notifiers
    BY <1>3, <1>b
  <2>2. Wake(r, [Lists(N) EXCEPT !["read"] = Append(Lists(N)["read"], current)],
             paused \cup {current}, [where EXCEPT ![current] = "read"])
    BY <1>2, <2>1, WakeSuspend
  <2> QED
    BY <1>1, <1>6, <2>2
<1> QED
  BY <1>1, <1>2, <1>3, <1>6, <1>7, <1>8, <1>b, MoveSync
\* write() of the fiber f, which is neither in tasks nor in a list.
LEMMA PutSync ==
  ASSUME SyncInv, NEW STATE f, f \in Fibers, f < started, current \in {f, Idle},
         NEW STATE v, v \in V0, NEW STATE tasks, tasks \in Seq(SyncTask),
         ~stalled => Wake(tasks, Lists(nt), paused \ {f}, [where EXCEPT ![f] = Null]),
         Put(f, v, tasks), UNCHANGED <<schedVars, waits>>
  PROVE  SyncInv'
<1>b. /\ nt["read"] \in NotifierState /\ nt["write"] \in NotifierState
      /\ "read" \in Notifiers /\ "write" \in Notifiers
      /\ nt \in [Notifiers -> NotifierState]
      /\ Lists(nt)["read"] = nt["read"].pending
      /\ Lists(nt)["write"] = nt["write"].pending
      /\ nt["read"].pending \in Seq(Fibers)
  BY TwoNotifiers
<1>w. /\ waits' \in [Fibers -> 0 .. MaxWaits] /\ UNCHANGED schedVars
      /\ where \in [Fibers -> Notifiers \cup {Null}]
  BY DEF SyncInv, SyncTypes
<1>1. CASE Hand(f, v, tasks)
  <2> DEFINE M == Notified(nt["read"])  h == Head(nt["read"].pending)
  <2>1. /\ nt["read"].pending # <<>> /\ ready' = Append(tasks, Resume(h, v))
        /\ nt' = [nt EXCEPT !["read"] = M]
        /\ current' = f /\ paused' = paused \ {f} /\ where' = [where EXCEPT ![f] = Null]
    BY <1>1 DEF Hand, HasWaiters, WriteOver
  <2>2. M \in NotifierState /\ M.pending = Tail(nt["read"].pending)
    BY <1>b, <2>1, NotifierOps
  <2>3. ready' \in Seq(SyncTask)
    <3>1. h \in Fibers
      BY <1>b, <2>1
    <3>2. Resume(h, v) \in SyncTask
      BY <3>1, TaskTypes
    <3> QED
      BY <2>1, <3>2
  <2>4. ~stalled => Wake(ready', [Lists(nt) EXCEPT !["read"] = M.pending], paused', where')
    <3> SUFFICES ASSUME ~stalled
                 PROVE  Wake(ready', [Lists(nt) EXCEPT !["read"] = M.pending], paused', where')
      OBVIOUS
    <3>1. /\ Wake(tasks, Lists(nt), paused \ {f}, [where EXCEPT ![f] = Null])
          /\ "read" \in Notifiers /\ Lists(nt)["read"] # <<>>
      BY <1>b, <2>1
    <3>2. Wake(Append(tasks, Resume(Head(Lists(nt)["read"]), v)),
               [Lists(nt) EXCEPT !["read"] = Tail(Lists(nt)["read"])],
               paused \ {f}, [where EXCEPT ![f] = Null])
      BY <3>1, WakeNotify
    <3> QED
      BY <1>b, <2>1, <2>2, <3>2
  <2> HIDE DEF M
  <2>5. /\ nt' \in [Notifiers -> NotifierState]
        /\ Lists(nt') = [Lists(nt) EXCEPT !["read"] = M.pending]
    <3>1. nt \in [Notifiers -> NotifierState] /\ M \in NotifierState /\ "read" \in Notifiers
      BY <1>b, <2>2
    <3>2. /\ [nt EXCEPT !["read"] = M] \in [Notifiers -> NotifierState]
          /\ Lists([nt EXCEPT !["read"] = M]) = [Lists(nt) EXCEPT !["read"] = M.pending]
      BY <3>1, ListsUpdate
    <3> QED
      BY <2>1, <3>2
  <2>6. ~stalled => Wake(ready', Lists(nt'), paused', where')
    BY <2>4, <2>5
  <2> QED
    BY <1>b, <1>w, <2>1, <2>3, <2>5, <2>6, MoveSync
<1>2. CASE Store(f, v, tasks)
  <2>1. /\ ready' = tasks /\ nt' = nt
        /\ current' = f /\ paused' = paused \ {f} /\ where' = [where EXCEPT ![f] = Null]
    BY <1>2 DEF Store, WriteOver
  <2> QED
    BY <1>b, <1>w, <2>1, MoveSync
<1>3. CASE WriteWait(f, v, tasks)
  <2> DEFINE M == [nt["write"] EXCEPT !.pending = Append(@, f)]
             u == [where EXCEPT ![f] = Null]
  <2>1. /\ ready' = tasks /\ nt' = [nt EXCEPT !["write"] = M]
        /\ current' = Idle /\ paused' = paused \cup {f}
        /\ where' = [where EXCEPT ![f] = "write"]
    BY <1>3 DEF WriteWait
  <2>2. M \in NotifierState /\ M.pending = Append(nt["write"].pending, f)
    BY <1>b, NotifierOps
  <2> HIDE DEF M
  <2>3. /\ nt' \in [Notifiers -> NotifierState]
        /\ Lists(nt') = [Lists(nt) EXCEPT !["write"] = M.pending]
    <3>1. nt \in [Notifiers -> NotifierState] /\ M \in NotifierState /\ "write" \in Notifiers
      BY <1>b, <2>2
    <3>2. /\ [nt EXCEPT !["write"] = M] \in [Notifiers -> NotifierState]
          /\ Lists([nt EXCEPT !["write"] = M]) = [Lists(nt) EXCEPT !["write"] = M.pending]
      BY <3>1, ListsUpdate
    <3> QED
      BY <2>1, <3>2
  <2>4. ~stalled => Wake(ready', Lists(nt'), paused', where')
    <3> SUFFICES ASSUME ~stalled PROVE Wake(ready', Lists(nt'), paused', where')
      OBVIOUS
    <3>1. /\ Wake(tasks, Lists(nt), paused \ {f}, u)
          /\ "write" \in Notifiers /\ f \notin paused \ {f}
      BY <1>b
    <3>2. /\ [u EXCEPT ![f] = "write"] = [where EXCEPT ![f] = "write"]
          /\ (paused \ {f}) \cup {f} = paused \cup {f}
      BY <1>w
    <3> HIDE DEF u
    <3>3. Wake(tasks, [Lists(nt) EXCEPT !["write"] = Append(Lists(nt)["write"], f)],
               (paused \ {f}) \cup {f}, [u EXCEPT ![f] = "write"])
      BY <3>1, WakeSuspend
    <3> QED
      BY <1>b, <2>1, <2>2, <2>3, <3>2, <3>3
  <2> QED
    BY <1>b, <1>w, <2>1, <2>3, <2>4, MoveSync
<1> QED
  BY <1>1, <1>2, <1>3 DEF Put

\* The fiber that calls write(), and the tasks.
LEMMA WriteIs ==
  ASSUME SyncInv, NEW v \in Values, Write(v)
  PROVE  /\ current \in Fibers /\ current < started /\ Put(current, v, ready)
         /\ where[current] # "write"
         /\ paused \ {current} = paused /\ [where EXCEPT ![current] = Null] = where
         /\ ~stalled => Wake(ready, Lists(nt), paused \ {current},
                             [where EXCEPT ![current] = Null])
<1>1. /\ current \in Fibers /\ current < started /\ Put(current, v, ready)
      /\ current \notin paused /\ where[current] = Null
      /\ where \in [Fibers -> Notifiers \cup {Null}]
  BY DEF Write, SyncInv, SyncTypes, FibersApart
<1>2. paused \ {current} = paused /\ [where EXCEPT ![current] = Null] = where
  BY <1>1
<1>3. Null # "write"
  BY SyncAssumption, ChannelAssumption
<1> QED
  BY <1>1, <1>2, <1>3 DEF SyncInv

\* The writer that starts over, and the tasks that are left.
LEMMA WriteAgainIs ==
  ASSUME SyncInv, Resuming
  PROVE  /\ Woken \in Fibers /\ Woken < started /\ current = Idle
         /\ Tail(ready) \in Seq(SyncTask)
         /\ ~stalled => Wake(Tail(ready), Lists(nt), paused \ {Woken},
                             [where EXCEPT ![Woken] = Null])
<1>1. /\ ready # <<>> /\ Head(ready).kind = "resume" /\ Woken = Head(ready).id
      /\ Woken \in paused /\ Woken \in Fibers
  BY AfterWaitIs
<1>2. Woken < started /\ current = Idle /\ ready \in Seq(SyncTask)
  BY <1>1 DEF SyncInv, SyncTypes, FibersApart, Resuming, Looping
<1>3. Tail(ready) \in Seq(SyncTask)
  BY <1>1, <1>2, SeqTypes
<1> QED
  BY <1>1, <1>2, <1>3, WakeResume DEF SyncInv

\* close()
LEMMA CloseSync ==
  ASSUME SyncInv, Close
  PROVE  SyncInv'
<1> DEFINE R == Closed(nt["read"], Null)
           E == [nt["write"] EXCEPT !.error = Cancelled]
           W == Closed(E, Null)
           N == [nt EXCEPT !["read"] = R]
           r == ready \o Resumes(nt["read"].pending, Null)
           p == [Lists(nt) EXCEPT !["read"] = <<>>]
<1>b. /\ nt["read"] \in NotifierState /\ nt["write"] \in NotifierState
      /\ "read" \in Notifiers /\ "write" \in Notifiers
      /\ nt \in [Notifiers -> NotifierState] /\ ready \in Seq(SyncTask)
      /\ Lists(nt)["read"] = nt["read"].pending
      /\ Lists(nt)["write"] = nt["write"].pending
      /\ nt["read"].pending \in Seq(Fibers) /\ nt["write"].pending \in Seq(Fibers)
  BY TwoNotifiers
<1>0. Cancelled \in V0 /\ Null \in V0
  <2>1. \E v \in Values : TRUE
    BY SyncAssumption
  <2>2. Cancelled \in Values
    BY <2>1 DEF Cancelled
  <2> QED
    BY <2>2 DEF V0
<1>1. R \in NotifierState /\ R.pending = <<>>
  BY <1>0, <1>b, NotifierOps
<1>2. W \in NotifierState /\ W.pending = <<>>
  <2>1. E \in NotifierState
    BY <1>0, <1>b, NotifierOps
  <2> HIDE DEF E
  <2> QED
    BY <1>0, <2>1, NotifierOps
<1>3. /\ ready' = r \o Resumes(nt["write"].pending, Null)
      /\ nt' = [nt EXCEPT !["read"] = R, !["write"] = W]
      /\ UNCHANGED <<spawned, started, panic, halted, stalled, current, paused, where, waits>>
  BY DEF Close, schedVars
<1> HIDE DEF R, W
<1>4. nt' = [N EXCEPT !["write"] = W]
  BY <1>3, <1>b
<1>5. /\ N \in [Notifiers -> NotifierState] /\ Lists(N) = p
  <2>1. nt \in [Notifiers -> NotifierState] /\ R \in NotifierState /\ "read" \in Notifiers
    BY <1>1, <1>b
  <2>2. /\ [nt EXCEPT !["read"] = R] \in [Notifiers -> NotifierState]
        /\ Lists([nt EXCEPT !["read"] = R]) = [Lists(nt) EXCEPT !["read"] = R.pending]
    BY <2>1, ListsUpdate
  <2> QED
    BY <1>1, <2>2
<1> HIDE DEF N
<1>6. /\ nt' \in [Notifiers -> NotifierState]
      /\ Lists(nt') = [p EXCEPT !["write"] = <<>>]
  <2>1. N \in [Notifiers -> NotifierState] /\ W \in NotifierState /\ "write" \in Notifiers
    BY <1>2, <1>5, <1>b
  <2>2. /\ [N EXCEPT !["write"] = W] \in [Notifiers -> NotifierState]
        /\ Lists([N EXCEPT !["write"] = W]) = [Lists(N) EXCEPT !["write"] = W.pending]
    BY <2>1, ListsUpdate
  <2> QED
    BY <1>2, <1>4, <1>5, <2>2
<1>7. r \in Seq(SyncTask) /\ ready' \in Seq(SyncTask)
  <2>1. /\ Resumes(nt["read"].pending, Null) \in Seq(SyncTask)
        /\ Resumes(nt["write"].pending, Null) \in Seq(SyncTask)
    BY <1>0, <1>b, ResumesAt
  <2>2. r \in Seq(SyncTask)
    BY <1>b, <2>1, ConcatAt
  <2> HIDE DEF r
  <2> QED
    BY <1>3, <2>1, <2>2, ConcatAt
<1>8. ~stalled' => Wake(ready', Lists(nt'), paused', where')
  <2> SUFFICES ASSUME ~stalled PROVE Wake(ready', Lists(nt'), paused, where)
    BY <1>3
  <2>1. Wake(ready, Lists(nt), paused, where)
    BY DEF SyncInv
  <2>2. Wake(r, p, paused, where)
    BY <1>0, <1>b, <2>1, WakeRelease
  <2>3. p["write"] = nt["write"].pending
    BY <1>b, ListsType
  <2> HIDE DEF r, p
  <2>4. Wake(r \o Resumes(p["write"], Null), [p EXCEPT !["write"] = <<>>], paused, where)
    BY <1>0, <1>b, <2>2, WakeRelease
  <2> QED
    BY <1>3, <1>6, <2>3, <2>4
<1>9. SyncTypes' /\ FibersApart'
  BY <1>3, <1>6, <1>7 DEF SyncInv, SyncTypes, FibersApart
<1> QED
  BY <1>8, <1>9 DEF SyncInv

\* Every step keeps the invariant of the scheduler and the notifiers.
LEMMA NextSync ==
  ASSUME ChanInv, [Next]_vars
  PROVE  SyncInv'
<1>a. SyncInv /\ writing \in [Fibers -> V0]
  BY DEF ChanInv, ChanTypes
<1>1. CASE Scheduler
  BY <1>1, <1>a, SchedulerSync DEF Scheduler
<1>2. CASE ReadBuffer \/ ReadWait
  BY <1>2, <1>a, ReadBufferSync, ReadWaitSync
<1>3. CASE ReadResumed
  BY <1>3, <1>a, ResumeSync DEF ReadResumed
<1>4. ASSUME NEW v \in Values, Write(v) PROVE SyncInv'
  <2>1. UNCHANGED <<schedVars, waits>> /\ v \in V0 /\ ready \in Seq(SyncTask)
    BY <1>4, <1>a DEF Write, V0, SyncInv, SyncTypes
  <2> QED
    BY <1>4, <1>a, <2>1, WriteIs, PutSync
<1>5. CASE WriteAgain
  <2>1. UNCHANGED <<schedVars, waits>> /\ Resuming /\ Put(Woken, writing[Woken], Tail(ready))
    BY <1>5 DEF WriteAgain
  <2>2. /\ Woken \in Fibers /\ Woken < started /\ current = Idle
        /\ Tail(ready) \in Seq(SyncTask)
        /\ ~stalled => Wake(Tail(ready), Lists(nt), paused \ {Woken},
                            [where EXCEPT ![Woken] = Null])
    BY <1>a, <2>1, WriteAgainIs
  <2>3. writing[Woken] \in V0
    BY <1>a, <2>2
  <2> QED
    BY <1>a, <2>1, <2>2, <2>3, PutSync
<1>6. CASE WriteFails
  BY <1>6, <1>a, ResumeSync DEF WriteFails, WriteOver
<1>7. CASE Close
  BY <1>7, <1>a, CloseSync
<1>8. CASE UNCHANGED vars
  BY <1>8, <1>a DEF vars, syncVars, schedVars, SyncInv, SyncTypes, FibersApart
<1> QED
  BY <1>1, <1>2, <1>3, <1>4, <1>5, <1>6, <1>7, <1>8 DEF Next, Resumed
-----------------------------------------------------------------------------
(* The values                                                              *)

\* A value that leaves the buffer goes to the end of those handed out.
LEMMA MoveHead ==
  ASSUME NEW T, NEW h \in Seq(T), NEW b \in Seq(T), b # <<>>
  PROVE  Append(h, Head(b)) \o Tail(b) = h \o b
<1>1. Head(b) \in T /\ Tail(b) \in Seq(T) /\ b = <<Head(b)>> \o Tail(b)
  <2>1. Head(b) \in T /\ Tail(b) \in Seq(T)
    BY HeadTailProperties
  <2>2. <<Head(b)>> \o Tail(b) \in Seq(T) /\ Len(<<Head(b)>> \o Tail(b)) = Len(b)
    BY <2>1
  <2>3. \A i \in 1 .. Len(b) : b[i] = (<<Head(b)>> \o Tail(b))[i]
    BY <2>1
  <2> QED
    BY <2>1, <2>2, <2>3, SeqEqual
<1>2. Append(h, Head(b)) = h \o <<Head(b)>>
  BY <1>1, AppendIsConcat
<1>3. <<Head(b)>> \in Seq(T)
  BY <1>1
<1>4. (h \o <<Head(b)>>) \o Tail(b) = h \o (<<Head(b)>> \o Tail(b))
  BY <1>1, <1>3, ConcatAssociative
<1> QED
  BY <1>1, <1>2, <1>4

\* Steps of the scheduler leave the channel alone.
LEMMA SchedulerStep ==
  ASSUME ChanInv, Scheduler
  PROVE  ChanInv'
<1>1. SyncInv'
  BY NextSync DEF Next
<1>2. UNCHANGED <<nt, where, chanVars>>
  BY DEF Scheduler, Spawn, Fire, Start, Return, Exit, ExitCheck, InvalidThread
<1> QED
  BY <1>1, <1>2 DEF ChanInv, ChanTypes, chanVars, NoOvertaking, FifoDelivery

\* read()
LEMMA ReadStep ==
  ASSUME ChanInv, ReadBuffer \/ ReadWait \/ ReadResumed
  PROVE  ChanInv'
<1>a. SyncInv /\ ChanTypes /\ NoOvertaking /\ FifoDelivery
  BY DEF ChanInv
<1>b. /\ nt["read"] \in NotifierState /\ nt["write"] \in NotifierState
      /\ "read" \in Notifiers /\ "write" \in Notifiers
      /\ nt \in [Notifiers -> NotifierState]
  BY <1>a, TwoNotifiers
<1>c. SyncInv'
  BY NextSync DEF Next, Resumed
<1>d. where \in [Fibers -> Notifiers \cup {Null}] /\ Null # "write" /\ Sizes \subseteq Nat
  BY <1>a, SyncAssumption, ChannelAssumption DEF SyncInv, SyncTypes
<1>1. CASE ReadBuffer
  <2>1. /\ buffer # <<>> /\ buffer' = Tail(buffer) /\ handed' = Append(handed, Head(buffer))
        /\ UNCHANGED <<accepted, writing, where, open, size, writes>>
    BY <1>1 DEF ReadBuffer
  <2>2. buffer' \in Seq(Values) /\ Len(buffer') <= size /\ handed' \in Seq(Values)
    <3>1. buffer \in Seq(Values) /\ Len(buffer) <= size /\ handed \in Seq(Values) /\ size \in Nat
      BY <1>a, <1>d DEF ChanTypes
    <3>2. Tail(buffer) \in Seq(Values) /\ Len(Tail(buffer)) <= size /\ Head(buffer) \in Values
      BY <2>1, <3>1
    <3> QED
      BY <2>1, <3>1, <3>2
  <2>3. nt'["read"] = nt["read"]
    BY <1>1, <1>b DEF ReadBuffer, WakeWriter
  <2>4. NoOvertaking'
    BY <1>a, <2>1, <2>3 DEF NoOvertaking
  <2>5. handed' \o buffer' = handed \o buffer
    BY <1>a, <2>1, MoveHead DEF ChanTypes
  <2>6. FifoDelivery'
    BY <1>a, <2>1, <2>5 DEF FifoDelivery
  <2>7. ChanTypes'
    BY <1>a, <2>1, <2>2 DEF ChanTypes
  <2> QED
    BY <1>c, <2>4, <2>6, <2>7 DEF ChanInv
<1>2. CASE ReadWait
  <2>1. /\ buffer = <<>> /\ where' = [where EXCEPT ![current] = "read"]
        /\ UNCHANGED <<buffer, handed, accepted, writing, open, size, writes>>
    BY <1>2 DEF ReadWait, chanVars
  <2>2. \A f \in Fibers : where'[f] = "write" => where[f] = "write"
    BY <1>d, <2>1
  <2>3. ChanTypes'
    BY <1>a, <2>1, <2>2 DEF ChanTypes
  <2> QED
    BY <1>a, <1>c, <2>1, <2>3 DEF ChanInv, NoOvertaking, FifoDelivery
<1>3. CASE ReadResumed
  <2>1. /\ UNCHANGED <<buffer, handed, accepted, writing, open, size, writes>>
        /\ nt' = [nt EXCEPT !["read"] = AfterWait] /\ WokenWhere = "read" /\ Resuming
        /\ where' = [where EXCEPT ![Woken] = Null]
    BY <1>3 DEF ReadResumed, chanVars
  <2>2. AfterWait.pending = <<>> \/ AfterWait = nt["read"]
    BY <1>a, <2>1, AfterWaitIs
  <2>3. nt'["read"] = AfterWait
    BY <1>b, <2>1
  <2>4. \A f \in Fibers : where'[f] = "write" => where[f] = "write"
    BY <1>d, <2>1
  <2>5. ChanTypes'
    BY <1>a, <2>1, <2>4 DEF ChanTypes
  <2>6. NoOvertaking'
    BY <1>a, <2>1, <2>2, <2>3 DEF NoOvertaking
  <2> QED
    BY <1>a, <1>c, <2>1, <2>5, <2>6 DEF ChanInv, FifoDelivery
<1> QED
  BY <1>1, <1>2, <1>3

\* The three outcomes of a write().
LEMMA PutStep ==
  ASSUME ChanInv, SyncInv', NEW STATE f, f \in Fibers, NEW STATE v, v \in Values,
         NEW STATE tasks, Put(f, v, tasks), UNCHANGED <<open, size>>,
         writes' \in 0 .. MaxWrites
  PROVE  ChanInv'
<1>a. SyncInv /\ ChanTypes /\ NoOvertaking /\ FifoDelivery
  BY DEF ChanInv
<1>b. /\ nt["read"] \in NotifierState /\ nt["write"] \in NotifierState
      /\ "read" \in Notifiers /\ "write" \in Notifiers
      /\ nt \in [Notifiers -> NotifierState]
  BY <1>a, TwoNotifiers
<1>c. buffer \in Seq(Values) /\ handed \in Seq(Values) /\ accepted \in Seq(Values)
  BY <1>a DEF ChanTypes
<1>d. /\ where \in [Fibers -> Notifiers \cup {Null}] /\ writing \in [Fibers -> V0]
      /\ Null # "write" /\ Null \in V0 /\ v \in V0 /\ size \in Nat
  BY <1>a, SyncAssumption, ChannelAssumption DEF SyncInv, SyncTypes, ChanTypes, V0
<1>e. ASSUME where' = [where EXCEPT ![f] = Null], writing' = [writing EXCEPT ![f] = Null]
      PROVE  /\ writing' \in [Fibers -> V0]
             /\ \A g \in Fibers : where'[g] = "write" => writing'[g] \in Values
  BY <1>a, <1>d, <1>e DEF ChanTypes
<1>1. CASE Hand(f, v, tasks)
  <2>1. /\ nt["read"].pending # <<>> /\ buffer' = buffer
        /\ accepted' = Append(accepted, v) /\ handed' = Append(handed, v)
        /\ where' = [where EXCEPT ![f] = Null]
        /\ writing' = [writing EXCEPT ![f] = Null]
    BY <1>1 DEF Hand, HasWaiters, WriteOver
  <2>2. buffer = <<>>
    BY <1>a, <2>1 DEF NoOvertaking
  <2>4. accepted' \in Seq(Values) /\ handed' \in Seq(Values)
    BY <1>c, <2>1, SeqTypes
  <2>5. ChanTypes'
    BY <1>a, <1>e, <2>1, <2>4 DEF ChanTypes
  <2>6. accepted = handed /\ handed' \o <<>> = handed'
    BY <1>a, <1>c, <2>2, <2>4 DEF FifoDelivery
  <2>7. FifoDelivery'
    BY <2>1, <2>2, <2>6 DEF FifoDelivery
  <2> QED
    BY <2>1, <2>2, <2>5, <2>7 DEF ChanInv, NoOvertaking
<1>2. CASE Store(f, v, tasks)
  <2>1. /\ nt["read"].pending = <<>> /\ nt' = nt /\ buffer' = Append(buffer, v)
        /\ accepted' = Append(accepted, v) /\ handed' = handed /\ Len(buffer) < size
        /\ where' = [where EXCEPT ![f] = Null]
        /\ writing' = [writing EXCEPT ![f] = Null]
    BY <1>2 DEF Store, HasWaiters, HasSpace, WriteOver
  <2>2. accepted' \in Seq(Values) /\ buffer' \in Seq(Values) /\ Len(buffer') <= size
    BY <1>c, <1>d, <2>1
  <2>3. ChanTypes'
    BY <1>a, <1>e, <2>1, <2>2 DEF ChanTypes
  <2>4. Append(handed \o buffer, v) = handed \o Append(buffer, v)
    <3>2. handed \o buffer \in Seq(Values) /\ <<v>> \in Seq(Values)
      BY <1>c, ConcatProperties
    <3>3. Append(handed \o buffer, v) = (handed \o buffer) \o <<v>>
      BY <3>2, AppendIsConcat
    <3>4. Append(buffer, v) = buffer \o <<v>>
      BY <1>c, AppendIsConcat
    <3>5. (handed \o buffer) \o <<v>> = handed \o (buffer \o <<v>>)
      BY <1>c, <3>2, ConcatAssociative
    <3> QED
      BY <3>3, <3>4, <3>5
  <2>5. FifoDelivery'
    BY <1>a, <2>1, <2>4 DEF FifoDelivery
  <2> QED
    BY <2>1, <2>3, <2>5 DEF ChanInv, NoOvertaking
<1>3. CASE WriteWait(f, v, tasks)
  <2>1. /\ nt["read"].pending = <<>>
        /\ nt' = [nt EXCEPT !["write"].pending = Append(@, f)]
        /\ UNCHANGED <<buffer, accepted, handed>>
        /\ where' = [where EXCEPT ![f] = "write"]
        /\ writing' = [writing EXCEPT ![f] = v]
    BY <1>3 DEF WriteWait, HasWaiters
  <2>2. nt'["read"] = nt["read"]
    BY <1>b, <2>1
  <2>3. /\ writing' \in [Fibers -> V0]
        /\ \A g \in Fibers : where'[g] = "write" => writing'[g] \in Values
    BY <1>a, <1>d, <2>1 DEF ChanTypes
  <2>4. ChanTypes'
    BY <1>a, <2>1, <2>3 DEF ChanTypes
  <2> QED
    BY <1>a, <2>1, <2>2, <2>4 DEF ChanInv, NoOvertaking, FifoDelivery
<1> QED
  BY <1>1, <1>2, <1>3 DEF Put

\* write(), when it starts over, and when it fails.
LEMMA WriteStep ==
  ASSUME ChanInv, (\E v \in Values : Write(v)) \/ WriteAgain \/ WriteFails
  PROVE  ChanInv'
<1>a. SyncInv /\ ChanTypes /\ NoOvertaking /\ FifoDelivery
  BY DEF ChanInv
<1>b. /\ "read" \in Notifiers /\ "write" \in Notifiers
      /\ nt \in [Notifiers -> NotifierState]
  BY <1>a, TwoNotifiers
<1>c. SyncInv'
  BY NextSync DEF Next, Resumed
<1>d. /\ where \in [Fibers -> Notifiers \cup {Null}] /\ writing \in [Fibers -> V0]
      /\ Null # "write" /\ Null \in V0 /\ writes \in 0 .. MaxWrites /\ MaxWrites \in Nat
  BY <1>a, SyncAssumption, ChannelAssumption DEF SyncInv, SyncTypes, ChanTypes, V0
<1>1. ASSUME NEW v \in Values, Write(v) PROVE ChanInv'
  <2>1. UNCHANGED <<open, size>> /\ writes' \in 0 .. MaxWrites
    BY <1>1, <1>d DEF Write
  <2>2. current \in Fibers /\ Put(current, v, ready)
    BY <1>1, <1>a, WriteIs
  <2> QED
    BY <1>c, <2>1, <2>2, PutStep
<1>2. CASE WriteAgain
  <2>1. /\ UNCHANGED <<open, size>> /\ writes' \in 0 .. MaxWrites
        /\ Resuming /\ where[Woken] = "write" /\ Put(Woken, writing[Woken], Tail(ready))
    BY <1>2, <1>d DEF WriteAgain, WokenWhere
  <2>2. Woken \in Fibers
    BY <1>a, <2>1, WriteAgainIs
  <2>3. writing[Woken] \in Values
    BY <1>a, <2>1, <2>2 DEF ChanTypes
  <2> QED
    BY <1>c, <2>1, <2>2, <2>3, PutStep
<1>3. CASE WriteFails
  <2>1. /\ UNCHANGED <<buffer, handed, accepted, open, size, writes>>
        /\ where' = [where EXCEPT ![Woken] = Null]
        /\ writing' = [writing EXCEPT ![Woken] = Null]
        /\ nt' = [nt EXCEPT !["write"] = AfterWait]
    BY <1>3 DEF WriteFails, WriteOver
  <2>2. nt'["read"] = nt["read"]
    BY <1>b, <2>1
  <2>3. /\ writing' \in [Fibers -> V0]
        /\ \A g \in Fibers : where'[g] = "write" => writing'[g] \in Values
    BY <1>a, <1>d, <2>1 DEF ChanTypes
  <2>4. ChanTypes'
    BY <1>a, <2>1, <2>3 DEF ChanTypes
  <2> QED
    BY <1>a, <1>c, <2>1, <2>2, <2>4 DEF ChanInv, NoOvertaking, FifoDelivery
<1> QED
  BY <1>1, <1>2, <1>3

\* close()
LEMMA CloseStep ==
  ASSUME ChanInv, Close
  PROVE  ChanInv'
<1>1. SyncInv'
  BY NextSync DEF Next
<1>2. nt'["read"].pending = <<>>
  <2>1. nt["read"] \in NotifierState /\ "read" \in Notifiers /\ "write" \in Notifiers
        /\ nt \in [Notifiers -> NotifierState]
    BY TwoNotifiers DEF ChanInv
  <2>2. nt'["read"] = Closed(nt["read"], Null)
    BY <2>1 DEF Close
  <2>3. Closed(nt["read"], Null).pending = <<>>
    BY <2>1 DEF NotifierState, Closed
  <2> QED
    BY <2>2, <2>3
<1>3. open' \in BOOLEAN /\ UNCHANGED <<buffer, handed, accepted, writing, where, size, writes>>
  BY DEF Close
<1> QED
  BY <1>1, <1>2, <1>3 DEF ChanInv, ChanTypes, NoOvertaking, FifoDelivery

\* Every step keeps the invariant.
LEMMA NextChan == ChanInv /\ [Next]_vars => ChanInv'
<1> SUFFICES ASSUME ChanInv, [Next]_vars PROVE ChanInv'
  OBVIOUS
<1>1. CASE Scheduler
  BY <1>1, SchedulerStep
<1>2. CASE ReadBuffer \/ ReadWait \/ ReadResumed
  BY <1>2, ReadStep
<1>3. CASE (\E v \in Values : Write(v)) \/ WriteAgain \/ WriteFails
  BY <1>3, WriteStep
<1>4. CASE Close
  BY <1>4, CloseStep
<1>5. CASE UNCHANGED vars
  <2>1. SyncInv'
    BY NextSync
  <2> QED
    BY <1>5, <2>1 DEF vars, syncVars, chanVars, ChanInv, ChanTypes, NoOvertaking, FifoDelivery
<1> QED
  BY <1>1, <1>2, <1>3, <1>4, <1>5 DEF Next, Resumed

\* It holds initially.
LEMMA InitChan == Init => ChanInv
<1> SUFFICES ASSUME Init PROVE ChanInv
  OBVIOUS
<1>1. SyncInv
  BY InitSync DEF Init
<1>2. nt["read"].pending = <<>>
  BY ChannelAssumption DEF Init, SyncInit, NewNotifier
<1>3. open \in BOOLEAN
  BY Zenon DEF Init
<1>4. size \in Nat /\ size \in Sizes /\ buffer = <<>> /\ MaxWrites \in Nat /\ Null # "write"
  BY SyncAssumption, ChannelAssumption DEF Init
<1>5. ChanTypes
  BY <1>3, <1>4 DEF Init, SyncInit, ChanTypes, V0
<1> QED
  BY <1>1, <1>2, <1>5 DEF Init, ChanInv, NoOvertaking, FifoDelivery

\* ChanInv is invariant.
LEMMA ChanInvHolds == Spec => []ChanInv
BY InitChan, NextChan, PTL DEF Spec

-----------------------------------------------------------------------------
\* The channel, the task queue and the fibers keep their types; the buffer
\* never holds more than its size (channel.ch:55-81).
THEOREM ChannelTypes == Spec => []TypeOK
<1>1. ChanInv => TypeOK
  BY SyncInvMeans DEF ChanInv, ChanTypes, TypeOK, V0
<1> QED
  BY <1>1, ChanInvHolds, PTL

\* Every value goes through the channel once and in order, for every size of
\* the buffer and any number of fibers (channel.ch:41-87).
THEOREM ChannelIsFifo == Spec => []FifoDelivery
<1>1. ChanInv => FifoDelivery
  BY DEF ChanInv
<1> QED
  BY <1>1, ChanInvHolds, PTL

\* read(), write() and close() wake every fiber that waits in the channel
\* once, and nobody else (channel.ch:41-88).
THEOREM ChannelWakesOnce == Spec => []WakeupsExact
<1>1. ChanInv => WakeupsExact
  BY SyncInvMeans DEF ChanInv
<1> QED
  BY <1>1, ChanInvHolds, PTL

-----------------------------------------------------------------------------
(* close()                                                                 *)

\* Only close() gives the writers an error, and nobody waits after it.
OpenInv ==
  /\ open => nt["write"].error = Null
  /\ ~open => nt["read"].pending = <<>> /\ nt["write"].pending = <<>>

\* Every step keeps it.
LEMMA NextOpen == ChanInv /\ OpenInv /\ [Next]_vars => OpenInv'
<1> SUFFICES ASSUME ChanInv, OpenInv, [Next]_vars PROVE OpenInv'
  OBVIOUS
<1>b. /\ nt["read"] \in NotifierState /\ nt["write"] \in NotifierState
      /\ "read" \in Notifiers /\ "write" \in Notifiers
      /\ nt \in [Notifiers -> NotifierState] /\ SyncInv
  BY TwoNotifiers DEF ChanInv
<1>n. \A N \in NotifierState :
        /\ Notified(N).error = N.error
        /\ [N EXCEPT !.pending = <<>>].error = N.error
        /\ Closed(N, Null).pending = <<>>
        /\ \A f : [N EXCEPT !.pending = Append(@, f)].error = N.error
  BY DEF NotifierState, Notified, Closed
<1>1. CASE Scheduler \/ UNCHANGED vars
  <2>1. UNCHANGED <<nt, open>>
    BY <1>1 DEF Scheduler, Spawn, Fire, Start, Return, Exit, ExitCheck, InvalidThread,
                chanVars, vars, syncVars
  <2> QED
    BY <2>1 DEF OpenInv
<1>2. CASE ReadBuffer
  <2>1. CASE HasWaiters("write")
    <3>1. open' = open /\ nt'["write"] = Notified(nt["write"])
      BY <1>2, <1>b, <2>1 DEF ReadBuffer, WakeWriter
    <3> QED
      BY <1>b, <1>n, <2>1, <3>1 DEF OpenInv, HasWaiters
  <2>2. CASE ~HasWaiters("write")
    BY <1>2, <2>2 DEF ReadBuffer, WakeWriter, OpenInv
  <2> QED
    BY <2>1, <2>2
<1>3. CASE ReadWait
  <2>1. open /\ open' = open
        /\ nt'["write"] = IF HasWaiters("write") THEN Notified(nt["write"]) ELSE nt["write"]
    BY <1>3, <1>b DEF ReadWait, chanVars
  <2> QED
    BY <1>b, <1>n, <2>1 DEF OpenInv
<1>4. CASE ReadResumed \/ WriteFails
  <2>1. /\ open' = open /\ Resuming /\ WokenWhere \in Notifiers
        /\ nt' = [nt EXCEPT ![WokenWhere] = AfterWait]
    BY <1>4, <1>b DEF ReadResumed, WriteFails, chanVars
  <2>2. AfterWait.pending = <<>> \/ AfterWait = nt[WokenWhere]
    BY <1>b, <2>1, AfterWaitIs
  <2>3. AfterWait.error = nt[WokenWhere].error
    BY <1>b, <1>n, <2>1 DEF AfterWait
  <2>4. \A n \in Notifiers : /\ nt'[n].pending = <<>> \/ nt'[n].pending = nt[n].pending
                             /\ nt'[n].error = nt[n].error
    BY <1>b, <2>1, <2>2, <2>3
  <2> QED
    BY <1>b, <2>1, <2>4 DEF OpenInv
<1>5. ASSUME NEW STATE f, NEW STATE v, NEW STATE tasks, Put(f, v, tasks), open, open' = open
      PROVE  OpenInv'
  <2>1. nt'["write"].error = nt["write"].error
    <3>1. CASE WriteWait(f, v, tasks)
      <4>1. nt'["write"] = [nt["write"] EXCEPT !.pending = Append(@, f)]
        BY <1>b, <3>1 DEF WriteWait
      <4> QED
        BY <1>b, <1>n, <4>1
    <3>2. CASE Hand(f, v, tasks) \/ Store(f, v, tasks)
      BY <1>b, <3>2 DEF Hand, Store
    <3> QED
      BY <1>5, <3>1, <3>2 DEF Put
  <2> QED
    BY <1>5, <2>1 DEF OpenInv
<1>6. CASE (\E v \in Values : Write(v)) \/ WriteAgain
  BY <1>5, <1>6 DEF Write, WriteAgain
<1>7. CASE Close
  <2>1. /\ ~open' /\ nt'["read"] = Closed(nt["read"], Null)
        /\ nt'["write"] = Closed([nt["write"] EXCEPT !.error = Cancelled], Null)
    BY <1>7, <1>b DEF Close
  <2>2. nt'["write"].pending = <<>>
    BY <1>b, <2>1 DEF Closed, NotifierState
  <2> QED
    BY <1>b, <1>n, <2>1, <2>2 DEF OpenInv
<1> QED
  BY <1>1, <1>2, <1>3, <1>4, <1>6, <1>7 DEF Next, Resumed

\* It is invariant.
LEMMA OpenInvHolds == Spec => []OpenInv
<1>1. Init => OpenInv
  BY ChannelAssumption DEF Init, SyncInit, NewNotifier, OpenInv
<1> QED
  BY <1>1, NextOpen, ChanInvHolds, PTL DEF Spec

\* Every fiber that waits in a channel when it is closed is released: it has
\* a task, and no fiber waits in it later (channel.ch:83-88).
THEOREM ClosingReleasesAll == Spec => []CloseReleases
<1>1. ChanInv /\ OpenInv => CloseReleases
  <2> SUFFICES ASSUME ChanInv, OpenInv, ~open, ~stalled, NEW f \in paused
               PROVE  Tasked(ready, f)
    BY DEF CloseReleases, Tasked, IsResume
  <2>1. Placed(ready, Lists(nt), paused)
    BY DEF ChanInv, SyncInv, Wake
  <2>2. \A n \in Notifiers : Lists(nt)[n] = <<>>
    BY ChannelAssumption, TwoNotifiers DEF OpenInv, ChanInv
  <2>3. ~Waiting(Lists(nt), f)
    BY <2>2 DEF Waiting
  <2> QED
    BY <2>1, <2>3 DEF Placed
<1> QED
  BY <1>1, ChanInvHolds, OpenInvHolds, PTL

-----------------------------------------------------------------------------
(* Writers on their way                                                    *)

\* The tasks of r that resume a fiber inside the wait() of write().
WritersIn(r, w) == {i \in DOMAIN r : r[i].kind = "resume" /\ w[r[i].id] = "write"}

\* They can be counted.
LEMMA WritersFinite ==
  ASSUME NEW r \in Seq(SyncTask), NEW w
  PROVE  IsFiniteSet(WritersIn(r, w)) /\ Cardinality(WritersIn(r, w)) \in Nat
<1>1. Len(r) \in Nat /\ DOMAIN r = 1 .. Len(r)
  OBVIOUS
<1>2. IsFiniteSet(DOMAIN r)
  BY <1>1, FS_Interval
<1>3. IsFiniteSet(WritersIn(r, w))
  BY <1>2, FS_Subset DEF WritersIn
<1> QED
  BY <1>3, FS_CardinalityType

\* A new task counts if it resumes a writer.
LEMMA WritersPush ==
  ASSUME NEW r \in Seq(SyncTask), NEW w, NEW t \in SyncTask
  PROVE  Cardinality(WritersIn(Append(r, t), w))
           = Cardinality(WritersIn(r, w))
             + IF t.kind = "resume" /\ w[t.id] = "write" THEN 1 ELSE 0
<1> DEFINE q == Append(r, t)  k == Len(r) + 1
<1>1. /\ DOMAIN r = 1 .. Len(r) /\ Len(r) \in Nat /\ DOMAIN q = 1 .. k
      /\ \A i \in 1 .. Len(r) : q[i] = r[i]
      /\ q[k] = t
  BY AppendAt
<1> HIDE DEF q
<1>2. /\ k \notin DOMAIN r /\ k \in DOMAIN q /\ q[k] = t
      /\ \A i : i \in DOMAIN q <=> i \in DOMAIN r \/ i = k
      /\ \A i \in DOMAIN r : q[i] = r[i]
  BY <1>1
<1> HIDE DEF k
<1>3. k \notin WritersIn(r, w)
  BY <1>2 DEF WritersIn
<1>4. IsFiniteSet(WritersIn(r, w)) /\ Cardinality(WritersIn(r, w)) \in Nat
  BY WritersFinite
<1>5. CASE t.kind = "resume" /\ w[t.id] = "write"
  <2>1. WritersIn(q, w) = WritersIn(r, w) \cup {k}
    BY <1>2, <1>5 DEF WritersIn
  <2>2. Cardinality(WritersIn(r, w) \cup {k}) = Cardinality(WritersIn(r, w)) + 1
    BY <1>3, <1>4, FS_AddElement
  <2> QED
    BY <1>5, <2>1, <2>2 DEF q
<1>6. CASE ~(t.kind = "resume" /\ w[t.id] = "write")
  <2>1. WritersIn(q, w) = WritersIn(r, w)
    BY <1>2, <1>6 DEF WritersIn
  <2> QED
    BY <1>4, <1>6, <2>1 DEF q
<1> QED
  BY <1>5, <1>6

\* The first task counts no longer when it is taken.
LEMMA WritersPop ==
  ASSUME NEW r \in Seq(SyncTask), r # <<>>, NEW w
  PROVE  Cardinality(WritersIn(r, w))
           = Cardinality(WritersIn(Tail(r), w))
             + IF Head(r).kind = "resume" /\ w[Head(r).id] = "write" THEN 1 ELSE 0
<1> DEFINE q == Tail(r)  S == WritersIn(r, w)  T == WritersIn(q, w)
           b == [i \in T |-> i + 1]
<1>1. /\ q \in Seq(SyncTask) /\ DOMAIN r = 1 .. Len(r) /\ Len(r) \in Nat \ {0}
      /\ DOMAIN q = 1 .. Len(r) - 1 /\ \A i \in 1 .. Len(r) - 1 : q[i] = r[i + 1]
      /\ Head(r) = r[1]
  BY TailAt
<1> HIDE DEF q
<1>2. /\ IsFiniteSet(T) /\ Cardinality(T) \in Nat
      /\ IsFiniteSet(S) /\ Cardinality(S) \in Nat
  BY <1>1, WritersFinite
<1>3. /\ 1 \in S <=> Head(r).kind = "resume" /\ w[Head(r).id] = "write"
      /\ \A i \in T : i \in Nat /\ i + 1 \in S \ {1}
      /\ \A i \in S \ {1} : i \in Nat /\ i - 1 \in T
  BY <1>1 DEF WritersIn
<1> HIDE DEF S, T
<1>4. b \in Bijection(T, S \ {1})
  <2>1. b \in [T -> S \ {1}]
    BY <1>3
  <2>2. \A i, j \in T : b[i] = b[j] => i = j
    BY <1>3
  <2>3. \A i \in S \ {1} : \E j \in T : b[j] = i
    <3> SUFFICES ASSUME NEW i \in S \ {1} PROVE i - 1 \in T /\ b[i - 1] = i
      OBVIOUS
    <3> QED
      BY <1>3
  <2>4. DOMAIN b = T
    OBVIOUS
  <2> HIDE DEF b
  <2> QED
    BY <2>1, <2>2, <2>3, <2>4, Zenon DEF Bijection, Injection, Surjection, IsInjective
<1>5. Cardinality(S \ {1}) = Cardinality(T)
  BY <1>2, <1>4, FS_Bijection DEF ExistsBijection
<1>6. Cardinality(S \ {1}) = IF 1 \in S THEN Cardinality(S) - 1 ELSE Cardinality(S)
  BY <1>2, FS_RemoveElement
<1>7. Cardinality(S) = Cardinality(T) + IF 1 \in S THEN 1 ELSE 0
  BY <1>2, <1>5, <1>6
<1> QED
  BY <1>3, <1>7 DEF S, T, q

\* Where fibers without a task are does not count.
LEMMA WritersMove ==
  ASSUME NEW r, NEW w, NEW u,
         \A i \in DOMAIN r : r[i].kind = "resume" =>
           (w[r[i].id] = "write" <=> u[r[i].id] = "write")
  PROVE  WritersIn(r, w) = WritersIn(r, u)
BY DEF WritersIn

\* Every waiting reader and every free slot has a writer on its way, as long
\* as writers wait.
Enough ==
  ~stalled /\ nt["write"].pending # <<>> =>
    Cardinality(WritersIn(ready, where)) >= Len(nt["read"].pending) + (size - Len(buffer))

\* The numbers.
LEMMA Counts ==
  ASSUME ChanInv
  PROVE  /\ Len(nt["read"].pending) \in Nat /\ Len(buffer) \in Nat /\ size \in Nat
         /\ Len(buffer) <= size
         /\ Cardinality(WritersIn(ready, where)) \in Nat
<1>1. Len(nt["read"].pending) \in Nat /\ ready \in Seq(SyncTask)
  BY TwoNotifiers DEF ChanInv
<1>2. size \in Nat /\ Len(buffer) <= size /\ Len(buffer) \in Nat
  BY ChannelAssumption DEF ChanInv, ChanTypes
<1>3. Cardinality(WritersIn(ready, where)) \in Nat
  BY <1>1, WritersFinite
<1> QED
  BY <1>1, <1>2, <1>3

\* notify_one() of a writer puts one more on its way.
LEMMA WakeWriterCounts ==
  ASSUME ChanInv, ~stalled, HasWaiters("write")
  PROVE  Cardinality(WritersIn(Append(ready, Resume(Head(nt["write"].pending), Null)), where))
           = Cardinality(WritersIn(ready, where)) + 1
<1> DEFINE f == Head(nt["write"].pending)  t == Resume(f, Null)
<1>1. /\ nt["write"].pending \in Seq(Fibers) /\ nt["write"].pending # <<>>
      /\ ready \in Seq(SyncTask) /\ "write" \in Notifiers
      /\ Lists(nt)["write"] = nt["write"].pending
  BY TwoNotifiers DEF ChanInv, HasWaiters
<1>2. f \in Fibers /\ 1 \in DOMAIN nt["write"].pending /\ f = nt["write"].pending[1]
  BY <1>1, TailAt
<1>3. Located(Lists(nt), where)
  BY DEF ChanInv, SyncInv, Wake
<1>4. where[f] = "write"
  BY <1>1, <1>2, <1>3 DEF Located
<1> HIDE DEF f
<1>5. t \in SyncTask /\ t.kind = "resume" /\ t.id = f
  BY <1>2, TaskTypes DEF V0
<1> HIDE DEF t
<1>6. Cardinality(WritersIn(Append(ready, t), where)) = Cardinality(WritersIn(ready, where)) + 1
  BY <1>1, <1>4, <1>5, WritersPush
<1> QED
  BY <1>6 DEF t, f

\* Steps of the scheduler.
LEMMA SchedulerEnough ==
  ASSUME ChanInv, Enough, Scheduler
  PROVE  Enough'
<1>1. UNCHANGED <<nt, where, size, buffer>> /\ (~stalled' => ~stalled)
  <2>1. UNCHANGED <<nt, where, size, buffer>>
    BY DEF Scheduler, Spawn, Fire, Start, Return, Exit, ExitCheck, InvalidThread, chanVars
  <2>2. stalled' = stalled \/ stalled' = TRUE
    BY DEF Scheduler, Spawn, Fire, Start, Return, Exit, ExitCheck, InvalidThread, schedVars
  <2> QED
    BY <2>1, <2>2
<1>2. ready \in Seq(SyncTask)
  BY TwoNotifiers DEF ChanInv
<1>3. ~stalled' => Cardinality(WritersIn(ready', where)) = Cardinality(WritersIn(ready, where))
  <2>1. CASE Spawn \/ Return \/ InvalidThread \/ Exit \/ ExitCheck
    BY <2>1 DEF Spawn, Return, InvalidThread, Exit, ExitCheck
  <2>2. CASE Fire
    <3>1. StartTask \in SyncTask /\ StartTask.kind = "start"
      BY DEF StartTask, SyncTask, V0, Idle
    <3>2. ready' = Append(ready, StartTask) /\ Cardinality(WritersIn(ready, where)) \in Nat
      BY <2>2, Counts DEF Fire
    <3> QED
      BY <1>2, <3>1, <3>2, WritersPush
  <2>3. CASE Start
    <3>1. ready # <<>> /\ Head(ready).kind = "start" /\ ready' = Tail(ready)
      BY <2>3 DEF Start
    <3>2. Tail(ready) \in Seq(SyncTask)
      BY <1>2, <3>1
    <3>3. Cardinality(WritersIn(Tail(ready), where)) \in Nat
      BY <3>2, WritersFinite
    <3> QED
      BY <1>2, <3>1, <3>3, WritersPop
  <2> QED
    BY <2>1, <2>2, <2>3 DEF Scheduler
<1> QED
  BY <1>1, <1>3 DEF Enough

\* The tasks that are left when a fiber f comes out of wait().
LEMMA PopCounts ==
  ASSUME ChanInv, Resuming, ~stalled
  PROVE  LET u == [where EXCEPT ![Woken] = Null]
         IN  /\ Cardinality(WritersIn(Tail(ready), u)) \in Nat
             /\ Cardinality(WritersIn(ready, where))
                  = Cardinality(WritersIn(Tail(ready), u))
                    + IF WokenWhere = "write" THEN 1 ELSE 0
<1> DEFINE u == [where EXCEPT ![Woken] = Null]  q == Tail(ready)
<1>1. /\ ready # <<>> /\ Head(ready).kind = "resume" /\ Woken = Head(ready).id
      /\ Woken \in Fibers
  BY AfterWaitIs DEF ChanInv
<1>2. ready \in Seq(SyncTask) /\ q \in Seq(SyncTask)
  BY <1>1, TwoNotifiers, WriteAgainIs DEF ChanInv
<1>3. Wake(q, Lists(nt), paused \ {Woken}, u)
  BY WriteAgainIs DEF ChanInv
<1>4. \A i \in DOMAIN q : q[i].kind = "resume" => q[i].id \in Fibers /\ q[i].id # Woken
  BY <1>3 DEF Wake, Placed, IsResume
<1>5. \A g \in Fibers : g # Woken => u[g] = where[g]
  BY <1>1 DEF ChanInv, SyncInv, SyncTypes
<1> HIDE DEF u, q
<1>6. WritersIn(q, where) = WritersIn(q, u)
  BY <1>4, <1>5, WritersMove
<1>7. Cardinality(WritersIn(q, u)) \in Nat
  BY <1>2, WritersFinite
<1>8. Cardinality(WritersIn(ready, where)) = Cardinality(WritersIn(q, where))
             + IF Head(ready).kind = "resume" /\ where[Head(ready).id] = "write" THEN 1 ELSE 0
  BY <1>1, <1>2, WritersPop DEF q
<1> QED
  BY <1>1, <1>6, <1>7, <1>8 DEF q, u, WokenWhere

\* read()
LEMMA ReadEnough ==
  ASSUME ChanInv, OpenInv, Enough, ReadBuffer \/ ReadWait \/ ReadResumed
  PROVE  Enough'
<1>b. /\ nt["read"] \in NotifierState /\ nt["write"] \in NotifierState
      /\ "read" \in Notifiers /\ "write" \in Notifiers
      /\ nt \in [Notifiers -> NotifierState] /\ SyncInv
      /\ nt["read"].pending \in Seq(Fibers) /\ ready \in Seq(SyncTask)
  BY TwoNotifiers DEF ChanInv
<1>c. /\ Len(nt["read"].pending) \in Nat /\ Len(buffer) \in Nat /\ size \in Nat
      /\ Len(buffer) <= size /\ buffer \in Seq(Values)
      /\ Cardinality(WritersIn(ready, where)) \in Nat
  BY Counts DEF ChanInv, ChanTypes
<1> DEFINE c == Cardinality(WritersIn(ready, where))
           P == Len(nt["read"].pending)
           F == size - Len(buffer)
<1>1. CASE ReadBuffer
  <2>1. /\ UNCHANGED <<where, stalled, size>> /\ buffer # <<>> /\ buffer' = Tail(buffer)
    BY <1>1 DEF ReadBuffer, schedVars
  <2>2. Len(buffer') = Len(buffer) - 1
    BY <1>c, <2>1
  <2>3. CASE HasWaiters("write") /\ ~stalled
    <3>1. /\ nt'["read"] = nt["read"] /\ nt["write"].pending # <<>>
          /\ ready' = Append(ready, Resume(Head(nt["write"].pending), Null))
      BY <1>1, <1>b, <2>3 DEF ReadBuffer, WakeWriter, HasWaiters
    <3>2. Cardinality(WritersIn(ready', where)) = c + 1
      BY <2>3, <3>1, WakeWriterCounts
    <3>3. c >= P + F
      BY <2>3, <3>1 DEF Enough
    <3> HIDE DEF c
    <3>4. Cardinality(WritersIn(ready', where')) >= Len(nt'["read"].pending) + (size' - Len(buffer'))
      BY <1>c, <2>1, <2>2, <3>1, <3>2, <3>3 DEF c
    <3> QED
      BY <3>4 DEF Enough
  <2>4. CASE ~HasWaiters("write")
    BY <1>1, <2>4 DEF ReadBuffer, WakeWriter, HasWaiters, Enough
  <2> QED
    BY <2>1, <2>3, <2>4 DEF Enough
<1>2. CASE ReadWait
  <2>1. /\ UNCHANGED <<stalled, size, buffer>>
        /\ where' = [where EXCEPT ![current] = "read"]
        /\ nt'["read"] = [nt["read"] EXCEPT !.pending = Append(@, current)]
        /\ current # Idle
    BY <1>2, <1>b DEF ReadWait, schedVars, chanVars
  <2>2. current \in Fibers /\ current \notin paused
    BY <1>b, <2>1 DEF SyncInv, SyncTypes, FibersApart
  <2>3. Len(nt'["read"].pending) = P + 1
    <3>1. nt'["read"].pending = Append(nt["read"].pending, current)
      BY <1>b, <2>1, <2>2, NotifierOps
    <3> QED
      BY <1>b, <2>2, <3>1
  <2>4. CASE HasWaiters("write") /\ ~stalled
    <3>1. /\ nt["write"].pending # <<>>
          /\ ready' = Append(ready, Resume(Head(nt["write"].pending), Null))
      BY <1>2, <2>4 DEF ReadWait, HasWaiters
    <3>2. Cardinality(WritersIn(ready', where)) = c + 1
      BY <2>4, <3>1, WakeWriterCounts
    <3>3. Wake(ready', Lists(nt'), paused', where') /\ paused' = paused \cup {current}
      <4>1. SyncInv'
        BY <1>b, <1>2, ReadWaitSync
      <4> QED
        BY <1>2, <2>1, <2>4, <4>1 DEF SyncInv, ReadWait
    <3>4. \A i \in DOMAIN ready' : ready'[i].kind = "resume" =>
             ready'[i].id \in Fibers /\ ready'[i].id # current
      <4>1. \A i \in DOMAIN ready' : ready'[i].kind = "resume" => ready'[i].id \in paused
        <5>1. Wake(Append(ready, Resume(Head(nt["write"].pending), Null)),
                   Lists([nt EXCEPT !["write"] = Notified(nt["write"])]), paused, where)
          BY <1>b, <2>4, WakeWriterSync
        <5> QED
          BY <3>1, <5>1 DEF Wake, Placed, IsResume
      <4> QED
        BY <2>2, <4>1, <1>b DEF SyncInv, SyncTypes
    <3>5. \A g \in Fibers : g # current => where'[g] = where[g]
      BY <1>b, <2>1 DEF SyncInv, SyncTypes
    <3>6. WritersIn(ready', where') = WritersIn(ready', where)
      BY <3>4, <3>5, WritersMove
    <3>7. c >= P + F
      BY <2>4, <3>1 DEF Enough
    <3> HIDE DEF c
    <3>8. Cardinality(WritersIn(ready', where')) >= Len(nt'["read"].pending) + (size' - Len(buffer'))
      BY <1>c, <2>1, <2>3, <3>2, <3>6, <3>7 DEF c
    <3> QED
      BY <3>8 DEF Enough
  <2>5. CASE ~HasWaiters("write")
    <3>1. nt'["write"] = nt["write"]
      BY <1>2, <1>b, <2>5 DEF ReadWait
    <3> QED
      BY <2>5, <3>1 DEF HasWaiters, Enough
  <2> QED
    BY <2>1, <2>4, <2>5 DEF Enough
<1>3. CASE ReadResumed
  <2>1. /\ UNCHANGED <<stalled, size, buffer>> /\ Resuming /\ WokenWhere = "read"
        /\ ready' = Tail(ready) /\ where' = [where EXCEPT ![Woken] = Null]
        /\ nt' = [nt EXCEPT !["read"] = AfterWait]
    BY <1>3 DEF ReadResumed, schedVars, chanVars
  <2> SUFFICES ASSUME ~stalled PROVE Enough'
    BY <2>1 DEF Enough
  <2>2. nt' = nt
    BY <1>b, <2>1, AfterWaitIs
  <2>3. c = Cardinality(WritersIn(ready', where'))
    BY <2>1, PopCounts
  <2> QED
    BY <2>1, <2>2, <2>3 DEF Enough
<1> QED
  BY <1>1, <1>2, <1>3

\* write() of the fiber f: at most one writer on its way is f itself.
LEMMA PutEnough ==
  ASSUME ChanInv, NEW STATE f, f \in Fibers, NEW STATE v, v \in V0, NEW STATE tasks,
         tasks \in Seq(SyncTask), Put(f, v, tasks), UNCHANGED <<size, stalled>>,
         ~stalled => Wake(tasks, Lists(nt), paused \ {f}, [where EXCEPT ![f] = Null]),
         ~stalled /\ nt["write"].pending # <<>> =>
            Cardinality(WritersIn(tasks, [where EXCEPT ![f] = Null])) + 1
              >= Len(nt["read"].pending) + (size - Len(buffer))
  PROVE  Enough'
<1> SUFFICES ASSUME ~stalled PROVE Enough'
  BY DEF Enough
<1> DEFINE u == [where EXCEPT ![f] = Null]  c == Cardinality(WritersIn(tasks, u))
           P == Len(nt["read"].pending)  F == size - Len(buffer)
<1>b. /\ nt["read"] \in NotifierState /\ nt["write"] \in NotifierState
      /\ "read" \in Notifiers /\ "write" \in Notifiers
      /\ nt \in [Notifiers -> NotifierState]
      /\ nt["read"].pending \in Seq(Fibers)
      /\ Lists(nt)["read"] = nt["read"].pending
  BY TwoNotifiers DEF ChanInv
<1>c. /\ P \in Nat /\ Len(buffer) \in Nat /\ size \in Nat /\ Len(buffer) <= size
      /\ buffer \in Seq(Values) /\ c \in Nat
  BY Counts, WritersFinite DEF ChanInv, ChanTypes
<1>d. nt["write"].pending # <<>> => c + 1 >= P + F
  OBVIOUS
<1> HIDE DEF c
<1>1. CASE Hand(f, v, tasks)
  <2> DEFINE h == Head(nt["read"].pending)  t == Resume(h, v)
  <2>1. /\ nt["read"].pending # <<>> /\ ready' = Append(tasks, t)
        /\ nt' = [nt EXCEPT !["read"] = Notified(nt["read"])]
        /\ where' = u /\ buffer' = buffer
    BY <1>1 DEF Hand, HasWaiters, WriteOver
  <2>2. /\ nt'["write"] = nt["write"] /\ nt'["read"].pending = Tail(nt["read"].pending)
    BY <1>b, <2>1, NotifierOps
  <2>3. Len(nt'["read"].pending) = P - 1
    <3>1. nt["read"].pending \in Seq(Fibers) /\ nt["read"].pending # <<>>
      BY <1>b, <2>1
    <3>2. Len(Tail(nt["read"].pending)) = Len(nt["read"].pending) - 1
      BY <3>1
    <3> QED
      BY <2>2, <3>2
  <2>4. h \in Fibers /\ 1 \in DOMAIN nt["read"].pending /\ h = nt["read"].pending[1]
    BY <1>b, <2>1, TailAt
  <2>5. u[h] = "read"
    <3>1. Located(Lists(nt), u)
      BY DEF Wake
    <3> HIDE DEF u
    <3> QED
      BY <1>b, <2>4, <3>1 DEF Located
  <2> HIDE DEF h
  <2>6. t \in SyncTask /\ t.kind = "resume" /\ t.id = h
    BY <2>4, TaskTypes
  <2> HIDE DEF t, u
  <2>7. Cardinality(WritersIn(Append(tasks, t), u)) = c
    <3>1. ~(t.kind = "resume" /\ u[t.id] = "write")
      BY <2>5, <2>6
    <3> QED
      BY <1>c, <2>6, <3>1, WritersPush DEF c
  <2>8. nt["write"].pending # <<>> =>
          Cardinality(WritersIn(ready', where')) >= Len(nt'["read"].pending) + (size' - Len(buffer'))
    BY <1>c, <1>d, <2>1, <2>3, <2>7
  <2> QED
    BY <2>2, <2>8 DEF Enough
<1>2. CASE Store(f, v, tasks)
  <2>1. /\ nt' = nt /\ buffer' = Append(buffer, v) /\ where' = u /\ ready' = tasks
    BY <1>2 DEF Store, WriteOver
  <2>2. Len(buffer') = Len(buffer) + 1
    BY <1>c, <2>1
  <2> HIDE DEF u
  <2>3. nt["write"].pending # <<>> =>
          Cardinality(WritersIn(ready', where')) >= Len(nt'["read"].pending) + (size' - Len(buffer'))
    BY <1>c, <1>d, <2>1, <2>2 DEF c
  <2> QED
    BY <2>1, <2>3 DEF Enough
<1>3. CASE WriteWait(f, v, tasks)
  <2>1. /\ nt["read"].pending = <<>> /\ ~(Len(buffer) < size) /\ buffer' = buffer
        /\ nt'["read"] = nt["read"] /\ ready' = tasks
    BY <1>3, <1>b DEF WriteWait, HasWaiters, HasSpace
  <2>2. Len(nt'["read"].pending) = 0 /\ size' - Len(buffer') = 0
    BY <1>c, <2>1
  <2>3. Cardinality(WritersIn(ready', where')) \in Nat
    BY <2>1, WritersFinite
  <2> QED
    BY <2>2, <2>3 DEF Enough
<1> QED
  BY <1>1, <1>2, <1>3 DEF Put

\* Every step leaves enough writers on their way.
LEMMA NextEnough == ChanInv /\ OpenInv /\ Enough /\ [Next]_vars => Enough'
<1> SUFFICES ASSUME ChanInv, OpenInv, Enough, [Next]_vars PROVE Enough'
  OBVIOUS
<1>a. /\ SyncInv /\ writing \in [Fibers -> V0] /\ ready \in Seq(SyncTask)
      /\ nt \in [Notifiers -> NotifierState] /\ "write" \in Notifiers
      /\ Len(nt["read"].pending) \in Nat /\ Len(buffer) \in Nat /\ size \in Nat
      /\ Cardinality(WritersIn(ready, where)) \in Nat
  BY TwoNotifiers, Counts DEF ChanInv, ChanTypes
<1>1. CASE Scheduler
  BY <1>1, SchedulerEnough
<1>2. CASE ReadBuffer \/ ReadWait \/ ReadResumed
  BY <1>2, ReadEnough
<1>3. ASSUME NEW v \in Values, Write(v) PROVE Enough'
  <2>1. /\ UNCHANGED <<size, stalled>> /\ v \in V0
    BY <1>3 DEF Write, V0, schedVars
  <2>2. /\ current \in Fibers /\ Put(current, v, ready)
        /\ [where EXCEPT ![current] = Null] = where
        /\ ~stalled => Wake(ready, Lists(nt), paused \ {current},
                             [where EXCEPT ![current] = Null])
    BY <1>3, <1>a, WriteIs
  <2>3. ~stalled /\ nt["write"].pending # <<>> =>
            Cardinality(WritersIn(ready, [where EXCEPT ![current] = Null])) + 1
              >= Len(nt["read"].pending) + (size - Len(buffer))
    BY <1>a, <2>2 DEF Enough
  <2> QED
    BY <1>a, <2>1, <2>2, <2>3, PutEnough
<1>4. CASE WriteAgain
  <2>1. /\ UNCHANGED <<size, stalled>> /\ Resuming /\ WokenWhere = "write"
        /\ Put(Woken, writing[Woken], Tail(ready))
    BY <1>4 DEF WriteAgain, schedVars
  <2>2. /\ Woken \in Fibers /\ Tail(ready) \in Seq(SyncTask)
        /\ ~stalled => Wake(Tail(ready), Lists(nt), paused \ {Woken},
                            [where EXCEPT ![Woken] = Null])
    BY <1>a, <2>1, WriteAgainIs
  <2>3. writing[Woken] \in V0
    BY <1>a, <2>2
  <2>4. ~stalled /\ nt["write"].pending # <<>> =>
            Cardinality(WritersIn(Tail(ready), [where EXCEPT ![Woken] = Null])) + 1
              >= Len(nt["read"].pending) + (size - Len(buffer))
    BY <2>1, PopCounts DEF Enough
  <2> QED
    BY <2>1, <2>2, <2>3, <2>4, PutEnough
<1>5. CASE WriteFails
  <2>1. /\ stalled' = stalled /\ Resuming /\ WokenWhere = "write" /\ (WaitThrows \/ ~open)
        /\ nt' = [nt EXCEPT !["write"] = AfterWait]
    BY <1>5 DEF WriteFails, schedVars
  <2> SUFFICES ASSUME ~stalled PROVE nt'["write"].pending = <<>>
    BY <2>1 DEF Enough
  <2>2. AfterWait = nt["write"] /\ ready # <<>>
    BY <1>a, <2>1, AfterWaitIs
  <2>3. ~open
    <3>1. Head(ready).arg # Stale
      <4>1. NoStale(ready)
        BY <1>a DEF SyncInv, Wake
      <4> QED
        BY <1>a, <2>2, <4>1, TailAt DEF NoStale
    <3>2. open => ~WaitThrows
      BY <2>1, <3>1 DEF OpenInv, WaitThrows, WaitFails, WaitStale, Truthy
    <3> QED
      BY <2>1, <3>2
  <2> QED
    BY <1>a, <2>1, <2>2, <2>3 DEF OpenInv
<1>6. CASE Close
  <2>1. OpenInv' /\ ~open'
    BY <1>6, NextOpen DEF Close
  <2> QED
    BY <2>1 DEF OpenInv, Enough
<1>7. CASE UNCHANGED vars
  BY <1>7 DEF vars, syncVars, schedVars, chanVars, Enough
<1> QED
  BY <1>1, <1>2, <1>3, <1>4, <1>5, <1>6, <1>7 DEF Next, Resumed

\* No reader waits while a writer waits without a writer being on its way to
\* it, and no writer waits while there is space that none is on its way to:
\* for every size of the buffer and any number of fibers, however they
\* overtake each other (channel.ch:41-81).
THEOREM ChannelMissesNobody == Spec => []NoMissedRendezvous
<1>1. Init => Enough
  BY ChannelAssumption DEF Init, SyncInit, NewNotifier, Enough
<1>2. Spec => []Enough
  BY <1>1, NextEnough, ChanInvHolds, OpenInvHolds, PTL DEF Spec
<1>3. ChanInv /\ Enough => NoMissedRendezvous
  BY DEF ChanInv, NoOvertaking, Enough, NoMissedRendezvous, HasWaiters, Retrying, WritersIn
<1> QED
  BY <1>2, <1>3, ChanInvHolds, PTL
=============================================================================
