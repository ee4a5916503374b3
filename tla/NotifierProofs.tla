--------------------------- MODULE NotifierProofs ---------------------------
(***************************************************************************)
(* The Notifier wakes every waiting fiber once and in the order in which   *)
(* they came, for any number of fibers and notifiers, and makes of the     *)
(* scheduler only the steps that TaskLoop allows.                          *)
(***************************************************************************)
EXTENDS Notifier, SyncProofs

-----------------------------------------------------------------------------
(* The invariant                                                           *)

\* wait()
LEMMA WaitStep ==
  ASSUME SyncInv, NEW n \in Notifiers, Wait(n)
  PROVE  SyncInv'
<1> DEFINE M == [nt[n] EXCEPT !.pending = Append(@, current)]
<1>1. /\ current # Idle /\ waits[current] < MaxWaits
      /\ nt' = [nt EXCEPT ![n] = M]
      /\ paused' = paused \cup {current}
      /\ where' = [where EXCEPT ![current] = n]
      /\ waits' = [waits EXCEPT ![current] = @ + 1]
      /\ current' = Idle
      /\ UNCHANGED <<ready, spawned, started, panic, halted, stalled>>
  BY DEF Wait, Suspend, schedVars
<1>2. /\ current \in Fibers /\ current \notin paused /\ current < started
      /\ nt \in [Notifiers -> NotifierState] /\ nt[n] \in NotifierState
      /\ started \in Nat
  BY <1>1, SyncAssumption DEF SyncInv, SyncTypes, FibersApart
<1>3. M \in NotifierState /\ M.pending = Append(nt[n].pending, current)
  BY <1>2, NotifierOps
<1> HIDE DEF M
<1>4. /\ nt' \in [Notifiers -> NotifierState]
      /\ Lists(nt') = [Lists(nt) EXCEPT ![n] = Append(Lists(nt)[n], current)]
  <2>1. Lists(nt)[n] = nt[n].pending
    BY <1>2, ListsType
  <2>2. /\ [nt EXCEPT ![n] = M] \in [Notifiers -> NotifierState]
        /\ Lists([nt EXCEPT ![n] = M]) = [Lists(nt) EXCEPT ![n] = M.pending]
    BY <1>2, <1>3, ListsUpdate
  <2> QED
    BY <1>1, <1>3, <2>1, <2>2
<1>5. waits' \in [Fibers -> 0 .. MaxWaits]
  BY <1>1, <1>2, SyncAssumption DEF SyncInv, SyncTypes
<1>6. ~stalled => Wake(ready', Lists(nt'), paused', where')
  <2> SUFFICES ASSUME ~stalled PROVE Wake(ready', Lists(nt'), paused', where')
    OBVIOUS
  <2>1. Wake(ready, Lists(nt), paused, where)
    BY <1>1 DEF SyncInv
  <2>2. Wake(ready, [Lists(nt) EXCEPT ![n] = Append(Lists(nt)[n], current)],
             paused \cup {current}, [where EXCEPT ![current] = n])
    BY <1>2, <2>1, WakeSuspend
  <2> QED
    BY <1>1, <1>4, <2>2
<1> QED
  BY <1>1, <1>2, <1>4, <1>5, <1>6, MoveSync DEF SyncInv, SyncTypes, schedVars

\* notify_one()
LEMMA NotifyOneStep ==
  ASSUME SyncInv, NEW n \in Notifiers, NEW v \in V0, NotifyOne(n, v)
  PROVE  SyncInv'
<1> DEFINE f == Head(nt[n].pending)  M == Notified(nt[n])
<1>1. /\ nt[n].pending # <<>> /\ ready' = Append(ready, Resume(f, v))
      /\ nt' = [nt EXCEPT ![n] = M]
      /\ UNCHANGED <<schedVars, current, paused, where, waits>>
  BY DEF NotifyOne, HasWaiters
<1>2. /\ nt[n] \in NotifierState /\ nt[n].pending \in Seq(Fibers)
      /\ Lists(nt)[n] = nt[n].pending /\ ready \in Seq(SyncTask)
      /\ ~stalled => Wake(ready, Lists(nt), paused, where)
  BY NotifierIs
<1>3. M \in NotifierState /\ M.pending = Tail(nt[n].pending)
  BY <1>1, <1>2, NotifierOps
<1>4. ready' \in Seq(SyncTask)
  <2>1. f \in Fibers
    BY <1>1, <1>2
  <2>2. Resume(f, v) \in SyncTask
    BY <2>1, TaskTypes
  <2> QED
    BY <1>1, <1>2, <2>2
<1>5. ~stalled => Wake(ready', [Lists(nt) EXCEPT ![n] = M.pending], paused, where)
  BY <1>1, <1>2, <1>3, WakeNotify
<1> HIDE DEF M
<1> QED
  BY <1>1, <1>3, <1>4, <1>5, MethodStep

\* close() and error() release every waiter.
LEMMA ReleaseStep ==
  ASSUME SyncInv, NEW n \in Notifiers, NEW v \in V0, NEW M \in NotifierState,
         M.pending = <<>>, ready' = ready \o Resumes(nt[n].pending, v),
         nt' = [nt EXCEPT ![n] = M],
         UNCHANGED <<schedVars, current, paused, where, waits>>
  PROVE  SyncInv'
<1>1. /\ nt[n] \in NotifierState /\ nt[n].pending \in Seq(Fibers)
      /\ Lists(nt)[n] = nt[n].pending /\ ready \in Seq(SyncTask)
      /\ ~stalled => Wake(ready, Lists(nt), paused, where)
  BY NotifierIs
<1>2. ready' \in Seq(SyncTask)
  <2>1. Resumes(nt[n].pending, v) \in Seq(SyncTask)
    BY <1>1, ResumesAt
  <2> QED
    BY <1>1, <2>1, ConcatAt
<1>3. ~stalled => Wake(ready', [Lists(nt) EXCEPT ![n] = M.pending], paused, where)
  BY <1>1, WakeRelease
<1> QED
  BY <1>2, <1>3, MethodStep

\* A method that keeps the waiters of n.
LEMMA RecordStep ==
  ASSUME SyncInv, NEW n \in Notifiers, NEW M \in NotifierState,
         M.pending = nt[n].pending, nt' = [nt EXCEPT ![n] = M],
         UNCHANGED <<ready, schedVars, current, paused, where, waits>>
  PROVE  SyncInv'
<1>1. /\ Lists(nt)[n] = nt[n].pending /\ ready \in Seq(SyncTask)
      /\ ~stalled => Wake(ready, Lists(nt), paused, where)
  BY NotifierIs
<1>2. [Lists(nt) EXCEPT ![n] = M.pending] = Lists(nt)
  BY <1>1 DEF Lists
<1> QED
  BY <1>1, <1>2, MethodStep

\* Every step keeps the invariant.
LEMMA NextSync == SyncInv /\ [Next]_vars => SyncInv'
<1> SUFFICES ASSUME SyncInv, [Next]_vars PROVE SyncInv'
  OBVIOUS
<1>1. CASE Scheduler
  BY <1>1, SchedulerSync DEF Scheduler
<1>2. CASE WaitResumed
  BY <1>2, ResumeSync DEF WaitResumed
<1>3. ASSUME NEW n \in Notifiers, Wait(n) PROVE SyncInv'
  BY <1>3, WaitStep
<1>4. ASSUME NEW n \in Notifiers, NEW v \in V0, NotifyOne(n, v) PROVE SyncInv'
  BY <1>4, NotifyOneStep
<1>5. ASSUME NEW n \in Notifiers, NEW v \in V0, Close(n, v) PROVE SyncInv'
  <2>1. Closed(nt[n], v) \in NotifierState /\ Closed(nt[n], v).pending = <<>>
    BY NotifierIs, NotifierOps
  <2> QED
    BY <1>5, <2>1, ReleaseStep DEF Close
<1>6. ASSUME NEW n \in Notifiers, NEW v \in V0, CloseAgain(n, v) PROVE SyncInv'
  <2>1. /\ [nt[n] EXCEPT !.result = v] \in NotifierState
        /\ [nt[n] EXCEPT !.result = v].pending = nt[n].pending
    BY NotifierIs, NotifierOps
  <2> QED
    BY <1>6, <2>1, RecordStep DEF CloseAgain
<1>7. ASSUME NEW n \in Notifiers, NEW v \in V0, Error(n, v) PROVE SyncInv'
  <2> DEFINE M == Closed([nt[n] EXCEPT !.error = v], Null)
  <2>1. Null \in V0
    BY DEF V0
  <2>2. [nt[n] EXCEPT !.error = v] \in NotifierState
    BY NotifierIs, NotifierOps
  <2>3. M \in NotifierState /\ M.pending = <<>>
    BY <2>1, <2>2, NotifierOps
  <2>4. /\ ready' = ready \o Resumes(nt[n].pending, Null)
        /\ nt' = [nt EXCEPT ![n] = M]
        /\ UNCHANGED <<schedVars, current, paused, where, waits>>
    BY <1>7 DEF Error
  <2> HIDE DEF M
  <2> QED
    BY <2>1, <2>3, <2>4, ReleaseStep
<1>8. ASSUME NEW n \in Notifiers, NEW v \in V0, ErrorAgain(n, v) PROVE SyncInv'
  <2>1. /\ [nt[n] EXCEPT !.error = v] \in NotifierState
        /\ [nt[n] EXCEPT !.error = v].pending = nt[n].pending
    BY NotifierIs, NotifierOps
  <2> QED
    BY <1>8, <2>1, RecordStep DEF ErrorAgain
<1>9. CASE UNCHANGED vars
  BY <1>9 DEF vars, syncVars, schedVars, SyncInv, SyncTypes, FibersApart
<1> QED
  BY <1>1, <1>2, <1>3, <1>4, <1>5, <1>6, <1>7, <1>8, <1>9 DEF Next, Methods, V0

\* SyncInv is invariant.
LEMMA SyncInvHolds == Spec => []SyncInv
<1>1. Init => SyncInv
  BY InitSync DEF Init
<1> QED
  BY <1>1, NextSync, PTL DEF Spec

\* The state of the notifiers, the task queue and the fibers has its type,
\* also after the exit check has resumed fibers.
THEOREM NotifierTypes == Spec => []TypeOK
<1>1. SyncInv => TypeOK
  BY SyncInvMeans DEF TypeOK
<1> QED
  BY <1>1, SyncInvHolds, PTL

\* No wakeup is lost and none is given twice, whatever fibers wait, notify,
\* close and fail in whatever order (sync.ch:47-99).
THEOREM NotifierWakesOnce == Spec => []WakeupsExact
BY SyncInvMeans, SyncInvHolds, PTL

-----------------------------------------------------------------------------
(* The order in the line of a notifier                                     *)

\* A new task at the end changes no order.
LEMMA BeforePush ==
  ASSUME NEW r \in Seq(SyncTask), NEW s, NEW f, NEW g, NEW t \in SyncTask, Before(r, s, f, g)
  PROVE  Before(Append(r, t), s, f, g)
<1> DEFINE q == Append(r, t)
<1>1. \A i \in DOMAIN r : i \in DOMAIN q /\ q[i] = r[i]
  BY AppendAt
<1> HIDE DEF q
<1>2. \A x : TaskOf(r, x) \subseteq TaskOf(q, x)
  BY <1>1 DEF TaskOf
<1>3. Before(q, s, f, g)
  BY <1>2 DEF Before
<1> QED
  BY <1>3 DEF q

\* Neither do many.
LEMMA BeforeConcat ==
  ASSUME NEW r \in Seq(SyncTask), NEW s, NEW f, NEW g, NEW t \in Seq(SyncTask),
         Before(r, s, f, g)
  PROVE  Before(r \o t, s, f, g)
<1> DEFINE q == r \o t
<1>1. \A i \in DOMAIN r : i \in DOMAIN q /\ q[i] = r[i]
  <2>1. /\ DOMAIN r = 1 .. Len(r) /\ Len(r) \in Nat /\ Len(t) \in Nat
        /\ DOMAIN q = 1 .. Len(r) + Len(t) /\ \A i \in 1 .. Len(r) : q[i] = r[i]
    BY ConcatAt
  <2> HIDE DEF q
  <2> QED
    BY <2>1
<1> HIDE DEF q
<1>2. \A x : TaskOf(r, x) \subseteq TaskOf(q, x)
  BY <1>1 DEF TaskOf
<1>3. Before(q, s, f, g)
  BY <1>2 DEF Before
<1> QED
  BY <1>3 DEF q

\* Nor does taking the first task, unless it is one of the two.
LEMMA BeforePop ==
  ASSUME NEW r \in Seq(SyncTask), r # <<>>, NEW s, NEW f, NEW g, Before(r, s, f, g),
         Head(r).kind = "resume" => Head(r).id # f /\ Head(r).id # g
  PROVE  Before(Tail(r), s, f, g)
<1> DEFINE q == Tail(r)
<1>1. /\ Len(r) \in Nat \ {0} /\ DOMAIN r = 1 .. Len(r) /\ DOMAIN q = 1 .. Len(r) - 1
      /\ \A i \in 1 .. Len(r) - 1 : q[i] = r[i + 1]
      /\ Head(r) = r[1]
  BY TailAt
<1> HIDE DEF q
<1>2. \A x \in {f, g} : \A i \in TaskOf(r, x) : i - 1 \in TaskOf(q, x) /\ i \in Nat
  <2> TAKE x \in {f, g}
  <2> TAKE i \in TaskOf(r, x)
  <2>1. i \in DOMAIN r /\ r[i].kind = "resume" /\ r[i].id = x
    BY DEF TaskOf
  <2>2. i # 1
    BY <1>1, <2>1
  <2>3. i - 1 \in DOMAIN q /\ q[i - 1] = r[i]
    BY <1>1, <2>1, <2>2
  <2> QED
    BY <1>1, <2>1, <2>3 DEF TaskOf
<1>3. CASE \E i \in TaskOf(r, f), j \in TaskOf(r, g) : i < j
  <2>1. PICK i \in TaskOf(r, f), j \in TaskOf(r, g) : i < j
    BY <1>3
  <2>2. i - 1 \in TaskOf(q, f) /\ j - 1 \in TaskOf(q, g) /\ i - 1 < j - 1
    BY <1>2, <2>1
  <2> QED
    BY <2>2 DEF Before, q
<1>4. CASE \E i \in SpotOf(s, f), j \in SpotOf(s, g) : i < j
  BY <1>4 DEF Before
<1>5. CASE TaskOf(r, f) # {} /\ SpotOf(s, g) # {}
  BY <1>2, <1>5 DEF Before, q
<1> QED
  BY <1>3, <1>4, <1>5 DEF Before

\* A waiter that joins the list changes no order among the others.
LEMMA BeforeJoin ==
  ASSUME NEW r, NEW s \in Seq(Fibers), NEW f, NEW g, NEW h \in Fibers, Before(r, s, f, g)
  PROVE  Before(r, Append(s, h), f, g)
<1> DEFINE q == Append(s, h)
<1>1. \A i \in DOMAIN s : i \in DOMAIN q /\ q[i] = s[i]
  BY AppendAt
<1> HIDE DEF q
<1>2. \A x : SpotOf(s, x) \subseteq SpotOf(q, x)
  BY <1>1 DEF SpotOf
<1>3. Before(r, q, f, g)
  BY <1>2 DEF Before
<1> QED
  BY <1>3 DEF q

\* It is behind all of them.
LEMMA BeforeLast ==
  ASSUME NEW r, NEW s \in Seq(Fibers), NEW f, NEW h \in Fibers,
         TaskOf(r, f) # {} \/ SpotOf(s, f) # {}
  PROVE  Before(r, Append(s, h), f, h)
<1> DEFINE q == Append(s, h)  k == Len(s) + 1
<1>1. /\ Len(s) \in Nat /\ DOMAIN s = 1 .. Len(s) /\ DOMAIN q = 1 .. k
      /\ \A i \in 1 .. Len(s) : q[i] = s[i]
      /\ q[k] = h
  BY AppendAt
<1> HIDE DEF q
<1>2. k \in SpotOf(q, h) /\ \A i \in SpotOf(s, f) : i \in SpotOf(q, f) /\ i < k
  BY <1>1 DEF SpotOf
<1>3. Before(r, q, f, h)
  BY <1>2 DEF Before
<1> QED
  BY <1>3 DEF q

\* notify_one() keeps the order: the first waiter becomes the last task.
LEMMA BeforeNotify ==
  ASSUME NEW r \in Seq(SyncTask), NEW s \in Seq(Fibers), s # <<>>, NEW v \in V0,
         NEW f, NEW g, Before(r, s, f, g)
  PROVE  Before(Append(r, Resume(Head(s), v)), Tail(s), f, g)
<1> DEFINE h == Head(s)  t == Resume(h, v)  q == Append(r, t)  z == Tail(s)  k == Len(r) + 1
<1>1. /\ Len(s) \in Nat \ {0} /\ DOMAIN s = 1 .. Len(s) /\ DOMAIN z = 1 .. Len(s) - 1
      /\ \A i \in 1 .. Len(s) - 1 : z[i] = s[i + 1]
      /\ h = s[1] /\ h \in Fibers
  BY TailAt
<1> HIDE DEF h
<1>2. t \in SyncTask /\ t.kind = "resume" /\ t.id = h
  BY <1>1, TaskTypes
<1> HIDE DEF t, z
<1>3. /\ Len(r) \in Nat /\ DOMAIN r = 1 .. Len(r) /\ DOMAIN q = 1 .. k
      /\ \A i \in 1 .. Len(r) : q[i] = r[i]
      /\ q[k] = t
  BY <1>2, AppendAt
<1> HIDE DEF q
<1>4. \A x : \A i \in TaskOf(r, x) : i \in TaskOf(q, x) /\ i < k
  BY <1>3 DEF TaskOf
<1>5. k \in TaskOf(q, h)
  BY <1>2, <1>3 DEF TaskOf
<1>6. \A x : \A i \in SpotOf(s, x) :
        i \in Nat /\ IF i = 1 THEN x = h ELSE i - 1 \in SpotOf(z, x)
  BY <1>1 DEF SpotOf
<1> HIDE DEF k
<1>7. CASE \E i \in TaskOf(r, f), j \in TaskOf(r, g) : i < j
  BY <1>4, <1>7 DEF Before, q, z, t, h
<1>8. CASE \E i \in SpotOf(s, f), j \in SpotOf(s, g) : i < j
  <2>1. PICK i \in SpotOf(s, f), j \in SpotOf(s, g) : i < j
    BY <1>8
  <2>2. j # 1 /\ j - 1 \in SpotOf(z, g)
    BY <1>1, <1>6, <2>1 DEF SpotOf
  <2>3. Before(q, z, f, g)
    <3>1. CASE i = 1
      BY <1>5, <1>6, <2>1, <2>2, <3>1 DEF Before
    <3>2. CASE i # 1
      <4>1. i - 1 \in SpotOf(z, f) /\ i - 1 < j - 1
        BY <1>6, <2>1, <3>2
      <4> QED
        BY <2>2, <4>1 DEF Before
    <3> QED
      BY <3>1, <3>2
  <2> QED
    BY <2>3 DEF q, z, t, h
<1>9. CASE TaskOf(r, f) # {} /\ SpotOf(s, g) # {}
  <2>1. PICK i \in TaskOf(r, f) : TRUE
    BY <1>9
  <2>2. PICK j \in SpotOf(s, g) : TRUE
    BY <1>9
  <2>3. Before(q, z, f, g)
    <3>1. CASE j = 1
      BY <1>4, <1>5, <1>6, <2>1, <2>2, <3>1 DEF Before
    <3>2. CASE j # 1
      BY <1>4, <1>6, <2>1, <2>2, <3>2 DEF Before
    <3> QED
      BY <3>1, <3>2
  <2> QED
    BY <2>3 DEF q, z, t, h
<1> QED
  BY <1>7, <1>8, <1>9 DEF Before

\* close() keeps the order: the waiters become the last tasks.
LEMMA BeforeRelease ==
  ASSUME NEW r \in Seq(SyncTask), NEW s \in Seq(Fibers), NEW v \in V0,
         NEW f, NEW g, Before(r, s, f, g)
  PROVE  Before(r \o Resumes(s, v), <<>>, f, g)
<1> DEFINE t == Resumes(s, v)  q == r \o t  L == Len(r)
<1>1. /\ t \in Seq(SyncTask) /\ Len(t) = Len(s) /\ DOMAIN s = 1 .. Len(s) /\ Len(s) \in Nat
      /\ \A i \in 1 .. Len(s) : t[i].kind = "resume" /\ t[i].id = s[i]
  BY ResumesAt
<1> HIDE DEF t
<1>2. /\ DOMAIN r = 1 .. L /\ L \in Nat /\ DOMAIN q = 1 .. L + Len(t)
      /\ \A i \in 1 .. L : q[i] = r[i]
      /\ \A i \in 1 .. Len(t) : q[L + i] = t[i]
  <2>1. t \in Seq(SyncTask)
    BY <1>1
  <2> QED
    BY <2>1, ConcatAt
<1> HIDE DEF q, L
<1>3. \A x : \A i \in TaskOf(r, x) : i \in TaskOf(q, x) /\ i \in Nat /\ i <= L
  BY <1>1, <1>2 DEF TaskOf
<1>4. \A x : \A i \in SpotOf(s, x) : L + i \in TaskOf(q, x) /\ i \in Nat /\ i > 0
  BY <1>1, <1>2 DEF TaskOf, SpotOf
<1>5. \E i \in TaskOf(q, f), j \in TaskOf(q, g) : i < j
  <2>1. CASE \E i \in TaskOf(r, f), j \in TaskOf(r, g) : i < j
    BY <1>3, <2>1
  <2>2. CASE \E i \in SpotOf(s, f), j \in SpotOf(s, g) : i < j
    <3>1. PICK i \in SpotOf(s, f), j \in SpotOf(s, g) : i < j
      BY <2>2
    <3>2. L + i \in TaskOf(q, f) /\ L + j \in TaskOf(q, g) /\ L + i < L + j
      BY <1>2, <1>4, <3>1
    <3> QED
      BY <3>2
  <2>3. CASE TaskOf(r, f) # {} /\ SpotOf(s, g) # {}
    <3>1. PICK i \in TaskOf(r, f) : TRUE
      BY <2>3
    <3>2. PICK j \in SpotOf(s, g) : TRUE
      BY <2>3
    <3>3. i \in TaskOf(q, f) /\ L + j \in TaskOf(q, g) /\ i < L + j
      BY <1>2, <1>3, <1>4, <3>1, <3>2
    <3> QED
      BY <3>3
  <2> QED
    BY <2>1, <2>2, <2>3 DEF Before
<1> QED
  BY <1>5 DEF Before, q, t

\* What a step may do to the line of n.
LineStep(n) ==
  /\ \A f, g \in InLine(n) \cap InLine(n)' : Ahead(n, f, g) => Ahead(n, f, g)'
  /\ \A f \in InLine(n) \cap InLine(n)', g \in InLine(n)' \ InLine(n) : Ahead(n, f, g)'
  /\ \A f \in InLine(n) \ InLine(n)', g \in InLine(n) : ~Ahead(n, g, f)

\* A step after which everybody is where they were.
LEMMA LineKept ==
  ASSUME NEW n \in Notifiers, where' = where,
         ASSUME NEW f \in Fibers, NEW g \in Fibers, Ahead(n, f, g) PROVE Ahead(n, f, g)'
  PROVE  LineStep(n)
<1>1. InLine(n)' = InLine(n) /\ InLine(n) \subseteq Fibers
  BY DEF InLine
<1> QED
  BY <1>1 DEF LineStep

\* Somebody in the line of n is among the tasks or in the list of n.
LEMMA InLinePlaced ==
  ASSUME SyncInv, ~stalled, NEW n \in Notifiers, NEW f \in InLine(n)
  PROVE  TaskOf(ready, f) # {} \/ SpotOf(nt[n].pending, f) # {}
<1>1. f \in Fibers /\ where[f] = n /\ f \in paused
  <2>1. f \in Fibers /\ where[f] = n /\ n # Null
    BY SyncAssumption DEF InLine
  <2> QED
    BY <2>1 DEF SyncInv, FibersApart
<1>2. /\ Placed(ready, Lists(nt), paused) /\ Located(Lists(nt), where)
      /\ \A m \in Notifiers : Lists(nt)[m] = nt[m].pending
  BY DEF SyncInv, Wake, Lists
<1>3. CASE Tasked(ready, f)
  BY <1>3 DEF Tasked, IsResume, TaskOf
<1>4. CASE Waiting(Lists(nt), f)
  <2>1. PICK m \in Notifiers : \E j \in DOMAIN Lists(nt)[m] : Lists(nt)[m][j] = f
    BY <1>4 DEF Waiting
  <2>2. m = n
    BY <1>1, <1>2, <2>1 DEF Located
  <2> QED
    BY <1>2, <2>1, <2>2 DEF SpotOf
<1> QED
  BY <1>1, <1>2, <1>3, <1>4 DEF Placed

\* The fiber that comes out of wait() is behind nobody.
LEMMA WokenIsFirst ==
  ASSUME SyncInv, ~stalled, Resuming, NEW n \in Notifiers, NEW g
  PROVE  ~Ahead(n, g, Woken)
<1>1. /\ ready # <<>> /\ Head(ready).kind = "resume" /\ Woken = Head(ready).id
      /\ Wake(ready, Lists(nt), paused, where)
      /\ Lists(nt)[n] = nt[n].pending
  BY AfterWaitIs, NotifierIs DEF SyncInv
<1>2. ~Waiting(Lists(nt), Woken)
  BY <1>1, WakeResume
<1>3. SpotOf(nt[n].pending, Woken) = {}
  BY <1>1, <1>2 DEF Waiting, SpotOf
<1>4. /\ DOMAIN ready = 1 .. Len(ready) /\ Len(ready) \in Nat \ {0} /\ Head(ready) = ready[1]
      /\ OnePlace(ready, Lists(nt))
  BY <1>1, TailAt DEF Wake
<1>5. \A i \in TaskOf(ready, Woken) : i = 1
  BY <1>1, <1>4 DEF TaskOf, OnePlace, IsResume
<1>6. \A x : \A i \in TaskOf(ready, x) : i \in Nat /\ i >= 1
  BY <1>4 DEF TaskOf
<1> QED
  BY <1>3, <1>5, <1>6 DEF Ahead, Before

\* Every step respects the order of every line.
LEMMA StepInLine ==
  ASSUME SyncInv, [Next]_vars, ~stalled', NEW n \in Notifiers
  PROVE  LineStep(n)
<1>0. ~stalled
  BY DEF Next, Scheduler, Methods, Spawn, Fire, Start, Return, Exit, ExitCheck, InvalidThread,
         WaitResumed, Wait, NotifyOne, Close, CloseAgain, Error, ErrorAgain,
         vars, syncVars, schedVars
<1>a. /\ ready \in Seq(SyncTask) /\ nt \in [Notifiers -> NotifierState]
      /\ \A m \in Notifiers : nt[m] \in NotifierState /\ nt[m].pending \in Seq(Fibers)
  BY NotifierIs DEF SyncInv, SyncTypes
<1>1. CASE Spawn \/ Return \/ InvalidThread \/ UNCHANGED vars
  <2>1. UNCHANGED <<ready, nt, where>>
    BY <1>1 DEF Spawn, Return, InvalidThread, vars, syncVars
  <2> QED
    BY <2>1, LineKept DEF Ahead
<1>2. CASE Fire
  <2>1. StartTask \in SyncTask
    BY DEF StartTask, SyncTask, V0, Idle
  <2>2. ready' = Append(ready, StartTask) /\ nt' = nt /\ where' = where
    BY <1>2 DEF Fire
  <2>3. ASSUME NEW f \in Fibers, NEW g \in Fibers, Ahead(n, f, g) PROVE Ahead(n, f, g)'
    BY <1>a, <2>1, <2>2, <2>3, BeforePush DEF Ahead
  <2> QED
    BY <2>2, <2>3, LineKept
<1>3. CASE Start
  <2>1. /\ ready # <<>> /\ Head(ready).kind = "start" /\ ready' = Tail(ready)
        /\ nt' = nt /\ where' = where
    BY <1>3 DEF Start
  <2>2. ASSUME NEW f \in Fibers, NEW g \in Fibers, Ahead(n, f, g) PROVE Ahead(n, f, g)'
    BY <1>a, <2>1, <2>2, BeforePop DEF Ahead
  <2> QED
    BY <2>1, <2>2, LineKept
<1>4. CASE WaitResumed
  <2>1. /\ ready # <<>> /\ ready' = Tail(ready) /\ Woken = Head(ready).id /\ Resuming
        /\ Woken \in Fibers /\ nt' = nt /\ where' = [where EXCEPT ![Woken] = Null]
        /\ where \in [Fibers -> Notifiers \cup {Null}]
    <3>1. Resuming /\ nt' = [nt EXCEPT ![WokenWhere] = AfterWait] /\ ready' = Tail(ready)
          /\ where' = [where EXCEPT ![Woken] = Null]
      BY <1>4 DEF WaitResumed
    <3>2. nt' = nt
      BY <1>0, <1>a, <3>1, AfterWaitIs
    <3> QED
      BY <3>1, <3>2, AfterWaitIs DEF SyncInv, SyncTypes
  <2>2. /\ InLine(n)' = InLine(n) \ {Woken}
    BY <2>1, SyncAssumption DEF InLine
  <2>3. ASSUME NEW f, NEW g, f # Woken, g # Woken, Ahead(n, f, g) PROVE Ahead(n, f, g)'
    BY <1>a, <2>1, <2>3, BeforePop DEF Ahead
  <2>4. \A g : ~Ahead(n, g, Woken)
    BY <1>0, <2>1, WokenIsFirst
  <2> QED
    BY <2>2, <2>3, <2>4 DEF LineStep
<1>5. ASSUME NEW m \in Notifiers, Wait(m) PROVE LineStep(n)
  <2> DEFINE M == [nt[m] EXCEPT !.pending = Append(@, current)]
  <2>1. /\ current \in Fibers /\ current \notin paused /\ ready' = ready
        /\ nt' = [nt EXCEPT ![m] = M]
        /\ where' = [where EXCEPT ![current] = m]
        /\ where \in [Fibers -> Notifiers \cup {Null}]
    BY <1>5 DEF Wait, Suspend, SyncInv, SyncTypes, FibersApart
  <2>2. M \in NotifierState /\ M.pending = Append(nt[m].pending, current)
    BY <1>a, <2>1, NotifierOps
  <2> HIDE DEF M
  <2>3. nt'[n].pending = IF n = m THEN Append(nt[n].pending, current) ELSE nt[n].pending
    BY <1>a, <2>1, <2>2
  <2>4. where[current] = Null /\ n # Null /\ m # Null
    BY <2>1, SyncAssumption DEF SyncInv, FibersApart
  <2>5. InLine(n)' = (IF n = m THEN InLine(n) \cup {current} ELSE InLine(n))
        /\ InLine(n) \subseteq Fibers
    BY <2>1, <2>4 DEF InLine
  <2>h. PICK h \in Fibers : h = current
    BY <2>1
  <2>6. ASSUME NEW f \in Fibers, NEW g \in Fibers, Ahead(n, f, g) PROVE Ahead(n, f, g)'
    <3>1. CASE n = m
      <4>1. Before(ready, Append(nt[n].pending, h), f, g)
        BY <1>a, <2>6, BeforeJoin DEF Ahead
      <4> QED
        BY <2>1, <2>3, <2>h, <3>1, <4>1 DEF Ahead
    <3>2. CASE n # m
      BY <2>1, <2>3, <2>6, <3>2 DEF Ahead
    <3> QED
      BY <3>1, <3>2
  <2>7. ASSUME NEW f \in InLine(n), n = m PROVE Ahead(n, f, h)'
    <3>1. TaskOf(ready, f) # {} \/ SpotOf(nt[n].pending, f) # {}
      BY <1>0, InLinePlaced
    <3>2. Before(ready, Append(nt[n].pending, h), f, h)
      BY <1>a, <3>1, BeforeLast
    <3> QED
      BY <2>1, <2>3, <2>7, <2>h, <3>2 DEF Ahead
  <2>8. InLine(n)' = (IF n = m THEN InLine(n) \cup {h} ELSE InLine(n))
    BY <2>5, <2>h
  <2> QED
    BY <2>5, <2>6, <2>7, <2>8 DEF LineStep
<1>6. ASSUME NEW m \in Notifiers, NEW v \in V0, NotifyOne(m, v) PROVE LineStep(n)
  <2> DEFINE t == Resume(Head(nt[m].pending), v)
  <2>1. /\ nt[m].pending # <<>> /\ ready' = Append(ready, t)
        /\ nt' = [nt EXCEPT ![m] = Notified(nt[m])] /\ where' = where
    BY <1>6 DEF NotifyOne, HasWaiters
  <2>2. t \in SyncTask
    <3>1. Head(nt[m].pending) \in Fibers
      BY <1>a, <2>1
    <3> QED
      BY <3>1, TaskTypes
  <2>3. nt'[n].pending = IF n = m THEN Tail(nt[n].pending) ELSE nt[n].pending
    BY <1>a, <2>1, NotifierOps
  <2>4. ASSUME NEW f \in Fibers, NEW g \in Fibers, Ahead(n, f, g) PROVE Ahead(n, f, g)'
    <3>1. CASE n = m
      BY <1>a, <2>1, <2>3, <2>4, <3>1, BeforeNotify DEF Ahead
    <3>2. CASE n # m
      <4> HIDE DEF t
      <4> QED
        BY <1>a, <2>1, <2>2, <2>3, <2>4, <3>2, BeforePush DEF Ahead
    <3> QED
      BY <3>1, <3>2
  <2> QED
    BY <2>1, <2>4, LineKept
<1>7. ASSUME NEW m \in Notifiers, NEW v \in V0, Close(m, v) \/ Error(m, v)
      PROVE  LineStep(n)
  <2>1. PICK u \in V0, M \in NotifierState :
          /\ M.pending = <<>> /\ nt' = [nt EXCEPT ![m] = M]
          /\ ready' = ready \o Resumes(nt[m].pending, u)
    <3>0. Null \in V0
      BY DEF V0
    <3>1. CASE Close(m, v)
      <4>1. Closed(nt[m], v) \in NotifierState /\ Closed(nt[m], v).pending = <<>>
        BY <1>a, NotifierOps
      <4> QED
        BY <3>1, <4>1 DEF Close
    <3>2. CASE Error(m, v)
      <4>1. [nt[m] EXCEPT !.error = v] \in NotifierState
        BY <1>a, NotifierOps
      <4>2. /\ Closed([nt[m] EXCEPT !.error = v], Null) \in NotifierState
            /\ Closed([nt[m] EXCEPT !.error = v], Null).pending = <<>>
        BY <3>0, <4>1, NotifierOps
      <4> QED
        BY <3>0, <3>2, <4>2 DEF Error
    <3> QED
      BY <1>7, <3>1, <3>2
  <2>2. where' = where
    BY <1>7 DEF Close, Error
  <2>3. nt'[n].pending = IF n = m THEN <<>> ELSE nt[n].pending
    BY <1>a, <2>1
  <2>4. Resumes(nt[m].pending, u) \in Seq(SyncTask)
    BY <1>a, ResumesAt
  <2>5. ASSUME NEW f \in Fibers, NEW g \in Fibers, Ahead(n, f, g) PROVE Ahead(n, f, g)'
    <3>1. CASE n = m
      BY <1>a, <2>1, <2>3, <2>5, <3>1, BeforeRelease DEF Ahead
    <3>2. CASE n # m
      BY <1>a, <2>1, <2>3, <2>4, <2>5, <3>2, BeforeConcat DEF Ahead
    <3> QED
      BY <3>1, <3>2
  <2> QED
    BY <2>2, <2>5, LineKept
<1>8. ASSUME NEW m \in Notifiers, NEW v \in V0, CloseAgain(m, v) \/ ErrorAgain(m, v)
      PROVE  LineStep(n)
  <2>1. ready' = ready /\ where' = where
    BY <1>8 DEF CloseAgain, ErrorAgain
  <2>2. nt'[n].pending = nt[n].pending
    BY <1>8, <1>a DEF CloseAgain, ErrorAgain, NotifierState
  <2> QED
    BY <2>1, <2>2, LineKept DEF Ahead
<1>9. CASE Exit \/ ExitCheck
  BY <1>9 DEF Exit, ExitCheck
<1> QED
  BY <1>1, <1>2, <1>3, <1>4, <1>5, <1>6, <1>7, <1>8, <1>9
     DEF Next, Scheduler, Methods, V0

\* Fibers leave every notifier in the order in which they came, whoever
\* notifies and however notify_one, close and error are mixed.
THEOREM NotifierIsFair == Spec => FirstComeFirstServed
<1>1. SyncInv /\ [Next]_vars =>
        [stalled' \/ \A n \in Notifiers :
           /\ \A f, g \in InLine(n) \cap InLine(n)' : Ahead(n, f, g) => Ahead(n, f, g)'
           /\ \A f \in InLine(n) \cap InLine(n)', g \in InLine(n)' \ InLine(n) :
                Ahead(n, f, g)'
           /\ \A f \in InLine(n) \ InLine(n)', g \in InLine(n) : ~Ahead(n, g, f)]_vars
  BY StepInLine DEF LineStep
<1> QED
  BY <1>1, SyncInvHolds, PTL DEF Spec, FirstComeFirstServed

-----------------------------------------------------------------------------
(* The scheduler of Sync is the loop start_runtime is shown to implement.  *)

\* The task queue without the fields a callback does not have.
PlainTask(q) == IF q.kind = "start" THEN [kind |-> "start"] ELSE q
PlainTasks   == [i \in DOMAIN ready |-> PlainTask(ready[i])]
AnySpawned   == spawned > 0

Tasks == INSTANCE TaskLoop WITH
  Args <- Values \cup {Null}, tasks <- PlainTasks, later <- AnySpawned

\* Whoever is in a list of waiters was started, also after the exit check has
\* resumed fibers that were left in it.
WaitersStarted ==
  \A n \in Notifiers : \A j \in DOMAIN nt[n].pending : nt[n].pending[j] < started

\* Appending, popping and concatenating tasks, as programs see them.
LEMMA PlainAt ==
  ASSUME NEW q \in Seq(SyncTask), NEW p, p = [i \in DOMAIN q |-> PlainTask(q[i])]
  PROVE  /\ DOMAIN q = 1 .. Len(q) /\ Len(q) \in Nat
         /\ DOMAIN p = 1 .. Len(q) /\ Len(p) = Len(q)
         /\ p \in Seq({PlainTask(x) : x \in SyncTask})
         /\ \A i \in 1 .. Len(q) : p[i] = PlainTask(q[i])
OBVIOUS

\* A task of a fiber is seen as it is, a callback as a start.
LEMMA PlainIs ==
  ASSUME NEW x \in SyncTask
  PROVE  /\ x.kind = "start" => PlainTask(x) = Tasks!StartTask /\ PlainTask(x).kind = "start"
         /\ x.kind = "resume" => /\ PlainTask(x) = x
                                 /\ x = Tasks!Resume(x.id, x.arg)
<1>1. x.kind = "resume" => x = Tasks!Resume(x.id, x.arg)
  BY DEF SyncTask, Tasks!Resume
<1> QED
  BY <1>1 DEF PlainTask, Tasks!StartTask

LEMMA PlainAppend ==
  ASSUME NEW x \in SyncTask, ready \in Seq(SyncTask), ready' = Append(ready, x)
  PROVE  PlainTasks' = Append(PlainTasks, PlainTask(x))
<1> DEFINE T == {PlainTask(y) : y \in SyncTask}
<1>1. ready' \in Seq(SyncTask) /\ Len(ready') = Len(ready) + 1 /\ Len(ready) \in Nat
      /\ (\A i \in 1 .. Len(ready) : ready'[i] = ready[i]) /\ ready'[Len(ready) + 1] = x
  OBVIOUS
<1>2. /\ PlainTasks \in Seq(T) /\ Len(PlainTasks) = Len(ready)
      /\ \A i \in 1 .. Len(ready) : PlainTasks[i] = PlainTask(ready[i])
  BY PlainAt DEF PlainTasks
<1>3. /\ PlainTasks' \in Seq(T) /\ Len(PlainTasks') = Len(ready')
      /\ \A i \in 1 .. Len(ready') : PlainTasks'[i] = PlainTask(ready'[i])
  BY <1>1, PlainAt DEF PlainTasks
<1>4. PlainTask(x) \in T
  OBVIOUS
<1> DEFINE r == Append(PlainTasks, PlainTask(x))
<1>5. /\ r \in Seq(T) /\ Len(r) = Len(PlainTasks) + 1
      /\ \A i \in 1 .. Len(PlainTasks) : r[i] = PlainTasks[i]
      /\ r[Len(PlainTasks) + 1] = PlainTask(x)
  BY <1>2, <1>4, AppendAt
<1> HIDE DEF T, r
<1>6. \A i \in 1 .. Len(PlainTasks') : PlainTasks'[i] = r[i]
  BY <1>1, <1>2, <1>3, <1>5
<1>7. PlainTasks' = r
  BY <1>1, <1>2, <1>3, <1>5, <1>6, SeqEqual
<1> QED
  BY <1>7 DEF r

LEMMA PlainTail ==
  ASSUME ready \in Seq(SyncTask), ready # <<>>
  PROVE  /\ PlainTasks # <<>> /\ Head(PlainTasks) = PlainTask(Head(ready))
         /\ Head(ready) \in SyncTask
         /\ ready' = Tail(ready) => PlainTasks' = Tail(PlainTasks)
<1> DEFINE T == {PlainTask(y) : y \in SyncTask}
           r == Tail(PlainTasks)
<1>1. Len(ready) \in Nat \ {0} /\ Head(ready) = ready[1] /\ Head(ready) \in SyncTask
  OBVIOUS
<1>2. /\ PlainTasks \in Seq(T) /\ Len(PlainTasks) = Len(ready)
      /\ \A i \in 1 .. Len(ready) : PlainTasks[i] = PlainTask(ready[i])
  BY PlainAt DEF PlainTasks
<1>3. PlainTasks # <<>>
  BY <1>1, <1>2
<1>4. /\ r \in Seq(T) /\ Len(r) = Len(PlainTasks) - 1
      /\ \A i \in 1 .. Len(PlainTasks) - 1 : r[i] = PlainTasks[i + 1]
      /\ Head(PlainTasks) = PlainTasks[1]
  BY <1>2, <1>3, TailAt
<1>5. ASSUME ready' = Tail(ready) PROVE PlainTasks' = r
  <2>1. /\ ready' \in Seq(SyncTask) /\ Len(ready') = Len(ready) - 1
        /\ \A i \in 1 .. Len(ready) - 1 : ready'[i] = ready[i + 1]
    BY <1>5
  <2>2. /\ PlainTasks' \in Seq(T) /\ Len(PlainTasks') = Len(ready')
        /\ \A i \in 1 .. Len(ready') : PlainTasks'[i] = PlainTask(ready'[i])
    BY <2>1, PlainAt DEF PlainTasks
  <2> HIDE DEF T, r
  <2>3. \A i \in 1 .. Len(PlainTasks') : PlainTasks'[i] = r[i]
    BY <1>1, <1>2, <1>4, <2>1, <2>2
  <2> QED
    BY <1>1, <1>2, <1>4, <2>1, <2>2, <2>3, SeqEqual
<1>6. Head(PlainTasks) = PlainTask(Head(ready))
  BY <1>1, <1>2, <1>4
<1> QED
  BY <1>1, <1>3, <1>5, <1>6

\* The exit check resumes every paused fiber once, in the order of the ids.
LEMMA InOrderAll ==
  ASSUME NEW fs \in SUBSET Fibers
  PROVE  \A f \in fs : \E i \in DOMAIN InOrder(fs) : InOrder(fs)[i] = f
<1> DEFINE s == InOrder(fs)
           m == Cardinality(fs)
<1>1. m \in Nat /\ \E q \in [1 .. m -> fs] : Ordered(q)
  BY OrderExists
<1>2. s \in [1 .. m -> fs] /\ Ordered(s)
  BY <1>1 DEF InOrder, Ordered
<1>3. IsFiniteSet(fs)
  <2>1. IsFiniteSet(Fibers)
    BY SyncAssumption, FS_Interval DEF Fibers
  <2> QED
    BY <2>1, FS_Subset
<1> HIDE DEF s, m
<1>4. \A f \in fs : f \in Int
  BY DEF Fibers
<1> DEFINE R == {s[i] : i \in 1 .. m}
<1>5. \A i, j \in 1 .. m : s[i] = s[j] => i = j
  BY <1>1, <1>2, <1>4 DEF Ordered
<1>6. s \in Bijection(1 .. m, R)
  <2>1. s \in [1 .. m -> R]
    BY <1>2
  <2> QED
    BY <1>5, <2>1 DEF Bijection, Injection, Surjection, IsInjective
<1>7. Cardinality(R) = m
  BY <1>1, <1>6, FS_CountingElements DEF ExistsBijection
<1>8. R \in SUBSET fs
  BY <1>2
<1>9. R = fs
  BY <1>3, <1>7, <1>8, FS_Subset DEF m
<1> QED
  BY <1>2, <1>9 DEF s

LEMMA ResumesAll ==
  ASSUME SyncInv, ready' = Resumes(InOrder(paused), Stale)
  PROVE  /\ DOMAIN PlainTasks' = 1 .. Len(PlainTasks')
         /\ Tasks!ResumesInOrder(PlainTasks', paused, Stale)
<1> DEFINE s == InOrder(paused)
<1>1. paused \in SUBSET Fibers /\ Stale \in V0 \cup {Stale}
  BY DEF SyncInv, SyncTypes
<1>2. s \in Seq(Fibers) /\ Ordered(s) /\ s \in [DOMAIN s -> paused]
  <2>1. /\ Cardinality(paused) \in Nat
        /\ \E q \in [1 .. Cardinality(paused) -> paused] : Ordered(q)
    BY <1>1, OrderExists
  <2>2. s \in [1 .. Cardinality(paused) -> paused]
    BY <2>1 DEF InOrder, Ordered
  <2> QED
    BY <1>1, <2>2, InOrderIs
<1>3. \A f \in paused : \E i \in DOMAIN s : s[i] = f
  BY <1>1, InOrderAll
<1> HIDE DEF s
<1>4. ready' = Resumes(s, Stale)
  BY DEF s
<1> DEFINE n == Len(s)
<1>5. /\ ready' \in Seq(SyncTask) /\ Len(ready') = n /\ n \in Nat /\ DOMAIN s = 1 .. n
      /\ \A i \in 1 .. n : /\ ready'[i].kind = "resume"
                           /\ ready'[i].id = s[i] /\ ready'[i].arg = Stale
  BY <1>1, <1>2, <1>4, ResumesAt
<1>6. /\ DOMAIN PlainTasks' = 1 .. n /\ Len(PlainTasks') = n
      /\ \A i \in 1 .. n : PlainTasks'[i] = PlainTask(ready'[i])
  BY <1>5, PlainAt DEF PlainTasks
<1> HIDE DEF n
<1>7. \A i \in 1 .. n : ready'[i] \in SyncTask
  BY <1>5
<1>8. \A i \in 1 .. n : PlainTasks'[i] = Tasks!Resume(s[i], Stale)
  BY <1>5, <1>6, <1>7, PlainIs
<1>9. \A f : Tasks!Resume(f, Stale).id = f
  BY DEF Tasks!Resume
<1>10. \A i, j \in 1 .. n : i < j => PlainTasks'[i].id < PlainTasks'[j].id
  BY <1>2, <1>5, <1>8, <1>9 DEF Ordered
<1>11. \A i \in 1 .. n : s[i] \in paused
  BY <1>2, <1>5
<1> QED
  BY <1>3, <1>5, <1>6, <1>8, <1>10, <1>11 DEF Tasks!ResumesInOrder

\* Waiters are appended by wait(), taken from the front or all at once.
LEMMA NextWaiters == SyncInv /\ WaitersStarted /\ [Next]_vars => WaitersStarted'
<1> SUFFICES ASSUME SyncInv, WaitersStarted, [Next]_vars PROVE WaitersStarted'
  OBVIOUS
<1>0. /\ \A n \in Notifiers : nt[n] \in NotifierState /\ nt[n].pending \in Seq(Fibers)
      /\ nt = [n \in Notifiers |-> nt[n]]
      /\ started \in Int /\ \A f \in Fibers : f \in Int
  <2>1. \A N \in NotifierState : N.pending \in Seq(Fibers)
    BY DEF NotifierState
  <2> QED
    BY <2>1, SyncAssumption DEF SyncInv, SyncTypes, Fibers
<1>1. ASSUME started' \in Int, started <= started', NEW n \in Notifiers, NEW N,
             nt' = [nt EXCEPT ![n] = N],
             \A j \in DOMAIN N.pending : N.pending[j] \in Int /\ N.pending[j] < started
      PROVE  WaitersStarted'
  <2>1. \A o \in Notifiers : nt'[o] = IF o = n THEN N ELSE nt[o]
    BY <1>0, <1>1
  <2>2. \A o \in Notifiers : \A j \in DOMAIN nt[o].pending : nt[o].pending[j] \in Int
    BY <1>0
  <2> QED
    BY <1>0, <1>1, <2>1, <2>2 DEF WaitersStarted
<1>2. CASE Scheduler \/ UNCHANGED vars
  <2>1. nt' = nt /\ started' \in Int /\ started <= started'
    BY <1>0, <1>2 DEF Scheduler, Spawn, Fire, Start, Return, Exit, ExitCheck, InvalidThread, vars,
       syncVars, schedVars
  <2>2. \A o \in Notifiers : \A j \in DOMAIN nt[o].pending : nt[o].pending[j] \in Int
    BY <1>0
  <2> QED
    BY <1>0, <2>1, <2>2 DEF WaitersStarted
<1>3. CASE WaitResumed
  <2> DEFINE n == WokenWhere
  <2>1. Resuming /\ nt' = [nt EXCEPT ![n] = AfterWait] /\ started' = started
    BY <1>3 DEF WaitResumed, schedVars
  <2>2. n \in Notifiers
    BY <2>1, AfterWaitIs
  <2>3. AfterWait.pending = <<>> \/ AfterWait = nt[n]
    BY <2>2, <1>0, NotifierOps DEF AfterWait
  <2>4. \A j \in DOMAIN AfterWait.pending :
          AfterWait.pending[j] \in Int /\ AfterWait.pending[j] < started
    BY <1>0, <2>2, <2>3 DEF WaitersStarted
  <2> HIDE DEF n
  <2> QED
    BY <1>0, <1>1, <2>1, <2>2, <2>4
<1>4. ASSUME NEW n \in Notifiers, Wait(n) PROVE WaitersStarted'
  <2> DEFINE N == [nt[n] EXCEPT !.pending = Append(@, current)]
  <2>1. nt' = [nt EXCEPT ![n] = N] /\ started' = started /\ current # Idle
    BY <1>4 DEF Wait, Suspend, schedVars
  <2>2. current \in Fibers /\ current < started
    BY <2>1 DEF SyncInv, SyncTypes, FibersApart
  <2>3. N.pending = Append(nt[n].pending, current)
    BY <1>0, <2>2, NotifierOps
  <2> HIDE DEF N
  <2>4. \A j \in DOMAIN N.pending : N.pending[j] \in Int /\ N.pending[j] < started
    <3>1. /\ DOMAIN N.pending = 1 .. Len(nt[n].pending) + 1
          /\ DOMAIN nt[n].pending = 1 .. Len(nt[n].pending) /\ Len(nt[n].pending) \in Nat
          /\ \A j \in 1 .. Len(nt[n].pending) : N.pending[j] = nt[n].pending[j]
          /\ N.pending[Len(nt[n].pending) + 1] = current
      BY <1>0, <2>2, <2>3, AppendAt
    <3>2. \A j \in 1 .. Len(nt[n].pending) : nt[n].pending[j] \in Int /\ nt[n].pending[j] < started
      BY <1>0, <3>1 DEF WaitersStarted
    <3> QED
      BY <1>0, <2>2, <3>1, <3>2
  <2> QED
    BY <1>0, <1>1, <2>1, <2>4
<1>5. ASSUME NEW n \in Notifiers, NEW v \in V0,
             NotifyOne(n, v) \/ Close(n, v) \/ CloseAgain(n, v) \/ Error(n, v) \/ ErrorAgain(n, v)
      PROVE  WaitersStarted'
  <2>1. started' = started /\ Null \in V0
    BY <1>5 DEF NotifyOne, Close, CloseAgain, Error, ErrorAgain, schedVars, V0
  <2>2. PICK N : /\ nt' = [nt EXCEPT ![n] = N]
                 /\ \/ N.pending = <<>> \/ N.pending = nt[n].pending
                    \/ nt[n].pending # <<>> /\ N.pending = Tail(nt[n].pending)
    <3>1. CASE NotifyOne(n, v)
      BY <3>1, <1>0, NotifierOps DEF NotifyOne, HasWaiters
    <3>2. CASE Close(n, v)
      BY <3>2, <1>0, NotifierOps DEF Close
    <3>3. CASE CloseAgain(n, v)
      <4> DEFINE M == [nt[n] EXCEPT !.result = v]
      <4>1. M.pending = nt[n].pending
        BY <1>0, NotifierOps
      <4>2. nt' = [nt EXCEPT ![n] = M]
        BY <3>3 DEF CloseAgain
      <4> QED
        BY <4>1, <4>2
    <3>4. CASE Error(n, v)
      <4>1. [nt[n] EXCEPT !.error = v] \in NotifierState
        BY <1>0, NotifierOps
      <4>2. Closed([nt[n] EXCEPT !.error = v], Null).pending = <<>>
        BY <2>1, <4>1, NotifierOps
      <4> QED
        BY <3>4, <4>2 DEF Error
    <3>5. CASE ErrorAgain(n, v)
      <4> DEFINE M == [nt[n] EXCEPT !.error = v]
      <4>1. M.pending = nt[n].pending
        BY <1>0, NotifierOps
      <4>2. nt' = [nt EXCEPT ![n] = M]
        BY <3>5 DEF ErrorAgain
      <4> QED
        BY <4>1, <4>2
    <3> QED
      BY <1>5, <3>1, <3>2, <3>3, <3>4, <3>5
  <2>3. \A j \in DOMAIN N.pending : N.pending[j] \in Int /\ N.pending[j] < started
    <3>1. \A j \in DOMAIN nt[n].pending : nt[n].pending[j] \in Int /\ nt[n].pending[j] < started
      BY <1>0 DEF WaitersStarted
    <3>2. CASE nt[n].pending # <<>> /\ N.pending = Tail(nt[n].pending)
      <4>1. /\ DOMAIN nt[n].pending = 1 .. Len(nt[n].pending) /\ Len(nt[n].pending) \in Nat \ {0}
            /\ DOMAIN N.pending = 1 .. Len(nt[n].pending) - 1
            /\ \A i \in 1 .. Len(nt[n].pending) - 1 : N.pending[i] = nt[n].pending[i + 1]
        BY <1>0, <3>2, TailAt
      <4> DEFINE k == Len(nt[n].pending)
                 p == nt[n].pending
      <4>2. k \in Nat \ {0} /\ DOMAIN p = 1 .. k /\ DOMAIN N.pending = 1 .. k - 1
        BY <4>1
      <4>3. \A i \in 1 .. k - 1 : N.pending[i] = p[i + 1]
        BY <4>1
      <4>4. \A i \in 1 .. k : p[i] \in Int /\ p[i] < started
        BY <3>1, <4>2
      <4> HIDE DEF k, p
      <4>5. \A i \in 1 .. k - 1 : i + 1 \in 1 .. k
        BY <4>2
      <4> QED
        BY <4>2, <4>3, <4>4, <4>5
    <3> QED
      BY <2>2, <3>1, <3>2
  <2> QED
    BY <1>0, <1>1, <2>1, <2>2, <2>3
<1> QED
  BY <1>2, <1>3, <1>4, <1>5 DEF Next, Methods, V0

\* Fibers taken from a list of waiters are resumed.
LEMMA SeenRequest ==
  ASSUME SyncInv, current # Idle, UNCHANGED <<schedVars, current, paused>>,
         NEW v \in V0, NEW s \in Seq(Fibers), \A j \in DOMAIN s : s[j] < started,
         ready' = ready \o Resumes(s, v)
  PROVE  Tasks!Request
<1> DEFINE m == Len(ready)
           k == Len(s)
<1>1. ready \in Seq(SyncTask) /\ started \in Nat /\ v \in V0 \cup {Stale}
  BY SyncAssumption DEF SyncInv, SyncTypes
<1>2. /\ Resumes(s, v) \in Seq(SyncTask) /\ Len(Resumes(s, v)) = k /\ k \in Nat
      /\ DOMAIN s = 1 .. k
      /\ \A i \in 1 .. k : /\ Resumes(s, v)[i].kind = "resume"
                           /\ Resumes(s, v)[i].id = s[i] /\ Resumes(s, v)[i].arg = v
  BY <1>1, ResumesAt
<1>3. /\ ready' \in Seq(SyncTask) /\ m \in Nat /\ DOMAIN ready' = 1 .. m + k /\ Len(ready') = m + k
      /\ \A i \in 1 .. m : ready'[i] = ready[i]
      /\ \A i \in 1 .. k : ready'[m + i] = Resumes(s, v)[i]
  <2> DEFINE r == Resumes(s, v)
  <2>1. r \in Seq(SyncTask) /\ Len(r) = k /\ k \in Nat /\ ready' = ready \o r
    BY <1>2
  <2> HIDE DEF r, k
  <2>2. /\ ready \o r \in Seq(SyncTask) /\ m \in Nat
        /\ DOMAIN (ready \o r) = 1 .. m + Len(r)
        /\ \A i \in 1 .. m : (ready \o r)[i] = ready[i]
        /\ \A i \in 1 .. Len(r) : (ready \o r)[m + i] = r[i]
    <3>1. ready \in Seq(SyncTask) /\ r \in Seq(SyncTask)
      BY <1>1, <2>1
    <3> QED
      BY <3>1, ConcatAt
  <2>3. Len(ready \o r) = m + k
    BY <1>1, <2>1, ConcatProperties
  <2> QED
    BY <2>1, <2>2, <2>3 DEF r
<1>4. /\ Len(PlainTasks) = m /\ \A i \in 1 .. m : PlainTasks[i] = PlainTask(ready[i])
      /\ Len(PlainTasks') = m + k /\ \A i \in 1 .. m + k : PlainTasks'[i] = PlainTask(ready'[i])
  BY <1>1, <1>3, PlainAt DEF PlainTasks
<1> HIDE DEF m, k
<1>5. \A i \in 1 .. m : PlainTasks'[i] = PlainTasks[i]
  BY <1>2, <1>3, <1>4
<1>6. ASSUME NEW i \in m + 1 .. m + k
      PROVE  \E f \in 0 .. started - 1, w \in Values \cup {Null} :
               PlainTasks'[i] = Tasks!Resume(f, w)
  <2> DEFINE j == i - m
             f == s[j]
  <2>1. j \in 1 .. k /\ i = m + j /\ i \in 1 .. m + k
    BY <1>2, <1>3
  <2>2. ready'[i] = Resumes(s, v)[j] /\ f \in Fibers /\ f < started
    <3>1. ready'[m + j] = Resumes(s, v)[j]
      <4> HIDE DEF j
      <4> QED
        BY <1>3, <2>1
    <3>2. j \in DOMAIN s
      BY <1>2, <2>1
    <3> HIDE DEF j
    <3>3. s[j] \in Fibers /\ s[j] < started
      BY <3>2
    <3> QED
      BY <2>1, <3>1, <3>3
  <2>3. f \in 0 .. started - 1
    BY <1>1, <2>2 DEF Fibers
  <2>4. ready'[i] \in SyncTask /\ ready'[i].kind = "resume" /\ ready'[i].id = f /\ ready'[i].arg = v
    BY <1>2, <1>3, <2>1, <2>2
  <2> HIDE DEF j, f
  <2>5. PlainTasks'[i] = Tasks!Resume(f, v)
    <3> DEFINE x == ready'[i]
    <3>1. x \in SyncTask /\ x.kind = "resume" /\ x.id = f /\ x.arg = v
      BY <2>4
    <3>2. PlainTasks'[i] = PlainTask(x)
      BY <1>4, <2>1
    <3> HIDE DEF x
    <3>3. PlainTask(x) = Tasks!Resume(x.id, x.arg)
      BY <3>1, PlainIs
    <3> QED
      BY <3>1, <3>2, <3>3
  <2> QED
    BY <2>3, <2>5 DEF V0
<1>7. UNCHANGED <<AnySpawned, started, current, paused, panic, halted>>
  BY DEF AnySpawned, schedVars
<1>8. current # Tasks!Idle
  BY DEF Idle, Tasks!Idle
<1> QED
  BY <1>2, <1>3, <1>4, <1>5, <1>6, <1>7, <1>8 DEF Tasks!Request

\* Every step is one of TaskLoop, or changes the notifiers only.
LEMMA StepIsTaskLoop ==
  SyncInv /\ WaitersStarted /\ [Next]_vars => [Tasks!Next]_(Tasks!vars)
<1> SUFFICES ASSUME SyncInv, WaitersStarted, [Next]_vars PROVE [Tasks!Next]_(Tasks!vars)
  OBVIOUS
<1>0. /\ ready \in Seq(SyncTask) /\ Idle = Tasks!Idle
      /\ \A n \in Notifiers : nt[n] \in NotifierState /\ nt[n].pending \in Seq(Fibers)
  <2>1. \A N \in NotifierState : N.pending \in Seq(Fibers)
    BY DEF NotifierState
  <2> QED
    BY <2>1 DEF SyncInv, SyncTypes, Idle, Tasks!Idle
<1>s. StartTask \in SyncTask /\ PlainTask(StartTask) = Tasks!StartTask
  BY DEF StartTask, SyncTask, V0, PlainTask, Tasks!StartTask
<1>1. ASSUME ready' = ready, UNCHANGED <<spawned, started, current, paused, panic, halted>>
      PROVE  UNCHANGED (Tasks!vars)
  BY <1>1 DEF Tasks!vars, PlainTasks, AnySpawned
<1>2. CASE Spawn
  <2>1. AnySpawned' \in BOOLEAN /\ PlainTasks' = PlainTasks
    BY <1>2 DEF Spawn, AnySpawned, PlainTasks
  <2> QED
    BY <1>0, <1>2, <2>1 DEF Spawn, Tasks!SetTimers, Tasks!Next
<1>3. CASE Fire
  <2>1. AnySpawned /\ AnySpawned' \in BOOLEAN
    BY <1>3 DEF Fire, AnySpawned
  <2>2. PlainTasks' = Append(PlainTasks, Tasks!StartTask)
    BY <1>0, <1>s, <1>3, PlainAppend DEF Fire
  <2> QED
    BY <1>0, <1>3, <2>1, <2>2 DEF Fire, Looping, Tasks!Fire, Tasks!Waiting, Tasks!Next
<1>4. CASE Start
  <2>1. /\ PlainTasks # <<>> /\ Head(PlainTasks) = PlainTask(Head(ready))
        /\ Head(ready) \in SyncTask /\ PlainTasks' = Tail(PlainTasks)
    BY <1>0, <1>4, PlainTail DEF Start
  <2>2. Head(PlainTasks).kind = "start"
    BY <1>4, <2>1, PlainIs DEF Start
  <2>3. AnySpawned' = AnySpawned
    BY <1>4 DEF Start, AnySpawned
  <2> QED
    BY <1>0, <1>4, <2>1, <2>2, <2>3
       DEF Start, Looping, Tasks!Start, Tasks!Serving, Tasks!Waiting, Tasks!Next
<1>5. CASE Return
  <2>1. AnySpawned' = AnySpawned /\ PlainTasks' = PlainTasks
    BY <1>5 DEF Return, AnySpawned, PlainTasks, schedVars
  <2> QED
    BY <1>0, <1>5, <2>1 DEF Return, schedVars, Tasks!Return, Tasks!Next
<1>6. CASE ExitCheck
  <2>1. PlainTasks = <<>> /\ ~AnySpawned /\ AnySpawned' = AnySpawned
    BY <1>6 DEF ExitCheck, NothingLeft, AnySpawned, PlainTasks
  <2>2. /\ DOMAIN PlainTasks' = 1 .. Len(PlainTasks')
        /\ Tasks!ResumesInOrder(PlainTasks', paused, Stale)
    BY <1>6, ResumesAll DEF ExitCheck
  <2> QED
    BY <1>0, <1>6, <2>1, <2>2 DEF ExitCheck, NothingLeft, Tasks!ExitCheck, Tasks!Waiting, Tasks!Next
<1>7. CASE InvalidThread
  <2>1. /\ PlainTasks # <<>> /\ Head(PlainTasks) = PlainTask(Head(ready))
        /\ Head(ready) \in SyncTask
    BY <1>0, <1>7, PlainTail DEF InvalidThread
  <2>2. Head(PlainTasks) = Head(ready)
    BY <1>7, <2>1, PlainIs DEF InvalidThread
  <2>3. AnySpawned' \in BOOLEAN /\ PlainTasks' = PlainTasks
    BY <1>7 DEF InvalidThread, AnySpawned, PlainTasks
  <2>4. halted' \in BOOLEAN
    BY <1>7 DEF InvalidThread, SyncInv, SyncTypes
  <2> QED
    BY <1>0, <1>7, <2>1, <2>2, <2>3, <2>4
       DEF InvalidThread, Looping, Tasks!Abort, Tasks!Serving, Tasks!Waiting, Tasks!Next
<1>8. CASE WaitResumed
  <2>1. /\ PlainTasks # <<>> /\ Head(PlainTasks) = PlainTask(Head(ready))
        /\ Head(ready) \in SyncTask /\ PlainTasks' = Tail(PlainTasks)
    BY <1>0, <1>8, PlainTail DEF WaitResumed, Resuming
  <2>2. Head(PlainTasks) = Head(ready)
    BY <1>8, <2>1, PlainIs DEF WaitResumed, Resuming
  <2>3. AnySpawned' = AnySpawned
    BY <1>8 DEF WaitResumed, AnySpawned, schedVars
  <2> QED
    BY <1>0, <1>8, <2>1, <2>2, <2>3
       DEF WaitResumed, Resuming, Looping, Woken, schedVars, Tasks!Wake, Tasks!Serving, Tasks!Waiting,
           Tasks!Next
<1>9. ASSUME NEW n \in Notifiers, Wait(n) PROVE Tasks!Next
  <2>1. AnySpawned' = AnySpawned /\ PlainTasks' = PlainTasks
    BY <1>9 DEF Wait, AnySpawned, PlainTasks, schedVars
  <2> QED
    BY <1>0, <1>9, <2>1 DEF Wait, Suspend, schedVars, Tasks!Suspend, Tasks!Next
<1>10. ASSUME NEW n \in Notifiers, NEW v \in V0, NotifyOne(n, v) PROVE Tasks!Next
  <2> DEFINE f == Head(nt[n].pending)
             s == <<f>>
  <2>1. f \in Fibers /\ f < started
    <3>1. nt[n].pending # <<>>
      BY <1>10 DEF NotifyOne, HasWaiters
    <3>2. f = nt[n].pending[1] /\ 1 \in DOMAIN nt[n].pending /\ f \in Fibers
      BY <1>0, <3>1
    <3> QED
      BY <3>2 DEF WaitersStarted
  <2> HIDE DEF f
  <2>2. s \in Seq(Fibers) /\ \A j \in DOMAIN s : s[j] < started
    BY <2>1
  <2>3. Resumes(s, v) = <<Resume(f, v)>>
    BY DEF Resumes
  <2>4. Resume(f, v) \in SyncTask
    BY <2>1, TaskTypes
  <2>5. ready' = ready \o Resumes(s, v)
    <3>1. ready' = Append(ready, Resume(f, v))
      BY <1>10 DEF NotifyOne, f
    <3> QED
      BY <1>0, <2>3, <2>4, <3>1, AppendIsConcat
  <2>6. current # Idle /\ UNCHANGED <<schedVars, current, paused>>
    BY <1>10 DEF NotifyOne
  <2> HIDE DEF s
  <2> QED
    BY <2>2, <2>5, <2>6, SeenRequest DEF Tasks!Next
<1>11. ASSUME NEW n \in Notifiers, NEW v \in V0, Close(n, v) \/ Error(n, v) PROVE Tasks!Next
  <2> DEFINE s == nt[n].pending
  <2>1. PICK w \in V0 : ready' = ready \o Resumes(s, w)
    BY <1>11 DEF Close, Error, V0
  <2>2. s \in Seq(Fibers) /\ \A j \in DOMAIN s : s[j] < started
    BY <1>0 DEF WaitersStarted
  <2>3. current # Idle /\ UNCHANGED <<schedVars, current, paused>>
    BY <1>11 DEF Close, Error
  <2> HIDE DEF s
  <2> QED
    BY <2>1, <2>2, <2>3, SeenRequest DEF Tasks!Next
<1>12. ASSUME NEW n \in Notifiers, NEW v \in V0, CloseAgain(n, v) \/ ErrorAgain(n, v)
       PROVE  UNCHANGED (Tasks!vars)
  BY <1>1, <1>12 DEF CloseAgain, ErrorAgain, schedVars
<1>13. CASE Exit
  <2>1. PlainTasks' = <<>> /\ AnySpawned' \in BOOLEAN
    BY <1>13 DEF Exit, PlainTasks, AnySpawned
  <2> QED
    BY <1>0, <1>13, <2>1 DEF Exit, Tasks!Exit, Tasks!Next
<1>14. CASE UNCHANGED vars
  BY <1>1, <1>14 DEF vars, syncVars, schedVars
<1> QED
  BY <1>2, <1>3, <1>4, <1>5, <1>6, <1>7, <1>8, <1>9, <1>10, <1>11, <1>12, <1>13, <1>14
     DEF Next, Scheduler, Methods, V0

\* Fibers, tasks, the exit check and exit of Sync, with the notifiers on top,
\* make only steps of TaskLoop, of which RuntimeProofs!RuntimeIsTaskLoop shows
\* start_runtime to be an implementation as well: Sync invents no scheduling
\* that TaskLoop forbids.  That Sync allows all that start_runtime does is not
\* stated.
THEOREM NotifierIsTaskLoop == Spec => Tasks!Spec
<1>1. Init => Tasks!Init
  <2> SUFFICES ASSUME Init PROVE Tasks!Init
    OBVIOUS
  <2>1. PlainTasks = <<Tasks!StartTask>>
    BY DEF Init, SyncInit, PlainTasks, PlainTask, StartTask, Tasks!StartTask
  <2>2. AnySpawned = FALSE /\ current = Tasks!Idle
    BY DEF Init, SyncInit, AnySpawned, Idle, Tasks!Idle
  <2> QED
    BY <2>1, <2>2 DEF Init, SyncInit, Tasks!Init
<1>2. Init => WaitersStarted
  BY DEF Init, SyncInit, WaitersStarted, NewNotifier
<1> QED
  BY <1>1, <1>2, SyncInvHolds, NextWaiters, StepIsTaskLoop, PTL DEF Spec, Tasks!Spec
=============================================================================
