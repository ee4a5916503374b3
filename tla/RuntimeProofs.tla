--------------------------- MODULE RuntimeProofs ---------------------------
(***************************************************************************)
(* Proofs about the scheduler for every number of timers, fibers and clock *)
(* ticks, every set of delays and periods and every queue bound.           *)
(***************************************************************************)
EXTENDS Runtime, SequenceTheorems, TLAPS

-----------------------------------------------------------------------------
(* The tasks.                                                              *)

\* A callback built by register_task's callers is a task.
LEMMA CallbackIsTask ==
  ASSUME NEW k \in {"main", "timer", "ticker"}, NEW u \in Nat
  PROVE  Callback(k, u) \in Task
BY DEF Callback, Task, CallbackTask

\* So is the resumption of a fiber.
LEMMA ThreadIsTask ==
  ASSUME NEW t \in ThreadIds, NEW v \in Args \cup {Stale}
  PROVE  Thread(t, v) \in Task
BY DEF Thread, Task, ThreadTask

\* A task that resumes a fiber names one.
LEMMA ThreadTaskId ==
  ASSUME NEW q \in Task, q.kind = "thread"
  PROVE  q.id \in ThreadIds
BY DEF Task, ThreadTask, CallbackTask

\* A callback task has an id.
LEMMA CallbackTaskUid ==
  ASSUME NEW q \in Task, q.kind # "thread"
  PROVE  q.uid \in Nat
BY DEF Task, ThreadTask, CallbackTask

\* A ticker is rescheduled as a ticker.
LEMMA RescheduledIsEntry ==
  ASSUME NEW e \in TickerEntry, NEW n \in Nat
  PROVE  /\ e.uid \in Nat
         /\ [at |-> n + e.period, uid |-> e.uid, period |-> e.period] \in TickerEntry
<1>1. e.uid \in TimerIds /\ e.period \in Periods
  BY DEF TickerEntry
<1>3. e.period \in Nat
  BY <1>1, RuntimeAssumption
<1>2. n + e.period \in Nat
  BY <1>3
<1> QED
  BY <1>1, <1>2 DEF TickerEntry, TimerIds

-----------------------------------------------------------------------------
(* Types.  A running fiber has been given an id; without this conjunct the *)
(* type of paused and finished is not inductive.                           *)

\* The ids the loop works with were handed out before.
IdsIssued ==
  /\ pc = "running" => uid < nextThread
  /\ \A t \in paused : t < nextThread
  /\ \A e \in timers : e.uid < nextTimer
  /\ \A i \in DOMAIN queue : IsTimerTask(i) => queue[i].uid < nextTimer
  /\ \A u \in fired : u < nextTimer

TypeInv == TypeOK /\ IdsIssued

\* What a fiber leaves on VM::stack when it gives the VM back.
LEMMA LeaveRunType ==
  ASSUME TypeOK, NEW h \in Nat, LeaveRun(h)
  PROVE  /\ pc' \in {"check", "aborted"}
         /\ stack' \in Nat
         /\ panic' \in {"none", "InvalidThreadId", "CorruptedStack"}
BY DEF LeaveRun, TypeOK

\* Init establishes the types.
LEMMA InitTypeInv == Init => TypeInv
BY RuntimeAssumption
   DEF Init, TypeInv, TypeOK, IdsIssued, IsTimerTask, TimerIds, ThreadIds

\* Every step preserves the types.
LEMMA NextTypeInv == TypeInv /\ [Next]_vars => TypeInv'
<1> SUFFICES ASSUME TypeInv, [Next]_vars PROVE TypeInv'
  OBVIOUS
<1> USE RuntimeAssumption DEF TypeInv, TypeOK
<1>1. CASE Tick
  BY <1>1 DEF Tick, loopVars, timerVars, fiberVars, histVars, IdsIssued, IsTimerTask
<1>2. CASE StartProgram
  <2>1. Callback("main", 0) \in Task
    BY CallbackIsTask
  <2>2. Callback("main", 0).kind # "timer"
    BY DEF Callback
  <2> QED
    BY <1>2, <2>1, <2>2 DEF StartProgram, timerVars, fiberVars, histVars, IdsIssued, IsTimerTask
<1>3. CASE LoopHead
  BY <1>3 DEF LoopHead, timerVars, fiberVars, histVars, IdsIssued, IsTimerTask
<1>4. CASE FireTimer
  <2>1. PICK e \in timers :
          /\ queue' = Append(queue, Callback("timer", e.uid))
          /\ timers' = timers \ {e}
    BY <1>4 DEF FireTimer
  <2>2. e.uid \in Nat /\ e.uid < nextTimer
    BY DEF Entry, TimerIds, IdsIssued
  <2>3. Callback("timer", e.uid) \in Task /\ Callback("timer", e.uid).uid = e.uid
    BY <2>2, CallbackIsTask DEF Callback
  <2> QED
    BY <1>4, <2>1, <2>2, <2>3
       DEF FireTimer, loopVars, fiberVars, histVars, IdsIssued, IsTimerTask
<1>5. CASE TimersDone
  BY <1>5 DEF TimersDone, fiberVars, histVars, IdsIssued, IsTimerTask
<1>6. CASE FireTicker
  <2>1. PICK e \in tickers :
          /\ queue' = Append(queue, Callback("ticker", e.uid))
          /\ newly' = MapInsert(newly,
                       [at |-> now + e.period, uid |-> e.uid, period |-> e.period])
          /\ tickers' = tickers \ {e}
    BY <1>6 DEF FireTicker
  <2>2. /\ e.uid \in Nat
        /\ [at |-> now + e.period, uid |-> e.uid, period |-> e.period] \in TickerEntry
    BY RescheduledIsEntry
  <2>3. Callback("ticker", e.uid) \in Task /\ Callback("ticker", e.uid).kind # "timer"
    BY <2>2, CallbackIsTask DEF Callback
  <2>4. newly' \subseteq TickerEntry
    BY <2>1, <2>2 DEF MapInsert
  <2>5. TypeOK'
    BY <1>6, <2>1, <2>3, <2>4 DEF FireTicker, loopVars, fiberVars, histVars
  <2>6. IdsIssued'
    BY <1>6, <2>1, <2>3
       DEF FireTicker, loopVars, fiberVars, histVars, IdsIssued, IsTimerTask
  <2> QED
    BY <2>5, <2>6
<1>7. CASE TickersDone
  BY <1>7 DEF TickersDone, fiberVars, histVars, IdsIssued, IsTimerTask
<1>8. CASE DispatchCallback
  <2>1. Head(queue) \in Task /\ Tail(queue) \in Seq(Task)
    BY <1>8 DEF DispatchCallback
  <2>2. Head(queue).kind = "timer" => Head(queue).uid \in TimerIds
                                      /\ Head(queue).uid < nextTimer
    BY <1>8, <2>1, CallbackTaskUid
       DEF DispatchCallback, IdsIssued, IsTimerTask, TimerIds
  <2>3. fired' \subseteq TimerIds /\ \A u \in fired' : u < nextTimer'
    BY <1>8, <2>2 DEF DispatchCallback, IdsIssued, timerVars
  <2>4. TypeOK'
    BY <1>8, <2>1, <2>3 DEF DispatchCallback, timerVars, ThreadIds
  <2>5. \A i \in DOMAIN queue' : queue'[i] = queue[i + 1] /\ i + 1 \in DOMAIN queue
    BY <1>8 DEF DispatchCallback
  <2>6. \A t \in paused : t \in Nat
    BY DEF ThreadIds
  <2>7. IdsIssued'
    BY <1>8, <2>3, <2>5, <2>6 DEF DispatchCallback, timerVars, IdsIssued, IsTimerTask
  <2> QED
    BY <2>4, <2>7
<1>9. CASE DispatchThread
  <2>1. Head(queue) \in Task /\ Tail(queue) \in Seq(Task)
    BY <1>9 DEF DispatchThread
  <2>2. Head(queue).id \in ThreadIds
    BY <1>9, <2>1, ThreadTaskId DEF DispatchThread
  <2>3. \A i \in DOMAIN queue' : queue'[i] = queue[i + 1] /\ i + 1 \in DOMAIN queue
    BY <1>9 DEF DispatchThread
  <2>4. TypeOK'
    <3>1. stack' \in Nat
      BY <1>9, <2>2 DEF DispatchThread
    <3>2. uid' \in Nat
      BY <1>9, <2>2 DEF DispatchThread, ThreadIds
    <3>3. paused' \subseteq ThreadIds
      BY <1>9 DEF DispatchThread
    <3> QED
      BY <1>9, <2>1, <3>1, <3>2, <3>3 DEF DispatchThread, timerVars, histVars
  <2>5. IdsIssued'
    BY <1>9, <2>3 DEF DispatchThread, timerVars, histVars, IdsIssued, IsTimerTask
  <2> QED
    BY <2>4, <2>5
<1>10. CASE DispatchInvalidThread
  <2>1. TypeOK'
    <3>1. timers' \subseteq Entry
      BY <1>10 DEF DispatchInvalidThread
    <3>3. queue' = <<>>
      BY <1>10 DEF DispatchInvalidThread
    <3>4. queue' \in Seq(Task)
      BY <3>3
    <3>5. running' \in BOOLEAN
      BY <1>10, Zenon DEF DispatchInvalidThread
    <3> QED
      BY <1>10, <3>1, <3>4, <3>5 DEF DispatchInvalidThread, fiberVars, histVars
  <2>2. IdsIssued'
    BY <1>10 DEF DispatchInvalidThread, fiberVars, histVars, IdsIssued, IsTimerTask
  <2> QED
    BY <2>1, <2>2
<1>11. CASE Wait
  BY <1>11 DEF Wait, timerVars, fiberVars, histVars, IdsIssued, IsTimerTask
<1>12. CASE Check
  BY <1>12 DEF Check, timerVars, histVars, IdsIssued, IsTimerTask
<1>13. CASE ResumeStale
  <2>1. PICK t \in stale :
          /\ queue' = Append(queue, Thread(t, Stale))
          /\ stale' = stale \ {t}
          /\ pc' = IF stale = {t} THEN "head" ELSE "stale"
    BY <1>13 DEF ResumeStale
  <2>2. Thread(t, Stale) \in Task /\ Thread(t, Stale).kind # "timer"
    BY ThreadIsTask DEF Thread
  <2> QED
    BY <1>13, <2>1, <2>2 DEF ResumeStale, timerVars, histVars, IdsIssued, IsTimerTask
<1>14. ASSUME NEW d \in Delays, TimerInit(d) PROVE TypeInv'
  <2>1. clock + d \in Nat /\ nextTimer \in TimerIds
    BY <1>14 DEF TimerInit, TimerIds
  <2>2. [at |-> clock + d, uid |-> nextTimer] \in Entry
    BY <2>1 DEF Entry
  <2>3. timers' \subseteq Entry /\ \A e \in timers' : e.uid < nextTimer'
    <3> DEFINE n == [at |-> clock + d, uid |-> nextTimer]
    <3>1. n.uid = nextTimer
      OBVIOUS
    <3>2. timers' \subseteq timers \cup {n} /\ nextTimer' = nextTimer + 1
      BY <1>14 DEF TimerInit, MapInsert
    <3>3. \A e \in timers : e.uid \in Nat /\ e.uid < nextTimer
      BY DEF IdsIssued, Entry, TimerIds
    <3>4. n \in Entry
      BY <2>2
    <3> HIDE DEF n
    <3> QED
      BY <3>1, <3>2, <3>3, <3>4
  <2>4. nextTimer' \in 0 .. MaxTimers /\ nextTimer' > nextTimer
    BY <1>14 DEF TimerInit
  <2>5. TypeOK'
    BY <1>14, <2>1, <2>3, <2>4 DEF TimerInit, loopVars, fiberVars
  <2>6. \A i \in DOMAIN queue : IsTimerTask(i) => queue[i].uid \in Nat
    BY CallbackTaskUid DEF IsTimerTask
  <2>7. IdsIssued'
    BY <1>14, <2>3, <2>4, <2>6
       DEF TimerInit, loopVars, fiberVars, IdsIssued, IsTimerTask, TimerIds
  <2> QED
    BY <2>5, <2>7
<1>15. ASSUME NEW p \in Periods, TickerInit(p) PROVE TypeInv'
  <2>1. clock + p \in Nat /\ nextTimer \in TimerIds
    BY <1>15 DEF TickerInit, TimerIds
  <2>2. [at |-> clock + p, uid |-> nextTimer, period |-> p] \in TickerEntry
    BY <2>1 DEF TickerEntry
  <2>3. tickers' \subseteq TickerEntry
    BY <1>15, <2>2 DEF TickerInit, MapInsert
  <2>4. nextTimer' \in 0 .. MaxTimers /\ nextTimer' > nextTimer
    BY <1>15 DEF TickerInit
  <2>5. TypeOK'
    BY <1>15, <2>1, <2>3, <2>4 DEF TickerInit, loopVars, fiberVars
  <2>6. \A e \in timers : e.uid \in Nat
    BY DEF Entry, TimerIds
  <2>7. \A i \in DOMAIN queue : IsTimerTask(i) => queue[i].uid \in Nat
    BY CallbackTaskUid DEF IsTimerTask
  <2>8. IdsIssued'
    BY <1>15, <2>4, <2>6, <2>7
       DEF TickerInit, loopVars, fiberVars, IdsIssued, IsTimerTask, TimerIds
  <2> QED
    BY <2>5, <2>8
<1>16. ASSUME NEW u \in TimerIds, TimerClear(u) PROVE TypeInv'
  BY <1>16 DEF TimerClear, loopVars, fiberVars, IdsIssued, IsTimerTask
<1>17. ASSUME NEW u \in TimerIds, TickerClear(u) PROVE TypeInv'
  BY <1>17 DEF TickerClear, loopVars, fiberVars, IdsIssued, IsTimerTask
<1>18. ASSUME NEW t \in ThreadIds, NEW v \in Args, FiberResume(t, v) PROVE TypeInv'
  <2>1. Thread(t, v) \in Task /\ Thread(t, v).kind # "timer"
    BY ThreadIsTask DEF Thread
  <2> QED
    BY <1>18, <2>1
       DEF FiberResume, loopVars, timerVars, fiberVars, histVars, IdsIssued, IsTimerTask
<1>19. CASE FiberSuspend
  <2>1. uid \in ThreadIds
    BY <1>19 DEF FiberSuspend, IdsIssued, ThreadIds
  <2>2. /\ pc' \in {"check", "aborted"}
        /\ stack' \in Nat
        /\ panic' \in {"none", "InvalidThreadId", "CorruptedStack"}
    BY <1>19, LeaveRunType DEF FiberSuspend, SuspendedHeight
  <2> QED
    BY <1>19, <2>1, <2>2
       DEF FiberSuspend, timerVars, histVars, IdsIssued, IsTimerTask
<1>20. CASE FiberReturn
  <2>1. uid \in ThreadIds
    BY <1>20 DEF FiberReturn, IdsIssued, ThreadIds
  <2>2. /\ pc' \in {"check", "aborted"}
        /\ stack' \in Nat
        /\ panic' \in {"none", "InvalidThreadId", "CorruptedStack"}
    BY <1>20, <2>1, LeaveRunType DEF FiberReturn
  <2> QED
    BY <1>20, <2>1, <2>2 DEF FiberReturn, timerVars, IdsIssued, IsTimerTask
<1>21. ASSUME NEW s \in {0, 1}, Exit(s) PROVE TypeInv'
  <2>1. uid \in ThreadIds
    BY <1>21 DEF Exit, IdsIssued, ThreadIds
  <2>2. /\ pc' \in {"check", "aborted"}
        /\ stack' \in Nat
        /\ panic' \in {"none", "InvalidThreadId", "CorruptedStack"}
    BY <1>21, <2>1, LeaveRunType DEF Exit
  <2>3. TypeOK'
    <3>1. timers' \subseteq Entry
      BY <1>21 DEF Exit
    <3>3. queue' = <<>>
      BY <1>21 DEF Exit
    <3>4. queue' \in Seq(Task)
      BY <3>3
    <3>5. running' \in BOOLEAN
      BY <1>21, Zenon DEF Exit
    <3>2. finished' \subseteq ThreadIds /\ status' \in {0, 1}
      BY <1>21, <2>1 DEF Exit
    <3> QED
      BY <1>21, <2>2, <3>1, <3>2, <3>4, <3>5 DEF Exit
  <2>4. IdsIssued'
    BY <1>21, <2>2 DEF Exit, IdsIssued, IsTimerTask
  <2> QED
    BY <2>3, <2>4
<1>22. CASE UNCHANGED vars
  BY <1>22 DEF vars, loopVars, timerVars, fiberVars, histVars, IdsIssued, IsTimerTask
<1>23. QED
  BY <1>1, <1>2, <1>3, <1>4, <1>5, <1>6, <1>7, <1>8, <1>9, <1>10, <1>11, <1>12,
     <1>13, <1>14, <1>15, <1>16, <1>17, <1>18, <1>19, <1>20, <1>21, <1>22
     DEF Next, Loop, Fiber

\* The scheduler's state always has its type, and it only works with ids it
\* has handed out.
THEOREM TypeCorrect == Spec => []TypeOK
<1>1. TypeInv => TypeOK
  BY DEF TypeInv
<1> QED
  BY InitTypeInv, NextTypeInv, <1>1, PTL DEF Spec

\* TypeInv, with the issued ids, is an invariant of its own.
LEMMA TypeInvHolds == Spec => []TypeInv
BY InitTypeInv, NextTypeInv, PTL DEF Spec

-----------------------------------------------------------------------------
(* The order of timer callbacks.  TimersInOrder is not inductive: that a   *)
(* callback just taken from the map is not due before those ahead of it    *)
(* needs that these were due by the loop's now, and that a new timer is    *)
(* not due before the loop's now.                                          *)

\* Everything taken from the timers map was due when the loop looked.
DueByNow ==
  /\ now <= clock
  /\ \A e \in timers : e.at = deadline[e.uid]
  /\ \A i \in DOMAIN queue : IsTimerTask(i) => deadline[queue[i].uid] <= now
  /\ \A u \in fired : deadline[u] <= now

OrderInv == TimerOnce /\ DueByNow /\ TimersInOrder

\* Appending keeps the tasks that were there and adds one at the end.
LEMMA AppendTask ==
  ASSUME NEW q \in Seq(Task), NEW x \in Task, NEW r, r = Append(q, x)
  PROVE  /\ DOMAIN q = 1 .. Len(q) /\ Len(q) \in Nat
         /\ DOMAIN r = 1 .. Len(q) + 1
         /\ \A i \in DOMAIN q : r[i] = q[i]
         /\ r[Len(q) + 1] = x
OBVIOUS

\* Popping shifts the remaining tasks by one.
LEMMA PopTask ==
  ASSUME NEW q \in Seq(Task), q # <<>>, NEW r, r = Tail(q)
  PROVE  /\ 1 \in DOMAIN q /\ Head(q) = q[1]
         /\ DOMAIN q \subseteq Nat /\ DOMAIN r \subseteq Nat
         /\ \A i \in DOMAIN r : i + 1 \in DOMAIN q /\ r[i] = q[i + 1] /\ i >= 1
OBVIOUS

\* The values of the deadlines and the timestamps in the map are numbers.
LEMMA TimesAreNat ==
  ASSUME TypeOK
  PROVE  /\ \A u \in TimerIds : deadline[u] \in Nat
         /\ \A e \in timers : e.at \in Nat /\ e.uid \in TimerIds
         /\ now \in Nat /\ clock \in Nat
BY DEF TypeOK, Entry

\* A step that takes no timer from the map, adds no timer callback to the
\* queue and pops none keeps the order.
LEMMA QuietStep ==
  ASSUME TypeInv, OrderInv,
         timers' \subseteq timers, fired' = fired, deadline' = deadline,
         now' \in Nat, clock' \in Nat, now <= now', now' <= clock',
         \/ queue' = queue
         \/ queue' = <<>>
         \/ \E x \in Task : x.kind # "timer" /\ queue' = Append(queue, x)
         \/ queue # <<>> /\ Head(queue).kind # "timer" /\ queue' = Tail(queue)
  PROVE  OrderInv'
<1> USE DEF TypeInv, TypeOK
<1>0. /\ \A u \in fired : u \in TimerIds
      /\ \A i \in DOMAIN queue : IsTimerTask(i) => queue[i].uid \in TimerIds
  BY CallbackTaskUid, RuntimeAssumption DEF IsTimerTask, IdsIssued, TimerIds
<1>1. CASE queue' = queue
  BY <1>0, <1>1, TimesAreNat
     DEF OrderInv, TimerOnce, DueByNow, TimersInOrder, IsTimerTask
<1>2. CASE queue' = <<>>
  BY <1>0, <1>2, TimesAreNat
     DEF OrderInv, TimerOnce, DueByNow, TimersInOrder, IsTimerTask
<1>3. CASE \E x \in Task : x.kind # "timer" /\ queue' = Append(queue, x)
  <2>1. PICK x \in Task : x.kind # "timer" /\ queue' = Append(queue, x)
    BY <1>3
  <2>2. \A i \in DOMAIN queue' :
          IsTimerTask(i)' => i \in DOMAIN queue /\ queue'[i] = queue[i] /\ IsTimerTask(i)
    BY <2>1, AppendTask DEF IsTimerTask
  <2>3. TimerOnce'
    BY <2>2 DEF OrderInv, TimerOnce
  <2>4. DueByNow'
    BY <1>0, <2>2, TimesAreNat DEF OrderInv, DueByNow
  <2>5. TimersInOrder'
    BY <2>2 DEF OrderInv, TimersInOrder
  <2> QED
    BY <2>3, <2>4, <2>5 DEF OrderInv
<1>4. CASE queue # <<>> /\ Head(queue).kind # "timer" /\ queue' = Tail(queue)
  <2>1. /\ DOMAIN queue \subseteq Nat /\ DOMAIN queue' \subseteq Nat
        /\ \A i \in DOMAIN queue' : i + 1 \in DOMAIN queue /\ queue'[i] = queue[i + 1]
    BY <1>4, PopTask
  <2>2. \A i \in DOMAIN queue' : IsTimerTask(i)' => IsTimerTask(i + 1)
    BY <2>1 DEF IsTimerTask
  <2>3. TimerOnce'
    <3>1. ASSUME NEW i \in DOMAIN queue', IsTimerTask(i)'
          PROVE  /\ queue'[i].uid \notin fired'
                 /\ \A e \in timers' : e.uid # queue'[i].uid
      BY <2>1, <2>2, <3>1 DEF OrderInv, TimerOnce
    <3>2. ASSUME NEW i \in DOMAIN queue', NEW j \in DOMAIN queue',
                 IsTimerTask(i)', IsTimerTask(j)', queue'[i].uid = queue'[j].uid
          PROVE  i = j
      <4>1. i + 1 = j + 1
        BY <2>1, <2>2, <3>2 DEF OrderInv, TimerOnce
      <4> QED
        BY <2>1, <4>1
    <3>3. \A e \in timers' :
            e.uid \notin fired' /\ \A o \in timers' : e.uid = o.uid => e = o
      BY DEF OrderInv, TimerOnce
    <3> QED
      BY <3>1, <3>2, <3>3 DEF TimerOnce
  <2>4. DueByNow'
    <3>1. ASSUME NEW i \in DOMAIN queue', IsTimerTask(i)'
          PROVE  deadline'[queue'[i].uid] <= now'
      BY <1>0, <2>1, <2>2, <3>1, TimesAreNat DEF OrderInv, DueByNow
    <3> QED
      BY <1>0, <3>1, TimesAreNat DEF OrderInv, DueByNow
  <2>5. TimersInOrder'
    <3>1. ASSUME NEW i \in DOMAIN queue', NEW j \in DOMAIN queue', i < j,
                 IsTimerTask(i)', IsTimerTask(j)'
          PROVE  deadline'[queue'[i].uid] <= deadline'[queue'[j].uid]
      <4>1. i + 1 < j + 1
        BY <2>1, <3>1
      <4> QED
        BY <2>1, <2>2, <3>1, <4>1 DEF OrderInv, TimersInOrder
    <3>2. ASSUME NEW i \in DOMAIN queue', IsTimerTask(i)'
          PROVE  /\ \A u \in fired' : deadline'[u] <= deadline'[queue'[i].uid]
                 /\ \A e \in timers' : deadline'[queue'[i].uid] <= e.at
      BY <2>1, <2>2, <3>2 DEF OrderInv, TimersInOrder
    <3>3. \A e \in timers', u \in fired' : deadline'[u] <= e.at
      BY DEF OrderInv, TimersInOrder
    <3> QED
      BY <3>1, <3>2, <3>3 DEF TimersInOrder
  <2> QED
    BY <2>3, <2>4, <2>5 DEF OrderInv
<1> QED
  BY <1>1, <1>2, <1>3, <1>4

\* Moving the first expired timer to the queue keeps the order.
LEMMA FireTimerStep ==
  ASSUME TypeInv, OrderInv, FireTimer
  PROVE  OrderInv'
<1> USE DEF TypeInv, TypeOK
<1>1. PICK e \in timers :
        /\ IsExpiredFront(timers, e)
        /\ queue' = Append(queue, Callback("timer", e.uid))
        /\ timers' = timers \ {e}
  BY DEF FireTimer
<1>2. /\ fired' = fired /\ deadline' = deadline /\ now' = now /\ clock' = clock
  BY DEF FireTimer, histVars, loopVars
<1>3. e.uid \in TimerIds /\ e.uid \in Nat /\ e.at \in Nat
  BY DEF Entry, TimerIds
<1>4. /\ Callback("timer", e.uid) \in Task
      /\ Callback("timer", e.uid).uid = e.uid
      /\ Callback("timer", e.uid).kind = "timer"
  BY <1>3, CallbackIsTask DEF Callback
<1>5. e.at <= now /\ \A o \in timers : e.at <= o.at
  BY <1>1 DEF IsExpiredFront
<1>6. /\ DOMAIN queue = 1 .. Len(queue) /\ Len(queue) \in Nat
      /\ DOMAIN queue' = 1 .. Len(queue) + 1
      /\ \A i \in DOMAIN queue : queue'[i] = queue[i]
      /\ queue'[Len(queue) + 1] = Callback("timer", e.uid)
  BY <1>1, <1>4, AppendTask
<1>7. e.at = deadline[e.uid]
  BY DEF OrderInv, DueByNow
<1>8. \A i \in DOMAIN queue' :
        \/ i \in DOMAIN queue /\ queue'[i] = queue[i] /\ (IsTimerTask(i)' <=> IsTimerTask(i))
        \/ i = Len(queue) + 1 /\ queue'[i].uid = e.uid
  BY <1>4, <1>6 DEF IsTimerTask
<1>9. TimerOnce'
  BY <1>1, <1>2, <1>6, <1>8 DEF OrderInv, TimerOnce
<1>10. DueByNow'
  BY <1>1, <1>2, <1>5, <1>7, <1>8 DEF OrderInv, DueByNow
<1>11. TimersInOrder'
  <2>1. \A i, j \in DOMAIN queue' : i < j /\ IsTimerTask(i)' /\ IsTimerTask(j)'
          => deadline'[queue'[i].uid] <= deadline'[queue'[j].uid]
    BY <1>2, <1>6, <1>7, <1>8 DEF OrderInv, TimersInOrder
  <2>2. \A i \in DOMAIN queue', u \in fired' :
          IsTimerTask(i)' => deadline'[u] <= deadline'[queue'[i].uid]
    BY <1>2, <1>7, <1>8 DEF OrderInv, TimersInOrder
  <2>3. \A o \in timers' : \A i \in DOMAIN queue' :
          IsTimerTask(i)' => deadline'[queue'[i].uid] <= o.at
    BY <1>1, <1>2, <1>5, <1>7, <1>8 DEF OrderInv, TimersInOrder
  <2>4. \A o \in timers' : \A u \in fired' : deadline'[u] <= o.at
    BY <1>1, <1>2 DEF OrderInv, TimersInOrder
  <2> QED
    BY <2>1, <2>2, <2>3, <2>4 DEF TimersInOrder
<1> QED
  BY <1>9, <1>10, <1>11 DEF OrderInv

\* Dispatching the first callback of the queue keeps the order.
LEMMA DispatchCallbackStep ==
  ASSUME TypeInv, OrderInv, DispatchCallback
  PROVE  OrderInv'
<1> USE DEF TypeInv, TypeOK
<1>1. /\ queue # <<>> /\ queue' = Tail(queue)
      /\ timers' = timers /\ deadline' = deadline /\ now' = now /\ clock' = clock
  BY DEF DispatchCallback, timerVars
<1>2. CASE Head(queue).kind # "timer"
  BY <1>1, <1>2, QuietStep DEF DispatchCallback, OrderInv, DueByNow
<1>3. CASE Head(queue).kind = "timer"
  <2>1. /\ 1 \in DOMAIN queue /\ Head(queue) = queue[1]
        /\ DOMAIN queue \subseteq Nat /\ DOMAIN queue' \subseteq Nat
        /\ \A i \in DOMAIN queue' :
             i + 1 \in DOMAIN queue /\ queue'[i] = queue[i + 1] /\ i >= 1
    BY <1>1, PopTask
  <2>2. fired' = fired \cup {queue[1].uid} /\ IsTimerTask(1)
    BY <1>3, <2>1 DEF DispatchCallback, IsTimerTask
  <2>3. \A i \in DOMAIN queue' : IsTimerTask(i)' => IsTimerTask(i + 1)
    BY <2>1 DEF IsTimerTask
  <2>4. \A i \in DOMAIN queue' : IsTimerTask(i)' => queue'[i].uid \notin fired'
    BY <2>1, <2>2, <2>3 DEF OrderInv, TimerOnce
  <2>5. TimerOnce'
    BY <1>1, <2>1, <2>2, <2>3, <2>4 DEF OrderInv, TimerOnce
  <2>6. DueByNow'
    BY <1>1, <2>1, <2>2, <2>3 DEF OrderInv, DueByNow
  <2>7. TimersInOrder'
    <3>1. ASSUME NEW i \in DOMAIN queue', NEW j \in DOMAIN queue', i < j,
                 IsTimerTask(i)', IsTimerTask(j)'
          PROVE  deadline'[queue'[i].uid] <= deadline'[queue'[j].uid]
      <4>1. i + 1 < j + 1
        BY <2>1, <3>1
      <4> QED
        BY <1>1, <2>1, <2>3, <3>1, <4>1 DEF OrderInv, TimersInOrder
    <3>2. ASSUME NEW i \in DOMAIN queue', IsTimerTask(i)', NEW u \in fired'
          PROVE  deadline'[u] <= deadline'[queue'[i].uid]
      <4>1. CASE u \in fired
        BY <1>1, <2>1, <2>3, <3>2, <4>1 DEF OrderInv, TimersInOrder
      <4>2. CASE u = queue[1].uid
        <5>1. 1 < i + 1
          BY <2>1
        <5> QED
          BY <1>1, <2>1, <2>2, <2>3, <3>2, <4>2, <5>1 DEF OrderInv, TimersInOrder
      <4> QED
        BY <2>2, <4>1, <4>2
    <3>3. ASSUME NEW e \in timers'
          PROVE  /\ \A i \in DOMAIN queue' :
                      IsTimerTask(i)' => deadline'[queue'[i].uid] <= e.at
                 /\ \A u \in fired' : deadline'[u] <= e.at
      BY <1>1, <2>1, <2>2, <2>3 DEF OrderInv, TimersInOrder
    <3> QED
      BY <3>1, <3>2, <3>3 DEF TimersInOrder
  <2> QED
    BY <2>5, <2>6, <2>7 DEF OrderInv
<1> QED
  BY <1>2, <1>3

\* A new timer is due no earlier than everything the loop already took.
LEMMA TimerInitStep ==
  ASSUME TypeInv, OrderInv, NEW d \in Delays, TimerInit(d)
  PROVE  OrderInv'
<1> USE DEF TypeInv, TypeOK
<1> DEFINE n == [at |-> clock + d, uid |-> nextTimer]
<1>1. /\ timers' = timers \/ timers' = timers \cup {n}
      /\ deadline' = [deadline EXCEPT ![nextTimer] = clock + d]
      /\ queue' = queue /\ fired' = fired /\ now' = now /\ clock' = clock
  BY DEF TimerInit, MapInsert, loopVars
<1>a. nextTimer \in TimerIds
  BY RuntimeAssumption DEF TimerInit, TimerIds
<1>2. d \in Nat /\ clock + d \in Nat /\ now <= clock + d
  BY RuntimeAssumption DEF OrderInv, DueByNow
<1>3. /\ \A u \in fired : u # nextTimer /\ u \in TimerIds
      /\ \A i \in DOMAIN queue :
           IsTimerTask(i) => queue[i].uid # nextTimer /\ queue[i].uid \in TimerIds
      /\ \A e \in timers : e.uid # nextTimer /\ e.uid \in TimerIds
  BY CallbackTaskUid, RuntimeAssumption DEF IdsIssued, IsTimerTask, TimerIds, Entry
<1>4. /\ deadline'[nextTimer] = clock + d
      /\ \A u \in TimerIds : u # nextTimer => deadline'[u] = deadline[u]
  BY <1>1, <1>a
<1>5. \A i \in DOMAIN queue : IsTimerTask(i)' <=> IsTimerTask(i)
  BY <1>1 DEF IsTimerTask
<1>6. n.uid = nextTimer /\ n.at = clock + d
  OBVIOUS
<1> HIDE DEF n
<1>7. TimerOnce'
  BY <1>1, <1>3, <1>5, <1>6 DEF OrderInv, TimerOnce
<1>8. DueByNow'
  BY <1>1, <1>3, <1>4, <1>5, <1>6 DEF OrderInv, DueByNow
<1>9. TimersInOrder'
  <2>1. /\ \A u \in fired : deadline[u] \in Nat /\ deadline[u] <= now
        /\ \A i \in DOMAIN queue : IsTimerTask(i) =>
             deadline[queue[i].uid] \in Nat /\ deadline[queue[i].uid] <= now
    BY <1>3 DEF OrderInv, DueByNow
  <2> QED
    BY <1>1, <1>2, <1>3, <1>4, <1>5, <1>6, <2>1 DEF OrderInv, TimersInOrder
<1> QED
  BY <1>7, <1>8, <1>9 DEF OrderInv

\* Initially nothing is scheduled.
LEMMA InitOrderInv == Init => OrderInv
BY DEF Init, OrderInv, TimerOnce, DueByNow, TimersInOrder, IsTimerTask

\* Every step keeps timer callbacks single, not early and in order.
LEMMA NextOrderInv == TypeInv /\ OrderInv /\ [Next]_vars => OrderInv'
<1> SUFFICES ASSUME TypeInv, OrderInv, [Next]_vars PROVE OrderInv'
  OBVIOUS
<1>0. now \in Nat /\ clock \in Nat /\ now <= clock /\ queue \in Seq(Task)
  BY DEF TypeInv, TypeOK, OrderInv, DueByNow
<1>1. CASE Tick
  BY <1>0, <1>1, QuietStep DEF Tick, loopVars, timerVars, histVars
<1>2. CASE StartProgram
  <2>1. Callback("main", 0) \in Task /\ Callback("main", 0).kind # "timer"
    BY CallbackIsTask DEF Callback
  <2> QED
    BY <1>0, <1>2, <2>1, QuietStep DEF StartProgram, timerVars, histVars
<1>3. CASE LoopHead
  BY <1>0, <1>3, QuietStep DEF LoopHead, timerVars, histVars
<1>4. CASE FireTimer
  BY <1>4, FireTimerStep
<1>5. CASE TimersDone
  BY <1>0, <1>5, QuietStep DEF TimersDone, histVars
<1>6. CASE FireTicker
  <2>1. PICK e \in tickers : queue' = Append(queue, Callback("ticker", e.uid))
    BY <1>6 DEF FireTicker
  <2>2. e.uid \in Nat
    BY RescheduledIsEntry, <1>0 DEF TypeInv, TypeOK
  <2>3. /\ Callback("ticker", e.uid) \in Task
        /\ Callback("ticker", e.uid).kind # "timer"
    BY <2>2, CallbackIsTask DEF Callback
  <2> QED
    BY <1>0, <1>6, <2>1, <2>3, QuietStep DEF FireTicker, loopVars, histVars
<1>7. CASE TickersDone
  BY <1>0, <1>7, QuietStep DEF TickersDone, histVars
<1>8. CASE DispatchCallback
  BY <1>8, DispatchCallbackStep
<1>9. CASE DispatchThread
  <2>1. /\ queue # <<>> /\ Head(queue).kind # "timer" /\ queue' = Tail(queue)
        /\ UNCHANGED <<timers, fired, deadline, now, clock>>
    BY <1>9 DEF DispatchThread, timerVars, histVars
  <2> QED
    BY <1>0, <2>1, QuietStep
<1>10. CASE DispatchInvalidThread
  <2>1. /\ queue' = <<>> /\ timers' \subseteq timers
        /\ UNCHANGED <<fired, deadline, now, clock>>
    BY <1>10 DEF DispatchInvalidThread, histVars
  <2> QED
    BY <1>0, <2>1, QuietStep
<1>11. CASE Wait
  BY <1>0, <1>11, QuietStep DEF Wait, timerVars, histVars
<1>12. CASE Check
  BY <1>0, <1>12, QuietStep DEF Check, timerVars, histVars
<1>13. CASE ResumeStale
  <2>1. PICK t \in stale : queue' = Append(queue, Thread(t, Stale))
    BY <1>13 DEF ResumeStale
  <2>2. Thread(t, Stale) \in Task /\ Thread(t, Stale).kind # "timer"
    BY ThreadIsTask DEF Thread, TypeInv, TypeOK
  <2> QED
    BY <1>0, <1>13, <2>1, <2>2, QuietStep DEF ResumeStale, timerVars, histVars
<1>14. ASSUME NEW d \in Delays, TimerInit(d) PROVE OrderInv'
  BY <1>14, TimerInitStep
<1>15. ASSUME NEW p \in Periods, TickerInit(p) PROVE OrderInv'
  <2>1. /\ queue' = queue /\ timers' = timers /\ fired' = fired
        /\ now' = now /\ clock' = clock
        /\ deadline' = [deadline EXCEPT ![nextTimer] = clock + p]
    BY <1>15 DEF TickerInit, loopVars
  <2>2. /\ \A u \in fired : deadline'[u] = deadline[u]
        /\ \A i \in DOMAIN queue :
             IsTimerTask(i) => deadline'[queue[i].uid] = deadline[queue[i].uid]
        /\ \A e \in timers : deadline'[e.uid] = deadline[e.uid]
    <3>1. nextTimer \in Nat /\ deadline \in [TimerIds -> Nat]
      BY DEF TypeInv, TypeOK
    <3>2. \A u \in TimerIds : u # nextTimer => deadline'[u] = deadline[u]
      BY <2>1, <3>1
    <3>3. \A u \in fired : u \in TimerIds /\ u # nextTimer
      BY <3>1 DEF TypeInv, TypeOK, IdsIssued, TimerIds
    <3>4. \A e \in timers : e.uid \in TimerIds /\ e.uid # nextTimer
      BY <3>1 DEF TypeInv, TypeOK, IdsIssued, Entry, TimerIds
    <3>5. \A i \in DOMAIN queue :
            IsTimerTask(i) => queue[i].uid \in TimerIds /\ queue[i].uid # nextTimer
      BY <3>1, CallbackTaskUid, RuntimeAssumption
         DEF TypeInv, TypeOK, IdsIssued, IsTimerTask, TimerIds
    <3> QED
      BY <3>2, <3>3, <3>4, <3>5
  <2>3. \A i \in DOMAIN queue : IsTimerTask(i)' <=> IsTimerTask(i)
    BY <2>1 DEF IsTimerTask
  <2> QED
    BY <2>1, <2>2, <2>3 DEF OrderInv, TimerOnce, DueByNow, TimersInOrder
<1>16. ASSUME NEW u \in TimerIds, TimerClear(u) PROVE OrderInv'
  BY <1>0, <1>16, QuietStep DEF TimerClear, loopVars
<1>17. ASSUME NEW u \in TimerIds, TickerClear(u) PROVE OrderInv'
  BY <1>0, <1>17, QuietStep DEF TickerClear, loopVars
<1>18. ASSUME NEW t \in ThreadIds, NEW v \in Args, FiberResume(t, v) PROVE OrderInv'
  <2>1. Thread(t, v) \in Task /\ Thread(t, v).kind # "timer"
    BY ThreadIsTask DEF Thread
  <2> QED
    BY <1>0, <1>18, <2>1, QuietStep DEF FiberResume, loopVars, timerVars, histVars
<1>19. CASE FiberSuspend
  BY <1>0, <1>19, QuietStep DEF FiberSuspend, timerVars, histVars
<1>20. CASE FiberReturn
  BY <1>0, <1>20, QuietStep DEF FiberReturn, timerVars
<1>21. ASSUME NEW s \in {0, 1}, Exit(s) PROVE OrderInv'
  <2>1. /\ queue' = <<>> /\ timers' \subseteq timers
        /\ UNCHANGED <<fired, deadline, now, clock>>
    BY <1>21 DEF Exit
  <2> QED
    BY <1>0, <2>1, QuietStep
<1>22. CASE UNCHANGED vars
  BY <1>0, <1>22, QuietStep DEF vars, loopVars, timerVars, histVars
<1>23. QED
  BY <1>1, <1>2, <1>3, <1>4, <1>5, <1>6, <1>7, <1>8, <1>9, <1>10, <1>11, <1>12,
     <1>13, <1>14, <1>15, <1>16, <1>17, <1>18, <1>19, <1>20, <1>21, <1>22
     DEF Next, Loop, Fiber

\* OrderInv is invariant.
LEMMA OrderInvHolds == Spec => []OrderInv
BY InitOrderInv, NextOrderInv, TypeInvHolds, PTL DEF Spec

\* The callback of a timer never runs twice.
THEOREM TimerCallbackOnce == Spec => []TimerOnce
<1>1. OrderInv => TimerOnce
  BY DEF OrderInv
<1> QED
  BY OrderInvHolds, <1>1, PTL

\* No timer callback runs before its deadline.
THEOREM TimerCallbackNeverEarly == Spec => []NeverEarly
<1>1. TypeInv /\ OrderInv => NeverEarly
  <2> SUFFICES ASSUME TypeInv, OrderInv PROVE NeverEarly
    OBVIOUS
  <2>1. /\ \A u \in fired : deadline[u] \in Nat
        /\ \A i \in DOMAIN queue : IsTimerTask(i) => deadline[queue[i].uid] \in Nat
    <3>1. \A u \in fired : deadline[u] \in Nat
      BY DEF TypeInv, TypeOK
    <3>2. \A i \in DOMAIN queue : IsTimerTask(i) => queue[i].uid \in TimerIds
      BY CallbackTaskUid, RuntimeAssumption
         DEF TypeInv, TypeOK, IdsIssued, IsTimerTask, TimerIds
    <3> QED
      BY <3>1, <3>2 DEF TypeInv, TypeOK
  <2> QED
    BY <2>1 DEF TypeInv, TypeOK, OrderInv, DueByNow, NeverEarly
<1> QED
  BY OrderInvHolds, TypeInvHolds, <1>1, PTL

\* Timer callbacks run in the order of their deadlines.
THEOREM TimerCallbacksInOrder == Spec => []TimersInOrder
<1>1. OrderInv => TimersInOrder
  BY DEF OrderInv
<1> QED
  BY OrderInvHolds, <1>1, PTL

-----------------------------------------------------------------------------
(* Fibers.                                                                 *)

\* Initially there is no fiber.
LEMMA InitFibers == Init => FiberConservation
BY DEF Init, FiberConservation, IsCurrent

\* A step that neither starts, resumes nor ends a fiber keeps them.
LEMMA FibersUntouched ==
  ASSUME FiberConservation, pc # "running", pc' # "running",
         UNCHANGED <<paused, finished, nextThread>>
  PROVE  FiberConservation'
BY DEF FiberConservation, IsCurrent

\* A step of the running fiber that keeps the VM keeps them.
LEMMA FiberContinues ==
  ASSUME FiberConservation, UNCHANGED <<pc, uid, paused, finished, nextThread>>
  PROVE  FiberConservation'
BY DEF FiberConservation, IsCurrent

\* Every step keeps every fiber, once.
LEMMA NextFibers ==
  TypeInv /\ FiberConservation /\ [Next]_vars => FiberConservation'
<1> SUFFICES ASSUME TypeInv, FiberConservation, [Next]_vars PROVE FiberConservation'
  OBVIOUS
<1>0. nextThread \in Nat /\ uid \in Nat /\ base \in [ThreadIds -> Nat]
  BY RuntimeAssumption DEF TypeInv, TypeOK
<1>1. CASE Tick
  BY <1>1, FiberContinues DEF Tick, loopVars, fiberVars, histVars
<1>2. CASE StartProgram
  BY <1>2, FibersUntouched DEF StartProgram, fiberVars, histVars
<1>3. CASE LoopHead
  BY <1>3, FibersUntouched DEF LoopHead, fiberVars, histVars
<1>4. CASE FireTimer
  BY <1>4, FiberContinues DEF FireTimer, loopVars, fiberVars, histVars
<1>5. CASE TimersDone
  BY <1>5, FibersUntouched DEF TimersDone, fiberVars, histVars
<1>6. CASE FireTicker
  BY <1>6, FiberContinues DEF FireTicker, loopVars, fiberVars, histVars
<1>7. CASE TickersDone
  BY <1>7, FibersUntouched DEF TickersDone, fiberVars, histVars
<1>8. CASE DispatchCallback
  <2>1. /\ pc # "running" /\ pc' = "running" /\ uid' = nextThread
        /\ nextThread' = nextThread + 1
        /\ paused' = paused /\ finished' = finished
    BY <1>8 DEF DispatchCallback
  <2> QED
    BY <1>0, <2>1 DEF FiberConservation, IsCurrent
<1>9. CASE DispatchThread
  <2>1. PICK t : /\ t \in paused /\ paused' = paused \ {t} /\ uid' = t
                 /\ pc # "running" /\ pc' = "running"
                 /\ nextThread' = nextThread /\ finished' = finished
    BY <1>9 DEF DispatchThread, histVars
  <2> QED
    BY <1>0, <2>1 DEF FiberConservation, IsCurrent
<1>10. CASE DispatchInvalidThread
  BY <1>10, FibersUntouched DEF DispatchInvalidThread, fiberVars, histVars
<1>11. CASE Wait
  BY <1>11, FibersUntouched DEF Wait, fiberVars, histVars
<1>12. CASE Check
  BY <1>12, FibersUntouched DEF Check, histVars
<1>13. CASE ResumeStale
  BY <1>13, FibersUntouched DEF ResumeStale, histVars
<1>14. ASSUME NEW d \in Delays, TimerInit(d) PROVE FiberConservation'
  BY <1>14, FiberContinues DEF TimerInit, loopVars, fiberVars
<1>15. ASSUME NEW p \in Periods, TickerInit(p) PROVE FiberConservation'
  BY <1>15, FiberContinues DEF TickerInit, loopVars, fiberVars
<1>16. ASSUME NEW u \in TimerIds, TimerClear(u) PROVE FiberConservation'
  BY <1>16, FiberContinues DEF TimerClear, loopVars, fiberVars
<1>17. ASSUME NEW u \in TimerIds, TickerClear(u) PROVE FiberConservation'
  BY <1>17, FiberContinues DEF TickerClear, loopVars, fiberVars
<1>18. ASSUME NEW t \in ThreadIds, NEW v \in Args, FiberResume(t, v)
       PROVE  FiberConservation'
  BY <1>18, FiberContinues DEF FiberResume, loopVars, fiberVars, histVars
<1>19. CASE FiberSuspend
  <2>1. pc = "running" /\ pc' # "running" /\ paused' = paused \cup {uid}
    BY <1>19 DEF FiberSuspend, LeaveRun
  <2>2. UNCHANGED <<uid, nextThread, finished>>
    BY <1>19 DEF FiberSuspend, histVars
  <2> QED
    BY <1>0, <2>1, <2>2 DEF FiberConservation, IsCurrent
<1>20. CASE FiberReturn
  <2>1. pc = "running" /\ pc' # "running" /\ finished' = finished \cup {uid}
    BY <1>20 DEF FiberReturn, LeaveRun
  <2>2. UNCHANGED <<uid, nextThread, paused>>
    BY <1>20 DEF FiberReturn
  <2> QED
    BY <1>0, <2>1, <2>2 DEF FiberConservation, IsCurrent
<1>21. ASSUME NEW s \in {0, 1}, Exit(s) PROVE FiberConservation'
  <2>1. pc = "running" /\ pc' # "running" /\ finished' = finished \cup {uid}
    BY <1>21 DEF Exit, LeaveRun
  <2>2. UNCHANGED <<uid, nextThread, paused>>
    BY <1>21 DEF Exit
  <2> QED
    BY <1>0, <2>1, <2>2 DEF FiberConservation, IsCurrent
<1>22. CASE UNCHANGED vars
  BY <1>22, FiberContinues DEF vars, loopVars, fiberVars, histVars
<1>23. QED
  BY <1>1, <1>2, <1>3, <1>4, <1>5, <1>6, <1>7, <1>8, <1>9, <1>10, <1>11, <1>12,
     <1>13, <1>14, <1>15, <1>16, <1>17, <1>18, <1>19, <1>20, <1>21, <1>22
     DEF Next, Loop, Fiber

\* No fiber is lost, runs while it is paused, or runs after it ended.
THEOREM FibersConserved == Spec => []FiberConservation
BY InitFibers, NextFibers, TypeInvHolds, PTL DEF Spec

-----------------------------------------------------------------------------
(* Tickers.  TickerOnce is not inductive: an entry start_runtime is about  *)
(* to reschedule must not be among the rescheduled ones already, nobody    *)
(* may clear an id while entries are outside the map, and an id that was   *)
(* never handed out cannot have been cleared.                              *)

\* Rescheduled entries are outside the map, and only while start_runtime
\* goes through the tickers; scheduled and cleared ids were handed out.
TickersApart ==
  /\ pc # "tickers" => newly = {}
  /\ tickers \cap newly = {}
  /\ \A e \in tickers \cup newly : e.uid < nextTimer
  /\ \A u \in stopped : u < nextTimer

TickerInv == TickerOnce /\ TickersApart

\* A step that leaves the tickers alone and is not the one that ends their
\* rescheduling keeps them.
LEMMA TickersUntouched ==
  ASSUME TickerInv, UNCHANGED <<tickers, newly, nextTimer, stopped>>,
         pc = "tickers" => pc' = "tickers"
  PROVE  TickerInv'
BY DEF TickerInv, TickerOnce, TickersApart

\* Initially there is no ticker.
LEMMA InitTickers == Init => TickerInv
BY DEF Init, TickerInv, TickerOnce, TickersApart

\* Rescheduling an expired ticker moves its entry out of the map.
LEMMA FireTickerStep ==
  ASSUME TypeInv, TickerInv, FireTicker
  PROVE  TickerInv'
<1>1. PICK e \in tickers :
        /\ newly' = MapInsert(newly,
                     [at |-> now + e.period, uid |-> e.uid, period |-> e.period])
        /\ tickers' = tickers \ {e}
  BY DEF FireTicker
<1>2. pc' = "tickers" /\ nextTimer' = nextTimer /\ stopped' = stopped
  BY DEF FireTicker, loopVars, histVars
<1> DEFINE n == [at |-> now + e.period, uid |-> e.uid, period |-> e.period]
<1>3. n.uid = e.uid
  OBVIOUS
<1>4. newly' \subseteq newly \cup {n}
  BY <1>1 DEF MapInsert
<1> HIDE DEF n
<1>5. \A o \in tickers' \cup newly : o \in tickers \cup newly /\ o.uid # e.uid
  BY <1>1 DEF TickerInv, TickerOnce, TickersApart
<1>6. TickerOnce'
  BY <1>2, <1>3, <1>4, <1>5 DEF TickerInv, TickerOnce
<1>7. TickersApart'
  BY <1>1, <1>2, <1>3, <1>4, <1>5 DEF TickerInv, TickersApart
<1> QED
  BY <1>6, <1>7 DEF TickerInv

\* A new ticker has an id nobody knew.
LEMMA TickerInitStep ==
  ASSUME TypeInv, TickerInv, NEW p \in Periods, TickerInit(p)
  PROVE  TickerInv'
<1> DEFINE n == [at |-> clock + p, uid |-> nextTimer, period |-> p]
<1>1. n.uid = nextTimer
  OBVIOUS
<1>2. /\ tickers' \subseteq tickers \cup {n}
      /\ newly' = newly /\ stopped' = stopped /\ pc' = "running" /\ pc = "running"
      /\ nextTimer' = nextTimer + 1
  BY DEF TickerInit, MapInsert, loopVars
<1> HIDE DEF n
<1>3. newly = {} /\ nextTimer \in Nat
  BY <1>2, RuntimeAssumption DEF TickerInv, TickersApart, TypeInv, TypeOK
<1>4. /\ \A e \in tickers : e.uid \in Nat /\ e.uid < nextTimer
      /\ \A u \in stopped : u \in Nat /\ u < nextTimer
  BY DEF TickerInv, TickersApart, TypeInv, TypeOK, TickerEntry, TimerIds
<1>5. TickerOnce'
  BY <1>1, <1>2, <1>3, <1>4 DEF TickerInv, TickerOnce
<1>6. TickersApart'
  BY <1>1, <1>2, <1>3, <1>4 DEF TickersApart
<1> QED
  BY <1>5, <1>6 DEF TickerInv

\* Every step keeps every ticker scheduled at most once.
LEMMA NextTickers == TypeInv /\ TickerInv /\ [Next]_vars => TickerInv'
<1> SUFFICES ASSUME TypeInv, TickerInv, [Next]_vars PROVE TickerInv'
  OBVIOUS
<1>1. CASE Tick
  BY <1>1, TickersUntouched DEF Tick, loopVars, timerVars, histVars
<1>2. CASE StartProgram
  BY <1>2, TickersUntouched DEF StartProgram, timerVars, histVars
<1>3. CASE LoopHead
  BY <1>3, TickersUntouched DEF LoopHead, timerVars, histVars
<1>4. CASE FireTimer
  BY <1>4, TickersUntouched DEF FireTimer, loopVars, histVars
<1>5. CASE TimersDone
  <2>1. newly = {}
    BY <1>5 DEF TimersDone, TickerInv, TickersApart
  <2> QED
    BY <1>5, <2>1, TickersUntouched DEF TimersDone, histVars
<1>6. CASE FireTicker
  BY <1>6, FireTickerStep
<1>7. CASE TickersDone
  <2>1. /\ tickers' \subseteq tickers \cup newly /\ newly' = {}
        /\ nextTimer' = nextTimer /\ stopped' = stopped
    BY <1>7 DEF TickersDone, histVars
  <2> QED
    BY <2>1 DEF TickerInv, TickerOnce, TickersApart
<1>8. CASE DispatchCallback
  BY <1>8, TickersUntouched DEF DispatchCallback, timerVars
<1>9. CASE DispatchThread
  BY <1>9, TickersUntouched DEF DispatchThread, timerVars, histVars
<1>10. CASE DispatchInvalidThread
  BY <1>10, TickersUntouched DEF DispatchInvalidThread, histVars
<1>11. CASE Wait
  BY <1>11, TickersUntouched DEF Wait, timerVars, histVars
<1>12. CASE Check
  BY <1>12, TickersUntouched DEF Check, timerVars, histVars
<1>13. CASE ResumeStale
  BY <1>13, TickersUntouched DEF ResumeStale, timerVars, histVars
<1>14. ASSUME NEW d \in Delays, TimerInit(d) PROVE TickerInv'
  <2>1. /\ UNCHANGED <<tickers, newly, stopped, pc>>
        /\ nextTimer' = nextTimer + 1 /\ nextTimer \in Nat
    BY <1>14, RuntimeAssumption DEF TimerInit, loopVars, TypeInv, TypeOK
  <2>2. /\ \A e \in tickers \cup newly : e.uid \in Nat
        /\ \A u \in stopped : u \in Nat
    BY DEF TypeInv, TypeOK, TickerEntry, TimerIds
  <2>3. /\ \A e \in tickers \cup newly : e.uid < nextTimer + 1
        /\ \A u \in stopped : u < nextTimer + 1
    BY <2>1, <2>2 DEF TickerInv, TickersApart
  <2> QED
    BY <2>1, <2>3 DEF TickerInv, TickerOnce, TickersApart
<1>15. ASSUME NEW p \in Periods, TickerInit(p) PROVE TickerInv'
  BY <1>15, TickerInitStep
<1>16. ASSUME NEW u \in TimerIds, TimerClear(u) PROVE TickerInv'
  BY <1>16, TickersUntouched DEF TimerClear, loopVars
<1>17. ASSUME NEW u \in TimerIds, TickerClear(u) PROVE TickerInv'
  <2>1. newly = {} /\ newly' = {} /\ nextTimer' = nextTimer /\ u < nextTimer
    BY <1>17 DEF TickerClear, TickerInv, TickersApart
  <2>2. tickers' = {e \in tickers : e.uid # u} /\ stopped' = stopped \cup {u}
    BY <1>17 DEF TickerClear
  <2> QED
    BY <2>1, <2>2 DEF TickerInv, TickerOnce, TickersApart
<1>18. ASSUME NEW t \in ThreadIds, NEW v \in Args, FiberResume(t, v) PROVE TickerInv'
  BY <1>18, TickersUntouched DEF FiberResume, loopVars, timerVars, histVars
<1>19. CASE FiberSuspend
  BY <1>19, TickersUntouched DEF FiberSuspend, timerVars, histVars
<1>20. CASE FiberReturn
  BY <1>20, TickersUntouched DEF FiberReturn, timerVars
<1>21. ASSUME NEW s \in {0, 1}, Exit(s) PROVE TickerInv'
  BY <1>21, TickersUntouched DEF Exit
<1>22. CASE UNCHANGED vars
  BY <1>22, TickersUntouched DEF vars, loopVars, timerVars, histVars
<1>23. QED
  BY <1>1, <1>2, <1>3, <1>4, <1>5, <1>6, <1>7, <1>8, <1>9, <1>10, <1>11, <1>12,
     <1>13, <1>14, <1>15, <1>16, <1>17, <1>18, <1>19, <1>20, <1>21, <1>22
     DEF Next, Loop, Fiber

\* A ticker is never scheduled twice, and never again once it was cleared.
THEOREM TickerScheduledOnce == Spec => []TickerOnce
<1>1. TickerInv => TickerOnce
  BY DEF TickerInv
<1> QED
  BY InitTickers, NextTickers, TypeInvHolds, <1>1, PTL DEF Spec

-----------------------------------------------------------------------------
(* Leaving run().                                                          *)

\* The pop after run() finds a value when run() left one.
LEMMA LeaveRunPops ==
  ASSUME NEW h \in Nat \ {0}, LeaveRun(h)
  PROVE  pc' = "check" /\ panic' = panic
BY DEF LeaveRun

\* Only the three ways to leave run() could make the pop after it fail, and
\* each leaves a value on VM::stack.
LEMMA NextPops == TypeInv /\ NoCorruptedStack /\ [Next]_vars => NoCorruptedStack'
<1> SUFFICES ASSUME TypeInv, NoCorruptedStack, [Next]_vars PROVE NoCorruptedStack'
  OBVIOUS
<1> USE DEF NoCorruptedStack
<1>0. pc = "running" => base[uid] + 1 \in Nat \ {0}
  <2>1. pc = "running" => uid \in ThreadIds
    BY RuntimeAssumption DEF TypeInv, TypeOK, IdsIssued, ThreadIds
  <2>2. pc = "running" => base[uid] \in Nat
    BY <2>1 DEF TypeInv, TypeOK
  <2> QED
    BY <2>2
<1>1. CASE Tick
  BY <1>1 DEF Tick, loopVars
<1>2. CASE StartProgram \/ LoopHead \/ FireTimer \/ TimersDone \/ FireTicker \/ TickersDone
  BY <1>2 DEF StartProgram, LoopHead, FireTimer, TimersDone, FireTicker, TickersDone, loopVars
<1>3. CASE DispatchCallback \/ DispatchThread \/ DispatchInvalidThread
  BY <1>3 DEF DispatchCallback, DispatchThread, DispatchInvalidThread
<1>4. CASE Wait \/ Check \/ ResumeStale
  BY <1>4 DEF Wait, Check, ResumeStale
<1>5. ASSUME NEW d \in Delays, TimerInit(d) PROVE NoCorruptedStack'
  BY <1>5 DEF TimerInit, loopVars
<1>6. ASSUME NEW p \in Periods, TickerInit(p) PROVE NoCorruptedStack'
  BY <1>6 DEF TickerInit, loopVars
<1>7. ASSUME NEW u \in TimerIds, TimerClear(u) \/ TickerClear(u) PROVE NoCorruptedStack'
  BY <1>7 DEF TimerClear, TickerClear, loopVars
<1>8. ASSUME NEW t \in ThreadIds, NEW v \in Args, FiberResume(t, v)
      PROVE  NoCorruptedStack'
  BY <1>8 DEF FiberResume, loopVars
<1>9. CASE FiberSuspend
  BY <1>9, LeaveRunPops DEF FiberSuspend, SuspendedHeight
<1>10. CASE FiberReturn
  BY <1>0, <1>10, LeaveRunPops DEF FiberReturn
<1>11. ASSUME NEW s \in {0, 1}, Exit(s) PROVE NoCorruptedStack'
  BY <1>0, <1>11, LeaveRunPops DEF Exit
<1>12. CASE UNCHANGED vars
  BY <1>12 DEF vars, loopVars
<1>13. QED
  BY <1>1, <1>2, <1>3, <1>4, <1>5, <1>6, <1>7, <1>8, <1>9, <1>10, <1>11, <1>12
     DEF Next, Loop, Fiber

\* The pop after run() always finds a value, also when the fiber suspended
\* and took VM::stack with it.
THEOREM PopFindsValue == Spec => []NoCorruptedStack
<1>1. Init => NoCorruptedStack
  BY DEF Init, NoCorruptedStack
<1> QED
  BY <1>1, NextPops, TypeInvHolds, PTL DEF Spec

-----------------------------------------------------------------------------
(* Exit.  After VM::exit the loop only finishes its iteration and leaves;  *)
(* ExitIsFinal alone would allow it to be about to dispatch.               *)

\* Where start_runtime can be once VM::running is false.
OutOfDispatch == ~running => pc \in {"check", "stale", "head", "main", "aborted"}

\* Every step after exit stays out of the part of the loop that runs code.
LEMMA NextOut == TypeInv /\ OutOfDispatch /\ [Next]_vars => OutOfDispatch'
<1> SUFFICES ASSUME TypeInv, OutOfDispatch, [Next]_vars PROVE OutOfDispatch'
  OBVIOUS
<1> USE DEF OutOfDispatch
<1>1. CASE Tick
  BY <1>1 DEF Tick, loopVars
<1>2. CASE StartProgram \/ LoopHead
  BY <1>2 DEF StartProgram, LoopHead
<1>3. CASE FireTimer \/ TimersDone \/ FireTicker \/ TickersDone
  BY <1>3 DEF FireTimer, TimersDone, FireTicker, TickersDone, loopVars
<1>4. CASE DispatchCallback \/ DispatchThread \/ DispatchInvalidThread
  BY <1>4 DEF DispatchCallback, DispatchThread, DispatchInvalidThread
<1>5. CASE Wait \/ Check
  BY <1>5 DEF Wait, Check
<1>6. CASE ResumeStale
  BY <1>6 DEF ResumeStale
<1>7. ASSUME NEW d \in Delays, TimerInit(d) PROVE OutOfDispatch'
  BY <1>7 DEF TimerInit, loopVars
<1>8. ASSUME NEW p \in Periods, TickerInit(p) PROVE OutOfDispatch'
  BY <1>8 DEF TickerInit, loopVars
<1>9. ASSUME NEW u \in TimerIds, TimerClear(u) \/ TickerClear(u) PROVE OutOfDispatch'
  BY <1>9 DEF TimerClear, TickerClear, loopVars
<1>10. ASSUME NEW t \in ThreadIds, NEW v \in Args, FiberResume(t, v)
       PROVE  OutOfDispatch'
  BY <1>10 DEF FiberResume, loopVars
<1>11. CASE FiberSuspend \/ FiberReturn
  BY <1>11 DEF FiberSuspend, FiberReturn, LeaveRun
<1>12. ASSUME NEW s \in {0, 1}, Exit(s) PROVE OutOfDispatch'
  BY <1>12 DEF Exit, LeaveRun
<1>13. CASE UNCHANGED vars
  BY <1>13 DEF vars, loopVars
<1>14. QED
  BY <1>1, <1>2, <1>3, <1>4, <1>5, <1>6, <1>7, <1>8, <1>9, <1>10, <1>11, <1>12, <1>13
     DEF Next, Loop, Fiber

\* No callback and no fiber executes after exit.
THEOREM NothingRunsAfterExit == Spec => []ExitIsFinal
<1>1. Init => OutOfDispatch
  BY DEF Init, OutOfDispatch
<1>2. OutOfDispatch => ExitIsFinal
  BY DEF OutOfDispatch, ExitIsFinal
<1> QED
  BY <1>1, <1>2, NextOut, TypeInvHolds, PTL DEF Spec
-----------------------------------------------------------------------------
(* What liveness rests on.  That a timer fires and that a paused fiber is  *)
(* resumed need fairness; that neither is dropped on the way does not.     *)

\* A timer that will fire: it is in the map, or its callback in the queue.
TimerPending(u) ==
  \/ HasTimer(u)
  \/ \E i \in DOMAIN queue : IsTimerTask(i) /\ queue[i].uid = u

\* A pending timer stays pending until its callback runs, it is cleared or
\* the VM exits: no step of the loop, no registration of another timer, no
\* clear of another one and no resumption drops it on its way from the map
\* through the queue (vm.cpp:2838-2847).
NoTimerLost ==
  \A u \in TimerIds :
    TimerPending(u) => TimerPending(u)' \/ u \in fired' \/ u \in cleared' \/ ~running'

\* Timers and queue only grow, or are not touched: nothing is lost.
LEMMA TimersOnlyAdded ==
  ASSUME TypeInv, timers \subseteq timers',
         \/ queue' = queue
         \/ \E x \in Task : queue' = Append(queue, x)
  PROVE  NoTimerLost
<1> SUFFICES ASSUME NEW u \in TimerIds, TimerPending(u) PROVE TimerPending(u)'
  BY DEF NoTimerLost
<1>1. HasTimer(u) => HasTimer(u)'
  BY DEF HasTimer
<1>2. ASSUME NEW i \in DOMAIN queue, IsTimerTask(i), queue[i].uid = u
      PROVE  TimerPending(u)'
  <2>1. i \in DOMAIN queue' /\ queue'[i] = queue[i]
    <3>1. CASE queue' = queue
      BY <3>1, <1>2
    <3>2. ASSUME NEW x \in Task, queue' = Append(queue, x)
          PROVE  i \in DOMAIN queue' /\ queue'[i] = queue[i]
      BY <3>2, <1>2, AppendTask DEF TypeInv, TypeOK
    <3> QED
      BY <3>1, <3>2
  <2> QED
    BY <2>1, <1>2 DEF TimerPending, IsTimerTask
<1> QED
  BY <1>1, <1>2 DEF TimerPending

\* One task is taken from the queue, and it is not the timer's or fires it.
LEMMA TaskTaken ==
  ASSUME TypeInv, timers' = timers, queue # <<>>, queue' = Tail(queue),
         Head(queue).kind = "timer" => Head(queue).uid \in fired'
  PROVE  NoTimerLost
<1> SUFFICES ASSUME NEW u \in TimerIds, TimerPending(u), u \notin fired'
             PROVE  TimerPending(u)'
  BY DEF NoTimerLost
<1>1. HasTimer(u) => HasTimer(u)'
  BY DEF HasTimer
<1>2. ASSUME NEW i \in DOMAIN queue, IsTimerTask(i), queue[i].uid = u
      PROVE  TimerPending(u)'
  <2>1. queue \in Seq(Task) /\ i \in 1 .. Len(queue)
    BY <1>2 DEF TypeInv, TypeOK
  <2>2. i # 1
    BY <1>2, <2>1 DEF IsTimerTask
  <2>3. i - 1 \in DOMAIN queue' /\ queue'[i - 1] = queue[i]
    BY <2>1, <2>2
  <2> QED
    BY <2>3, <1>2 DEF TimerPending, IsTimerTask
<1> QED
  BY <1>1, <1>2 DEF TimerPending

\* A timer that is due moves from the map to the end of the queue.
LEMMA TimerMoves == TypeInv /\ FireTimer => NoTimerLost
<1> SUFFICES ASSUME TypeInv, FireTimer, NEW u \in TimerIds, TimerPending(u)
             PROVE  TimerPending(u)'
  BY DEF NoTimerLost
<1> PICK e \in timers : /\ queue' = Append(queue, Callback("timer", e.uid))
                        /\ timers' = timers \ {e}
  BY DEF FireTimer
<1>1. queue \in Seq(Task) /\ Callback("timer", e.uid) \in Task
  BY CallbackIsTask DEF TypeInv, TypeOK, Entry, TimerIds
<1>2. /\ \A i \in DOMAIN queue : i \in DOMAIN queue' /\ queue'[i] = queue[i]
      /\ Len(queue) + 1 \in DOMAIN queue'
      /\ queue'[Len(queue) + 1] = Callback("timer", e.uid)
  BY <1>1, AppendTask
<1>3. ASSUME NEW i \in DOMAIN queue, IsTimerTask(i), queue[i].uid = u
      PROVE  TimerPending(u)'
  BY <1>3, <1>2 DEF TimerPending, IsTimerTask
<1>4. CASE e.uid = u
  BY <1>4, <1>2 DEF TimerPending, IsTimerTask, Callback
<1>5. CASE e.uid # u /\ HasTimer(u)
  BY <1>5 DEF TimerPending, HasTimer
<1> QED
  BY <1>3, <1>4, <1>5 DEF TimerPending

\* No step loses a pending timer.
LEMMA NextKeepsTimers == TypeInv /\ Next => NoTimerLost
<1> SUFFICES ASSUME TypeInv, Next PROVE NoTimerLost
  OBVIOUS
<1> USE DEF timerVars
<1>1. CASE Tick
  BY <1>1, TimersOnlyAdded DEF Tick
<1>2. CASE StartProgram
  BY <1>2, TimersOnlyAdded, CallbackIsTask DEF StartProgram
<1>3. CASE LoopHead \/ TimersDone \/ TickersDone
  BY <1>3, TimersOnlyAdded DEF LoopHead, TimersDone, TickersDone
<1>4. CASE FireTimer
  BY <1>4, TimerMoves
<1>5. CASE FireTicker
  <2> PICK e \in tickers : queue' = Append(queue, Callback("ticker", e.uid))
    BY <1>5 DEF FireTicker
  <2>1. Callback("ticker", e.uid) \in Task
    BY CallbackIsTask DEF TypeInv, TypeOK, TickerEntry, TimerIds
  <2> QED
    BY <1>5, <2>1, TimersOnlyAdded DEF FireTicker
<1>6. CASE DispatchCallback
  BY <1>6, TaskTaken DEF DispatchCallback
<1>7. CASE DispatchThread
  BY <1>7, TaskTaken DEF DispatchThread
<1>8. CASE DispatchInvalidThread
  BY <1>8 DEF DispatchInvalidThread, NoTimerLost
<1>9. CASE Wait \/ Check
  BY <1>9, TimersOnlyAdded DEF Wait, Check
<1>10. CASE ResumeStale
  <2> PICK t \in stale : queue' = Append(queue, Thread(t, Stale))
    BY <1>10 DEF ResumeStale
  <2>1. Thread(t, Stale) \in Task
    BY ThreadIsTask DEF TypeInv, TypeOK
  <2> QED
    BY <1>10, <2>1, TimersOnlyAdded DEF ResumeStale
<1>11. ASSUME NEW d \in Delays, TimerInit(d) PROVE NoTimerLost
  BY <1>11, TimersOnlyAdded DEF TimerInit, MapInsert
<1>12. ASSUME NEW p \in Periods, TickerInit(p) PROVE NoTimerLost
  BY <1>12, TimersOnlyAdded DEF TickerInit
<1>13. ASSUME NEW u \in TimerIds, TimerClear(u) PROVE NoTimerLost
  BY <1>13 DEF TimerClear, NoTimerLost, TimerPending, HasTimer, IsTimerTask
<1>14. ASSUME NEW u \in TimerIds, TickerClear(u) PROVE NoTimerLost
  BY <1>14, TimersOnlyAdded DEF TickerClear
<1>15. ASSUME NEW t \in ThreadIds, NEW v \in Args, FiberResume(t, v)
       PROVE  NoTimerLost
  <2>1. Thread(t, v) \in Task
    BY ThreadIsTask
  <2> QED
    BY <1>15, <2>1, TimersOnlyAdded DEF FiberResume
<1>16. CASE FiberSuspend \/ FiberReturn
  BY <1>16, TimersOnlyAdded DEF FiberSuspend, FiberReturn
<1>17. ASSUME NEW s \in {0, 1}, Exit(s) PROVE NoTimerLost
  BY <1>17 DEF Exit, NoTimerLost
<1> QED
  BY <1>1, <1>2, <1>3, <1>4, <1>5, <1>6, <1>7, <1>8, <1>9, <1>10, <1>11, <1>12,
     <1>13, <1>14, <1>15, <1>16, <1>17 DEF Next, Loop, Fiber

\* No timer is lost between its registration and its callback: what TimerFires
\* needs besides fairness, for any number of timers and any delays.
THEOREM TimersNeverLost == Spec => [][NoTimerLost]_vars
<1>1. TypeInv /\ [Next]_vars => [NoTimerLost]_vars
  BY NextKeepsTimers
<1> QED
  BY <1>1, TypeInvHolds, PTL DEF Spec

-----------------------------------------------------------------------------
(* The exit check.                                                         *)

IsStaleTask(i) == queue[i] = Thread(queue[i].id, Stale)

\* While the exit check goes through paused_threads the queue is exactly the
\* resumptions it has made: one for each paused fiber it has passed, in the
\* order of their ids, with the stale thread exception and nothing else.
StaleSoFar ==
  pc = "stale" =>
    /\ stale \subseteq paused
    /\ \A i \in DOMAIN queue : IsStaleTask(i) /\ queue[i].id \in paused \ stale
    /\ \A i, j \in DOMAIN queue : i < j => queue[i].id < queue[j].id
    /\ \A t \in paused \ stale : \E i \in DOMAIN queue : queue[i].id = t
    /\ \A t \in paused \ stale, s \in stale : t < s

\* When the exit check is done every paused fiber is in the queue with the
\* stale thread exception, once, and the queue holds nothing else: nobody is
\* left out (vm.cpp:2941-2951).
StaleAll ==
  pc = "stale" /\ pc' # "stale" =>
    /\ \A i \in DOMAIN queue' : queue'[i] = Thread(queue'[i].id, Stale)
                                /\ queue'[i].id \in paused'
    /\ \A t \in paused' : \E i \in DOMAIN queue' : queue'[i].id = t
    /\ \A i, j \in DOMAIN queue' : queue'[i].id = queue'[j].id => i = j

\* One more fiber is resumed, the first that is left.
LEMMA StaleStep ==
  ASSUME TypeInv, StaleSoFar, ResumeStale
  PROVE  /\ stale' \subseteq paused'
         /\ \A i \in DOMAIN queue' : queue'[i] = Thread(queue'[i].id, Stale)
                                     /\ queue'[i].id \in paused' \ stale'
         /\ \A i, j \in DOMAIN queue' : i < j => queue'[i].id < queue'[j].id
         /\ \A t \in paused' \ stale' : \E i \in DOMAIN queue' : queue'[i].id = t
         /\ \A t \in paused' \ stale', s \in stale' : t < s
         /\ pc' # "stale" => stale' = {}
<1> PICK t \in stale : /\ \A o \in stale : t <= o
                       /\ queue' = Append(queue, Thread(t, Stale))
                       /\ stale' = stale \ {t}
                       /\ pc' = IF stale = {t} THEN "head" ELSE "stale"
  BY DEF ResumeStale
<1>0. pc = "stale" /\ paused' = paused
  BY DEF ResumeStale
<1>1. queue \in Seq(Task) /\ Thread(t, Stale) \in Task
  BY ThreadIsTask DEF TypeInv, TypeOK
<1>2. Thread(t, Stale).id = t
  BY DEF Thread
<1> DEFINE n == Len(queue)
<1>3. /\ DOMAIN queue = 1 .. n /\ n \in Nat
      /\ DOMAIN queue' = 1 .. n + 1
      /\ \A i \in 1 .. n : queue'[i] = queue[i]
      /\ queue'[n + 1] = Thread(t, Stale)
  BY <1>1, AppendTask
<1>4. /\ stale \subseteq paused /\ stale \subseteq Nat /\ paused \subseteq Nat
      /\ t \in paused
  BY <1>0 DEF StaleSoFar, TypeInv, TypeOK, ThreadIds
<1>5. \A i \in 1 .. n : IsStaleTask(i) /\ queue[i].id \in paused \ stale
  BY <1>0, <1>3 DEF StaleSoFar
<1> HIDE DEF n
<1>6. paused' \ stale' = (paused \ stale) \cup {t}
  BY <1>0, <1>4
<1>7. \A i \in DOMAIN queue' : queue'[i] = Thread(queue'[i].id, Stale)
                               /\ queue'[i].id \in paused' \ stale'
  BY <1>2, <1>3, <1>5, <1>6 DEF IsStaleTask
<1>8. \A i, j \in DOMAIN queue' : i < j => queue'[i].id < queue'[j].id
  <2>1. \A i, j \in 1 .. n : i < j => queue[i].id < queue[j].id
    BY <1>0, <1>3 DEF StaleSoFar
  <2>2. \A i \in 1 .. n : queue[i].id < t
    BY <1>0, <1>5 DEF StaleSoFar
  <2> QED
    BY <2>1, <2>2, <1>2, <1>3
<1>9. \A s \in paused' \ stale' : \E i \in DOMAIN queue' : queue'[i].id = s
  <2>1. \A s \in paused \ stale : \E i \in 1 .. n : queue[i].id = s
    BY <1>0, <1>3 DEF StaleSoFar
  <2>2. n + 1 \in DOMAIN queue' /\ queue'[n + 1].id = t
    BY <1>2, <1>3
  <2>3. \A i \in 1 .. n : i \in DOMAIN queue' /\ queue'[i] = queue[i]
    BY <1>3
  <2> QED
    BY <2>1, <2>2, <2>3, <1>6
<1>10. \A s \in paused' \ stale', o \in stale' : s < o
  <2>1. \A s \in paused \ stale, o \in stale : s < o
    BY <1>0 DEF StaleSoFar
  <2>2. \A o \in stale' : t < o
    BY <1>4
  <2> QED
    BY <2>1, <2>2, <1>6
<1>11. stale' \subseteq paused'
  BY <1>0, <1>4
<1>12. pc' # "stale" => stale' = {}
  OBVIOUS
<1> QED
  BY <1>7, <1>8, <1>9, <1>10, <1>11, <1>12

\* What the exit check has done so far is what it should have.
LEMMA NextStale == TypeInv /\ StaleSoFar /\ [Next]_vars => StaleSoFar'
<1> SUFFICES ASSUME TypeInv, StaleSoFar, [Next]_vars, pc' = "stale"
             PROVE  StaleSoFar'
  BY DEF StaleSoFar
<1>1. CASE Check
  <2>1. queue' = <<>> /\ stale' = paused /\ paused' = paused
    BY <1>1 DEF Check, NothingScheduled
  <2> QED
    BY <2>1 DEF StaleSoFar
<1>2. CASE ResumeStale
  BY <1>2, StaleStep DEF StaleSoFar, IsStaleTask
<1>3. CASE Tick \/ UNCHANGED vars
  <2>1. UNCHANGED <<pc, queue, paused, stale>>
    BY <1>3 DEF Tick, vars, loopVars, fiberVars
  <2> QED
    BY <2>1 DEF StaleSoFar, IsStaleTask
<1>4. CASE Loop /\ ~Check /\ ~ResumeStale
  BY <1>4 DEF Loop, StartProgram, LoopHead, FireTimer, TimersDone, FireTicker, TickersDone,
     DispatchCallback, DispatchThread, DispatchInvalidThread, Wait, loopVars
<1>5. CASE Fiber
  BY <1>5 DEF Fiber, TimerInit, TickerInit, TimerClear, TickerClear, FiberResume,
     FiberSuspend, FiberReturn, Exit, LeaveRun, loopVars
<1> QED
  BY <1>1, <1>2, <1>3, <1>4, <1>5 DEF Next

\* Only its last resumption ends the exit check.
LEMMA StaleEnds == TypeInv /\ StaleSoFar /\ Next => StaleAll
<1> SUFFICES ASSUME TypeInv, StaleSoFar, Next, pc = "stale", pc' # "stale"
             PROVE  StaleAll
  BY DEF StaleAll
<1>1. ResumeStale
  <2>1. ~Tick
    BY DEF Tick, loopVars
  <2>2. ~Fiber
    BY DEF Fiber, TimerInit, TickerInit, TimerClear, TickerClear, FiberResume,
       FiberSuspend, FiberReturn, Exit
  <2> QED
    BY <2>1, <2>2 DEF Next, Loop, StartProgram, LoopHead, FireTimer, TimersDone,
       FireTicker, TickersDone, DispatchCallback, DispatchThread,
       DispatchInvalidThread, Wait, Check
<1>2. /\ \A i \in DOMAIN queue' : queue'[i] = Thread(queue'[i].id, Stale)
                                  /\ queue'[i].id \in paused' \ stale'
      /\ \A i, j \in DOMAIN queue' : i < j => queue'[i].id < queue'[j].id
      /\ \A t \in paused' \ stale' : \E i \in DOMAIN queue' : queue'[i].id = t
      /\ stale' = {}
  BY <1>1, StaleStep
<1>3. \A i \in DOMAIN queue' : i \in Int /\ queue'[i].id \in Int
  <2>1. TypeInv'
    BY NextTypeInv
  <2>2. queue' \in Seq(Task) /\ paused' \subseteq ThreadIds
    BY <2>1 DEF TypeInv, TypeOK
  <2>3. \A t \in ThreadIds : t \in Int
    BY DEF ThreadIds
  <2> QED
    BY <1>2, <2>2, <2>3
<1>4. \A i, j \in DOMAIN queue' : queue'[i].id = queue'[j].id => i = j
  BY <1>2, <1>3
<1> QED
  BY <1>2, <1>4 DEF StaleAll

\* The exit check resumes every paused fiber exactly once before the loop goes
\* on: what StaleResumed needs besides fairness, for any number of fibers.
THEOREM ExitCheckLeavesNobody == Spec => [][StaleAll]_vars
<1>1. Init => StaleSoFar
  BY DEF Init, StaleSoFar
<1>2. TypeInv /\ StaleSoFar /\ [Next]_vars => [StaleAll]_vars
  BY StaleEnds
<1> QED
  BY <1>1, <1>2, NextStale, TypeInvHolds, PTL DEF Spec
-----------------------------------------------------------------------------
(* start_runtime implements TaskLoop.                                      *)

\* What is known at the places where start_runtime is entered, left and
\* interrupted: the next module starts when nothing is left of the one before
\* or exit was called, and the exit check goes on only while nothing is
\* scheduled.
LoopInv ==
  /\ pc = "aborted" <=> Aborted
  /\ pc = "main" => ~running \/ (NothingScheduled /\ paused = {})
  /\ pc = "stale" => timers = {} /\ tickers = {}

\* LoopInv with what it rests on.
TaskInv ==
  TypeInv /\ NoCorruptedStack /\ OutOfDispatch /\ TickersApart /\ StaleSoFar /\ LoopInv

\* Every step keeps LoopInv.
LEMMA NextLoop == TaskInv /\ [Next]_vars => LoopInv'
<1> SUFFICES ASSUME TaskInv, [Next]_vars PROVE LoopInv'
  OBVIOUS
<1> USE DEF TaskInv, LoopInv, Aborted, NothingScheduled
<1>0. pc = "running" => base[uid] + 1 \in Nat \ {0}
  <2>1. pc = "running" => uid \in ThreadIds
    BY RuntimeAssumption DEF TypeInv, TypeOK, IdsIssued, ThreadIds
  <2>2. pc = "running" => base[uid] \in Nat
    BY <2>1 DEF TypeInv, TypeOK
  <2> QED
    BY <2>2
<1>1. CASE Tick
  BY <1>1 DEF Tick, loopVars, timerVars, fiberVars
<1>2. CASE StartProgram \/ LoopHead
  BY <1>2 DEF StartProgram, LoopHead, timerVars, fiberVars
<1>3. CASE FireTimer \/ TimersDone \/ FireTicker \/ TickersDone
  BY <1>3 DEF FireTimer, TimersDone, FireTicker, TickersDone, loopVars, fiberVars
<1>4. CASE DispatchCallback \/ DispatchThread \/ DispatchInvalidThread
  BY <1>4 DEF DispatchCallback, DispatchThread, DispatchInvalidThread, timerVars, fiberVars
<1>5. CASE Wait \/ Check
  BY <1>5 DEF Wait, Check, timerVars, fiberVars
<1>6. CASE ResumeStale
  BY <1>6 DEF ResumeStale, timerVars
<1>7. ASSUME NEW d \in Delays, TimerInit(d) PROVE LoopInv'
  BY <1>7 DEF TimerInit, loopVars, fiberVars
<1>8. ASSUME NEW p \in Periods, TickerInit(p) PROVE LoopInv'
  BY <1>8 DEF TickerInit, loopVars, fiberVars
<1>9. ASSUME NEW u \in TimerIds, TimerClear(u) \/ TickerClear(u) PROVE LoopInv'
  BY <1>9 DEF TimerClear, TickerClear, loopVars, fiberVars
<1>10. ASSUME NEW t \in ThreadIds, NEW v \in Args, FiberResume(t, v) PROVE LoopInv'
  BY <1>10 DEF FiberResume, loopVars, timerVars, fiberVars
<1>11. CASE FiberSuspend
  BY <1>11, LeaveRunPops DEF FiberSuspend, SuspendedHeight
<1>12. CASE FiberReturn
  BY <1>0, <1>12, LeaveRunPops DEF FiberReturn
<1>13. ASSUME NEW s \in {0, 1}, Exit(s) PROVE LoopInv'
  BY <1>0, <1>13, LeaveRunPops DEF Exit
<1>14. CASE UNCHANGED vars
  BY <1>14 DEF vars, loopVars, timerVars, fiberVars
<1> QED
  BY <1>1, <1>2, <1>3, <1>4, <1>5, <1>6, <1>7, <1>8, <1>9, <1>10, <1>11, <1>12, <1>13, <1>14
     DEF Next, Loop, Fiber

\* TaskInv holds.
LEMMA TaskInvHolds == Spec => []TaskInv
<1>1. Init => NoCorruptedStack /\ OutOfDispatch /\ StaleSoFar /\ LoopInv
  BY DEF Init, NoCorruptedStack, OutOfDispatch, StaleSoFar, LoopInv, Aborted, NothingScheduled
<1>2. TickerInv => TickersApart
  BY DEF TickerInv
<1>3. Init => TaskInv
  BY <1>1, <1>2, InitTypeInv, InitTickers DEF TaskInv
<1>4. TickerInv /\ TaskInv /\ [Next]_vars => TaskInv' /\ TickerInv'
  <2> SUFFICES ASSUME TickerInv, TaskInv, [Next]_vars PROVE TaskInv' /\ TickerInv'
    OBVIOUS
  <2>1. TypeInv' /\ NoCorruptedStack' /\ OutOfDispatch' /\ StaleSoFar'
    BY NextTypeInv, NextPops, NextOut, NextStale DEF TaskInv
  <2>2. TickerInv'
    BY NextTickers DEF TaskInv
  <2>3. LoopInv'
    BY NextLoop
  <2>4. TickersApart'
    BY <2>2 DEF TickerInv
  <2> QED
    BY <2>1, <2>2, <2>3, <2>4 DEF TaskInv
<1> QED
  BY <1>3, <1>4, InitTickers, PTL DEF Spec

\* Append and Tail as functions.
LEMMA AppendIs ==
  ASSUME NEW T, NEW q \in Seq(T), NEW x \in T
  PROVE  Append(q, x) = [i \in 1 .. Len(q) + 1 |-> IF i <= Len(q) THEN q[i] ELSE x]
<1>1. Append(q, x) \in Seq(T) /\ Len(Append(q, x)) = Len(q) + 1 /\ Len(q) \in Nat
  OBVIOUS
<1>2. \A i \in 1 .. Len(q) + 1 : Append(q, x)[i] = IF i <= Len(q) THEN q[i] ELSE x
  OBVIOUS
<1>3. DOMAIN Append(q, x) = 1 .. Len(q) + 1
  BY <1>1
<1>4. Append(q, x) = [i \in DOMAIN Append(q, x) |-> Append(q, x)[i]]
  BY <1>1, LenProperties
<1> QED
  BY <1>2, <1>3, <1>4

LEMMA TailIs ==
  ASSUME NEW T, NEW q \in Seq(T), Len(q) # 0
  PROVE  /\ q # <<>> /\ Head(q) = q[1]
         /\ Tail(q) = [i \in 1 .. Len(q) - 1 |-> q[i + 1]]
<1>0. q # <<>> /\ Head(q) = q[1]
  OBVIOUS
<1>1. Tail(q) \in Seq(T) /\ Len(Tail(q)) = Len(q) - 1 /\ Len(q) \in Nat
  BY <1>0
<1>2. \A i \in 1 .. Len(q) - 1 : Tail(q)[i] = q[i + 1]
  BY <1>0
<1>3. DOMAIN Tail(q) = 1 .. Len(q) - 1
  BY <1>1
<1>4. Tail(q) = [i \in DOMAIN Tail(q) |-> Tail(q)[i]]
  BY <1>1, LenProperties
<1> QED
  BY <1>0, <1>2, <1>3, <1>4

\* The tasks as programs see them, after a task was registered ...
LEMMA VisibleAppend ==
  ASSUME TypeInv, TypeInv', pc # "stale", pc' # "stale",
         NEW x \in Task, queue' = Append(queue, x)
  PROVE  VisibleTasks' = Append(VisibleTasks, PlainTask(x))
<1> DEFINE n == Len(queue)
           T == {PlainTask(q) : q \in Task}
<1>1. queue \in Seq(Task) /\ n \in Nat /\ DOMAIN queue = 1 .. n
  BY DEF TypeInv, TypeOK
<1>2. DOMAIN queue' = 1 .. n + 1 /\ (\A i \in 1 .. n : queue'[i] = queue[i])
      /\ queue'[n + 1] = x
  BY <1>1, AppendTask
<1>3. VisibleTasks' = [i \in 1 .. n + 1 |-> PlainTask(queue'[i])]
  BY <1>2 DEF VisibleTasks
<1>4. VisibleTasks = [i \in 1 .. n |-> PlainTask(queue[i])]
  BY <1>1 DEF VisibleTasks
<1>5. VisibleTasks \in Seq(T) /\ Len(VisibleTasks) = n
  BY <1>1, <1>4
<1>b. PlainTask(x) \in T
  OBVIOUS
<1> HIDE DEF n, T
<1>6. Append(VisibleTasks, PlainTask(x))
        = [i \in 1 .. n + 1 |-> IF i <= n THEN VisibleTasks[i] ELSE PlainTask(x)]
  BY <1>1, <1>5, <1>b, AppendIs
<1>7. \A i \in 1 .. n + 1 :
        PlainTask(queue'[i]) = IF i <= n THEN VisibleTasks[i] ELSE PlainTask(x)
  BY <1>1, <1>2, <1>4
<1> QED
  BY <1>3, <1>6, <1>7

\* ... and after one was taken.
LEMMA VisibleTail ==
  ASSUME TypeInv, pc # "stale", pc' # "stale", queue # <<>>, queue' = Tail(queue)
  PROVE  /\ VisibleTasks # <<>> /\ Head(VisibleTasks) = PlainTask(Head(queue))
         /\ VisibleTasks' = Tail(VisibleTasks)
<1> DEFINE n == Len(queue)
           T == {PlainTask(q) : q \in Task}
<1>1. queue \in Seq(Task) /\ n \in Nat /\ DOMAIN queue = 1 .. n /\ n # 0
  BY DEF TypeInv, TypeOK
<1>2. /\ DOMAIN queue' = 1 .. n - 1 /\ Head(queue) = queue[1]
      /\ \A i \in 1 .. n - 1 : queue'[i] = queue[i + 1]
  BY <1>1
<1>3. VisibleTasks' = [i \in 1 .. n - 1 |-> PlainTask(queue'[i])]
  BY <1>2 DEF VisibleTasks
<1>4. VisibleTasks = [i \in 1 .. n |-> PlainTask(queue[i])]
  BY <1>1 DEF VisibleTasks
<1>5. VisibleTasks \in Seq(T) /\ Len(VisibleTasks) = n
  BY <1>1, <1>4
<1> HIDE DEF n, T
<1>6. VisibleTasks # <<>> /\ Head(VisibleTasks) = VisibleTasks[1]
      /\ Tail(VisibleTasks) = [i \in 1 .. n - 1 |-> VisibleTasks[i + 1]]
  BY <1>1, <1>5, TailIs
<1>7. \A i \in 1 .. n - 1 : PlainTask(queue'[i]) = VisibleTasks[i + 1]
  BY <1>1, <1>2, <1>4
<1>8. VisibleTasks[1] = PlainTask(Head(queue))
  BY <1>1, <1>2, <1>4
<1> QED
  BY <1>3, <1>6, <1>7, <1>8

\* What a program can tell apart stays the same.
LEMMA VisibleSame ==
  ASSUME pc # "stale", pc' # "stale", queue' = queue
  PROVE  VisibleTasks' = VisibleTasks
BY DEF VisibleTasks

\* The kinds of tasks.
LEMMA PlainIs ==
  ASSUME NEW q \in Task
  PROVE  /\ q.kind # "thread" => PlainTask(q) = Tasks!StartTask /\ PlainTask(q).kind = "start"
         /\ q.kind = "thread" => /\ PlainTask(q) = Tasks!Resume(q.id, q.arg)
                                 /\ PlainTask(q).kind = "resume" /\ PlainTask(q).id = q.id
BY DEF PlainTask, Tasks!StartTask, Tasks!Resume

\* A step of the loop that programs do not see.
LEMMA Unseen ==
  ASSUME UNCHANGED <<VisibleTasks, AnyTimer, nextThread, CurrentFiber, paused, Aborted, Halted>>
  PROVE  [Tasks!Next]_(Tasks!vars)
BY DEF Tasks!vars

\* A callback is registered.
LEMMA SeenRegister ==
  ASSUME TaskInv, TypeInv', StartProgram
  PROVE  Tasks!Register
<1> USE DEF StartProgram, timerVars, fiberVars
<1>1. Callback("main", 0) \in Task /\ Callback("main", 0).kind # "thread"
  BY CallbackIsTask DEF Callback
<1>2. VisibleTasks' = Append(VisibleTasks, Tasks!StartTask)
  BY <1>1, VisibleAppend, PlainIs DEF TaskInv
<1>3. Tasks!Waiting
  BY DEF Tasks!Waiting, Tasks!Idle, CurrentFiber, TaskInv, LoopInv
<1>4. Halted \/ (VisibleTasks = <<>> /\ ~AnyTimer /\ paused = {})
  <2>1. running => queue = <<>> /\ timers = {} /\ tickers = {} /\ paused = {} /\ newly = {}
    BY DEF TaskInv, LoopInv, NothingScheduled, TickersApart
  <2>2. queue = <<>> => VisibleTasks = <<>>
    BY DEF VisibleTasks
  <2> QED
    BY <2>1, <2>2 DEF Halted, AnyTimer
<1>5. UNCHANGED <<AnyTimer, nextThread, CurrentFiber, paused, Aborted, Halted>>
  BY DEF AnyTimer, CurrentFiber, Aborted, Halted
<1> QED
  BY <1>2, <1>3, <1>4, <1>5 DEF Tasks!Register

\* A timer or a ticker is due.
LEMMA SeenFire ==
  ASSUME TaskInv, TypeInv', FireTimer \/ FireTicker
  PROVE  Tasks!Fire
<1> USE DEF FireTimer, FireTicker
<1>1. PICK x \in Task : x.kind # "thread" /\ queue' = Append(queue, x)
  <2>1. CASE FireTimer
    <3> PICK e \in timers : queue' = Append(queue, Callback("timer", e.uid))
      BY <2>1
    <3>1. Callback("timer", e.uid) \in Task
      BY CallbackIsTask DEF TaskInv, TypeInv, TypeOK, Entry, TimerIds
    <3> QED
      BY <3>1 DEF Callback
  <2>2. CASE FireTicker
    <3> PICK e \in tickers : queue' = Append(queue, Callback("ticker", e.uid))
      BY <2>2
    <3>1. Callback("ticker", e.uid) \in Task
      BY CallbackIsTask DEF TaskInv, TypeInv, TypeOK, TickerEntry, TimerIds
    <3> QED
      BY <3>1 DEF Callback
  <2> QED
    BY <2>1, <2>2
<1>0. /\ pc \in {"timers", "tickers"} /\ AnyTimer
      /\ UNCHANGED <<pc, running, panic, paused, uid, nextThread>>
  BY DEF loopVars, fiberVars, AnyTimer
<1>2. VisibleTasks' = Append(VisibleTasks, Tasks!StartTask)
  BY <1>0, <1>1, VisibleAppend, PlainIs DEF TaskInv
<1>3. Tasks!Waiting /\ ~Halted
  BY <1>0 DEF Tasks!Waiting, Tasks!Idle, CurrentFiber, TaskInv, LoopInv, OutOfDispatch, Halted
<1>4. AnyTimer' \in BOOLEAN
  BY DEF AnyTimer
<1>5. UNCHANGED <<nextThread, CurrentFiber, paused, Aborted, Halted>>
  BY <1>0 DEF CurrentFiber, Aborted, Halted
<1> QED
  BY <1>0, <1>2, <1>3, <1>4, <1>5 DEF Tasks!Fire

\* The first task is taken.
LEMMA SeenDispatch ==
  ASSUME TaskInv, DispatchCallback \/ DispatchThread \/ DispatchInvalidThread
  PROVE  Tasks!Start \/ Tasks!Wake \/ Tasks!Abort
<1> USE DEF DispatchCallback, DispatchThread, DispatchInvalidThread
<1>0. pc = "dispatch" /\ queue # <<>> /\ queue \in Seq(Task) /\ Head(queue) \in Task
  BY DEF TaskInv, TypeInv, TypeOK
<1>1. /\ VisibleTasks # <<>>
      /\ Head(VisibleTasks) = PlainTask(Head(queue))
      /\ pc' # "stale" /\ queue' = Tail(queue) => VisibleTasks' = Tail(VisibleTasks)
  <2>1. VisibleTasks = [i \in DOMAIN queue |-> PlainTask(queue[i])]
    BY <1>0 DEF VisibleTasks
  <2>2. VisibleTasks # <<>> /\ Head(VisibleTasks) = PlainTask(Head(queue))
    BY <2>1, <1>0
  <2> QED
    BY <2>2, <1>0, VisibleTail DEF TaskInv
<1>2. Tasks!Serving
  BY <1>0, <1>1 DEF Tasks!Serving, Tasks!Waiting, Tasks!Idle, CurrentFiber, TaskInv, LoopInv,
     OutOfDispatch, Halted
<1>3. CASE DispatchCallback
  <2>1. /\ pc' = "running" /\ queue' = Tail(queue) /\ Head(queue).kind # "thread"
        /\ uid' = nextThread /\ nextThread' = nextThread + 1
        /\ UNCHANGED <<timers, tickers, newly, paused, panic, running>>
    BY <1>3 DEF timerVars
  <2>2. CurrentFiber' = nextThread /\ UNCHANGED <<AnyTimer, paused, Aborted, Halted>>
    BY <2>1 DEF CurrentFiber, AnyTimer, Aborted, Halted
  <2>3. Head(VisibleTasks).kind = "start"
    BY <1>0, <1>1, <2>1, PlainIs
  <2> QED
    BY <1>1, <1>2, <2>1, <2>2, <2>3 DEF Tasks!Start
<1>4. CASE DispatchThread
  <2>1. /\ pc' = "running" /\ queue' = Tail(queue) /\ Head(queue).kind = "thread"
        /\ Head(queue).id \in paused /\ uid' = Head(queue).id
        /\ paused' = paused \ {Head(queue).id}
        /\ UNCHANGED <<timers, tickers, newly, nextThread, panic, running>>
    BY <1>4 DEF timerVars
  <2>2. CurrentFiber' = Head(queue).id /\ UNCHANGED <<AnyTimer, nextThread, Aborted, Halted>>
    BY <2>1 DEF CurrentFiber, AnyTimer, Aborted, Halted
  <2>3. Head(VisibleTasks).kind = "resume" /\ Head(VisibleTasks).id = Head(queue).id
    BY <1>0, <1>1, <2>1, PlainIs
  <2> QED
    BY <1>1, <1>2, <2>1, <2>2, <2>3 DEF Tasks!Wake
<1>5. CASE DispatchInvalidThread
  <2>1. /\ pc' = "aborted" /\ queue' = <<>> /\ Head(queue).kind = "thread"
        /\ Head(queue).id \notin paused /\ panic' = "InvalidThreadId"
        /\ UNCHANGED <<paused, nextThread>>
    BY <1>5 DEF fiberVars
  <2>2. CurrentFiber' = CurrentFiber /\ Aborted' = TRUE /\ VisibleTasks' = <<>>
    BY <1>0, <2>1 DEF CurrentFiber, Aborted, VisibleTasks
  <2>3. AnyTimer' \in BOOLEAN /\ Halted' \in BOOLEAN
    BY DEF AnyTimer, Halted
  <2>4. Head(VisibleTasks).kind = "resume" /\ Head(VisibleTasks).id = Head(queue).id
    BY <1>0, <1>1, <2>1, PlainIs
  <2> QED
    BY <1>2, <2>1, <2>2, <2>3, <2>4 DEF Tasks!Abort
<1> QED
  BY <1>3, <1>4, <1>5

\* The exit check has resumed the last paused fiber.
LEMMA SeenExitCheck ==
  ASSUME TaskInv, TypeInv', ResumeStale, pc' # "stale"
  PROVE  Tasks!ExitCheck
<1>0. /\ pc = "stale" /\ pc' = "head" /\ paused' = paused
      /\ UNCHANGED <<timers, tickers, newly, nextThread, running, panic>>
  BY DEF ResumeStale, timerVars
<1> DEFINE n == Len(queue')
<1>1. queue' \in Seq(Task) /\ n \in Nat /\ DOMAIN queue' = 1 .. n
  BY DEF TypeInv, TypeOK
<1>2. /\ \A i \in 1 .. n : queue'[i] = Thread(queue'[i].id, Stale) /\ queue'[i].id \in paused
      /\ \A i, j \in 1 .. n : i < j => queue'[i].id < queue'[j].id
      /\ \A t \in paused : \E i \in 1 .. n : queue'[i].id = t
  <2>1. TypeInv /\ StaleSoFar
    BY DEF TaskInv
  <2>2. /\ \A i \in DOMAIN queue' : queue'[i] = Thread(queue'[i].id, Stale)
                                    /\ queue'[i].id \in paused' \ stale'
        /\ \A i, j \in DOMAIN queue' : i < j => queue'[i].id < queue'[j].id
        /\ \A t \in paused' \ stale' : \E i \in DOMAIN queue' : queue'[i].id = t
        /\ stale' = {}
    BY <2>1, StaleStep
  <2> QED
    BY <1>0, <1>1, <2>2
<1> HIDE DEF n
<1>3. VisibleTasks' = [i \in 1 .. n |-> PlainTask(queue'[i])]
  BY <1>0, <1>1 DEF VisibleTasks
<1>4. DOMAIN VisibleTasks' = 1 .. n /\ Len(VisibleTasks') = n
  BY <1>1, <1>3
<1>5. \A t : PlainTask(Thread(t, Stale)) = Tasks!Resume(t, Stale)
  BY DEF PlainTask, Thread, Tasks!Resume
<1>6. \A i \in 1 .. n : /\ VisibleTasks'[i] = Tasks!Resume(queue'[i].id, Stale)
                        /\ VisibleTasks'[i].id = queue'[i].id
  <2>1. \A i \in 1 .. n : VisibleTasks'[i] = Tasks!Resume(queue'[i].id, Stale)
    BY <1>2, <1>3, <1>5
  <2>2. \A t : Tasks!Resume(t, Stale).id = t
    BY DEF Tasks!Resume
  <2> QED
    BY <2>1, <2>2
<1>7. Tasks!ResumesInOrder(VisibleTasks', paused, Stale)
  BY <1>2, <1>4, <1>6 DEF Tasks!ResumesInOrder
<1>8. Tasks!Waiting /\ VisibleTasks = <<>> /\ ~AnyTimer
  BY <1>0 DEF Tasks!Waiting, Tasks!Idle, CurrentFiber, VisibleTasks, AnyTimer, TaskInv, LoopInv,
     TickersApart
<1>9. paused # {}
  BY <1>0 DEF ResumeStale, TaskInv, StaleSoFar
<1>10. UNCHANGED <<AnyTimer, nextThread, CurrentFiber, paused, Aborted, Halted>>
  BY <1>0 DEF AnyTimer, CurrentFiber, Aborted, Halted
<1> QED
  BY <1>4, <1>7, <1>8, <1>9, <1>10 DEF Tasks!ExitCheck

\* Steps of the loop that programs do not see: going round, rescheduling
\* tickers, the clock, and the exit check while it is under way.
LEMMA UnseenLoop ==
  ASSUME TaskInv, TypeInv',
         \/ Tick \/ LoopHead \/ TimersDone \/ TickersDone \/ Wait \/ Check
         \/ ResumeStale /\ pc' = "stale"
  PROVE  [Tasks!Next]_(Tasks!vars)
<1>1. /\ (pc # "running" /\ pc' # "running") \/ (pc' = pc /\ uid' = uid)
      /\ UNCHANGED <<nextThread, paused, panic, running>>
  BY DEF Tick, LoopHead, TimersDone, TickersDone, Wait, Check, ResumeStale, loopVars, fiberVars
<1>2. UNCHANGED <<nextThread, CurrentFiber, paused, Aborted, Halted>>
  BY <1>1 DEF CurrentFiber, Aborted, Halted
<1>3. AnyTimer' = AnyTimer
  <2>1. CASE TickersDone
    <3>1. timers' = timers /\ newly' = {}
          /\ tickers' = tickers \cup {e \in newly : \A o \in tickers : o.at # e.at}
      BY <2>1 DEF TickersDone
    <3>2. tickers' = {} <=> tickers = {} /\ newly = {}
      BY <3>1
    <3> QED
      BY <3>1, <3>2 DEF AnyTimer
  <2>2. CASE TimersDone
    BY <2>2 DEF TimersDone, AnyTimer, TaskInv, TickersApart
  <2>3. CASE Tick \/ LoopHead \/ Wait \/ Check \/ ResumeStale
    BY <2>3 DEF Tick, LoopHead, Wait, Check, ResumeStale, timerVars, AnyTimer
  <2> QED
    BY <2>1, <2>2, <2>3
<1>4. VisibleTasks' = VisibleTasks
  <2>1. CASE Check /\ pc' = "stale"
    <3>1. queue = <<>> /\ pc = "check"
      BY <2>1 DEF Check, NothingScheduled
    <3> QED
      BY <2>1, <3>1 DEF VisibleTasks
  <2>2. CASE ResumeStale /\ pc' = "stale"
    BY <2>2 DEF ResumeStale, VisibleTasks
  <2>3. CASE Tick
    BY <2>3 DEF Tick, loopVars, VisibleTasks
  <2>4. CASE LoopHead \/ TimersDone \/ TickersDone \/ Wait \/ (Check /\ pc' # "stale")
    BY <2>4, VisibleSame DEF LoopHead, TimersDone, TickersDone, Wait, Check
  <2> QED
    BY <2>1, <2>2, <2>3, <2>4
<1> QED
  BY <1>2, <1>3, <1>4, Unseen

\* What the running fiber does to timers and tasks.
LEMMA SeenSyscall ==
  ASSUME TaskInv, TypeInv'
  PROVE  /\ \A d \in Delays : TimerInit(d) => Tasks!SetTimers
         /\ \A p \in Periods : TickerInit(p) => Tasks!SetTimers
         /\ \A u \in TimerIds : TimerClear(u) \/ TickerClear(u) => Tasks!SetTimers
         /\ \A t \in ThreadIds, v \in Args : FiberResume(t, v) => Tasks!Request
<1>0. pc = "running" => CurrentFiber # Tasks!Idle
  BY DEF CurrentFiber, Tasks!Idle, TaskInv, TypeInv, TypeOK
<1>1. ASSUME pc = "running", queue' = queue,
             UNCHANGED <<pc, running, panic, paused, uid, nextThread>>
      PROVE  Tasks!SetTimers
  <2>1. VisibleTasks' = VisibleTasks
    BY <1>1, VisibleSame
  <2>2. AnyTimer' \in BOOLEAN
    BY DEF AnyTimer
  <2>3. UNCHANGED <<nextThread, CurrentFiber, paused, Aborted, Halted>>
    BY <1>1 DEF CurrentFiber, Aborted, Halted
  <2> QED
    BY <1>0, <1>1, <2>1, <2>2, <2>3 DEF Tasks!SetTimers
<1>2. ASSUME NEW d \in Delays, TimerInit(d) PROVE Tasks!SetTimers
  BY <1>1, <1>2 DEF TimerInit, loopVars, fiberVars
<1>3. ASSUME NEW p \in Periods, TickerInit(p) PROVE Tasks!SetTimers
  BY <1>1, <1>3 DEF TickerInit, loopVars, fiberVars
<1>4. ASSUME NEW u \in TimerIds, TimerClear(u) \/ TickerClear(u) PROVE Tasks!SetTimers
  BY <1>1, <1>4 DEF TimerClear, TickerClear, loopVars, fiberVars
<1>5. ASSUME NEW t \in ThreadIds, NEW v \in Args, FiberResume(t, v) PROVE Tasks!Request
  <2>1. /\ pc = "running" /\ t < nextThread /\ queue' = Append(queue, Thread(t, v))
        /\ UNCHANGED <<pc, running, panic, timers, tickers, newly, paused, uid, nextThread>>
    BY <1>5 DEF FiberResume, loopVars, timerVars, fiberVars
  <2>2. Thread(t, v) \in Task
    BY ThreadIsTask
  <2>3. VisibleTasks' = Append(VisibleTasks, PlainTask(Thread(t, v)))
    BY <2>1, <2>2, VisibleAppend DEF TaskInv
  <2>4. PlainTask(Thread(t, v)) = Tasks!Resume(t, v)
    BY DEF PlainTask, Thread, Tasks!Resume
  <2>5. /\ VisibleTasks \in Seq({PlainTask(q) : q \in Task})
        /\ PlainTask(Thread(t, v)) \in {PlainTask(q) : q \in Task}
    BY <2>1, <2>2 DEF VisibleTasks, TaskInv, TypeInv, TypeOK
  <2>6. /\ Len(VisibleTasks') = Len(VisibleTasks) + 1 /\ Len(VisibleTasks) \in Nat
        /\ \A i \in 1 .. Len(VisibleTasks) : VisibleTasks'[i] = VisibleTasks[i]
        /\ VisibleTasks'[Len(VisibleTasks) + 1] = Tasks!Resume(t, v)
    BY <2>3, <2>4, <2>5
  <2>7. t \in 0 .. nextThread - 1
    BY <2>1, RuntimeAssumption DEF ThreadIds, TaskInv, TypeInv, TypeOK
  <2>8. \A i \in Len(VisibleTasks) + 1 .. Len(VisibleTasks') :
          \E f \in 0 .. nextThread - 1, w \in Args : VisibleTasks'[i] = Tasks!Resume(f, w)
    BY <2>6, <2>7
  <2>9. UNCHANGED <<AnyTimer, nextThread, CurrentFiber, paused, Aborted, Halted>>
    BY <2>1 DEF AnyTimer, CurrentFiber, Aborted, Halted
  <2> QED
    BY <1>0, <2>1, <2>6, <2>8, <2>9 DEF Tasks!Request
<1> QED
  BY <1>2, <1>3, <1>4, <1>5

\* The running fiber gives the VM back.
LEMMA SeenGiveBack ==
  ASSUME TaskInv
  PROVE  /\ FiberSuspend => Tasks!Suspend
         /\ FiberReturn => Tasks!Return
         /\ \A s \in {0, 1} : Exit(s) => Tasks!Exit
<1>0. pc = "running" => CurrentFiber = uid /\ CurrentFiber # Tasks!Idle
  BY DEF CurrentFiber, Tasks!Idle, TaskInv, TypeInv, TypeOK
<1>1. pc = "running" => base[uid] + 1 \in Nat \ {0}
  <2>1. pc = "running" => uid \in ThreadIds
    BY RuntimeAssumption DEF TaskInv, TypeInv, TypeOK, IdsIssued, ThreadIds
  <2>2. pc = "running" => base[uid] \in Nat
    BY <2>1 DEF TaskInv, TypeInv, TypeOK
  <2> QED
    BY <2>2
<1>2. ASSUME FiberSuspend PROVE Tasks!Suspend
  <2>1. /\ pc = "running" /\ pc' = "check" /\ panic' = panic /\ paused' = paused \cup {uid}
        /\ UNCHANGED <<running, queue, timers, tickers, newly, nextThread>>
    BY <1>2, LeaveRunPops DEF FiberSuspend, SuspendedHeight, timerVars
  <2>2. CurrentFiber' = Tasks!Idle /\ UNCHANGED <<AnyTimer, Aborted, Halted>>
    BY <2>1 DEF CurrentFiber, Tasks!Idle, AnyTimer, Aborted, Halted
  <2>3. VisibleTasks' = VisibleTasks
    BY <2>1, VisibleSame
  <2> QED
    BY <1>0, <2>1, <2>2, <2>3 DEF Tasks!Suspend
<1>3. ASSUME FiberReturn PROVE Tasks!Return
  <2>1. /\ pc = "running" /\ pc' = "check" /\ panic' = panic
        /\ UNCHANGED <<running, queue, timers, tickers, newly, nextThread, paused>>
    BY <1>1, <1>3, LeaveRunPops DEF FiberReturn, timerVars
  <2>2. CurrentFiber' = Tasks!Idle /\ UNCHANGED <<AnyTimer, Aborted, Halted>>
    BY <2>1 DEF CurrentFiber, Tasks!Idle, AnyTimer, Aborted, Halted
  <2>3. VisibleTasks' = VisibleTasks
    BY <2>1, VisibleSame
  <2> QED
    BY <1>0, <2>1, <2>2, <2>3 DEF Tasks!Return
<1>4. ASSUME NEW s \in {0, 1}, Exit(s) PROVE Tasks!Exit
  <2>1. /\ pc = "running" /\ pc' = "check" /\ panic' = panic /\ queue' = <<>> /\ running' = FALSE
        /\ UNCHANGED <<nextThread, paused>>
    BY <1>1, <1>4, LeaveRunPops DEF Exit
  <2>2. CurrentFiber' = Tasks!Idle /\ Halted' = TRUE /\ UNCHANGED Aborted
    BY <2>1 DEF CurrentFiber, Tasks!Idle, Aborted, Halted
  <2>3. VisibleTasks' = <<>>
    BY <2>1 DEF VisibleTasks
  <2>4. AnyTimer' \in BOOLEAN
    BY DEF AnyTimer
  <2> QED
    BY <1>0, <2>1, <2>2, <2>3, <2>4 DEF Tasks!Exit
<1> QED
  BY <1>2, <1>3, <1>4

\* Every step of start_runtime and of a fiber is a step of TaskLoop or unseen.
LEMMA StepIsTaskLoop == TaskInv /\ TypeInv' /\ [Next]_vars => [Tasks!Next]_(Tasks!vars)
<1> SUFFICES ASSUME TaskInv, TypeInv', [Next]_vars PROVE [Tasks!Next]_(Tasks!vars)
  OBVIOUS
<1>1. CASE StartProgram
  BY <1>1, SeenRegister DEF Tasks!Next
<1>2. CASE FireTimer \/ FireTicker
  BY <1>2, SeenFire DEF Tasks!Next
<1>3. CASE DispatchCallback \/ DispatchThread \/ DispatchInvalidThread
  BY <1>3, SeenDispatch DEF Tasks!Next
<1>4. CASE ResumeStale /\ pc' # "stale"
  BY <1>4, SeenExitCheck DEF Tasks!Next
<1>5. CASE Tick \/ LoopHead \/ TimersDone \/ TickersDone \/ Wait \/ Check
           \/ (ResumeStale /\ pc' = "stale")
  BY <1>5, UnseenLoop
<1>6. CASE Fiber
  BY <1>6, SeenSyscall, SeenGiveBack DEF Fiber, Tasks!Next
<1>7. CASE UNCHANGED vars
  <2>1. UNCHANGED <<VisibleTasks, AnyTimer, nextThread, CurrentFiber, paused, Aborted, Halted>>
    BY <1>7 DEF vars, loopVars, timerVars, fiberVars, VisibleTasks, AnyTimer, CurrentFiber,
       Aborted, Halted
  <2> QED
    BY <2>1, Unseen
<1> QED
  BY <1>1, <1>2, <1>3, <1>4, <1>5, <1>6, <1>7 DEF Next, Loop

\* start_runtime implements the simple loop that Sync builds on, for any number
\* of fibers, timers and tickers and however the clock moves (vm.cpp:2835-2957).
THEOREM RuntimeIsTaskLoop == Spec => IsTaskLoop
<1>1. Init => Tasks!Init
  <2> SUFFICES ASSUME Init PROVE Tasks!Init
    OBVIOUS
  <2>1. VisibleTasks = <<>> /\ AnyTimer = FALSE /\ CurrentFiber = Tasks!Idle
        /\ Aborted = FALSE /\ Halted = FALSE /\ paused = {} /\ nextThread = 0
    BY DEF Init, VisibleTasks, AnyTimer, CurrentFiber, Tasks!Idle, Aborted, Halted
  <2> QED
    BY <2>1 DEF Tasks!Init
<1>2. TaskInv => TypeInv
  BY DEF TaskInv
<1> QED
  BY <1>1, <1>2, TaskInvHolds, StepIsTaskLoop, PTL DEF Spec, IsTaskLoop, Tasks!Spec
=============================================================================
