------------------------------- MODULE Runtime -------------------------------
(***************************************************************************)
(* The scheduler of the Charly VM: VM::start_runtime in src/vm/vm.cpp with *)
(* the task queue, the timers, the tickers and the paused fibers, driven   *)
(* by main() in src/main.cpp.                                              *)
(*                                                                         *)
(* Everything runs on one native thread.  What interleaves are the fibers  *)
(* (cooperatively: a fiber keeps the VM until it returns, suspends or      *)
(* calls exit) and the steady clock, which may advance, or stand still,    *)
(* between any two reads of it.                                            *)
(*                                                                         *)
(* A fiber is any Charly program: between being dispatched and giving the  *)
(* VM back it makes an arbitrary sequence of the scheduling syscalls.      *)
(***************************************************************************)
EXTENDS Integers, Sequences, FiniteSets

CONSTANTS
  MaxTime,     \* bound: last value of the steady clock, in ticks
  MaxTimers,   \* bound: number of timer and ticker ids handed out
  MaxThreads,  \* bound: number of fibers created
  MaxQueue,    \* bound: a fiber resumes others only below this queue length
  Delays,      \* the delays timers are created with
  Periods,     \* the periods tickers are created with
  Args,        \* values a fiber is resumed with
  Stale        \* the stale thread exception object start_runtime makes

ASSUME RuntimeAssumption ==
  /\ MaxTime \in Nat
  /\ MaxTimers \in Nat
  /\ MaxThreads \in Nat
  /\ MaxQueue \in Nat
  /\ Delays \subseteq Nat
  /\ Periods \subseteq Nat
  /\ Stale \notin Args

VARIABLES
  clock,       \* std::chrono::steady_clock::now()
  pc,          \* where start_runtime stands
  now,         \* the loop's snapshot of the clock
  programs,    \* main() still has to run this many modules (prelude, user file)
  running,     \* VM::running
  status,      \* VM::status_code
  panic,       \* the Status the VM aborted with, or "none"
  queue,       \* VM::task_queue
  timers,      \* VM::timers, at most one entry per timestamp
  tickers,     \* VM::tickers, at most one entry per timestamp
  newly,       \* newly_scheduled_tickers
  nextTimer,   \* VM::next_timer_id
  paused,      \* VM::paused_threads
  stale,       \* paused threads the exit check still has to resume
  nextThread,  \* VM::next_thread_id
  uid,         \* VM::uid
  mode,        \* which branch of the loop entered run()
  stack,       \* height of VM::stack outside the values of the running fiber
  base,        \* height of VM::stack below the values of each fiber
  \* History
  deadline,    \* earliest time the callback of an issued id may run
  cleared,     \* ids passed to clear_timer
  stopped,     \* ids passed to clear_ticker
  fired,       \* timer ids whose callback has been dispatched
  finished     \* fibers that returned or called exit

loopVars  == <<pc, now, programs, running, status, panic>>
timerVars == <<timers, tickers, newly, nextTimer>>
fiberVars == <<paused, stale, nextThread, uid, mode, stack, base>>
histVars  == <<deadline, cleared, stopped, fired, finished>>
vars == <<clock, loopVars, queue, timerVars, fiberVars, histVars>>

TimerIds  == 0 .. MaxTimers - 1
ThreadIds == 0 .. MaxThreads - 1

Entry       == [at : Nat, uid : TimerIds]
TickerEntry == [at : Nat, uid : TimerIds, period : Periods]

\* VMTask: a callback (of main, a timer or a ticker) or a fiber to resume.
CallbackTask == [kind : {"main", "timer", "ticker"}, uid : Nat]
ThreadTask   == [kind : {"thread"}, id : ThreadIds, arg : Args \cup {Stale}]
Task         == CallbackTask \cup ThreadTask

Callback(k, u) == [kind |-> k, uid |-> u]
Thread(t, v)   == [kind |-> "thread", id |-> t, arg |-> v]

\* std::map::insert: an entry whose timestamp is taken is dropped silently.
MapInsert(map, e) ==
  IF \E o \in map : o.at = e.at THEN map ELSE map \cup {e}

\* Faulty: takes any expired entry, not the first.
IsExpiredFront_Any(map, e) == e \in map /\ e.at <= now

\* Faulty: takes an entry that is due one tick from now.
IsExpiredFront_Early(map, e) ==
  /\ e \in map
  /\ e.at <= now + 1
  /\ \A o \in map : e.at <= o.at

\* it == map.begin(), it->first <= now
IsExpiredFront(map, e) ==
  /\ e \in map
  /\ e.at <= now
  /\ \A o \in map : e.at <= o.at

NoneExpired(map) == \A o \in map : o.at > now

-----------------------------------------------------------------------------
Init ==
  /\ clock = 0
  /\ pc = "main"
  /\ now = 0
  /\ programs \in {1, 2}
  /\ running = TRUE
  /\ status = 0
  /\ panic = "none"
  /\ queue = <<>>
  /\ timers = {} /\ tickers = {} /\ newly = {}
  /\ nextTimer = 0
  /\ paused = {} /\ stale = {}
  /\ nextThread = 0
  /\ uid = 0
  /\ mode = "callback"
  /\ stack = 0
  /\ base = [t \in ThreadIds |-> 0]
  /\ deadline = [u \in TimerIds |-> 0]
  /\ cleared = {} /\ stopped = {} /\ fired = {} /\ finished = {}

-----------------------------------------------------------------------------
(* The environment of the loop: the clock, and main().                     *)

Tick ==
  /\ clock < MaxTime
  /\ pc \notin {"main", "aborted"}
  /\ clock' = clock + 1
  /\ UNCHANGED <<loopVars, queue, timerVars, fiberVars, histVars>>

\* main() registers the module function of the next module and enters
\* start_runtime, whether or not the previous module called exit.
StartProgram ==
  /\ pc = "main"
  /\ programs > 0
  /\ programs' = programs - 1
  /\ queue' = Append(queue, Callback("main", 0))
  /\ pc' = "head"
  /\ UNCHANGED <<clock, now, running, status, panic,
                 timerVars, fiberVars, histVars>>

-----------------------------------------------------------------------------
(* One iteration of start_runtime.                                         *)

\* Faulty: while (true).
LoopHead_Ignores_Running ==
  /\ pc = "head"
  /\ pc' = "timers" /\ now' = clock
  /\ UNCHANGED <<clock, programs, running, status, panic, queue,
                 timerVars, fiberVars, histVars>>

LoopHead ==
  /\ pc = "head"
  /\ IF running
     THEN pc' = "timers" /\ now' = clock
     ELSE pc' = "main" /\ UNCHANGED now
  /\ UNCHANGED <<clock, programs, running, status, panic, queue,
                 timerVars, fiberVars, histVars>>

\* Faulty: the entry stays in the map.
FireTimer_Keeps ==
  /\ pc = "timers"
  /\ Len(queue) < MaxQueue
  /\ \E e \in timers :
       /\ IsExpiredFront(timers, e)
       /\ queue' = Append(queue, Callback("timer", e.uid))
  /\ UNCHANGED <<clock, loopVars, timerVars, fiberVars, histVars>>

FireTimer ==
  /\ pc = "timers"
  /\ \E e \in timers :
       /\ IsExpiredFront(timers, e)
       /\ queue' = Append(queue, Callback("timer", e.uid))
       /\ timers' = timers \ {e}
  /\ UNCHANGED <<clock, loopVars, tickers, newly, nextTimer, fiberVars, histVars>>

TimersDone ==
  /\ pc = "timers"
  /\ NoneExpired(timers)
  /\ pc' = "tickers"
  /\ newly' = {}
  /\ UNCHANGED <<clock, now, programs, running, status, panic, queue,
                 timers, tickers, nextTimer, fiberVars, histVars>>

\* A fired ticker is rescheduled relative to the loop's own now.
FireTicker ==
  /\ pc = "tickers"
  /\ \E e \in tickers :
       /\ IsExpiredFront(tickers, e)
       /\ queue' = Append(queue, Callback("ticker", e.uid))
       /\ newly' = MapInsert(newly,
                    [at |-> now + e.period, uid |-> e.uid, period |-> e.period])
       /\ tickers' = tickers \ {e}
  /\ UNCHANGED <<clock, loopVars, timers, nextTimer, fiberVars, histVars>>

\* Faulty: newly_scheduled_tickers outlives the iteration.
TickersDone_Keeps_Newly ==
  /\ pc = "tickers"
  /\ NoneExpired(tickers)
  /\ tickers' = tickers \cup {e \in newly : \A o \in tickers : o.at # e.at}
  /\ pc' = "dispatch"
  /\ UNCHANGED <<clock, now, programs, running, status, panic, queue,
                 timers, newly, nextTimer, fiberVars, histVars>>

\* tickers.insert(begin, end) keeps the existing entry of a taken timestamp.
TickersDone ==
  /\ pc = "tickers"
  /\ NoneExpired(tickers)
  /\ tickers' = tickers \cup {e \in newly : \A o \in tickers : o.at # e.at}
  /\ newly' = {}
  /\ pc' = "dispatch"
  /\ UNCHANGED <<clock, now, programs, running, status, panic, queue,
                 timers, nextTimer, fiberVars, histVars>>

\* The callback starts on whatever the previous run left on VM::stack.
DispatchCallback ==
  /\ pc = "dispatch"
  /\ queue # <<>>
  /\ Head(queue).kind # "thread"
  /\ nextThread < MaxThreads
  /\ queue' = Tail(queue)
  /\ uid' = nextThread
  /\ nextThread' = nextThread + 1
  /\ mode' = "callback"
  /\ base' = [base EXCEPT ![nextThread] = stack]
  /\ fired' = IF Head(queue).kind = "timer"
              THEN fired \cup {Head(queue).uid} ELSE fired
  /\ pc' = "running"
  /\ UNCHANGED <<clock, now, programs, running, status, panic, timerVars,
                 paused, stale, stack, deadline, cleared, stopped, finished>>

\* Faulty: paused_threads keeps the resumed fiber.
DispatchThread_Keeps ==
  /\ pc = "dispatch"
  /\ queue # <<>>
  /\ Head(queue).kind = "thread"
  /\ Head(queue).id \in paused
  /\ queue' = Tail(queue)
  /\ uid' = Head(queue).id
  /\ mode' = "thread"
  /\ stack' = base[Head(queue).id]
  /\ pc' = "running"
  /\ UNCHANGED <<clock, now, programs, running, status, panic, timerVars,
                 paused, stale, nextThread, base, histVars>>

\* VM::stack is replaced by the stack of the fiber, the argument on top.
DispatchThread ==
  /\ pc = "dispatch"
  /\ queue # <<>>
  /\ Head(queue).kind = "thread"
  /\ Head(queue).id \in paused
  /\ queue' = Tail(queue)
  /\ uid' = Head(queue).id
  /\ paused' = paused \ {Head(queue).id}
  /\ mode' = "thread"
  /\ stack' = base[Head(queue).id]
  /\ pc' = "running"
  /\ UNCHANGED <<clock, now, programs, running, status, panic, timerVars,
                 stale, nextThread, base, histVars>>

\* panic(Status::InvalidThreadId): VM::exit(1), then std::abort.
DispatchInvalidThread ==
  /\ pc = "dispatch"
  /\ queue # <<>>
  /\ Head(queue).kind = "thread"
  /\ Head(queue).id \notin paused
  /\ queue' = <<>>
  /\ timers' = {}
  /\ running' = FALSE
  /\ status' = 1
  /\ panic' = "InvalidThreadId"
  /\ pc' = "aborted"
  /\ UNCHANGED <<clock, now, programs, tickers, newly, nextTimer,
                 fiberVars, histVars>>

\* task_queue_cv.wait_for: it may wake before the next deadline.
Wait ==
  /\ pc = "dispatch"
  /\ queue = <<>>
  /\ pc' = "check"
  /\ UNCHANGED <<clock, now, programs, running, status, panic, queue,
                 timerVars, fiberVars, histVars>>

\* Faulty: forgets the timers.
NothingScheduled_Ignores_Timers == queue = <<>> /\ tickers = {}

NothingScheduled == queue = <<>> /\ timers = {} /\ tickers = {}

\* The exit check: leave the loop, go round, or resume every paused fiber.
Check ==
  /\ pc = "check"
  /\ IF ~NothingScheduled THEN pc' = "head" /\ stale' = {}
     ELSE IF paused = {}  THEN pc' = "main" /\ stale' = {}
     ELSE                      pc' = "stale" /\ stale' = paused
  /\ UNCHANGED <<clock, now, programs, running, status, panic, queue,
                 timerVars, paused, nextThread, uid, mode, stack, base, histVars>>

\* Faulty: resumes the first paused fiber only.
ResumeStale_First ==
  /\ pc = "stale"
  /\ \E t \in stale :
       /\ \A o \in stale : t <= o
       /\ queue' = Append(queue, Thread(t, Stale))
  /\ stale' = {}
  /\ pc' = "head"
  /\ UNCHANGED <<clock, now, programs, running, status, panic, timerVars,
                 paused, nextThread, uid, mode, stack, base, histVars>>

\* One round of the loop over paused_threads, in the order of the ids.
ResumeStale ==
  /\ pc = "stale"
  /\ \E t \in stale :
       /\ \A o \in stale : t <= o
       /\ queue' = Append(queue, Thread(t, Stale))
       /\ stale' = stale \ {t}
       /\ pc' = IF stale = {t} THEN "head" ELSE "stale"
  /\ UNCHANGED <<clock, now, programs, running, status, panic, timerVars,
                 paused, nextThread, uid, mode, stack, base, histVars>>

-----------------------------------------------------------------------------
(* Syscalls of the running fiber.                                          *)

\* The id is handed out and returned even when the insertion is dropped.
TimerInit(d) ==
  /\ pc = "running"
  /\ nextTimer < MaxTimers
  /\ clock + d <= MaxTime
  /\ timers' = MapInsert(timers, [at |-> clock + d, uid |-> nextTimer])
  /\ nextTimer' = nextTimer + 1
  /\ deadline' = [deadline EXCEPT ![nextTimer] = clock + d]
  /\ UNCHANGED <<clock, loopVars, queue, tickers, newly, fiberVars,
                 cleared, stopped, fired, finished>>

TickerInit(p) ==
  /\ pc = "running"
  /\ nextTimer < MaxTimers
  /\ clock + p <= MaxTime
  /\ tickers' = MapInsert(tickers,
                  [at |-> clock + p, uid |-> nextTimer, period |-> p])
  /\ nextTimer' = nextTimer + 1
  /\ deadline' = [deadline EXCEPT ![nextTimer] = clock + p]
  /\ UNCHANGED <<clock, loopVars, queue, timers, newly, fiberVars,
                 cleared, stopped, fired, finished>>

\* Only the map is searched: an invocation already in the queue stays there.
TimerClear(u) ==
  /\ pc = "running"
  /\ u < nextTimer
  /\ timers' = {e \in timers : e.uid # u}
  /\ cleared' = cleared \cup {u}
  /\ UNCHANGED <<clock, loopVars, queue, tickers, newly, nextTimer, fiberVars,
                 deadline, stopped, fired, finished>>

TickerClear(u) ==
  /\ pc = "running"
  /\ u < nextTimer
  /\ tickers' = {e \in tickers : e.uid # u}
  /\ stopped' = stopped \cup {u}
  /\ UNCHANGED <<clock, loopVars, queue, timers, newly, nextTimer, fiberVars,
                 deadline, cleared, fired, finished>>

FiberResume(t, v) ==
  /\ pc = "running"
  /\ t < nextThread
  /\ Len(queue) < MaxQueue
  /\ queue' = Append(queue, Thread(t, v))
  /\ UNCHANGED <<clock, loopVars, timerVars, fiberVars, histVars>>

\* Faulty: pops two values.
LeaveRun_Pops_Two(h) ==
  /\ pc' = "check"
  /\ stack' = IF mode = "callback" THEN h - 2 ELSE h
  /\ UNCHANGED panic

\* run() has returned with h values on VM::stack; only the callback branch
\* of the loop pops one, and pop_stack panics on an empty stack.
LeaveRun(h) ==
  IF mode = "callback" /\ h = 0
  THEN /\ pc' = "aborted"
       /\ panic' = "CorruptedStack"
       /\ stack' = 0
  ELSE /\ pc' = "check"
       /\ stack' = IF mode = "callback" THEN h - 1 ELSE h
       /\ UNCHANGED panic

\* Faulty: fibersuspend pushes no value.
SuspendedHeight_None == 0

\* Height of VM::stack after suspend_thread moved it into the paused fiber
\* and op_syscall pushed the null the syscall evaluates to.
SuspendedHeight == 1

FiberSuspend ==
  /\ pc = "running"
  /\ paused' = paused \cup {uid}
  /\ LeaveRun(SuspendedHeight)
  /\ UNCHANGED <<clock, now, programs, running, status, queue, timerVars,
                 stale, nextThread, uid, mode, base, histVars>>

\* The outermost frame returns: its return value lies above the base.
FiberReturn ==
  /\ pc = "running"
  /\ finished' = finished \cup {uid}
  /\ LeaveRun(base[uid] + 1)
  /\ UNCHANGED <<clock, now, programs, running, status, queue, timerVars,
                 paused, stale, nextThread, uid, mode, base,
                 deadline, cleared, stopped, fired>>

\* charly.vm.exit, also what the handler of uncaught exceptions ends with.
\* Tickers and paused fibers are left as they are.
Exit(s) ==
  /\ pc = "running"
  /\ timers' = {}
  /\ queue' = <<>>
  /\ running' = FALSE
  /\ status' = s
  /\ finished' = finished \cup {uid}
  /\ LeaveRun(base[uid] + 1)
  /\ UNCHANGED <<clock, now, programs, tickers, newly, nextTimer,
                 paused, stale, nextThread, uid, mode, base,
                 deadline, cleared, stopped, fired>>

-----------------------------------------------------------------------------
Loop ==
  \/ StartProgram \/ LoopHead
  \/ FireTimer \/ TimersDone \/ FireTicker \/ TickersDone
  \/ DispatchCallback \/ DispatchThread \/ DispatchInvalidThread
  \/ Wait \/ Check \/ ResumeStale

Fiber ==
  \/ \E d \in Delays : TimerInit(d)
  \/ \E p \in Periods : TickerInit(p)
  \/ \E u \in TimerIds : TimerClear(u) \/ TickerClear(u)
  \/ \E t \in ThreadIds, v \in Args : FiberResume(t, v)
  \/ FiberSuspend
  \/ FiberReturn
  \/ \E s \in {0, 1} : Exit(s)

Next == Tick \/ Loop \/ Fiber

Spec == Init /\ [][Next]_vars

\* The loop never stops by itself, time passes, and a Charly program gives
\* the VM back after finitely many steps (fibers are cooperative: a program
\* that does not is a program that never ends).
GiveBack == FiberSuspend \/ FiberReturn \/ \E s \in {0, 1} : Exit(s)

FairSpec ==
  /\ Spec
  /\ WF_vars(Tick)
  /\ WF_vars(Loop)
  /\ WF_vars(GiveBack)

-----------------------------------------------------------------------------
(* Properties                                                              *)

TypeOK ==
  /\ clock \in Nat
  /\ pc \in {"main", "head", "timers", "tickers", "dispatch", "running",
             "check", "stale", "aborted"}
  /\ now \in Nat
  /\ programs \in 0 .. 2
  /\ running \in BOOLEAN
  /\ status \in {0, 1}
  /\ panic \in {"none", "InvalidThreadId", "CorruptedStack"}
  /\ queue \in Seq(Task)
  /\ timers \subseteq Entry
  /\ tickers \subseteq TickerEntry
  /\ newly \subseteq TickerEntry
  /\ nextTimer \in 0 .. MaxTimers
  /\ paused \subseteq ThreadIds
  /\ stale \subseteq ThreadIds
  /\ nextThread \in 0 .. MaxThreads
  /\ uid \in Nat
  /\ mode \in {"callback", "thread"}
  /\ stack \in Nat
  /\ base \in [ThreadIds -> Nat]
  /\ deadline \in [TimerIds -> Nat]
  /\ cleared \subseteq TimerIds
  /\ stopped \subseteq TimerIds
  /\ fired \subseteq TimerIds
  /\ finished \subseteq ThreadIds

IsTimerTask(i) == queue[i].kind = "timer"

\* A timer callback runs at most once: an id is never at two places of the
\* timers map, the task queue and the set of callbacks already dispatched.
\* start_runtime moves it from one to the next with register_task before
\* timers.erase (vm.cpp:2841-2846), and next_timer_id never repeats.
TimerOnce ==
  /\ \A i \in DOMAIN queue : IsTimerTask(i) =>
       /\ queue[i].uid \notin fired
       /\ \A j \in DOMAIN queue :
            IsTimerTask(j) /\ queue[i].uid = queue[j].uid => i = j
       /\ \A e \in timers : e.uid # queue[i].uid
  /\ \A e \in timers :
       /\ e.uid \notin fired
       /\ \A o \in timers : e.uid = o.uid => e = o

\* No timer callback is scheduled before its deadline has passed on the
\* steady clock, however the loop's snapshot of it and the clock drift apart.
NeverEarly ==
  /\ \A i \in DOMAIN queue : IsTimerTask(i) => deadline[queue[i].uid] <= clock
  /\ \A u \in fired : deadline[u] <= clock

\* Timer callbacks run in the order of their deadlines, whichever fiber
\* registered them and however late the loop is: a callback that has run, or
\* is ahead in the task queue, was never due after one still waiting.
TimersInOrder ==
  /\ \A i, j \in DOMAIN queue :
       i < j /\ IsTimerTask(i) /\ IsTimerTask(j)
         => deadline[queue[i].uid] <= deadline[queue[j].uid]
  /\ \A i \in DOMAIN queue, u \in fired :
       IsTimerTask(i) => deadline[u] <= deadline[queue[i].uid]
  /\ \A e \in timers :
       /\ \A i \in DOMAIN queue : IsTimerTask(i) => deadline[queue[i].uid] <= e.at
       /\ \A u \in fired : deadline[u] <= e.at

\* A ticker is scheduled at most once at a time, and never again once
\* clear_ticker was called: the entries start_runtime has taken out of the map
\* to reschedule them are back before a fiber can clear them.
TickerOnce ==
  \A e \in tickers \cup newly :
    /\ e.uid \notin stopped
    /\ \A o \in tickers \cup newly : e.uid = o.uid => e = o

IsCurrent(t) == pc = "running" /\ uid = t

\* Fibers are neither lost nor duplicated: a fiber that was started is
\* executing, is in paused_threads or has ended, and never two of these.  In
\* particular a fiber that ended is never resumed.
FiberConservation ==
  /\ pc = "running" => uid < nextThread
  /\ paused \cup finished \subseteq 0 .. nextThread - 1
  /\ \A t \in 0 .. nextThread - 1 :
       /\ t \in paused \/ t \in finished \/ IsCurrent(t)
       /\ ~(t \in paused /\ t \in finished)
       /\ ~(t \in paused /\ IsCurrent(t))
       /\ ~(t \in finished /\ IsCurrent(t))

\* The pop_stack after run() (vm.cpp:2914) finds a value although the fiber
\* may have moved VM::stack away by suspending.
NoCorruptedStack == panic # "CorruptedStack"

\* exit is final: no callback and no fiber executes afterwards, neither what
\* the exit check still enqueues nor the next module main() registers.
ExitIsFinal == ~running => pc # "running"

Stopped == ~running \/ pc = "aborted"

IsScheduled(u) == \E e \in tickers \cup newly : e.uid = u
HasTimer(u) == \E e \in timers : e.uid = u

\* A timer in the map eventually runs, unless it is cleared or the VM stops.
TimerFires ==
  \A u \in TimerIds : HasTimer(u) ~> (u \in fired \/ u \in cleared \/ Stopped)

\* When the runtime has no work left, every paused fiber is resumed (with the
\* stale thread exception) instead of being abandoned.
StaleResumed ==
  \A t \in ThreadIds :
    (pc = "check" /\ NothingScheduled /\ running /\ t \in paused)
      ~> (t \notin paused \/ Stopped)

\* "The Ticker tries to invoke a callback at a consistent rate"
\* (src/stdlib/libs/sync.ch:141): a scheduled ticker stays scheduled, also
\* across the rescheduling in start_runtime, until it is cleared.
NoTickerLost ==
  [][\A u \in TimerIds : IsScheduled(u) => IsScheduled(u)' \/ u \in stopped']_vars

-----------------------------------------------------------------------------
(* What the programs see                                                   *)

\* A task without the timer or ticker it came from.
PlainTask(q) ==
  IF q.kind = "thread" THEN [kind |-> "resume", id |-> q.id, arg |-> q.arg]
  ELSE [kind |-> "start"]

\* The exit check makes its resumptions one by one; they count when it is done.
VisibleTasks == IF pc = "stale" THEN <<>> ELSE [i \in DOMAIN queue |-> PlainTask(queue[i])]

AnyTimer     == timers # {} \/ tickers # {} \/ newly # {}
CurrentFiber == IF pc = "running" THEN uid ELSE -1
Aborted      == panic # "none"
Halted       == ~running

Tasks == INSTANCE TaskLoop WITH
  tasks <- VisibleTasks, later <- AnyTimer, started <- nextThread,
  current <- CurrentFiber, panic <- Aborted, halted <- Halted

\* start_runtime with its batches of timers, its rescheduled tickers, its exit
\* check in several steps and its re-entry by main() is the simple loop of
\* TaskLoop: tasks in their order, one fiber at a time, nobody forgotten at
\* the end, the next module only when nothing is left, nothing after exit.
IsTaskLoop == Tasks!Spec
=============================================================================
