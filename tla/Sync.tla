-------------------------------- MODULE Sync --------------------------------
(***************************************************************************)
(* Fibers and the Notifier class (src/stdlib/libs/sync.ch) on top of the   *)
(* scheduler.  The scheduler is the one of module Runtime with what does   *)
(* not matter here left out: time (a spawned fiber starts sometime) and    *)
(* the stacks.  Fibers are cooperative, so a method up to the point where  *)
(* it suspends its fiber is one step.                                      *)
(*                                                                         *)
(* Notifier and Channel extend this module with the operations that        *)
(* programs call.                                                          *)
(***************************************************************************)
EXTENDS Integers, Sequences, FiniteSets

CONSTANTS
  MaxFibers,  \* bound: number of fibers that ever run
  MaxWaits,   \* bound: number of times each of them suspends
  Notifiers,  \* the Notifier objects
  Values,     \* truthy values that are sent through them
  Null,       \* null, the falsy value
  Stale       \* the stale thread exception object

ASSUME SyncAssumption ==
  /\ MaxFibers \in Nat
  /\ MaxWaits \in Nat
  /\ Values # {}
  /\ Null \notin Values \cup Notifiers
  /\ Stale \notin Values \cup {Null}

VARIABLES
  ready,    \* the task queue
  spawned,  \* spawn() timers that have not fired
  started,  \* number of fibers started, the next fiber id
  current,  \* the running fiber, or Idle
  paused,   \* the paused fibers
  panic,    \* the runtime met a task for a fiber that is not paused
  halted,   \* exit was called: VM::running is false
  stalled,  \* history: the exit check has resumed paused fibers, or exit has
            \* dropped tasks
  nt,       \* the notifiers
  where,    \* the notifier in whose wait() a paused fiber is, else Null
  waits     \* how often each fiber has suspended

schedVars == <<spawned, started, panic, halted, stalled>>
syncVars  == <<ready, schedVars, current, paused, nt, where, waits>>

Idle   == -1
Fibers == 0 .. MaxFibers - 1

\* Tasks: the callback of a spawn(), or a paused fiber with its argument.
StartTask    == [kind |-> "start", id |-> Idle, arg |-> Null]
Resume(f, v) == [kind |-> "resume", id |-> f, arg |-> v]

\* Tasks that resume the fibers fs with v, in that order.
Resumes(fs, v) == [i \in DOMAIN fs |-> Resume(fs[i], v)]

NewNotifier == [open |-> TRUE, result |-> Null, error |-> Null, pending |-> <<>>]

\* The first fiber's task is the module main() registers.
SyncInit ==
  /\ ready = <<StartTask>>
  /\ spawned = 0
  /\ started = 0
  /\ current = Idle
  /\ paused = {}
  /\ panic = FALSE
  /\ halted = FALSE
  /\ stalled = FALSE
  /\ nt = [n \in Notifiers |-> NewNotifier]
  /\ where = [f \in Fibers |-> Null]
  /\ waits = [f \in Fibers |-> 0]

-----------------------------------------------------------------------------
(* The scheduler                                                           *)

StartTasks == Cardinality({i \in DOMAIN ready : ready[i].kind = "start"})

\* start_runtime is between two fibers and has not been told to leave.
Looping == current = Idle /\ ~panic /\ ~halted

\* spawn(): a timer with no delay.
Spawn ==
  /\ current # Idle
  /\ started + StartTasks + spawned < MaxFibers
  /\ spawned' = spawned + 1
  /\ UNCHANGED <<ready, started, current, paused, panic, halted, stalled, nt, where, waits>>

Fire ==
  /\ Looping
  /\ spawned > 0
  /\ spawned' = spawned - 1
  /\ ready' = Append(ready, StartTask)
  /\ UNCHANGED <<started, current, paused, panic, halted, stalled, nt, where, waits>>

Start ==
  /\ Looping
  /\ ready # <<>>
  /\ Head(ready).kind = "start"
  /\ started \in Fibers
  /\ ready' = Tail(ready)
  /\ current' = started
  /\ started' = started + 1
  /\ UNCHANGED <<spawned, paused, panic, halted, stalled, nt, where, waits>>

\* The fiber's outermost function returns.
Return ==
  /\ current # Idle
  /\ current' = Idle
  /\ UNCHANGED <<ready, schedVars, paused, nt, where, waits>>

\* The paused fibers in the order of their ids.
InOrder(fs) ==
  CHOOSE s \in [1 .. Cardinality(fs) -> fs] :
    \A i, j \in DOMAIN s : i < j => s[i] < s[j]

\* The running fiber calls exit, or an exception nobody catches, such as that
\* of a stale wait(), leads there (error.ch:167-187).  Tasks and timers are
\* dropped; paused fibers stay.
Exit ==
  /\ current # Idle
  /\ current' = Idle
  /\ ready' = <<>>
  /\ spawned' = 0
  /\ halted' = TRUE
  /\ stalled' = TRUE
  /\ UNCHANGED <<started, paused, panic, nt, where, waits>>

NothingLeft == current = Idle /\ ready = <<>> /\ spawned = 0 /\ ~panic

\* Faulty: resumes one of the paused fibers only, and gives up after that.
ExitCheck_Once ==
  /\ NothingLeft
  /\ paused # {}
  /\ ~stalled
  /\ stalled' = TRUE
  /\ ready' = Resumes(SubSeq(InOrder(paused), 1, 1), Stale)
  /\ UNCHANGED <<spawned, started, current, paused, panic, halted, nt, where, waits>>

\* Nothing is left to do but fibers are paused: all of them are resumed.  The
\* check is made once more after exit, and nobody runs these tasks then.
ExitCheck ==
  /\ NothingLeft
  /\ paused # {}
  /\ stalled' = TRUE
  /\ ready' = Resumes(InOrder(paused), Stale)
  /\ UNCHANGED <<spawned, started, current, paused, panic, halted, nt, where, waits>>

\* panic(Status::InvalidThreadId)
InvalidThread ==
  /\ Looping
  /\ ready # <<>>
  /\ Head(ready).kind = "resume"
  /\ Head(ready).id \notin paused
  /\ panic' = TRUE
  /\ UNCHANGED <<ready, spawned, started, current, paused, halted, stalled, nt, where, waits>>

\* The next task resumes a paused fiber.
Resuming ==
  /\ Looping
  /\ ready # <<>>
  /\ Head(ready).kind = "resume"
  /\ Head(ready).id \in paused

\* Its fiber, and the notifier in whose wait() that fiber is.
Woken      == Head(ready).id
WokenWhere == where[Woken]

-----------------------------------------------------------------------------
(* Parts of the Notifier methods                                           *)

\* if (value)
Truthy(v) == v # Null

HasWaiters(n) == nt[n].pending # <<>>

\* The running fiber suspends itself in the wait() of the notifier n, which
\* is in the state N.
Suspend(n, N) ==
  /\ waits[current] < MaxWaits
  /\ nt' = [nt EXCEPT ![n] = [N EXCEPT !.pending = Append(@, current)]]
  /\ paused' = paused \cup {current}
  /\ where' = [where EXCEPT ![current] = n]
  /\ waits' = [waits EXCEPT ![current] = @ + 1]
  /\ current' = Idle

\* A fiber is resumed inside wait(): error_val is looked at first, whatever
\* the fiber was resumed with.
WaitFails  == Truthy(nt[WokenWhere].error)
WaitStale  == ~WaitFails /\ Head(ready).arg = Stale
WaitThrows == WaitFails \/ WaitStale

\* The notifier then: the fiber that gets the stale exception clears the list.
AfterWait ==
  IF WaitStale THEN [nt[WokenWhere] EXCEPT !.pending = <<>>] ELSE nt[WokenWhere]

\* Faulty: the waiter stays on the list.
Notified_Keeps(N) == N

\* notify_one(): the notifier without its first waiter.
Notified(N) == [N EXCEPT !.pending = Tail(@)]

\* close(): the loop resumes every waiter with the result.
Closed(N, v) == [N EXCEPT !.open = FALSE, !.result = v, !.pending = <<>>]

-----------------------------------------------------------------------------
(* Properties of the scheduling, whatever the program                      *)

\* Positions of the task queue that resume f, and of the lists it waits in.
Wakeups(f) ==
  {<<"task", i>> : i \in {j \in DOMAIN ready : ready[j].kind = "resume" /\ ready[j].id = f}}
  \cup UNION {{<<n, i>> : i \in {j \in DOMAIN nt[n].pending : nt[n].pending[j] = f}}
              : n \in Notifiers}

SyncTypeOK ==
  /\ ready \in Seq([kind : {"start", "resume"}, id : Fibers \cup {Idle},
                    arg : Values \cup {Null, Stale}])
  /\ spawned \in 0 .. MaxFibers
  /\ started \in 0 .. MaxFibers
  /\ current \in Fibers \cup {Idle}
  /\ paused \subseteq Fibers
  /\ panic \in BOOLEAN /\ halted \in BOOLEAN /\ stalled \in BOOLEAN
  /\ nt \in [Notifiers -> [open : BOOLEAN, result : Values \cup {Null},
                           error : Values \cup {Null}, pending : Seq(Fibers)]]
  /\ where \in [Fibers -> Notifiers \cup {Null}]
  /\ waits \in [Fibers -> 0 .. MaxWaits]

\* As long as neither the exit check nor exit has interfered a paused fiber is
\* in exactly one list of waiters or has exactly one resume task, and no other
\* fiber is in any: no wakeup is lost and none is given twice (sync.ch:47-79).
WakeupsExact ==
  ~stalled => \A f \in Fibers :
                Cardinality(Wakeups(f)) = IF f \in paused THEN 1 ELSE 0

\* "Suspend calling thread until notify is called" ends: every paused fiber
\* runs again, if need be by the exit check (vm.cpp:2941-2949), unless the
\* process aborts or some fiber ends it by exit, as the first one does that
\* does not catch its stale exception (sync.ch:63, error.ch:167-187).
WaitEnds == \A f \in Fibers : f \in paused ~> (f \notin paused \/ panic \/ halted)

\* The runtime only resumes fibers that are paused: its own check,
\* paused_threads.count(thread_id) == 0, never fires (vm.cpp:2878-2880).
ResumesPausedOnly == ~panic
=============================================================================
