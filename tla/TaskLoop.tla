------------------------------ MODULE TaskLoop ------------------------------
(***************************************************************************)
(* What start_runtime promises to the programs it runs, without its timers,*)
(* tickers, clock and stacks: one fiber runs at a time and keeps the VM    *)
(* until it gives it back; tasks are taken in the order they were          *)
(* registered; a paused fiber runs again by a task only; when there is     *)
(* nothing left to do all paused fibers are resumed, the oldest first; and *)
(* nothing runs after exit.  Sync builds on these steps.                   *)
(***************************************************************************)
EXTENDS Integers, Sequences

CONSTANTS
  Args,  \* values a fiber is resumed with
  Stale  \* the stale thread exception object

VARIABLES
  tasks,    \* the task queue
  later,    \* timers or tickers are registered
  started,  \* number of fibers started, the next fiber id
  current,  \* the running fiber, or Idle
  paused,   \* the paused fibers
  panic,    \* the process has aborted
  halted    \* a program has called exit

vars == <<tasks, later, started, current, paused, panic, halted>>

Idle == -1

\* Tasks: call a function on a new fiber, or resume a paused one.
StartTask    == [kind |-> "start"]
Resume(f, v) == [kind |-> "resume", id |-> f, arg |-> v]

\* The tasks q resume the fibers fs with v, each once, in the order of their ids.
ResumesInOrder(q, fs, v) ==
  /\ \A i \in DOMAIN q : \E f \in fs : q[i] = Resume(f, v)
  /\ \A f \in fs : \E i \in DOMAIN q : q[i] = Resume(f, v)
  /\ \A i, j \in DOMAIN q : i < j => q[i].id < q[j].id

\* Before or after main() has handed over the first module.
Init ==
  /\ tasks \in {<<>>, <<StartTask>>}
  /\ later = FALSE
  /\ started = 0
  /\ current = Idle
  /\ paused = {}
  /\ panic = FALSE
  /\ halted = FALSE

-----------------------------------------------------------------------------
(* Between two fibers                                                      *)

Waiting == current = Idle /\ ~panic
Serving == Waiting /\ ~halted /\ tasks # <<>>

\* main() hands over the next module, once nothing is left of the one before.
Register ==
  /\ Waiting
  /\ halted \/ (tasks = <<>> /\ ~later /\ paused = {})
  /\ tasks' = Append(tasks, StartTask)
  /\ UNCHANGED <<later, started, current, paused, panic, halted>>

\* A timer or ticker is due.
Fire ==
  /\ Waiting /\ ~halted /\ later
  /\ tasks' = Append(tasks, StartTask)
  /\ later' \in BOOLEAN
  /\ UNCHANGED <<started, current, paused, panic, halted>>

Start ==
  /\ Serving /\ Head(tasks).kind = "start"
  /\ tasks' = Tail(tasks)
  /\ current' = started
  /\ started' = started + 1
  /\ UNCHANGED <<later, paused, panic, halted>>

Wake ==
  /\ Serving /\ Head(tasks).kind = "resume" /\ Head(tasks).id \in paused
  /\ tasks' = Tail(tasks)
  /\ current' = Head(tasks).id
  /\ paused' = paused \ {Head(tasks).id}
  /\ UNCHANGED <<later, started, panic, halted>>

\* The task resumes a fiber that is not paused: nothing happens after that.
Abort ==
  /\ Serving /\ Head(tasks).kind = "resume" /\ Head(tasks).id \notin paused
  /\ panic' = TRUE
  /\ tasks' \in {tasks, <<>>} /\ later' \in BOOLEAN /\ halted' \in BOOLEAN
  /\ UNCHANGED <<started, current, paused>>

\* Nothing is left to do but fibers are paused: all of them are resumed.
ExitCheck ==
  /\ Waiting /\ tasks = <<>> /\ ~later /\ paused # {}
  /\ DOMAIN tasks' = 1 .. Len(tasks')
  /\ ResumesInOrder(tasks', paused, Stale)
  /\ UNCHANGED <<later, started, current, paused, panic, halted>>

-----------------------------------------------------------------------------
(* Of the running fiber                                                    *)

\* Timers and tickers are registered or cleared.
SetTimers ==
  /\ current # Idle
  /\ later' \in BOOLEAN
  /\ UNCHANGED <<tasks, started, current, paused, panic, halted>>

\* Any fibers are resumed: tasks are added behind the others.
Request ==
  /\ current # Idle
  /\ Len(tasks) <= Len(tasks')
  /\ \A i \in 1 .. Len(tasks) : tasks'[i] = tasks[i]
  /\ \A i \in Len(tasks) + 1 .. Len(tasks') :
       \E f \in 0 .. started - 1, v \in Args : tasks'[i] = Resume(f, v)
  /\ UNCHANGED <<later, started, current, paused, panic, halted>>

Suspend ==
  /\ current # Idle
  /\ paused' = paused \cup {current}
  /\ current' = Idle
  /\ UNCHANGED <<tasks, later, started, panic, halted>>

Return ==
  /\ current # Idle
  /\ current' = Idle
  /\ UNCHANGED <<tasks, later, started, paused, panic, halted>>

Exit ==
  /\ current # Idle
  /\ current' = Idle
  /\ halted' = TRUE
  /\ tasks' = <<>>
  /\ later' \in BOOLEAN
  /\ UNCHANGED <<started, paused, panic>>

-----------------------------------------------------------------------------
Next ==
  \/ Register \/ Fire \/ Start \/ Wake \/ Abort \/ ExitCheck
  \/ SetTimers \/ Request \/ Suspend \/ Return \/ Exit

Spec == Init /\ [][Next]_vars
=============================================================================
