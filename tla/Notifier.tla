------------------------------ MODULE Notifier ------------------------------
(***************************************************************************)
(* The Notifier class (src/stdlib/libs/sync.ch) used by arbitrary fibers.  *)
(* A call that changes nothing is no step: wait() on a closed notifier,    *)
(* which answers at once, and notify_one() on one that nobody waits for.   *)
(***************************************************************************)
EXTENDS Sync

vars == syncVars

Init == SyncInit

-----------------------------------------------------------------------------
\* wait() on an open notifier.
Wait(n) ==
  /\ current # Idle
  /\ nt[n].open
  /\ Suspend(n, nt[n])
  /\ UNCHANGED <<ready, schedVars>>

\* The second half of wait().
WaitResumed ==
  /\ Resuming
  /\ ready' = Tail(ready)
  /\ current' = Woken
  /\ paused' = paused \ {Woken}
  /\ where' = [where EXCEPT ![Woken] = Null]
  /\ nt' = [nt EXCEPT ![WokenWhere] = AfterWait]
  /\ UNCHANGED <<schedVars, waits>>

\* Faulty: takes the last waiter.
NotifyOne_Last(n, v) ==
  /\ current # Idle
  /\ nt[n].open
  /\ HasWaiters(n)
  /\ LET p == nt[n].pending
     IN  /\ ready' = Append(ready, Resume(p[Len(p)], v))
         /\ nt' = [nt EXCEPT ![n].pending = SubSeq(p, 1, Len(p) - 1)]
  /\ UNCHANGED <<schedVars, current, paused, where, waits>>

NotifyOne(n, v) ==
  /\ current # Idle
  /\ nt[n].open
  /\ HasWaiters(n)
  /\ ready' = Append(ready, Resume(Head(nt[n].pending), v))
  /\ nt' = [nt EXCEPT ![n] = Notified(nt[n])]
  /\ UNCHANGED <<schedVars, current, paused, where, waits>>

Close(n, v) ==
  /\ current # Idle
  /\ nt[n].open
  /\ ready' = ready \o Resumes(nt[n].pending, v)
  /\ nt' = [nt EXCEPT ![n] = Closed(nt[n], v)]
  /\ UNCHANGED <<schedVars, current, paused, where, waits>>

\* close(@result) stores its argument before it finds the notifier closed.
CloseAgain(n, v) ==
  /\ current # Idle
  /\ ~nt[n].open
  /\ nt' = [nt EXCEPT ![n].result = v]
  /\ UNCHANGED <<ready, schedVars, current, paused, where, waits>>

\* error(): the waiters are resumed by close() and find error_val set.
Error(n, e) ==
  /\ current # Idle
  /\ nt[n].open
  /\ ready' = ready \o Resumes(nt[n].pending, Null)
  /\ nt' = [nt EXCEPT ![n] = Closed([nt[n] EXCEPT !.error = e], Null)]
  /\ UNCHANGED <<schedVars, current, paused, where, waits>>

\* error(@error_val) stores its argument before it finds the notifier closed.
ErrorAgain(n, e) ==
  /\ current # Idle
  /\ ~nt[n].open
  /\ nt' = [nt EXCEPT ![n].error = e]
  /\ UNCHANGED <<ready, schedVars, current, paused, where, waits>>

-----------------------------------------------------------------------------
Scheduler == Spawn \/ Fire \/ Start \/ Return \/ Exit \/ ExitCheck \/ InvalidThread

Methods ==
  \E n \in Notifiers :
    \/ Wait(n)
    \/ \E v \in Values \cup {Null} :
         NotifyOne(n, v) \/ Close(n, v) \/ CloseAgain(n, v) \/ Error(n, v) \/ ErrorAgain(n, v)

Next == Scheduler \/ WaitResumed \/ Methods

Spec == Init /\ [][Next]_vars

\* The loop goes on, and a running fiber sooner or later gives the VM back or
\* has ended the program.
FairSpec ==
  /\ Spec
  /\ WF_vars(Fire \/ Start \/ ExitCheck \/ InvalidThread)
  /\ WF_vars(WaitResumed)
  /\ WF_vars(Return)

-----------------------------------------------------------------------------
(* Properties                                                              *)

TypeOK == SyncTypeOK

\* The fibers inside the wait() of n.
InLine(n) == {f \in Fibers : where[f] = n}

\* Where the fiber f is in a task queue and in a list of waiters.
TaskOf(tasks, f) == {i \in DOMAIN tasks : tasks[i].kind = "resume" /\ tasks[i].id = f}
SpotOf(list, f)  == {i \in DOMAIN list : list[i] = f}

\* f is to be resumed before g: tasks come in their order, then the waiters.
Before(tasks, list, f, g) ==
  \/ \E i \in TaskOf(tasks, f), j \in TaskOf(tasks, g) : i < j
  \/ \E i \in SpotOf(list, f), j \in SpotOf(list, g) : i < j
  \/ TaskOf(tasks, f) # {} /\ SpotOf(list, g) # {}

Ahead(n, f, g) == Before(ready, nt[n].pending, f, g)

\* Fibers leave a notifier in the order in which they came, whoever notifies
\* and however notify_one, close and error are mixed: no fiber overtakes
\* another, who comes is behind all that are there, and who leaves was behind
\* nobody (sync.ch:47-99).  The exit check and exit keep to no order of waiters.
FirstComeFirstServed ==
  [][stalled' \/ \A n \in Notifiers :
       /\ \A f, g \in InLine(n) \cap InLine(n)' : Ahead(n, f, g) => Ahead(n, f, g)'
       /\ \A f \in InLine(n) \cap InLine(n)', g \in InLine(n)' \ InLine(n) : Ahead(n, f, g)'
       /\ \A f \in InLine(n) \ InLine(n)', g \in InLine(n) : ~Ahead(n, g, f)]_vars
=============================================================================
