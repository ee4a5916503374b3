-------------------------- MODULE GarbageCollector --------------------------
(***************************************************************************)
(* The garbage collector of the Charly VM (src/vm/gc.cpp): a mark and      *)
(* sweep collector over heaps of equal cells with an intrusive free list.  *)
(* A collection happens inside allocate_cell, when the last free cell has  *)
(* just been taken.                                                        *)
(*                                                                         *)
(* The VM is the mutator: between two allocations it changes the values it *)
(* refers to (frames, stack, task queue, timers, paused fibers: the roots),*)
(* the references between cells and the immortal flags that Immortal<>     *)
(* sets and clears around values held in C++ variables only.               *)
(***************************************************************************)
EXTENDS Integers, Sequences, FiniteSets

CONSTANTS
  InitialSizes,  \* values of kInitialHeapCount * kHeapsize that are looked at
  MaxCells,      \* bound: grow_heap is not taken beyond this many cells
  MaxRefs        \* bound: number of references stored in a cell

ASSUME GcAssumption ==
  /\ MaxCells \in Nat
  /\ MaxRefs \in Nat
  /\ InitialSizes \subseteq 1 .. MaxCells

VARIABLES
  pc,        \* where allocate_cell stands; "idle" outside
  size,      \* number of cells in the heaps there are
  freelist,  \* the free list, its head first
  live,      \* cells whose type is not kTypeDead
  marked,    \* cells whose mark bit is set
  immortal,  \* cells whose immortal flag is not zero
  refs,      \* the cells a cell refers to, by the fields mark() follows
  todo,      \* arguments of the mark() calls still to be made
  at,        \* the next cell the sweep looks at
  fresh,     \* the cell allocate_cell has taken, a set of at most one
  wants,     \* references init() will store into the fresh cell
  roots,     \* cells the VM's own variables refer to
  running    \* VM::running of the host VM

vars == <<pc, size, freelist, live, marked, immortal, refs, todo, at,
          fresh, wants, roots, running>>

mutatorVars == <<roots, running>>
heapVars    == <<size, freelist, live, refs>>

AllCells == 0 .. MaxCells - 1

\* Cells of the heaps there are, in the order the sweep visits them.
Cells == 0 .. size - 1

Dead == Cells \ live

\* add_heap links each cell to the one before it and the first to the list:
\* the new cells lie on the list last cell first.
AddedCells(from, n) == [i \in 1 .. n |-> from + n - i]

\* mark() follows no reference out of a dead cell.
Children(c) == IF c \in live THEN refs[c] ELSE {}

Closed(S) == \A c \in S : Children(c) \subseteq S

GcRoots == (IF running THEN roots ELSE {}) \cup (immortal \cap live)

\* The least closed set with the roots: what the program can still get at.
Reachable ==
  {c \in Cells : \A S \in SUBSET Cells :
                   GcRoots \subseteq S /\ Closed(S) => c \in S}

-----------------------------------------------------------------------------
Init ==
  /\ pc = "idle"
  /\ size \in InitialSizes
  /\ freelist = AddedCells(0, size)
  /\ live = {} /\ marked = {} /\ immortal = {}
  /\ refs = [c \in AllCells |-> {}]
  /\ todo = {}
  /\ at = 0
  /\ fresh = {} /\ wants = {}
  /\ roots = {}
  /\ running = TRUE

-----------------------------------------------------------------------------
(* allocate_cell                                                           *)

\* Take the first free cell; it keeps its dead header until init().
Take(ws) ==
  /\ pc = "idle"
  /\ ws \subseteq Reachable
  /\ Cardinality(ws) <= MaxRefs
  /\ fresh' = {Head(freelist)}
  /\ freelist' = Tail(freelist)
  /\ wants' = ws
  /\ pc' = IF Tail(freelist) = <<>> THEN "collect" ELSE "init"
  /\ UNCHANGED <<size, live, marked, immortal, refs, todo, at, mutatorVars>>

\* collect(): the roots of the host VM, unless it has stopped.
MarkRoots ==
  /\ pc = "collect"
  /\ todo' = IF running THEN roots ELSE {}
  /\ pc' = "roots"
  /\ UNCHANGED <<heapVars, marked, immortal, at, fresh, wants, mutatorVars>>

\* Faulty: mark() does not look at the mark bit.
Mark_Again(c) ==
  /\ pc \in {"roots", "immortals"}
  /\ c \in todo
  /\ todo' = (todo \ {c}) \cup Children(c)
  /\ marked' = marked \cup {c}
  /\ UNCHANGED <<pc, heapVars, immortal, at, fresh, wants, mutatorVars>>

\* Faulty: does not descend.
Mark_Shallow(c) ==
  /\ pc \in {"roots", "immortals"}
  /\ c \in todo
  /\ todo' = todo \ {c}
  /\ marked' = marked \cup {c}
  /\ UNCHANGED <<pc, heapVars, immortal, at, fresh, wants, mutatorVars>>

\* One call of mark(); the calls it makes are left in todo.
Mark(c) ==
  /\ pc \in {"roots", "immortals"}
  /\ c \in todo
  /\ IF c \in marked
     THEN todo' = todo \ {c} /\ UNCHANGED marked
     ELSE todo' = (todo \ {c}) \cup Children(c) /\ marked' = marked \cup {c}
  /\ UNCHANGED <<pc, heapVars, immortal, at, fresh, wants, mutatorVars>>

MarkImmortals ==
  /\ pc = "roots"
  /\ todo = {}
  /\ todo' = immortal
  /\ pc' = "immortals"
  /\ UNCHANGED <<heapVars, marked, immortal, at, fresh, wants, mutatorVars>>

MarkDone ==
  /\ pc = "immortals"
  /\ todo = {}
  /\ at' = 0
  /\ pc' = "sweep"
  /\ UNCHANGED <<heapVars, marked, immortal, todo, fresh, wants, mutatorVars>>

\* deallocate() fills the cell with 0xEA, which leaves a non-zero immortal
\* flag in the header, and puts the cell in front of the free list.
Deallocate(c) ==
  /\ live' = live \ {c}
  /\ refs' = [refs EXCEPT ![c] = {}]
  /\ immortal' = immortal \cup {c}
  /\ freelist' = <<c>> \o freelist

\* Faulty: frees dead cells again.
Sweep_Double_Free ==
  /\ pc = "sweep"
  /\ at < size
  /\ at' = at + 1
  /\ marked' = marked \ {at}
  /\ IF at \notin marked
     THEN Deallocate(at)
     ELSE UNCHANGED <<live, refs, immortal, freelist>>
  /\ UNCHANGED <<pc, size, todo, fresh, wants, mutatorVars>>

\* Faulty: leaves the mark bits set.
Sweep_Keeps_Marks ==
  /\ pc = "sweep"
  /\ at < size
  /\ at' = at + 1
  /\ IF at \notin marked /\ at \in live
     THEN Deallocate(at)
     ELSE UNCHANGED <<live, refs, immortal, freelist>>
  /\ UNCHANGED <<pc, size, marked, todo, fresh, wants, mutatorVars>>

\* Faulty: looks one cell beyond the heaps.
Sweep_Too_Far ==
  /\ pc = "sweep"
  /\ at <= size
  /\ at' = at + 1
  /\ marked' = marked \ {at}
  /\ UNCHANGED <<pc, heapVars, immortal, todo, fresh, wants, mutatorVars>>

\* The sweep looks at one cell.
Sweep ==
  /\ pc = "sweep"
  /\ at < size
  /\ at' = at + 1
  /\ marked' = marked \ {at}
  /\ IF at \notin marked /\ at \in live
     THEN Deallocate(at)
     ELSE UNCHANGED <<live, refs, immortal, freelist>>
  /\ UNCHANGED <<pc, size, todo, fresh, wants, mutatorVars>>

\* Faulty: does not grow a heap that is full.
SweepDone_Never_Grows ==
  /\ pc = "sweep"
  /\ at = size
  /\ pc' = "init"
  /\ UNCHANGED <<heapVars, marked, immortal, todo, at, fresh, wants, mutatorVars>>

SweepDone ==
  /\ pc = "sweep"
  /\ at = size
  /\ pc' = IF freelist = <<>> THEN "grow" ELSE "init"
  /\ UNCHANGED <<heapVars, marked, immortal, todo, at, fresh, wants, mutatorVars>>

\* grow_heap(): as many heaps again.
Grow ==
  /\ pc = "grow"
  /\ 2 * size <= MaxCells
  /\ size' = 2 * size
  /\ freelist' = AddedCells(size, size) \o freelist
  /\ pc' = "init"
  /\ UNCHANGED <<live, refs, marked, immortal, todo, at, fresh, wants, mutatorVars>>

\* memset and init(): the VM either refers to the new cell itself or holds it
\* in an Immortal.
InitCell(asRoot) ==
  /\ pc = "init"
  /\ live' = live \cup fresh
  /\ refs' = [c \in AllCells |-> IF c \in fresh THEN wants ELSE refs[c]]
  /\ marked' = marked \ fresh
  /\ immortal' = IF asRoot THEN immortal \ fresh ELSE immortal \cup fresh
  /\ roots' = IF asRoot THEN roots \cup fresh ELSE roots
  /\ fresh' = {} /\ wants' = {}
  /\ pc' = "idle"
  /\ UNCHANGED <<size, freelist, todo, at, running>>

-----------------------------------------------------------------------------
(* The mutator                                                             *)

AddRoot(c) ==
  /\ pc = "idle" /\ running
  /\ c \in Reachable
  /\ roots' = roots \cup {c}
  /\ UNCHANGED <<pc, heapVars, marked, immortal, todo, at, fresh, wants, running>>

DropRoot(c) ==
  /\ pc = "idle" /\ running
  /\ c \in roots
  /\ roots' = roots \ {c}
  /\ UNCHANGED <<pc, heapVars, marked, immortal, todo, at, fresh, wants, running>>

Link(c, d) ==
  /\ pc = "idle" /\ running
  /\ c \in Reachable /\ d \in Reachable
  /\ Cardinality(refs[c] \cup {d}) <= MaxRefs
  /\ refs' = [refs EXCEPT ![c] = @ \cup {d}]
  /\ UNCHANGED <<pc, size, freelist, live, marked, immortal, todo, at,
                 fresh, wants, mutatorVars>>

Unlink(c, d) ==
  /\ pc = "idle" /\ running
  /\ c \in Reachable /\ d \in refs[c]
  /\ refs' = [refs EXCEPT ![c] = @ \ {d}]
  /\ UNCHANGED <<pc, size, freelist, live, marked, immortal, todo, at,
                 fresh, wants, mutatorVars>>

\* Immortal::mark
Protect(c) ==
  /\ pc = "idle" /\ running
  /\ c \in Reachable
  /\ immortal' = immortal \cup {c}
  /\ UNCHANGED <<pc, heapVars, marked, todo, at, fresh, wants, mutatorVars>>

\* Immortal::unmark: the flag does not count.
Unprotect(c) ==
  /\ pc = "idle" /\ running
  /\ c \in immortal \cap live
  /\ immortal' = immortal \ {c}
  /\ UNCHANGED <<pc, heapVars, marked, todo, at, fresh, wants, mutatorVars>>

\* VM::exit: from here on collect() marks the immortals only.
Stop ==
  /\ pc = "idle" /\ running
  /\ running' = FALSE
  /\ UNCHANGED <<pc, heapVars, marked, immortal, todo, at, fresh, wants, roots>>

-----------------------------------------------------------------------------
Allocate ==
  \/ \E ws \in SUBSET Cells : Take(ws)
  \/ MarkRoots \/ MarkImmortals \/ MarkDone
  \/ \E c \in Cells : Mark(c)
  \/ Sweep \/ SweepDone \/ Grow
  \/ \E asRoot \in BOOLEAN : InitCell(asRoot)

Mutate ==
  \/ \E c \in Cells : AddRoot(c) \/ DropRoot(c) \/ Protect(c) \/ Unprotect(c)
  \/ \E c, d \in Cells : Link(c, d) \/ Unlink(c, d)
  \/ Stop

Next == Allocate \/ Mutate

Spec == Init /\ [][Next]_vars

\* allocate_cell runs to its end: it is one call of the native thread.
FairSpec == Spec /\ WF_vars(Allocate)

-----------------------------------------------------------------------------
(* Properties                                                              *)

TypeOK ==
  /\ pc \in {"idle", "collect", "roots", "immortals", "sweep", "grow", "init"}
  /\ size \in 1 .. MaxCells
  /\ freelist \in Seq(Cells)
  /\ live \subseteq Cells
  /\ marked \subseteq Cells
  /\ immortal \subseteq Cells
  /\ refs \in [AllCells -> SUBSET Cells]
  /\ todo \subseteq Cells
  /\ at \in 0 .. size
  /\ fresh \subseteq Cells
  /\ wants \subseteq Cells
  /\ roots \subseteq Cells
  /\ running \in BOOLEAN

\* No cell the program can still get at is ever freed, at any point of a
\* collection, nor is one that init() is about to store (gc.cpp:65-188).
\* Once the VM has stopped only what an Immortal holds counts.
NoDangling == Reachable \subseteq live /\ wants \subseteq live

\* The free list holds every dead cell exactly once, but for the cell being
\* allocated, which is dead until its init() and must not be freed again by
\* the collection its own allocation starts (gc.cpp:168-169, 258).
FreelistExact ==
  /\ \A i, j \in DOMAIN freelist : freelist[i] = freelist[j] => i = j
  /\ {freelist[i] : i \in DOMAIN freelist} = Dead \ fresh

\* "make sure we never get a failing allocation in the future" (gc.cpp:255-257):
\* when allocate_cell is entered there is a cell to take.
NextAllocationServed == pc = "idle" => freelist # <<>>

\* A collection leaves no garbage: cells still live at its end are reachable.
\* So the heap only grows when it is full of reachable cells.
NoGarbageKept ==
  pc = "sweep" /\ at = size => live \subseteq Reachable

\* allocate_cell returns: marking ends also on cyclic data.
AllocationEnds == pc # "idle" ~> (pc = "idle" \/ pc = "grow")
=============================================================================
