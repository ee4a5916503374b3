# Verification of the Charly VM

TLA+ models of the Charly VM: the scheduler, the garbage collector, the
synchronisation library and the path of a program from its text to its
execution. TLC checks them on small instances; TLAPS proves what matters most
for every instance. Paths are relative to the repository.

## 1. The system

Charly is a dynamically typed language with fibers. A C++ program compiles a
file to byte code and interprets it. Everything Charly does runs on one native
thread: `VM::start_runtime` (src/vm/vm.cpp) takes tasks from a queue and lets
one fiber run until it returns, suspends or exits. Part of the library
(notifiers, channels, promises, timers) is written in Charly itself
(src/stdlib) on top of a few syscalls.

| Component | State it keeps | Operations | Works with | What makes it correct |
|---|---|---|---|---|
| scheduler (vm.cpp, vm.h, main.cpp) | task queue, timers, tickers, paused fibers, the current fiber, its stack | start_runtime's loop, create and clear timers and tickers, suspend and resume fibers, exit | every program, through syscalls; main() | callbacks once, in order, not early; fibers neither lost nor duplicated; exit is final; timers fire |
| garbage collector (gc.cpp, immortal.h) | heaps, free list, mark bits, immortal flags | allocate_cell, collect, mark, deallocate, grow_heap | the VM's roots; every allocation in C++ code | nothing reachable is freed, garbage is, the free list is exact |
| Notifier (sync.ch) | waiters, open, result, error | wait, notify_one, close, error | scheduler; Channel and Promise build on it | each wakeup exactly once, first come first served, every wait ends |
| Channel (channel.ch) | two notifiers, a buffer | read, write, close | Notifier, CircularBuffer | values leave in the order they entered; no reader and writer wait for each other; close releases everybody |
| CircularBuffer, Queue (circular_buffer.ch, queue.ch) | ring and indices; linked entries | read, write, clear | Channel; programs | each is a queue |
| Promise, Timer, Ticker, spawn, sleep (promise.ch, sync.ch) | callbacks and notifiers | then, catch, finally, all, race | Notifier, timers | each settles once, each callback runs once |
| Heap (heap.ch) | array | insert, poll, remove | programs | the heap order |
| VM instructions (vm.cpp, opcode.h) | operand stack, frames, functions, ip | one handler per opcode | code generator; collector | the stack is balanced, no panic |
| exceptions and catchtables (vm.cpp, catchtable.cpp) | the list of catchtables, one more in every frame | register, pop, throw, unwind | calls and returns | a handler runs in its own frame at its own stack height |
| values and arithmetic (value.h) | NaN-boxed words | comparisons, arithmetic, conversions | everything | an operator means the same folded by the compiler and executed |
| heap types (src/vm/primitives) | objects, classes, arrays, functions, strings | member access, construction, self, arguments | instructions, collector | lookup along classes; super is relative to the class a method is written in |
| symbol table, string pool | maps, growing block | encode, decode | compiler, VM | interning is injective |
| lexer (lexer.cpp, sourcefile.h) | position, current character, frame | read_token, comments, literals | parser | every character in the right token; it ends |
| parser (parser.cpp) | current token, keyword context | one function per production | lexer, compiler | the tree the text says; break, continue, return, yield and super exactly where allowed |
| normalizer, local variable passes | scopes, slots, leaked flags | visit_* | parser, code generator | a name is the slot of its innermost declaration, and nobody else writes there while it can be read |
| code generator, assembler | labels, queue of functions, stacks of break and continue targets | visit_*, label resolution | passes before, VM | the code does what the tree says |
| compiler driver, module cache | results by path | compile, import | all passes | a module runs once |
| disassembler, native libraries, library primitives, unittest, command line | | | | output, wrappers, pure functions |

Hard to test here: fibers interleave at every suspension in orders a program
does not choose; the clock moves between two reads of it; the exit check
resumes fibers other parts still count on; a collection can happen in any
allocation; exceptions leave calls, switches and conditions half way; slots are
shared between variables on the strength of what the compiler knew when it
passed by. PROJECT.json lists these hazards line by line, with the properties
that speak of them.

## 2. Modules

| Module | Models |
|---|---|
| Runtime | scheduler |
| TaskLoop | what the scheduler promises to programs: a loop without timers, clock and stacks |
| GarbageCollector | garbage collector over an arbitrary mutator |
| Fifo | what a buffer promises: a bounded queue |
| CircularBuffer, Queue | the two implementations of it |
| Sync | the scheduler as the library sees it, and the parts of Notifier both users need |
| Notifier, Channel | the two classes, each extending Sync |
| Tokens, Lexer | tokens; the lexer and the source file it reads |
| Program, Parser | syntax trees; the parser |
| Printer | the text of a syntax tree: the reference for Lexer and Parser |
| Frontend | Lexer, Parser and Printer together |
| Compiler | normalizer, variable pass, code generator, assembler |
| Values, Objects, Machine | values; what is on the heap; the instructions |
| Meaning | what a syntax tree means: the reference for Compiler and Machine |
| Pipeline | Compiler, Machine and Meaning together |
| MC* | constants for TLC |
| *Proofs | theorems; NotifierProofs and ChannelProofs share SyncProofs |

A definition whose comment starts with "Faulty" is a deliberate mistake in the
one below it; it shows that a property notices such a mistake and is used by
nothing.

### Runtime

`pc` is where start_runtime stands: the head of the loop, moving expired timers
to the task queue, rescheduling tickers, dispatching, running a fiber, or the
exit check. Each of these is an action, and so is each scheduling syscall of the
running fiber (TimerInit, TickerInit, TimerClear, TickerClear, FiberResume,
FiberSuspend, FiberReturn, Exit). A fiber makes any sequence of them: it stands
for every Charly program. `Tick` moves the steady clock at any point, so `now`,
the loop's snapshot, can be arbitrarily old. The timer maps hold at most one
entry per timestamp, because std::map::insert drops a second one (MapInsert);
the id is handed out all the same. `stack` is the height of VM::stack outside the values of the
running fiber. The history variables record deadlines and what has run.

Programs see less than that. TaskLoop is the loop without clock, timer maps,
stacks and program counter: one queue of tasks, a flag that says whether more may
come by themselves, the running fiber and the paused ones. The end of Runtime
maps its state to it (`Tasks`): the resumptions an unfinished exit check has made
are not in TaskLoop's queue yet, since no fiber can look while they are made; the
exit check is one step there.

### GarbageCollector

`allocate_cell` is a sequence of steps (Take, MarkRoots, Mark, MarkImmortals,
MarkDone, Sweep, SweepDone, Grow, InitCell); the recursion of mark() is the set
`todo` of calls still to be made, taken in any order. The mutator adds and drops
roots, links and unlinks cells and sets immortal flags between allocations. The
constructor's arguments (`wants`) are assumed to be reachable while the cell is
allocated, which is what the code's Immortal<> guards are for; that each call
site has its guard is not checked. Once the VM has stopped only immortals are
roots, as in GarbageCollector::collect.

### Sync, Notifier, Channel

Fibers are cooperative, so a method up to its suspension is one action, and the
rest of it another. The scheduler is Runtime without time and stacks: its steps are
steps of TaskLoop, as those of Runtime are. `Exit` is VM::exit, which any fiber may
call and to which every exception leads that nobody catches, that of a stale wait()
included (error.ch:167-187): tasks and timers are dropped, and the fibers that are
paused then never run again.
`ExitCheck` resumes every paused fiber with the stale exception when nothing is
left to do. A channel's writer that was woken starts its write over
(WriteAgain); `accepted` and `handed` record the values that went in and out.
FirstComeFirstServed compares the lines before and after a step: a fiber is ahead
of another if its resume task, or its place among the waiters, comes first; no
step may turn two fibers round, let one in anywhere but at the end, or let one
out that has another ahead of it.

### Tokens, Program, Lexer, Parser, Printer, Frontend

`Read` is one pass of Lexer::read_token: `text` and `pos` are the source file,
`tokens` what has been read. SourceFile::get_current_frame drops the character
after the token, which is not there at the end of a file: CurrentFrame does the
same.
`IntBits` is the width of integers, 64 in the code and 4 in the run, so that
literals overflow.

Parser is one operator per method of parser.cpp; `Parsed` calls the ones that
call one another. Each takes and returns a state (the tokens, the place among
them, the keyword context, whether an error was met) and the node it made.
`ParseTokens` is Parser::parse. The code reads a token when the parser asks for
it, the model all of them first: the lexer does not depend on the parser and an
error of either ends the compilation, so the outcome is the same. Two cases
differ. An error in the very first token is caught by nobody (parser.cpp:33): the
outcome "crash". And a file that the lexer never finishes has no outcome in the
model, while the code rejects it when the parser meets an error before.

Printer writes a tree as text in two styles: "full" puts every operand in
parentheses, "brief" only those that need them, and uses every abbreviation. The
precedences in it are a table; the parser has a chain of functions.

### Program, Compiler, Values, Objects, Machine, Meaning, Pipeline

A program is a syntax tree as the parser builds it. `Compile` applies the passes
of Compiler::compile: Normalize, Rewrite (slots and levels), Gen (code with
labels), Assemble (byte offsets and distances). Machine executes the result with
the real instruction lengths. Two natives connect a program to the world: in()
takes the next input, out(v) appends to the output.

`heap` holds what a program makes, in the order it is made: objects with their
fields and their class, arrays, classes with their prototype, constructor and
parent, functions with the value bound to their self. Objects defines how
members are read and written, where a class is searched, when two values are
equal and what the operators compute. Calls pass self the three ways
Function::get_self knows (bound, that of the arrow function's frame, the target
of the call), fill the parameters and the array of arguments, and fail when a
required argument is missing. Default values, self-initialised parameters,
constructors and super are code the normalizer writes in front of a body or the
code generator emits, as in the source.

`chain` and `base` in a frame are not in the code: the frames get_parent() leads
to, and the height of the stack at the call. A panic has no step: NeverPanics
says that no state needs one, and that ip is at an instruction whose operands are
of their types. MemorySafe follows the references: a value that says it is an
object, an array, a class or a function names a cell of the heap with that layout,
in the stack, in the locals and selfs of all frames, in the input and in the heap
itself, and parents and environments lead to what is older. Members of the
primitive classes are not modelled. InternalError stands for the object that
throw_exception(message) makes; its constructor throws it.

Meaning runs the tree directly. A variable is a cell of its own for every
declaration in every activation of a function, so slots, levels, labels, the
stack, the prologue of a function and the order of operands on the stack play no
part in it. It shares with Machine what a single operation does (Values,
Objects).

Meaning and Printer were also held against the program itself: some 2500 of
the programs, printed by Printer and executed by the built VM, put out what
Meaning says.

## 3. What is checked

| Run | Shows |
|---|---|
| runtime | TimerOnce, NeverEarly, TimersInOrder, TickerOnce, FiberConservation, NoCorruptedStack, ExitIsFinal for three fibers, two timers or tickers, one or two modules |
| runtime_liveness | start_runtime implements TaskLoop (IsTaskLoop); TimerFires, StaleResumed under fairness |
| gc | FreelistExact, NextAllocationServed, NoDangling, NoGarbageKept, AllocationEnds |
| buffers | the ring and the list implement Fifo; OnlyWindowHeld, ListWellFormed |
| notifier | WakeupsExact, FirstComeFirstServed, WaitEnds |
| channel | FifoDelivery, NoMissedRendezvous, CloseReleases, WakeupsExact |
| frontend | LexesRight, ParsesBack, KeywordsInPlace, and Finishes under fairness |
| pipeline | MemorySafe, NeverPanics, StackBalanced, HandlerFrameLive, Faithful, Ends |

Four runs show a disagreement between the code and what it says of itself; each
has a finding in PROJECT.json that quotes the line:

| Run | The code |
|---|---|
| runtime_ticker_lost | drops a ticker that is rescheduled onto a timestamp that is taken |
| notifier_stale | aborts: a fiber the exit check resumed is notified again by another one that survived its stale exception |
| pipeline_rethrow | try without catch: a variable of the finally block gets the slot of the pending exception and is thrown instead |
| pipeline_closure | a slot is marked as leaked only after an earlier block of the loop was given it; that block overwrites the captured variable in the next iteration |

### Bounds

* runtime: two ids are needed for two timers to meet at a timestamp or in the
  queue; three fibers for one to resume another while a third is paused; the
  clock stops at 2, so that callbacks can be on time, late, and both. The
  liveness run has one timer or one ticker; its fibers and queue are the same.
* gc: three cells are the least with a cycle beside a cell that is not on it, and
  heaps that start with one cell grow. MaxRefs = 3 allows every graph on three
  cells.
* buffers: a ring of three slots wraps with every number of elements in it; the
  list makes four entries, so that it is emptied and used again.
* notifier: three fibers: two that wait and one that notifies, in two notifiers.
* channel: four fibers (two readers, two writers), sizes 0 and 1, four writes.
* frontend: 56 expressions with a part, the part each of eight leaves and each of
  the 56 again; nine keywords in each of 25 statements, and five of them in each
  of 12 more around those, which is what it takes for a context that was not
  restored to be met; the styles alternate. All runs of three of eight operator
  characters (three are the longest operator), and some fifty texts about
  literals, comments, the end of the file and each error. 5878 files.
* pipeline: 17 kinds of statement in each other with five innermost statements
  (output, throw, return, break, continue), five kinds of condition, 37
  programs on variables, calls, members, arrays, operators, self, arguments and
  classes, inputs of three values from {0, 1}, four outputs. Two levels bring
  each construct into each other one; three inputs take a loop through two
  iterations and out of it.

Deadlock is not checked: every model may stop (the program ends, bounds are
used up); that nothing waits for ever is said by the liveness properties.

### What the runs leave out

Programs the code is known not to handle are excluded by `Handled` in MCPipeline:
break or continue out of a try block (the catchtable stays registered) and break,
continue and return that skip a finally block, which todos.md:344-346 names, and an
exception in a handler that skips the finally block, which it does not. Programs whose meaning is
nowhere stated are not among the examples: `let x = x`, an undefined name as a
statement (the normalizer drops it), an assignment to `$n` beyond the parameters
(op_setarrayindex finds its operands swapped and panics).

`if (a < b)` branches on `a >= b` (codegenerator.cpp:99-110). For NaN and for
operands of different types both comparisons are false and the block is executed.
The conditions of the programs compare integers only.

LexesRight and Finishes name three cases the code does not handle, and no more than
these: an integer literal that does not fit is not refused, but a decimal one is the
largest integer and a hexadecimal or octal one negative (lexer.cpp:526 and 556); the
last name of a file without a line feed at its end loses its last
character (sourcefile.h:56), and a `//` comment that the end of the file cuts off
is read for ever (lexer.cpp:668). KeywordsInPlace has arrow functions with braces;
one without keeps the context around it (parser.cpp:1740).

On super() the repository disagrees with itself. parser.cpp:1797 says "Only the
constructor method is allowed to have a 'super()' call"; five lines on,
`.super_allowed = !static_declaration` allows it in every method that is not static,
and Readme.md:158-160 calls `super()` in the method greet. KeywordsInPlace takes the
side of the manual and the parser: the run has methods with super(), inside every
other construct, and they are accepted. Read as the comment has it the property
would fail on each of them. PROJECT.json has this as a finding too.

### Fairness

* The loop of start_runtime takes its next step: it is a native loop.
* The clock advances.
* A fiber gives the VM back (GiveBack, Return): without this a program that
  computes for ever blocks everything, which is how cooperative fibers work.
* allocate_cell is one native call and runs to its end.
* run() does not stop between two instructions, nor the lexer between two tokens.

Nothing is assumed of what fibers do to each other: a fiber that waits for a
notification nobody sends is resumed by the exit check, unless another one ends the
program first. WaitEnds and StaleResumed allow for that: when several fibers are
left waiting, the first that does not catch its stale exception exits, and the
others are abandoned.

## 4. What is proved

For every value of the constants, from the assumptions named in the modules
(bounds are natural numbers, `Stale` and `Null` are neither ordinary values nor
notifiers, a channel has its two notifiers, the ring has at least one slot, a heap
starts with at least one cell):

| Theorem | States | Inductive invariant |
|---|---|---|
| RuntimeProofs!TypeCorrect | TypeOK | TypeInv: types, and every id in use was issued |
| RuntimeProofs!TimerCallbackOnce, TimerCallbackNeverEarly, TimerCallbacksInOrder | TimerOnce, NeverEarly, TimersInOrder | OrderInv: the three together, with what is in the queue due by `now` and `now` not after the clock |
| RuntimeProofs!FibersConserved | FiberConservation | itself, with TypeInv |
| RuntimeProofs!TickerScheduledOnce | TickerOnce | TickerInv: entries are outside the map only while the tickers are gone through, and every id in use or cleared was handed out |
| RuntimeProofs!PopFindsValue | NoCorruptedStack | itself, with TypeInv |
| RuntimeProofs!NothingRunsAfterExit | ExitIsFinal | OutOfDispatch: after exit the loop is only where it leads out |
| RuntimeProofs!RuntimeIsTaskLoop | IsTaskLoop: start_runtime implements TaskLoop | TaskInv: the invariants above, StaleSoFar, and LoopInv on where the loop is entered and left |
| RuntimeProofs!TimersNeverLost | NoTimerLost: a pending timer stays in the map or the queue until it fires, is cleared or the VM exits | TypeInv, as the rest is about single steps |
| RuntimeProofs!ExitCheckLeavesNobody | StaleAll: at the end of the exit check each paused fiber has exactly one task, with the stale exception | StaleSoFar: so have those it has passed, in the order of their ids |
| GarbageCollectorProofs!TypeCorrect, ReachableNeverFreed, FreelistAlwaysExact, AllocationServed, GarbageAllFreed | TypeOK, NoDangling, FreelistExact, NextAllocationServed, NoGarbageKept | GcInv, see below |
| GarbageCollectorProofs!AllocationCannotRunOn | AllocationAdvances: every step of allocate_cell lessens a measure | Measured: the measure is made of natural numbers |
| CircularBufferProofs!RingIsFifo | every ring implements Fifo | RingInv: writex is length slots after readx, and exactly the window is filled |
| CircularBufferProofs!RingTypeCorrect, RingKeepsNothing | TypeOK, OnlyWindowHeld | RingInv, and HeldInv: filled from readx on, empty after that |
| QueueProofs!ListAlwaysWellFormed, LinkedListIsFifo | ListWellFormed; the list implements Fifo | ListInv: the entries in the list are the last ones made, each linked to the next |
| NotifierProofs!NotifierTypes, NotifierWakesOnce, NotifierIsFair | TypeOK, WakeupsExact, FirstComeFirstServed | SyncInv, see below |
| NotifierProofs!NotifierIsTaskLoop | Sync's scheduler under Notifier implements TaskLoop | WaitersStarted: whoever is in a list was started, also after the exit check and exit; with SyncInv |
| ChannelProofs!ChannelTypes, ChannelIsFifo, ChannelWakesOnce | TypeOK, FifoDelivery, WakeupsExact | ChanInv: SyncInv, and nobody waits to read while the buffer holds something, so that no value overtakes another |
| ChannelProofs!ClosingReleasesAll | CloseReleases | OpenInv: a closed channel has no waiters, an open one no error to hand out |
| ChannelProofs!ChannelMissesNobody | NoMissedRendezvous | Enough, with ChanInv and OpenInv |
| MachineProofs!HandlersAlwaysFound | HandlerFrameLive, for any code over the whole instruction set of Machine | HandlerInv, see below |
| MachineProofs!ParentWalkEnds | ParentsLeadDown: get_parent() leads to older frames, through exactly the chain HandlerFrameLive speaks of | itself, with HandlerInv |
| MachineProofs!MemoryAlwaysSafe | MemorySafe, while what ip reaches are instructions (Executable) and the input is plain (PlainInput) | SafeInv, see below |

Timers: order in the queue follows from order in the map only because nothing in
the map is due before what was already taken out of it, which needs the snapshot
to be no later than the clock a new timer is created at. Hence OrderInv.

Scheduler: in the refinement the steps that programs do not see must leave the
mapped state alone, and the others must be allowed where they happen. A timer that
becomes due is TaskLoop's Fire; a rescheduled ticker changes nothing there. The
exit check is the hard part: it makes one task at a time, and only its last step is
TaskLoop's ExitCheck. That the queue then holds the resumptions of all paused
fibers, in order, and no others, is StaleSoFar, together with the fact that no
timer or ticker is there at that time, so that nothing gets in between (LoopInv).
TimersNeverLost and ExitCheckLeavesNobody are what remains of TimerFires and
StaleResumed without fairness: the only way on for a timer or a paused fiber is
the one the liveness properties promise. Sync's scheduler is a hand-made
abstraction of the same code; that it makes no step TaskLoop does not allow
(NotifierIsTaskLoop) shows that it schedules fibers in no way the abstract loop
forbids; that it leaves out no step start_runtime can take is by reading only. A
channel has no such theorem: a reader notifies a writer and waits in one action,
and a writer that is woken hands over its value or waits again in one, which are
two steps of TaskLoop each.

Collector: that nothing reachable is freed needs to be known while the mark
phase is under way: what is marked is closed but for the calls still to be made
(MarkInv), every reference from a live cell leads to a live cell (KeptInv), and
the cell being allocated is neither free nor live (FreshInv). At the end of the
mark phase `todo` is empty, the marked cells are a closed set with the roots and
so contain every reachable cell. Reachability is the least closed set, which
avoids paths and induction over them. An allocation ends because each step of it
takes down a triple (phases left, cells not marked or not swept, calls of mark()
to be made), compared from the left: a call on a marked cell makes no others, and
a call on any other cell leaves one unmarked cell less, whatever cycles there are.

Exceptions: a return reinstates the catchtables its frame was called with, and a
handler those below its own. HandlerInv therefore speaks of every list of
catchtables that can become current: each is nested, that is, the frame of every
entry is on the chain of the frame of the entry before it, and the first on the
chain of the frame in which the list becomes current.

References: the theorem is about any code, not only the compiler's, so that it
needs what makes code executable as a hypothesis: ip is at an instruction, the
operands in the instruction are of their types, and members of the primitive
classes, which are not modelled, are not used. The runs check that compiled code
satisfies it (in NeverPanics). Nothing is assumed of the operands on the stack.
SafeInv adds to MemorySafe that the stack and all lists of catchtables have their
types, because an exception cuts the stack to a height that was noted earlier,
and HandlerInv, because it leaves the machine in a frame that was noted earlier. A
step allocates, writes fields, or both, and never changes the layout of a cell
(Keeps), so that a reference that was good stays good; what is left to show of
each instruction is that what it pushes and stores is good. Member lookup, the
constructor search and the initial values of members go up the classes by
recursive functions over the classes of the heap (ClassesIn): that they are
defined at all needs parents to be older than their children, and what they
return is shown to be good by a least counterexample.

Wakeups: WakeupsExact counts the places a fiber can be woken from, and a count is
not inductive. SyncInv says where they are: a paused fiber is inside the wait() of
one notifier, and either in that notifier's list or in the task queue, at one
place; nobody else is in any; and before the exit check or exit has interfered no task
carries the stale exception. Notifier and Channel keep it by the same lemmas on
what append, head and tail, and moving a whole list do to these places. The order
of the fibers is then a matter of places: notify_one moves the first of the list
behind the tasks, close and error the whole list in its order.

Rendezvous: a writer that is notified writes only when its task is reached, and
meanwhile others read, write and wait. Enough counts the notified writers that
have not come back yet: at least as many as waiting readers and free slots
together, while writers wait. A step adds at most one to the right hand side
when it notifies a writer, and takes a task away only when that writer is the one
that starts over and fills a slot, serves a reader or is closed out.

Linked list: Fifo sees the list as what Chain collects along `next`, a recursive
function. Induction rules are not available, but a least counterexample is: the
natural numbers are well-founded (WFMin), so the first place where Chain differs
from the entries in the order they were made is one after a place where it does
not (ChainIs). The same argument gives the order in which the exit check resumes
fibers (SyncProofs!OrderExists).

Only model-checked, and why:

* Liveness (TimerFires, StaleResumed, AllocationEnds, WaitEnds, Finishes, Ends):
  the prover knows neither fairness nor ENABLED. The safety half of the first two,
  and the measure behind the third, are proved.
* The front end and the pipeline (LexesRight, ParsesBack, KeywordsInPlace,
  NeverPanics, StackBalanced, Faithful): they compare what
  mutually recursive definitions compute (Parsed, the compiler's passes, the
  meaning of a tree). They hold of code the compiler makes, not of any code, so
  that nothing short of a compiler proof would establish them. HandlerFrameLive,
  ParentsLeadDown and MemorySafe hold of any code and are proved.

## 5. What is not modelled

* Promise, Timer, Ticker, Heap, symbol table, string pool, module cache: planned,
  below.
* import and syscalls are parsed but not compiled; match is parsed and has no code
  generator in the source (lvar-rewrite.cpp:139); yield is parsed and
  refused by the normalizer.
* Floats other than NaN, the 48 bit wrap of integers, the bit layout of values: the
  programs stay within small integers.
* Positions in error messages and the tables of addresses.
* What call sites hold in Immortal<>.
* Disassembler, native libraries, library primitives, unittest, command line:
  output, wrappers of libraries, pure functions.

## 6. Plan

1. Promise over Sync: each promise settles once, then and finally callbacks run
   once and after it; all and race; the answer of a closed notifier is final,
   which Notifier does not guarantee (sync.ch:83 and 90).
2. Heap against a sorted sequence; symbol table and string pool; module cache
   with modules that import each other.
3. Theorems: the channel over TaskLoop, with its actions split where they do two
   of TaskLoop's steps; a channel as a Fifo of values whatever path they take; that code
   the assembler makes is Executable.
