------------------------------ MODULE Pipeline ------------------------------
(***************************************************************************)
(* Programs from their syntax tree to their effect: compiled by module     *)
(* Compiler, executed by module Machine, compared with module Meaning.     *)
(***************************************************************************)
EXTENDS Compiler, Meaning

CONSTANTS
  Programs,  \* the modules that are compiled, each the sequence of its statements
  Inputs     \* what their in() may return, in order

VARIABLE source  \* which program is run, and its input

Init ==
  \E p \in DOMAIN Programs :
    /\ ~HasErrors(Programs[p])
    /\ \E i \in Inputs :
         /\ source = [p |-> p, input |-> i]
         /\ MachineInit(Compile(Programs[p]), i)

Next == MachineNext /\ UNCHANGED source

\* run() does not stop between two instructions.
Spec == Init /\ [][Next]_<<vars, source>> /\ WF_<<vars, source>>(Next)

-----------------------------------------------------------------------------
\* VM::panic is never reached: ip is at an instruction with its operands, none
\* pops an empty stack, none reads or writes a local its frame does not have,
\* none finds an operand of another type or a super where there is no class,
\* and no handler was registered at a higher stack than it is entered from.
NeverPanics == Executable /\ (status = "run" => ~Panics)

\* Statements leave nothing on the stack and take nothing from it: every
\* block starts at the height its function was called at, and a return finds
\* exactly the return value above that.
StackBalanced ==
  status = "run" =>
    /\ Instr.op = "nop" => Len(stack) = frames[fp].base
    /\ Instr.op = "return" => Len(stack) = frames[fp].base + 1

\* The compiled program does what its source says: it ends in the same way
\* and with the same value, and has put out the same values in the same order.
Faithful ==
  status # "run" =>
    [status |-> status, result |-> Shown(result), trace |-> trace]
      = MeaningOf(Programs[source.p], source.input)

\* The program ends: a loop whose body or condition consumes the input or
\* fills the output is left.
Ends == <>(status # "run")
=============================================================================
