----------------------------- MODULE ModuleImport -----------------------------
(***************************************************************************)
(* The IMPORT opcode of src/elox/lib/vm.c: import() compiles a module and  *)
(* runs its body through doCall(), which starts a nested run() whose      *)
(* exitFrame is the importer's frameCount.  An exception the body does    *)
(* not catch unwinds to that exitFrame and comes back to import() as the  *)
(* EXCEPTION_VAL sentinel; IMPORT then goes to throwException in the      *)
(* importer.  The program is given by constants: the modules each body    *)
(* imports, in order, which of those imports sit in a try block, which    *)
(* modules cannot be loaded or compiled, and which bodies throw.  Values  *)
(* on the operand stack are abstracted to what they are: a function, nil, *)
(* an exception instance, or the sentinel.                                *)
(***************************************************************************)
EXTENDS Integers, Sequences, SequencesExt

CONSTANTS
  Modules,     \* module names an IMPORT may name
  Script,      \* the script interpret() runs
  Body,        \* Body[u]: the modules u's body imports, in order
  Guarded,     \* Guarded[u]: positions in Body[u] inside a catch-all try
  Missing,     \* loadFile() cannot open or read the module's file
  Broken,      \* compile() returns NULL for the module's source
  Throwing,    \* the body raises after its imports and does not catch it
  FRAMES_MAX   \* capacity of vm->frames

Units == Modules \cup {Script}

ASSUME Body \in [Units -> Seq(Modules)] /\ Guarded \in [Units -> SUBSET Nat]
ASSUME Missing \cup Broken \cup Throwing \subseteq Modules
ASSUME FRAMES_MAX \in Nat \ {0}

VARIABLES
  frames,   \* vm->frames: the unit each frame runs, its ip (the next
            \* IMPORT of its body) and frame->slots
  stack,    \* vm->stack[0..stackTop-1], as kinds of value
  status,   \* "running", "throwing" (at the throwException label), or how
            \* the outermost run() ended
  started   \* ghost: how many times each module's body has been entered

vars == <<frames, stack, status, started>>

Value == {"fn", "nil", "exc", "sentinel"}
Frame == [unit : Units, pc : Nat, slots : Nat]

frameCount == Len(frames)
Top == frames[frameCount]

\* runtimeError(): builds a RuntimeException instance and pushes it.
runtimeError(s) == Append(s, "exc")

\* import() after doCall() returned EXCEPTION_VAL: pop(vm) drops the
\* exception left on top, push(vm, moduleRet) pushes the sentinel.
importFailed(s) == Append(Front(s), "sentinel")

\* The importer goes on after its IMPORT (or after the try block around it).
resume(fs) == [fs EXCEPT ![Len(fs)].pc = @ + 1]

\* interpret(): the script function in slot 0, run with exitFrame 0.
Init ==
  /\ frames = <<[unit |-> Script, pc |-> 1, slots |-> 1]>>
  /\ stack = <<"fn">>
  /\ status = "running"
  /\ started = [m \in Modules |-> 0]

(***************************************************************************)
(* IMPORT name: import().  Its registry test never succeeds: vm->modules  *)
(* is initialised empty and nothing in the VM inserts into it.  A module  *)
(* that cannot be loaded or compiled raises (runtimeError) and import()   *)
(* returns false.  Otherwise the function is pushed and doCall(0) runs:   *)
(* call() raises "Stack overflow" at FRAMES_MAX, so doCall() returns the  *)
(* sentinel at once; else a frame is pushed and the body starts in a      *)
(* nested run().  A false import() sends IMPORT to throwException.       *)
(***************************************************************************)
IMPORT ==
  /\ status = "running"
  /\ Top.pc <= Len(Body[Top.unit])
  /\ LET name == Body[Top.unit][Top.pc] IN
     \/ /\ name \in Missing \cup Broken
        /\ stack' = runtimeError(stack)
        /\ status' = "throwing"
        /\ UNCHANGED <<frames, started>>
     \/ /\ name \notin Missing \cup Broken
        /\ frameCount = FRAMES_MAX
        /\ stack' = importFailed(runtimeError(Append(stack, "fn")))
        /\ status' = "throwing"
        /\ UNCHANGED <<frames, started>>
     \/ /\ name \notin Missing \cup Broken
        /\ frameCount < FRAMES_MAX
        /\ frames' = Append(frames, [unit |-> name, pc |-> 1, slots |-> Len(stack) + 1])
        /\ stack' = Append(stack, "fn")
        /\ started' = [started EXCEPT ![name] = @ + 1]
        /\ UNCHANGED status

(***************************************************************************)
(* RETURN at the end of a body: stackTop = frame->slots, push the result  *)
(* (nil).  frameCount then equals the run's exitFrame, so run() returns:  *)
(* for the script interpret() is done; for a module doCall() returns the  *)
(* result, import() pops it and returns true, and the importer goes on.   *)
(***************************************************************************)
RETURN ==
  /\ status = "running"
  /\ Top.pc > Len(Body[Top.unit])
  /\ Top.unit \notin Throwing
  /\ \/ /\ frameCount = 1
        /\ frames' = <<>>
        /\ stack' = Append(SubSeq(stack, 1, Top.slots - 1), "nil")
        /\ status' = "returned"
     \/ /\ frameCount > 1
        /\ frames' = resume(Front(frames))
        /\ stack' = SubSeq(stack, 1, Top.slots - 1)
        /\ UNCHANGED status
  /\ UNCHANGED started

\* THROW at the end of a body that raises: the exception instance is on top.
THROW ==
  /\ status = "running"
  /\ Top.pc > Len(Body[Top.unit])
  /\ Top.unit \in Throwing
  /\ stack' = Append(stack, "exc")
  /\ status' = "throwing"
  /\ UNCHANGED <<frames, started>>

(***************************************************************************)
(* propagateException(exitFrame) with the exception on top.  Each body    *)
(* runs in its own run(), so the only frame above exitFrame is the top    *)
(* one.  Its active try block (around the current IMPORT) catches: the    *)
(* stack is reset to the block's level, frame->slots + 1, and the         *)
(* exception pushed.  Otherwise the unroll sets frameCount = exitFrame    *)
(* and stackTop = retFrame->slots + 1 and pushes the exception: for the   *)
(* script the run ends unhandled; for a module run() returns an error,    *)
(* import() turns it into the sentinel and the importer throws.           *)
(***************************************************************************)
propagateException ==
  LET caught == Top.pc \in Guarded[Top.unit]
      level  == SubSeq(stack, 1, Top.slots)
  IN
  \/ /\ caught
     /\ frames' = resume(frames)
     /\ stack' = Append(level, "exc")
     /\ status' = "running"
  \/ /\ ~caught
     /\ frameCount = 1
     /\ frames' = <<>>
     /\ stack' = Append(level, "exc")
     /\ status' = "unhandled"
  \/ /\ ~caught
     /\ frameCount > 1
     /\ frames' = Front(frames)
     /\ stack' = importFailed(Append(level, "exc"))
     /\ UNCHANGED status

(***************************************************************************)
(* The throwException label: AS_INSTANCE(peek(vm, 0)) takes the top value *)
(* as the exception and stores the stack trace in it.  On anything but an *)
(* instance the pointer is garbage and the behaviour is undefined.        *)
(***************************************************************************)
throwException ==
  /\ status = "throwing"
  /\ \/ /\ Last(stack) /= "exc"
        /\ status' = "undefined"
        /\ UNCHANGED <<frames, stack>>
     \/ /\ Last(stack) = "exc"
        /\ propagateException
  /\ UNCHANGED started

\* interpret() has returned, or the process is in undefined behaviour.
Terminated == status \in {"returned", "unhandled", "undefined"} /\ UNCHANGED vars

Next == IMPORT \/ RETURN \/ THROW \/ throwException \/ Terminated

Spec == Init /\ [][Next]_vars

-----------------------------------------------------------------------------
ImportTypeOK ==
  /\ frames \in Seq(Frame)
  /\ frameCount <= FRAMES_MAX
  /\ stack \in Seq(Value)
  /\ status \in {"running", "throwing", "returned", "unhandled", "undefined"}
  /\ started \in [Modules -> Nat]

(***************************************************************************)
(* Whenever the dispatch loop reaches throwException, the value on top of *)
(* the stack is an exception instance (spec.md 4.K: a throw expects an    *)
(* object on top of the stack; a caller that sees the sentinel re-raises  *)
(* the exception).  It is about import()'s error path after doCall().     *)
(***************************************************************************)
ThrowsExceptionInstance == status = "throwing" => Last(stack) = "exc"

(***************************************************************************)
(* A module's body runs at most once per interpreter (spec.md 4.L: the    *)
(* name is registered before the body runs, and a second import of the    *)
(* same name is a no-op).  It is about import()'s registry test.          *)
(***************************************************************************)
BodyRunsOnce == \A m \in Modules : started[m] <= 1
=============================================================================
