------------------------------ MODULE CallStack ------------------------------
(***************************************************************************)
(* Call frames, the operand stack height, the open-upvalue list and the    *)
(* per-frame exception-handler stacks of src/elox/lib/vm.c.  The stack     *)
(* contents are abstracted away: a value is a slot, an upvalue is the slot *)
(* it points at, a handler is the stack offset it restores.  The dispatch  *)
(* loop runs the top frame; each action is one opcode (or call helper)    *)
(* whose operands range over what a compiled program can supply.          *)
(***************************************************************************)
EXTENDS Integers, Sequences, SequencesExt

CONSTANTS
  FRAMES_MAX,                \* capacity of vm->frames
  MAX_CATCH_HANDLER_FRAMES,  \* capacity of a frame's handlerStack
  MaxStack,                  \* model bound on stackTop
  MaxArgs,                   \* model bound on argument counts and arities
  Exceptions                 \* TRUE: throwing and raising opcodes are explored

ASSUME FRAMES_MAX \in Nat \ {0} /\ MAX_CATCH_HANDLER_FRAMES \in Nat \ {0}
ASSUME MaxStack \in Nat /\ MaxArgs \in Nat /\ Exceptions \in BOOLEAN

VARIABLES
  frames,        \* vm->frames[0..frameCount-1]
  stackTop,      \* vm->stackTop - vm->stack
  openUpvalues,  \* vm->openUpvalues, head first: the slot each points at
  status,        \* "running", or how run(vmCtx, 0) returned
  captured       \* ghost: slots holding locals the compiler marked captured

vars == <<frames, stackTop, openUpvalues, status, captured>>

(***************************************************************************)
(* A frame: frame->slots as a slot number, handlerStack[0..handlerCount-1] *)
(* as the stack offsets its TryBlocks record, and whether it is the frame  *)
(* of a native call.  callee is a ghost: the slot the callee was in.       *)
(***************************************************************************)
Frame == [base : Nat, handlers : Seq(Nat), native : BOOLEAN, callee : Nat]

frameCount == Len(frames)
Top == frames[frameCount]

\* The dispatch loop is executing bytecode of the top frame.
Running == status = "running" /\ frameCount > 0 /\ ~Top.native

\* adjustArgs(): the number of argument slots once missing ones are nil-
\* padded and extra ones popped.
adjustArgs(argCount, arity, maxArgs) ==
  IF argCount < arity THEN arity
  ELSE IF argCount > maxArgs THEN maxArgs
  ELSE argCount

\* Mutant: slots computed as for a native frame, without the callee slot.
setupStackFrame_noCallee(top, stackArgs) == top - stackArgs

\* setupStackFrame(): frame->slots = vm->stackTop - stackArgs - 1.
setupStackFrame(top, stackArgs) == top - stackArgs - 1

\* Mutant: the walk does not stop at slots below the new one.
captureUpvalue_atHead(ups, local) ==
  IF \E j \in 1..Len(ups) : ups[j] = local THEN ups ELSE <<local>> \o ups

(***************************************************************************)
(* captureUpvalue(): walk the list while location > local; reuse an       *)
(* upvalue already at local, else link a new one in at that point.        *)
(***************************************************************************)
captureUpvalue(ups, local) ==
  LET stops == {j \in 1..Len(ups) : ups[j] <= local}
      stop  == IF stops = {} THEN Len(ups) + 1 ELSE Min(stops)
  IN  IF stop <= Len(ups) /\ ups[stop] = local THEN ups
      ELSE InsertAt(ups, stop, local)

\* Mutant: closes only upvalues strictly above last.
RECURSIVE closeUpvalues_strict(_, _)
closeUpvalues_strict(ups, last) ==
  IF ups /= <<>> /\ Head(ups) > last
  THEN closeUpvalues_strict(Tail(ups), last) ELSE ups

\* closeUpvalues(): unlink (close) upvalues from the head while their
\* location is at or above last.
RECURSIVE closeUpvalues(_, _)
closeUpvalues(ups, last) ==
  IF ups /= <<>> /\ Head(ups) >= last
  THEN closeUpvalues(Tail(ups), last) ELSE ups

\* interpret(): push the script function and callFunction(function, 0).
Init ==
  /\ frames = <<[base |-> 0, handlers |-> <<>>, native |-> FALSE, callee |-> 0]>>
  /\ stackTop = 1
  /\ openUpvalues = <<>>
  /\ status = "running"
  /\ captured = {}

(***************************************************************************)
(* throwException(fs): with the exception on top, propagateException    *)
(* walks the frames fs from the innermost and each frame's try blocks     *)
(* from the innermost; the first block one of whose handler classes accepts the    *)
(* exception's class catches.  Which block that is depends on the thrown  *)
(* class, so every active block (or none) may be the first to accept.     *)
(* A catch drops the frames above, resets stackTop to the block's offset  *)
(* and pushes the exception; the handlerCount of the catching frame is    *)
(* left as it was.  With no catcher frameCount becomes exitFrame (0) and  *)
(* the exception is left on retFrame->slots + 1.  Neither path calls      *)
(* closeUpvalues.                                                          *)
(***************************************************************************)
throwException(fs) ==
  \/ \E f \in 1..Len(fs) :
       \E h \in 1..Len(fs[f].handlers) :
         /\ frames' = SubSeq(fs, 1, f)
         /\ stackTop' = fs[f].base + fs[f].handlers[h] + 1
         /\ captured' = {s \in captured : s < stackTop' - 1}
         /\ UNCHANGED <<openUpvalues, status>>
  \/ /\ frames' = <<>>
     /\ stackTop' = fs[1].base + 2
     /\ status' = "unhandled"
     /\ UNCHANGED <<openUpvalues, captured>>

\* runtimeError() pushes a new RuntimeException, then goto throwException.
raise == Exceptions /\ throwException(frames)

-----------------------------------------------------------------------------
\* CONST, NIL, GET_LOCAL, ...: push one value.
pushValue ==
  /\ Running
  /\ stackTop < MaxStack
  /\ stackTop' = stackTop + 1
  /\ UNCHANGED <<frames, openUpvalues, status, captured>>

\* POP: the compiler emits it for a slot whose local was not captured.
popValue ==
  /\ Running
  /\ stackTop > Top.base + 1
  /\ stackTop - 1 \notin captured
  /\ stackTop' = stackTop - 1
  /\ UNCHANGED <<frames, openUpvalues, status, captured>>

\* CLOSURE capturing local slot index of the frame: push the closure, then
\* captureUpvalue(frame->slots + index).
closure(index) ==
  /\ Running
  /\ stackTop < MaxStack
  /\ index < stackTop - Top.base
  /\ stackTop' = stackTop + 1
  /\ openUpvalues' = captureUpvalue(openUpvalues, Top.base + index)
  /\ captured' = captured \cup {Top.base + index}
  /\ UNCHANGED <<frames, status>>

\* CLOSE_UPVALUE: closeUpvalues(vm->stackTop - 1); pop.
closeUpvalue ==
  /\ Running
  /\ stackTop - 1 \in captured
  /\ stackTop > Top.base + 1
  /\ openUpvalues' = closeUpvalues(openUpvalues, stackTop - 1)
  /\ stackTop' = stackTop - 1
  /\ captured' = captured \ {stackTop - 1}
  /\ UNCHANGED <<frames, status>>

\* RETURN: close the frame's upvalues, pop it, leave the result where the
\* callee was; when frameCount reaches exitFrame (0) run() returns.
return ==
  /\ Running
  /\ openUpvalues' = closeUpvalues(openUpvalues, Top.base)
  /\ frames' = Front(frames)
  /\ stackTop' = Top.base + 1
  /\ captured' = {s \in captured : s < Top.base}
  /\ status' = IF frameCount - 1 = 0 THEN "returned" ELSE "running"

\* Mutant: call() without the frameCount == FRAMES_MAX check.
call_noDepthCheck(argCount, arity, maxArgs) ==
  LET stackArgs == adjustArgs(argCount, arity, maxArgs)
      top       == stackTop - argCount + stackArgs
  IN  /\ top <= MaxStack
      /\ frames' = Append(frames, [base |-> setupStackFrame(top, stackArgs),
                                   handlers |-> <<>>, native |-> FALSE,
                                   callee |-> stackTop - argCount - 1])
      /\ stackTop' = top
      /\ UNCHANGED <<openUpvalues, status, captured>>

(***************************************************************************)
(* CALL of a function or closure (callValue -> call): "Stack overflow"    *)
(* when frameCount == FRAMES_MAX; otherwise adjustArgs pads or pops the   *)
(* arguments and a frame with handlerCount 0 is pushed.                    *)
(***************************************************************************)
call(argCount, arity, maxArgs) ==
  \/ /\ frameCount = FRAMES_MAX
     /\ raise
  \/ LET stackArgs == adjustArgs(argCount, arity, maxArgs)
         top       == stackTop - argCount + stackArgs
     IN  /\ frameCount < FRAMES_MAX
         /\ top <= MaxStack
         /\ frames' = Append(frames, [base |-> setupStackFrame(top, stackArgs),
                                      handlers |-> <<>>, native |-> FALSE,
                                      callee |-> stackTop - argCount - 1])
         /\ stackTop' = top
         /\ UNCHANGED <<openUpvalues, status, captured>>

(***************************************************************************)
(* CALL of a native (callNative): a frame is taken with                    *)
(* vm->frames[vm->frameCount++] and no FRAMES_MAX check, its slots point   *)
(* at the first argument after adjustArgs.                                 *)
(***************************************************************************)
callNative(argCount, arity, maxArgs) ==
  LET stackArgs == adjustArgs(argCount, arity, maxArgs)
      top       == stackTop - argCount + stackArgs
  IN  /\ top <= MaxStack
      /\ frames' = Append(frames, [base |-> top - stackArgs,
                                   handlers |-> <<>>, native |-> TRUE,
                                   callee |-> stackTop - argCount - 1])
      /\ stackTop' = top
      /\ UNCHANGED <<openUpvalues, status, captured>>

(***************************************************************************)
(* The native function returns: on success the frame is popped and the    *)
(* result replaces callee and arguments; on EXCEPTION_VAL (the native     *)
(* called runtimeError, which pushed the exception) the frame is popped   *)
(* and the caller goes to throwException.                                  *)
(***************************************************************************)
nativeReturn ==
  /\ status = "running"
  /\ frameCount > 0
  /\ Top.native
  /\ \/ /\ frames' = Front(frames)
        /\ stackTop' = Top.base
        /\ UNCHANGED <<openUpvalues, status, captured>>
     \/ /\ Exceptions
        /\ frameCount > 1
        /\ throwException(Front(frames))
-----------------------------------------------------------------------------
\* THROW: the value on top is the exception.
throw ==
  /\ Running
  /\ Exceptions
  /\ stackTop > Top.base + 1
  /\ throwException(frames)

(***************************************************************************)
(* PUSH_EXCEPTION_HANDLER stackLevel: raise when handlerCount is already  *)
(* MAX_CATCH_HANDLER_FRAMES (whatever the level); otherwise record the    *)
(* stack offset in handlerStack[stackLevel] and raise handlerCount to     *)
(* stackLevel + 1 if it was lower.  The compiler's level is the try       *)
(* nesting depth, at most the handlers the frame has recorded.            *)
(***************************************************************************)
pushExceptionHandler(stackLevel) ==
  /\ Running
  /\ stackTop < MaxStack
  /\ stackLevel <= Len(Top.handlers)
  /\ \/ /\ Len(Top.handlers) = MAX_CATCH_HANDLER_FRAMES
        /\ raise
     \/ /\ Len(Top.handlers) < MAX_CATCH_HANDLER_FRAMES
        /\ LET offset == stackTop - Top.base
               hs     == Top.handlers
           IN  frames' = [frames EXCEPT ![frameCount].handlers =
                            IF stackLevel < Len(hs)
                            THEN [hs EXCEPT ![stackLevel + 1] = offset]
                            ELSE Append(hs, offset)]
        /\ UNCHANGED <<stackTop, openUpvalues, status, captured>>

\* POP_EXCEPTION_HANDLER newHandlerCount: the level of the try block that
\* ends, below the current handlerCount.
popExceptionHandler(newHandlerCount) ==
  /\ Running
  /\ newHandlerCount < Len(Top.handlers)
  /\ frames' = [frames EXCEPT ![frameCount].handlers =
                   SubSeq(@, 1, newHandlerCount)]
  /\ UNCHANGED <<stackTop, openUpvalues, status, captured>>

\* CALL with argCount arguments above a callee in the frame's temporaries:
\* the compiler pushes callee and arguments as fresh values, never locals.
callOp(argCount, arity, maxArgs) ==
  /\ Running
  /\ stackTop - argCount - 1 > Top.base
  /\ \A s \in stackTop - argCount - 1..stackTop - 1 : s \notin captured
  /\ \/ call(argCount, arity, maxArgs)
     \/ callNative(argCount, arity, maxArgs)

\* run() has returned to the embedder: nothing more happens.
Terminated == status /= "running" /\ UNCHANGED vars

Args == 0..MaxArgs

Next ==
  \/ pushValue
  \/ popValue
  \/ \E i \in 0..MaxStack : closure(i)
  \/ closeUpvalue
  \/ return
  \/ \E argCount, arity \in Args, varargs \in BOOLEAN :
       callOp(argCount, arity, IF varargs THEN 255 ELSE arity)
  \/ nativeReturn
  \/ throw
  \/ \E l \in 0..MAX_CATCH_HANDLER_FRAMES - 1 : pushExceptionHandler(l)
  \/ \E n \in 0..MAX_CATCH_HANDLER_FRAMES - 1 : popExceptionHandler(n)
  \/ Terminated

Spec == Init /\ [][Next]_vars

-----------------------------------------------------------------------------
CTypeOK ==
  /\ frames \in Seq(Frame)
  /\ frameCount <= FRAMES_MAX + 1
  /\ \A f \in 1..frameCount : Len(frames[f].handlers) <= MAX_CATCH_HANDLER_FRAMES
  /\ stackTop \in 0..MaxStack
  /\ openUpvalues \in Seq(0..MaxStack)
  /\ status \in {"running", "returned", "unhandled"}

(***************************************************************************)
(* While the script runs, every open upvalue points strictly below the   *)
(* stack top (spec.md 3).  RETURN and CLOSE_UPVALUE close what they pop;  *)
(* a slot above stackTop is reused by the next push, and a closure still  *)
(* holding the open upvalue would read and write that unrelated value.    *)
(* It is about the paths that keep running after a pop: a catch in        *)
(* propagateException resets stackTop to the try block's level.           *)
(***************************************************************************)
OpenUpvaluesBelowTop ==
  status = "running" =>
    \A j \in 1..Len(openUpvalues) : openUpvalues[j] < stackTop

(***************************************************************************)
(* vm->openUpvalues is ordered by strictly descending slot, so one slot   *)
(* has one open upvalue that every closure capturing it shares, and       *)
(* closeUpvalues, which only looks at the head, closes all at or above a  *)
(* slot (spec.md 3).  captureUpvalue's walk and both close paths keep it. *)
(***************************************************************************)
OpenUpvaluesOrdered ==
  \A i, j \in 1..Len(openUpvalues) : i < j => openUpvalues[i] > openUpvalues[j]

(***************************************************************************)
(* Frames nest: each bytecode frame's slot 0 is the slot its callee was   *)
(* in whatever argument adjustment happened, frames lie strictly above    *)
(* their callers, and the stack top is never below the running frame.     *)
(***************************************************************************)
FramesNested ==
  /\ \A f \in 1..frameCount : ~frames[f].native => frames[f].base = frames[f].callee
  /\ \A f \in 1..frameCount - 1 : frames[f].base < frames[f + 1].base
  /\ frameCount > 0 => stackTop >= Top.base

\* At most FRAMES_MAX frames are live: vm->frames has no room for more.
FrameCountWithinBound == frameCount <= FRAMES_MAX
=============================================================================
