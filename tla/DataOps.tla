------------------------------- MODULE DataOps -------------------------------
(***************************************************************************)
(* The data opcodes of run() in src/elox/lib/vm.c, executed in one call    *)
(* frame: constants, POP/POPN, locals and the varargs pack, globals,      *)
(* upvalues, arithmetic, NOT, INSTANCEOF, and the aggregate opcodes       *)
(* ARRAY_BUILD, MAP_BUILD, MAP_GET, MAP_SET, INDEX, INDEX_STORE and       *)
(* UNPACK.  The stack holds the frame's slots:                            *)
(* stack[1] is slot 0 (the callee), then the fixed parameters, the        *)
(* varargs pack that adjustArgs left (varArgs values), the locals the     *)
(* body declared, and the temporaries of the expression being evaluated.  *)
(* Arrays, tuples and maps live in heap.  Array items use the helpers of   *)
(* object.c (newArray, appendToArray, isValidArrayIndex, arrayAt,         *)
(* arraySet).  A map's items are its table's live <<key, value>> pairs in *)
(* insertion order: what CloseTable.tla shows closeTableSet and           *)
(* closeTableGet implement (its Refinement of AbstractMap).               *)
(* The compiler is not in src: its contract appears as the guard that an   *)
(* opcode finds the operands the compiler counted (depth), and the ghost   *)
(* vals holds what the compiler means each variable to hold.              *)
(***************************************************************************)
EXTENDS Integers, Sequences, SequencesExt, Functions

CONSTANTS
  FixedArgs,   \* the function's declared arity (fixedArgs)
  MaxVarArgs,  \* most extra arguments a caller passes to its '...' pack
  NumLocals,   \* locals the body has declared, after the pack (postArgs)
  Globals,     \* indices into vm->globalValues the code names
  Nums,        \* the numbers a constant, an index or a result may be
  MaxItems,    \* most items of one ARRAY_BUILD
  MaxObjects,  \* bound on the arrays, tuples and maps allocated
  MaxPairs,    \* most key/value pairs of one MAP_BUILD
  NumUpvalues, \* upvalues of the running closure
  Names,       \* the property names MAP_GET and MAP_SET read (READ_STRING16)
  InitMaps,    \* what a map built before the frame's entry may hold
  MaxTemps,    \* bound on the temporaries above the locals
  MaxUnpack,   \* most targets of one UNPACK
  Literals     \* the constants the chunk pushes (CONST8, IMM8, NIL, ...)

ASSUME 0..MaxVarArgs \subseteq Nums /\ MaxItems \in Nat /\ MaxUnpack \in Nat \ {0}

VARIABLES
  stack,    \* vm->stack from frame->slots to stackTop
  varArgs,  \* frame->varArgs
  heap,     \* heap[id]: an ObjArray or ObjMap, its type tag and its items
  upvals,   \* *closure->upvalues[i]->location, the captured variables
  globals,  \* vm->globalValues.values
  status,   \* "running", "raised" (goto throwException), or "undefined"
  depth,    \* ghost: the temporaries the compiler counted
  vals      \* ghost: what the compiler means each variable to hold

vars == <<stack, varArgs, heap, upvals, globals, status, depth, vals>>

-----------------------------------------------------------------------------
(* Values, as the tags of a Value that the opcodes test. *)
Num(n)   == [t |-> "num", n |-> n]
Nil      == [t |-> "nil"]
Bool(b)  == [t |-> "bool", b |-> b]
Str(s)   == [t |-> "str", s |-> s]     \* an interned string
Ref(id)  == [t |-> "obj", id |-> id]
Class    == [t |-> "class"]    \* a user class
Callee   == [t |-> "closure"]  \* the running closure, in slot 0
Garbage  == [t |-> "garbage"]  \* a read of a cell nobody wrote
UNDEFINED_VAL == [t |-> "undefined"]


IS_NUMBER(v) == v.t = "num"
IS_ARRAY(v)  == v.t = "obj" /\ heap[v.id].type = "OBJ_ARRAY"
IS_TUPLE(v)  == v.t = "obj" /\ heap[v.id].type = "OBJ_TUPLE"
IS_MAP(v)    == v.t = "obj" /\ heap[v.id].type = "OBJ_MAP"

\* The variables the compiler resolves, and their (slot, postArgs) bytes.
Params == {[kind |-> "param", i |-> i] : i \in 1..FixedArgs}
Locals == {[kind |-> "local", i |-> i] : i \in 0..NumLocals - 1}
LocalSlot(x) == IF x.kind = "param" THEN x.i ELSE FixedArgs + 1 + x.i
PostArgs(x)  == IF x.kind = "param" THEN 0 ELSE 1
Upvals == {[kind |-> "upvalue", i |-> i] : i \in 0..NumUpvalues - 1}

Base == 1 + FixedArgs + varArgs + NumLocals

-----------------------------------------------------------------------------
(* frame->slots[s] and peek(vm, d).  A cell at or above stackTop holds *)
(* whatever an earlier push left there.                                *)
slotAt(s) == IF s + 1 \in 1..Len(stack) THEN stack[s + 1] ELSE Garbage
peek(d) == stack[Len(stack) - d]
push(s, v) == Append(s, v)
popn(s, n) == SubSeq(s, 1, Len(s) - n)

\* frame->slots[s] = v: a write at or above stackTop is overwritten by the
\* next push before any read; below slot 0 it lands in the caller's frame.
setSlot(s, p, v) == IF p + 1 \in 1..Len(s) THEN [s EXCEPT ![p + 1] = v] ELSE s

\* slot + postArgs * frame->varArgs, GET_LOCAL's and SET_LOCAL's address.
localIndex(slot, postArgs) == slot + postArgs * varArgs

\* An opcode with n operands: the compiler counted them, and the stack
\* holds them above the callee slot.
operands(n) == depth >= n /\ Len(stack) > n

\* runtimeError(...) and goto throwException: the frame stops here.
raise == status' = "raised" /\ UNCHANGED <<stack, heap, upvals, globals, depth, vals>>

\* The opcode completes: the compiler's count moves by its stack effect.
done(s, effect) == stack' = s /\ status' = status /\ depth' = depth + effect

(***************************************************************************)
(* The frame after adjustArgs and the body's local declarations: either   *)
(* every local is nil, or the first local was declared with a map literal *)
(* (one of InitMaps), the one object allocated so far.  The captured      *)
(* variables hold nil.                                                    *)
(***************************************************************************)
Init ==
  /\ varArgs \in 0..MaxVarArgs
  /\ \E m \in {<<>>} \cup {<<p>> : p \in InitMaps} :
       LET local0 == IF m = <<>> THEN Nil ELSE Ref(1) IN
       /\ heap = [id \in DOMAIN m |-> [type |-> "OBJ_MAP", items |-> m[id]]]
       /\ stack = <<Callee>> \o [i \in 1..FixedArgs + varArgs |-> Num(0)]
                             \o [i \in 1..NumLocals |-> IF i = 1 THEN local0 ELSE Nil]
       /\ vals = [x \in Params |-> Num(0)] @@
                 [x \in Locals |-> IF x.i = 0 THEN local0 ELSE Nil] @@
                 [x \in Upvals |-> Nil]
  /\ upvals = [i \in 0..NumUpvalues - 1 |-> Nil]
  /\ globals = [g \in Globals |-> UNDEFINED_VAL]
  /\ status = "running"
  /\ depth = 0

-----------------------------------------------------------------------------
\* CONST8, CONST16, IMM8, IMM16, NIL, TRUE, FALSE: push the value.
CONST(v) ==
  /\ depth < MaxTemps
  /\ done(push(stack, v), 1)
  /\ UNCHANGED <<varArgs, heap, upvals, globals, vals>>

\* POP, and POPN n.
POPN(n) ==
  /\ operands(n)
  /\ done(popn(stack, n), -n)
  /\ UNCHANGED <<varArgs, heap, upvals, globals, vals>>

\* NUM_VARARGS: push frame->varArgs.
NUM_VARARGS ==
  /\ depth < MaxTemps
  /\ done(push(stack, Num(varArgs)), 1)
  /\ UNCHANGED <<varArgs, heap, upvals, globals, vals>>

\* GET_LOCAL slot postArgs.
GET_LOCAL(x) ==
  /\ depth < MaxTemps
  /\ done(push(stack, slotAt(localIndex(LocalSlot(x), PostArgs(x)))), 1)
  /\ UNCHANGED <<varArgs, heap, upvals, globals, vals>>

\* SET_LOCAL slot postArgs: the assigned value stays on the stack.
SET_LOCAL(x) ==
  /\ operands(1)
  /\ done(setSlot(stack, localIndex(LocalSlot(x), PostArgs(x)), peek(0)), 0)
  /\ vals' = [vals EXCEPT ![x] = peek(0)]
  /\ UNCHANGED <<varArgs, heap, upvals, globals>>

\* GET_VARARG: args[i]; frame->slots[fixedArgs + index + 1], unchecked.
GET_VARARG ==
  /\ operands(1)
  /\ LET indexVal == peek(0) IN
     \/ /\ ~IS_NUMBER(indexVal)
        /\ raise
     \/ /\ IS_NUMBER(indexVal)
        /\ done(push(popn(stack, 1), slotAt(FixedArgs + indexVal.n + 1)), 0)
        /\ UNCHANGED <<heap, upvals, globals, vals>>
  /\ UNCHANGED varArgs

(***************************************************************************)
(* SET_VARARG: args[i] = v.  val = pop(); frame->slots[fixedArgs + index  *)
(* + 1] = val; pop(); push(val).  The index is not checked either; a      *)
(* write below slot 0 is into the caller's frame.                         *)
(***************************************************************************)
SET_VARARG ==
  /\ operands(2)
  /\ LET indexVal == peek(1)
         val      == peek(0)
         p        == FixedArgs + indexVal.n + 1
     IN
     \/ /\ ~IS_NUMBER(indexVal)
        /\ raise
     \/ /\ IS_NUMBER(indexVal)
        /\ p < 0
        /\ status' = "undefined"
        /\ UNCHANGED <<stack, heap, upvals, globals, depth, vals>>
     \/ /\ IS_NUMBER(indexVal)
        /\ p >= 0
        /\ done(push(popn(setSlot(popn(stack, 1), p, val), 1), val), -1)
        /\ UNCHANGED <<heap, upvals, globals, vals>>
  /\ UNCHANGED varArgs

\* A GET_GLOBAL without the IS_UNDEFINED test.
GET_GLOBAL_unchecked(g) ==
  /\ depth < MaxTemps
  /\ done(push(stack, globals[g]), 1)
  /\ UNCHANGED <<varArgs, heap, upvals, globals, vals>>

\* GET_GLOBAL: an undefined global raises.
GET_GLOBAL(g) ==
  /\ depth < MaxTemps
  /\ \/ /\ globals[g] = UNDEFINED_VAL
        /\ raise
     \/ /\ globals[g] /= UNDEFINED_VAL
        /\ done(push(stack, globals[g]), 1)
        /\ UNCHANGED <<heap, upvals, globals, vals>>
  /\ UNCHANGED varArgs

\* DEFINE_GLOBAL: pop into the global, defined or not.
DEFINE_GLOBAL(g) ==
  /\ operands(1)
  /\ globals' = [globals EXCEPT ![g] = peek(0)]
  /\ done(popn(stack, 1), -1)
  /\ UNCHANGED <<varArgs, heap, upvals, vals>>

\* SET_GLOBAL: assigning an undefined global raises; the value stays.
SET_GLOBAL(g) ==
  /\ operands(1)
  /\ \/ /\ globals[g] = UNDEFINED_VAL
        /\ raise
     \/ /\ globals[g] /= UNDEFINED_VAL
        /\ globals' = [globals EXCEPT ![g] = peek(0)]
        /\ done(stack, 0)
        /\ UNCHANGED <<heap, upvals, vals>>
  /\ UNCHANGED varArgs

\* GET_UPVALUE slot: push *upvalues[slot]->location.
GET_UPVALUE(u) ==
  /\ depth < MaxTemps
  /\ done(push(stack, upvals[u.i]), 1)
  /\ UNCHANGED <<varArgs, heap, upvals, globals, vals>>

\* SET_UPVALUE slot: store peek(0) through the upvalue; the value stays.
SET_UPVALUE(u) ==
  /\ operands(1)
  /\ upvals' = [upvals EXCEPT ![u.i] = peek(0)]
  /\ done(stack, 0)
  /\ vals' = [vals EXCEPT ![u] = peek(0)]
  /\ UNCHANGED <<varArgs, heap, globals>>

-----------------------------------------------------------------------------
(***************************************************************************)
(* GREATER, LESS, ADD, SUBTRACT, MULTIPLY (BINARY_OP): both operands must *)
(* be numbers, or the opcode raises.  ADD first tests for two strings,    *)
(* which are not values here.  Results outside Nums are not followed.     *)
(***************************************************************************)
BinaryOps == {"GREATER", "LESS", "ADD", "SUBTRACT", "MULTIPLY"}

binaryResult(op, a, b) ==
  CASE op = "GREATER"  -> Bool(a > b)
    [] op = "LESS"     -> Bool(a < b)
    [] op = "ADD"      -> Num(a + b)
    [] op = "SUBTRACT" -> Num(a - b)
    [] op = "MULTIPLY" -> Num(a * b)

BINARY_OP(op) ==
  /\ operands(2)
  /\ \/ /\ ~(IS_NUMBER(peek(0)) /\ IS_NUMBER(peek(1)))
        /\ raise
     \/ /\ IS_NUMBER(peek(0)) /\ IS_NUMBER(peek(1))
        /\ LET r == binaryResult(op, peek(1).n, peek(0).n)
           IN  /\ r.t = "num" => r.n \in Nums
               /\ done(push(popn(stack, 2), r), -1)
        /\ UNCHANGED <<heap, upvals, globals, vals>>
  /\ UNCHANGED varArgs

\* NEGATE: a number, or the opcode raises.
NEGATE ==
  /\ operands(1)
  /\ \/ /\ ~IS_NUMBER(peek(0))
        /\ raise
     \/ /\ IS_NUMBER(peek(0))
        /\ -peek(0).n \in Nums
        /\ done(push(popn(stack, 1), Num(-peek(0).n)), 0)
        /\ UNCHANGED <<heap, upvals, globals, vals>>
  /\ UNCHANGED varArgs

\* isFalsey(): nil and false.
isFalsey(v) == v = Nil \/ v = Bool(FALSE)

\* NOT.
NOT ==
  /\ operands(1)
  /\ done(push(popn(stack, 1), Bool(isFalsey(peek(0)))), 0)
  /\ UNCHANGED <<varArgs, heap, upvals, globals, vals>>

(***************************************************************************)
(* classOfValue(): numbers and booleans have builtin classes, a class is  *)
(* its own, arrays have Array.  nil, tuples (classOf has no OBJ_TUPLE     *)
(* case), closures and unwritten cells have none: NULL.                  *)
(***************************************************************************)
hasClass(v) == IS_NUMBER(v) \/ v.t \in {"bool", "class"} \/ IS_ARRAY(v)

(***************************************************************************)
(* INSTANCEOF: the right operand must be a class.  Both operands are      *)
(* popped; the result is pushed only when classOfValue() found a class.   *)
(* instanceOf(clazz, instClass) holds for the class itself: the builtin   *)
(* classes are not subclasses of a user class.                            *)
(***************************************************************************)
INSTANCEOF ==
  /\ operands(2)
  /\ \/ /\ peek(0) /= Class
        /\ raise
     \/ /\ peek(0) = Class
        /\ LET s == popn(stack, 2)
               v == peek(1)
           IN  done(IF hasClass(v) THEN push(s, Bool(v = Class)) ELSE s, -1)
        /\ UNCHANGED <<heap, upvals, globals, vals>>
  /\ UNCHANGED varArgs

-----------------------------------------------------------------------------
(* object.c's array helpers, on heap[id].  arrayAt and arraySet do not    *)
(* check the index; a read past the items is of memory nobody wrote.      *)
\* An index test that accepts index == size.
isValidArrayIndex_offByOne(id, index) == ~(index < 0 \/ index > Len(heap[id].items))
isValidArrayIndex(id, index) == ~(index < 0 \/ index > Len(heap[id].items) - 1)
arrayAt(id, index) ==
  IF index \in 0..Len(heap[id].items) - 1 THEN heap[id].items[index + 1] ELSE Garbage
arraySet(h, id, index, v) == [h EXCEPT ![id].items[index + 1] = v]

\* The append loop's offsets without the array pushed above the items.
buildItems_fromTop(s, n) == [j \in 1..n |-> s[Len(s) - (n - j)]]

(***************************************************************************)
(* The items ARRAY_BUILD appends: with the new array pushed on top,       *)
(* appendToArray(array, peek(vm, i)) for i = itemCount down to 1.         *)
(***************************************************************************)
buildItems(s, n) == [j \in 1..n |-> s[Len(s) - (n - j + 1)]]

(***************************************************************************)
(* ARRAY_BUILD objType itemCount: newArray, push it (so the items stay    *)
(* reachable while it grows), append the items, pop it, popn(itemCount)   *)
(* and push the array.                                                    *)
(***************************************************************************)
ARRAY_BUILD(type, n) ==
  /\ operands(n)
  /\ depth - n < MaxTemps
  /\ Len(heap) < MaxObjects
  /\ LET id == Len(heap) + 1
     IN  /\ heap' = Append(heap, [type |-> type,
                                  items |-> buildItems(push(stack, Ref(id)), n)])
         /\ done(push(popn(stack, n), Ref(id)), 1 - n)
  /\ UNCHANGED <<varArgs, upvals, globals, vals>>

(***************************************************************************)
(* A map's table, as the live pairs in insertion order.  Every key here   *)
(* (a number, string, boolean, nil, class or array) hashes and compares   *)
(* without running user code, so closeTableSet and closeTableGet cannot   *)
(* raise: closeTableSet replaces the value of a present key in place and  *)
(* appends a new one; closeTableGet's "not found" is nil at every caller. *)
(***************************************************************************)
hasKey(pairs, k) == \E i \in DOMAIN pairs : pairs[i][1] = k
keyIndex(pairs, k) == CHOOSE i \in DOMAIN pairs : pairs[i][1] = k

\* A closeTableSet whose lookup misses a present key and appends it again.
closeTableSet_noLookup(pairs, k, v) == Append(pairs, <<k, v>>)

closeTableSet(pairs, k, v) ==
  IF hasKey(pairs, k) THEN [pairs EXCEPT ![keyIndex(pairs, k)] = <<k, v>>]
  ELSE Append(pairs, <<k, v>>)

closeTableGet(pairs, k) == IF hasKey(pairs, k) THEN pairs[keyIndex(pairs, k)][2] ELSE Nil

mapSet(h, id, k, v) == [h EXCEPT ![id].items = closeTableSet(h[id].items, k, v)]

\* MAP_BUILD's loop reading each pair's value before its key.
buildPairs_valueFirst(s, n) ==
  [j \in 1..n |-> <<s[Len(s) - (2 * (n - j) + 1)], s[Len(s) - (2 * (n - j) + 2)]>>]

(***************************************************************************)
(* The pairs MAP_BUILD inserts, in order: with the map pushed on top,     *)
(* i = 2 * itemCount; key = peek(vm, i--); value = peek(vm, i--).         *)
(***************************************************************************)
buildPairs(s, n) ==
  [j \in 1..n |-> <<s[Len(s) - (2 * (n - j) + 2)], s[Len(s) - (2 * (n - j) + 1)]>>]

(***************************************************************************)
(* MAP_BUILD itemCount: newMap, push it, closeTableSet each pair from the *)
(* deepest up, pop it, popn(2 * itemCount) and push the map.              *)
(***************************************************************************)
MAP_BUILD(n) ==
  /\ operands(2 * n)
  /\ depth - 2 * n < MaxTemps
  /\ Len(heap) < MaxObjects
  /\ LET id == Len(heap) + 1
         ps == buildPairs(push(stack, Ref(id)), n)
     IN  /\ heap' = Append(heap, [type |-> "OBJ_MAP",
                                  items |-> FoldLeft(LAMBDA m, p : closeTableSet(m, p[1], p[2]),
                                                     <<>>, ps)])
         /\ done(push(popn(stack, 2 * n), Ref(id)), 1 - 2 * n)
  /\ UNCHANGED <<varArgs, upvals, globals, vals>>

\* MAP_GET name: m.name on a map, nil when absent; anything else raises.
MAP_GET(name) ==
  /\ operands(1)
  /\ \/ /\ ~IS_MAP(peek(0))
        /\ raise
     \/ /\ IS_MAP(peek(0))
        /\ done(push(popn(stack, 1), closeTableGet(heap[peek(0).id].items, Str(name))), 0)
        /\ UNCHANGED <<heap, upvals, globals, vals>>
  /\ UNCHANGED varArgs

\* MAP_SET name: m.name = value on a map; value = pop(); pop(); push(value).
MAP_SET(name) ==
  /\ operands(2)
  /\ \/ /\ ~IS_MAP(peek(1))
        /\ raise
     \/ /\ IS_MAP(peek(1))
        /\ heap' = mapSet(heap, peek(1).id, Str(name), peek(0))
        /\ done(push(popn(stack, 2), peek(0)), -1)
        /\ UNCHANGED <<upvals, globals, vals>>
  /\ UNCHANGED varArgs

(***************************************************************************)
(* INDEX: pop the index and the indexable.  An array needs a number index *)
(* that isValidArrayIndex accepts, truncated by (int); a map looks the    *)
(* index up with closeTableGet; anything else raises.                     *)
(***************************************************************************)
INDEX ==
  /\ operands(2)
  /\ LET indexVal == peek(0)
         indexable == peek(1)
     IN
     \/ /\ ~IS_ARRAY(indexable) /\ ~IS_MAP(indexable)
        /\ raise
     \/ /\ IS_ARRAY(indexable)
        /\ ~(IS_NUMBER(indexVal) /\ isValidArrayIndex(indexable.id, indexVal.n))
        /\ raise
     \/ /\ IS_ARRAY(indexable) /\ IS_NUMBER(indexVal)
        /\ isValidArrayIndex(indexable.id, indexVal.n)
        /\ done(push(popn(stack, 2), arrayAt(indexable.id, indexVal.n)), -1)
        /\ UNCHANGED <<heap, upvals, globals, vals>>
     \/ /\ IS_MAP(indexable)
        /\ done(push(popn(stack, 2), closeTableGet(heap[indexable.id].items, indexVal)), -1)
        /\ UNCHANGED <<heap, upvals, globals, vals>>
  /\ UNCHANGED varArgs

(***************************************************************************)
(* INDEX_STORE: dest[index] = item, with the same checks as INDEX for an  *)
(* array, closeTableSet for a map; a tuple is "not an array or map".      *)
(* popn(3) and push the item.                                             *)
(***************************************************************************)
INDEX_STORE ==
  /\ operands(3)
  /\ LET item == peek(0)
         indexVal == peek(1)
         dest == peek(2)
     IN
     \/ /\ ~IS_ARRAY(dest) /\ ~IS_MAP(dest)
        /\ raise
     \/ /\ IS_ARRAY(dest)
        /\ ~(IS_NUMBER(indexVal) /\ isValidArrayIndex(dest.id, indexVal.n))
        /\ raise
     \/ /\ IS_ARRAY(dest) /\ IS_NUMBER(indexVal)
        /\ isValidArrayIndex(dest.id, indexVal.n)
        /\ heap' = arraySet(heap, dest.id, indexVal.n, item)
        /\ done(push(popn(stack, 3), item), -2)
        /\ UNCHANGED <<upvals, globals, vals>>
     \/ /\ IS_MAP(dest)
        /\ heap' = mapSet(heap, dest.id, indexVal, item)
        /\ done(push(popn(stack, 3), item), -2)
        /\ UNCHANGED <<upvals, globals, vals>>
  /\ UNCHANGED varArgs

-----------------------------------------------------------------------------
GlobalVars == {[kind |-> "global", g |-> g] : g \in Globals}
Targets == Params \cup Locals \cup Upvals \cup GlobalVars

\* The target lists of an UNPACK: distinct variables, one per name.
UnpackTargets ==
  UNION {{ts \in [1..n -> Targets] : IsInjective(ts)} : n \in 1..MaxUnpack}

(***************************************************************************)
(* UNPACK's loop, i from 0 to numVars - 1: while i < numItems (the tuple's *)
(* size, or 1 for any other value) the target gets the value itself, or   *)
(* the tuple's item tIndex (nil past its size) and tIndex advances; later *)
(* targets get nil.                                                       *)
(***************************************************************************)
\* UNPACK's loop with tIndex never advanced.
RECURSIVE unpackFrom_noAdvance(_, _, _, _)
unpackFrom_noAdvance(val, numVars, i, tIndex) ==
  IF i = numVars THEN <<>>
  ELSE LET tuple    == IS_TUPLE(val)
           numItems == IF tuple THEN Len(heap[val.id].items) ELSE 1
           crtVal   == CASE i >= numItems -> Nil
                         [] ~tuple        -> val
                         [] OTHER         -> IF tIndex < Len(heap[val.id].items)
                                             THEN heap[val.id].items[tIndex + 1] ELSE Nil
       IN  <<crtVal>> \o unpackFrom_noAdvance(val, numVars, i + 1, tIndex)

RECURSIVE unpackFrom(_, _, _, _)
unpackFrom(val, numVars, i, tIndex) ==
  IF i = numVars THEN <<>>
  ELSE LET tuple    == IS_TUPLE(val)
           numItems == IF tuple THEN Len(heap[val.id].items) ELSE 1
           crtVal   == CASE i >= numItems -> Nil
                         [] ~tuple        -> val
                         [] OTHER         -> IF tIndex < Len(heap[val.id].items)
                                             THEN arrayAt(val.id, tIndex) ELSE Nil
           next     == IF i < numItems /\ tuple THEN tIndex + 1 ELSE tIndex
       IN  <<crtVal>> \o unpackFrom(val, numVars, i + 1, next)

\* A VAR_UPVALUE case that reads its slot byte and stores nothing.
assign_upvalueDropped(st, tv) ==
  LET x == tv[1]  v == tv[2] IN
  CASE x.kind = "global"  -> [st EXCEPT !.globals[x.g] = v]
    [] x.kind = "upvalue" -> st
    [] OTHER -> [st EXCEPT !.stack = setSlot(st.stack, localIndex(LocalSlot(x), PostArgs(x)), v)]

\* One target's store: VAR_LOCAL into the frame's slot, VAR_UPVALUE through
\* the closure's upvalue, VAR_GLOBAL into vm->globalValues (defined or not).
assign(st, tv) ==
  LET x == tv[1]  v == tv[2] IN
  CASE x.kind = "global"  -> [st EXCEPT !.globals[x.g] = v]
    [] x.kind = "upvalue" -> [st EXCEPT !.upvals[x.i] = v]
    [] OTHER -> [st EXCEPT !.stack = setSlot(st.stack, localIndex(LocalSlot(x), PostArgs(x)), v)]

\* UNPACK numVars target...: the stores in order, then pop the value.
UNPACK(ts) ==
  /\ operands(1)
  /\ LET crt == unpackFrom(peek(0), Len(ts), 0, 0)
         st  == FoldLeft(assign, [stack |-> stack, globals |-> globals, upvals |-> upvals],
                         Zip(ts, crt))
     IN  /\ globals' = st.globals
         /\ upvals' = st.upvals
         /\ done(popn(st.stack, 1), -1)
         /\ vals' = [x \in DOMAIN vals |->
                       IF \E k \in DOMAIN ts : ts[k] = x
                       THEN crt[CHOOSE k \in DOMAIN ts : ts[k] = x] ELSE vals[x]]
  /\ UNCHANGED <<varArgs, heap>>

\* The frame has raised or reached undefined behaviour: this model stops.
Terminated == status /= "running" /\ UNCHANGED vars

Next ==
  \/ status = "running" /\
     \/ \E v \in Literals : CONST(v)
     \/ \E n \in 1..2 : POPN(n)
     \/ NUM_VARARGS
     \/ \E x \in Params \cup Locals : GET_LOCAL(x) \/ SET_LOCAL(x)
     \/ \E u \in Upvals : GET_UPVALUE(u) \/ SET_UPVALUE(u)
     \/ GET_VARARG \/ SET_VARARG
     \/ \E g \in Globals : GET_GLOBAL(g) \/ DEFINE_GLOBAL(g) \/ SET_GLOBAL(g)
     \/ \E op \in BinaryOps : BINARY_OP(op)
     \/ NEGATE \/ NOT \/ INSTANCEOF
     \/ \E type \in {"OBJ_ARRAY", "OBJ_TUPLE"}, n \in 0..MaxItems : ARRAY_BUILD(type, n)
     \/ \E n \in 0..MaxPairs : MAP_BUILD(n)
     \/ \E name \in Names : MAP_GET(name) \/ MAP_SET(name)
     \/ INDEX \/ INDEX_STORE
     \/ \E ts \in UnpackTargets : UNPACK(ts)
  \/ Terminated

Spec == Init /\ [][Next]_vars

-----------------------------------------------------------------------------
Value == Literals \cup {Num(n) : n \in Nums} \cup {Nil, Bool(FALSE), Bool(TRUE), Callee, Garbage}
           \cup {Str(name) : name \in Names} \cup {Ref(id) : id \in 1..MaxObjects}

DTypeOK ==
  /\ stack \in Seq(Value)
  /\ varArgs \in 0..MaxVarArgs
  /\ \A id \in DOMAIN heap :
       \/ heap[id].type \in {"OBJ_ARRAY", "OBJ_TUPLE"} /\ heap[id].items \in Seq(Value)
       \/ heap[id].type = "OBJ_MAP" /\ heap[id].items \in Seq(Value \X Value)
  /\ upvals \in [0..NumUpvalues - 1 -> Value]
  /\ globals \in [Globals -> Value \cup {UNDEFINED_VAL}]
  /\ status \in {"running", "raised", "undefined"}
  /\ depth \in 0..MaxTemps

\* The stack is laid out as the compiler counted it.
AsCompiled == Len(stack) = Base + depth

\* A variable's storage: its frame slot, its upvalue, or its global cell.
ValueOf(x) ==
  CASE x.kind = "global"  -> globals[x.g]
    [] x.kind = "upvalue" -> upvals[x.i]
    [] OTHER              -> slotAt(localIndex(LocalSlot(x), PostArgs(x)))

\* spec.md 4.J: a tuple of size k gives its first min(n, k) items to the n
\* targets and nil to the rest; any other value goes to the first target.
SpecUnpacked(val, n) ==
  [k \in 1..n |-> IF IS_TUPLE(val)
                  THEN IF k <= Len(heap[val.id].items) THEN heap[val.id].items[k] ELSE Nil
                  ELSE IF k = 1 THEN val ELSE Nil]

(***************************************************************************)
(* UNPACK stores into its targets what spec.md 4.J says: for tuples of    *)
(* every size against every number of targets, and for plain values.     *)
(* It is about UNPACK's loop (numItems, tIndex), on a stack laid out as   *)
(* compiled.                                                              *)
(***************************************************************************)
UnpackFollowsSpec ==
  [][depth' = depth - 1 /\ heap' = heap /\ AsCompiled =>
       \A ts \in UnpackTargets :
         UNPACK(ts) =>
           \A k \in DOMAIN ts : ValueOf(ts[k])' = SpecUnpacked(peek(0), Len(ts))[k]]_vars

(***************************************************************************)
(* ARRAY_BUILD n makes an array of the n values on top of the stack, the  *)
(* first pushed first, and leaves it in their place.  It is about the     *)
(* peek(vm, i) offsets of the append loop, which count the array pushed   *)
(* above the items.                                                       *)
(***************************************************************************)
ArrayBuildInOrder ==
  [][Len(heap') = Len(heap) + 1 /\ heap'[Len(heap')].type /= "OBJ_MAP" =>
       LET n == Len(stack) + 1 - Len(stack')
       IN  /\ heap'[Len(heap')].items = SubSeq(stack, Len(stack) - n + 1, Len(stack))
           /\ stack' = Append(popn(stack, n), Ref(Len(heap')))]_vars

KeysOf(pairs) == [j \in DOMAIN pairs |-> pairs[j][1]]

(***************************************************************************)
(* spec.md 4.C for a literal {k1: v1, ..., kn: vn}: the map holds each     *)
(* distinct key once, in the order of its first occurrence, with the value *)
(* of its last occurrence.                                                 *)
(***************************************************************************)
SpecMapLiteral(ks, vs) ==
  LET firsts == SelectSeq([i \in DOMAIN ks |-> i],
                          LAMBDA i : \A j \in 1..i - 1 : ks[j] /= ks[i])
      lastOf(k) == CHOOSE i \in DOMAIN ks : ks[i] = k /\ \A j \in i + 1..Len(ks) : ks[j] /= k
  IN  [j \in DOMAIN firsts |-> <<ks[firsts[j]], vs[lastOf(ks[firsts[j]])]>>]

(***************************************************************************)
(* MAP_BUILD n makes the map spec.md 4.C gives the literal of the 2n      *)
(* values on top of the stack (key, value, key, value, ... from the       *)
(* deepest), repeated keys included, and leaves it in their place.  It is *)
(* about the peek(vm, i--) order of MAP_BUILD's loop and closeTableSet's   *)
(* replacement of a present key.                                          *)
(***************************************************************************)
MapBuildInOrder ==
  [][Len(heap') = Len(heap) + 1 /\ heap'[Len(heap')].type = "OBJ_MAP" =>
       LET m   == Len(stack) + 1 - Len(stack')
           ops == SubSeq(stack, Len(stack) - m + 1, Len(stack))
           ks  == [j \in 1..m \div 2 |-> ops[2 * j - 1]]
           vs  == [j \in 1..m \div 2 |-> ops[2 * j]]
       IN  /\ heap'[Len(heap')].items = SpecMapLiteral(ks, vs)
           /\ stack' = Append(popn(stack, m), Ref(Len(heap')))]_vars

(***************************************************************************)
(* A store into an existing map (MAP_SET, INDEX_STORE) changes one key:   *)
(* a present key keeps its place in the iteration order and every other   *)
(* pair is untouched, a new key goes last, and the key holds the value    *)
(* the assignment expression leaves on the stack.  It is about            *)
(* closeTableSet finding a present key, which spec.md 4.C's insertion     *)
(* order and m.x / m["x"] agreement rest on.                              *)
(***************************************************************************)
MapStoreFollowsSpec ==
  [][Len(heap') = Len(heap) =>
       \A id \in DOMAIN heap :
         heap[id].type = "OBJ_MAP" /\ heap'[id] /= heap[id] =>
           LET old == heap[id].items  new == heap'[id].items IN
           \E k \in {new[j][1] : j \in DOMAIN new} :
             /\ KeysOf(new) = IF hasKey(old, k) THEN KeysOf(old) ELSE Append(KeysOf(old), k)
             /\ \A j \in DOMAIN new : new[j] = IF new[j][1] = k THEN <<k, Last(stack')>> ELSE old[j]]_vars

(***************************************************************************)
(* Indexed access stays inside the array: INDEX pushes the element at an  *)
(* index in 0..size-1 and raises for any other number, and INDEX_STORE    *)
(* changes exactly that element or raises.  It is about isValidArrayIndex *)
(* guarding the unchecked arrayAt and arraySet at the array's ends.       *)
(***************************************************************************)
IndexedAccessInBounds ==
  [][/\ Len(stack) > 2 /\ IS_ARRAY(peek(1)) /\ IS_NUMBER(peek(0)) /\ INDEX =>
          LET id == peek(1).id  i == peek(0).n IN
          IF i \in 0..Len(heap[id].items) - 1
          THEN status' = "running" /\ Last(stack') = heap[id].items[i + 1]
          ELSE status' = "raised"
     /\ Len(stack) > 3 /\ IS_ARRAY(peek(2)) /\ IS_NUMBER(peek(1)) /\ INDEX_STORE =>
          LET id == peek(2).id  i == peek(1).n IN
          IF i \in 0..Len(heap[id].items) - 1
          THEN heap'[id].items = [heap[id].items EXCEPT ![i + 1] = peek(0)]
          ELSE status' = "raised"]_vars

(***************************************************************************)
(* The stack keeps the layout the compiler counted: every opcode moves    *)
(* stackTop by the stack effect the compiler gave it.  It is about        *)
(* INSTANCEOF, which pushes no result when classOfValue() returns NULL    *)
(* (nil, a tuple, a function).                                            *)
(***************************************************************************)
StackHeightAsCompiled == status = "running" => AsCompiled

(***************************************************************************)
(* Every parameter and local holds what was last assigned to it, whatever *)
(* varArgs is (spec.md 4.D: postArgs locals find their slot regardless of *)
(* how many extra arguments were passed).  It is about SET_VARARG, whose  *)
(* index is not checked against the pack.                                 *)
(***************************************************************************)
LocalsKeepValues ==
  status = "running" /\ AsCompiled =>
    \A x \in Params \cup Locals : ValueOf(x) = vals[x]
=============================================================================
