# TLA+ model of elox

These modules model the parts of the elox interpreter (`src/elox`, with `src/slox` as the older sibling sources) that have enough control structure for TLC to check. Each definition is translated from the C source. `PROJECT.json` names, for every definition, the lines it stands for.

## The system and how its parts interact

`spec.md` splits the interpreter into components A-L. The table shows which of them have source in `src/`:

| Component | Source in `src/` | State | Operations |
|---|---|---|---|
| C. Deterministic hash table | `elox/lib/CloseTable.c`, `CloseTable.h`, `ValueTable.h` | `entries[]` (key, value, `next`, `chain`), `tableSize`, `entriesCount`, `count`, `modCount` | `closeTableSet`, `closeTableDelete`, `closeTableGet`, `closeTableGetNext`, `rehash`, `lookup` |
| Map natives, `$MapIterator` | `elox/lib/builtins.c` 133-223 | an iterator instance's `_map`, `_current`, `_modCount` fields | `mapIterator`, `mapIteratorHasNext`, `mapIteratorNext`, `mapPut`, `mapRemove`, `mapSize` |
| I. Call frames, operand stack, upvalues | `elox/lib/vm.c` | `frames[]`, `frameCount`, `stackTop`, `stackCapacity`, `openUpvalues` list | `call`, `adjustArgs`, `CLOSURE`/`captureUpvalue`, `CLOSE_UPVALUE`/`closeUpvalues`, `RETURN`, `ensureStack` |
| K. Exceptions | `elox/lib/vm.c` | per frame `handlerStack[]`, `handlerCount`; `handlingException` | `PUSH_EXCEPTION_HANDLER`, `POP_EXCEPTION_HANDLER`, `THROW`, `propagateException`, `runtimeError` |
| H. Classes, member refs | `elox/lib/vm.c` | class `classId`, `super`, tables, `memberRefs` | `inherit`, `instanceOf`, `RESOLVE_MEMBERS`, `GET_SUPER`, `MEMBER_INVOKE`, `SUPER_INVOKE`, `FOREACH_INIT` |
| L. Module registry | `elox/lib/vm.c` `import`, `doCall` | `vm->modules`, the frames of nested `run()`s | `IMPORT`, the body's `RETURN`/`THROW` |
| F. Scanner | `slox/lib/scanner.c` | scanner cursor | `scanToken`, `identifierType` |
| J. Data opcodes of `run` | `elox/lib/vm.c` 1083-1852, array helpers of `slox/lib/object.c` 178-221 | a frame's slots (callee, parameters, vararg pack, locals, temporaries), `vm->globalValues`, upvalues, arrays, tuples and maps | constants, `POPN`, `GET/SET_LOCAL`, `GET/SET_VARARG`, `NUM_VARARGS`, `GET/DEFINE/SET_GLOBAL`, arithmetic and comparison, `NOT`, `NEGATE`, `INSTANCEOF`, `GET/SET_UPVALUE`, `ARRAY_BUILD`, `MAP_BUILD`, `MAP_GET`, `MAP_SET`, `INDEX`, `INDEX_STORE`, `UNPACK` |
| Growable C strings | `slox/lib/object.c` 128-168 | `HeapCString` `chars`, `length`, `capacity` | `initHeapString(Size)`, `addStringFmt`, `addStringVFmt` |
| A/B/D/E/G: values, string table, chunk, GC, compiler | not in `src/` (only headers) | | |

The components interact as follows:

- The dispatch loop (`run`) executes bytecode in frames.
- Maps are `ObjMap`s that wrap the deterministic table.
- A `foreach` over a map calls `iterator()`, then `hasNext()`/`next()` on the `$MapIterator`. The loop body can call `put`/`remove` on the same map between those calls.
- Exceptions unwind frames.
- Upvalues point into the operand stack that frames share.

Everything is single-threaded (spec.md 5). The hard behaviours are interleavings of user calls on shared objects (an iterator against the map it walks) and long legal call sequences that reach states nobody tests: tombstone-filled tables, unwinding past open upvalues, and handler stacks at their bound.

## Modules

- **`AbstractMap`**: what a map promises (spec.md 3 and 8). It is an insertion-ordered sequence of `<<key, value>>` pairs with a `modCount` that counts structural changes. `MapSet`, `MapDelete` and `MapGet` give the results the code returns, including a key whose `hashValue` raises.
- **`CloseTable`**: `CloseTable.c` line by line.
  - Variables are the struct fields; the function `entries` over `0..tableSize-1` is the `entries` array, with `chain` heads stored in the same cells as the code does.
  - `closeTableSet` is split into `setOverwrite` (key found) and `setAppend`: `modCount++`, a rehash when full, the append and the chain link.
  - `rehash` covers the `newSize == 0 -> 8` default, the empty same-size branch (the TODO) and the compaction into a new array.
  - When the array is already full, the append in `setAppend` keeps only the `chain` store, which lands inside the array. The cell at `entries[tableSize]` is out of bounds (undefined behaviour), and run `close_overflow` stops there.
  - Keys are model values with a chosen `Hash`. `FailingKeys` are keys whose `hashValue` raises. `FlakyKeys` are keys whose `hashValue` may raise on any call, as a user `hashCode` that reads mutable state does. This is the fault model: every call that hashes such a key may fail, and `rehashAborts` is `rehash` returning early when a stored key's hash fails. Only `rehash_fault` has a non-empty `FlakyKeys`.
  - `Refinement` checks, as a temporal property, that the table implements `AbstractMap` under the mapping "live cells in index order". `AbsItems` is that mapping.
- **`MapIterator`**: the three iterator natives of `builtins.c`, running against a `CloseTable`.
  - Any table operation (a user call in the loop body) may happen between two iterator calls.
  - `GuardedNext` says whether `next()` is only called after `hasNext()` answered TRUE, which is the protocol `FOREACH_INIT` sets up.
  - The natives call `valueTableGetNext` of `ValueTable.h`. Its source is not in `src/`, and spec.md 9 folds `ValueTable` and `CloseTable` into one table. The model therefore uses `closeTableGetNext` from `CloseTable.c`.

- **`CallStack`**: the frame array, the operand stack height and the open-upvalue list of `vm.c`.
  - Stack slots are numbers; values are left out. `frames` is a sequence of records (`base`, the `handlers` offsets, `native`, `callee`); `openUpvalues` holds the slots of open upvalues, head first, as the linked list does.
  - Actions are the opcodes that change these: value pushes and pops, `CLOSURE` (`captureUpvalue`), `CLOSE_UPVALUE`, `RETURN` (`closeUpvalues`), `CALL` (`call`/`adjustArgs`/`setupStackFrame`, or `callNative`), a native returning or failing, `PUSH_EXCEPTION_HANDLER`, `POP_EXCEPTION_HANDLER` and `THROW`.
  - `throwException` is `propagateException`: either some frame's handler accepts the exception (which handler record matches a class is a nondeterministic choice, since the class test is data), or every frame is dropped and the run ends "unhandled".
  - `raise` is `runtimeError`; with `Exceptions` FALSE no exception is raised at all, and the run covers the exception-free programs.
  - The compiler's source is not in `src/`. Its contract appears as guards: `POP` never pops a captured local (the compiler emits `CLOSE_UPVALUE` for those); the callee and arguments of a call are fresh temporaries above the frame's locals; a handler's stack level is at most the current handler count; `POP_EXCEPTION_HANDLER` only lowers the count.
  - `captured` is a ghost: the slots the compiler knows to be captured.
- **`ClassModel`**: class declarations, member references, access by name and `FOREACH_INIT`.
  - The program is given by constants: each user class's declared superclass, fields, methods and the member references (`this.x`, `super.f`) its methods make, numbered in the order `RESOLVE_MEMBERS` receives them.
  - `Init` is what `registerBuiltins` leaves: `Object`, `Iterator`, `$MapIterator` and `Map`, with `registerStaticClass`'s `classId` products and copied methods. Base ids are distinct primes, as `primeGen` hands them out.
  - Actions are `CLASS`, `INHERIT`, `FIELD`, `METHOD`, `STATIC` and `RESOLVE_MEMBERS`, in the order a class declaration runs them. A name that `RESOLVE_MEMBERS` cannot resolve raises and abandons the class (it never becomes `usable`).
  - `METHOD` follows `defineMethod`: the constructor name fills `initializer` instead of the method table, and `hashCode`/`equals` also fill the fast slots `hashCodeM`/`equalsM`. `STATIC` follows `defineStatic`: the static's index is the number already defined.
  - `INVOKE`, `GET_PROPERTY`, `SET_PROPERTY` and `CALL` of a class are the by-name opcodes. Each records in `access` what the code reaches (`invoke`, `getProperty`, `setProperty`, `callClass`): a field, a bound method, a static, or an error. They change no class state.
  - `memberRefOp` is one of `GET_MEMBER_PROPERTY`, `SET_MEMBER_PROPERTY`, `GET_SUPER`, `MEMBER_INVOKE` and `SUPER_INVOKE`, run by a method of class `p` on an instance of a subclass `i`. It records the ref the opcode reads (`got`) and the one `p`'s slot names (`expected`). A read past the end of a `memberRefs` array is `Garbage`.
  - `FOREACH_INIT` follows the opcode: the direct test, else `iterator()` through `classOfValue` and `bindMethod`, and the result test. A user `iterator()` may return any instance, a non-instance or throw. It records the path, whether the value was accepted, whether `hasNext`/`next` bind, and the net stack effect.
- **`Scanner`**: `slox/lib/scanner.c`.
  - The state is the scanner struct: `src` (the source, a sequence of one-character strings with `NUL` past its end), `current` and `line`. `tokens` is the set of tokens made so far, each with its `from`/`to` positions, `line` and, for strings, the unescaped text. `comments` holds the block comments skipped. `status` says whether the compiler is still scanning.
  - One action, `scanToken`, is the whole of `scanToken()`: `skipWhitespace` (with the `WSS_SCAN`/`WSS_STAR` block-comment machine as the recursive `BlockComment`), then `advance()` and the token switch (`Lex`): identifiers and `identifierType`, numbers, one- and two-character operators, and `string()`.
  - `string()` is the recursive `string`: its `SCAN`/`ESCAPE` machine, which rewrites the literal in place in the code, builds the token's text as it goes.
  - `identifierType` keeps the code's shape: it reads `start[2]` whenever the identifier is longer than one character, and the `'h'` case under `'t'` falls into the `'r'` case.
  - A call made with `current` already past the terminator reads outside the source (undefined behaviour); the model stops the scan there with status `overrun`.
- **`ModuleImport`**: the `IMPORT` opcode and `import()` of `vm.c`.
  - The program is given by constants: the modules each body imports, in order (`Body`), which of those imports sit in a try block (`Guarded`), which modules cannot be loaded (`Missing`) or compiled (`Broken`), and which bodies throw after their imports (`Throwing`).
  - `frames` holds each frame's unit, position in its body and `slots`; `stack` holds the kinds of value on the operand stack (`fn`, `nil`, `exc`, and the `EXCEPTION_VAL` `sentinel`). `started` is a ghost counting body entries.
  - `IMPORT` has three branches: a load or compile failure raises; `call()` at `FRAMES_MAX` raises "Stack overflow" and `doCall()` returns the sentinel; otherwise the body starts in a nested `run()`. The registry test never succeeds, because nothing inserts into `vm->modules`.
  - `RETURN` ends a body (or the script); `THROW` raises in a `Throwing` body.
  - `throwException` takes the top value as the exception. If it is not an exception instance, the status becomes `undefined`. Otherwise `propagateException` runs; since each body has its own `run()`, it only looks at the top frame: a try block around the current import catches, the script ends `unhandled`, and a module frame is unrolled and `import()` pushes the sentinel.
- **`DataOps`**: the data opcodes of `run()` inside one frame, with values kept (unlike `CallStack`, which keeps only the stack height).
  - `stack` is the operand stack from the frame's callee slot up: the callee, `FixedArgs` parameters, `varArgs` extra arguments (what `adjustArgs` leaves), `NumLocals` locals, then temporaries. `heap` holds the arrays, tuples and maps made so far (type and items); a value `Ref(id)` points into it. A map's items are its table's live pairs in insertion order: `CloseTable`'s `Refinement` (checked in `close_table`) shows that the table implements exactly that `AbstractMap`, so `closeTableSet` and `closeTableGet` here are the abstract map's set and get. `upvals` are the closure's upvalues, as `GET_UPVALUE` and `SET_UPVALUE` reach them. `globals` is `vm->globalValues`, with `UNDEFINED_VAL` for a declared but undefined global. `status` becomes `raised` when `runtimeError` is called and `undefined` at a write below the frame.
  - Values are records tagged with their type: numbers from a small integer range, nil, booleans, one class value, property-name strings and object references. `Init` starts with an empty heap and a nil first local, or with a map from `InitMaps` held in the first local.
  - Each action is one opcode's case, its operands chosen with `\E`: the guards are the code's type tests and early returns, and the stores, pops and pushes are in the code's order. `GET_VARARG` and `SET_VARARG` index `slots[fixedArgs + index + 1]` unchecked, as the code does; a read outside the stack yields `Garbage`.
  - `UNPACK` is the code's loop as the recursive `unpackFrom` (counters `i` and `tIndex`, bound `numItems`), folded over the targets with `FoldLeft`; a target is a local (`slot + postArgs * varArgs`), an upvalue or a global.
  - `MAP_BUILD` sets its key/value operands into a new map in operand order; `MAP_GET` and `MAP_SET` are the by-name property access on a map; `INDEX` and `INDEX_STORE` take the map branch for a map and the array branch for an array, and raise for anything else.
  - The compiler's source is not in `src/`, so its contract is a pair of ghosts: `depth`, the number of temporaries the compiler counts above the locals (each opcode adds its stack effect), and `vals`, what the compiler means each variable to hold. The guard `operands(n)` is the compiler's promise that an opcode finds its `n` operands among the temporaries.
- **`HeapString`**: `HeapCString` of `slox/lib/object.c`.
  - `chars` is the buffer as a function from `0..capacity-1` to characters, `NUL` or `?` (never written). `length` and `capacity` are the struct fields. `appended` is a ghost: everything appended so far.
  - A formatted piece is abstracted to its text, a run of one letter; `vsnprintf` is modelled by what C99 says it does: it writes at most `n - 1` characters, then a NUL.
  - `addStringVFmt` has the code's two paths: format into the room left, or grow (to `GROW_CAPACITY` or the required capacity) and format again.

## Runs

| Run | Expect | What it shows |
|---|---|---|
| `close_table` (`MCCloseTable.cfg`) | pass | The table stays well formed and implements `AbstractMap` under every sequence of set/delete/get. |
| `close_overflow` (`MCCloseTableOverflow.cfg`) | violation | The in-place rehash TODO makes `closeTableSet` write past the entries array. |
| `rehash_fault` (`MCCloseTableRehashFault.cfg`) | violation | A stored key whose `hashCode` raises during a growing rehash makes `closeTableSet` write past the entries array. |
| `map_iterator` (`MCMapIterator.cfg`) | pass | An iterator driven as foreach drives it yields the live keys in insertion order and never repeats a key, whatever the body does to the map. |
| `call_stack_exc` (`MCCallStackExc.cfg`) | pass | With try blocks, throws and raised errors, the upvalue list stays sorted and frames stay nested. |
| `unwind_open_upvalues` (`MCCallStackUnwind.cfg`) | violation | Catching an exception lowers `stackTop` below upvalues that are still open. |
| `class_model` (`MCClassModel.cfg`) | pass | `instanceOf` agrees with the super-chain, inherited fields keep their offsets, `iterator()` results are only accepted when they are Iterator instances, and `INVOKE` on an instance or map reaches what `GET_PROPERTY` would. |
| `member_ref_index` (`MCClassModelMemberRefs.cfg`) | violation | An inherited method on a subclass instance reads the subclass's `memberRefs` slot. |
| `import_rethrow` (`MCModuleImport.cfg`) | violation | A module body that does not catch its exception makes `IMPORT` take the `EXCEPTION_VAL` sentinel as an exception instance. |
| `data_ops` (`MCDataOps.cfg`) | pass | `UNPACK` stores what spec.md 4.J says, `ARRAY_BUILD` keeps its operands' order, and indexed access on arrays stays in range or raises. |
| `data_maps` (`MCDataMaps.cfg`) | pass | Map literals keep the first occurrence's position and the last value, a store replaces a present key in place or appends a new one, and `UNPACK` into an upvalue stores what spec.md 4.J says. |
| `scanner` (`MCScanner.cfg`) | pass | Every token carries the line it starts on, string literals unescape exactly, and scanning always stops. |

Details of each run:

- **`close_table`** checks three properties:
  - `TypeOK`.
  - `ChainsWellFormed`: `count` equals the number of live cells; no key is live twice; every chain stays within `entriesCount`, and its live cells hash to its bucket; every live cell is on its bucket's chain.
  - `Refinement`.

  The hashes are chosen so that `k1` and `k2` collide at every size and `k4` collides with `k1` at size 4 but not 8. Both growth and chain surgery therefore happen.

  The constraint `TombstoneBound` (at most one tombstone) keeps the run out of the same-size rehash. It is the only state where the code is broken, and `close_overflow` covers it.
- **`close_overflow`** lifts that constraint. TLC finds seven steps to `entriesCount = 5 > tableSize = 4`: three insert/delete pairs, then inserts.
- **`rehash_fault`** gives `k3` a `hashCode` that may raise on any call and keeps the tombstone bound of `close_table`, so the in-place branch is never taken. It checks `EntriesWithinTable`. TLC finds seven steps: insert `k1`, delete it, insert `k1`, `k2` and `k3`, then insert `k4`. With three live entries out of four the table doubles, `k3`'s hash raises, `rehash` returns with the table unchanged, and the append writes `entries[4]`.
- **`map_iterator`** checks `IterationInInsertionOrder`: while `modCount` is unchanged, what the iterator has yielded, followed by the live keys from its index onwards, is exactly the map's keys in insertion order. It also checks `NoKeyYieldedTwice`, whose only defence is the `modCount` check. Reaching a repeat without that check needs an insert that triggers growth during iteration, which `MaxMods = 6` allows.
- **`call_stack_exc`** runs calls, closures, `CLOSE_UPVALUE`, `RETURN`, try blocks, throws and raised errors. It checks:
  - `CTypeOK`;
  - `OpenUpvaluesOrdered`: the list is strictly descending, so a slot is captured once and shared;
  - `FramesNested`: each bytecode frame's base is its callee slot, bases increase, and the top frame's base is at most `stackTop`.
- **`unwind_open_upvalues`** checks `OpenUpvaluesBelowTop`: while the script runs, every open upvalue's slot is below `stackTop` (spec.md 3). TLC finds six states: `PUSH_EXCEPTION_HANDLER` at level 1, two pushes, `CLOSURE` over slot 2, then `THROW`. The try block catches, the frame stays, and `propagateException` resets `stackTop` to 2 without `closeUpvalues`, so the upvalue of slot 2 is still open at the stack top. The unhandled exit also leaves upvalues open, but the script then ends, so the property does not count it.
- **`class_model`** declares `A`, `B : A`, `C : B`, `E : A` (whose `super.g` does not resolve) and `UI : Iterator` in every order the superclasses allow, and interleaves member-ref opcodes, the by-name opcodes and `FOREACH_INIT` over every value. `B` has an initializer, `A` a user `hashCode`, `E` a user `equals` and `C` a static `s`. It checks:
  - `ClassTypeOK`;
  - `InstanceOfIsSubclass`: `instanceOf(a, b)` iff `a` is on `b`'s super-chain (spec.md 8);
  - `FieldOffsetsConsistent`: offsets are `0..n-1`, and a subclass keeps the superclass's offsets, which is what lets `GET_MEMBER_PROPERTY` use the method class's offset on a subclass instance. The run's program declares no field twice along a chain (`A: x`, `B: y`, `C: z`); `FIELD` models `defineField`'s replacement of an inherited name, and the program that redeclares one breaks the property (see below);
  - `ForeachIteratorIsIterator`: a result of `iterator()` is accepted only if it is an Iterator instance;
  - `InvokeMatchesProperty`: on an instance, the map or nil, `INVOKE x.n(...)` reaches what `GET_PROPERTY x.n` followed by a call would: a field first, then a bound method of the class (`classOfValue`), otherwise an error. Dropping `invoke`'s fall-through from fields to methods breaks it.
- **`member_ref_index`**: `A`'s method calls `this.x()` on a `B` instance. `MEMBER_INVOKE` reads `B`'s slot 1, which is `B`'s `super.f`.
- **`import_rethrow`** runs a script that imports, inside a try block, a module whose body throws, a module that cannot be loaded, and a module that imports itself. It checks `ThrowsExceptionInstance`: whenever the dispatch loop reaches `throwException`, the top of the stack is an exception instance (spec.md 4.K). TLC finds it violated in four states: the body throws, the unroll leaves the exception at `retFrame->slots + 1`, `import()` pops it and pushes the sentinel, and `IMPORT` goes to `throwException` with the sentinel on top, where `AS_INSTANCE` reads garbage. The self-import reaches the same path through "Stack overflow" at `FRAMES_MAX`.
- **`data_ops`** runs every sequence of up to five opcodes (`MaxOps`) in a frame with no fixed parameter, a vararg pack of zero or one extra argument and one local, with one global. It checks:
  - `DTypeOK`;
  - `UnpackFollowsSpec`: on a stack laid out as compiled, each target of an `UNPACK` of one or two targets then holds what spec.md 4.J gives: a tuple's items in order and nil past its size, or the value itself in the first target and nil in the rest. Never advancing `tIndex` breaks it.
  - `ArrayBuildInOrder`: the new array's items are the `n` values that were on top, the deepest first, and the array replaces them. Reading `peek(vm, i - 1)`, which forgets the array pushed above the items, breaks it.
  - `IndexedAccessInBounds`: `INDEX` on an array and a number pushes the item at an index in `0..size-1` and raises for any other; `INDEX_STORE` changes exactly that item or raises. Accepting index `size` in `isValidArrayIndex` breaks it.
- **`data_maps`** runs every sequence of up to five opcodes in a frame with one local (nil, or the map `{"x": 0}`) and one upvalue, over the constants 0, 1 and `"x"`. It checks:
  - `MapBuildInOrder`: a new map's pairs are the literal's keys in first-occurrence order, each with the last value given for it, and the map replaces its operands. Reading each pair value-first breaks it.
  - `MapStoreFollowsSpec`: a store into an existing map (`MAP_SET` or `INDEX_STORE`) changes one key: a present key keeps its position and takes the stored value, a new key is appended, and every other pair is unchanged. A `closeTableSet` that appends without looking the key up breaks it.
  - `UnpackFollowsSpec`, now with upvalue targets. An `assign` that drops upvalue stores breaks it.
- **`scanner`** scans every source of at most 4 characters over `a 1 . / * = ! #` and newline, and every source of at most 5 characters over `" ' \ n x`. It checks:
  - `ScannerTypeOK`, including that every token other than EOF and an unterminated comment consumes at least one character;
  - `LineNumbersCounted`: a token's line is one plus the number of newlines before its first character;
  - `StringTokensUnescaped`: the text of a string token is the literal's characters with each escape replaced by the reference table `RefEscape` (`Unescape`);
  - `ScanStops`: the scan eventually reaches EOF or stops on an error.

Defects the model reproduces that no run asserts (they are listed as hazards in `PROJECT.json`):

- `next()` on an exhausted `$MapIterator` reads an uninitialised pointer (`mapIteratorNext`). `MapIterator`'s `NextReadsFoundEntry` states the requirement; `foreach` never makes that call, only user code does.
- `FOREACH_INIT` rejects Iterator-subclass instances such as `m.iterator()`: the swapped direct test fails, `$MapIterator` has no `iterator()`, and the opcode raises "Attempt to iterate non-iterable value". `ClassModel`'s `ForeachAcceptsIteratorInstances` states the requirement.
- `import()` never registers a module, so every import runs the body again (`ModuleImport`'s `BodyRunsOnce`, spec.md 4.L), and a module that imports itself recurses until "Stack overflow".
- A subclass that redeclares an inherited field gets a new offset: `inherit` copied the field at the superclass's offset (its shadow check never fires on the still-empty table), then `defineField` gives it `fields.count` and `tableSet` replaces the entry without raising the count, so the offset equals the field count, past the instance's values, while the superclass's methods use the old one. spec.md 7 lists field-shadows-super as a runtime error. `MCClassModelFieldShadow.cfg` (`B` declares `x` and `y`) checks `FieldOffsetsConsistent`, and TLC finds it violated in ten steps. It is not one of the project's runs, because a one-line declaration in a unit test reaches it.
- `SET_PROPERTY` has the sense of `setInstanceField`'s result inverted: assigning a declared field stores it and then raises "Undefined field", and assigning an undeclared one does nothing. `ClassModel`'s `SetPropertyStoresFields` fails in the initial state.
- `GET_PROPERTY` on a class value binds from the method table, while `INVOKE` on it calls a static: `A.s()` works and `var f = A.s;` does not. `ClassModel`'s `StaticsReachableByName` fails in the initial state.
- `inherit()` copies the method table but not the initializer or the `hashCode`/`equals` slots. `ClassModel`'s `FastSlotsFollowMethods` fails once `B` inherits `A`'s `hashCode`.
- `FOREACH_INIT` over `Object()` takes the direct path (the swapped test passes) and leaves the value on the stack, while `foreach` over a map pops it. `ClassModel`'s `foreach.delta` records both effects.
- In `identifierType`, the `'h'` case under `'t'` falls into the `'r'` case, so `thy` and `thue` scan as the keywords `try` and `true`. `Scanner`'s `KeywordsMatchTable` (the keyword list of spec.md 4.F) fails on them when the scan is run over identifiers of up to 4 letters from `t h i s r u e y`.
- `/*/` closes a block comment: `skipWhitespace` advances past the `/` only and reads the opener's `*` as content.
- A newline inside a string literal is not counted. With `\n` in the string alphabet, `LineNumbersCounted` fails.
- `INSTANCEOF` pushes no result when the value has no class (`classOfValue` returns NULL for nil, functions and tuples, since `classOf` has no `OBJ_TUPLE` case), so every slot the compiler counted after it is off by one. `DataOps`'s `StackHeightAsCompiled` fails on `nil instanceof C` in three steps.
- `GET_VARARG` and `SET_VARARG` do not check the index against the pack: `arguments[0] = v` with no extra argument overwrites the first local, and a negative index writes below the frame. `DataOps`'s `LocalsKeepValues` fails in three steps.
- `addStringVFmt` passes `capacity - length - 1` as `vsnprintf`'s size and then accepts `required <= available`, so a 7-letter piece into an empty capacity-8 buffer keeps 6 letters while `length` becomes 7. `MCHeapString.cfg` checks `HeapString`'s `HoldsAppended` (the first `length` bytes are everything appended, then a NUL) and TLC finds it violated in one step; with `<` and `requiredCapacity + 1` in their places the property holds. It is not one of the project's runs, because one unit test reaches it.
- A native called at depth `FRAMES_MAX` takes a frame past the end of `vm->frames`: `callNative` pushes a frame without the `frameCount == FRAMES_MAX` check that `call()` makes. `MCCallStackNativeDepth.cfg` checks `CallStack`'s `FrameCountWithinBound` and TLC finds three nested calls then a native call. It is not one of the project's runs, because one unit test reaches it.
- On an unterminated string, `string()` leaves `current` one past the terminator, and the next `scanToken()` reads outside the source (status `overrun`).

## Bounds

| Constant | Value | Why it is enough |
|---|---|---|
| `InitialSize` | 4 (8 in the code, rehash line 75) | Growth and the full-of-tombstones case need `InitialSize + 1` inserts. With 8 the state space is out of reach. Every branch of `rehash` and `closeTableSet` depends only on the ratio, so 4 shows the same cases. |
| `MaxMods` | 8 for the table, 6 for the iterator | Bounds `modCount`, and with it the number of structural changes. Six suffice for a rehash during iteration. |
| Keys | four storable keys and one whose hash fails; in `rehash_fault` one storable key may also fail | A doubling rehash needs four live keys at size 4, and one of them must have a hash that fails. |
| Values | two values, one for the iterator | The value is never compared. |
| Iterators | one | Two iterators over one map do not interact: each has its own `current` and snapshot. |
| `FRAMES_MAX` | 3 (64 in the code) | Three frames allow a call inside a call, the overflow at the bound, and unwinding across frames. |
| `MAX_CATCH_HANDLER_FRAMES` | 2 | Nested try blocks and the handler-overflow error. |
| `MaxStack` | 5 | Enough for a callee, an argument, a captured local and a try level in one frame, plus a nested call. Seven was beyond the time budget. |
| `MaxArgs` | 1 | Padding (argCount < arity), exact calls and varargs trimming all occur with 0 or 1 argument. |
| Classes | four builtins, five user classes | A three-level chain (`C : B : A`) for `instanceOf` and field offsets; a class whose super ref fails; a user Iterator subclass. |
| Scanner sources | length 4 over 9 characters; length 5 over 5 string characters | Every token kind, `//` and `/* */` comments (closed, unclosed, and `*` before a newline), both delimiters, every escape and a bad one, fit in these lengths. |
| Imports | three modules, `FRAMES_MAX` 4 | One body throws, one cannot be loaded, one imports itself; four frames reach the overflow in the nested `run()`. |
| Heap strings | capacity 8, pieces of 0-9 letters over `a b`, total length 18 | Pieces that fit, exactly fill, and overflow the room, and growth by doubling and to the required size. |
| Data opcodes | at most 5 opcodes (`MaxOps`), no fixed parameter, 0-1 extra arguments, 1 local, 1 global, arrays of up to 2 items, 1 object (`MaxObjects`), map literals of up to 1 pair, no upvalue, numbers -2..2, constants -1, 0, 1, nil and a class | Five opcodes are enough to build a two-item tuple and unpack it into two targets, to index both ends and one past each end, and to reach a vararg index of -1 and -2. Every branch of every modelled opcode fires. |
| Data maps | at most 5 opcodes, 1 local that is nil or `{"x": 0}`, 1 upvalue, map literals of up to 2 pairs (`MaxPairs`), 2 objects, 4 temporaries, constants 0, 1, `"x"` | Two pairs allow a repeated key in one literal and two key types; the initial map lets a store hit a present key and a new key within five opcodes; the upvalue is a target of a two-target `UNPACK`. |
| Member refs | at most 2 per class | Enough for a super ref and a field ref to take different slot numbers in a superclass and a subclass. |

## Fairness and liveness

The table, iterator, call stack, class, import, data-opcode and string models are user-driven call sequences, and the code owes them no progress. They assume no fairness.

The scanner is different: the compiler calls `scanToken()` until it gets `EOF`, including after error tokens. `Scanner`'s `Spec` therefore has weak fairness on `scanToken`, and `ScanStops` checks that scanning ends. A `scanToken` that consumed nothing would loop forever, and this is what the `advanced_none` mutant shows.

## Not modelled, and why

- **Compiler, GC, chunk, value and string table**: their sources (`compiler.c`, `memory.c`, `chunk.c`, `value.c`, `table.c`) are not in `src/`. Where a modelled part depends on what the compiler emits (for example the handler level operands), the model lets the operand range over every value the VM accepts.
- **Object allocation, interning and printing** (`slox/lib/object.c` apart from `HeapCString`): allocation and the string table are in `memory.c` and `table.c`, which are not in `src/`; printing is formatting.
- **Native builtins** (`print`, `assert`, `toString`, `hashCode`, the string natives in `string.c`) and **`elox.c`** (REPL/CLI): formatting and I/O, with no state a property tells apart.
- **Data opcodes not in `DataOps`**: `EQUAL` compares with `valuesEqual` of `value.c`, which is not in `src/`. `DIVIDE` and `MODULO` produce fractions, infinities and NaN, and string `ADD` concatenates, none of which the model's integer values and name strings represent faithfully. A key whose user `hashCode` or `equals` raises inside `MAP_*`/`INDEX*` is `CloseTable`'s fault model (`rehash_fault`); `DataOps`'s keys are numbers and strings, whose hash and equality never raise. Jumps and loops are the compiled program's control flow; the model runs every order of opcodes instead. The conversion `(int)AS_NUMBER` of an index is not modelled, because the model's numbers are integers.
- **`freeCloseTable`, `markCloseTable`**: end-of-life and a read-only GC walk.

## Plan

The most important behaviour comes first:

1. The deterministic table and the map iterator. Done.
2. **CallStack**. Done. Still open: `ensureStack` (relocation and capacity growth), and the `handlingException` double fault.
3. **ClassModel**. Done, including `STATIC`, initializers, the fast slots and access by name. Still open: `ANON_CLASS` and `SUPER_INIT`.
4. **ModuleImport**: `import` against spec.md 4.L. Done. Still open: the compile-time parts of an import (resolving the module's global names).
5. **Scanner**. Done. The token stream as a whole (the compiler's parse) is out of reach, as its source is not in `src/`.
6. **HeapString**. Done.
7. **DataOps**: the data opcodes with values. Done for locals, varargs, globals, upvalues, arithmetic, arrays, maps and `UNPACK`. Still open: composing it with `CallStack`'s frames, which together exceed the time budget.
