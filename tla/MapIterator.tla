----------------------------- MODULE MapIterator -----------------------------
(***************************************************************************)
(* The $MapIterator natives of src/elox/lib/builtins.c (mapIterator,      *)
(* mapIteratorHasNext, mapIteratorNext) running against one map whose     *)
(* table is modelled by CloseTable.  An iterator keeps the index it has   *)
(* reached in the entries array and a snapshot of modCount; user code may *)
(* set, delete and read the map between any two iterator calls, as the    *)
(* body of a foreach loop does.                                            *)
(***************************************************************************)
EXTENDS CloseTable

CONSTANTS
  Iterators,    \* iterator instances created over the map
  GuardedNext,  \* TRUE: next() is only called after hasNext() said TRUE,
                \* as the foreach loop does; FALSE: user code calls next()
  ModifiedError,  \* "Map modified during iteration"
  UninitRead      \* next() dereferenced the uninitialised entry pointer

VARIABLES
  created,      \* created[it]: mapIterator() has returned it
  current,      \* current[it]: its "current" field
  snapshot,     \* snapshot[it]: its "modCount" field
  yielded       \* history: keys returned by next(), in order

ivars == <<created, current, snapshot, yielded>>
vars == <<tvars, ivars>>

(***************************************************************************)
(* closeTableGetNext(start): the first live cell at or after start; the   *)
(* result is one past its index, -1 when there is none or start < 0.      *)
(***************************************************************************)
\* Mutant: the scan does not skip tombstones (cells whose key is UNDEFINED).
closeTableGetNext_withTombstones(start) ==
  LET live == {i \in 0..entriesCount - 1 : i >= start}
  IN  IF start < 0 \/ live = {} THEN -1 ELSE Min(live) + 1

closeTableGetNext(start) ==
  LET live == {i \in 0..entriesCount - 1 : i >= start /\ entries[i].key /= Undef}
  IN  IF start < 0 \/ live = {} THEN -1 ELSE Min(live) + 1

IInit ==
  /\ Init
  /\ created = [it \in Iterators |-> FALSE]
  /\ current = [it \in Iterators |-> 0]
  /\ snapshot = [it \in Iterators |-> 0]
  /\ yielded = [it \in Iterators |-> <<>>]

\* mapIterator(): a fresh iterator at index 0 with the map's modCount.
mapIterator(it) ==
  /\ ~created[it]
  /\ created' = [created EXCEPT ![it] = TRUE]
  /\ current' = [current EXCEPT ![it] = 0]
  /\ snapshot' = [snapshot EXCEPT ![it] = modCount]
  /\ UNCHANGED <<tvars, yielded>>

\* mapIteratorHasNext(): whether a live entry remains; modCount not checked.
mapIteratorHasNext(it) ==
  /\ created[it]
  /\ ret' = (closeTableGetNext(current[it]) >= 0)
  /\ UNCHANGED <<entries, tableSize, entriesCount, count, modCount, ivars>>

\* Mutant: next() never compares the stored modCount with the map's.
unmodified_noCheck(it) == TRUE

\* The check "iter->modCount == map->modCount" of mapIteratorNext().
unmodified(it) == snapshot[it] = modCount

(***************************************************************************)
(* mapIteratorNext(): raise if modCount moved since creation; otherwise   *)
(* store the next index and return <<key, value>> of the entry found.     *)
(* When none is found the code still stores -1 and reads entry->key       *)
(* through a pointer closeTableGetNext never set.                         *)
(***************************************************************************)
mapIteratorNext(it) ==
  LET nextIndex == closeTableGetNext(current[it])
  IN
  /\ created[it]
  /\ GuardedNext => nextIndex >= 0
  /\ \/ /\ ~unmodified(it)
        /\ ret' = ModifiedError
        /\ UNCHANGED ivars
     \/ /\ unmodified(it)
        /\ nextIndex >= 0
        /\ current' = [current EXCEPT ![it] = nextIndex]
        /\ ret' = <<entries[nextIndex - 1].key, entries[nextIndex - 1].value>>
        /\ yielded' = [yielded EXCEPT ![it] = Append(@, entries[nextIndex - 1].key)]
        /\ UNCHANGED <<created, snapshot>>
     \/ /\ unmodified(it)
        /\ nextIndex < 0
        /\ current' = [current EXCEPT ![it] = nextIndex]
        /\ ret' = UninitRead
        /\ UNCHANGED <<created, snapshot, yielded>>
  /\ UNCHANGED <<entries, tableSize, entriesCount, count, modCount>>

INext ==
  \/ Next /\ UNCHANGED ivars
  \/ \E it \in Iterators :
       \/ mapIterator(it)
       \/ mapIteratorHasNext(it)
       \/ mapIteratorNext(it)

ISpec == IInit /\ [][INext]_vars

-----------------------------------------------------------------------------
ITypeOK ==
  /\ TypeOK
  /\ created \in [Iterators -> BOOLEAN]
  /\ current \in [Iterators -> -1..tableSize]
  /\ snapshot \in [Iterators -> 0..MaxMods]
  /\ yielded \in [Iterators -> Seq(Keys)]

LiveKeysFrom(start) ==
  LET L == LiveIndices(entries, entriesCount)
      S == SelectSeq(L, LAMBDA i : i >= start)
  IN  [j \in 1..Len(S) |-> entries[S[j]].key]

(***************************************************************************)
(* An iterator over a map nobody has structurally changed since it was    *)
(* created has returned a prefix of the map's keys in insertion order,    *)
(* and what lies at or after its index is exactly the rest (spec.md 8:    *)
(* iteration yields the live keys in insertion order).                    *)
(***************************************************************************)
IterationInInsertionOrder ==
  \A it \in Iterators :
    (created[it] /\ snapshot[it] = modCount /\ current[it] >= 0) =>
      yielded[it] \o LiveKeysFrom(current[it]) = Abs!KeysOf(AbsItems)

(***************************************************************************)
(* No iterator returns the same key twice, whatever user code does to the *)
(* map between calls: a rehash compacts the entries array under the       *)
(* iterator's index, and only the modCount check keeps next() from        *)
(* walking the moved entries again.                                       *)
(***************************************************************************)
NoKeyYieldedTwice ==
  \A it \in Iterators :
    \A i, j \in 1..Len(yielded[it]) : i < j => yielded[it][i] /= yielded[it][j]

(***************************************************************************)
(* next() only returns entries it found: it never dereferences the entry  *)
(* pointer closeTableGetNext leaves unset when the map is exhausted.      *)
(***************************************************************************)
NextReadsFoundEntry == ret /= UninitRead
=============================================================================
