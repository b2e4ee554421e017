----------------------------- MODULE CloseTable -----------------------------
(***************************************************************************)
(* The deterministic (Tyler Close / Orendorff) hash table of               *)
(* src/elox/lib/CloseTable.c, the storage of every map and of the global  *)
(* name table.  One table: the entries array, whose first tableSize cells *)
(* also hold the bucket chain heads, and its counters.  Keys and values   *)
(* are model values; a key's hash is the constant Hash[k], and the keys   *)
(* of FailingKeys have a user hashCode that raises, so hashValue sets     *)
(* execCtx->error for them.  The keys of FlakyKeys have a user hashCode   *)
(* that may raise on any call (it reads state the program changes).       *)
(***************************************************************************)
EXTENDS Integers, Sequences, SequencesExt, FiniteSets

CONSTANTS
  Keys,          \* keys callers store
  Values,        \* values callers store
  FailingKeys,   \* keys whose hashValue raises
  FlakyKeys,     \* keys whose hashValue may raise on any call
  Hash,          \* Hash[k]: the 32-bit hash of key k (small naturals here)
  InitialSize,   \* size rehash picks for an empty table (8 in the code)
  MaxMods,       \* bound on modCount, i.e. on inserts plus deletes
  Undef,         \* UNDEFINED_VAL: the key of a tombstone / unwritten cell
  Absent, Inserted, Updated, Deleted, Error, None  \* outcomes of a call

ASSUME FailingKeys \subseteq Keys /\ FlakyKeys \subseteq Keys \ FailingKeys
ASSUME Hash \in [Keys -> Nat]
ASSUME \E n \in 1..8 : InitialSize = 2^n
ASSUME Undef \notin Keys \cup Values

VARIABLES
  entries,       \* table->entries: [0..tableSize-1 -> Entry]
  tableSize,     \* table->tableSize, 0 or a power of two
  entriesCount,  \* table->entriesCount, cells written since the last rehash
  count,         \* table->count, live entries
  modCount,      \* table->modCount
  ret            \* return value of the last call (error flag folded in)

tvars == <<entries, tableSize, entriesCount, count, modCount, ret>>

Entry == [key : Keys \cup {Undef}, value : Values \cup {Undef},
          next : Int, chain : Int]

\* keyHash & (tableSize - 1), tableSize being a power of two
Bucket(k, size) == Hash[k] % size

\* Indices met walking a chain from idx along next; fuel bounds the walk so
\* that a cyclic chain yields a finite (and then too long) sequence.
RECURSIVE ChainFrom(_, _, _)
ChainFrom(ents, idx, fuel) ==
  IF idx < 0 \/ fuel = 0 THEN <<>>
  ELSE <<idx>> \o ChainFrom(ents, ents[idx].next, fuel - 1)

\* lookup(): the first entry on k's bucket chain whose key equals k, or -1.
lookup(k) ==
  LET chain == ChainFrom(entries, entries[Bucket(k, tableSize)].chain,
                         tableSize + 1)
      hits  == {j \in 1..Len(chain) : entries[chain[j]].key = k}
  IN  IF hits = {} THEN -1 ELSE chain[Min(hits)]

\* The key is present; an empty table is never searched.
Found(k) == count > 0 /\ lookup(k) >= 0

\* Indices of the live (non-tombstone) cells below entriesCount, in order.
LiveIndices(ents, ec) ==
  SelectSeq([j \in 1..ec |-> j - 1], LAMBDA i : ents[i].key /= Undef)

\* Mutant: the new cells are bucketed with the old table->tableSize.
rehash_oldSizeBuckets(newSize0) ==
  LET newSize == IF newSize0 = 0 THEN InitialSize ELSE newSize0
      L       == LiveIndices(entries, entriesCount)
      n       == Len(L)
      B(q)    == Bucket(entries[L[q + 1]].key, tableSize)
      Newest(S) == IF S = {} THEN -1 ELSE Max(S)
  IN  IF newSize = tableSize
      THEN [ents |-> entries, size |-> tableSize, ec |-> entriesCount]
      ELSE [ents |-> [q \in 0..newSize - 1 |->
                       [key   |-> IF q < n THEN entries[L[q + 1]].key ELSE Undef,
                        value |-> IF q < n THEN entries[L[q + 1]].value ELSE Undef,
                        next  |-> IF q < n
                                  THEN Newest({p \in 0..q - 1 : B(p) = B(q)})
                                  ELSE -1,
                        chain |-> Newest({p \in 0..n - 1 : B(p) = q})]],
            size |-> newSize,
            ec   |-> count]

(***************************************************************************)
(* rehash(): the new array gets the live entries in their old order, each *)
(* pushed on the front of its bucket chain.  A call with the current size *)
(* is the in-place branch, which the code leaves as "TODO: implement" and *)
(* so changes nothing.  Returns the resulting table.                      *)
(***************************************************************************)
rehash(newSize0) ==
  LET newSize == IF newSize0 = 0 THEN InitialSize ELSE newSize0
      L       == LiveIndices(entries, entriesCount)
      n       == Len(L)
      B(q)    == Bucket(entries[L[q + 1]].key, newSize)
      Newest(S) == IF S = {} THEN -1 ELSE Max(S)
  IN  IF newSize = tableSize
      THEN [ents |-> entries, size |-> tableSize, ec |-> entriesCount]
      ELSE [ents |-> [q \in 0..newSize - 1 |->
                       [key   |-> IF q < n THEN entries[L[q + 1]].key ELSE Undef,
                        value |-> IF q < n THEN entries[L[q + 1]].value ELSE Undef,
                        next  |-> IF q < n
                                  THEN Newest({p \in 0..q - 1 : B(p) = B(q)})
                                  ELSE -1,
                        chain |-> Newest({p \in 0..n - 1 : B(p) = q})]],
            size |-> newSize,
            ec   |-> count]

(***************************************************************************)
(* rehash() returns as soon as hashValue of a stored key sets             *)
(* execCtx->error: the half-built new array is dropped and the table is   *)
(* left as it was.  Only the branch that builds a new array hashes keys.  *)
(***************************************************************************)
rehashAborts(newSize0) ==
  /\ (IF newSize0 = 0 THEN InitialSize ELSE newSize0) /= tableSize
  /\ \E i \in 0..entriesCount - 1 : entries[i].key \in FlakyKeys

Init ==
  /\ entries = [i \in {} |-> CHOOSE e \in Entry : TRUE]
  /\ tableSize = 0
  /\ entriesCount = 0
  /\ count = 0
  /\ modCount = 0
  /\ ret = None

(***************************************************************************)
(* closeTableSet(): hash the key, overwrite its value if present,         *)
(* otherwise bump modCount, rehash when the array is full (doubling when  *)
(* count >= 0.75 * tableSize), and append a cell linked at the head of    *)
(* its bucket's chain.  A write at index tableSize falls outside the      *)
(* array; the model keeps only the part of it that lands inside.  The     *)
(* error of an aborted rehash is not tested: the append goes on.          *)
(***************************************************************************)
\* Mutant: count++ placed before the existing-key check, so an overwrite
\* also counts as a new entry.
setOverwrite_countBump(k, v) ==
  /\ entries' = [entries EXCEPT ![lookup(k)].value = v]
  /\ count' = count + 1
  /\ ret' = Updated
  /\ UNCHANGED <<tableSize, entriesCount, modCount>>

\* The key is already present: its value is overwritten in place.
setOverwrite(k, v) ==
  /\ entries' = [entries EXCEPT ![lookup(k)].value = v]
  /\ ret' = Updated
  /\ UNCHANGED <<tableSize, entriesCount, count, modCount>>

\* A new key: modCount++, rehash if full, append and link the new cell.
setAppend(k, v) ==
  /\ modCount < MaxMods
  /\ LET same    == [ents |-> entries, size |-> tableSize, ec |-> entriesCount]
         newSize == IF 4 * count >= 3 * tableSize THEN 2 * tableSize ELSE tableSize
         Tables  == IF entriesCount /= tableSize THEN {same}
                    ELSE {rehash(newSize)} \cup (IF rehashAborts(newSize) THEN {same} ELSE {})
     IN  \E t \in Tables :
     LET idx == t.ec
         b   == Bucket(k, t.size)
     IN  /\ entries' = IF idx < t.size
                       THEN [t.ents EXCEPT ![idx].key = k, ![idx].value = v,
                                           ![idx].next = t.ents[b].chain,
                                           ![b].chain = idx]
                       ELSE [t.ents EXCEPT ![b].chain = idx]
         /\ tableSize' = t.size
         /\ entriesCount' = idx + 1
  /\ count' = count + 1
  /\ modCount' = modCount + 1
  /\ ret' = Inserted

closeTableSet(k, v) ==
  \/ /\ k \in FailingKeys \cup FlakyKeys
     /\ ret' = Error
     /\ UNCHANGED <<entries, tableSize, entriesCount, count, modCount>>
  \/ /\ k \notin FailingKeys
     /\ Found(k)
     /\ setOverwrite(k, v)
  \/ /\ k \notin FailingKeys
     /\ ~Found(k)
     /\ setAppend(k, v)

(***************************************************************************)
(* closeTableDelete(): an empty table answers false before hashing; a     *)
(* found entry becomes a tombstone (key UNDEFINED), chains untouched.     *)
(***************************************************************************)
\* Mutant: the delete path forgets modCount++.
deleteFound_noModCount(k) ==
  /\ entries' = [entries EXCEPT ![lookup(k)].key = Undef]
  /\ count' = count - 1
  /\ ret' = Deleted
  /\ UNCHANGED <<tableSize, entriesCount, modCount>>

\* The key was found: its cell becomes a tombstone.
deleteFound(k) ==
  /\ modCount < MaxMods
  /\ entries' = [entries EXCEPT ![lookup(k)].key = Undef]
  /\ count' = count - 1
  /\ modCount' = modCount + 1
  /\ ret' = Deleted
  /\ UNCHANGED <<tableSize, entriesCount>>

closeTableDelete(k) ==
  \/ /\ count = 0
     /\ ret' = Absent
     /\ UNCHANGED <<entries, tableSize, entriesCount, count, modCount>>
  \/ /\ count > 0
     /\ k \in FailingKeys \cup FlakyKeys
     /\ ret' = Error
     /\ UNCHANGED <<entries, tableSize, entriesCount, count, modCount>>
  \/ /\ count > 0
     /\ k \notin FailingKeys
     /\ lookup(k) < 0
     /\ ret' = Absent
     /\ UNCHANGED <<entries, tableSize, entriesCount, count, modCount>>
  \/ /\ count > 0
     /\ k \notin FailingKeys
     /\ lookup(k) >= 0
     /\ deleteFound(k)

\* closeTableGet(): the value stored for k, Absent, or the hashing error.
closeTableGet(k) ==
  /\ \/ /\ count > 0 /\ k \in FlakyKeys
        /\ ret' = Error
     \/ ret' = CASE count = 0                -> Absent
              [] k \in FailingKeys        -> Error
              [] lookup(k) >= 0           -> entries[lookup(k)].value
              [] OTHER                    -> Absent
  /\ UNCHANGED <<entries, tableSize, entriesCount, count, modCount>>

Next ==
  \E k \in Keys :
    \/ \E v \in Values : closeTableSet(k, v)
    \/ closeTableDelete(k)
    \/ closeTableGet(k)

Spec == Init /\ [][Next]_tvars

-----------------------------------------------------------------------------
TypeOK ==
  /\ tableSize \in {0} \cup {InitialSize * 2^i : i \in 0..4}
  /\ entries \in [0..tableSize - 1 -> Entry]
  /\ entriesCount \in 0..tableSize + 1
  /\ count \in 0..entriesCount
  /\ modCount \in 0..MaxMods

(***************************************************************************)
(* The table shape the spec requires after every mutation (spec.md 3):    *)
(* the written prefix of the entries array never runs past the array.     *)
(* closeTableSet writes entries[entriesCount++] after a rehash that, in   *)
(* its unimplemented in-place branch, leaves a full array full.           *)
(***************************************************************************)
EntriesWithinTable == entriesCount <= tableSize

(***************************************************************************)
(* Bucket chains are sound and complete: walking the chain of bucket b    *)
(* stays below entriesCount and ends, every live cell on it hashes to b,  *)
(* every live cell is on its own bucket's chain, no key is live twice,    *)
(* and count is the number of live cells.  This is what lookup() relies   *)
(* on after inserts, tombstoning deletes and rehashes.                    *)
(***************************************************************************)
ChainsWellFormed ==
  LET live == {i \in 0..entriesCount - 1 : entries[i].key /= Undef}
      Walk(b) == ChainFrom(entries, entries[b].chain, tableSize + 1)
  IN  /\ count = Cardinality(live)
      /\ \A i, j \in live : i /= j => entries[i].key /= entries[j].key
      /\ \A b \in 0..tableSize - 1 :
           /\ Len(Walk(b)) <= entriesCount
           /\ \A j \in 1..Len(Walk(b)) :
                /\ Walk(b)[j] \in 0..entriesCount - 1
                /\ Walk(b)[j] \in live => Bucket(entries[Walk(b)[j]].key, tableSize) = b
      /\ \A i \in live :
           \E j \in 1..Len(Walk(Bucket(entries[i].key, tableSize))) :
              Walk(Bucket(entries[i].key, tableSize))[j] = i

(***************************************************************************)
(* Refinement: the table implements AbstractMap, the insertion-ordered    *)
(* map of spec.md 4.C, under the mapping that reads the live cells in     *)
(* index order.  Every Set, Delete and Get answers what the abstract map  *)
(* answers, and modCount moves exactly on inserts and deletes.            *)
(***************************************************************************)
AbsItems ==
  LET L == LiveIndices(entries, entriesCount)
  IN  [j \in 1..Len(L) |-> <<entries[L[j]].key, entries[L[j]].value>>]

Abs == INSTANCE AbstractMap WITH items <- AbsItems

Refinement == Abs!Spec
=============================================================================
