---------------------------- MODULE AbstractMap ----------------------------
(***************************************************************************)
(* What the deterministic hash table promises (spec.md 4.C): a map from    *)
(* keys to values whose iteration order is insertion order, a counter     *)
(* bumped on every structural change (insert of a new key or delete), and *)
(* the outcome of the last operation.  Keys whose user-defined hashCode    *)
(* raises make every operation that has to hash them fail.                 *)
(***************************************************************************)
EXTENDS Naturals, Sequences, SequencesExt

CONSTANTS
  Keys,         \* keys that can be stored
  Values,       \* values that can be stored
  FailingKeys,  \* keys whose hashing raises an exception
  MaxMods,      \* bound on the modification counter
  Absent, Inserted, Updated, Deleted, Error, None  \* operation outcomes

VARIABLES
  items,        \* sequence of <<key, value>> in insertion order
  modCount,     \* structural modification counter
  ret           \* outcome of the last operation

avars == <<items, modCount, ret>>

KeysOf(s) == [i \in 1..Len(s) |-> s[i][1]]

HasKey(k) == \E i \in 1..Len(items) : items[i][1] = k

IndexOfKey(k) == CHOOSE i \in 1..Len(items) : items[i][1] = k

Init ==
  /\ items = <<>>
  /\ modCount = 0
  /\ ret = None

MapSet(k, v) ==
  \/ /\ k \in FailingKeys
     /\ ret' = Error
     /\ UNCHANGED <<items, modCount>>
  \/ /\ k \notin FailingKeys
     /\ HasKey(k)
     /\ items' = [items EXCEPT ![IndexOfKey(k)] = <<k, v>>]
     /\ ret' = Updated
     /\ UNCHANGED modCount
  \/ /\ k \notin FailingKeys
     /\ ~HasKey(k)
     /\ modCount < MaxMods
     /\ items' = Append(items, <<k, v>>)
     /\ modCount' = modCount + 1
     /\ ret' = Inserted

\* An empty map answers "absent" without hashing the key.
MapDelete(k) ==
  \/ /\ items = <<>>
     /\ ret' = Absent
     /\ UNCHANGED <<items, modCount>>
  \/ /\ items /= <<>>
     /\ k \in FailingKeys
     /\ ret' = Error
     /\ UNCHANGED <<items, modCount>>
  \/ /\ items /= <<>>
     /\ k \notin FailingKeys
     /\ ~HasKey(k)
     /\ ret' = Absent
     /\ UNCHANGED <<items, modCount>>
  \/ /\ k \notin FailingKeys
     /\ HasKey(k)
     /\ modCount < MaxMods
     /\ items' = RemoveAt(items, IndexOfKey(k))
     /\ modCount' = modCount + 1
     /\ ret' = Deleted

MapGet(k) ==
  /\ ret' = CASE items = <<>>        -> Absent
              [] k \in FailingKeys   -> Error
              [] HasKey(k)           -> items[IndexOfKey(k)][2]
              [] OTHER               -> Absent
  /\ UNCHANGED <<items, modCount>>

Next ==
  \E k \in Keys :
    \/ \E v \in Values : MapSet(k, v)
    \/ MapDelete(k)
    \/ MapGet(k)

Spec == Init /\ [][Next]_avars
=============================================================================
