------------------------------ MODULE HashMap ------------------------------
(***************************************************************************)
(* The hash map of librobinhood (librobinhood/src/hashmap.c): an array of  *)
(* items with open addressing and linear probing.  Removing an item moves  *)
(* back the items that it displaced, around the end of the array too.      *)
(*                                                                         *)
(* rbh_hashmap_pop is one action for the lookup and one for each call of   *)
(* the recursive hashmap_pop, with hole the slot being emptied.  No other  *)
(* call comes in between: the map has one user.                            *)
(***************************************************************************)
EXTENDS Integers

CONSTANTS Key, Value,
          count,    \* number of slots
          HashFns,  \* the hash functions a user may give
          NoItem    \* an item whose key is NULL

ASSUME CountAssumption == count \in Nat \ {0}
ASSUME HashAssumption == HashFns \subseteq [Key -> Nat]
ASSUME NoItemAssumption == NoItem \notin Key \X Value
ASSUME ResultAssumption == {"ok", "ENOENT", "ENOBUFS"} \cap Value = {}

Slot == 0 .. count - 1
NoSlot == -1

\* A choice of HashFns: every hash function onto the slots.
AllHashFns == [Key -> Slot]

VARIABLES hash, items, hole, result

vars == <<hash, items, hole, result>>

Init ==
    /\ hash \in HashFns
    /\ items = [s \in Slot |-> NoItem]
    /\ hole = NoSlot
    /\ result = "ok"

-----------------------------------------------------------------------------
KeyOf(s) == items[s][1]

\* _hashmap_key2slot: the ideal position of a key.
Ideal(k) == hash[k] % count

\* The slots that the two loops visit from slot low, before they visit s.
Probed(low, s) ==
    IF low <= s THEN low .. s - 1 ELSE (low .. count - 1) \cup (0 .. s - 1)

\* hashmap_key2slot stops at the first slot that is free or has the key.
Accepts(s, k) == items[s] # NoItem => KeyOf(s) = k

IsSlotOf(s, k) ==
    /\ Accepts(s, k)
    /\ \A t \in Probed(Ideal(k), s) : ~Accepts(t, k)

NoSlotFor(k) == \A s \in Slot : ~Accepts(s, k)

NotFound(k) == \/ NoSlotFor(k)
               \/ \E s \in Slot : IsSlotOf(s, k) /\ items[s] = NoItem

Set(k, v) ==
    /\ hole = NoSlot
    /\ \E s \in Slot : /\ IsSlotOf(s, k)
                       /\ items' = [items EXCEPT ![s] = <<k, v>>]
    /\ result' = "ok"
    /\ UNCHANGED <<hash, hole>>

SetFull(k) ==
    /\ hole = NoSlot /\ NoSlotFor(k)
    /\ result' = "ENOBUFS"
    /\ UNCHANGED <<hash, items, hole>>

Get(k) ==
    /\ hole = NoSlot
    /\ \E s \in Slot : /\ IsSlotOf(s, k) /\ items[s] # NoItem
                       /\ result' = items[s][2]
    /\ UNCHANGED <<hash, items, hole>>

\* rbh_hashmap_get and rbh_hashmap_pop of a key that is not there.
Missing(k) ==
    /\ hole = NoSlot /\ NotFound(k)
    /\ result' = "ENOENT"
    /\ UNCHANGED <<hash, items, hole>>

Pop(k) ==
    /\ hole = NoSlot
    /\ \E s \in Slot : /\ IsSlotOf(s, k) /\ items[s] # NoItem
                       /\ hole' = s
                       /\ result' = items[s][2]
    /\ UNCHANGED <<hash, items>>

-----------------------------------------------------------------------------
(* hashmap_pop *)

\* Mutant: the end of the array is forgotten.
is_between_no_wrap(index, low, high) == low <= index /\ index <= high

\* Mutant: any item is moved.
is_between_always(index, low, high) == TRUE

\* Does one meet index when going from low to high, around the end if need be?
is_between(index, low, high) ==
    IF low <= high THEN low <= index /\ index <= high
                   ELSE low <= index \/ index <= high

\* The loops stop at the first slot that is free, or whose item would be better
\* placed in the hole.
Stops(i) ==
    /\ i # hole
    /\ items[i] # NoItem => is_between(hole, Ideal(KeyOf(i)), i)

FirstStop(i) == Stops(i) /\ \A t \in Probed(hole, i) : ~Stops(t)

\* Mutant: a free slot is moved as an item.
MoveBackAnything ==
    /\ hole # NoSlot
    /\ \E i \in Slot : /\ FirstStop(i)
                       /\ items' = [items EXCEPT ![hole] = items[i]]
                       /\ hole' = i
    /\ UNCHANGED <<hash, result>>

MoveBack ==
    /\ hole # NoSlot
    /\ \E i \in Slot : /\ FirstStop(i) /\ items[i] # NoItem
                       /\ items' = [items EXCEPT ![hole] = items[i]]
                       /\ hole' = i
    /\ UNCHANGED <<hash, result>>

Emptied ==
    /\ hole # NoSlot
    /\ \/ \A i \in Slot : ~Stops(i)
       \/ \E i \in Slot : FirstStop(i) /\ items[i] = NoItem
    /\ items' = [items EXCEPT ![hole] = NoItem]
    /\ hole' = NoSlot
    /\ UNCHANGED <<hash, result>>

-----------------------------------------------------------------------------
Call ==
    \E k \in Key : \/ SetFull(k) \/ Get(k) \/ Missing(k) \/ Pop(k)
                   \/ \E v \in Value : Set(k, v)

Next == Call \/ MoveBack \/ Emptied

\* A call that was made runs until it returns; nobody has to make one.
Spec == Init /\ [][Next]_vars /\ WF_vars(MoveBack \/ Emptied)

-----------------------------------------------------------------------------
Item == Key \X Value

\* Every variable has the type of the C object it stands for.
TypeOK ==
    /\ hash \in HashFns
    /\ items \in [Slot -> Item \cup {NoItem}]
    /\ hole \in Slot \cup {NoSlot}
    /\ hole # NoSlot => items[hole] # NoItem
    /\ result \in Value \cup {"ok", "ENOENT", "ENOBUFS"}

\* The slots whose item is in the map: not the one being emptied.
Used == {s \in Slot : s # hole /\ items[s] # NoItem}

\* A key has one slot, and no free slot comes before it when one looks for it:
\* what hashmap_pop has to restore ("We have to maintain the invariant").
Probing ==
    /\ \A s, t \in Used : KeyOf(s) = KeyOf(t) => s = t
    /\ \A s \in Used : \A t \in Probed(Ideal(KeyOf(s)), s) :
          items[t] # NoItem

\* Whatever collides with whatever, a hash map behaves as a map: get and pop
\* return the last value set for the key, a key that was popped or never set is
\* not found, and set fails only for a new key when all slots are taken.
Map == INSTANCE KeyValueMap
         WITH bindings <- {items[s] : s \in Used}, Capacity <- count

IsMap == Map!Spec

\* The recursion of hashmap_pop ends, in a full map too.
PopReturns == hole # NoSlot ~> hole = NoSlot
=============================================================================
