--------------------------- MODULE HashMapProofs ---------------------------
(***************************************************************************)
(* HashMap implements KeyValueMap, for any keys, values, number of slots   *)
(* and hash function.                                                      *)
(***************************************************************************)
EXTENDS HashMap, TLAPS, FiniteSetTheorems

Inv == TypeOK /\ Probing

\* The ideal position of a key is a slot (_hashmap_key2slot).
LEMMA IdealIsSlot ==
    ASSUME hash \in HashFns, NEW k \in Key
    PROVE  Ideal(k) \in Slot
<1>1. hash[k] \in Nat /\ count \in Nat /\ count > 0
  BY HashAssumption, CountAssumption
<1>2. \A n, c \in Nat : c > 0 => n % c \in 0 .. c - 1
  OBVIOUS
<1> QED
  BY <1>1, <1>2 DEF Ideal, Slot

\* The slots probed before a slot are slots, and not that slot.
LEMMA ProbedAreSlots ==
    ASSUME NEW low \in Slot, NEW s \in Slot
    PROVE  Probed(low, s) \subseteq Slot /\ s \notin Probed(low, s)
BY CountAssumption DEF Probed, Slot

\* Of two slots, one is probed before the other (the two loops of
\* hashmap_key2slot visit every slot once).
LEMMA ProbedOrder ==
    ASSUME NEW low \in Slot, NEW s \in Slot, NEW t \in Slot, s # t
    PROVE  s \in Probed(low, t) \/ t \in Probed(low, s)
BY CountAssumption DEF Probed, Slot

\* is_between is what it says: index is probed from low before high, or is high.
LEMMA BetweenIsProbed ==
    ASSUME NEW index \in Slot, NEW low \in Slot, NEW high \in Slot
    PROVE  is_between(index, low, high)
             <=> index = high \/ index \in Probed(low, high)
BY CountAssumption DEF is_between, Probed, Slot

\* What is probed before a slot on the way is probed before the end.
LEMMA ProbedPrefix ==
    ASSUME NEW low \in Slot, NEW mid \in Slot, NEW s \in Slot,
           mid \in Probed(low, s)
    PROVE  /\ Probed(low, mid) \subseteq Probed(low, s)
           /\ Probed(mid, s) \subseteq Probed(low, s)
BY CountAssumption DEF Probed, Slot

-----------------------------------------------------------------------------
(* What a lookup finds, when no slot is being emptied.                     *)

\* A key that is in the map is found, in its slot.
LEMMA FoundInItsSlot ==
    ASSUME Inv, hole = NoSlot, NEW k \in Key,
           NEW s \in Slot, items[s] # NoItem, KeyOf(s) = k,
           NEW t \in Slot, IsSlotOf(t, k)
    PROVE  t = s
<1>1. SUFFICES ASSUME t # s PROVE FALSE
  OBVIOUS
<1>2. Ideal(k) \in Slot
  BY IdealIsSlot DEF Inv, TypeOK
<1>3. s \in Used
  BY CountAssumption DEF Used, NoSlot, Slot
<1>4. CASE s \in Probed(Ideal(k), t)
  BY <1>4 DEF IsSlotOf, Accepts
<1>5. CASE t \in Probed(Ideal(k), s)
  <2>1. items[t] # NoItem
    BY <1>3, <1>5 DEF Inv, Probing
  <2>2. t \in Used /\ KeyOf(t) = k
    BY <2>1, CountAssumption DEF Used, NoSlot, Slot, IsSlotOf, Accepts
  <2> QED
    BY <1>1, <1>3, <2>2 DEF Inv, Probing
<1> QED
  BY <1>1, <1>2, <1>4, <1>5, ProbedOrder

\* An item has a key and a value.
LEMMA ItemParts ==
    ASSUME Inv, NEW s \in Slot, items[s] # NoItem
    PROVE  /\ KeyOf(s) \in Key /\ items[s][2] \in Value
           /\ items[s] = <<KeyOf(s), items[s][2]>>
BY DEF Inv, TypeOK, Item, KeyOf

-----------------------------------------------------------------------------
(* The invariant.                                                          *)

LEMMA InitInv == Init => Inv
BY CountAssumption DEF Init, Inv, TypeOK, Probing, Used, Slot, NoSlot

LEMMA SetInv ==
    ASSUME Inv, NEW k \in Key, NEW v \in Value, Set(k, v)
    PROVE  Inv'
<1>1. PICK s \in Slot : /\ IsSlotOf(s, k)
                        /\ items' = [items EXCEPT ![s] = <<k, v>>]
  BY DEF Set
<1>2. hole = NoSlot /\ hole' = hole /\ hash' = hash /\ result' = "ok"
  BY DEF Set
<1>3. \A t \in Slot : t # hole /\ t # hole'
  BY <1>2, CountAssumption DEF NoSlot, Slot
<1>4. <<k, v>> \in Item /\ <<k, v>> # NoItem /\ <<k, v>>[1] = k
  BY NoItemAssumption DEF Item
<1>5. TypeOK'
  BY <1>1, <1>2, <1>3, <1>4 DEF Inv, TypeOK
<1>6. items'[s] = <<k, v>> /\ \A t \in Slot : t # s => items'[t] = items[t]
  BY <1>1 DEF Inv, TypeOK
<1>7. ASSUME NEW t \in Slot, t # s, items[t] # NoItem
      PROVE  KeyOf(t) # k
  BY <1>1, <1>2, <1>7, FoundInItsSlot
<1>8. \A t, u \in Used' : KeyOf(t)' = KeyOf(u)' => t = u
  <2> SUFFICES ASSUME NEW t \in Used', NEW u \in Used', KeyOf(t)' = KeyOf(u)'
               PROVE  t = u
    OBVIOUS
  <2>1. \A x \in Used' : x = s \/ (x \in Used /\ items'[x] = items[x])
    BY <1>3, <1>6 DEF Used
  <2> QED
    BY <1>4, <1>6, <1>7, <2>1 DEF Inv, Probing, KeyOf, Used
<1>9. ASSUME NEW t \in Used', NEW u \in Probed(Ideal(KeyOf(t)), t)'
      PROVE  items'[u] # NoItem
  <2>1. CASE t = s
    <3>1. KeyOf(t)' = k /\ Ideal(KeyOf(t))' = Ideal(k) /\ Ideal(k) \in Slot
      BY <1>2, <1>4, <1>6, <2>1, IdealIsSlot DEF KeyOf, Ideal, Inv, TypeOK
    <3>2. u \in Probed(Ideal(k), s)
      BY <1>9, <2>1, <3>1 DEF Probed
    <3>3. u \in Slot /\ u # s /\ ~Accepts(u, k)
      BY <1>1, <3>1, <3>2, ProbedAreSlots DEF IsSlotOf
    <3> QED
      BY <1>6, <3>3 DEF Accepts
  <2>2. CASE t # s
    <3>1. t \in Used /\ items'[t] = items[t] /\ KeyOf(t) \in Key
      BY <1>3, <1>6, <2>2, ItemParts DEF Used
    <3>2. KeyOf(t)' = KeyOf(t) /\ Ideal(KeyOf(t)) \in Slot
      BY <3>1, IdealIsSlot DEF KeyOf, Inv, TypeOK
    <3>3. u \in Probed(Ideal(KeyOf(t)), t)
      BY <1>2, <1>9, <3>2 DEF Probed, Ideal
    <3>4. u \in Slot /\ items[u] # NoItem
      BY <3>1, <3>2, <3>3, ProbedAreSlots DEF Inv, Probing, Used
    <3> QED
      BY <1>4, <1>6, <3>4
  <2> QED
    BY <2>1, <2>2
<1> QED
  BY <1>5, <1>8, <1>9 DEF Inv, Probing

\* Calls that change no item.
LEMMA ReadInv ==
    ASSUME Inv, UNCHANGED <<hash, items>>, hole' = NoSlot, hole = NoSlot,
           result' \in Value \cup {"ok", "ENOENT", "ENOBUFS"}
    PROVE  Inv'
<1>1. Used' = Used /\ \A k, t : KeyOf(t)' = KeyOf(t) /\ Ideal(k)' = Ideal(k)
  BY DEF Used, KeyOf, Ideal
<1> QED
  BY <1>1 DEF Inv, TypeOK, Probing, Probed

LEMMA PopInv ==
    ASSUME Inv, NEW k \in Key, Pop(k)
    PROVE  Inv'
<1>1. PICK s \in Slot : /\ items[s] # NoItem /\ hole' = s
                        /\ result' = items[s][2]
  BY DEF Pop
<1>2. hash' = hash /\ items' = items /\ hole = NoSlot
  BY DEF Pop
<1>3. TypeOK'
  BY <1>1, <1>2, ItemParts DEF Inv, TypeOK
<1>4. Used' \subseteq Used
  BY <1>2, CountAssumption DEF Used, NoSlot, Slot
<1> QED
  BY <1>2, <1>3, <1>4 DEF Inv, Probing, KeyOf, Ideal, Probed

\* The item moved goes where the hole was, and every slot before that is used:
\* it comes before the item's old slot.
LEMMA MoveInv ==
    ASSUME Inv, MoveBack
    PROVE  Inv'
<1>1. PICK i \in Slot : /\ FirstStop(i) /\ items[i] # NoItem
                        /\ items' = [items EXCEPT ![hole] = items[i]]
                        /\ hole' = i
  BY DEF MoveBack
<1>2. hole \in Slot /\ hash' = hash /\ result' = result /\ i # hole
  BY <1>1 DEF MoveBack, Inv, TypeOK, FirstStop, Stops
<1>3. items'[hole] = items[i] /\ \A t \in Slot : t # hole => items'[t] = items[t]
  BY <1>1, <1>2 DEF Inv, TypeOK
<1>4. TypeOK'
  BY <1>1, <1>2, <1>3 DEF Inv, TypeOK
<1>5. i \in Used
  BY <1>1, <1>2 DEF Used
<1>6. \A t \in Used' : \/ t = hole /\ KeyOf(t)' = KeyOf(i)
                       \/ t # hole /\ t # i /\ t \in Used /\ KeyOf(t)' = KeyOf(t)
  BY <1>1, <1>2, <1>3 DEF Used, KeyOf
<1>7. \A t, u \in Used' : KeyOf(t)' = KeyOf(u)' => t = u
  BY <1>5, <1>6 DEF Inv, Probing
<1>8. ASSUME NEW t \in Used', NEW u \in Probed(Ideal(KeyOf(t)), t)'
      PROVE  items'[u] # NoItem
  <2>1. CASE t = hole
    <3> DEFINE low == Ideal(KeyOf(i))
    <3>1. low \in Slot
      BY <1>1, ItemParts, IdealIsSlot DEF Inv, TypeOK
    <3>2. Ideal(KeyOf(t))' = low
      BY <1>2, <1>6, <2>1 DEF Ideal
    <3>3. u \in Probed(low, hole)
      BY <1>8, <2>1, <3>2 DEF Probed
    <3>4. hole \in Probed(low, i)
      BY <1>1, <1>2, <3>1, BetweenIsProbed DEF FirstStop, Stops
    <3>5. u \in Probed(low, i) /\ u \in Slot /\ u # hole
      BY <1>2, <3>1, <3>3, <3>4, ProbedPrefix, ProbedAreSlots
    <3>6. items[u] # NoItem
      BY <1>5, <3>5 DEF Inv, Probing
    <3> QED
      BY <1>3, <3>5, <3>6
  <2>2. CASE t # hole
    <3>1. t \in Used /\ KeyOf(t)' = KeyOf(t)
      BY <1>6, <2>2
    <3>2. Ideal(KeyOf(t)) \in Slot
      BY <3>1, ItemParts, IdealIsSlot DEF Inv, TypeOK, Used
    <3>3. u \in Probed(Ideal(KeyOf(t)), t)
      BY <1>2, <1>8, <3>1 DEF Probed, Ideal
    <3>4. u \in Slot /\ items[u] # NoItem
      BY <3>1, <3>2, <3>3, ProbedAreSlots DEF Inv, Probing, Used
    <3> QED
      BY <1>1, <1>3, <3>4
  <2> QED
    BY <2>1, <2>2
<1> QED
  BY <1>4, <1>7, <1>8 DEF Inv, Probing

\* No item was displaced by the hole: the scan saw none before it met a free
\* slot, and none can be after a free slot.
LEMMA NoneDisplaced ==
    ASSUME Inv, Emptied, NEW s \in Used
    PROVE  hole \notin Probed(Ideal(KeyOf(s)), s)
<1> DEFINE low == Ideal(KeyOf(s))
<1>1. SUFFICES ASSUME hole \in Probed(low, s) PROVE FALSE
  OBVIOUS
<1>2. hole \in Slot /\ s \in Slot /\ s # hole /\ items[s] # NoItem
  BY DEF Emptied, Inv, TypeOK, Used
<1>3. low \in Slot
  BY <1>2, ItemParts, IdealIsSlot DEF Inv, TypeOK
<1>4. Stops(s)
  BY <1>1, <1>2, <1>3, BetweenIsProbed DEF Stops
<1>5. PICK i \in Slot : FirstStop(i) /\ items[i] = NoItem
  BY <1>2, <1>4 DEF Emptied
<1>6. i # s /\ s \notin Probed(hole, i) /\ i # hole
  BY <1>2, <1>4, <1>5 DEF FirstStop, Stops
<1>7. i \in Probed(hole, s)
  BY <1>2, <1>5, <1>6, ProbedOrder
<1>8. i \in Probed(low, s)
  BY <1>1, <1>2, <1>3, <1>7, ProbedPrefix
<1> QED
  BY <1>5, <1>8 DEF Inv, Probing

LEMMA EmptiedInv ==
    ASSUME Inv, Emptied
    PROVE  Inv'
<1>1. /\ hole \in Slot /\ hole' = NoSlot /\ hash' = hash /\ result' = result
      /\ items' = [items EXCEPT ![hole] = NoItem]
  BY DEF Emptied, Inv, TypeOK
<1>2. TypeOK'
  BY <1>1, CountAssumption DEF Inv, TypeOK, Slot, NoSlot
<1>3. \A t \in Slot : t # hole => items'[t] = items[t]
  BY <1>1 DEF Inv, TypeOK
<1>4. \A t \in Used' : t \in Used /\ KeyOf(t)' = KeyOf(t)
  BY <1>1, <1>3, CountAssumption DEF Used, KeyOf, Inv, TypeOK
<1>5. \A t, u \in Used' : KeyOf(t)' = KeyOf(u)' => t = u
  BY <1>4 DEF Inv, Probing
<1>6. ASSUME NEW t \in Used', NEW u \in Probed(Ideal(KeyOf(t)), t)'
      PROVE  items'[u] # NoItem
  <2>1. t \in Used /\ Ideal(KeyOf(t)) \in Slot
    BY <1>4, ItemParts, IdealIsSlot DEF Inv, TypeOK, Used
  <2>2. u \in Probed(Ideal(KeyOf(t)), t)
    BY <1>1, <1>4, <1>6 DEF Probed, Ideal
  <2>3. u \in Slot /\ u # hole /\ items[u] # NoItem
    BY <2>1, <2>2, ProbedAreSlots, NoneDisplaced DEF Inv, Probing, Used
  <2> QED
    BY <1>3, <2>3
<1> QED
  BY <1>2, <1>5, <1>6 DEF Inv, Probing

LEMMA NextInv == Inv /\ [Next]_vars => Inv'
<1> SUFFICES ASSUME Inv, [Next]_vars PROVE Inv'
  OBVIOUS
<1>1. CASE UNCHANGED vars
  BY <1>1 DEF vars, Inv, TypeOK, Probing, Used, KeyOf, Ideal, Probed
<1>2. ASSUME NEW k \in Key, NEW v \in Value, Set(k, v) PROVE Inv'
  BY <1>2, SetInv
<1>3. ASSUME NEW k \in Key, SetFull(k) \/ Missing(k) PROVE Inv'
  BY <1>3, ReadInv DEF SetFull, Missing
<1>4. ASSUME NEW k \in Key, Get(k) PROVE Inv'
  <2>1. result' \in Value
    BY <1>4, ItemParts DEF Get
  <2> QED
    BY <1>4, <2>1, ReadInv DEF Get
<1>5. ASSUME NEW k \in Key, Pop(k) PROVE Inv'
  BY <1>5, PopInv
<1>6. CASE MoveBack
  BY <1>6, MoveInv
<1>7. CASE Emptied
  BY <1>7, EmptiedInv
<1> QED
  BY <1>1, <1>2, <1>3, <1>4, <1>5, <1>6, <1>7 DEF Next, Call

\* Type correctness: the table holds items and free slots, and hashmap_pop, as it
\* moves items back around the end of the array, never leaves the array.
THEOREM TypeCorrect == Spec => []TypeOK
<1>1. Inv => TypeOK
  BY DEF Inv
<1> QED
  BY <1>1, InitInv, NextInv, PTL DEF Spec

\* No operation of the hash map breaks the order of probing: a key has one slot,
\* and no free slot comes before it (hashmap_pop).
THEOREM ProbingHolds == Spec => []Probing
<1>1. Spec => []Inv
  BY InitInv, NextInv, PTL DEF Spec
<1>2. Inv => Probing
  BY DEF Inv
<1> QED
  BY <1>1, <1>2, PTL

-----------------------------------------------------------------------------
(* The refinement: the bindings are the items of the slots in use.         *)

Bindings == {items[s] : s \in Used}

\* There are as many bindings as slots in use, and Capacity of them only when
\* every slot is.
LEMMA Counting ==
    ASSUME Inv, hole = NoSlot
    PROVE  /\ Used = Slot => Cardinality(Bindings) = count
           /\ Used # Slot => Cardinality(Bindings) < count
<1> DEFINE f == [s \in Used |-> items[s]]
<1>1. IsFiniteSet(Slot) /\ Cardinality(Slot) = count
  <2>1. 0 \in Int /\ count - 1 \in Int /\ ~(0 > count - 1)
    BY CountAssumption
  <2>2. (count - 1) - 0 + 1 = count
    BY CountAssumption
  <2> QED
    BY <2>1, <2>2, FS_Interval DEF Slot
<1>2. Used \in SUBSET Slot
  BY DEF Used
<1>3. IsFiniteSet(Used) /\ Cardinality(Used) <= count
      /\ (Cardinality(Used) = count => Used = Slot)
  BY <1>1, <1>2, FS_Subset
<1>4. \A s, t \in Used : items[s] = items[t] => s = t
  BY DEF Inv, Probing, KeyOf
<1>5. f \in Injection(Used, Bindings) /\ f \in Surjection(Used, Bindings)
  BY <1>4 DEF Bindings, Injection, Surjection, IsInjective
<1>6. Cardinality(Bindings) = Cardinality(Used)
  BY <1>3, <1>5, FS_Surjection
<1>7. Cardinality(Used) \in Nat
  BY <1>3, FS_CardinalityType
<1> QED
  BY <1>1, <1>3, <1>6, <1>7, CountAssumption

\* A key is bound just when a slot in use has it.
LEMMA BoundIsUsed ==
    ASSUME Inv, NEW k \in Key
    PROVE  Map!Bound(k) <=> \E s \in Used : KeyOf(s) = k
<1>1. ASSUME NEW s \in Used, KeyOf(s) = k PROVE Map!Bound(k)
  <2>1. items[s][2] \in Value /\ items[s] = <<k, items[s][2]>>
    BY <1>1, ItemParts DEF Used
  <2> QED
    BY <2>1 DEF Map!Bound
<1>2. ASSUME Map!Bound(k) PROVE \E s \in Used : KeyOf(s) = k
  <2>1. PICK v \in Value, s \in Used : items[s] = <<k, v>>
    BY <1>2 DEF Map!Bound
  <2> QED
    BY <2>1 DEF KeyOf
<1> QED
  BY <1>1, <1>2

\* A lookup that fails is right to fail.
LEMMA NotFoundIsUnbound ==
    ASSUME Inv, hole = NoSlot, NEW k \in Key, NotFound(k)
    PROVE  ~Map!Bound(k)
<1>1. SUFFICES ASSUME NEW s \in Used, KeyOf(s) = k PROVE FALSE
  BY BoundIsUsed
<1>2. s \in Slot /\ items[s] # NoItem /\ Accepts(s, k)
  BY <1>1 DEF Used, Accepts
<1>3. PICK t \in Slot : IsSlotOf(t, k) /\ items[t] = NoItem
  BY <1>2 DEF NotFound, NoSlotFor
<1> QED
  BY <1>1, <1>2, <1>3, FoundInItsSlot

\* Without its binding for a key, the map has the other slots' items.
LEMMA OthersOf ==
    ASSUME Inv, NEW k \in Key, NEW s \in Used, KeyOf(s) = k
    PROVE  Map!Others(k) = {items[t] : t \in Used \ {s}}
<1>1. \A t \in Used : KeyOf(t) = k => t = s
  BY DEF Inv, Probing
<1> QED
  BY <1>1 DEF Map!Others, KeyOf

LEMMA SetRefines ==
    ASSUME Inv, NEW k \in Key, NEW v \in Value, Set(k, v)
    PROVE  Map!Set(k, v)
<1>1. PICK s \in Slot : /\ IsSlotOf(s, k)
                        /\ items' = [items EXCEPT ![s] = <<k, v>>]
  BY DEF Set
<1>2. hole = NoSlot /\ hole' = NoSlot /\ result' = "ok"
  BY DEF Set
<1>3. \A t \in Slot : t # hole /\ t # hole'
  BY <1>2, CountAssumption DEF NoSlot, Slot
<1>4. items'[s] = <<k, v>> /\ <<k, v>> # NoItem
      /\ \A t \in Slot : t # s => items'[t] = items[t]
  BY <1>1, NoItemAssumption DEF Inv, TypeOK
<1>5. Bindings' = {items[t] : t \in Used \ {s}} \cup {<<k, v>>}
  BY <1>1, <1>3, <1>4 DEF Bindings, Used
<1>6. CASE items[s] = NoItem
  <2>1. ~Map!Bound(k)
    BY <1>1, <1>2, <1>6, NotFoundIsUnbound DEF NotFound
  <2>2. Used # Slot /\ Used \ {s} = Used
    BY <1>6 DEF Used
  <2>3. Cardinality(Bindings) < count
    BY <1>2, <2>2, Counting
  <2>4. Map!Others(k) = Bindings
    BY <2>1, ItemParts DEF Map!Others, Bindings, Map!Bound, Used, KeyOf
  <2> QED
    BY <1>2, <1>5, <2>2, <2>3, <2>4 DEF Map!Set, Bindings, Map!Cardinality, Cardinality
<1>7. CASE items[s] # NoItem
  <2>1. s \in Used /\ KeyOf(s) = k
    BY <1>1, <1>3, <1>7 DEF Used, IsSlotOf, Accepts
  <2>2. Map!Bound(k)
    BY <2>1, BoundIsUsed
  <2>3. Map!Others(k) = {items[t] : t \in Used \ {s}}
    BY <2>1, OthersOf
  <2> QED
    BY <1>2, <1>5, <2>2, <2>3 DEF Map!Set, Bindings
<1> QED
  BY <1>6, <1>7

LEMMA SetFullRefines ==
    ASSUME Inv, NEW k \in Key, SetFull(k)
    PROVE  Map!SetFull(k)
<1>1. hole = NoSlot /\ NoSlotFor(k) /\ result' = "ENOBUFS"
      /\ UNCHANGED <<items, hole>>
  BY DEF SetFull
<1>2. ~Map!Bound(k)
  BY <1>1, NotFoundIsUnbound DEF NotFound
<1>3. Used = Slot
  BY <1>1, CountAssumption DEF Used, NoSlotFor, Accepts, NoSlot, Slot
<1>4. Cardinality(Bindings) = count
  BY <1>1, <1>3, Counting
<1> QED
  BY <1>1, <1>2, <1>4 DEF Map!SetFull, Bindings, Used, Map!Cardinality,
    Cardinality

LEMMA MissingRefines ==
    ASSUME Inv, NEW k \in Key, Missing(k)
    PROVE  Map!Missing(k)
BY NotFoundIsUnbound DEF Missing, Map!Missing, Used

LEMMA GetRefines ==
    ASSUME Inv, NEW k \in Key, Get(k)
    PROVE  \E v \in Value : Map!Get(k, v)
<1>1. PICK s \in Slot : /\ IsSlotOf(s, k) /\ items[s] # NoItem
                        /\ result' = items[s][2]
  BY DEF Get
<1>2. hole = NoSlot /\ UNCHANGED <<items, hole>>
  BY DEF Get
<1>3. s \in Used
  BY <1>1, <1>2, CountAssumption DEF Used, NoSlot, Slot
<1>4. items[s][2] \in Value /\ items[s] = <<k, items[s][2]>>
  BY <1>1, ItemParts DEF IsSlotOf, Accepts
<1>5. Map!Get(k, items[s][2])
  BY <1>1, <1>2, <1>3, <1>4 DEF Map!Get, Used
<1> QED
  BY <1>4, <1>5

\* The binding goes when hashmap_pop starts to empty its slot.
LEMMA PopRefines ==
    ASSUME Inv, NEW k \in Key, Pop(k)
    PROVE  \E v \in Value : Map!Pop(k, v)
<1>1. PICK s \in Slot : /\ IsSlotOf(s, k) /\ items[s] # NoItem
                        /\ hole' = s /\ result' = items[s][2]
  BY DEF Pop
<1>2. hole = NoSlot /\ items' = items
  BY DEF Pop
<1>3. s \in Used /\ Used' = Used \ {s}
  BY <1>1, <1>2, CountAssumption DEF Used, NoSlot, Slot
<1>4. PICK v \in Value : KeyOf(s) = k /\ items[s] = <<k, v>> /\ result' = v
  BY <1>1, ItemParts DEF IsSlotOf, Accepts
<1>5. Map!Others(k) = {items[t] : t \in Used \ {s}}
  BY <1>3, <1>4, OthersOf
<1>6. Map!Pop(k, v)
  BY <1>1, <1>2, <1>3, <1>4, <1>5 DEF Map!Pop
<1> QED
  BY <1>6

\* Moving an item and emptying the hole change no binding.
LEMMA MoveKeepsBindings ==
    ASSUME Inv, MoveBack \/ Emptied
    PROVE  Bindings' = Bindings /\ result' = result
<1>1. hole \in Slot /\ result' = result
  BY DEF MoveBack, Emptied, Inv, TypeOK
<1>2. CASE MoveBack
  <2>1. PICK i \in Slot : /\ FirstStop(i) /\ items[i] # NoItem
                          /\ items' = [items EXCEPT ![hole] = items[i]]
                          /\ hole' = i
    BY <1>2 DEF MoveBack
  <2>2. i # hole /\ i \in Used /\ items'[hole] = items[i]
        /\ \A t \in Slot : t # hole => items'[t] = items[t]
    BY <1>1, <2>1 DEF FirstStop, Stops, Used, Inv, TypeOK
  <2>3. Used' = (Used \ {i}) \cup {hole}
    BY <1>1, <2>1, <2>2 DEF Used
  <2>4. hole \notin Used
    BY DEF Used
  <2> QED
    BY <1>1, <2>2, <2>3, <2>4 DEF Bindings, Used
<1>3. CASE Emptied
  <2>1. items' = [items EXCEPT ![hole] = NoItem] /\ hole' = NoSlot
    BY <1>3 DEF Emptied
  <2>2. Used' = Used /\ \A t \in Used : items'[t] = items[t]
    BY <1>1, <2>1, CountAssumption DEF Used, Inv, TypeOK, Slot, NoSlot
  <2> QED
    BY <1>1, <2>2 DEF Bindings
<1> QED
  BY <1>2, <1>3

LEMMA NextRefines == Inv /\ [Next]_vars => [Map!Next]_<<Bindings, result>>
<1> SUFFICES ASSUME Inv, [Next]_vars PROVE [Map!Next]_<<Bindings, result>>
  OBVIOUS
<1>1. CASE UNCHANGED vars
  BY <1>1 DEF vars, Bindings, Used
<1>2. ASSUME NEW k \in Key, NEW v \in Value, Set(k, v) PROVE Map!Next
  BY <1>2, SetRefines DEF Map!Next
<1>3. ASSUME NEW k \in Key, SetFull(k) PROVE Map!Next
  BY <1>3, SetFullRefines DEF Map!Next
<1>4. ASSUME NEW k \in Key, Get(k) PROVE Map!Next
  BY <1>4, GetRefines DEF Map!Next
<1>5. ASSUME NEW k \in Key, Missing(k) PROVE Map!Next
  BY <1>5, MissingRefines DEF Map!Next
<1>6. ASSUME NEW k \in Key, Pop(k) PROVE Map!Next
  BY <1>6, PopRefines DEF Map!Next
<1>7. CASE MoveBack \/ Emptied
  BY <1>7, MoveKeepsBindings
<1> QED
  BY <1>1, <1>2, <1>3, <1>4, <1>5, <1>6, <1>7 DEF Next, Call

\* librobinhood's hash map is a map, whatever the keys, the hash function and
\* the number of slots (rbh_hashmap_set, rbh_hashmap_get, rbh_hashmap_pop).
THEOREM HashMapIsMap == Spec => IsMap
<1>1. Init => Map!Init
  BY DEF Init, Map!Init, Used
<1>2. Spec => []Inv
  BY InitInv, NextInv, PTL DEF Spec
<1>3. Inv /\ [Next]_vars => [Map!Next]_<<{items[s] : s \in Used}, result>>
  BY NextRefines DEF Bindings
<1> QED
  BY <1>1, <1>2, <1>3, PTL DEF Spec, IsMap, Map!Spec
=============================================================================
