---------------------------- MODULE KeyValueMap ----------------------------
(***************************************************************************)
(* What rbh_hashmap_set, rbh_hashmap_get and rbh_hashmap_pop promise       *)
(* (include/robinhood/hashmap.h): a map of at most Capacity keys.  bindings*)
(* is the set of its <<key, value>> pairs, result what the last call       *)
(* returned: a value, or the errno of its failure.                         *)
(***************************************************************************)
EXTENDS Integers, FiniteSets

CONSTANTS Key, Value, Capacity

VARIABLES bindings, result

Bound(k) == \E v \in Value : <<k, v>> \in bindings

Others(k) == {b \in bindings : b[1] # k}

Init == bindings = {} /\ result = "ok"

Set(k, v) ==
    /\ Bound(k) \/ Cardinality(bindings) < Capacity
    /\ bindings' = Others(k) \cup {<<k, v>>}
    /\ result' = "ok"

SetFull(k) ==
    /\ ~Bound(k) /\ Cardinality(bindings) = Capacity
    /\ result' = "ENOBUFS"
    /\ UNCHANGED bindings

Get(k, v) ==
    /\ <<k, v>> \in bindings
    /\ result' = v
    /\ UNCHANGED bindings

Pop(k, v) ==
    /\ <<k, v>> \in bindings
    /\ bindings' = Others(k)
    /\ result' = v

\* Neither get nor pop finds a key that is not bound.
Missing(k) ==
    /\ ~Bound(k)
    /\ result' = "ENOENT"
    /\ UNCHANGED bindings

Next ==
    \E k \in Key : \/ SetFull(k) \/ Missing(k)
                   \/ \E v \in Value : Set(k, v) \/ Get(k, v) \/ Pop(k, v)

Spec == Init /\ [][Next]_<<bindings, result>>
=============================================================================
