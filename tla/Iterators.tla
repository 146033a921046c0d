----------------------------- MODULE Iterators -----------------------------
(***************************************************************************)
(* The iterators of librobinhood (itertools.c, iterator.h, list.h): the    *)
(* two sides of a tee, which share one source through two queues, and the  *)
(* chunks of a chain of two iterators.  The source of a tee yields         *)
(* 1, 2, ...: elements are told apart by their position.                   *)
(***************************************************************************)
EXTENDS Rings

CONSTANTS Elements,      \* number of elements the source of the tee yields
          QueueChunk,    \* elements in a ring of a queue
          PoolChunk,     \* rings in a stack of a queue's pool
          MaxFailures    \* bound: rbh_ring_new() failures

ASSUME QueueAssumption == QueueChunk \in Nat \ {0} /\ PoolChunk \in Nat \ {0}

VARIABLES tee,           \* [0 .. 1 -> the two tee_iterators]
          source,        \* elements the source of the tee has yielded
          got,           \* ghost: [0 .. 1 -> what each side has returned]
          made,          \* rings made
          failures       \* rbh_ring_new() failures

teeVars == <<tee, source, got, made, failures>>

Other(side) == 1 - side

tee_iter_new(ring) ==
    [queue |-> queue_new(QueueChunk, PoolChunk, ring), next |-> <<>>,
     clone |-> TRUE, alive |-> TRUE]

\* rbh_iter_tee()
TeeInit ==
    /\ tee = [side \in 0 .. 1 |-> tee_iter_new(side + 1)]
    /\ source = 0
    /\ got = [side \in 0 .. 1 |-> <<>>]
    /\ made = 2
    /\ failures = 0

\* tee_iter_share(): push to the other side's queue.  A ring that cannot be
\* made (fresh = 0) makes it fail.
tee_iter_share(t, element, fresh) ==
    LET push == queue_push(t.queue, element, fresh)
    IN [ok |-> push.ok, made |-> push.made, tee |-> [t EXCEPT !.queue = push.queue]]

\* tee_iter_next(), an element is in the queue.
TeeQueued(side) ==
    /\ tee[side].alive
    /\ queue_peek(tee[side].queue) # <<>>
    /\ got' = [got EXCEPT ![side] = Append(@, queue_peek(tee[side].queue)[1])]
    /\ tee' = [tee EXCEPT ![side].queue = queue_pop(@)]
    /\ UNCHANGED <<source, made, failures>>

\* The retry after a failed share is forgotten.
RetryShareNone(side, fresh) == [ok |-> TRUE, made |-> FALSE, tee |-> tee[Other(side)]]

\* tee_iter_next() first shares again what it could not share.
RetryShare(side, fresh) ==
    LET clone == tee[Other(side)]
    IN IF tee[side].clone /\ clone.next # <<>>
       THEN LET share == tee_iter_share(clone, clone.next[1], fresh)
            IN [share EXCEPT !.tee = IF share.ok THEN [@ EXCEPT !.next = <<>>] ELSE @]
       ELSE [ok |-> TRUE, made |-> FALSE, tee |-> clone]

\* tee_iter_next(), the queue is empty: the element the other side could not
\* share, or the source's next one, which is shared.  fails: rbh_ring_new()
\* fails for the whole call.
TeeFetch(side, fails) ==
    LET fresh(n) == IF fails THEN 0 ELSE n + 1
        retry == RetryShare(side, fresh(made))
        count == made + (IF retry.made THEN 1 ELSE 0)
        mine == tee[side]
        element == IF mine.next # <<>> THEN mine.next[1] ELSE source + 1
        share == tee_iter_share(retry.tee, element, fresh(count))
        clone == IF share.ok THEN share.tee ELSE [share.tee EXCEPT !.next = <<element>>]
    IN /\ mine.alive
       /\ queue_peek(mine.queue) = <<>>
       /\ mine.next = <<>> => source < Elements
       /\ fails => failures < MaxFailures
       /\ failures' = failures + (IF fails THEN 1 ELSE 0)
       /\ IF ~retry.ok
          THEN /\ tee' = [tee EXCEPT ![Other(side)] = retry.tee]
               /\ UNCHANGED <<source, got, made>>
          ELSE /\ source' = IF mine.next # <<>> THEN source ELSE source + 1
               /\ got' = [got EXCEPT ![side] = Append(@, element)]
               /\ tee' = IF mine.clone
                         THEN [tee EXCEPT ![side].next = <<>>, ![Other(side)] = clone]
                         ELSE [tee EXCEPT ![side].next = <<>>]
               /\ made' = IF mine.clone /\ share.made THEN count + 1 ELSE count

\* tee_iter_destroy()
TeeDestroy(side) ==
    /\ tee[side].alive
    /\ tee[Other(side)].alive
    /\ tee' = [tee EXCEPT ![side].alive = FALSE, ![Other(side)].clone = FALSE]
    /\ UNCHANGED <<source, got, made, failures>>

TeeNext ==
    \E side \in 0 .. 1 :
        \/ TeeQueued(side)
        \/ \E fails \in BOOLEAN : TeeFetch(side, fails)
        \/ TeeDestroy(side)

-----------------------------------------------------------------------------
(* Properties of the tee                                                   *)

\* Both sides yield the elements of the source, in its order and without a
\* gap, whichever side is ahead and even if an element could not be shared
\* at once (tee_iter_next()).  The side that could not share an element may
\* yield it twice in a row: the other side shares what it takes from `next'.
TeeYieldsAll ==
    \A side \in 0 .. 1 :
        LET seen == got[side]
        IN /\ seen # <<>> => seen[1] = 1
           /\ \A i \in 2 .. Len(seen) :
                  \/ seen[i] = seen[i - 1] + 1
                  \/ failures > 0 /\ seen[i] = seen[i - 1]

\* No ring is lost or in two places: the rings of a queue, between its head
\* and its tail, and those of its pool are different rings, every ring made
\* is one of them, and those of the pool are empty.
RingsKept ==
    LET queued == UNION {{<<side, 0, i>> : i \in DOMAIN queue_rings(tee[side].queue)} :
                            side \in 0 .. 1}
        pooled == UNION {{<<side, spot[1], spot[2]>> : spot \in pool_rings(tee[side].queue)} :
                            side \in 0 .. 1}
        ring(spot) == IF spot[2] = 0 THEN queue_rings(tee[spot[1]].queue)[spot[3]]
                      ELSE tee[spot[1]].queue.pool.stacks[spot[2]][spot[3]]
        name == [spot \in queued \cup pooled |-> ring(spot).name]
    IN /\ IsInjective(name)
       /\ Range(name) = 1 .. made
       /\ \A spot \in pooled : ring(spot).elements = <<>>

-----------------------------------------------------------------------------
(* rbh_iter_chunkify() over rbh_iter_chain() of two iterators: an array, a *)
(* ring or a list.  The chunks share the source: a chunk that is left      *)
(* unfinished, or used again after a later one was made, takes its         *)
(* elements from where the source stands.  Elements may be NULL (0).       *)

CONSTANTS Chains,        \* set of <<first, second, kind of the first>>
          ChunkSize      \* set of chunk sizes

ASSUME ChunkAssumption ==
    /\ \A c \in Chains : c[1] \in Seq(Nat) /\ c[2] \in Seq(Nat) /\ c[3] \in {"array", "list"}
    /\ ChunkSize \subseteq Nat \ {0}

VARIABLES input,         \* the chain's elements
          chain,         \* chain_iterator
          chunk,         \* chunkify_iterator.chunk
          chunks,        \* the chunk_iterators, in the order they were made
          given          \* ghost: <<chunk, element>> in the order returned

chunkVars == <<input, chain, chunk, chunks, given>>

NULL == 0

\* rbh_iter_array(), array_iter_next()
array_iter(elements) == [kind |-> "array", elements |-> elements, index |-> 0]
array_iter_next(it) ==
    IF it.index < Len(it.elements)
    THEN [it |-> [it EXCEPT !.index = @ + 1], out |-> <<it.elements[it.index + 1]>>]
    ELSE [it |-> it, out |-> <<>>]

\* rbh_iter_list(), list_iter_next(): node 0 is the list's head, which is
\* also the last node's next.
list_iter(elements) == [kind |-> "list", elements |-> elements, current |-> 0]
list_iter_next(it) ==
    LET next == (it.current + 1) % (Len(it.elements) + 1)
    IN IF next = 0 THEN [it |-> it, out |-> <<>>]
       ELSE [it |-> [it EXCEPT !.current = next], out |-> <<it.elements[next]>>]

\* rbh_iter_ring(), ring_iter_next(): what it returns is popped.
ring_iter(elements) == ring_push(ring_new(Len(elements) + 1), elements)
ring_iter_next(ring) ==
    IF ring.used > 0 THEN [it |-> ring_pop(ring, 1), out |-> <<ring_peek(ring)[1]>>]
    ELSE [it |-> ring, out |-> <<>>]

\* rbh_iter_chain() of an array or list and of a ring
ChunkInit ==
    /\ \E c \in Chains : /\ input = c[1] \o c[2]
                         /\ chain = [first |-> <<IF c[3] = "array" THEN array_iter(c[1])
                                                ELSE list_iter(c[1])>>,
                                     second |-> <<ring_iter(c[2])>>]
    /\ chunk \in ChunkSize
    /\ chunks = <<>>
    /\ given = <<>>

\* chain_iter_next(): the first iterator, and the second one once it ends.
chain_iter_next ==
    LET first == IF chain.first[1].kind = "array" THEN array_iter_next(chain.first[1])
                 ELSE list_iter_next(chain.first[1])
        second == ring_iter_next(chain.second[1])
    IN IF chain.first # <<>> /\ first.out # <<>>
       THEN [chain |-> [chain EXCEPT !.first = <<first.it>>], out |-> first.out]
       ELSE IF chain.second # <<>> /\ second.out # <<>>
       THEN [chain |-> [first |-> <<>>, second |-> <<second.it>>], out |-> second.out]
       ELSE [chain |-> [first |-> <<>>, second |-> <<>>], out |-> <<>>]

\* The first element is not counted.
chunk_newWhole(first) == [first |-> first, count |-> chunk, once |-> FALSE]

\* The chunk_iterator that chunkify_iter_next() makes
chunk_new(first) == [first |-> first, count |-> chunk - 1, once |-> FALSE]

\* chunkify_iter_next()
ChunkifyNext ==
    LET next == chain_iter_next
    IN /\ next.out # <<>>
       /\ chunks' = Append(chunks, chunk_new(next.out[1]))
       /\ chain' = next.chain
       /\ UNCHANGED <<input, chunk, given>>

\* chunk_iter_next() of the chunk's first element
ChunkFirst(c) ==
    /\ ~chunks[c].once
    /\ chunks' = [chunks EXCEPT ![c].once = TRUE]
    /\ given' = Append(given, <<c, chunks[c].first>>)
    /\ UNCHANGED <<input, chain, chunk>>

\* chunk_iter_next() of a later element
ChunkNext(c) ==
    LET next == chain_iter_next
    IN /\ chunks[c].once
       /\ chunks[c].count > 0
       /\ next.out # <<>>
       /\ chunks' = [chunks EXCEPT ![c].count = @ - 1]
       /\ given' = Append(given, <<c, next.out[1]>>)
       /\ chain' = next.chain
       /\ UNCHANGED <<input, chunk>>

ChunksNext ==
    \/ ChunkifyNext
    \/ \E c \in DOMAIN chunks : ChunkFirst(c) \/ ChunkNext(c)

-----------------------------------------------------------------------------
Times(s, x) == Cardinality({i \in DOMAIN s : s[i] = x})

\* The chunks that have not returned their first element yet.
Waiting == {c \in DOMAIN chunks : ~chunks[c].once}

\* The chunks split the elements of the chain (chunk_iter_next(),
\* chain_iter_next()): none is given to two chunks or skipped on the way,
\* each of them, NULL included, was returned by a chunk or waits as a
\* chunk's first element, and no chunk returns more elements than its size.
ChunksPartition ==
    /\ \A x \in Range(input) :
           Cardinality({i \in DOMAIN given : given[i][2] = x})
             + Cardinality({c \in Waiting : chunks[c].first = x})
           = Times(SubSeq(input, 1, Len(given) + Cardinality(Waiting)), x)
    /\ \A c \in DOMAIN chunks :
           Cardinality({i \in DOMAIN given : given[i][1] = c}) <= chunk
=============================================================================
