------------------------------- MODULE Rings -------------------------------
(***************************************************************************)
(* The containers of librobinhood: ring buffers (ring.c), ring buffers     *)
(* with several readers (ringr.c), stacks (stack.c), stacks of stacks      *)
(* (sstack.c) and queues of rings (queue.c).                               *)
(*                                                                         *)
(* A ring's memory is mapped twice, one mapping behind the other, so an    *)
(* address is an offset modulo the size.  errno is the string "" where the *)
(* call succeeds.                                                          *)
(***************************************************************************)
EXTENDS Integers, SequencesExt, FiniteSets

-----------------------------------------------------------------------------
(* ring.c                                                                  *)

\* rbh_ring_new()
ring_new(size) ==
    [size |-> size, used |-> 0, head |-> 0, data |-> [i \in 0 .. size - 1 |-> 0]]

Offset(ring, i) == (ring.head + i) % ring.size

\* The errno of rbh_ring_push().
ring_errno(ring, size) ==
    CASE size = 0 \/ ring.size - ring.used >= size -> ""
      [] size > ring.size -> "EINVAL"
      [] OTHER -> "ENOBUFS"

\* rbh_ring_push(), when it succeeds; the address is Offset(ring, ring.used).
ring_push(ring, bytes) ==
    LET at(i) == Offset(ring, ring.used + i - 1)
    IN [ring EXCEPT !.used = @ + Len(bytes),
                    !.data = [o \in DOMAIN @ |->
                        IF \E i \in DOMAIN bytes : at(i) = o
                        THEN bytes[CHOOSE i \in DOMAIN bytes : at(i) = o]
                        ELSE @[o]]]

\* rbh_ring_peek()
ring_peek(ring) == [i \in 1 .. ring.used |-> ring.data[Offset(ring, i - 1)]]

\* rbh_ring_pop(): nothing changes when it fails with EINVAL.
ring_pop(ring, count) ==
    IF count > ring.used THEN ring
    ELSE [ring EXCEPT !.head = Offset(ring, count), !.used = @ - count]

-----------------------------------------------------------------------------
(* ringr.c: a ring and its readers                                         *)

\* rbh_ringr_new(), one reader
ringr_new(size, reader) ==
    [ring |-> ring_new(size),
     readers |-> [r \in {reader} |-> [head |-> 0, starved |-> FALSE]]]

\* rbh_ringr_dup()
ringr_dup(rr, reader, new) ==
    [rr EXCEPT !.readers = [r \in DOMAIN @ \cup {new} |->
                                IF r = new THEN @[reader] ELSE @[r]]]

\* rbh_ringr_push(), when the ring has room
ringr_push(rr, bytes) ==
    LET ring == ring_push(rr.ring, bytes)
    IN [ring |-> ring,
        readers |-> IF Len(bytes) = 0 \/ ring.used # ring.size THEN rr.readers
                    ELSE [r \in DOMAIN rr.readers |->
                             [rr.readers[r] EXCEPT !.starved = FALSE]]]

\* The values of a size_t, scaled down: more than any ring's size.
SIZE_T == 64

\* ringr_readable(), a size_t
ringr_readable(rr, reader) ==
    LET head == rr.readers[reader].head
        ring == rr.ring
    IN IF head = ring.head /\ rr.readers[reader].starved THEN 0
       ELSE IF head >= ring.head THEN (ring.used - (head - ring.head)) % SIZE_T
       ELSE (ring.head - head - (ring.size - ring.used)) % SIZE_T

\* rbh_ringr_peek()
ringr_peek(rr, reader) ==
    [i \in 1 .. ringr_readable(rr, reader) |->
        rr.ring.data[(rr.readers[reader].head + i - 1) % rr.ring.size]]

\* What every reader can read, instead of what some reader can.
ringr_max_readableMin(rr) == Min({ringr_readable(rr, r) : r \in DOMAIN rr.readers})

\* ringr_max_readable()
ringr_max_readable(rr) == Max({ringr_readable(rr, r) : r \in DOMAIN rr.readers})

\* ringr_pop_unreachable()
ringr_pop_unreachable(rr) ==
    [rr EXCEPT !.ring = ring_pop(@, (@.used - ringr_max_readable(rr)) % SIZE_T)]

\* rbh_ringr_ack(): nothing changes when it fails with EINVAL.
ringr_ack(rr, reader, count) ==
    LET old == rr.readers[reader].head
        new == (old + count) % rr.ring.size
        moved == [rr EXCEPT !.readers[reader] =
                    [head |-> new,
                     starved |-> @.starved \/ new = rr.ring.head]]
    IN IF count = 0 \/ count > ringr_readable(rr, reader) THEN rr
       ELSE IF rr.ring.head # old THEN moved
       ELSE ringr_pop_unreachable(moved)

\* rbh_ringr_destroy() of a reader that is not the last one
ringr_destroy(rr, reader) ==
    ringr_pop_unreachable([rr EXCEPT !.readers = Restrict(@, DOMAIN @ \ {reader})])

-----------------------------------------------------------------------------
(* stack.c and sstack.c: elements of one size, chunk of them in a stack    *)

\* rbh_sstack_new()
sstack_new(chunk) ==
    [stacks |-> <<<<>>>>, chunk |-> chunk, current |-> 0, count |-> 1, initialized |-> 1]

Top(sstack) == sstack.stacks[sstack.current + 1]

\* rbh_sstack_push(): a full stack sends it to the next one, made if needed.
sstack_push(sstack, element) ==
    IF Len(Top(sstack)) < sstack.chunk
    THEN [sstack EXCEPT !.stacks[sstack.current + 1] = <<element>> \o @]
    ELSE LET next == sstack.current + 1
             known == next < sstack.initialized
         IN [sstack EXCEPT
                !.current = next,
                !.count = IF next >= @ THEN @ * 2 ELSE @,
                !.initialized = IF known THEN @ ELSE @ + 1,
                !.stacks =
                    IF known
                    THEN [@ EXCEPT ![next + 1] = <<element>> \o sstack.stacks[next + 1]]
                    ELSE Append(@, <<element>>)]

\* rbh_sstack_pop() of count elements of the current stack
sstack_pop(sstack, count) ==
    LET left == SubSeq(Top(sstack), count + 1, Len(Top(sstack)))
    IN [sstack EXCEPT !.stacks[sstack.current + 1] = left,
                      !.current = IF left = <<>> /\ @ > 0 THEN @ - 1 ELSE @]

-----------------------------------------------------------------------------
(* queue.c: rings [name, elements], chunk elements in a ring               *)

NoRing == [name |-> 0, elements |-> <<>>]

\* rbh_queue_new(): its first ring is the ring named first.
queue_new(chunk, pool, first) ==
    [rings |-> <<[name |-> first, elements |-> <<>>]>>, chunk |-> chunk,
     pool |-> sstack_new(pool), head |-> 0, tail |-> 0, count |-> 1]

\* One ring too few is moved to the front.
MakeRoomShort(queue) ==
    LET tail == queue.tail + 1
        old == queue.rings
    IN CASE tail < queue.count -> [queue EXCEPT !.tail = tail]
         [] tail >= queue.count /\ queue.head > queue.count \div 2 ->
               [queue EXCEPT
                  !.rings = [i \in 1 .. queue.count |->
                                IF i < tail - queue.head THEN old[i + queue.head]
                                ELSE old[i]],
                  !.tail = tail - queue.head, !.head = 0]
         [] OTHER ->
               [queue EXCEPT
                  !.rings = [i \in 1 .. 2 * queue.count |->
                                IF i <= queue.count THEN old[i] ELSE NoRing],
                  !.tail = tail, !.count = @ * 2]

\* The slot behind the tail: the rings are moved to the front of the array
\* when more than half of it is unused, else the array is doubled.
MakeRoom(queue) ==
    LET tail == queue.tail + 1
        old == queue.rings
    IN CASE tail < queue.count -> [queue EXCEPT !.tail = tail]
         [] tail >= queue.count /\ queue.head > queue.count \div 2 ->
               [queue EXCEPT
                  !.rings = [i \in 1 .. queue.count |->
                                IF i <= tail - queue.head THEN old[i + queue.head]
                                ELSE old[i]],
                  !.tail = tail - queue.head, !.head = 0]
         [] OTHER ->
               [queue EXCEPT
                  !.rings = [i \in 1 .. 2 * queue.count |->
                                IF i <= queue.count THEN old[i] ELSE NoRing],
                  !.tail = tail, !.count = @ * 2]

\* rbh_queue_push(): fresh is the name of the ring rbh_ring_new() makes, 0
\* when it fails.  ok: whether the element is in the queue.
queue_push(queue, element, fresh) ==
    IF Len(queue.rings[queue.tail + 1].elements) < queue.chunk
    THEN [ok |-> TRUE, made |-> FALSE,
          queue |-> [queue EXCEPT !.rings[queue.tail + 1].elements = Append(@, element)]]
    ELSE LET room == MakeRoom(queue)
             free == Top(queue.pool)
             ring(name) == [name |-> name, elements |-> <<element>>]
         IN CASE free # <<>> ->
                    [ok |-> TRUE, made |-> FALSE,
                     queue |-> [room EXCEPT !.rings[room.tail + 1] = ring(free[1].name),
                                            !.pool = sstack_pop(@, 1)]]
              [] free = <<>> /\ fresh # 0 ->
                    [ok |-> TRUE, made |-> TRUE,
                     queue |-> [room EXCEPT !.rings[room.tail + 1] = ring(fresh)]]
              [] OTHER ->
                    [ok |-> FALSE, made |-> FALSE,
                     queue |-> [room EXCEPT !.tail = @ - 1]]

\* rbh_queue_peek()
queue_peek(queue) == queue.rings[queue.head + 1].elements

\* rbh_queue_pop() of one element: an empty ring goes to the pool, unless it
\* is the one that the next push fills.
queue_pop(queue) ==
    LET left == Tail(queue_peek(queue))
        popped == [queue EXCEPT !.rings[queue.head + 1].elements = left]
    IN IF left = <<>> /\ queue.head < queue.tail
       THEN [popped EXCEPT !.pool = sstack_push(@, popped.rings[queue.head + 1]),
                           !.head = @ + 1]
       ELSE popped

\* The rings that rbh_queue_destroy() destroys, in order, and where in the
\* pool those are that rbh_queue_shrink() destroys: <<stack, depth>>.
queue_rings(queue) ==
    [i \in 1 .. queue.tail - queue.head + 1 |-> queue.rings[queue.head + i]]
pool_rings(queue) ==
    UNION {{<<s, i>> : i \in DOMAIN queue.pool.stacks[s]} : s \in 1 .. queue.pool.current + 1}
=============================================================================
