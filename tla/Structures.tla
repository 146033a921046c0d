---------------------------- MODULE Structures ----------------------------
(***************************************************************************)
(* The containers and iterators of librobinhood, one user of them at a     *)
(* time: the readers of a ring, the two sides of a tee, the chunks of a    *)
(* chain, the traversal of a branch.                                       *)
(***************************************************************************)
EXTENDS Iterators, BranchIterator

CONSTANTS Users,         \* subset of {"ringr", "tee", "chunks", "branch"}
          RingSize,      \* bytes of the ring of the "ringr" user
          Readers,       \* its readers, at most
          MaxPushed      \* bound: bytes pushed

ASSUME RingSizeAssumption == RingSize \in 1 .. SIZE_T - 1
ASSUME ReadersAssumption == Readers # {}
ASSUME MaxPushedAssumption == MaxPushed \in Nat

VARIABLES user,
          rr,            \* the ring and its readers
          pushed,        \* ghost: bytes pushed: the n-th byte is n
          acked,         \* ghost: [reader -> bytes it has acknowledged]
          unseen         \* ghost: something was pushed to a starved reader

ringrVars == <<rr, pushed, acked, unseen>>
vars == <<user, ringrVars, teeVars, chunkVars, branchVars>>

First == CHOOSE r \in Readers : TRUE

RingrInit ==
    /\ rr = ringr_new(RingSize, First)
    /\ pushed = 0
    /\ acked = [r \in {First} |-> 0]
    /\ unseen = FALSE

\* rbh_ringr_push(): a full ring refuses it.
Push(size) ==
    /\ ring_errno(rr.ring, size) = ""
    /\ pushed + size <= MaxPushed
    /\ rr' = ringr_push(rr, [i \in 1 .. size |-> pushed + i])
    /\ pushed' = pushed + size
    /\ unseen' = (unseen \/ \E r \in DOMAIN rr'.readers : rr'.readers[r].starved)
    /\ UNCHANGED acked

\* rbh_ringr_ack()
Ack(r, count) ==
    /\ count <= ringr_readable(rr, r)
    /\ rr' = ringr_ack(rr, r, count)
    /\ acked' = [acked EXCEPT ![r] = @ + count]
    /\ UNCHANGED <<pushed, unseen>>

\* rbh_ringr_dup()
Dup(r, new) ==
    /\ rr' = ringr_dup(rr, r, new)
    /\ acked' = [x \in DOMAIN acked \cup {new} |-> IF x = new THEN acked[r] ELSE acked[x]]
    /\ UNCHANGED <<pushed, unseen>>

\* rbh_ringr_destroy()
Destroy(r) ==
    /\ DOMAIN rr.readers # {r}
    /\ rr' = ringr_destroy(rr, r)
    /\ acked' = Restrict(acked, DOMAIN acked \ {r})
    /\ UNCHANGED <<pushed, unseen>>

\* Bound: what follows a push to a starved reader is not explored.
RingrNext ==
  /\ ~unseen
  /\ \/ \E size \in 1 .. RingSize : Push(size)
     \/ \E r \in DOMAIN rr.readers :
            \/ \E count \in 1 .. RingSize : Ack(r, count)
            \/ \E new \in Readers \ DOMAIN rr.readers : Dup(r, new)
            \/ Destroy(r)

Init ==
    /\ user \in Users
    /\ RingrInit
    /\ TeeInit
    /\ ChunkInit
    /\ BranchInit
    /\ user # "chunks" => chunk = Min(ChunkSize) /\ input = <<>>
    /\ user # "branch" => /\ tree = CHOOSE t \in Trees : TRUE
                         /\ \A size \in RingSizes : ids.ring.size <= size[1]

Next ==
    \/ user = "ringr" /\ RingrNext /\ UNCHANGED <<user, teeVars, chunkVars, branchVars>>
    \/ user = "tee" /\ TeeNext /\ UNCHANGED <<user, ringrVars, chunkVars, branchVars>>
    \/ user = "chunks" /\ ChunksNext /\ UNCHANGED <<user, ringrVars, teeVars, branchVars>>
    \/ user = "branch" /\ BranchNext /\ UNCHANGED <<user, ringrVars, teeVars, chunkVars>>

Spec == Init /\ [][Next]_vars

-----------------------------------------------------------------------------
\* What a reader is shown are the bytes pushed and not acknowledged by it.
Shown(r) == ringr_peek(rr, r) = [i \in 1 .. pushed - acked[r] |-> acked[r] + i]

\* A reader is shown the bytes that were pushed and that it has not
\* acknowledged yet, in order, whatever the other readers do, and none of
\* them is overwritten (rbh_ringr_push(), rbh_ringr_ack()): until something
\* is pushed while a reader is starved, having read the whole of a full ring.
ReaderShown == ~unseen => \A r \in DOMAIN rr.readers : Shown(r)

\* The iterators built on the queues and on a chain give every element of their
\* source once, in order, to whoever reads them and in whatever order they are
\* read (tee_iter_next(), chunk_iter_next()), and the queues lose no ring.
IteratorsYieldAll == TeeYieldsAll /\ RingsKept /\ ChunksPartition
=============================================================================
