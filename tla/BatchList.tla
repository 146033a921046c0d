----------------------------- MODULE BatchList -----------------------------
(***************************************************************************)
(* The list of batches that a Lustre changelog source keeps                *)
(* (rbh-fsevents/src/sources/lustre/ack.c): one source_batch_node for each *)
(* batch sent to enrichment whose changelogs are not acknowledged yet.     *)
(*                                                                         *)
(* The list is a function from the position of a node (nodes are only ever *)
(* added at the tail, with a larger position) to the node:                 *)
(*    batch_id             the id the workers acknowledge,                 *)
(*    last_changelog_index what is cleared once the batch is done,         *)
(*    ack_required         the workers that have not acknowledged it.      *)
(***************************************************************************)
EXTENDS Integers

BatchNode == [batch_id : Nat, last_changelog_index : Nat, ack_required : Nat]

\* The end of lustre_changelog_save_batch: rbh_list_add_tail.
AddTail(list, key, node) ==
    [c \in DOMAIN list \cup {key} |-> IF c = key THEN node ELSE list[c]]

\* The loop of lustre_changelog_ack_batch, for batch id b. A node is reached
\* unless an unfinished newer batch breaks the walk first.
Reached(list, b, c) ==
    \A d \in DOMAIN list :
        d <= c => ~(list[d].batch_id > b /\ list[d].ack_required > 0)

\* Mutant: can_clear is never lowered.
CanClearIgnoringOlder(list, b, c) == c \in DOMAIN list

\* can_clear is still true at node c: no older batch before it is unfinished.
CanClear(list, b, c) ==
    \A d \in DOMAIN list :
        d <= c => ~(list[d].ack_required > 0 /\ list[d].batch_id < b)

\* Mutant: every node up to the batch is decremented.
DecrementedUpTo(list, b) ==
    [c \in DOMAIN list |->
        IF list[c].batch_id <= b
          THEN [list[c] EXCEPT !.ack_required = @ - 1]
          ELSE list[c]]

Decremented(list, b) ==
    [c \in DOMAIN list |->
        IF list[c].batch_id = b
          THEN [list[c] EXCEPT !.ack_required = @ - 1]
          ELSE list[c]]

\* The nodes that one call acknowledges, removes and frees.
Clearable(list, b) ==
    {c \in DOMAIN list : /\ Reached(list, b, c)
                         /\ CanClear(list, b, c)
                         /\ Decremented(list, b)[c].ack_required = 0}

AfterAck(list, b) ==
    [c \in DOMAIN list \ Clearable(list, b) |-> Decremented(list, b)[c]]
=============================================================================
