---------------------------- MODULE FsEventPool ----------------------------
(***************************************************************************)
(* The pool in which rbh-fsevents deduplicates fsevents                    *)
(* (rbh-fsevents/src/deduplicator/fsevent_pool.c): for each id it holds,   *)
(* the list of the fsevents to send.  A pool is a record:                  *)
(*    events  the hashmap, from the ids held to their list of fsevents,    *)
(*    ids     the list of ids, the least recently used one first,          *)
(*    count   the number of ids,                                           *)
(*    need_to_flush.                                                       *)
(* The nodes, stacks and free lists that hold these are left out.          *)
(***************************************************************************)
EXTENDS LustreRecords, SequencesExt

EmptyPool == [events |-> <<>>, ids |-> <<>>, count |-> 0,
              need_to_flush |-> FALSE]

Holds(pool, id) == id \in DOMAIN pool.events

rbh_fsevent_pool_is_full(pool, size) == pool.count = size

SetEvents(pool, id, list) ==
    [pool EXCEPT !.events =
        [i \in DOMAIN @ \cup {id} |-> IF i = id THEN list ELSE @[i]]]

rbh_fsevent_pool_insert_new_entry(pool, event) ==
    [SetEvents(pool, event.id, <<event>>) EXCEPT
        !.ids = Append(@, event.id),
        !.count = @ + 1]

id_list_find(ids, id) == CHOOSE n \in DOMAIN ids : ids[n] = id

\* rbh_hashmap_pop, and out of the list of ids.
remove_event_list(pool, id) ==
    [pool EXCEPT !.events = [i \in DOMAIN @ \ {id} |-> @[i]],
                 !.ids = RemoveAt(@, id_list_find(@, id)),
                 !.count = @ - 1]

\* move_list_node_at_tail: the id becomes the last used one.
Touch(pool, id) ==
    [pool EXCEPT !.ids = Append(RemoveAt(@, id_list_find(@, id)), id)]

\* Positions of the fsevents of a type; with the pool's rules, an id has at most
\* one UPSERT and one XATTR.
OfType(list, type) == {n \in DOMAIN list : list[n].type = type}

\* No dedup for this event: links go to the front, to insert new entries before
\* any other action.
Insert(pool, event) ==
    SetEvents(pool, event.id,
              IF event.type = "LINK"
                THEN <<event>> \o pool.events[event.id]
                ELSE Append(pool.events[event.id], event))

\* Mutant: the value to add is not added up.
MergeKeys(cached, event) == [cached EXCEPT !.enrich = @ \cup event.enrich]

\* dedup_upsert merges the masks; dedup_xattrs the keys to enrich and, for an
\* "inc" operation, the values.
Merge(cached, event) ==
    [cached EXCEPT !.enrich = @ \cup event.enrich, !.inc = @ + event.inc]

MergeInto(pool, event) ==
    LET list == pool.events[event.id]
        n == Min(OfType(list, event.type))
    IN  SetEvents(pool, event.id, [list EXCEPT ![n] = Merge(@, event)])

\* Mutant: the last fsevent with the same key overwrites the cached one.
dedup_by_overwriting(pool, event) ==
    LET list == pool.events[event.id]
    IN  IF OfType(list, event.type) # {}
          THEN SetEvents(pool, event.id,
                         [list EXCEPT ![Min(OfType(list, event.type))] = event])
          ELSE Insert(pool, event)

\* dedup_upsert_event and dedup_xattr_event
dedup_merged_event(pool, event) ==
    IF OfType(pool.events[event.id], event.type) # {}
      THEN MergeInto(pool, event)
      ELSE Insert(pool, event)

\* The LINK that an UNLINK cancels: the last one with its parent and name.
MatchingLinks(list, event) ==
    {n \in OfType(list, "LINK") : list[n].link = event.link}

\* Mutant: a list that is put back is not counted.
dedup_unlink_losing_count(pool, event) ==
    LET links == MatchingLinks(pool.events[event.id], event)
        rest == RemoveAt(pool.events[event.id], Max(links))
        removed == remove_event_list(pool, event.id)
    IN  IF links = {} THEN Insert(pool, event)
        ELSE IF rest = <<>> THEN removed
        ELSE [SetEvents(removed, event.id, rest) EXCEPT
                 !.ids = Append(@, event.id)]

\* The id goes with its last fsevent, else its list is put back under the id of
\* the next one.
dedup_unlink_event(pool, event) ==
    LET links == MatchingLinks(pool.events[event.id], event)
        rest == RemoveAt(pool.events[event.id], Max(links))
        removed == remove_event_list(pool, event.id)
    IN  IF links = {} THEN Insert(pool, event)
        ELSE IF rest = <<>> THEN removed
        ELSE [SetEvents(removed, event.id, rest) EXCEPT
                 !.ids = Append(@, event.id),
                 !.count = @ + 1]

\* Mutant: a DELETE is dropped with the list of its id, whatever it holds.
dedup_delete_dropped(pool, event) == remove_event_list(pool, event.id)

\* A DELETE replaces everything the list holds, and nothing needs to be deleted
\* if the list creates the entry.
dedup_delete_event(pool, event) ==
    IF OfType(pool.events[event.id], "LINK") # {}
      THEN remove_event_list(pool, event.id)
      ELSE SetEvents(pool, event.id, <<event>>)

deduplicate_event(pool, event) ==
    LET touched == Touch(pool, event.id)
    IN  CASE event.type \in {"UPSERT", "XATTR"} ->
                dedup_merged_event(touched, event)
          [] event.type = "LINK" -> Insert(touched, event)
          [] event.type = "UNLINK" -> dedup_unlink_event(touched, event)
          [] event.type = "DELETE" -> dedup_delete_event(touched, event)
=============================================================================
