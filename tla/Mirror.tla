------------------------------- MODULE Mirror -------------------------------
(***************************************************************************)
(* How rbh-fsevents keeps a Mongo database in line with a Lustre file      *)
(* system: operations of users leave changelog records, whose fsevents     *)
(* (LustreRecords) go through the pool (FsEventPool) in batches; workers   *)
(* enrich them with what the file system holds by then and update the      *)
(* database (deduplicator.c, enrichers/posix/posix.c, mongo.c).            *)
(*                                                                         *)
(* A worker gets the fsevents of an id in order; those of two ids may go to*)
(* two workers, so the fsevents sent are a queue per id.  Directories      *)
(* always exist.                                                           *)
(***************************************************************************)
EXTENDS FsEventPool

CONSTANTS File, Dir, Name,
          PoolSize,     \* --batch-size
          MaxRecords,   \* bound: changelog records, and crashes of rbh-fsevents
          Relink,       \* may a file get back a name it lost?
          DeleteMoved   \* may a file that was renamed or hard linked be deleted?

ASSUME IdsAssumption == File \cap Dir = {}
ASSUME PoolSizeAssumption == PoolSize \in Nat \ {0}
ASSUME BoundAssumption == MaxRecords \in Nat
ASSUME HistoryAssumption == Relink \in BOOLEAN /\ DeleteMoved \in BOOLEAN

Link == Dir \X Name
Id == File \cup Dir

VARIABLES
    links,      \* the names of each file in the file system
    had,        \* every name a file ever had
    stale,      \* per id, what changed and the database has not been told
    records,    \* number of changelog records so far
    fsevents,   \* fsevents of the records that are not in the pool yet
    unacked,    \* the fsevents of the records that are not acknowledged
    ends,       \* where the fsevents of a record end in unacked
    flushed,    \* the last of these that the batches sent so far cover
    crashes,    \* times rbh-fsevents was killed
    pool,
    sent,       \* per id, flushed fsevents that no worker has processed
    entries,    \* the files of the database
    ns,         \* the names of each file in the database
    nb_children \* of each directory, in the database

fs == <<links, had, records>>
db == <<entries, ns, nb_children>>
changelog == <<unacked, ends, flushed, crashes>>
vars == <<fs, stale, fsevents, changelog, pool, sent, db>>

Init ==
    /\ links = [f \in File |-> {}] /\ had = [f \in File |-> {}]
    /\ stale = [i \in Id |-> {}]
    /\ records = 0
    /\ fsevents = <<>>
    /\ unacked = <<>> /\ ends = {} /\ flushed = 0 /\ crashes = 0
    /\ pool = EmptyPool
    /\ sent = [i \in Id |-> <<>>]
    /\ entries = {}
    /\ ns = [f \in File |-> {}]
    /\ nb_children = [d \in Dir |-> 0]

-----------------------------------------------------------------------------
(* What users do, and the record that the MDT logs.                        *)

Alive(f) == links[f] # {}
Used == UNION {links[f] : f \in File}
Moved(f) == \E l, m \in had[f] : l # m

Logged(events) ==
    /\ records + crashes < MaxRecords
    /\ records' = records + 1
    /\ fsevents' = fsevents \o events
    /\ unacked' = unacked \o events
    /\ ends' = ends \cup {Len(unacked) + Len(events)}
    /\ UNCHANGED <<flushed, crashes>>

\* A file takes a name, and the attributes of it and of directories change.
Names(f, l, taken) ==
    /\ Relink \/ l \notin had[f]
    /\ links' = [taken EXCEPT ![f] = @ \cup {l}]
    /\ had' = [had EXCEPT ![f] = @ \cup {l}]

Changed(what) == stale' = [i \in Id |-> stale[i] \cup what[i]]

\* The attributes that an operation changes: attrs of f, and the times of dirs.
Touches(f, attrs, dirs) ==
    [i \in Id |-> CASE i = f -> attrs [] i \in dirs -> {"time"} [] OTHER -> {}]

Create(f, l) ==
    /\ had[f] = {} /\ l \notin Used
    /\ Names(f, l, links)
    /\ Changed(Touches(f, Statx \cup {"lustre"}, {Parent(l)}))
    /\ Logged(build_create_inode_events(f, l))
    /\ UNCHANGED <<pool, sent, db>>

Write(f) ==
    /\ Alive(f)
    /\ Changed(Touches(f, {"time", "size"}, {}))
    /\ Logged(build_statx_update_event(f))
    /\ UNCHANGED <<links, had, pool, sent, db>>

SetXattr(f) ==
    /\ Alive(f)
    /\ Changed(Touches(f, {"time", "xattr"}, {}))
    /\ Logged(build_setxattr_event(f))
    /\ UNCHANGED <<links, had, pool, sent, db>>

HardLink(f, l) ==
    /\ Alive(f) /\ l \notin Used
    /\ Names(f, l, links)
    /\ Changed(Touches(f, {"nlink"}, {Parent(l)}))
    /\ Logged(build_hardlink_events(f, l))
    /\ UNCHANGED <<pool, sent, db>>

Rename(f, from, to) ==
    /\ from \in links[f] /\ to \notin Used
    /\ Names(f, to, [links EXCEPT ![f] = @ \ {from}])
    /\ Changed(Touches(f, {"time"}, {Parent(from), Parent(to)}))
    /\ Logged(build_rename_events(f, from, to))
    /\ UNCHANGED <<pool, sent, db>>

RenameOver(f, from, to, over) ==
    /\ f # over /\ from \in links[f] /\ to \in links[over]
    /\ links[over] = {to} /\ Moved(over) => DeleteMoved
    /\ Names(f, to, [links EXCEPT ![f] = @ \ {from}, ![over] = @ \ {to}])
    /\ stale' = [i \in Id |-> stale[i] \cup
                    Touches(f, {"time"}, {Parent(from), Parent(to)})[i] \cup
                    Touches(over, {"nlink"}, {})[i]]
    /\ Logged(build_rename_over_events(f, from, to, over, links[over] = {to}))
    /\ UNCHANGED <<pool, sent, db>>

Unlink(f, l) ==
    /\ l \in links[f]
    /\ links[f] = {l} /\ Moved(f) => DeleteMoved
    /\ links' = [links EXCEPT ![f] = @ \ {l}]
    /\ Changed(Touches(f, {"nlink"}, {Parent(l)}))
    /\ Logged(build_unlink_events(f, l, links[f] = {l}))
    /\ UNCHANGED <<had, pool, sent, db>>

-----------------------------------------------------------------------------
(* deduplicator_iter_next                                                  *)

Pushed(p) ==
    /\ pool' = p
    /\ fsevents' = Tail(fsevents)
    /\ UNCHANGED <<fs, stale, changelog, sent, db>>

\* Once a push found the pool full, the next step is the flush.
CanPush == fsevents # <<>> /\ ~pool.need_to_flush

PushDeduplicated ==
    /\ CanPush /\ Holds(pool, Head(fsevents).id)
    /\ Pushed(deduplicate_event(pool, Head(fsevents)))

PushNew ==
    /\ CanPush /\ ~Holds(pool, Head(fsevents).id)
    /\ ~rbh_fsevent_pool_is_full(pool, PoolSize)
    /\ Pushed(rbh_fsevent_pool_insert_new_entry(pool, Head(fsevents)))

\* POOL_FULL: the fsevent is kept in last_fsevent, and pushed again first.
PushFull ==
    /\ CanPush /\ ~Holds(pool, Head(fsevents).id)
    /\ rbh_fsevent_pool_is_full(pool, PoolSize)
    /\ pool' = [pool EXCEPT !.need_to_flush = TRUE]
    /\ UNCHANGED <<fs, stale, fsevents, changelog, sent, db>>

\* How many fsevents of unacked have been pushed.
NbPushed == Len(unacked) - Len(fsevents)

\* Mutant: the record of the fsevent kept in last_fsevent is covered too.
CoveredStarted ==
    Min({n \in ends \cup {Len(unacked)} : n > NbPushed \/ n = Len(unacked)})

\* lustre_changelog_save_batch: the records that have no fsevent left to push.
Covered == Max({n \in ends \cup {0} : n <= NbPushed})

\* Mutant: a batch that is not full waits for more fsevents.
FlushFull ==
    /\ pool.need_to_flush
    /\ pool.count > 0
    /\ sent' = [i \in Id |-> IF Holds(pool, i) THEN sent[i] \o pool.events[i]
                                               ELSE sent[i]]
    /\ pool' = EmptyPool
    /\ flushed' = Covered
    /\ UNCHANGED <<fs, stale, fsevents, unacked, ends, crashes, db>>

\* rbh_fsevent_pool_flush, when the pool is full or the source has no more data.
Flush ==
    /\ pool.need_to_flush \/ fsevents = <<>>
    /\ pool.count > 0
    /\ sent' = [i \in Id |-> IF Holds(pool, i) THEN sent[i] \o pool.events[i]
                                               ELSE sent[i]]
    /\ pool' = EmptyPool
    /\ flushed' = Covered
    /\ UNCHANGED <<fs, stale, fsevents, unacked, ends, crashes, db>>

-----------------------------------------------------------------------------
(* A worker: posix_enricher_iter_next, then mongo_bulk_append_fsevent.     *)

\* An entry that is gone cannot be opened by its id: ESTALE.
Stale(event) ==
    event.enrich # {} /\ event.id \in File /\ ~Alive(event.id)

\* What the enricher reads is what the file system holds now.
Enriched(event) == [stale EXCEPT ![event.id] = @ \ event.enrich]

\* The entry that an update without upsert finds.
Found(id) == id \in entries \cup Dir

\* A LINK pulls the name, then pushes it.
Mongo(event) ==
    LET f == event.id
    IN  CASE event.type = "LINK" ->
                /\ entries' = entries \cup {f}
                /\ ns' = [ns EXCEPT ![f] = @ \cup {event.link}]
                /\ UNCHANGED nb_children
          [] event.type = "UNLINK" ->
                /\ ns' = [ns EXCEPT ![f] = @ \ {event.link}]
                /\ UNCHANGED <<entries, nb_children>>
          [] event.type = "DELETE" ->
                /\ entries' = entries \ {f}
                /\ ns' = [ns EXCEPT ![f] = {}]
                /\ UNCHANGED nb_children
          [] event.type = "UPSERT" ->
                /\ entries' = entries \cup ({f} \cap File)
                /\ UNCHANGED <<ns, nb_children>>
          [] event.type = "XATTR" ->
                /\ nb_children' = [d \in Dir |-> IF d = f
                                                   THEN nb_children[d] + event.inc
                                                   ELSE nb_children[d]]
                /\ UNCHANGED <<entries, ns>>

Process(id) ==
    /\ sent[id] # <<>>
    /\ ~Stale(Head(sent[id]))
    /\ sent' = [sent EXCEPT ![id] = Tail(@)]
    /\ stale' = IF Head(sent[id]).type = "XATTR" /\ ~Found(id)
                  THEN stale ELSE Enriched(Head(sent[id]))
    /\ Mongo(Head(sent[id]))
    /\ UNCHANGED <<fs, fsevents, changelog, pool>>

\* The enricher skips the fsevent (--no-skip is not given).
Skip(id) ==
    /\ sent[id] # <<>>
    /\ Stale(Head(sent[id]))
    /\ sent' = [sent EXCEPT ![id] = Tail(@)]
    /\ UNCHANGED <<fs, stale, fsevents, changelog, pool, db>>

-----------------------------------------------------------------------------
(* Acknowledgment and restart (LustreAck has them in detail).               *)

\* The workers have processed everything that was sent: its records are
\* acknowledged.
Ack ==
    /\ flushed > 0 /\ \A i \in Id : sent[i] = <<>>
    /\ unacked' = SubSeq(unacked, flushed + 1, Len(unacked))
    /\ ends' = {n - flushed : n \in {m \in ends : m > flushed}}
    /\ flushed' = 0
    /\ UNCHANGED <<fs, stale, fsevents, crashes, pool, sent, db>>

\* rbh-fsevents is killed and started again: the records that it did not
\* acknowledge are read again.
Crash ==
    /\ records + crashes < MaxRecords
    /\ crashes' = crashes + 1
    /\ fsevents' = unacked /\ flushed' = 0
    /\ pool' = EmptyPool
    /\ sent' = [i \in Id |-> <<>>]
    /\ UNCHANGED <<fs, stale, unacked, ends, db>>

-----------------------------------------------------------------------------
UserStep ==
    \/ \E f \in File, l \in Link : \/ Create(f, l)
                                   \/ HardLink(f, l)
                                   \/ Unlink(f, l)
    \/ \E f \in File : Write(f) \/ SetXattr(f)
    \/ \E f \in File, from, to \in Link :
          \/ Rename(f, from, to)
          \/ \E over \in File : RenameOver(f, from, to, over)

RbhStep ==
    \/ PushDeduplicated \/ PushNew \/ PushFull \/ Flush
    \/ \E i \in Id : Process(i) \/ Skip(i)

Next == UserStep \/ RbhStep \/ Ack \/ Crash

Fairness == WF_vars(PushDeduplicated \/ PushNew \/ PushFull \/ Flush)
         /\ \A i \in Id : WF_vars(Process(i) \/ Skip(i))

Spec == Init /\ [][Next]_vars /\ Fairness

-----------------------------------------------------------------------------
\* Every variable has the type of what it stands for.
TypeOK ==
    /\ links \in [File -> SUBSET Link] /\ had \in [File -> SUBSET Link]
    /\ stale \in [Id -> SUBSET (Statx \cup Xattrs)]
    /\ records \in 0 .. MaxRecords
    /\ \A n \in DOMAIN fsevents : fsevents[n] \in Fsevent(Id, Link)
    /\ \A n \in DOMAIN unacked : unacked[n] \in Fsevent(Id, Link)
    /\ ends \subseteq 1 .. Len(unacked) /\ flushed \in ends \cup {0}
    /\ crashes \in 0 .. MaxRecords
    /\ DOMAIN pool.events \subseteq Id
    /\ \A i \in DOMAIN pool.events : \A n \in DOMAIN pool.events[i] :
          pool.events[i][n] \in Fsevent(Id, Link)
    /\ \A i \in Id : \A n \in DOMAIN sent[i] : sent[i][n] \in Fsevent(Id, Link)
    /\ entries \subseteq File
    /\ ns \in [File -> SUBSET Link]
    /\ nb_children \in [Dir -> Int]

\* Whatever a push cancels, the pool's three views of the ids it holds agree:
\* the flush loop, which runs count times on the first of ids, finds each list
\* in the hashmap (its assert), and none is empty (rbh_fsevent_pool_flush).
PoolConsistent ==
    /\ pool.count = Len(pool.ids) /\ pool.count <= PoolSize
    /\ ToSet(pool.ids) = DOMAIN pool.events
    /\ pool.count = Cardinality(DOMAIN pool.events)
    /\ \A i \in DOMAIN pool.events : pool.events[i] # <<>>

\* Nothing is on its way to the database.
CaughtUp == fsevents = <<>> /\ pool.count = 0 /\ \A i \in Id : sent[i] = <<>>

\* Once it has caught up, the database holds every file that exists under all its
\* names, whatever was merged, cancelled, split between batches and reordered
\* between workers on the way (deduplicate_event), and whatever records were read
\* again after a crash: what is lost with the process was not acknowledged
\* (lustre_changelog_save_batch). As long as no record had to be read again, it
\* holds nothing else.
NamesMirrored ==
    CaughtUp =>
        /\ \A f \in File : Alive(f) => f \in entries /\ links[f] \subseteq ns[f]
        /\ crashes = 0 => entries = {f \in File : Alive(f)} /\ ns = links

\* Once it has caught up, crashes or not, every attribute of every file and
\* directory that exists was read after its last change (dedup_upsert,
\* dedup_xattrs), but for the link count of a file that lost a name.
AttributesMirrored ==
    CaughtUp => \A i \in Id : i \in Dir \/ Alive(i) =>
        stale[i] \subseteq IF i \in File /\ had[i] # links[i] THEN {"nlink"} ELSE {}

\* Once it has caught up, nb_children of a directory is the number of names in
\* it (update_parent_nb_children_event, increment_xattr_value), as long as no
\* record had to be read again: an increment is not idempotent.
ChildrenCounted ==
    CaughtUp /\ crashes = 0 => \A d \in Dir :
        nb_children[d] = Cardinality({l \in Used : Parent(l) = d})

\* rbh-fsevents catches up: no fsevent stays in the pool, or in last_fsevent,
\* because no other one comes to fill a batch (deduplicator_iter_next).
CatchesUp == []<>CaughtUp
=============================================================================
