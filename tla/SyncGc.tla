------------------------------- MODULE SyncGc -------------------------------
(***************************************************************************)
(* rbh-sync of a POSIX file system, or of a branch of it, into a Mongo     *)
(* database or an mpi-file, and rbh-gc of that database, while users change*)
(* the file system: the crawl by fts (fts_iter.c), the conversion of       *)
(* fsentries into fsevents and their chunks (rbh-sync.c), the updates      *)
(* (mongo.c, mpi_file.c), the search for entries that are gone (rbh-gc.c). *)
(*                                                                         *)
(* fts changes directory as it goes, so a name is looked up in the         *)
(* directory itself and not through its path.  Optional values are <<>> or *)
(* <<v>>; a path is the sequence of its names from the mount point.  Bound:*)
(* the two commands do not run at the same time.                           *)
(***************************************************************************)
EXTENDS FsTree, PosixEntries

CONSTANTS NoId,           \* ROOT_PARENT_ID
          Outside,        \* the directory that holds the mount point
          SyncChunk,      \* RBH_ITER_CHUNK_SIZE
          Settings,       \* of each rbh-sync run: set of [to: {"mongo", "mpi-file"},
                          \*   proj: the --field, skip: FALSE is --no-skip,
                          \*   one: --one]
          MaxUpsets,      \* bound: changes by users, and failures of calls
          MaxGcs, MaxTime  \* bounds

ASSUME ChunkAssumption == SyncChunk \in Nat \ {0}

VARIABLES db,      \* [id -> document] of the entries collection
          flist,   \* records of the mpi-file
          fts,     \* fts_iterator, children_counter and its sstack
          sync,    \* what rbh-sync is doing
          gc,      \* what rbh-gc is doing
          clock,
          used,    \* how much of the bounds was used; in lost, a ghost, the
                   \*   ids whose upsert was lost by a bulk that failed
          calm     \* ghost: has the file system rested since the last sync began?

syncVars == <<db, flist, fts, sync, gc, clock, used, calm>>
scanVars == <<fsVars, syncVars>>

-----------------------------------------------------------------------------
(* The destinations.                                                       *)

EmptyDoc == [statx |-> <<>>, ns |-> {}, nb |-> <<>>]
Doc(d, id) == IF id \in DOMAIN d THEN d[id] ELSE EmptyDoc
Put(d, id, doc) == [i \in DOMAIN d \cup {id} |-> IF i = id THEN doc ELSE d[i]]
\* Mutant: the names are compared without their parents.
OthersByName(doc, e) == {l \in doc.ns : l.name # e.name}
Others(doc, e) == {l \in doc.ns : <<l.parent, l.name>> # <<e.parent, e.name>>}
NsLink(e) == [parent |-> e.parent, name |-> e.name, path |-> e.path, time |-> e.time]

\* Mutant: a count always replaces another.
CountedAlways(old, new) == IF new = <<>> THEN old ELSE new
\* make_cond_bson(): a newer count, or one as recent as a count not final yet
Counted(old, new) ==
    IF new # <<>> /\ (old = <<>> \/ new[1].ts > old[1].ts
                      \/ (new[1].ts = old[1].ts /\ ~old[1].final))
    THEN new ELSE old

\* Mutant: a count is only stored once.
UpsertedOnce(doc, e) ==
    [doc EXCEPT !.statx = IF e.statx # <<>> THEN e.statx ELSE @,
                !.nb = IF @ = <<>> THEN e.nb ELSE @]
Upserted(doc, e) ==
    [doc EXCEPT !.statx = IF e.statx # <<>> THEN e.statx ELSE @,
                !.nb = Counted(@, e.nb)]

\* mongo_bulk_append_fsevent(): only UPSERT and LINK create a document; LINK
\* pulls the name before it pushes it.
MongoApply(d, e) ==
    LET doc == Doc(d, e.id)
    IN CASE e.type = "UPSERT" -> Put(d, e.id, Upserted(doc, e))
         [] e.type = "LINK" -> Put(d, e.id, [doc EXCEPT !.ns = Others(doc, e) \cup {NsLink(e)}])
         [] e.type = "PUSH" -> Put(d, e.id, [doc EXCEPT !.ns = @ \cup {NsLink(e)}])
         [] e.type = "UNLINK" ->
               IF e.id \in DOMAIN d THEN Put(d, e.id, [doc EXCEPT !.ns = Others(doc, e)]) ELSE d
         [] e.type = "INODE_XATTR" ->
               IF e.id \in DOMAIN d THEN Put(d, e.id, Upserted(doc, e)) ELSE d
         [] e.type = "NS_XATTR" ->
               IF Others(doc, e) # doc.ns
               THEN Put(d, e.id, [doc EXCEPT !.ns = Others(doc, e) \cup {NsLink(e)}]) ELSE d

mongo_backend_update(d, events) == FoldLeft(MongoApply, d, events)

\* The operations of the bulk: a LINK is two of them.
Operations(e) ==
    IF e.type # "LINK" THEN <<e>>
    ELSE <<[e EXCEPT !.type = "UNLINK"], [e EXCEPT !.type = "PUSH"]>>
Bulk(events) == FlattenSeq([n \in DOMAIN events |-> Operations(events[n])])

\* Mutant: an fsevent with extended attributes only makes a record.
FlistSkipsNone(e) == FALSE
FlistSkips(e) == e.type = "UPSERT" /\ e.statx = <<>>

\* mpi_file_update_flist()
FlistUpdate(record, e) ==
    CASE e.type = "UPSERT" -> [record EXCEPT !.statx = IF e.statx # <<>> THEN e.statx ELSE @]
      [] e.type \in {"LINK", "NS_XATTR"} -> [record EXCEPT !.path = <<e.path>>]
      [] OTHER -> record

\* mpi_file_backend_update(): fsevents of the same id in a row are one record.
FlistApply(acc, e) ==
    LET new == acc.last # <<e.id>>
        list == IF new THEN Append(acc.list, [id |-> e.id, path |-> <<>>, statx |-> <<>>])
                ELSE acc.list
    IN IF FlistSkips(e) THEN acc
       ELSE [last |-> <<e.id>>,
             list |-> [list EXCEPT ![Len(list)] = FlistUpdate(@, e)]]

mpi_file_backend_update(list, events) ==
    FoldLeft(FlistApply, [last |-> <<>>, list |-> list], events).list

-----------------------------------------------------------------------------
(* convert_iterator: the fsevents of an fsentry, for a projection.         *)

NoName == ""
Entry(id, parent, name, path) ==
    [id |-> id, parent |-> parent, name |-> name, path |-> path,
     statx |-> <<nlink(id[1])>>, nb |-> <<>>]

\* build_fsentry_nb_children(); an fsentry without id if the directory has none
CountEntry(ptr, count, ts, final) ==
    [id |-> ptr, parent |-> <<>>, name |-> NoName, path |-> <<>>, statx |-> <<>>,
     nb |-> <<[value |-> count, ts |-> ts, final |-> final]>>]

Event(type, e, now) ==
    [type |-> type, id |-> e.id[1], statx |-> e.statx, nb |-> e.nb,
     parent |-> IF e.parent = <<>> THEN NoId ELSE e.parent[1],
     name |-> e.name, path |-> e.path, time |-> now]

\* Mutant: the link comes before the upsert.
ConvertLinkFirst(proj, e, now) ==
    IF e.id = <<>> THEN <<>>
    ELSE (IF {"parent-id", "name"} \subseteq proj /\ e.parent # <<>>
          THEN <<Event("LINK", e, now)>> ELSE <<>>)
         \o (IF "id" \in proj THEN <<Event("UPSERT", e, now)>> ELSE <<>>)

\* upsert_from_fsentry(), link_from_fsentry(), inode_xattr_from_fsentry(), ...
Convert(proj, e, now) ==
    LET upsert == "id" \in proj
        inode_xattr == ~upsert /\ "xattrs" \in proj /\ e.nb # <<>>
        link == {"parent-id", "name"} \subseteq proj /\ e.parent # <<>>
        ns_xattr == ~link /\ e.parent # <<>> /\ "ns-xattrs" \in proj
    IN IF e.id = <<>> THEN <<>>
       ELSE (IF upsert
             THEN <<Event("UPSERT", [e EXCEPT !.statx = IF "statx" \in proj THEN @ ELSE <<>>,
                                              !.nb = IF "xattrs" \in proj THEN @ ELSE <<>>],
                          now)>>
             ELSE <<>>)
         \o (IF inode_xattr THEN <<Event("INODE_XATTR", e, now)>> ELSE <<>>)
         \o (IF link THEN <<Event("LINK", e, now)>> ELSE <<>>)
         \o (IF ns_xattr THEN <<Event("NS_XATTR", e, now)>> ELSE <<>>)

-----------------------------------------------------------------------------
Frame(dir, name, path, ptr, todo, chdir) ==
    [dir |-> dir, name |-> name, path |-> path, ptr |-> ptr, todo |-> todo,
     chdir |-> chdir, kids |-> {}]

NoFts == [frames |-> <<>>, cur |-> <<>>, top |-> <<>>, counter |-> 0, sstack |-> <<>>]
NoSync == [run |-> "idle", to |-> "mongo", proj |-> {}, skip |-> TRUE, start |-> 0, newer |-> TRUE,
           events |-> <<>>, converted |-> 0, skipped |-> 0, orphans |-> {}, why |-> NoError]
NoGc == [run |-> "idle", dry |-> FALSE, check |-> FALSE, todo |-> {}, deletes |-> <<>>,
         total |-> 0, deleted |-> 0]

SyncInit ==
    /\ db = [i \in {} |-> EmptyDoc] /\ flist = <<>>
    /\ fts = NoFts /\ sync = NoSync /\ gc = NoGc
    /\ clock = 0 /\ calm = "no"
    /\ used = [upsets |-> 0, syncs |-> 0, gcs |-> 0, lost |-> {}]

Syncing == sync.run \in {"crawl", "last"}

User ==
    /\ used.upsets < MaxUpsets
    /\ UserStep
    /\ used' = [used EXCEPT !.upsets = @ + 1]
    /\ calm' = "no"
    /\ UNCHANGED <<db, flist, fts, sync, gc, clock>>

\* Time passes between two runs: entries get the sync_time of their run's start.
Tick ==
    /\ clock < MaxTime /\ ~Syncing
    /\ clock' = clock + 1
    /\ UNCHANGED <<fsVars, db, flist, fts, sync, gc, used, calm>>

\* posix_backend_filter() or posix_branch_backend_filter(), fts_iter_new() and
\* fts_iter_root_setup(), which reads the mount point once more: dir is where
\* the crawl starts.
StartSync(dir, set) ==
    /\ ~set.one /\ ~Syncing /\ gc.run = "idle" /\ used.syncs < Len(Settings) /\ Exists(dir)
    /\ fts' = [NoFts EXCEPT !.top = <<[dir |-> dir, path |-> PathOf(dir)]>>,
                            !.sstack = IF dir = Root THEN <<1>> ELSE <<>>]
    /\ sync' = [NoSync EXCEPT !.run = "crawl", !.to = set.to, !.proj = set.proj, !.skip = set.skip,
                              !.start = clock,
                              !.newer = \A i \in DOMAIN db : Doc(db, i).nb = <<>>
                                                             \/ db[i].nb[1].ts < clock,
                              !.converted = IF dir = Root THEN 0 ELSE -1]
    /\ flist' = IF set.to = "mpi-file" THEN <<>> ELSE flist
    /\ calm' = IF dir = Root /\ set.to = "mongo" /\ "id" \in set.proj
               THEN "syncing" ELSE "no"
    /\ used' = [used EXCEPT !.syncs = @ + 1]
    /\ UNCHANGED <<fsVars, db, gc, clock>>

\* rbh-sync --one: posix_root() keeps the mount point's own name.
SyncOne(set) ==
    /\ set.one /\ ~Syncing /\ gc.run = "idle" /\ used.syncs < Len(Settings)
    /\ LET root == Entry(<<Root>>, <<Outside>>, "mnt", <<"mnt">>)
       IN sync' = [NoSync EXCEPT !.run = "last", !.proj = set.proj, !.converted = 1,
                                 !.events = Convert(set.proj, root, clock)]
    /\ calm' = "no"
    /\ used' = [used EXCEPT !.syncs = @ + 1]
    /\ UNCHANGED <<fsVars, db, flist, fts, gc, clock>>

-----------------------------------------------------------------------------
(* fts_iter_next: one step per fts_read().                                 *)

Crawling == sync.run = "crawl" /\ Len(sync.events) < SyncChunk
Top == Last(fts.frames)
Faulty == used.upsets < MaxUpsets

Fault(calls) ==
    /\ calls # NoFailure => Faulty
    /\ used' = [used EXCEPT !.upsets = IF calls = NoFailure THEN @ ELSE @ + 1]

Disturbed(bad) == calm' = IF bad THEN "no" ELSE calm

\* The iterator yields an fsentry.
Yields(e, s) ==
    sync' = [s EXCEPT !.events = @ \o Convert(s.proj, e, clock),
                      !.orphans = IF e.parent = <<>> /\ e.statx # <<>>
                                  THEN @ \cup Range(e.id) ELSE @]

\* The iterator fails: mpi_file_backend_update() goes on for some errors.
Fails(errno, s) ==
    IF s.to = "mpi-file" /\ errno \in {"ESTALE", "ENOENT"} THEN s
    ELSE [s EXCEPT !.run = "failed", !.events = <<>>, !.why = errno]

\* What is left once an entry has failed: with skip_error it is skipped.
Missed(errno, s) ==
    IF s.skip THEN [s EXCEPT !.skipped = @ + 1] ELSE Fails(errno, s)

\* The calls of fsentry_from_any() on what is found: any of them may fail.
Calls(found) ==
    IF found = <<>> THEN {[NoFailure EXCEPT !.open = "ENOENT"]}
    ELSE {NoFailure, [NoFailure EXCEPT !.statx = "EIO"], [NoFailure EXCEPT !.id = "EIO"]}

FaultOf(found, calls) == IF found = <<>> THEN NoFailure ELSE calls

\* A directory is seen: its parent's counter is saved, its own starts at 0.
Entered(f) == [f EXCEPT !.sstack = Append(@, f.counter + 1), !.counter = 0]
Left(f, popped) == [f EXCEPT !.counter = popped, !.sstack = Front(@)]

\* Mutant: the entry that failed stays counted.
UncountedKept(f) == f
Uncounted(f) == [f EXCEPT !.counter = @ - 1]

\* FTS_D, of the first directory or of one that fts found in another
SeeDirectory(found, e, cur, f) ==
    \E calls \in Calls(found) :
        LET errno == fsentry_from_any(calls)
            seen == Entered(f)
        IN /\ Fault(FaultOf(found, calls))
           /\ Disturbed(errno # NoError)
           /\ CASE errno = NoError ->
                     /\ fts' = [seen EXCEPT !.cur = <<[cur EXCEPT !.ptr = found]>>]
                     /\ Yields(e, [sync EXCEPT !.converted = @ + 1])
                [] errno = "ESTALE" ->
                     /\ fts' = [(IF sync.skip THEN Uncounted(seen) ELSE seen) EXCEPT !.cur = <<cur>>]
                     /\ sync' = Missed("ESTALE", sync)
                [] OTHER ->
                     /\ fts' = seen
                     /\ sync' = Fails(errno, [sync EXCEPT !.converted = @ + 1])

Cur(ino, name, path) == [ino |-> ino, name |-> name, path |-> path, ptr |-> <<>>]

\* The first directory of the crawl, found by its absolute path; the parent of a
\* branch's is opened by its path too.
SeeTop ==
    /\ Crawling /\ fts.top # <<>>
    /\ LET t == fts.top[1]
           found == Resolve(t.path)
           parent == IF t.dir = Root THEN <<NoId>> ELSE Resolve(Front(t.path))
           name == IF t.dir = Root THEN NoName ELSE Last(t.path)
           f == [fts EXCEPT !.top = <<>>]
       IN IF parent = <<>>
          THEN /\ fts' = [Entered(f) EXCEPT !.cur = <<Cur(t.dir, name, t.path)>>]
               /\ sync' = Fails("ENOENT", sync)
               /\ UNCHANGED <<used, calm>>
          ELSE SeeDirectory(found, Entry(IF found = <<>> THEN <<Root>> ELSE found,
                                         parent, name, t.path),
                            Cur(t.dir, name, t.path), f)
    /\ UNCHANGED <<fsVars, db, flist, gc, clock>>

\* The next name of the current directory is one that fts saw as a directory.
SeeSubdirectory ==
    /\ Crawling /\ fts.cur = <<>> /\ fts.frames # <<>>
    /\ \E t \in Top.todo :
          LET found == Lookup(Top.dir, t.name)
              path == Append(Top.path, t.name)
              f == [fts EXCEPT !.frames[Len(fts.frames)].todo = @ \ {t}]
          IN /\ t.isdir
             /\ \/ SeeDirectory(found, Entry(IF found = <<>> THEN <<Root>> ELSE found,
                                             Top.ptr, t.name, path),
                                Cur(t.ino, t.name, path), f)
                \/ \* FTS_NS: it was gone when fts_build() looked at it.
                   /\ Faulty
                   /\ used' = [used EXCEPT !.upsets = @ + 1]
                   /\ fts' = f
                   /\ sync' = Missed("ENOENT", sync)
                   /\ Disturbed(TRUE)
    /\ UNCHANGED <<fsVars, db, flist, gc, clock>>

\* FTS_NSOK
SeeFile ==
    /\ Crawling /\ fts.cur = <<>> /\ fts.frames # <<>>
    /\ \E t \in Top.todo :
          LET n == Len(fts.frames)
              found == Lookup(Top.dir, t.name)
              f == [fts EXCEPT !.frames[n].todo = @ \ {t}, !.counter = @ + 1]
          IN /\ ~t.isdir
             /\ \E calls \in Calls(found) :
                   LET errno == fsentry_from_any(calls)
                   IN /\ Fault(FaultOf(found, calls))
                      /\ Disturbed(errno # NoError)
                      /\ CASE errno = NoError ->
                                /\ fts' = [f EXCEPT !.frames[n].kids = @ \cup {t.name}]
                                /\ Yields(Entry(found, Top.ptr, t.name,
                                                Append(Top.path, t.name)),
                                          [sync EXCEPT !.converted = @ + 1])
                           [] errno = "ESTALE" ->
                                /\ fts' = IF sync.skip THEN Uncounted(f) ELSE f
                                /\ sync' = Missed("ESTALE", sync)
                           [] OTHER ->
                                /\ fts' = f
                                /\ sync' = Fails(errno, [sync EXCEPT !.converted = @ + 1])
    /\ UNCHANGED <<fsVars, db, flist, gc, clock>>

\* fts_build() reads the directory just seen.  It is not entered when another
\* one has taken its name.
Descend ==
    /\ Crawling /\ fts.cur # <<>>
    /\ LET c == fts.cur[1]
           found == IF fts.frames = <<>> THEN Resolve(c.path) ELSE Lookup(Top.dir, c.name)
           todo == {[name |-> n, ino |-> tree[<<c.ino, n>>], isdir |-> IsDir(tree[<<c.ino, n>>])]
                       : n \in Entries(c.ino)}
       IN /\ found # <<>> /\ IsDir(found[1])
          /\ fts' = [fts EXCEPT !.cur = <<>>,
                       !.frames = Append(@, Frame(c.ino, c.name, c.path, c.ptr,
                                                  IF found = <<c.ino>> THEN todo ELSE {},
                                                  found = <<c.ino>>))]
    /\ UNCHANGED <<fsVars, db, flist, sync, gc, clock, used, calm>>

\* FTS_DNR: the directory just seen cannot be read, or is gone.
Unreadable ==
    /\ Crawling /\ fts.cur # <<>>
    /\ LET c == fts.cur[1]
           found == IF fts.frames = <<>> THEN Resolve(c.path) ELSE Lookup(Top.dir, c.name)
           gone == found = <<>> \/ ~IsDir(found[1])
       IN /\ ~gone => Faulty
          /\ used' = [used EXCEPT !.upsets = IF gone THEN @ ELSE @ + 1]
          /\ fts' = [(IF sync.skip THEN Left(fts, Last(fts.sstack) - 1) ELSE fts) EXCEPT !.cur = <<>>]
          /\ sync' = LET s == Missed("ENOENT", sync)
                     IN IF fts.frames = <<>> /\ s.run = "crawl" THEN [s EXCEPT !.run = "last"] ELSE s
    /\ Disturbed(TRUE)
    /\ UNCHANGED <<fsVars, db, flist, gc, clock>>

Done == Crawling /\ fts.cur = <<>> /\ fts.frames # <<>> /\ Top.todo = {}
Below == fts.frames[Len(fts.frames) - 1]
\* fts_safe_changedir(): ".." is not the directory that fts came from.
MovedAway == Len(fts.frames) > 1 /\ Top.chdir /\ up[Top.dir] # Below.dir

\* FTS_DP: the number of children goes to the directory's id.
Leave ==
    /\ Done /\ ~MovedAway
    /\ LET n == Len(fts.frames)
           f == Left(fts, Last(fts.sstack))
       IN /\ fts' = [f EXCEPT !.frames =
                        IF n = 1 THEN <<>>
                        ELSE [Front(f.frames) EXCEPT ![n - 1].kids = @ \cup {Top.name}]]
          /\ Yields(CountEntry(Top.ptr, fts.counter, sync.start, TRUE),
                    [sync EXCEPT !.run = IF n = 1 THEN "last" ELSE @])
    /\ UNCHANGED <<fsVars, db, flist, gc, clock, used, calm>>

\* fts stops for good: the next fts_read() says that there is nothing left.
Stop ==
    /\ Done /\ MovedAway
    /\ fts' = NoFts
    /\ sync' = LET s == Fails("ENOENT", sync)
               IN IF s.run = "crawl" THEN [s EXCEPT !.run = "last"] ELSE s
    /\ UNCHANGED <<fsVars, db, flist, gc, clock, used, calm>>

-----------------------------------------------------------------------------
(* sync(): the chunks are sent; a bulk operation that fails ends the run.  *)

Chunk == SubSeq(sync.events, 1, IF Len(sync.events) < SyncChunk THEN Len(sync.events) ELSE SyncChunk)
ChunkReady == Syncing /\ (Len(sync.events) >= SyncChunk \/ (sync.run = "last" /\ sync.events # <<>>))

UpdateChunk ==
    /\ ChunkReady
    /\ db' = IF sync.to = "mongo" THEN mongo_backend_update(db, Chunk) ELSE db
    /\ flist' = IF sync.to = "mpi-file" THEN mpi_file_backend_update(flist, Chunk) ELSE flist
    /\ sync' = [sync EXCEPT !.events = SubSeq(@, Len(Chunk) + 1, Len(@))]
    /\ UNCHANGED <<fsVars, fts, gc, clock, used, calm>>

\* The bulk is not ordered: what is left of it when an operation fails, or when
\* the answer of the server is lost, is stored.
BulkFails ==
    /\ ChunkReady /\ sync.to = "mongo" /\ Faulty
    /\ \E stored \in SUBSET DOMAIN Bulk(Chunk) :
          LET bulk == Bulk(Chunk)
              kept == SetToSortSeq(stored, <)
          IN /\ db' = mongo_backend_update(db, [n \in DOMAIN kept |-> bulk[kept[n]]])
             /\ used' = [used EXCEPT !.upsets = @ + 1,
                           !.lost = @ \cup {bulk[n].id : n \in {m \in DOMAIN bulk \ stored :
                                                             bulk[m].type = "UPSERT"}}]
    /\ sync' = [sync EXCEPT !.run = "failed", !.events = <<>>, !.why = "bulk"]
    /\ calm' = "no"
    /\ UNCHANGED <<fsVars, flist, fts, gc, clock>>

EndSync ==
    /\ sync.run = "last" /\ sync.events = <<>>
    /\ sync' = [sync EXCEPT !.run = "done"]
    /\ fts' = NoFts
    /\ calm' = IF calm = "syncing" THEN "synced" ELSE calm
    /\ UNCHANGED <<fsVars, db, flist, gc, clock, used>>

-----------------------------------------------------------------------------
(* rbh-gc                                                                  *)

\* The cursor: one fsentry per name of a document; an entry without a name is
\* not returned.
Pairs(before) ==
    UNION {{[id |-> i, link |-> l, nlink |-> db[i].statx] : l \in
               {k \in db[i].ns : before = <<>> \/ k.time < before[1]}} : i \in DOMAIN db}

GcStart(dry, check, before) ==
    /\ ~Syncing /\ gc.run = "idle" /\ used.gcs < MaxGcs
    /\ gc' = [NoGc EXCEPT !.run = "run", !.dry = dry, !.check = check, !.todo = Pairs(before)]
    /\ used' = [used EXCEPT !.gcs = @ + 1]
    /\ calm' = IF calm = "synced" /\ ~dry /\ ~check /\ before = <<>> THEN "collecting"
               ELSE IF check THEN "no" ELSE calm
    /\ UNCHANGED <<fsVars, db, flist, fts, sync, clock>>

\* Mutant: the path of a hard-linked entry is not looked up.
still_aliveById(p) == Exists(p.id)
\* still_alive(): by its id, and by its path if it had several links
still_alive(p) ==
    /\ Exists(p.id)
    /\ p.nlink[1] > 1 => Resolve(p.link.path) # <<>>

NextPair == CHOOSE p \in gc.todo : TRUE

\* The link count of an entry without a statx is read: rbh-gc crashes, and what
\* it has not sent yet is not removed.
GcCrash ==
    /\ gc.run = "run" /\ Len(gc.deletes) < SyncChunk
    /\ gc.todo # {} /\ ~gc.check /\ NextPair.nlink = <<>>
    /\ gc' = NoGc
    /\ calm' = "no"
    /\ UNCHANGED <<fsVars, db, flist, fts, sync, clock, used>>

\* fsentry2delete_iter_next(), fsentry2print_iter_next(); a checker (--check) may
\* say anything.
GcCheck ==
    /\ gc.run = "run" /\ Len(gc.deletes) < SyncChunk
    /\ gc.todo # {}
    /\ \E says \in BOOLEAN :
          LET p == NextPair
              keep == IF gc.check THEN says ELSE still_alive(p)
              unlink == [type |-> "UNLINK", id |-> p.id, parent |-> p.link.parent,
                         name |-> p.link.name]
          IN /\ gc.check \/ p.nlink # <<>>
             /\ ~gc.check => says
             /\ gc' = [gc EXCEPT !.todo = @ \ {p}, !.total = @ + 1,
                                 !.deletes = IF keep \/ gc.dry THEN @ ELSE Append(@, unlink)]
    /\ UNCHANGED <<fsVars, db, flist, fts, sync, clock, used, calm>>

GcUpdate ==
    /\ gc.run = "run" /\ gc.deletes # <<>>
    /\ Len(gc.deletes) = SyncChunk \/ gc.todo = {}
    /\ db' = mongo_backend_update(db, gc.deletes)
    /\ gc' = [gc EXCEPT !.deleted = @ + Len(gc.deletes), !.deletes = <<>>]
    /\ UNCHANGED <<fsVars, flist, fts, sync, clock, used, calm>>

\* insert_gc_log(): the counts go to the log.
GcEnd ==
    /\ gc.run = "run" /\ gc.todo = {} /\ gc.deletes = <<>>
    /\ gc' = NoGc
    /\ calm' = IF calm = "collecting" THEN "collected" ELSE calm
    /\ UNCHANGED <<fsVars, db, flist, fts, sync, clock, used>>

\* Bound: a run into an mpi-file is the last.
Setting == IF used.syncs < Len(Settings) /\ sync.to = "mongo" THEN Settings[used.syncs + 1] ELSE {}

SyncNext ==
    \/ User \/ Tick
    \/ \E set \in Setting : \/ \E dir \in Dir \cup {Root} : StartSync(dir, set)
                            \/ SyncOne(set)
    \/ SeeTop \/ SeeSubdirectory \/ SeeFile \/ Descend \/ Unreadable \/ Leave \/ Stop
    \/ UpdateChunk \/ BulkFails \/ EndSync
    \/ GcStart(FALSE, FALSE, <<>>) \/ GcStart(FALSE, FALSE, <<clock>>)
    \/ GcStart(TRUE, FALSE, <<>>) \/ GcStart(FALSE, TRUE, <<>>)
    \/ GcCheck \/ GcCrash \/ GcUpdate \/ GcEnd

-----------------------------------------------------------------------------
Rested == calm \in {"synced", "collecting", "collected"}

\* After a synchronization during which nothing changed and nothing failed,
\* whatever earlier runs and changes left in the database, every name of the
\* file system is there with its path and its entry's attributes, and a
\* collection does not take them away (sync, still_alive).
NamesSynced ==
    Rested =>
        /\ Root \in DOMAIN db
        /\ \A l \in DOMAIN tree :
              /\ tree[l] \in DOMAIN db
              /\ db[tree[l]].statx = <<nlink(tree[l])>>
              /\ \E k \in db[tree[l]].ns : /\ <<k.parent, k.name>> = l
                                           /\ k.path = Append(PathOf(l[1]), l[2])

\* After such a synchronization the number of children of every directory is
\* right, if it started in a later second than the last count (make_cond_bson).
ChildrenSynced ==
    Rested /\ sync.newer =>
        \A d \in Dir \cup {Root} :
            Exists(d) => db[d].nb # <<>> /\ db[d].nb[1].value = Cardinality(Entries(d))

\* At any time of the crawl, the counter of a directory and those that wait in
\* the stack are the numbers of files of their directories that were
\* synchronized and of subdirectories that were read, whichever vanished or
\* failed (children_counter in fts_iter_next).  The one of a directory that was
\* skipped, which is for nobody, is one less.
CountersMatch ==
    sync.run = "crawl" /\ sync.to = "mongo" =>
        LET n == Len(fts.frames)
            m == n + Len(fts.cur)
            Ptr(i) == IF i <= n THEN fts.frames[i].ptr ELSE fts.cur[1].ptr
            Kids(i) == IF i <= n THEN Cardinality(fts.frames[i].kids) ELSE 0
            Expected(i) == Kids(i) - (IF Ptr(i) = <<>> THEN 1 ELSE 0)
            base == Len(fts.sstack) - m
        IN m > 0 => /\ fts.counter = Expected(m)
                    /\ \A i \in 1 .. m - 1 : fts.sstack[base + 1 + i] = Expected(i) + 1

\* After such a synchronization and a collection, what is left of what is gone
\* are the names of entries that still exist, and that had one link (the check is
\* by id only) or whose old path leads to another entry (still_alive).
Collected ==
    calm = "collected" =>
        \A i \in DOMAIN db : \A k \in db[i].ns :
            \/ k.parent = NoId
            \/ Lookup(k.parent, k.name) = <<i>>
            \/ Exists(i) /\ (db[i].statx[1] <= 1 \/ Resolve(k.path) # <<>>)

\* Whatever a crawl, a chunk or a collection left unfinished, every name that
\* rbh-gc gets has the link count that it reads without a test
\* (fsentry2delete_iter_next), unless a bulk that failed has lost the upsert of
\* the entry; rbh-gc crashes for no other name.
LinkCountKnown ==
    \A i \in DOMAIN db : db[i].ns # {} => db[i].statx # <<>> \/ i \in used.lost

\* A record of the mpi-file has both a path and attributes, unless the fsevents
\* of the entry were in two chunks, which makes two records of it, or the entry
\* has no known parent (mpi_file_backend_update).
FlistWhole ==
    sync.run = "done" /\ sync.to = "mpi-file" /\ "id" \in sync.proj =>
        \A n \in DOMAIN flist :
            LET r == flist[n]
            IN \/ r.path # <<>> /\ r.statx # <<>>
               \/ r.statx # <<>> /\ n < Len(flist) /\ flist[n + 1].id = r.id
               \/ r.path # <<>> /\ n > 1 /\ flist[n - 1].id = r.id
               \/ r.id \in sync.orphans
=============================================================================
