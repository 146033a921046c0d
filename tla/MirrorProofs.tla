---------------------------- MODULE MirrorProofs ----------------------------
(***************************************************************************)
(* What the database holds once rbh-fsevents has caught up, for any number *)
(* of files, directories, names, records and crashes, and any size of the  *)
(* pool.                                                                   *)
(***************************************************************************)
EXTENDS Mirror, PoolProofs

Ev == Fsevent(Id, Link)

\* An fsevent is well formed: names are names of files, and what is read from the
\* file system is read by an UPSERT or an XATTR.
Fits(e) ==
    /\ e.type \in {"LINK", "UNLINK", "DELETE"} => e.id \in File /\ e.enrich = {}
    /\ e.type \in {"LINK", "UNLINK"} => e.link \in Link

\* The fsevents on their way: to be pushed, in the pool, sent.
Coming == ToSet(fsevents)
Cached(i) == ToSet(List(pool, i))
Queued(i) == ToSet(sent[i])
Logs == ToSet(unacked)

-----------------------------------------------------------------------------
(* Types, and how the queues relate.                                       *)

FsInv ==
    /\ links \in [File -> SUBSET Link] /\ had \in [File -> SUBSET Link]
    /\ stale \in [Id -> SUBSET (Statx \cup Xattrs)]
    /\ records \in 0 .. MaxRecords /\ crashes \in 0 .. MaxRecords

DbInv ==
    entries \subseteq File /\ ns \in [File -> SUBSET Link] /\ nb_children \in [Dir -> Int]

\* What is to be pushed is the end of what is not acknowledged, and none of it is
\* covered by a batch.
LogInv ==
    /\ fsevents \in Seq(Ev) /\ unacked \in Seq(Ev)
    /\ ends \subseteq 1 .. Len(unacked) /\ flushed \in ends \cup {0}
    /\ Len(fsevents) <= Len(unacked) /\ flushed <= NbPushed
    /\ \A n \in 1 .. Len(fsevents) : fsevents[n] = unacked[NbPushed + n]

QueueInv ==
    /\ sent \in [Id -> Seq(Ev)]
    /\ Consistent(pool, Id, Ev) /\ pool.count <= PoolSize

FitsInv ==
    /\ \A e \in Coming \cup Logs : Fits(e)
    /\ \A i \in Id : \A e \in Cached(i) \cup Queued(i) : Fits(e) /\ e.id = i

TypeInv == FsInv /\ DbInv /\ LogInv /\ QueueInv /\ FitsInv

\* A list of the pool is a list of fsevents.
LEMMA ListType ==
    ASSUME QueueInv, NEW i
    PROVE  List(pool, i) \in Seq(Ev)
<1>1. pool.events \in [DOMAIN pool.events -> Seq(Ev)]
  BY ConsistentParts DEF QueueInv
<1> QED
  BY <1>1 DEF List, Holds

\* The pool after a flush, or at the start.
LEMMA EmptyFacts ==
    /\ Consistent(EmptyPool, Id, Ev) /\ EmptyPool.count = 0
    /\ \A i : List(EmptyPool, i) = <<>> /\ ~Holds(EmptyPool, i)
<1> DEFINE events == <<>>
           ids == <<>>
<1>1. EmptyPool = [events |-> events, ids |-> ids, count |-> 0, need_to_flush |-> FALSE]
  BY DEF EmptyPool
<1>2. ids \in Seq(Id) /\ Len(ids) = 0 /\ DOMAIN events = {} /\ NoDuplicate(ids)
  BY DEF NoDuplicate
<1>3. IsFiniteSet({}) /\ Cardinality({}) = 0
  BY FS_EmptySet
<1>4. ToSet(ids) = {}
  BY ToSetEmpty
<1>5. events \in [DOMAIN events -> Seq(Ev)]
  OBVIOUS
<1>6. \A i : List(EmptyPool, i) = <<>> /\ ~Holds(EmptyPool, i)
  BY <1>1, <1>2 DEF List, Holds
<1> HIDE DEF events, ids
<1>7. Consistent(EmptyPool, Id, Ev)
  BY <1>1, <1>2, <1>3, <1>4, <1>5, ConsistentMade
<1> QED
  BY <1>1, <1>6, <1>7

\* rbh-fsevents starts with nothing on its way.
LEMMA TypeInit == Init => TypeInv
<1> SUFFICES ASSUME Init PROVE TypeInv
  OBVIOUS
<1> USE DEF Init
<1>1. FsInv
  BY BoundAssumption DEF FsInv
<1>2. DbInv
  BY DEF DbInv
<1>3. LogInv
  BY DEF LogInv, NbPushed
<1>4. QueueInv
  BY EmptyFacts, PoolSizeAssumption DEF QueueInv
<1>5. FitsInv
  <2>1. Coming = {} /\ Logs = {}
    BY ToSetEmpty DEF Coming, Logs
  <2>2. \A i \in Id : Cached(i) = {} /\ Queued(i) = {}
    BY ToSetEmpty, EmptyFacts DEF Cached, Queued
  <2> QED
    BY <2>1, <2>2 DEF FitsInv
<1> QED
  BY <1>1, <1>2, <1>3, <1>4, <1>5 DEF TypeInv

\* The inductive invariant is about what the run checks.
LEMMA TypeImplies == TypeInv => TypeOK /\ PoolConsistent
<1> SUFFICES ASSUME TypeInv PROVE TypeOK /\ PoolConsistent
  OBVIOUS
<1> USE DEF TypeInv
<1>p. /\ DOMAIN pool.events \subseteq Id /\ pool.events \in [DOMAIN pool.events -> Seq(Ev)]
      /\ pool.count = Len(pool.ids) /\ ToSet(pool.ids) = DOMAIN pool.events
      /\ pool.count = Cardinality(DOMAIN pool.events)
      /\ \A i \in DOMAIN pool.events : pool.events[i] # <<>>
  BY ConsistentParts DEF QueueInv
<1>1. PoolConsistent
  BY <1>p DEF PoolConsistent, QueueInv
<1>2. \A i \in DOMAIN pool.events : \A n \in DOMAIN pool.events[i] : pool.events[i][n] \in Ev
  BY <1>p
<1>3. \A i \in Id : \A n \in DOMAIN sent[i] : sent[i][n] \in Ev
  BY DEF QueueInv
<1>4. /\ \A n \in DOMAIN fsevents : fsevents[n] \in Ev
      /\ \A n \in DOMAIN unacked : unacked[n] \in Ev
  BY DEF LogInv
<1>5. ends \subseteq 1 .. Len(unacked) /\ flushed \in ends \cup {0}
  BY DEF LogInv
<1> QED
  BY <1>p, <1>1, <1>2, <1>3, <1>4, <1>5 DEF TypeOK, FsInv, DbInv, Ev

-----------------------------------------------------------------------------
(* The records.                                                            *)

\* The parent of a link is a directory.
LEMMA ParentType ==
    ASSUME NEW l \in Link
    PROVE  Parent(l) \in Dir /\ Parent(l) \in Id
BY DEF Link, Parent, Id

\* The two fsevents of unlink_inode_event.
UnlinkOf(i, l) == Event("UNLINK", i, l, {}, 0)
DeleteOf(i) == Event("DELETE", i, NoLink, {}, 0)

\* Every constructor of fsevents makes an fsevent.
LEMMA EventFacts ==
    ASSUME NEW i \in Id
    PROVE  /\ \A l \in Link : new_link_inode_event(i, l) \in Ev
           /\ \A l \in Link : \A last : unlink_inode_event(i, l, last) \in Ev
           /\ \A l \in Link : UnlinkOf(i, l) \in Ev
           /\ \A mask \in SUBSET Statx : build_statx_event(i, mask) \in Ev
           /\ \A keys \in SUBSET Xattrs : build_enrich_xattr(i, keys) \in Ev
           /\ update_parent_acmtime_event(i) \in Ev
           /\ \A inc \in Int : update_parent_nb_children_event(i, inc) \in Ev
BY DEF Ev, Fsevent, Event, UnlinkOf, new_link_inode_event, unlink_inode_event, build_statx_event,
       build_enrich_xattr, update_parent_acmtime_event, update_parent_nb_children_event,
       Statx, Xattrs

\* Records are lists of a few fsevents.
LEMMA Sequences3 ==
    ASSUME NEW S, NEW a \in S, NEW b \in S, NEW c \in S
    PROVE  /\ <<a, b, c>> \in Seq(S) /\ Len(<<a, b, c>>) = 3
           /\ <<a, b, c>> # <<>> /\ ToSet(<<a, b, c>>) = {a, b, c}
           /\ <<a, b, c>>[1] = a /\ <<a, b, c>>[2] = b /\ <<a, b, c>>[3] = c
<1> DEFINE q == <<a, b, c>>
<1>1. q \in Seq(S) /\ Len(q) = 3 /\ q # <<>> /\ q[1] = a /\ q[2] = b /\ q[3] = c
  OBVIOUS
<1> HIDE DEF q
<1>2. ToSet(q) = {q[n] : n \in 1 .. 3}
  BY <1>1, ToSetFacts
<1>3. 1 .. 3 = {1, 2, 3}
  OBVIOUS
<1>4. ToSet(q) = {a, b, c}
  BY <1>1, <1>2, <1>3
<1> QED
  BY <1>1, <1>4 DEF q

\* Two fsevents.
LEMMA Sequences2 ==
    ASSUME NEW S, NEW a \in S, NEW b \in S
    PROVE  /\ <<a, b>> \in Seq(S) /\ Len(<<a, b>>) = 2
           /\ <<a, b>> # <<>> /\ ToSet(<<a, b>>) = {a, b}
           /\ <<a, b>>[1] = a /\ <<a, b>>[2] = b
<1> DEFINE q == <<a, b>>
<1>1. q \in Seq(S) /\ Len(q) = 2 /\ q # <<>> /\ q[1] = a /\ q[2] = b
  OBVIOUS
<1> HIDE DEF q
<1>2. ToSet(q) = {q[n] : n \in 1 .. 2}
  BY <1>1, ToSetFacts
<1>3. 1 .. 2 = {1, 2}
  OBVIOUS
<1>4. ToSet(q) = {a, b}
  BY <1>1, <1>2, <1>3
<1> QED
  BY <1>1, <1>4 DEF q

\* Four fsevents.
LEMMA Sequences4 ==
    ASSUME NEW S, NEW a \in S, NEW b \in S, NEW c \in S, NEW d \in S
    PROVE  /\ <<a, b, c, d>> \in Seq(S) /\ Len(<<a, b, c, d>>) = 4
           /\ <<a, b, c, d>> # <<>> /\ ToSet(<<a, b, c, d>>) = {a, b, c, d}
           /\ <<a, b, c, d>>[1] = a /\ <<a, b, c, d>>[2] = b
           /\ <<a, b, c, d>>[3] = c /\ <<a, b, c, d>>[4] = d
<1> DEFINE q == <<a, b, c, d>>
<1>1. q \in Seq(S) /\ Len(q) = 4 /\ q # <<>> /\ q[1] = a /\ q[2] = b /\ q[3] = c /\ q[4] = d
  OBVIOUS
<1> HIDE DEF q
<1>2. ToSet(q) = {q[n] : n \in 1 .. 4}
  BY <1>1, ToSetFacts
<1>3. 1 .. 4 = {1, 2, 3, 4}
  OBVIOUS
<1>4. ToSet(q) = {a, b, c, d}
  BY <1>1, <1>2, <1>3
<1> QED
  BY <1>1, <1>4 DEF q

\* Five fsevents.
LEMMA Sequences5 ==
    ASSUME NEW S, NEW a \in S, NEW b \in S, NEW c \in S, NEW d \in S, NEW e \in S
    PROVE  /\ <<a, b, c, d, e>> \in Seq(S) /\ Len(<<a, b, c, d, e>>) = 5
           /\ <<a, b, c, d, e>> # <<>> /\ ToSet(<<a, b, c, d, e>>) = {a, b, c, d, e}
           /\ <<a, b, c, d, e>>[1] = a /\ <<a, b, c, d, e>>[2] = b
           /\ <<a, b, c, d, e>>[3] = c /\ <<a, b, c, d, e>>[4] = d
           /\ <<a, b, c, d, e>>[5] = e
<1> DEFINE q == <<a, b, c, d, e>>
<1>1. /\ q \in Seq(S) /\ Len(q) = 5 /\ q # <<>> /\ q[1] = a /\ q[2] = b /\ q[3] = c
      /\ q[4] = d /\ q[5] = e
  OBVIOUS
<1> HIDE DEF q
<1>2. ToSet(q) = {q[n] : n \in 1 .. 5}
  BY <1>1, ToSetFacts
<1>3. 1 .. 5 = {1, 2, 3, 4, 5}
  OBVIOUS
<1>4. ToSet(q) = {a, b, c, d, e}
  BY <1>1, <1>2, <1>3
<1> QED
  BY <1>1, <1>4 DEF q

\* The fsevents of each kind of record, in no order, and their first one.
LEMMA CreateRecord ==
    ASSUME NEW f \in File, NEW l \in Link
    PROVE  /\ build_create_inode_events(f, l) \in Seq(Ev)
           /\ build_create_inode_events(f, l) # <<>>
           /\ build_create_inode_events(f, l)[1] = new_link_inode_event(f, l)
           /\ ToSet(build_create_inode_events(f, l)) =
                {new_link_inode_event(f, l), build_enrich_xattr(f, {"lustre"}),
                 build_statx_event(f, Statx), update_parent_acmtime_event(Parent(l)),
                 update_parent_nb_children_event(Parent(l), 1)}
<1>1. f \in Id /\ Parent(l) \in Id
  BY ParentType DEF Id
<1>2. /\ new_link_inode_event(f, l) \in Ev /\ build_enrich_xattr(f, {"lustre"}) \in Ev
      /\ build_statx_event(f, Statx) \in Ev /\ update_parent_acmtime_event(Parent(l)) \in Ev
      /\ update_parent_nb_children_event(Parent(l), 1) \in Ev
  <2>1. {"lustre"} \in SUBSET Xattrs /\ Statx \in SUBSET Statx /\ 1 \in Int
    BY DEF Xattrs
  <2> QED
    BY <1>1, <2>1, EventFacts
<1> QED
  BY <1>2, Sequences5 DEF build_create_inode_events

\* The fsevents of a CL_SETXATTR record.
LEMMA SetxattrRecord ==
    ASSUME NEW f \in File
    PROVE  /\ build_setxattr_event(f) \in Seq(Ev)
           /\ build_setxattr_event(f) # <<>>
           /\ ToSet(build_setxattr_event(f)) =
                {build_statx_event(f, {"time"}), build_enrich_xattr(f, {"xattr"}),
                 build_enrich_xattr(f, {"lustre"})}
<1>1. f \in Id
  BY DEF Id
<1>2. /\ build_statx_event(f, {"time"}) \in Ev /\ build_enrich_xattr(f, {"xattr"}) \in Ev
      /\ build_enrich_xattr(f, {"lustre"}) \in Ev
  <2>1. {"lustre"} \in SUBSET Xattrs /\ {"xattr"} \in SUBSET Xattrs /\ {"time"} \in SUBSET Statx
    BY DEF Xattrs, Statx
  <2> QED
    BY <1>1, <2>1, EventFacts
<1> QED
  BY <1>2, Sequences3 DEF build_setxattr_event

\* The fsevents of a CL_TRUNC or CL_CLOSE record.
LEMMA WriteRecord ==
    ASSUME NEW f \in File
    PROVE  /\ build_statx_update_event(f) \in Seq(Ev)
           /\ build_statx_update_event(f) # <<>>
           /\ ToSet(build_statx_update_event(f)) =
                {build_statx_event(f, {"time", "size"}), build_enrich_xattr(f, {"lustre"})}
<1>1. f \in Id
  BY DEF Id
<1>2. build_statx_event(f, {"time", "size"}) \in Ev /\ build_enrich_xattr(f, {"lustre"}) \in Ev
  <2>1. {"lustre"} \in SUBSET Xattrs /\ {"time", "size"} \in SUBSET Statx
    BY DEF Xattrs, Statx
  <2> QED
    BY <1>1, <2>1, EventFacts
<1> QED
  BY <1>2, Sequences2 DEF build_statx_update_event

\* The fsevents of a CL_HARDLINK record.
LEMMA HardlinkRecord ==
    ASSUME NEW f \in File, NEW l \in Link
    PROVE  /\ build_hardlink_events(f, l) \in Seq(Ev)
           /\ build_hardlink_events(f, l) # <<>>
           /\ ToSet(build_hardlink_events(f, l)) =
                {new_link_inode_event(f, l), build_statx_event(f, Statx),
                 update_parent_acmtime_event(Parent(l)),
                 update_parent_nb_children_event(Parent(l), 1)}
<1>1. f \in Id /\ Parent(l) \in Id
  BY ParentType DEF Id
<1>2. /\ new_link_inode_event(f, l) \in Ev
      /\ build_statx_event(f, Statx) \in Ev /\ update_parent_acmtime_event(Parent(l)) \in Ev
      /\ update_parent_nb_children_event(Parent(l), 1) \in Ev
  <2>1. Statx \in SUBSET Statx /\ 1 \in Int
    OBVIOUS
  <2> QED
    BY <1>1, <2>1, EventFacts
<1> QED
  BY <1>2, Sequences4 DEF build_hardlink_events

\* The fsevents of a CL_UNLINK record.
LEMMA UnlinkRecord ==
    ASSUME NEW f \in File, NEW l \in Link, NEW last
    PROVE  /\ build_unlink_events(f, l, last) \in Seq(Ev)
           /\ build_unlink_events(f, l, last) # <<>>
           /\ ToSet(build_unlink_events(f, l, last)) =
                {unlink_inode_event(f, l, last), update_parent_acmtime_event(Parent(l)),
                 update_parent_nb_children_event(Parent(l), -1)}
<1>1. f \in Id /\ Parent(l) \in Id
  BY ParentType DEF Id
<1>2. /\ unlink_inode_event(f, l, last) \in Ev
      /\ update_parent_acmtime_event(Parent(l)) \in Ev
      /\ update_parent_nb_children_event(Parent(l), -1) \in Ev
  <2>1. -1 \in Int
    OBVIOUS
  <2> QED
    BY <1>1, <2>1, EventFacts
<1> QED
  BY <1>2, Sequences3 DEF build_unlink_events

\* The two halves of a CL_RENAME record.
LEMMA RenameParts ==
    ASSUME NEW f \in File, NEW from \in Link, NEW to \in Link
    PROVE  /\ RenameTarget(f, to) \in Seq(Ev) /\ RenameTarget(f, to) # <<>>
           /\ Len(RenameTarget(f, to)) = 3
           /\ RenameTarget(f, to)[1] = new_link_inode_event(f, to)
           /\ ToSet(RenameTarget(f, to)) =
                {new_link_inode_event(f, to), build_statx_event(f, Statx),
                 update_parent_acmtime_event(Parent(to))}
           /\ RenameSource(f, from) \in Seq(Ev) /\ RenameSource(f, from) # <<>>
           /\ Len(RenameSource(f, from)) = 3
           /\ ToSet(RenameSource(f, from)) =
                {UnlinkOf(f, from), update_parent_acmtime_event(Parent(from)),
                 update_parent_nb_children_event(Parent(from), -1)}
<1>1. f \in Id /\ Parent(from) \in Id /\ Parent(to) \in Id
  BY ParentType DEF Id
<1>2. /\ new_link_inode_event(f, to) \in Ev /\ build_statx_event(f, Statx) \in Ev
      /\ update_parent_acmtime_event(Parent(to)) \in Ev
      /\ UnlinkOf(f, from) \in Ev
      /\ update_parent_acmtime_event(Parent(from)) \in Ev
      /\ update_parent_nb_children_event(Parent(from), -1) \in Ev
  <2>1. Statx \in SUBSET Statx /\ -1 \in Int
    OBVIOUS
  <2> QED
    BY <1>1, <2>1, EventFacts
<1>3. /\ RenameTarget(f, to) \in Seq(Ev) /\ RenameTarget(f, to) # <<>>
      /\ Len(RenameTarget(f, to)) = 3
      /\ RenameTarget(f, to)[1] = new_link_inode_event(f, to)
      /\ ToSet(RenameTarget(f, to)) =
           {new_link_inode_event(f, to), build_statx_event(f, Statx),
            update_parent_acmtime_event(Parent(to))}
  BY <1>2, Sequences3 DEF RenameTarget
<1>4. /\ RenameSource(f, from) \in Seq(Ev) /\ RenameSource(f, from) # <<>>
      /\ Len(RenameSource(f, from)) = 3
      /\ ToSet(RenameSource(f, from)) =
           {UnlinkOf(f, from), update_parent_acmtime_event(Parent(from)),
            update_parent_nb_children_event(Parent(from), -1)}
  <2> DEFINE x == UnlinkOf(f, from)
             y == update_parent_acmtime_event(Parent(from))
             z == update_parent_nb_children_event(Parent(from), -1)
  <2>1. RenameSource(f, from) = <<x, y, z>>
    BY DEF RenameSource, unlink_inode_event, UnlinkOf
  <2>2. x \in Ev /\ y \in Ev /\ z \in Ev
    BY <1>2
  <2> HIDE DEF x, y, z
  <2>3. /\ <<x, y, z>> \in Seq(Ev) /\ Len(<<x, y, z>>) = 3
        /\ <<x, y, z>> # <<>> /\ ToSet(<<x, y, z>>) = {x, y, z}
    BY <2>2, Sequences3
  <2> QED
    BY <2>1, <2>3 DEF x, y, z
<1> QED
  BY <1>3, <1>4

\* The fsevents of a rename to a free name.
LEMMA RenameRecord ==
    ASSUME NEW f \in File, NEW from \in Link, NEW to \in Link
    PROVE  /\ build_rename_events(f, from, to) \in Seq(Ev)
           /\ build_rename_events(f, from, to) # <<>>
           /\ ToSet(build_rename_events(f, from, to)) =
                {new_link_inode_event(f, to), build_statx_event(f, Statx),
                 update_parent_acmtime_event(Parent(to)),
                 update_parent_nb_children_event(Parent(to), 1),
                 UnlinkOf(f, from), update_parent_acmtime_event(Parent(from)),
                 update_parent_nb_children_event(Parent(from), -1)}
<1> DEFINE a == RenameTarget(f, to)
           x == update_parent_nb_children_event(Parent(to), 1)
           b == <<x>>
           c == RenameSource(f, from)
<1>1. x \in Ev
  <2>1. 1 \in Int /\ Parent(to) \in Id
    BY ParentType
  <2> QED
    BY <2>1, EventFacts
<1>2. build_rename_events(f, from, to) = (a \o b) \o c
  BY DEF build_rename_events
<1>3. /\ a \in Seq(Ev) /\ a # <<>>
      /\ ToSet(a) = {new_link_inode_event(f, to), build_statx_event(f, Statx),
                     update_parent_acmtime_event(Parent(to))}
      /\ c \in Seq(Ev)
      /\ ToSet(c) = {UnlinkOf(f, from),
                     update_parent_acmtime_event(Parent(from)),
                     update_parent_nb_children_event(Parent(from), -1)}
  BY RenameParts
<1> HIDE DEF a, c, x
<1>4. b \in Seq(Ev) /\ ToSet(b) = {x}
  BY <1>1, ToSetOne
<1> HIDE DEF b
<1>5. a \o b \in Seq(Ev) /\ ToSet(a \o b) = ToSet(a) \cup ToSet(b) /\ a \o b # <<>>
  BY <1>3, <1>4, ConcatFacts, ToSetConcat
<1> DEFINE d == a \o b
<1> HIDE DEF d
<1>6. d \in Seq(Ev) /\ ToSet(d) = ToSet(a) \cup ToSet(b) /\ d # <<>>
  BY <1>5 DEF d
<1>7. d \o c \in Seq(Ev) /\ ToSet(d \o c) = ToSet(d) \cup ToSet(c)
  <2>1. d \in Seq(Ev) /\ c \in Seq(Ev)
    BY <1>3, <1>6
  <2> QED
    BY <2>1, ConcatFacts, ToSetConcat
<1>8. d \o c # <<>>
  BY <1>3, <1>6
<1> QED
  BY <1>2, <1>3, <1>4, <1>6, <1>7, <1>8 DEF d, x

\* The fsevents of a rename over a file.
LEMMA RenameOverRecord ==
    ASSUME NEW f \in File, NEW from \in Link, NEW to \in Link, NEW over \in File,
           NEW last
    PROVE  /\ build_rename_over_events(f, from, to, over, last) \in Seq(Ev)
           /\ build_rename_over_events(f, from, to, over, last) # <<>>
           /\ ToSet(build_rename_over_events(f, from, to, over, last)) =
                {unlink_inode_event(over, to, last),
                 new_link_inode_event(f, to), build_statx_event(f, Statx),
                 update_parent_acmtime_event(Parent(to)),
                 UnlinkOf(f, from), update_parent_acmtime_event(Parent(from)),
                 update_parent_nb_children_event(Parent(from), -1)}
<1> DEFINE a == RenameTarget(f, to)
           x == unlink_inode_event(over, to, last)
           b == <<x>>
           c == RenameSource(f, from)
<1>1. x \in Ev
  <2>1. over \in Id
    BY DEF Id
  <2> QED
    BY <2>1, EventFacts
<1>2. build_rename_over_events(f, from, to, over, last) = (b \o a) \o c
  BY DEF build_rename_over_events
<1>3. /\ a \in Seq(Ev) /\ a # <<>>
      /\ ToSet(a) = {new_link_inode_event(f, to), build_statx_event(f, Statx),
                     update_parent_acmtime_event(Parent(to))}
      /\ c \in Seq(Ev)
      /\ ToSet(c) = {UnlinkOf(f, from),
                     update_parent_acmtime_event(Parent(from)),
                     update_parent_nb_children_event(Parent(from), -1)}
  BY RenameParts
<1> HIDE DEF a, c, x
<1>4. b \in Seq(Ev) /\ ToSet(b) = {x}
  BY <1>1, ToSetOne
<1> HIDE DEF b
<1>5. b \o a \in Seq(Ev) /\ ToSet(b \o a) = ToSet(b) \cup ToSet(a) /\ b \o a # <<>>
  BY <1>3, <1>4, ConcatFacts, ToSetConcat
<1> DEFINE d == b \o a
<1> HIDE DEF d
<1>6. d \in Seq(Ev) /\ ToSet(d) = ToSet(b) \cup ToSet(a) /\ d # <<>>
  BY <1>5 DEF d
<1>7. d \o c \in Seq(Ev) /\ ToSet(d \o c) = ToSet(d) \cup ToSet(c)
  <2>1. d \in Seq(Ev) /\ c \in Seq(Ev)
    BY <1>3, <1>6
  <2> QED
    BY <2>1, ConcatFacts, ToSetConcat
<1>8. d \o c # <<>>
  BY <1>3, <1>6
<1> QED
  BY <1>2, <1>3, <1>4, <1>6, <1>7, <1>8 DEF d, x

-----------------------------------------------------------------------------
(* What users do keeps the types.                                          *)

\* A step of a user, that logs a record with these fsevents.
LogsRecord(events) ==
    /\ events \in Seq(Ev) /\ events # <<>> /\ \A e \in ToSet(events) : Fits(e)
    /\ Logged(events) /\ UNCHANGED <<pool, sent, db>>
    /\ links' \in [File -> SUBSET Link] /\ had' \in [File -> SUBSET Link]
    /\ stale' \in [Id -> SUBSET (Statx \cup Xattrs)]

\* What an operation changes are attributes.
LEMMA TouchesType ==
    ASSUME FsInv, NEW f \in Id, NEW attrs \in SUBSET (Statx \cup Xattrs), NEW dirs
    PROVE  /\ \A i \in Id : Touches(f, attrs, dirs)[i] \in SUBSET (Statx \cup Xattrs)
           /\ Changed(Touches(f, attrs, dirs)) => stale' \in [Id -> SUBSET (Statx \cup Xattrs)]
<1>1. {"time"} \in SUBSET (Statx \cup Xattrs)
  BY DEF Statx
<1>2. \A i \in Id : Touches(f, attrs, dirs)[i] \in SUBSET (Statx \cup Xattrs)
  BY <1>1 DEF Touches
<1> QED
  BY <1>2 DEF Changed, FsInv

\* The sets of attributes that the operations change.
LEMMA AttrSets ==
    /\ Statx \cup {"lustre"} \in SUBSET (Statx \cup Xattrs)
    /\ {"time", "size"} \in SUBSET (Statx \cup Xattrs)
    /\ {"time", "xattr"} \in SUBSET (Statx \cup Xattrs)
    /\ {"nlink"} \in SUBSET (Statx \cup Xattrs) /\ {"time"} \in SUBSET (Statx \cup Xattrs)
BY DEF Statx, Xattrs

\* A file that takes a name keeps the types.
LEMMA NamesType ==
    ASSUME FsInv, NEW f \in File, NEW l \in Link, NEW taken \in [File -> SUBSET Link],
           Names(f, l, taken)
    PROVE  links' \in [File -> SUBSET Link] /\ had' \in [File -> SUBSET Link]
BY DEF FsInv, Names

\* Every constructor makes a well formed fsevent.
LEMMA EventsFit ==
    /\ \A i, l : i \in File /\ l \in Link => Fits(new_link_inode_event(i, l))
    /\ \A i, l, last : i \in File /\ l \in Link => Fits(unlink_inode_event(i, l, last))
    /\ \A i, l : i \in File /\ l \in Link => Fits(UnlinkOf(i, l))
    /\ \A i, mask : Fits(build_statx_event(i, mask))
    /\ \A i, keys : Fits(build_enrich_xattr(i, keys))
    /\ \A i : Fits(update_parent_acmtime_event(i))
    /\ \A i, inc : Fits(update_parent_nb_children_event(i, inc))
BY DEF Fits, Event, UnlinkOf, new_link_inode_event, unlink_inode_event, build_statx_event,
       build_enrich_xattr, update_parent_acmtime_event, update_parent_nb_children_event

\* Create logs its record.
LEMMA CreateLogs ==
    ASSUME FsInv, NEW f \in File, NEW l \in Link, Create(f, l)
    PROVE  LogsRecord(build_create_inode_events(f, l))
<1>1. links' \in [File -> SUBSET Link] /\ had' \in [File -> SUBSET Link]
  <2>1. links \in [File -> SUBSET Link] /\ Names(f, l, links)
    BY DEF Create, FsInv
  <2> QED
    BY <2>1, NamesType
<1>2. stale' \in [Id -> SUBSET (Statx \cup Xattrs)]
  BY TouchesType, AttrSets DEF Create, Id
<1>3. \A e \in ToSet(build_create_inode_events(f, l)) : Fits(e)
  BY CreateRecord, EventsFit
<1>4. build_create_inode_events(f, l) \in Seq(Ev) /\ build_create_inode_events(f, l) # <<>>
  BY CreateRecord
<1> QED
  BY <1>1, <1>2, <1>3, <1>4 DEF LogsRecord, Create

\* Write logs its record.
LEMMA WriteLogs ==
    ASSUME FsInv, NEW f \in File, Write(f)
    PROVE  LogsRecord(build_statx_update_event(f))
<1>1. links' \in [File -> SUBSET Link] /\ had' \in [File -> SUBSET Link]
  BY DEF Write, FsInv
<1>2. stale' \in [Id -> SUBSET (Statx \cup Xattrs)]
  BY TouchesType, AttrSets DEF Write, Id
<1>3. \A e \in ToSet(build_statx_update_event(f)) : Fits(e)
  BY WriteRecord, EventsFit
<1>4. build_statx_update_event(f) \in Seq(Ev) /\ build_statx_update_event(f) # <<>>
  BY WriteRecord
<1> QED
  BY <1>1, <1>2, <1>3, <1>4 DEF LogsRecord, Write

\* SetXattr logs its record.
LEMMA SetXattrLogs ==
    ASSUME FsInv, NEW f \in File, SetXattr(f)
    PROVE  LogsRecord(build_setxattr_event(f))
<1>1. links' \in [File -> SUBSET Link] /\ had' \in [File -> SUBSET Link]
  BY DEF SetXattr, FsInv
<1>2. stale' \in [Id -> SUBSET (Statx \cup Xattrs)]
  BY TouchesType, AttrSets DEF SetXattr, Id
<1>3. \A e \in ToSet(build_setxattr_event(f)) : Fits(e)
  BY SetxattrRecord, EventsFit
<1>4. build_setxattr_event(f) \in Seq(Ev) /\ build_setxattr_event(f) # <<>>
  BY SetxattrRecord
<1> QED
  BY <1>1, <1>2, <1>3, <1>4 DEF LogsRecord, SetXattr

\* HardLink logs its record.
LEMMA HardLinkLogs ==
    ASSUME FsInv, NEW f \in File, NEW l \in Link, HardLink(f, l)
    PROVE  LogsRecord(build_hardlink_events(f, l))
<1>1. links' \in [File -> SUBSET Link] /\ had' \in [File -> SUBSET Link]
  <2>1. links \in [File -> SUBSET Link] /\ Names(f, l, links)
    BY DEF HardLink, FsInv
  <2> QED
    BY <2>1, NamesType
<1>2. stale' \in [Id -> SUBSET (Statx \cup Xattrs)]
  BY TouchesType, AttrSets DEF HardLink, Id
<1>3. \A e \in ToSet(build_hardlink_events(f, l)) : Fits(e)
  BY HardlinkRecord, EventsFit
<1>4. build_hardlink_events(f, l) \in Seq(Ev) /\ build_hardlink_events(f, l) # <<>>
  BY HardlinkRecord
<1> QED
  BY <1>1, <1>2, <1>3, <1>4 DEF LogsRecord, HardLink

\* Unlink logs its record.
LEMMA UnlinkLogs ==
    ASSUME FsInv, NEW f \in File, NEW l \in Link, Unlink(f, l)
    PROVE  LogsRecord(build_unlink_events(f, l, links[f] = {l}))
<1> DEFINE last == links[f] = {l}
<1>1. links' \in [File -> SUBSET Link] /\ had' \in [File -> SUBSET Link]
  BY DEF Unlink, FsInv
<1>2. stale' \in [Id -> SUBSET (Statx \cup Xattrs)]
  BY TouchesType, AttrSets DEF Unlink, Id
<1>5. Logged(build_unlink_events(f, l, last)) /\ UNCHANGED <<pool, sent, db>>
  BY DEF Unlink
<1> HIDE DEF last
<1>3. \A e \in ToSet(build_unlink_events(f, l, last)) : Fits(e)
  BY UnlinkRecord, EventsFit
<1>4. build_unlink_events(f, l, last) \in Seq(Ev) /\ build_unlink_events(f, l, last) # <<>>
  BY UnlinkRecord
<1>6. LogsRecord(build_unlink_events(f, l, last))
  BY <1>1, <1>2, <1>3, <1>4, <1>5 DEF LogsRecord
<1> QED
  BY <1>6 DEF last

\* Rename logs its record.
LEMMA RenameLogs ==
    ASSUME FsInv, NEW f \in File, NEW from \in Link, NEW to \in Link, Rename(f, from, to)
    PROVE  LogsRecord(build_rename_events(f, from, to))
<1>1. links' \in [File -> SUBSET Link] /\ had' \in [File -> SUBSET Link]
  <2>1. /\ [links EXCEPT ![f] = @ \ {from}] \in [File -> SUBSET Link]
        /\ Names(f, to, [links EXCEPT ![f] = @ \ {from}])
    BY DEF Rename, FsInv
  <2> QED
    BY <2>1, NamesType
<1>2. stale' \in [Id -> SUBSET (Statx \cup Xattrs)]
  BY TouchesType, AttrSets DEF Rename, Id
<1>3. \A e \in ToSet(build_rename_events(f, from, to)) : Fits(e)
  <2>1. /\ Fits(update_parent_nb_children_event(Parent(to), 1))
        /\ Fits(new_link_inode_event(f, to)) /\ Fits(build_statx_event(f, Statx))
        /\ Fits(update_parent_acmtime_event(Parent(to)))
        /\ Fits(UnlinkOf(f, from))
        /\ Fits(update_parent_acmtime_event(Parent(from)))
        /\ Fits(update_parent_nb_children_event(Parent(from), -1))
    BY EventsFit, Zenon
  <2> SUFFICES ASSUME NEW e \in ToSet(build_rename_events(f, from, to)) PROVE Fits(e)
    OBVIOUS
  <2>2. e \in {new_link_inode_event(f, to), build_statx_event(f, Statx),
               update_parent_acmtime_event(Parent(to)),
               update_parent_nb_children_event(Parent(to), 1),
               UnlinkOf(f, from), update_parent_acmtime_event(Parent(from)),
               update_parent_nb_children_event(Parent(from), -1)}
    BY RenameRecord
  <2> QED
    BY <2>1, <2>2
<1>4. build_rename_events(f, from, to) \in Seq(Ev) /\ build_rename_events(f, from, to) # <<>>
  BY RenameRecord
<1> QED
  BY <1>1, <1>2, <1>3, <1>4 DEF LogsRecord, Rename

\* The fsevents of a rename over a file are well formed.
LEMMA RenameOverFits ==
    ASSUME NEW f \in File, NEW from \in Link, NEW to \in Link, NEW over \in File,
           NEW last
    PROVE  \A e \in ToSet(build_rename_over_events(f, from, to, over, last)) : Fits(e)
<1>1. /\ Fits(unlink_inode_event(over, to, last))
      /\ Fits(new_link_inode_event(f, to)) /\ Fits(build_statx_event(f, Statx))
      /\ Fits(update_parent_acmtime_event(Parent(to)))
      /\ Fits(UnlinkOf(f, from))
      /\ Fits(update_parent_acmtime_event(Parent(from)))
      /\ Fits(update_parent_nb_children_event(Parent(from), -1))
  BY EventsFit, Zenon
<1>2. ToSet(build_rename_over_events(f, from, to, over, last)) =
        {unlink_inode_event(over, to, last),
         new_link_inode_event(f, to), build_statx_event(f, Statx),
         update_parent_acmtime_event(Parent(to)),
         UnlinkOf(f, from), update_parent_acmtime_event(Parent(from)),
         update_parent_nb_children_event(Parent(from), -1)}
  BY RenameOverRecord
<1> QED
  BY <1>1, <1>2

\* RenameOver logs its record.
LEMMA RenameOverLogs ==
    ASSUME FsInv, NEW f \in File, NEW from \in Link, NEW to \in Link, NEW over \in File,
           RenameOver(f, from, to, over)
    PROVE  LogsRecord(build_rename_over_events(f, from, to, over, links[over] = {to}))
<1> DEFINE last == links[over] = {to}
<1>1. links' \in [File -> SUBSET Link] /\ had' \in [File -> SUBSET Link]
  <2> DEFINE taken == [links EXCEPT ![f] = @ \ {from}, ![over] = @ \ {to}]
  <2>1. taken \in [File -> SUBSET Link]
    BY DEF FsInv
  <2>2. Names(f, to, taken)
    BY DEF RenameOver
  <2> HIDE DEF taken
  <2> QED
    BY <2>1, <2>2, NamesType
<1>2. stale' \in [Id -> SUBSET (Statx \cup Xattrs)]
  <2> DEFINE a == Touches(f, {"time"}, {Parent(from), Parent(to)})
             b == Touches(over, {"nlink"}, {})
  <2>1. \A i \in Id : a[i] \in SUBSET (Statx \cup Xattrs) /\ b[i] \in SUBSET (Statx \cup Xattrs)
    BY TouchesType, AttrSets DEF Id
  <2>2. stale' = [i \in Id |-> stale[i] \cup a[i] \cup b[i]]
    BY DEF RenameOver
  <2> HIDE DEF a, b
  <2> QED
    BY <2>1, <2>2 DEF FsInv
<1>5. Logged(build_rename_over_events(f, from, to, over, last)) /\ UNCHANGED <<pool, sent, db>>
  BY DEF RenameOver
<1> HIDE DEF last
<1>3. \A e \in ToSet(build_rename_over_events(f, from, to, over, last)) : Fits(e)
  BY RenameOverFits
<1>4. /\ build_rename_over_events(f, from, to, over, last) \in Seq(Ev)
      /\ build_rename_over_events(f, from, to, over, last) # <<>>
  BY RenameOverRecord
<1>6. LogsRecord(build_rename_over_events(f, from, to, over, last))
  BY <1>1, <1>2, <1>3, <1>4, <1>5 DEF LogsRecord
<1> QED
  BY <1>6 DEF last

\* Every step of a user logs a record.
LEMMA UserLogs ==
    ASSUME FsInv, UserStep
    PROVE  \E events : LogsRecord(events)
<1>1. ASSUME NEW f \in File, NEW l \in Link, Create(f, l) PROVE \E events : LogsRecord(events)
  BY <1>1, CreateLogs
<1>2. ASSUME NEW f \in File, NEW l \in Link, HardLink(f, l) PROVE \E events : LogsRecord(events)
  BY <1>2, HardLinkLogs
<1>3. ASSUME NEW f \in File, NEW l \in Link, Unlink(f, l) PROVE \E events : LogsRecord(events)
  BY <1>3, UnlinkLogs
<1>4. ASSUME NEW f \in File, Write(f) PROVE \E events : LogsRecord(events)
  BY <1>4, WriteLogs
<1>5. ASSUME NEW f \in File, SetXattr(f) PROVE \E events : LogsRecord(events)
  BY <1>5, SetXattrLogs
<1>6. ASSUME NEW f \in File, NEW from \in Link, NEW to \in Link, Rename(f, from, to)
      PROVE  \E events : LogsRecord(events)
  BY <1>6, RenameLogs
<1>7. ASSUME NEW f \in File, NEW from \in Link, NEW to \in Link, NEW over \in File,
             RenameOver(f, from, to, over)
      PROVE  \E events : LogsRecord(events)
  BY <1>7, RenameOverLogs
<1> QED
  BY <1>1, <1>2, <1>3, <1>4, <1>5, <1>6, <1>7 DEF UserStep

-----------------------------------------------------------------------------
(* Every step keeps the types.                                             *)

\* A new record keeps the types.
LEMMA LogKeepsTypes ==
    ASSUME TypeInv, NEW events, LogsRecord(events)
    PROVE  TypeInv'
<1> DEFINE a == Len(unacked)
           b == Len(fsevents)
           c == Len(events)
<1>0. /\ fsevents \in Seq(Ev) /\ unacked \in Seq(Ev) /\ events \in Seq(Ev)
      /\ fsevents' = fsevents \o events /\ unacked' = unacked \o events
      /\ ends' = ends \cup {a + c} /\ flushed' = flushed /\ crashes' = crashes
      /\ pool' = pool /\ sent' = sent /\ entries' = entries /\ ns' = ns
      /\ nb_children' = nb_children
  BY DEF TypeInv, LogInv, LogsRecord, Logged, db
<1>1. FsInv'
  <2>1. records' \in 0 .. MaxRecords /\ crashes' \in 0 .. MaxRecords
    <3>1. /\ records \in 0 .. MaxRecords /\ crashes \in 0 .. MaxRecords
          /\ records + crashes < MaxRecords /\ records' = records + 1 /\ crashes' = crashes
      BY DEF TypeInv, FsInv, LogsRecord, Logged
    <3> QED
      BY <3>1, BoundAssumption
  <2> QED
    BY <2>1 DEF FsInv, LogsRecord
<1>2. DbInv'
  BY <1>0 DEF TypeInv, DbInv
<1>3. a \in Nat /\ b \in Nat /\ c \in Nat /\ c >= 1
  BY <1>0 DEF LogsRecord
<1>4. /\ fsevents' \in Seq(Ev) /\ Len(fsevents') = b + c
      /\ \A n \in 1 .. b : fsevents'[n] = fsevents[n]
      /\ \A n \in 1 .. c : fsevents'[b + n] = events[n]
  BY <1>0, ConcatFacts
<1>5. /\ unacked' \in Seq(Ev) /\ Len(unacked') = a + c
      /\ \A n \in 1 .. a : unacked'[n] = unacked[n]
      /\ \A n \in 1 .. c : unacked'[a + n] = events[n]
  BY <1>0, ConcatFacts
<1>6. LogInv'
  <2>0. /\ ends \subseteq 1 .. a /\ flushed \in ends \cup {0} /\ b <= a /\ flushed <= a - b
        /\ \A n \in 1 .. b : fsevents[n] = unacked[(a - b) + n]
    BY DEF TypeInv, LogInv, NbPushed
  <2> HIDE DEF a, b, c
  <2>1. ends' \subseteq 1 .. Len(unacked') /\ flushed' \in ends' \cup {0}
    <3>1. a + c \in 1 .. (a + c) /\ \A n \in 1 .. a : n \in 1 .. (a + c)
      BY <1>3
    <3> QED
      BY <1>0, <1>5, <2>0, <3>1
  <2>2. NbPushed' = a - b /\ Len(fsevents') <= Len(unacked')
    <3>1. NbPushed' = (a + c) - (b + c)
      BY <1>4, <1>5 DEF NbPushed
    <3>2. (a + c) - (b + c) = a - b /\ b + c <= a + c
      BY <1>3, <2>0
    <3> QED
      BY <1>4, <1>5, <3>1, <3>2
  <2>3. flushed' <= NbPushed'
    BY <1>0, <2>0, <2>2
  <2>4. ASSUME NEW n \in 1 .. Len(fsevents')
        PROVE  fsevents'[n] = unacked'[NbPushed' + n]
    <3>1. CASE n \in 1 .. b
      <4>1. (a - b) + n \in 1 .. a
        BY <1>3, <2>0, <3>1
      <4> QED
        BY <1>4, <1>5, <2>0, <2>2, <3>1, <4>1
    <3>2. CASE n \notin 1 .. b
      <4> DEFINE m == n - b
      <4>1. m \in 1 .. c /\ b + m = n /\ a + m = (a - b) + n
        BY <1>3, <1>4, <3>2
      <4> HIDE DEF m
      <4>2. fsevents'[b + m] = events[m] /\ unacked'[a + m] = events[m]
        BY <1>4, <1>5, <4>1
      <4> QED
        BY <2>2, <4>1, <4>2
    <3> QED
      BY <3>1, <3>2
  <2> QED
    BY <1>4, <1>5, <2>1, <2>2, <2>3, <2>4 DEF LogInv
<1>7. QueueInv'
  BY <1>0 DEF TypeInv, QueueInv
<1>8. FitsInv'
  <2>1. Coming' = Coming \cup ToSet(events) /\ Logs' = Logs \cup ToSet(events)
    BY <1>0, ToSetConcat DEF Coming, Logs
  <2>2. \A i : Cached(i)' = Cached(i) /\ Queued(i)' = Queued(i)
    BY <1>0 DEF Cached, Queued
  <2> QED
    BY <2>1, <2>2 DEF TypeInv, FitsInv, LogsRecord
<1> QED
  BY <1>1, <1>2, <1>6, <1>7, <1>8 DEF TypeInv

\* What a push does.
PushStep(e) ==
    /\ fsevents # <<>> /\ e = Head(fsevents) /\ pool' = Push(pool, e)
    /\ fsevents' = Tail(fsevents)
    /\ UNCHANGED <<fs, stale, changelog, sent, db>>
    /\ Holds(pool, e.id) \/ pool.count # PoolSize

\* Both pushes are PushSteps.
LEMMA PushSteps ==
    ASSUME PushDeduplicated \/ PushNew
    PROVE  PushStep(Head(fsevents))
BY DEF PushStep, PushDeduplicated, PushNew, Pushed, CanPush, Push, rbh_fsevent_pool_is_full

\* What the step does to the queues.
PushEffect(e) ==
    /\ e \in Ev /\ e.id \in Id /\ Fits(e)
    /\ Coming = {e} \cup Coming' /\ Logs' = Logs
    /\ \A i : Queued(i)' = Queued(i)
    /\ \A i : i # e.id => List(pool, i)' = List(pool, i)
    /\ Changes(List(pool, e.id), e, List(pool, e.id)')
    /\ List(pool, e.id) \in Seq(Ev) /\ List(pool, e.id)' \in Seq(Ev)
    /\ \/ Grows(Cached(e.id), e, Cached(e.id)') \/ Merges(Cached(e.id), e, Cached(e.id)')
       \/ Cancels(Cached(e.id), e, Cached(e.id)') \/ Drops(Cached(e.id), e, Cached(e.id)')
       \/ Replaces(Cached(e.id), e, Cached(e.id)')

\* A push changes the list of one id, in one of the seven ways.
LEMMA PushEffects ==
    ASSUME TypeInv, NEW e, PushStep(e)
    PROVE  /\ PushEffect(e) /\ Consistent(pool', Id, Ev) /\ pool'.count <= PoolSize
           /\ pool'.need_to_flush = pool.need_to_flush
<1>1. /\ fsevents \in Seq(Ev) /\ fsevents # <<>> /\ e = Head(fsevents)
      /\ fsevents' = Tail(fsevents) /\ pool' = Push(pool, e) /\ sent' = sent
      /\ unacked' = unacked
  BY DEF TypeInv, LogInv, PushStep, changelog
<1>2. e \in Ev /\ fsevents' \in Seq(Ev) /\ Coming = {e} \cup Coming'
  BY <1>1, ToSetTail DEF Coming
<1>3. e.id \in Id /\ Fits(e)
  <2>1. e.id \in Id
    BY <1>2 DEF Ev, Fsevent
  <2>2. Fits(e)
    BY <1>2 DEF TypeInv, FitsInv
  <2> QED
    BY <2>1, <2>2
<1>4. Logs' = Logs /\ \A i : Queued(i)' = Queued(i)
  BY <1>1 DEF Logs, Queued
<1>5. Consistent(pool, Id, Ev) /\ pool.count <= PoolSize /\ PoolSize \in Nat
  BY PoolSizeAssumption DEF TypeInv, QueueInv
<1>6. /\ Consistent(pool', Id, Ev)
      /\ \E M : Becomes(pool, pool', e.id, M) /\ Changes(List(pool, e.id), e, M)
      /\ pool.count \in Nat
      /\ IF Holds(pool, e.id) THEN pool'.count <= pool.count
                              ELSE pool'.count = pool.count + 1
  BY <1>1, <1>2, <1>5, PushFacts DEF Ev
<1>7. PICK M : Becomes(pool, pool', e.id, M) /\ Changes(List(pool, e.id), e, M)
  BY <1>6
<1>8. /\ List(pool', e.id) = M /\ \A i : i # e.id => List(pool', i) = List(pool, i)
      /\ pool'.need_to_flush = pool.need_to_flush
  BY <1>7 DEF Becomes
<1>9. List(pool, e.id) \in Seq(Ev)
  BY ListType DEF TypeInv
<1>10. /\ M \in Seq(Ev)
       /\ \/ Grows(Cached(e.id), e, ToSet(M)) \/ Merges(Cached(e.id), e, ToSet(M))
          \/ Cancels(Cached(e.id), e, ToSet(M)) \/ Drops(Cached(e.id), e, ToSet(M))
          \/ Replaces(Cached(e.id), e, ToSet(M))
  BY <1>2, <1>7, <1>9, ChangesSets DEF Ev, Cached
<1>11. Cached(e.id)' = ToSet(M)
  BY <1>8 DEF Cached
<1>12. pool'.count <= PoolSize
  <2>1. pool'.count \in Nat
    BY <1>6, ConsistentParts
  <2>2. Holds(pool, e.id) \/ pool.count # PoolSize
    BY DEF PushStep
  <2> QED
    BY <1>5, <1>6, <2>1, <2>2
<1>13. PushEffect(e)
  BY <1>2, <1>3, <1>4, <1>7, <1>8, <1>9, <1>10, <1>11 DEF PushEffect
<1> QED
  BY <1>6, <1>8, <1>12, <1>13

\* A push keeps the types.
LEMMA PushKeepsTypes ==
    ASSUME TypeInv, NEW e, PushStep(e)
    PROVE  TypeInv'
<1>0. /\ PushEffect(e) /\ Consistent(pool', Id, Ev) /\ pool'.count <= PoolSize
      /\ UNCHANGED <<fs, stale, changelog, sent, db>>
  BY PushEffects DEF PushStep
<1>1. FsInv' /\ DbInv'
  BY <1>0 DEF TypeInv, FsInv, DbInv, fs, db, changelog
<1>2. LogInv'
  <2>1. /\ fsevents \in Seq(Ev) /\ unacked \in Seq(Ev) /\ fsevents # <<>>
        /\ fsevents' = Tail(fsevents) /\ unacked' = unacked /\ ends' = ends /\ flushed' = flushed
    BY <1>0 DEF TypeInv, LogInv, PushStep, changelog
  <2>2. /\ fsevents' \in Seq(Ev) /\ Len(fsevents) \in Nat /\ Len(fsevents) >= 1
        /\ Len(fsevents') = Len(fsevents) - 1
        /\ \A n \in 1 .. Len(fsevents) - 1 : fsevents'[n] = fsevents[n + 1]
    BY <2>1, TailFacts
  <2>3. /\ Len(unacked) \in Nat /\ ends \subseteq 1 .. Len(unacked) /\ flushed \in ends \cup {0}
        /\ Len(fsevents) <= Len(unacked) /\ flushed <= NbPushed
        /\ \A n \in 1 .. Len(fsevents) : fsevents[n] = unacked[NbPushed + n]
    BY DEF TypeInv, LogInv
  <2>4. NbPushed' = NbPushed + 1 /\ NbPushed \in Nat /\ flushed \in Nat
    BY <2>1, <2>2, <2>3 DEF NbPushed
  <2>5. ASSUME NEW n \in 1 .. Len(fsevents')
        PROVE  fsevents'[n] = unacked'[NbPushed' + n]
    <3>1. n \in 1 .. Len(fsevents) - 1 /\ n + 1 \in 1 .. Len(fsevents)
          /\ NbPushed' + n = NbPushed + (n + 1)
      BY <2>2, <2>4
    <3>2. fsevents'[n] = fsevents[n + 1] /\ fsevents[n + 1] = unacked[NbPushed + (n + 1)]
      BY <2>2, <2>3, <3>1
    <3> QED
      BY <2>1, <3>1, <3>2
  <2>6. flushed' <= NbPushed' /\ Len(fsevents') <= Len(unacked')
    BY <2>1, <2>2, <2>3, <2>4
  <2> QED
    BY <2>1, <2>2, <2>3, <2>5, <2>6 DEF LogInv
<1>3. QueueInv'
  BY <1>0 DEF TypeInv, QueueInv
<1>4. FitsInv'
  <2>1. \A x \in Coming' \cup Logs' : Fits(x)
    BY <1>0 DEF TypeInv, FitsInv, PushEffect
  <2>2. ASSUME NEW i \in Id, NEW x \in Cached(i)' \cup Queued(i)'
        PROVE  Fits(x) /\ x.id = i
    <3>1. CASE x \in Queued(i)'
      BY <1>0, <3>1 DEF TypeInv, FitsInv, PushEffect
    <3>2. CASE x \in Cached(i)' /\ i # e.id
      BY <1>0, <3>2 DEF TypeInv, FitsInv, PushEffect, Cached
    <3>3. CASE x \in Cached(i)' /\ i = e.id
      <4>1. \A y \in Cached(i) : Fits(y) /\ y.id = i /\ y \in Ev
        <5>1. List(pool, i) \in Seq(Ev)
          BY ListType DEF TypeInv
        <5>2. Cached(i) \subseteq Ev
          BY <5>1, ToSetType DEF Cached
        <5> QED
          BY <5>2 DEF TypeInv, FitsInv
      <4>2. x = e \/ x \in Cached(i) \/ \E y \in Cached(i) :
                y.type = e.type /\ e.type \in {"UPSERT", "XATTR"} /\ x = Merge(y, e)
        BY <1>0, <3>3 DEF PushEffect, Grows, Merges, Cancels, Drops, Replaces
      <4>3. CASE x = e
        BY <1>0, <3>3, <4>3 DEF PushEffect
      <4>4. ASSUME NEW y \in Cached(i), y.type = e.type, e.type \in {"UPSERT", "XATTR"},
                   x = Merge(y, e)
            PROVE  Fits(x) /\ x.id = i
        <5>1. y \in Ev /\ e \in Ev
          BY <1>0, <4>1 DEF PushEffect
        <5>2. x.type = y.type /\ x.id = y.id
          BY <4>4, <5>1, MergeType DEF Ev
        <5> QED
          BY <4>1, <4>4, <5>2 DEF Fits
      <4> QED
        BY <4>1, <4>2, <4>3, <4>4
    <3> QED
      BY <3>1, <3>2, <3>3
  <2> QED
    BY <2>1, <2>2 DEF FitsInv
<1> QED
  BY <1>1, <1>2, <1>3, <1>4 DEF TypeInv

\* A push that finds the pool full changes no list.
LEMMA FullKeepsTypes ==
    ASSUME TypeInv, PushFull
    PROVE  /\ TypeInv' /\ UNCHANGED <<fs, stale, fsevents, changelog, sent, db>>
           /\ \A i : List(pool, i)' = List(pool, i) /\ (Holds(pool, i)' <=> Holds(pool, i))
<1>1. /\ pool' = [pool EXCEPT !.need_to_flush = TRUE]
      /\ UNCHANGED <<fs, stale, fsevents, changelog, sent, db>>
  BY DEF PushFull
<1>p. /\ pool \in Pools(Id, Ev)
      /\ DOMAIN pool.events \subseteq Id /\ pool.events \in [DOMAIN pool.events -> Seq(Ev)]
      /\ pool.ids \in Seq(Id) /\ pool.count \in Nat
      /\ pool.count = Len(pool.ids) /\ ToSet(pool.ids) = DOMAIN pool.events
      /\ IsFiniteSet(DOMAIN pool.events) /\ pool.count = Cardinality(DOMAIN pool.events)
      /\ \A i \in DOMAIN pool.events : pool.events[i] # <<>>
      /\ NoDuplicate(pool.ids)
  BY ConsistentParts DEF TypeInv, QueueInv
<1>2. pool' = [events |-> pool.events, ids |-> pool.ids, count |-> pool.count,
               need_to_flush |-> TRUE]
  <2>1. pool = [events |-> pool.events, ids |-> pool.ids, count |-> pool.count,
                need_to_flush |-> pool.need_to_flush]
    BY <1>p, PoolRecord
  <2> QED
    BY <1>1, <2>1
<1>3. Consistent(pool', Id, Ev)
  <2>1. TRUE \in BOOLEAN
    OBVIOUS
  <2> QED
    BY <1>p, <1>2, <2>1, ConsistentMade
<1>4. pool'.count = pool.count /\ pool'.events = pool.events
  BY <1>2
<1>5. \A i : List(pool, i)' = List(pool, i) /\ (Holds(pool, i)' <=> Holds(pool, i))
  BY <1>4 DEF List, Holds
<1>6. FsInv' /\ DbInv' /\ LogInv'
  BY <1>1 DEF TypeInv, FsInv, DbInv, LogInv, fs, db, changelog, NbPushed
<1>7. QueueInv'
  BY <1>1, <1>3, <1>4 DEF TypeInv, QueueInv
<1>8. FitsInv'
  <2>1. Coming' = Coming /\ Logs' = Logs /\ \A i : Cached(i)' = Cached(i) /\ Queued(i)' = Queued(i)
    BY <1>1, <1>5 DEF Coming, Logs, Cached, Queued, changelog
  <2> QED
    BY <2>1 DEF TypeInv, FitsInv
<1> QED
  BY <1>1, <1>5, <1>6, <1>7, <1>8 DEF TypeInv

\* What a flush does to the queues.
FlushEffect ==
    /\ sent' \in [Id -> Seq(Ev)] /\ pool' = EmptyPool
    /\ \A i \in Id : sent'[i] = sent[i] \o List(pool, i)
    /\ \A i \in Id : Queued(i)' = Queued(i) \cup Cached(i)
    /\ \A i : List(pool, i)' = <<>> /\ ~Holds(pool, i)' /\ Cached(i)' = {}
    /\ flushed' \in ends \cup {0} /\ flushed' <= NbPushed
    /\ UNCHANGED <<fs, stale, fsevents, unacked, ends, crashes, db>>
    /\ Coming' = Coming /\ Logs' = Logs

\* A flush moves every list to the end of what is sent.
LEMMA FlushEffects ==
    ASSUME TypeInv, Flush
    PROVE  FlushEffect
<1>1. /\ sent' = [i \in Id |-> IF Holds(pool, i) THEN sent[i] \o pool.events[i] ELSE sent[i]]
      /\ pool' = EmptyPool /\ flushed' = Covered
      /\ UNCHANGED <<fs, stale, fsevents, unacked, ends, crashes, db>>
  BY DEF Flush
<1>2. \A i \in Id : List(pool, i) \in Seq(Ev) /\ sent[i] \in Seq(Ev)
  BY ListType DEF TypeInv, QueueInv
<1>3. \A i \in Id : sent'[i] = sent[i] \o List(pool, i)
  <2> SUFFICES ASSUME NEW i \in Id PROVE sent'[i] = sent[i] \o List(pool, i)
    OBVIOUS
  <2>1. sent[i] \o <<>> = sent[i]
    BY <1>2
  <2> QED
    BY <1>1, <2>1 DEF List
<1>4. \A i \in Id : sent'[i] \in Seq(Ev) /\ ToSet(sent'[i]) = ToSet(sent[i]) \cup ToSet(List(pool, i))
  <2> SUFFICES ASSUME NEW i \in Id
               PROVE  /\ sent'[i] \in Seq(Ev)
                      /\ ToSet(sent'[i]) = ToSet(sent[i]) \cup ToSet(List(pool, i))
    OBVIOUS
  <2> DEFINE q == sent[i]
             r == List(pool, i)
  <2>1. q \in Seq(Ev) /\ r \in Seq(Ev) /\ sent'[i] = q \o r
    BY <1>2, <1>3
  <2> HIDE DEF q, r
  <2>2. q \o r \in Seq(Ev) /\ ToSet(q \o r) = ToSet(q) \cup ToSet(r)
    BY <2>1, ConcatFacts, ToSetConcat
  <2> QED
    BY <2>1, <2>2 DEF q, r
<1>5. sent' \in [Id -> Seq(Ev)]
  BY <1>1, <1>4
<1>6. \A i \in Id : Queued(i)' = Queued(i) \cup Cached(i)
  BY <1>4 DEF Queued, Cached
<1>7. \A i : List(pool, i)' = <<>> /\ ~Holds(pool, i)' /\ Cached(i)' = {}
  BY <1>1, EmptyFacts, ToSetEmpty DEF Cached
<1>8. flushed' \in ends \cup {0} /\ flushed' <= NbPushed
  <2> DEFINE T == {n \in ends \cup {0} : n <= NbPushed}
  <2>1. /\ Len(unacked) \in Nat /\ Len(fsevents) \in Nat /\ ends \subseteq 1 .. Len(unacked)
        /\ Len(fsevents) <= Len(unacked)
    BY DEF TypeInv, LogInv
  <2>2. T \in SUBSET (0 .. Len(unacked))
    <3>1. 1 .. Len(unacked) \subseteq 0 .. Len(unacked) /\ 0 \in 0 .. Len(unacked)
      BY <2>1
    <3> QED
      BY <2>1, <3>1
  <2>3. 0 \in T
    BY <2>1 DEF NbPushed
  <2>4. Max(T) \in T
    BY <2>1, <2>2, <2>3, MaxFacts
  <2> QED
    BY <1>1, <2>4 DEF Covered
<1>9. Coming' = Coming /\ Logs' = Logs
  BY <1>1 DEF Coming, Logs
<1> QED
  BY <1>1, <1>3, <1>5, <1>6, <1>7, <1>8, <1>9 DEF FlushEffect

\* A flush keeps the types.
LEMMA FlushKeepsTypes ==
    ASSUME TypeInv, Flush
    PROVE  TypeInv'
<1>0. FlushEffect
  BY FlushEffects
<1>1. FsInv' /\ DbInv'
  BY <1>0 DEF TypeInv, FsInv, DbInv, fs, db, FlushEffect
<1>2. LogInv'
  BY <1>0 DEF TypeInv, LogInv, FlushEffect, NbPushed
<1>3. QueueInv'
  BY <1>0, EmptyFacts, PoolSizeAssumption DEF FlushEffect, QueueInv
<1>4. FitsInv'
  BY <1>0 DEF TypeInv, FlushEffect, FitsInv
<1> QED
  BY <1>1, <1>2, <1>3, <1>4 DEF TypeInv

\* A worker takes the next fsevent of id: what it does to the queues.
TakeStep(id, e) ==
    /\ id \in Id /\ e \in Ev /\ e.id = id /\ Fits(e)
    /\ sent[id] # <<>> /\ e = Head(sent[id]) /\ e = sent[id][1]
    /\ sent' = [sent EXCEPT ![id] = Tail(sent[id])]
    /\ sent' \in [Id -> Seq(Ev)] /\ sent[id] \in Seq(Ev) /\ sent'[id] = Tail(sent[id])
    /\ \A i \in Id : i # id => sent'[i] = sent[i]
    /\ Queued(id) = {e} \cup Queued(id)' /\ \A i \in Id : i # id => Queued(i)' = Queued(i)
    /\ UNCHANGED <<fs, fsevents, changelog, pool>>
    /\ Coming' = Coming /\ Logs' = Logs
    /\ \A i : List(pool, i)' = List(pool, i) /\ Cached(i)' = Cached(i)

\* A worker takes the first fsevent of a queue.
LEMMA TakeSteps ==
    ASSUME TypeInv, NEW id \in Id, Process(id) \/ Skip(id)
    PROVE  TakeStep(id, Head(sent[id]))
<1>1. /\ sent \in [Id -> Seq(Ev)] /\ sent[id] \in Seq(Ev) /\ sent[id] # <<>>
      /\ sent' = [sent EXCEPT ![id] = Tail(sent[id])]
      /\ UNCHANGED <<fs, fsevents, changelog, pool>>
  BY DEF Process, Skip, TypeInv, QueueInv
<1> DEFINE q == sent[id]
           e == Head(q)
<1>2. /\ e \in Ev /\ Tail(q) \in Seq(Ev) /\ ToSet(q) = {e} \cup ToSet(Tail(q)) /\ e = q[1]
  BY <1>1, ToSetTail
<1>3. /\ sent' \in [Id -> Seq(Ev)] /\ sent'[id] = Tail(q)
      /\ \A i \in Id : i # id => sent'[i] = sent[i]
  BY <1>1, <1>2
<1>4. Queued(id) = {e} \cup Queued(id)' /\ \A i \in Id : i # id => Queued(i)' = Queued(i)
  BY <1>2, <1>3 DEF Queued
<1>5. Fits(e) /\ e.id = id
  BY <1>4 DEF TypeInv, FitsInv
<1>6. Coming' = Coming /\ Logs' = Logs
      /\ \A i : List(pool, i)' = List(pool, i) /\ Cached(i)' = Cached(i)
  BY <1>1 DEF Coming, Logs, Cached, List, Holds, changelog
<1> QED
  BY <1>1, <1>2, <1>3, <1>4, <1>5, <1>6 DEF TakeStep

\* A worker keeps the types.
LEMMA TakeKeepsTypes ==
    ASSUME TypeInv, NEW id \in Id, Process(id) \/ Skip(id)
    PROVE  TypeInv'
<1> DEFINE e == Head(sent[id])
<1>0. TakeStep(id, e)
  BY TakeSteps
<1>1. FsInv'
  <2>1. stale' \in [Id -> SUBSET (Statx \cup Xattrs)]
    <3>1. stale \in [Id -> SUBSET (Statx \cup Xattrs)]
      BY DEF TypeInv, FsInv
    <3>2. stale' = stale \/ stale' = [stale EXCEPT ![e.id] = @ \ e.enrich]
      BY DEF Process, Skip, Enriched
    <3> QED
      BY <3>1, <3>2
  <2> QED
    BY <1>0, <2>1 DEF TypeInv, FsInv, TakeStep, fs, changelog
<1>2. DbInv'
  <2>1. CASE Skip(id)
    BY <2>1 DEF TypeInv, DbInv, Skip, db
  <2>2. CASE Process(id)
    <3>1. Mongo(e) /\ e \in Ev /\ e.id = id /\ Fits(e)
      BY <1>0, <2>2 DEF Process, TakeStep
    <3>2. entries \subseteq File /\ ns \in [File -> SUBSET Link] /\ nb_children \in [Dir -> Int]
      BY DEF TypeInv, DbInv
    <3>3. e.type \in {"LINK", "UNLINK", "UPSERT", "XATTR", "DELETE"} /\ e.inc \in Int
      BY <3>1 DEF Ev, Fsevent
    <3> HIDE DEF e
    <3>4. CASE e.type = "LINK"
      <4>1. /\ entries' = entries \cup {e.id} /\ ns' = [ns EXCEPT ![e.id] = @ \cup {e.link}]
            /\ nb_children' = nb_children
        BY <3>1, <3>4 DEF Mongo
      <4> QED
        BY <3>1, <3>2, <3>4, <4>1 DEF Fits, DbInv
    <3>5. CASE e.type = "UNLINK"
      <4>1. entries' = entries /\ ns' = [ns EXCEPT ![e.id] = @ \ {e.link}]
            /\ nb_children' = nb_children
        BY <3>1, <3>5 DEF Mongo
      <4> QED
        BY <3>2, <4>1 DEF DbInv
    <3>6. CASE e.type = "DELETE"
      <4>1. entries' = entries \ {e.id} /\ ns' = [ns EXCEPT ![e.id] = {}]
            /\ nb_children' = nb_children
        BY <3>1, <3>6 DEF Mongo
      <4> QED
        BY <3>2, <4>1 DEF DbInv
    <3>7. CASE e.type = "UPSERT"
      <4>1. entries' = entries \cup ({e.id} \cap File) /\ ns' = ns /\ nb_children' = nb_children
        BY <3>1, <3>7 DEF Mongo
      <4> QED
        BY <3>2, <4>1 DEF DbInv
    <3>8. CASE e.type = "XATTR"
      <4>1. /\ entries' = entries /\ ns' = ns
            /\ nb_children' = [d \in Dir |-> IF d = e.id THEN nb_children[d] + e.inc
                                                         ELSE nb_children[d]]
        BY <3>1, <3>8 DEF Mongo
      <4>2. nb_children' \in [Dir -> Int]
        BY <3>2, <3>3, <4>1
      <4> QED
        BY <3>2, <4>1, <4>2 DEF DbInv
    <3> QED
      BY <3>3, <3>4, <3>5, <3>6, <3>7, <3>8
  <2> QED
    BY <2>1, <2>2
<1> HIDE DEF e
<1>3. LogInv'
  BY <1>0 DEF TypeInv, LogInv, TakeStep, changelog, NbPushed
<1>4. QueueInv'
  BY <1>0 DEF TypeInv, QueueInv, TakeStep
<1>5. FitsInv'
  <2>1. \A i \in Id : Queued(i)' \subseteq Queued(i)
    BY <1>0 DEF TakeStep
  <2> QED
    BY <1>0, <2>1 DEF TypeInv, FitsInv, TakeStep
<1> QED
  BY <1>1, <1>2, <1>3, <1>4, <1>5 DEF TypeInv

\* The end of a list.
LEMMA SuffixFacts ==
    ASSUME NEW S, NEW q \in Seq(S), NEW k \in Nat, k <= Len(q)
    PROVE  /\ SubSeq(q, k + 1, Len(q)) \in Seq(S)
           /\ Len(SubSeq(q, k + 1, Len(q))) = Len(q) - k
           /\ \A n \in 1 .. Len(q) - k : SubSeq(q, k + 1, Len(q))[n] = q[k + n]
<1>1. \A n \in 1 .. Len(q) - k : (k + 1) + n - 1 = k + n
  OBVIOUS
<1> QED
  BY <1>1

\* What an acknowledgment leaves.
Recent == {unacked[n] : n \in flushed + 1 .. Len(unacked)}

\* The fsevents that are to be pushed are not acknowledged with a batch.
LEMMA ComingRecent ==
    ASSUME TypeInv
    PROVE  Coming \subseteq Recent /\ Recent \subseteq Logs
<1>1. /\ fsevents \in Seq(Ev) /\ unacked \in Seq(Ev) /\ Len(unacked) \in Nat
      /\ Len(fsevents) \in Nat /\ ends \subseteq 1 .. Len(unacked) /\ flushed \in ends \cup {0}
      /\ Len(fsevents) <= Len(unacked) /\ flushed <= NbPushed
      /\ \A n \in 1 .. Len(fsevents) : fsevents[n] = unacked[NbPushed + n]
  BY DEF TypeInv, LogInv
<1>2. flushed \in Nat /\ NbPushed \in Nat /\ NbPushed + Len(fsevents) = Len(unacked)
  BY <1>1 DEF NbPushed
<1>3. Coming = {fsevents[n] : n \in 1 .. Len(fsevents)}
      /\ Logs = {unacked[n] : n \in 1 .. Len(unacked)}
  BY <1>1, ToSetFacts DEF Coming, Logs
<1>4. \A n \in 1 .. Len(fsevents) : NbPushed + n \in flushed + 1 .. Len(unacked)
  BY <1>1, <1>2
<1>5. Coming \subseteq Recent
  BY <1>1, <1>3, <1>4 DEF Recent
<1>6. flushed + 1 .. Len(unacked) \subseteq 1 .. Len(unacked)
  BY <1>1, <1>2
<1> QED
  BY <1>3, <1>5, <1>6 DEF Recent

\* What the acknowledgment does to the queues.
AckEffect ==
    /\ UNCHANGED <<fs, stale, fsevents, crashes, pool, sent, db>> /\ flushed' = 0
    /\ Coming' = Coming /\ Logs' = Recent /\ Recent' = Recent
    /\ \A i : List(pool, i)' = List(pool, i) /\ Cached(i)' = Cached(i) /\ Queued(i)' = Queued(i)
    /\ \A i \in Id : sent[i] = <<>> /\ Queued(i) = {}

\* An acknowledgment forgets what the batches covered.
LEMMA AckKeepsTypes ==
    ASSUME TypeInv, Ack
    PROVE  TypeInv' /\ AckEffect
<1>0. /\ UNCHANGED <<fs, stale, fsevents, crashes, pool, sent, db>> /\ flushed' = 0
      /\ \A i \in Id : sent[i] = <<>>
      /\ unacked' = SubSeq(unacked, flushed + 1, Len(unacked))
      /\ ends' = {n - flushed : n \in {m \in ends : m > flushed}}
  BY DEF Ack
<1>1. /\ fsevents \in Seq(Ev) /\ unacked \in Seq(Ev) /\ Len(unacked) \in Nat
      /\ Len(fsevents) \in Nat /\ ends \subseteq 1 .. Len(unacked) /\ flushed \in ends \cup {0}
      /\ Len(fsevents) <= Len(unacked) /\ flushed <= NbPushed
      /\ \A n \in 1 .. Len(fsevents) : fsevents[n] = unacked[NbPushed + n]
  BY DEF TypeInv, LogInv
<1>2. flushed \in Nat /\ NbPushed \in Nat /\ NbPushed + Len(fsevents) = Len(unacked)
      /\ flushed <= Len(unacked)
  BY <1>1 DEF NbPushed
<1>3. /\ unacked' \in Seq(Ev) /\ Len(unacked') = Len(unacked) - flushed
      /\ \A n \in 1 .. Len(unacked) - flushed : unacked'[n] = unacked[flushed + n]
  BY <1>0, <1>1, <1>2, SuffixFacts
<1>4. LogInv'
  <2>1. ends' \subseteq 1 .. Len(unacked')
    <3>1. \A m \in ends : m > flushed => m - flushed \in 1 .. Len(unacked) - flushed
      BY <1>1, <1>2
    <3> QED
      BY <1>0, <1>3, <3>1
  <2>2. NbPushed' = NbPushed - flushed /\ flushed' <= NbPushed' /\ Len(fsevents') <= Len(unacked')
    <3>1. NbPushed' = (Len(unacked) - flushed) - Len(fsevents)
      BY <1>0, <1>3 DEF NbPushed
    <3> QED
      BY <1>0, <1>1, <1>2, <1>3, <3>1
  <2>3. ASSUME NEW n \in 1 .. Len(fsevents')
        PROVE  fsevents'[n] = unacked'[NbPushed' + n]
    <3>1. n \in 1 .. Len(fsevents) /\ fsevents'[n] = unacked[NbPushed + n]
      BY <1>0, <1>1
    <3>2. NbPushed' + n \in 1 .. Len(unacked) - flushed /\ flushed + (NbPushed' + n) = NbPushed + n
      BY <1>1, <1>2, <2>2, <3>1
    <3>3. unacked'[NbPushed' + n] = unacked[flushed + (NbPushed' + n)]
      BY <1>3, <3>2
    <3> QED
      BY <3>1, <3>2, <3>3
  <2> QED
    BY <1>0, <1>1, <1>3, <2>1, <2>2, <2>3 DEF LogInv
<1>5. Logs' = Recent
  <2>1. Logs' = {unacked'[n] : n \in 1 .. Len(unacked')}
    BY <1>3, ToSetFacts DEF Logs
  <2>2. \A n \in 1 .. Len(unacked') :
            flushed + n \in flushed + 1 .. Len(unacked) /\ unacked'[n] = unacked[flushed + n]
    BY <1>2, <1>3
  <2>3. \A m \in flushed + 1 .. Len(unacked) :
            m - flushed \in 1 .. Len(unacked') /\ unacked'[m - flushed] = unacked[m]
    <3> SUFFICES ASSUME NEW m \in flushed + 1 .. Len(unacked)
                 PROVE m - flushed \in 1 .. Len(unacked') /\ unacked'[m - flushed] = unacked[m]
      OBVIOUS
    <3>1. m - flushed \in 1 .. Len(unacked) - flushed /\ flushed + (m - flushed) = m
      BY <1>1, <1>2
    <3>2. unacked'[m - flushed] = unacked[flushed + (m - flushed)]
      BY <1>3, <3>1
    <3> QED
      BY <1>3, <3>1, <3>2
  <2>4. Logs' \subseteq Recent
    BY <2>1, <2>2 DEF Recent
  <2>5. Recent \subseteq Logs'
    BY <2>1, <2>3 DEF Recent
  <2> QED
    BY <2>4, <2>5
<1>6. Recent' = Logs'
  <2>1. flushed' + 1 = 1
    BY <1>0
  <2>2. Logs' = {unacked'[n] : n \in 1 .. Len(unacked')}
    BY <1>3, ToSetFacts DEF Logs
  <2> QED
    BY <2>1, <2>2 DEF Recent
<1>7. AckEffect
  <2>1. Coming' = Coming
        /\ \A i : List(pool, i)' = List(pool, i) /\ Cached(i)' = Cached(i) /\ Queued(i)' = Queued(i)
    BY <1>0 DEF Coming, Cached, Queued, List, Holds
  <2>2. \A i \in Id : Queued(i) = {}
    BY <1>0, ToSetEmpty DEF Queued
  <2> QED
    BY <1>0, <1>5, <1>6, <2>1, <2>2 DEF AckEffect
<1>8. FsInv' /\ DbInv' /\ QueueInv'
  BY <1>0 DEF TypeInv, FsInv, DbInv, QueueInv, fs, db
<1>9. FitsInv'
  BY <1>7, ComingRecent DEF TypeInv, FitsInv, AckEffect
<1> QED
  BY <1>4, <1>7, <1>8, <1>9 DEF TypeInv

\* What a crash does to the queues.
CrashEffect ==
    /\ UNCHANGED <<fs, stale, unacked, ends, db>> /\ flushed' = 0 /\ fsevents' = unacked
    /\ Coming' = Logs /\ Logs' = Logs /\ crashes' = crashes + 1 /\ crashes' > 0
    /\ sent' = [i \in Id |-> <<>>] /\ pool' = EmptyPool
    /\ \A i : List(pool, i)' = <<>> /\ Cached(i)' = {} /\ ~Holds(pool, i)'
    /\ \A i \in Id : sent'[i] = <<>> /\ Queued(i)' = {}

\* A restart reads again what was not acknowledged.
LEMMA CrashKeepsTypes ==
    ASSUME TypeInv, Crash
    PROVE  TypeInv' /\ CrashEffect
<1>0. /\ UNCHANGED <<fs, stale, unacked, ends, db>> /\ flushed' = 0 /\ fsevents' = unacked
      /\ sent' = [i \in Id |-> <<>>] /\ pool' = EmptyPool /\ crashes' = crashes + 1
      /\ records + crashes < MaxRecords /\ records' = records
  BY DEF Crash, fs
<1>1. crashes' \in 0 .. MaxRecords /\ crashes' > 0
  <2>1. records \in 0 .. MaxRecords /\ crashes \in 0 .. MaxRecords
    BY DEF TypeInv, FsInv
  <2> QED
    BY <1>0, <2>1, BoundAssumption
<1>2. FsInv' /\ DbInv'
  BY <1>0, <1>1 DEF TypeInv, FsInv, DbInv, fs, db
<1>3. LogInv'
  <2>1. unacked \in Seq(Ev) /\ Len(unacked) \in Nat /\ ends \subseteq 1 .. Len(unacked)
    BY DEF TypeInv, LogInv
  <2>2. NbPushed' = 0
    BY <1>0, <2>1 DEF NbPushed
  <2> QED
    BY <1>0, <2>1, <2>2 DEF LogInv
<1>4. QueueInv'
  BY <1>0, EmptyFacts, PoolSizeAssumption DEF QueueInv
<1>5. CrashEffect
  <2>1. \A i : List(pool, i)' = <<>> /\ Cached(i)' = {} /\ ~Holds(pool, i)'
    BY <1>0, EmptyFacts, ToSetEmpty DEF Cached
  <2>2. \A i \in Id : sent'[i] = <<>> /\ Queued(i)' = {}
    BY <1>0, ToSetEmpty DEF Queued
  <2>3. Coming' = Logs /\ Logs' = Logs
    BY <1>0 DEF Coming, Logs
  <2> QED
    BY <1>0, <1>1, <2>1, <2>2, <2>3 DEF CrashEffect
<1>6. FitsInv'
  BY <1>5 DEF TypeInv, FitsInv, CrashEffect
<1> QED
  BY <1>2, <1>3, <1>4, <1>5, <1>6 DEF TypeInv

\* Every step keeps the types.
LEMMA TypeStep == TypeInv /\ [Next]_vars => TypeInv'
<1> SUFFICES ASSUME TypeInv, [Next]_vars PROVE TypeInv'
  OBVIOUS
<1>1. CASE UserStep
  <2>1. PICK events : LogsRecord(events)
    BY <1>1, UserLogs DEF TypeInv
  <2> QED
    BY <2>1, LogKeepsTypes
<1>2. CASE PushDeduplicated \/ PushNew
  BY <1>2, PushSteps, PushKeepsTypes
<1>3. CASE PushFull
  BY <1>3, FullKeepsTypes
<1>4. CASE Flush
  BY <1>4, FlushKeepsTypes
<1>5. ASSUME NEW i \in Id, Process(i) \/ Skip(i) PROVE TypeInv'
  BY <1>5, TakeKeepsTypes
<1>6. CASE Ack
  BY <1>6, AckKeepsTypes
<1>7. CASE Crash
  BY <1>7, CrashKeepsTypes
<1>8. CASE UNCHANGED vars
  BY <1>8 DEF vars, fs, db, changelog, TypeInv, FsInv, DbInv, LogInv, QueueInv, FitsInv,
              NbPushed, Coming, Logs, Cached, Queued
<1> QED
  BY <1>1, <1>2, <1>3, <1>4, <1>5, <1>6, <1>7, <1>8 DEF Next, RbhStep

\* Every variable keeps its type: the database only holds files, under names, and
\* what the workers are given is a well formed fsevent, whatever was merged.
THEOREM TypeCorrect == Spec => []TypeOK
<1>1. TypeInv => TypeOK
  BY TypeImplies
<1> QED
  BY TypeInit, TypeStep, <1>1, PTL DEF Spec

\* The hashmap, the list of ids and the count of the pool agree after every push:
\* rbh_fsevent_pool_flush, that runs count times, finds each list and none is empty.
THEOREM PoolStaysConsistent == Spec => []PoolConsistent
<1>1. TypeInv => PoolConsistent
  BY TypeImplies
<1> QED
  BY TypeInit, TypeStep, <1>1, PTL DEF Spec

-----------------------------------------------------------------------------
(* Names: what users do.                                                   *)

IsLink(e, f, l) == e.type = "LINK" /\ e.id = f /\ e.link = l
IsUnlink(e, f, l) == e.type = "UNLINK" /\ e.id = f /\ e.link = l
IsDelete(e, f) == e.type = "DELETE" /\ e.id = f
Gone(e, f, l) == IsUnlink(e, f, l) \/ IsDelete(e, f)

\* An fsevent that makes the database create the entry.
Makes(e, f) == e.id = f /\ e.type \in {"LINK", "UPSERT"}

\* An fsevent that takes away a name, or deletes a file, is about a name or a file
\* that is gone for good.
Past(e) ==
    /\ e.type = "UNLINK" => e.link \in had[e.id] \ links[e.id]
    /\ e.type = "DELETE" => links[e.id] = {} /\ had[e.id] # {}
    /\ e.type = "LINK" => e.link \in had[e.id]
    /\ e.id \in File => had[e.id] # {}

OneLink(s) == \E k : \A n \in 1 .. Len(s) : s[n].type = "LINK" => n = k

\* What every record says of the step of the user it is the record of.
Honest(events) ==
    /\ \A f \in File : /\ had[f] \subseteq had'[f]
                       /\ links'[f] \subseteq links[f] \cup (had'[f] \ had[f])
    /\ \A f \in File : had[f] # {} /\ links[f] = {} => links'[f] = {} /\ had'[f] = had[f]
    /\ \A e \in ToSet(events) : Past(e)'
    /\ \A f \in File : \A l \in links'[f] \ links[f] :
          \E e \in ToSet(events) : IsLink(e, f, l)
    /\ \A e \in ToSet(events) : e.type = "LINK" => e.link \in links'[e.id] \ had[e.id]
    /\ OneLink(events)
    /\ \A f \in File : \A l \in links[f] \ links'[f] :
          \E e \in ToSet(events) : Gone(e, f, l)
    /\ \A f \in File : links[f] # {} /\ links'[f] = {} =>
          \E e \in ToSet(events) : IsDelete(e, f)
    /\ \A f \in File : \A e \in ToSet(events) : Makes(e, f) => links'[f] # {}
    /\ \A f \in File : had[f] = {} /\ (\E e \in ToSet(events) : e.id = f) =>
          events[1].type = "LINK" /\ events[1].id = f
    /\ \A e \in ToSet(events) : e.type = "DELETE" => DeleteMoved \/ ~Moved(e.id)'

\* What the constructors put into an fsevent.
LEMMA EventFields ==
    /\ \A i, l : /\ new_link_inode_event(i, l).type = "LINK"
                 /\ new_link_inode_event(i, l).id = i /\ new_link_inode_event(i, l).link = l
    /\ \A i : DeleteOf(i).type = "DELETE" /\ DeleteOf(i).id = i
    /\ \A i, l : UnlinkOf(i, l).type = "UNLINK" /\ UnlinkOf(i, l).id = i /\ UnlinkOf(i, l).link = l
    /\ \A i, mask : /\ build_statx_event(i, mask).type = "UPSERT"
                    /\ build_statx_event(i, mask).id = i
                    /\ build_statx_event(i, mask).enrich = mask
    /\ \A i, keys : /\ build_enrich_xattr(i, keys).type = "XATTR"
                    /\ build_enrich_xattr(i, keys).id = i
                    /\ build_enrich_xattr(i, keys).enrich = keys
    /\ \A i : /\ update_parent_acmtime_event(i).type = "UPSERT"
              /\ update_parent_acmtime_event(i).id = i
              /\ update_parent_acmtime_event(i).enrich = {"time"}
    /\ \A i, inc : /\ update_parent_nb_children_event(i, inc).type = "XATTR"
                   /\ update_parent_nb_children_event(i, inc).id = i
                   /\ update_parent_nb_children_event(i, inc).enrich = {}
                   /\ update_parent_nb_children_event(i, inc).inc = inc
BY DEF Event, new_link_inode_event, UnlinkOf, DeleteOf, build_statx_event,
       build_enrich_xattr, update_parent_acmtime_event, update_parent_nb_children_event

\* A record with at most one LINK.
LEMMA OneLinkFirst ==
    ASSUME NEW q \in Seq(Ev), NEW r \in Seq(Ev), OneLink(q), \A e \in ToSet(r) : e.type # "LINK"
    PROVE  OneLink(q \o r) /\ OneLink(r \o q)
<1>1. PICK k : \A n \in 1 .. Len(q) : q[n].type = "LINK" => n = k
  BY DEF OneLink
<1>2. Len(q) \in Nat /\ Len(r) \in Nat
  OBVIOUS
<1>3. \A n \in 1 .. Len(r) : r[n].type # "LINK"
  BY ToSetType
<1>4. OneLink(q \o r)
  <2> DEFINE c == q \o r
  <2>1. /\ Len(c) = Len(q) + Len(r) /\ \A n \in 1 .. Len(q) : c[n] = q[n]
        /\ \A n \in 1 .. Len(r) : c[Len(q) + n] = r[n]
    BY ConcatFacts
  <2> HIDE DEF c
  <2>2. ASSUME NEW n \in 1 .. Len(c), c[n].type = "LINK" PROVE n = k
    <3>1. CASE n \in 1 .. Len(q)
      BY <1>1, <2>1, <2>2, <3>1
    <3>2. CASE n \notin 1 .. Len(q)
      <4>1. n - Len(q) \in 1 .. Len(r) /\ Len(q) + (n - Len(q)) = n
        BY <1>2, <2>1, <3>2
      <4>2. c[Len(q) + (n - Len(q))] = r[n - Len(q)]
        BY <2>1, <4>1
      <4> QED
        BY <1>3, <2>2, <4>1, <4>2
    <3> QED
      BY <3>1, <3>2
  <2> QED
    BY <2>2 DEF OneLink, c
<1>5. OneLink(r \o q)
  <2> DEFINE c == r \o q
  <2>1. /\ Len(c) = Len(r) + Len(q) /\ \A n \in 1 .. Len(r) : c[n] = r[n]
        /\ \A n \in 1 .. Len(q) : c[Len(r) + n] = q[n]
    BY ConcatFacts
  <2> HIDE DEF c
  <2>2. ASSUME NEW n \in 1 .. Len(c), c[n].type = "LINK" PROVE n = Len(r) + k
    <3>1. CASE n \in 1 .. Len(r)
      BY <1>3, <2>1, <2>2, <3>1
    <3>2. CASE n \notin 1 .. Len(r)
      <4>1. n - Len(r) \in 1 .. Len(q) /\ Len(r) + (n - Len(r)) = n
        BY <1>2, <2>1, <3>2
      <4>2. c[Len(r) + (n - Len(r))] = q[n - Len(r)]
        BY <2>1, <4>1
      <4>3. n - Len(r) = k
        BY <1>1, <2>2, <4>1, <4>2
      <4> QED
        BY <4>1, <4>3
    <3> QED
      BY <3>1, <3>2
  <2> QED
    BY <2>2 DEF OneLink, c
<1> QED
  BY <1>4, <1>5

\* The record of Create says what it did.
LEMMA CreateHonest ==
    ASSUME FsInv, NEW f \in File, NEW l \in Link, Create(f, l)
    PROVE  Honest(build_create_inode_events(f, l))
<1> DEFINE events == build_create_inode_events(f, l)
<1>1. /\ links \in [File -> SUBSET Link] /\ had \in [File -> SUBSET Link]
      /\ had[f] = {} /\ links' = [links EXCEPT ![f] = @ \cup {l}]
      /\ had' = [had EXCEPT ![f] = @ \cup {l}]
  BY DEF FsInv, Create, Names
<1>2. \A e \in ToSet(events) :
        IsLink(e, f, l) \/ (e.type \in {"UPSERT", "XATTR"} /\ (e.id = f \/ e.id \in Dir))
  BY CreateRecord, EventFields, ParentType DEF IsLink
<1>3. \E e \in ToSet(events) : IsLink(e, f, l)
  BY CreateRecord, EventFields DEF IsLink
<1>4. events[1].type = "LINK" /\ events[1].id = f
  BY CreateRecord, EventFields
<1>5. OneLink(events)
  <2>1. events = << new_link_inode_event(f, l), build_enrich_xattr(f, {"lustre"}),
                    build_statx_event(f, Statx), update_parent_acmtime_event(Parent(l)),
                    update_parent_nb_children_event(Parent(l), 1) >>
    BY DEF build_create_inode_events
  <2>2. /\ Len(events) = 5 /\ events[2] = build_enrich_xattr(f, {"lustre"})
        /\ events[3] = build_statx_event(f, Statx)
        /\ events[4] = update_parent_acmtime_event(Parent(l))
        /\ events[5] = update_parent_nb_children_event(Parent(l), 1)
    BY <2>1
  <2> HIDE DEF events
  <2>3. /\ events[2].type = "XATTR" /\ events[3].type = "UPSERT" /\ events[4].type = "UPSERT"
        /\ events[5].type = "XATTR"
    BY <2>2, EventFields
  <2>4. \A n \in 1 .. 5 : n = 1 \/ n = 2 \/ n = 3 \/ n = 4 \/ n = 5
    OBVIOUS
  <2>5. \A n \in 1 .. Len(events) : events[n].type = "LINK" => n = 1
    BY <2>2, <2>3, <2>4
  <2> QED
    BY <2>5 DEF OneLink
<1> HIDE DEF events
<1>6. \A g \in File : g \notin Dir
  BY IdsAssumption
<1>7. /\ links'[f] = links[f] \cup {l} /\ had'[f] = {l}
      /\ \A g \in File : g # f => links'[g] = links[g] /\ had'[g] = had[g]
  BY <1>1
<1>8. /\ \A g \in File : /\ had[g] \subseteq had'[g]
                         /\ links'[g] \subseteq links[g] \cup (had'[g] \ had[g])
      /\ \A g \in File : had[g] # {} /\ links[g] = {} => links'[g] = {} /\ had'[g] = had[g]
  BY <1>1, <1>7
<1>9. \A e \in ToSet(events) : Past(e)'
  BY <1>2, <1>6, <1>7 DEF Past, IsLink
<1>10. \A g \in File : \A k \in links'[g] \ links[g] : \E e \in ToSet(events) : IsLink(e, g, k)
  BY <1>3, <1>7
<1>11. \A e \in ToSet(events) : e.type = "LINK" => e.link \in links'[e.id] \ had[e.id]
  BY <1>1, <1>2, <1>7 DEF IsLink
<1>12. /\ \A g \in File : \A k \in links[g] \ links'[g] : \E e \in ToSet(events) : Gone(e, g, k)
       /\ \A g \in File : links[g] # {} /\ links'[g] = {} =>
            \E e \in ToSet(events) : IsDelete(e, g)
       /\ \A g \in File : \A e \in ToSet(events) : Makes(e, g) => links'[g] # {}
  BY <1>2, <1>6, <1>7 DEF Makes, IsLink
<1>13. \A g \in File : had[g] = {} /\ (\E e \in ToSet(events) : e.id = g) =>
          events[1].type = "LINK" /\ events[1].id = g
  BY <1>2, <1>4, <1>6 DEF IsLink
<1>14. \A e \in ToSet(events) : e.type = "DELETE" => DeleteMoved \/ ~Moved(e.id)'
  BY <1>2 DEF IsLink
<1>15. Honest(events)
  BY <1>5, <1>8, <1>9, <1>10, <1>11, <1>12, <1>13, <1>14 DEF Honest
<1> QED
  BY <1>15 DEF events

\* The steps that change no name.
LEMMA QuietHonest ==
    ASSUME FsInv, NEW f \in File, had[f] # {}, links[f] # {}, links' = links, had' = had,
           NEW events \in Seq(Ev),
           \A e \in ToSet(events) : e.type \in {"UPSERT", "XATTR"} /\ e.id = f
    PROVE  Honest(events)
<1>1. OneLink(events)
  <2>1. \A n \in 1 .. Len(events) : events[n] \in ToSet(events)
    BY ToSetType
  <2>2. \A n \in 1 .. Len(events) : events[n].type # "LINK"
    BY <2>1
  <2> QED
    BY <2>2 DEF OneLink
<1>2. \A e \in ToSet(events) : e.type # "LINK" /\ e.type # "UNLINK" /\ e.type # "DELETE"
  OBVIOUS
<1>3. \A e \in ToSet(events) : Past(e)'
  BY <1>2 DEF Past
<1>4. \A g \in File : \A e \in ToSet(events) : Makes(e, g) => links'[g] # {}
  BY DEF Makes
<1> QED
  BY <1>1, <1>2, <1>3, <1>4 DEF Honest

LinksHad == \A f \in File : links[f] \subseteq had[f]

\* The record of Write says what it did.
LEMMA WriteHonest ==
    ASSUME FsInv, LinksHad, NEW f \in File, Write(f)
    PROVE  Honest(build_statx_update_event(f))
<1>1. had[f] # {} /\ links[f] # {} /\ links' = links /\ had' = had
  BY DEF Write, Alive, LinksHad
<1>2. \A e \in ToSet(build_statx_update_event(f)) : e.type \in {"UPSERT", "XATTR"} /\ e.id = f
  BY WriteRecord, EventFields
<1>3. build_statx_update_event(f) \in Seq(Ev)
  BY WriteRecord
<1> QED
  BY <1>1, <1>2, <1>3, QuietHonest

\* The record of SetXattr says what it did.
LEMMA SetXattrHonest ==
    ASSUME FsInv, LinksHad, NEW f \in File, SetXattr(f)
    PROVE  Honest(build_setxattr_event(f))
<1>1. had[f] # {} /\ links[f] # {} /\ links' = links /\ had' = had
  BY DEF SetXattr, Alive, LinksHad
<1>2. \A e \in ToSet(build_setxattr_event(f)) : e.type \in {"UPSERT", "XATTR"} /\ e.id = f
  BY SetxattrRecord, EventFields
<1>3. build_setxattr_event(f) \in Seq(Ev)
  BY SetxattrRecord
<1> QED
  BY <1>1, <1>2, <1>3, QuietHonest

\* The record of HardLink says what it did.
LEMMA HardLinkHonest ==
    ASSUME FsInv, LinksHad, ~Relink, NEW f \in File, NEW l \in Link, HardLink(f, l)
    PROVE  Honest(build_hardlink_events(f, l))
<1> DEFINE events == build_hardlink_events(f, l)
<1>1. /\ links \in [File -> SUBSET Link] /\ had \in [File -> SUBSET Link]
      /\ links[f] # {} /\ had[f] # {} /\ l \notin had[f]
      /\ links' = [links EXCEPT ![f] = @ \cup {l}] /\ had' = [had EXCEPT ![f] = @ \cup {l}]
  BY DEF FsInv, HardLink, Names, Alive, LinksHad
<1>2. \A e \in ToSet(events) :
        IsLink(e, f, l) \/ (e.type \in {"UPSERT", "XATTR"} /\ (e.id = f \/ e.id \in Dir))
  BY HardlinkRecord, EventFields, ParentType DEF IsLink
<1>3. \E e \in ToSet(events) : IsLink(e, f, l)
  BY HardlinkRecord, EventFields DEF IsLink
<1>5. OneLink(events)
  <2>1. events = << new_link_inode_event(f, l),
                    build_statx_event(f, Statx), update_parent_acmtime_event(Parent(l)),
                    update_parent_nb_children_event(Parent(l), 1) >>
    BY DEF build_hardlink_events
  <2>2. /\ Len(events) = 4 /\ events[2] = build_statx_event(f, Statx)
        /\ events[3] = update_parent_acmtime_event(Parent(l))
        /\ events[4] = update_parent_nb_children_event(Parent(l), 1)
    BY <2>1
  <2> HIDE DEF events
  <2>3. events[2].type = "UPSERT" /\ events[3].type = "UPSERT" /\ events[4].type = "XATTR"
    BY <2>2, EventFields
  <2>4. \A n \in 1 .. 4 : n = 1 \/ n = 2 \/ n = 3 \/ n = 4
    OBVIOUS
  <2>5. \A n \in 1 .. Len(events) : events[n].type = "LINK" => n = 1
    BY <2>2, <2>3, <2>4
  <2> QED
    BY <2>5 DEF OneLink
<1> HIDE DEF events
<1>6. \A g \in File : g \notin Dir
  BY IdsAssumption
<1>7. /\ links'[f] = links[f] \cup {l} /\ had'[f] = had[f] \cup {l}
      /\ \A g \in File : g # f => links'[g] = links[g] /\ had'[g] = had[g]
  BY <1>1
<1>8. /\ \A g \in File : /\ had[g] \subseteq had'[g]
                         /\ links'[g] \subseteq links[g] \cup (had'[g] \ had[g])
      /\ \A g \in File : had[g] # {} /\ links[g] = {} => links'[g] = {} /\ had'[g] = had[g]
  BY <1>1, <1>7
<1>9. \A e \in ToSet(events) : Past(e)'
  BY <1>2, <1>6, <1>7 DEF Past, IsLink
<1>10. \A g \in File : \A k \in links'[g] \ links[g] : \E e \in ToSet(events) : IsLink(e, g, k)
  BY <1>3, <1>7
<1>11. \A e \in ToSet(events) : e.type = "LINK" => e.link \in links'[e.id] \ had[e.id]
  BY <1>1, <1>2, <1>7 DEF IsLink
<1>12. /\ \A g \in File : \A k \in links[g] \ links'[g] : \E e \in ToSet(events) : Gone(e, g, k)
       /\ \A g \in File : links[g] # {} /\ links'[g] = {} =>
            \E e \in ToSet(events) : IsDelete(e, g)
       /\ \A g \in File : \A e \in ToSet(events) : Makes(e, g) => links'[g] # {}
  BY <1>2, <1>6, <1>7 DEF Makes, IsLink
<1>13. \A g \in File : had[g] = {} /\ (\E e \in ToSet(events) : e.id = g) =>
          events[1].type = "LINK" /\ events[1].id = g
  BY <1>1, <1>2, <1>6 DEF IsLink
<1>14. \A e \in ToSet(events) : e.type = "DELETE" => DeleteMoved \/ ~Moved(e.id)'
  BY <1>2 DEF IsLink
<1>15. Honest(events)
  BY <1>5, <1>8, <1>9, <1>10, <1>11, <1>12, <1>13, <1>14 DEF Honest
<1> QED
  BY <1>15 DEF events

\* The record of Unlink says what it did.
LEMMA UnlinkHonest ==
    ASSUME FsInv, LinksHad, NEW f \in File, NEW l \in Link, Unlink(f, l)
    PROVE  Honest(build_unlink_events(f, l, links[f] = {l}))
<1> DEFINE events == build_unlink_events(f, l, links[f] = {l})
<1>1. /\ links \in [File -> SUBSET Link] /\ had \in [File -> SUBSET Link]
      /\ l \in links[f] /\ l \in had[f] /\ (links[f] = {l} /\ Moved(f) => DeleteMoved)
      /\ links' = [links EXCEPT ![f] = @ \ {l}] /\ had' = had
  BY DEF FsInv, Unlink, LinksHad
<1>2. events \in Seq(Ev)
  BY UnlinkRecord
<1> DEFINE x == unlink_inode_event(f, l, links[f] = {l})
<1>a. ToSet(events) = {x, update_parent_acmtime_event(Parent(l)),
                       update_parent_nb_children_event(Parent(l), -1)}
  BY UnlinkRecord
<1>b. IF links[f] = {l} THEN x = DeleteOf(f) ELSE x = UnlinkOf(f, l)
  BY DEF unlink_inode_event, DeleteOf, UnlinkOf
<1> HIDE DEF x
<1>c. IF links[f] = {l} THEN IsDelete(x, f) ELSE IsUnlink(x, f, l)
  BY <1>b, EventFields DEF IsDelete, IsUnlink
<1>3. \A e \in ToSet(events) :
        \/ links[f] = {l} /\ IsDelete(e, f)
        \/ links[f] # {l} /\ IsUnlink(e, f, l)
        \/ e.type \in {"UPSERT", "XATTR"} /\ e.id \in Dir
  BY <1>a, <1>c, EventFields, ParentType
<1>4. \E e \in ToSet(events) : IF links[f] = {l} THEN IsDelete(e, f) ELSE IsUnlink(e, f, l)
  BY <1>a, <1>c
<1> HIDE DEF events
<1>5. OneLink(events)
  <2>1. \A n \in 1 .. Len(events) : events[n] \in ToSet(events)
    BY <1>2, ToSetType
  <2>2. \A e \in ToSet(events) : e.type # "LINK"
    BY <1>3 DEF IsDelete, IsUnlink
  <2> QED
    BY <2>1, <2>2 DEF OneLink
<1>6. \A g \in File : g \notin Dir
  BY IdsAssumption
<1>7. /\ links'[f] = links[f] \ {l} /\ had'[f] = had[f]
      /\ \A g \in File : g # f => links'[g] = links[g] /\ had'[g] = had[g]
  BY <1>1
<1>8. /\ \A g \in File : /\ had[g] \subseteq had'[g]
                         /\ links'[g] \subseteq links[g] \cup (had'[g] \ had[g])
      /\ \A g \in File : had[g] # {} /\ links[g] = {} => links'[g] = {} /\ had'[g] = had[g]
  BY <1>1, <1>7
<1>9. \A e \in ToSet(events) : Past(e)'
  BY <1>1, <1>3, <1>6, <1>7 DEF Past, IsDelete, IsUnlink
<1>10. \A g \in File : \A k \in links'[g] \ links[g] : \E e \in ToSet(events) : IsLink(e, g, k)
  BY <1>7
<1>11. \A e \in ToSet(events) : e.type = "LINK" => e.link \in links'[e.id] \ had[e.id]
  BY <1>3 DEF IsDelete, IsUnlink
<1>12. /\ \A g \in File : \A k \in links[g] \ links'[g] : \E e \in ToSet(events) : Gone(e, g, k)
       /\ \A g \in File : links[g] # {} /\ links'[g] = {} =>
            \E e \in ToSet(events) : IsDelete(e, g)
  BY <1>1, <1>4, <1>7 DEF Gone
<1>16. \A g \in File : \A e \in ToSet(events) : Makes(e, g) => links'[g] # {}
  BY <1>3, <1>6 DEF Makes, IsDelete, IsUnlink
<1>13. \A g \in File : had[g] = {} /\ (\E e \in ToSet(events) : e.id = g) =>
          events[1].type = "LINK" /\ events[1].id = g
  BY <1>1, <1>3, <1>6 DEF IsDelete, IsUnlink
<1>14. \A e \in ToSet(events) : e.type = "DELETE" => DeleteMoved \/ ~Moved(e.id)'
  BY <1>1, <1>3 DEF IsUnlink, IsDelete, Moved
<1>15. Honest(events)
  BY <1>5, <1>8, <1>9, <1>10, <1>11, <1>12, <1>13, <1>14, <1>16 DEF Honest
<1> QED
  BY <1>15 DEF events

\* Only the target half of a rename has a LINK.
LEMMA TargetOneLink ==
    ASSUME NEW f \in File, NEW from \in Link, NEW to \in Link
    PROVE  /\ OneLink(RenameTarget(f, to))
           /\ \A e \in ToSet(RenameSource(f, from)) : e.type # "LINK"
<1> DEFINE events == RenameTarget(f, to)
<1>1. events = << new_link_inode_event(f, to), build_statx_event(f, Statx),
                  update_parent_acmtime_event(Parent(to)) >>
  BY DEF RenameTarget
<1>2. /\ Len(events) = 3 /\ events[2] = build_statx_event(f, Statx)
      /\ events[3] = update_parent_acmtime_event(Parent(to))
  BY <1>1
<1> HIDE DEF events
<1>3. events[2].type = "UPSERT" /\ events[3].type = "UPSERT"
  BY <1>2, EventFields
<1>4. \A n \in 1 .. 3 : n = 1 \/ n = 2 \/ n = 3
  OBVIOUS
<1>5. \A n \in 1 .. Len(events) : events[n].type = "LINK" => n = 1
  BY <1>2, <1>3, <1>4
<1>6. OneLink(events)
  BY <1>5 DEF OneLink
<1>8. ToSet(RenameSource(f, from)) =
        {UnlinkOf(f, from), update_parent_acmtime_event(Parent(from)),
         update_parent_nb_children_event(Parent(from), -1)}
  BY RenameParts
<1>7. \A e \in ToSet(RenameSource(f, from)) : e.type # "LINK"
  BY <1>8, EventFields
<1> QED
  BY <1>6, <1>7 DEF events

\* The record of Rename says what it did.
LEMMA RenameHonest ==
    ASSUME FsInv, LinksHad, ~Relink, NEW f \in File, NEW from \in Link, NEW to \in Link,
           Rename(f, from, to)
    PROVE  Honest(build_rename_events(f, from, to))
<1> DEFINE events == build_rename_events(f, from, to)
<1>1. /\ links \in [File -> SUBSET Link] /\ had \in [File -> SUBSET Link]
      /\ from \in links[f] /\ from \in had[f] /\ to \notin had[f]
      /\ links' = [[links EXCEPT ![f] = @ \ {from}] EXCEPT ![f] = @ \cup {to}]
      /\ had' = [had EXCEPT ![f] = @ \cup {to}]
  BY DEF FsInv, Rename, Names, LinksHad
<1>a. ToSet(events) = {new_link_inode_event(f, to), build_statx_event(f, Statx),
                       update_parent_acmtime_event(Parent(to)),
                       update_parent_nb_children_event(Parent(to), 1),
                       UnlinkOf(f, from), update_parent_acmtime_event(Parent(from)),
                       update_parent_nb_children_event(Parent(from), -1)}
  BY RenameRecord
<1>2. \A e \in ToSet(events) :
        \/ IsLink(e, f, to) \/ IsUnlink(e, f, from)
        \/ e.type \in {"UPSERT", "XATTR"} /\ (e.id = f \/ e.id \in Dir)
  BY <1>a, EventFields, ParentType DEF IsLink, IsUnlink
<1>3. (\E e \in ToSet(events) : IsLink(e, f, to)) /\ (\E e \in ToSet(events) : IsUnlink(e, f, from))
  BY <1>a, EventFields DEF IsLink, IsUnlink
<1>5. OneLink(events)
  <2> DEFINE a == RenameTarget(f, to)
             x == update_parent_nb_children_event(Parent(to), 1)
             b == <<x>>
             c == RenameSource(f, from)
  <2>1. x \in Ev /\ x.type # "LINK"
    <3>1. 1 \in Int /\ Parent(to) \in Id
      BY ParentType
    <3> QED
      BY <3>1, EventFacts, EventFields
  <2>2. events = (a \o b) \o c
    BY DEF build_rename_events
  <2>3. a \in Seq(Ev) /\ c \in Seq(Ev) /\ OneLink(a) /\ \A e \in ToSet(c) : e.type # "LINK"
    BY RenameParts, TargetOneLink
  <2> HIDE DEF a, c, x
  <2>4. b \in Seq(Ev) /\ \A e \in ToSet(b) : e.type # "LINK"
    BY <2>1, ToSetOne
  <2> HIDE DEF b
  <2> DEFINE d == a \o b
  <2>5. d \in Seq(Ev) /\ OneLink(d)
    BY <2>3, <2>4, OneLinkFirst, ConcatFacts
  <2> HIDE DEF d
  <2>6. OneLink(d \o c)
    BY <2>3, <2>5, OneLinkFirst
  <2> QED
    BY <2>2, <2>6 DEF d
<1> HIDE DEF events
<1>6. \A g \in File : g \notin Dir
  BY IdsAssumption
<1>7. /\ links'[f] = (links[f] \ {from}) \cup {to} /\ had'[f] = had[f] \cup {to} /\ from # to
      /\ \A g \in File : g # f => links'[g] = links[g] /\ had'[g] = had[g]
  BY <1>1
<1>8. /\ \A g \in File : /\ had[g] \subseteq had'[g]
                         /\ links'[g] \subseteq links[g] \cup (had'[g] \ had[g])
      /\ \A g \in File : had[g] # {} /\ links[g] = {} => links'[g] = {} /\ had'[g] = had[g]
  BY <1>1, <1>7
<1>9. \A e \in ToSet(events) : Past(e)'
  BY <1>1, <1>2, <1>6, <1>7 DEF Past, IsLink, IsUnlink
<1>10. \A g \in File : \A k \in links'[g] \ links[g] : \E e \in ToSet(events) : IsLink(e, g, k)
  BY <1>3, <1>7
<1>11. \A e \in ToSet(events) : e.type = "LINK" => e.link \in links'[e.id] \ had[e.id]
  BY <1>1, <1>2, <1>7 DEF IsLink, IsUnlink
<1>12. /\ \A g \in File : \A k \in links[g] \ links'[g] : \E e \in ToSet(events) : Gone(e, g, k)
       /\ \A g \in File : links[g] # {} /\ links'[g] = {} =>
            \E e \in ToSet(events) : IsDelete(e, g)
  BY <1>3, <1>7 DEF Gone
<1>16. \A g \in File : \A e \in ToSet(events) : Makes(e, g) => links'[g] # {}
  BY <1>2, <1>6, <1>7 DEF Makes, IsLink, IsUnlink
<1>13. \A g \in File : had[g] = {} /\ (\E e \in ToSet(events) : e.id = g) =>
          events[1].type = "LINK" /\ events[1].id = g
  BY <1>1, <1>2, <1>6 DEF IsLink, IsUnlink
<1>14. \A e \in ToSet(events) : e.type = "DELETE" => DeleteMoved \/ ~Moved(e.id)'
  BY <1>2 DEF IsLink, IsUnlink
<1>15. Honest(events)
  BY <1>5, <1>8, <1>9, <1>10, <1>11, <1>12, <1>13, <1>14, <1>16 DEF Honest
<1> QED
  BY <1>15 DEF events

\* The record of RenameOver says what it did.
LEMMA RenameOverHonest ==
    ASSUME FsInv, LinksHad, ~Relink, NEW f \in File, NEW from \in Link, NEW to \in Link,
           NEW over \in File, RenameOver(f, from, to, over)
    PROVE  Honest(build_rename_over_events(f, from, to, over, links[over] = {to}))
<1> DEFINE events == build_rename_over_events(f, from, to, over, links[over] = {to})
<1>1. /\ links \in [File -> SUBSET Link] /\ had \in [File -> SUBSET Link] /\ f # over
      /\ from \in links[f] /\ from \in had[f] /\ to \notin had[f]
      /\ to \in links[over] /\ to \in had[over]
      /\ (links[over] = {to} /\ Moved(over) => DeleteMoved)
      /\ links' = [[links EXCEPT ![f] = @ \ {from}, ![over] = @ \ {to}]
                     EXCEPT ![f] = @ \cup {to}]
      /\ had' = [had EXCEPT ![f] = @ \cup {to}]
  BY DEF FsInv, RenameOver, Names, LinksHad
<1> DEFINE x == unlink_inode_event(over, to, links[over] = {to})
<1>a. ToSet(events) = {x, new_link_inode_event(f, to), build_statx_event(f, Statx),
                       update_parent_acmtime_event(Parent(to)),
                       UnlinkOf(f, from), update_parent_acmtime_event(Parent(from)),
                       update_parent_nb_children_event(Parent(from), -1)}
  BY RenameOverRecord
<1>b. IF links[over] = {to} THEN x = DeleteOf(over) ELSE x = UnlinkOf(over, to)
  BY DEF unlink_inode_event, DeleteOf, UnlinkOf
<1> HIDE DEF x
<1>c. IF links[over] = {to} THEN IsDelete(x, over) ELSE IsUnlink(x, over, to)
  BY <1>b, EventFields DEF IsDelete, IsUnlink
<1>2. \A e \in ToSet(events) :
        \/ links[over] = {to} /\ IsDelete(e, over)
        \/ links[over] # {to} /\ IsUnlink(e, over, to)
        \/ IsLink(e, f, to) \/ IsUnlink(e, f, from)
        \/ e.type \in {"UPSERT", "XATTR"} /\ (e.id = f \/ e.id \in Dir)
  BY <1>a, <1>c, EventFields, ParentType DEF IsLink, IsUnlink
<1>3. /\ \E e \in ToSet(events) : IsLink(e, f, to)
      /\ \E e \in ToSet(events) : IsUnlink(e, f, from)
      /\ \E e \in ToSet(events) : IF links[over] = {to} THEN IsDelete(e, over)
                                                        ELSE IsUnlink(e, over, to)
  BY <1>a, <1>c, EventFields DEF IsLink, IsUnlink
<1>5. OneLink(events)
  <2> DEFINE a == RenameTarget(f, to)
             b == <<x>>
             c == RenameSource(f, from)
  <2>1. x \in Ev /\ x.type # "LINK"
    BY EventFacts DEF Id, unlink_inode_event, Event, x
  <2>2. events = (b \o a) \o c
    BY DEF build_rename_over_events, x
  <2>3. a \in Seq(Ev) /\ c \in Seq(Ev) /\ OneLink(a) /\ \A e \in ToSet(c) : e.type # "LINK"
    BY RenameParts, TargetOneLink
  <2> HIDE DEF a, c
  <2>4. b \in Seq(Ev) /\ \A e \in ToSet(b) : e.type # "LINK"
    BY <2>1, ToSetOne
  <2> HIDE DEF b
  <2> DEFINE d == b \o a
  <2>5. d \in Seq(Ev) /\ OneLink(d)
    BY <2>3, <2>4, OneLinkFirst, ConcatFacts
  <2> HIDE DEF d
  <2>6. OneLink(d \o c)
    BY <2>3, <2>5, OneLinkFirst
  <2> QED
    BY <2>2, <2>6 DEF d
<1> HIDE DEF events
<1>6. \A g \in File : g \notin Dir
  BY IdsAssumption
<1>7. /\ links'[f] = (links[f] \ {from}) \cup {to} /\ had'[f] = had[f] \cup {to} /\ from # to
      /\ links'[over] = links[over] \ {to} /\ had'[over] = had[over]
      /\ \A g \in File : g # f /\ g # over => links'[g] = links[g] /\ had'[g] = had[g]
  BY <1>1
<1>8. /\ \A g \in File : /\ had[g] \subseteq had'[g]
                         /\ links'[g] \subseteq links[g] \cup (had'[g] \ had[g])
      /\ \A g \in File : had[g] # {} /\ links[g] = {} => links'[g] = {} /\ had'[g] = had[g]
  BY <1>1, <1>7
<1>9. \A e \in ToSet(events) : Past(e)'
  BY <1>1, <1>2, <1>6, <1>7 DEF Past, IsLink, IsUnlink, IsDelete
<1>10. \A g \in File : \A k \in links'[g] \ links[g] : \E e \in ToSet(events) : IsLink(e, g, k)
  BY <1>3, <1>7
<1>11. \A e \in ToSet(events) : e.type = "LINK" => e.link \in links'[e.id] \ had[e.id]
  BY <1>1, <1>2, <1>7 DEF IsLink, IsUnlink, IsDelete
<1>12. \A g \in File : \A k \in links[g] \ links'[g] : \E e \in ToSet(events) : Gone(e, g, k)
  BY <1>1, <1>3, <1>7 DEF Gone
<1>17. \A g \in File : links[g] # {} /\ links'[g] = {} =>
            \E e \in ToSet(events) : IsDelete(e, g)
  <2>1. \A g \in File : links[g] # {} /\ links'[g] = {} => g = over /\ links[over] = {to}
    BY <1>1, <1>7
  <2> QED
    BY <1>3, <2>1
<1>16. \A g \in File : \A e \in ToSet(events) : Makes(e, g) => links'[g] # {}
  BY <1>2, <1>6, <1>7 DEF Makes, IsLink, IsUnlink, IsDelete
<1>13. \A g \in File : had[g] = {} /\ (\E e \in ToSet(events) : e.id = g) =>
          events[1].type = "LINK" /\ events[1].id = g
  BY <1>1, <1>2, <1>6 DEF IsLink, IsUnlink, IsDelete
<1>14. \A e \in ToSet(events) : e.type = "DELETE" => DeleteMoved \/ ~Moved(e.id)'
  BY <1>1, <1>2, <1>7 DEF IsLink, IsUnlink, IsDelete, Moved
<1>15. Honest(events)
  BY <1>5, <1>8, <1>9, <1>10, <1>11, <1>12, <1>13, <1>14, <1>16, <1>17 DEF Honest
<1> QED
  BY <1>15 DEF events

\* Every step of a user logs a record that says what it did.
LEMMA UserHonest ==
    ASSUME FsInv, LinksHad, ~Relink, UserStep
    PROVE  \E events : LogsRecord(events) /\ Honest(events)
<1> DEFINE Done == \E events : LogsRecord(events) /\ Honest(events)
<1>1. ASSUME NEW f \in File, NEW l \in Link, Create(f, l) PROVE Done
  BY <1>1, CreateLogs, CreateHonest
<1>2. ASSUME NEW f \in File, NEW l \in Link, HardLink(f, l) PROVE Done
  BY <1>2, HardLinkLogs, HardLinkHonest
<1>3. ASSUME NEW f \in File, NEW l \in Link, Unlink(f, l) PROVE Done
  BY <1>3, UnlinkLogs, UnlinkHonest
<1>4. ASSUME NEW f \in File, Write(f) PROVE Done
  BY <1>4, WriteLogs, WriteHonest
<1>5. ASSUME NEW f \in File, SetXattr(f) PROVE Done
  BY <1>5, SetXattrLogs, SetXattrHonest
<1>6. ASSUME NEW f \in File, NEW from \in Link, NEW to \in Link, Rename(f, from, to) PROVE Done
  BY <1>6, RenameLogs, RenameHonest
<1>7. ASSUME NEW f \in File, NEW from \in Link, NEW to \in Link, NEW over \in File,
             RenameOver(f, from, to, over)
      PROVE  Done
  BY <1>7, RenameOverLogs, RenameOverHonest
<1> HIDE DEF Done
<1>8. Done
  BY <1>1, <1>2, <1>3, <1>4, <1>5, <1>6, <1>7 DEF UserStep
<1> QED
  BY <1>8 DEF Done

-----------------------------------------------------------------------------
(* Names: no name of a file is lost, crashes or not.                       *)

HistoryInv ==
    /\ LinksHad
    /\ \A e \in Logs : Past(e)
    /\ \A i \in Id : \A e \in Cached(i) \cup Queued(i) : Past(e)

\* The names that the pool gives came after the batches sent so far.
RecentInv ==
    \A f \in File, l \in Link : \A e \in Cached(f) : IsLink(e, f, l) =>
        \E x \in Recent : IsLink(x, f, l)

\* A name that exists is in the database, or its LINK is on its way and is not
\* acknowledged.
NamesInv ==
    \A f \in File : \A l \in links[f] :
        \/ f \in entries /\ l \in ns[f]
        \/ /\ \E e \in Queued(f) \cup Cached(f) \cup Coming : IsLink(e, f, l)
           /\ \E e \in Logs : IsLink(e, f, l)

NameInv == TypeInv /\ HistoryInv /\ RecentInv /\ NamesInv

\* Nothing exists and nothing is on its way.
LEMMA NameInit == Init => NameInv
<1> SUFFICES ASSUME Init PROVE NameInv
  OBVIOUS
<1>1. TypeInv
  BY TypeInit
<1>2. Logs = {} /\ \A i \in Id : Cached(i) = {} /\ Queued(i) = {}
  BY EmptyFacts, ToSetEmpty DEF Init, Logs, Cached, Queued
<1>3. \A f \in File : links[f] = {} /\ had[f] = {}
  BY DEF Init
<1>4. \A f \in File : Cached(f) = {}
  BY <1>2 DEF Id
<1>5. HistoryInv
  BY <1>2, <1>3 DEF HistoryInv, LinksHad
<1>6. RecentInv
  BY <1>4 DEF RecentInv
<1>7. NamesInv
  BY <1>3 DEF NamesInv
<1> QED
  BY <1>1, <1>5, <1>6, <1>7 DEF NameInv

\* What is gone stays gone.
LEMMA PastKept ==
    ASSUME NEW events, Honest(events), LinksHad, NEW e, Fits(e), Past(e)
    PROVE  Past(e)'
<1>1. CASE e.id \in File
  <2>1. /\ had[e.id] \subseteq had'[e.id] /\ had[e.id] # {}
        /\ links'[e.id] \subseteq links[e.id] \cup (had'[e.id] \ had[e.id])
        /\ links[e.id] = {} => links'[e.id] = {}
    BY <1>1 DEF Honest, Past
  <2> QED
    BY <1>1, <2>1 DEF Past
<1>2. CASE e.id \notin File
  BY <1>2 DEF Past, Fits
<1> QED
  BY <1>1, <1>2

\* Where the fsevents of a new record go.
LEMMA RecentLogged ==
    ASSUME TypeInv, NEW events, LogsRecord(events)
    PROVE  Recent' = Recent \cup ToSet(events) /\ Coming' = Coming \cup ToSet(events)
           /\ Logs' = Logs \cup ToSet(events)
           /\ \A i : List(pool, i)' = List(pool, i) /\ Cached(i)' = Cached(i)
                     /\ Queued(i)' = Queued(i)
<1>0. /\ fsevents \in Seq(Ev) /\ unacked \in Seq(Ev) /\ events \in Seq(Ev)
      /\ fsevents' = fsevents \o events /\ unacked' = unacked \o events
      /\ flushed' = flushed /\ pool' = pool /\ sent' = sent
  BY DEF TypeInv, LogInv, LogsRecord, Logged
<1>1. Coming' = Coming \cup ToSet(events) /\ Logs' = Logs \cup ToSet(events)
  BY <1>0, ToSetConcat DEF Coming, Logs
<1>2. \A i : List(pool, i)' = List(pool, i) /\ Cached(i)' = Cached(i) /\ Queued(i)' = Queued(i)
  BY <1>0 DEF Cached, Queued, List, Holds
<1>3. /\ Len(unacked) \in Nat /\ Len(events) \in Nat /\ flushed \in Nat /\ flushed <= Len(unacked)
  <2>1. /\ Len(unacked) \in Nat /\ Len(events) \in Nat /\ ends \subseteq 1 .. Len(unacked)
        /\ flushed \in ends \cup {0}
    BY <1>0 DEF TypeInv, LogInv
  <2> QED
    BY <2>1
<1>4. /\ Len(unacked') = Len(unacked) + Len(events)
      /\ \A n \in 1 .. Len(unacked) : unacked'[n] = unacked[n]
      /\ \A n \in 1 .. Len(events) : unacked'[Len(unacked) + n] = events[n]
  BY <1>0, ConcatFacts
<1>5. ToSet(events) = {events[n] : n \in 1 .. Len(events)}
  BY <1>0, ToSetFacts
<1>6. Recent' \subseteq Recent \cup ToSet(events)
  <2> SUFFICES ASSUME NEW n \in flushed + 1 .. Len(unacked')
               PROVE  unacked'[n] \in Recent \cup ToSet(events)
    BY <1>0 DEF Recent
  <2>1. CASE n <= Len(unacked)
    <3>1. n \in flushed + 1 .. Len(unacked) /\ n \in 1 .. Len(unacked)
      BY <1>3, <1>4, <2>1
    <3> QED
      BY <1>4, <3>1 DEF Recent
  <2>2. CASE n > Len(unacked)
    <3>1. n - Len(unacked) \in 1 .. Len(events) /\ Len(unacked) + (n - Len(unacked)) = n
      BY <1>3, <1>4, <2>2
    <3>2. unacked'[Len(unacked) + (n - Len(unacked))] = events[n - Len(unacked)]
      BY <1>4, <3>1
    <3>3. unacked'[n] \in ToSet(events)
      BY <1>5, <3>1, <3>2
    <3> QED
      BY <3>3
  <2>3. n <= Len(unacked) \/ n > Len(unacked)
    BY <1>3, <1>4
  <2> QED
    BY <2>1, <2>2, <2>3
<1>7. Recent \subseteq Recent'
  <2>1. \A n \in flushed + 1 .. Len(unacked) :
            n \in flushed + 1 .. Len(unacked') /\ unacked'[n] = unacked[n]
    BY <1>3, <1>4
  <2> QED
    BY <1>0, <2>1 DEF Recent
<1>8. ToSet(events) \subseteq Recent'
  <2> SUFFICES ASSUME NEW n \in 1 .. Len(events)
               PROVE  events[n] \in Recent'
    BY <1>5
  <2>1. Len(unacked) + n \in flushed + 1 .. Len(unacked')
    BY <1>3, <1>4
  <2>2. unacked'[Len(unacked) + n] = events[n]
    BY <1>4
  <2> QED
    BY <1>0, <2>1, <2>2 DEF Recent
<1> QED
  BY <1>1, <1>2, <1>6, <1>7, <1>8

\* The record of a new name has its LINK.
LEMMA LogKeepsNames ==
    ASSUME NameInv, ~Relink, NEW events, LogsRecord(events), Honest(events)
    PROVE  NameInv'
<1>1. TypeInv'
  BY LogKeepsTypes DEF NameInv
<1>2. Recent' = Recent \cup ToSet(events) /\ Coming' = Coming \cup ToSet(events)
      /\ Logs' = Logs \cup ToSet(events)
      /\ \A i : Cached(i)' = Cached(i) /\ Queued(i)' = Queued(i)
  BY RecentLogged DEF NameInv
<1>3. entries' = entries /\ ns' = ns
  BY DEF LogsRecord, db
<1>4. HistoryInv'
  <2>1. LinksHad'
    BY DEF NameInv, HistoryInv, LinksHad, Honest
  <2>2. ASSUME NEW e \in Logs' PROVE Past(e)'
    <3>1. CASE e \in ToSet(events)
      BY <3>1 DEF Honest
    <3>2. CASE e \in Logs
      <4>1. Fits(e) /\ Past(e) /\ LinksHad
        BY <3>2 DEF NameInv, HistoryInv, TypeInv, FitsInv
      <4> QED
        BY <4>1, PastKept
    <3> QED
      BY <1>2, <3>1, <3>2
  <2>3. ASSUME NEW i \in Id, NEW e \in Cached(i)' \cup Queued(i)' PROVE Past(e)'
    <3>1. Fits(e) /\ Past(e) /\ LinksHad
      BY <1>2, <2>3 DEF NameInv, HistoryInv, TypeInv, FitsInv
    <3> QED
      BY <3>1, PastKept
  <2> QED
    BY <2>1, <2>2, <2>3 DEF HistoryInv
<1>5. RecentInv'
  BY <1>2 DEF NameInv, RecentInv
<1>6. NamesInv'
  <2> SUFFICES ASSUME NEW f \in File, NEW l \in links'[f]
               PROVE  \/ f \in entries' /\ l \in ns'[f]
                      \/ /\ \E e \in Queued(f)' \cup Cached(f)' \cup Coming' : IsLink(e, f, l)
                         /\ \E e \in Logs' : IsLink(e, f, l)
    BY DEF NamesInv
  <2>1. CASE l \in links[f]
    BY <1>2, <1>3, <2>1 DEF NameInv, NamesInv
  <2>2. CASE l \notin links[f]
    <3>1. \E e \in ToSet(events) : IsLink(e, f, l)
      BY <2>2 DEF Honest
    <3> QED
      BY <1>2, <3>1
  <2> QED
    BY <2>1, <2>2
<1> QED
  BY <1>1, <1>4, <1>5, <1>6 DEF NameInv

\* What the batches sent so far do not cover.
LEMMA RecentSame ==
    ASSUME unacked' = unacked, flushed' = flushed
    PROVE  Recent' = Recent
BY DEF Recent

\* No push loses the LINK of a name that exists.
LEMMA PushKeepsNames ==
    ASSUME NameInv, NEW e, PushStep(e)
    PROVE  NameInv'
<1>0. PushEffect(e) /\ links' = links /\ had' = had /\ entries' = entries /\ ns' = ns
      /\ unacked' = unacked /\ flushed' = flushed
  BY PushEffects DEF NameInv, PushStep, fs, db, changelog
<1>1. TypeInv'
  BY PushKeepsTypes DEF NameInv
<1>2. Recent' = Recent
  BY <1>0, RecentSame
<1>3. Coming \subseteq Recent /\ Recent \subseteq Logs
  BY ComingRecent DEF NameInv
<1>4. e \in Coming /\ e \in Ev /\ e.id \in Id /\ Fits(e) /\ Past(e)
  BY <1>0, <1>3 DEF PushEffect, NameInv, HistoryInv
<1> DEFINE X == Cached(e.id)
           Y == Cached(e.id)'
<1>5. X \subseteq Ev /\ \A x \in X : x.id = e.id
  BY <1>0, <1>4, ToSetType DEF PushEffect, Cached, NameInv, TypeInv, FitsInv
<1>6. \A i : i # e.id => Cached(i)' = Cached(i)
  BY <1>0 DEF PushEffect, Cached
<1>7. \A i : Queued(i)' = Queued(i)
  BY <1>0 DEF PushEffect
<1>8. Coming = {e} \cup Coming' /\ Logs' = Logs
  BY <1>0 DEF PushEffect
\* Every fsevent of the list was there, is the new one, or is not about a name.
<1>9. \A y \in Y : \/ y \in X \/ y = e
                   \/ /\ y.type \in {"UPSERT", "XATTR"} /\ y.id = e.id
  <2> SUFFICES ASSUME NEW y \in Y, y \notin X, y # e
               PROVE  y.type \in {"UPSERT", "XATTR"} /\ y.id = e.id
    OBVIOUS
  <2>1. PICK x \in X : x.type = e.type /\ e.type \in {"UPSERT", "XATTR"} /\ y = Merge(x, e)
    BY <1>0 DEF PushEffect, Grows, Merges, Cancels, Drops, Replaces
  <2>2. y.type = x.type /\ y.id = x.id
    BY <1>4, <1>5, <2>1, MergeType DEF Ev
  <2> QED
    BY <1>5, <2>1, <2>2
\* A LINK that leaves the list is about a name that is gone.
<1>10. ASSUME NEW x \in X \cup {e}, x.type = "LINK", x.link \in links[e.id]
       PROVE  x \in Y
  <2>1. e.type # "DELETE"
    BY <1>4, <1>10 DEF Past
  <2>2. e.type = "UNLINK" => e.link # x.link
    BY <1>4, <1>10 DEF Past
  <2> QED
    BY <1>0, <1>10, <2>1, <2>2 DEF PushEffect, Grows, Merges, Cancels, Drops, Replaces
<1> HIDE DEF X, Y
<1>11. HistoryInv'
  <2>1. \A x : Past(x)' <=> Past(x)
    BY <1>0 DEF Past
  <2>2. LinksHad' /\ \A x \in Logs' : Past(x)'
    BY <1>0, <1>8, <2>1 DEF NameInv, HistoryInv, LinksHad
  <2>3. ASSUME NEW i \in Id, NEW y \in Cached(i)' \cup Queued(i)' PROVE Past(y)
    <3>1. CASE y \in Queued(i) \/ y \in Cached(i) \/ y = e
      BY <1>4, <3>1 DEF NameInv, HistoryInv
    <3>2. CASE y.type \in {"UPSERT", "XATTR"} /\ y.id = e.id
      BY <1>4, <3>2 DEF Past
    <3> QED
      BY <1>6, <1>7, <1>9, <3>1, <3>2 DEF X, Y
  <2> QED
    BY <2>1, <2>2, <2>3 DEF HistoryInv
<1>12. RecentInv'
  <2> SUFFICES ASSUME NEW f \in File, NEW l \in Link, NEW y \in Cached(f)', IsLink(y, f, l)
               PROVE  \E x \in Recent : IsLink(x, f, l)
    BY <1>2 DEF RecentInv
  <2>1. y \in Cached(f) \/ y = e
    BY <1>6, <1>9 DEF IsLink, X, Y
  <2> QED
    BY <1>3, <1>4, <2>1 DEF NameInv, RecentInv
<1>13. NamesInv'
  <2> SUFFICES ASSUME NEW f \in File, NEW l \in links[f]
               PROVE  \/ f \in entries /\ l \in ns[f]
                      \/ /\ \E x \in Queued(f)' \cup Cached(f)' \cup Coming' : IsLink(x, f, l)
                         /\ \E x \in Logs : IsLink(x, f, l)
    BY <1>0, <1>8 DEF NamesInv
  <2>1. CASE f \in entries /\ l \in ns[f]
    BY <2>1
  <2>2. CASE \E x \in Logs : IsLink(x, f, l) /\ ~(f \in entries /\ l \in ns[f])
    <3>1. PICK x \in Queued(f) \cup Cached(f) \cup Coming : IsLink(x, f, l)
      BY <2>2 DEF NameInv, NamesInv
    <3>2. CASE x \in Queued(f) \/ x \in Coming'
      BY <1>7, <2>2, <3>1, <3>2
    <3>3. CASE x \in Cached(f) /\ f # e.id
      BY <1>6, <2>2, <3>1, <3>3
    <3>4. CASE (x \in Cached(f) /\ f = e.id) \/ x = e
      <4>1. f = e.id /\ x \in X \cup {e} /\ x.type = "LINK" /\ x.link \in links[e.id]
        BY <3>1, <3>4 DEF IsLink, X
      <4>2. x \in Cached(f)'
        BY <1>10, <4>1 DEF Y
      <4> QED
        BY <2>2, <3>1, <4>2
    <3> QED
      BY <1>8, <3>1, <3>2, <3>3, <3>4
  <2> QED
    BY <2>1, <2>2 DEF NameInv, NamesInv
<1> QED
  BY <1>1, <1>11, <1>12, <1>13 DEF NameInv

\* A push that finds the pool full loses no name.
LEMMA FullKeepsNames ==
    ASSUME NameInv, PushFull
    PROVE  NameInv'
<1>1. /\ TypeInv' /\ UNCHANGED <<fs, stale, fsevents, changelog, sent, db>>
      /\ \A i : List(pool, i)' = List(pool, i)
  BY FullKeepsTypes DEF NameInv
<1>2. Coming' = Coming /\ Logs' = Logs /\ Recent' = Recent
      /\ \A i : Cached(i)' = Cached(i) /\ Queued(i)' = Queued(i)
  BY <1>1 DEF Coming, Logs, Recent, Cached, Queued, changelog
<1>3. links' = links /\ had' = had /\ entries' = entries /\ ns' = ns
  BY <1>1 DEF fs, db
<1>4. HistoryInv'
  BY <1>2, <1>3 DEF NameInv, HistoryInv, LinksHad, Past
<1>5. RecentInv' /\ NamesInv'
  BY <1>2, <1>3 DEF NameInv, RecentInv, NamesInv
<1> QED
  BY <1>1, <1>4, <1>5 DEF NameInv

\* A flush loses no name.
LEMMA FlushKeepsNames ==
    ASSUME NameInv, Flush
    PROVE  NameInv'
<1>1. TypeInv' /\ FlushEffect
  BY FlushEffects, FlushKeepsTypes DEF NameInv
<1>2. links' = links /\ had' = had /\ entries' = entries /\ ns' = ns
      /\ Coming' = Coming /\ Logs' = Logs
  BY <1>1 DEF FlushEffect, fs, db
<1>3. \A i \in Id : Queued(i)' = Queued(i) \cup Cached(i) /\ Cached(i)' = {}
  BY <1>1 DEF FlushEffect
<1>4. \A f \in File : f \in Id
  BY DEF Id
<1>5. HistoryInv'
  BY <1>2, <1>3 DEF NameInv, HistoryInv, LinksHad, Past
<1>6. RecentInv'
  BY <1>3, <1>4 DEF RecentInv
<1>7. NamesInv'
  BY <1>2, <1>3, <1>4 DEF NameInv, NamesInv
<1> QED
  BY <1>1, <1>5, <1>6, <1>7 DEF NameInv

\* A worker does not change the past.
LEMMA TakeHistory ==
    ASSUME NameInv, NEW id \in Id, Process(id) \/ Skip(id)
    PROVE  HistoryInv' /\ RecentInv'
<1>1. TakeStep(id, Head(sent[id]))
  BY TakeSteps DEF NameInv
<1>2. links' = links /\ had' = had /\ unacked' = unacked /\ flushed' = flushed
      /\ Coming' = Coming /\ Logs' = Logs
      /\ (\A i : Cached(i)' = Cached(i)) /\ \A i \in Id : Queued(i)' \subseteq Queued(i)
  BY <1>1 DEF TakeStep, fs, changelog
<1>3. Recent' = Recent
  BY <1>2, RecentSame
<1>4. HistoryInv'
  BY <1>2 DEF NameInv, HistoryInv, LinksHad, Past
<1> QED
  BY <1>2, <1>3, <1>4 DEF NameInv, RecentInv

\* What the worker does to the entry and to its names.
LEMMA MongoFacts ==
    ASSUME DbInv, NEW e, Fits(e), e \in Ev, Mongo(e)
    PROVE  /\ \A f \in File : f # e.id => ns'[f] = ns[f] /\ (f \in entries' <=> f \in entries)
           /\ e.type = "LINK" => /\ entries' = entries \cup {e.id}
                                 /\ ns'[e.id] = ns[e.id] \cup {e.link}
           /\ e.type = "UNLINK" => entries' = entries /\ ns'[e.id] = ns[e.id] \ {e.link}
           /\ e.type = "DELETE" => entries' = entries \ {e.id} /\ ns'[e.id] = {}
           /\ e.type = "UPSERT" => entries' = entries \cup ({e.id} \cap File) /\ ns' = ns
           /\ e.type = "XATTR" => entries' = entries /\ ns' = ns
<1>0. ns \in [File -> SUBSET Link]
  BY DEF DbInv
<1>1. CASE e.type = "LINK"
  <2>1. e.id \in File /\ entries' = entries \cup {e.id}
        /\ ns' = [ns EXCEPT ![e.id] = ns[e.id] \cup {e.link}]
    BY <1>1 DEF Mongo, Fits
  <2> QED
    BY <1>0, <1>1, <2>1
<1>2. CASE e.type = "UNLINK"
  <2>1. e.id \in File /\ entries' = entries /\ ns' = [ns EXCEPT ![e.id] = ns[e.id] \ {e.link}]
    BY <1>2 DEF Mongo, Fits
  <2> QED
    BY <1>0, <1>2, <2>1
<1>3. CASE e.type = "DELETE"
  <2>1. e.id \in File /\ entries' = entries \ {e.id} /\ ns' = [ns EXCEPT ![e.id] = {}]
    BY <1>3 DEF Mongo, Fits
  <2> QED
    BY <1>0, <1>3, <2>1
<1>4. CASE e.type = "UPSERT"
  <2>1. entries' = entries \cup ({e.id} \cap File) /\ ns' = ns
    BY <1>4 DEF Mongo
  <2> QED
    BY <1>4, <2>1
<1>5. CASE e.type = "XATTR"
  <2>1. entries' = entries /\ ns' = ns
    BY <1>5 DEF Mongo
  <2> QED
    BY <1>5, <2>1
<1>6. e.type \in {"LINK", "UNLINK", "DELETE", "UPSERT", "XATTR"}
  BY DEF Ev, Fsevent
<1> QED
  BY <1>1, <1>2, <1>3, <1>4, <1>5, <1>6

\* A LINK that is processed is in the database.
LEMMA ProcessKeepsNames ==
    ASSUME NameInv, NEW id \in Id, Process(id)
    PROVE  NameInv'
<1> DEFINE e == Head(sent[id])
<1>1. TypeInv' /\ HistoryInv' /\ RecentInv'
  BY TakeHistory, TakeKeepsTypes DEF NameInv
<1>2. TakeStep(id, e)
  BY TakeSteps DEF NameInv
<1>3. Mongo(e)
  BY DEF Process
<1> HIDE DEF e
<1>4. /\ links' = links /\ Coming' = Coming /\ Logs' = Logs
      /\ (\A i : Cached(i)' = Cached(i)) /\ Queued(id) = {e} \cup Queued(id)'
      /\ (\A i \in Id : i # id => Queued(i)' = Queued(i))
      /\ e.id = id /\ e \in Ev /\ Fits(e)
  BY <1>2 DEF TakeStep, fs
<1>5. Past(e)
  BY <1>4 DEF NameInv, HistoryInv
<1>6. DbInv
  BY DEF NameInv, TypeInv
<1>7. NamesInv'
  <2> SUFFICES ASSUME NEW f \in File, NEW l \in links[f]
               PROVE  \/ f \in entries' /\ l \in ns'[f]
                      \/ /\ \E x \in Queued(f)' \cup Cached(f)' \cup Coming' : IsLink(x, f, l)
                         /\ \E x \in Logs' : IsLink(x, f, l)
    BY <1>4 DEF NamesInv
  <2>1. f \in Id
    BY DEF Id
  <2>2. \/ f \in entries /\ l \in ns[f]
        \/ /\ \E x \in Queued(f) \cup Cached(f) \cup Coming : IsLink(x, f, l)
           /\ \E x \in Logs : IsLink(x, f, l)
    BY DEF NameInv, NamesInv
  <2>3. CASE f # id
    BY <1>3, <1>4, <1>6, <2>1, <2>2, <2>3, MongoFacts
  <2>4. CASE f = id
    <3>1. e.type # "DELETE" /\ ~(e.type = "UNLINK" /\ e.link = l)
      BY <1>4, <1>5, <2>4 DEF Past
    <3>2. (f \in entries /\ l \in ns[f]) => (f \in entries' /\ l \in ns'[f])
      <4>1. e.type \in {"LINK", "UNLINK", "DELETE", "UPSERT", "XATTR"}
        BY <1>4 DEF Ev, Fsevent
      <4> QED
        BY <1>3, <1>4, <1>6, <2>4, <3>1, <4>1, MongoFacts
    <3>3. CASE f \in entries /\ l \in ns[f]
      BY <3>2, <3>3
    <3>4. CASE IsLink(e, f, l)
      <4>1. f \in entries' /\ l \in ns'[f]
        BY <1>3, <1>4, <1>6, <2>4, <3>4, MongoFacts DEF IsLink
      <4> QED
        BY <4>1
    <3>5. CASE ~IsLink(e, f, l) /\ ~(f \in entries /\ l \in ns[f])
      BY <1>4, <2>2, <2>4, <3>5
    <3> QED
      BY <3>3, <3>4, <3>5
  <2> QED
    BY <2>3, <2>4
<1> QED
  BY <1>1, <1>7 DEF NameInv

\* A LINK is never skipped.
LEMMA SkipKeepsNames ==
    ASSUME NameInv, NEW id \in Id, Skip(id)
    PROVE  NameInv'
<1> DEFINE e == Head(sent[id])
<1>1. TypeInv' /\ HistoryInv' /\ RecentInv'
  BY TakeHistory, TakeKeepsTypes DEF NameInv
<1>2. TakeStep(id, e)
  BY TakeSteps DEF NameInv
<1>3. Stale(e) /\ UNCHANGED db
  BY DEF Skip
<1> HIDE DEF e
<1>4. /\ links' = links /\ Coming' = Coming /\ Logs' = Logs /\ entries' = entries /\ ns' = ns
      /\ (\A i : Cached(i)' = Cached(i)) /\ Queued(id) = {e} \cup Queued(id)'
      /\ (\A i \in Id : i # id => Queued(i)' = Queued(i))
      /\ Fits(e)
  BY <1>2, <1>3 DEF TakeStep, fs, db
<1>5. e.type # "LINK"
  BY <1>3, <1>4 DEF Stale, Fits
<1>6. \A i \in Id : \A x \in Queued(i) : x.type = "LINK" => x \in Queued(i)'
  BY <1>4, <1>5
<1>7. \A f \in File : f \in Id
  BY DEF Id
<1>8. NamesInv'
  BY <1>4, <1>6, <1>7 DEF NameInv, NamesInv, IsLink
<1> QED
  BY <1>1, <1>8 DEF NameInv

\* A LINK that is on its way is not acknowledged.
LEMMA AckKeepsNames ==
    ASSUME NameInv, Ack
    PROVE  NameInv'
<1>1. TypeInv' /\ AckEffect
  BY AckKeepsTypes DEF NameInv
<1>2. links' = links /\ had' = had /\ entries' = entries /\ ns' = ns
      /\ Coming' = Coming /\ Logs' = Recent /\ Recent' = Recent
      /\ (\A i : Cached(i)' = Cached(i) /\ Queued(i)' = Queued(i))
      /\ \A i \in Id : Queued(i) = {}
  BY <1>1 DEF AckEffect, fs, db
<1>3. Coming \subseteq Recent /\ Recent \subseteq Logs
  BY ComingRecent DEF NameInv
<1>4. \A f \in File : f \in Id
  BY DEF Id
<1>5. HistoryInv'
  BY <1>2, <1>3 DEF NameInv, HistoryInv, LinksHad, Past
<1>6. RecentInv'
  BY <1>2 DEF NameInv, RecentInv
<1>7. NamesInv'
  <2> SUFFICES ASSUME NEW f \in File, NEW l \in links[f], ~(f \in entries /\ l \in ns[f])
               PROVE  /\ \E x \in Queued(f) \cup Cached(f) \cup Coming : IsLink(x, f, l)
                      /\ \E x \in Recent : IsLink(x, f, l)
    BY <1>2 DEF NamesInv
  <2>1. PICK x \in Queued(f) \cup Cached(f) \cup Coming : IsLink(x, f, l)
    BY DEF NameInv, NamesInv
  <2>2. l \in Link
    BY DEF NameInv, TypeInv, FsInv
  <2>3. \E y \in Recent : IsLink(y, f, l)
    BY <1>2, <1>3, <1>4, <2>1, <2>2 DEF NameInv, RecentInv
  <2> QED
    BY <2>1, <2>3
<1> QED
  BY <1>1, <1>5, <1>6, <1>7 DEF NameInv

\* A LINK that is lost is read again.
LEMMA CrashKeepsNames ==
    ASSUME NameInv, Crash
    PROVE  NameInv'
<1>1. TypeInv' /\ CrashEffect
  BY CrashKeepsTypes DEF NameInv
<1>2. links' = links /\ had' = had /\ entries' = entries /\ ns' = ns
      /\ Coming' = Logs /\ Logs' = Logs
      /\ \A i \in Id : Cached(i)' = {} /\ Queued(i)' = {}
  BY <1>1 DEF CrashEffect, fs, db
<1>3. \A f \in File : f \in Id
  BY DEF Id
<1>4. HistoryInv'
  BY <1>2 DEF NameInv, HistoryInv, LinksHad, Past
<1>5. RecentInv'
  BY <1>2, <1>3 DEF RecentInv
<1>6. NamesInv'
  BY <1>2, <1>3 DEF NameInv, NamesInv
<1> QED
  BY <1>1, <1>4, <1>5, <1>6 DEF NameInv

\* Every step keeps the names.
LEMMA NameStep ==
    ASSUME ~Relink, NameInv, [Next]_vars
    PROVE  NameInv'
<1>1. CASE UserStep
  <2>1. \E events : LogsRecord(events) /\ Honest(events)
    BY <1>1, UserHonest DEF NameInv, TypeInv, HistoryInv
  <2> QED
    BY <2>1, LogKeepsNames
<1>2. CASE PushDeduplicated \/ PushNew
  BY <1>2, PushSteps, PushKeepsNames
<1>3. CASE PushFull
  BY <1>3, FullKeepsNames
<1>4. CASE Flush
  BY <1>4, FlushKeepsNames
<1>5. ASSUME NEW i \in Id, Process(i) \/ Skip(i) PROVE NameInv'
  BY <1>5, ProcessKeepsNames, SkipKeepsNames
<1>6. CASE Ack
  BY <1>6, AckKeepsNames
<1>7. CASE Crash
  BY <1>7, CrashKeepsNames
<1>8. CASE UNCHANGED vars
  <2>1. /\ UNCHANGED <<links, had, stale, records, fsevents, unacked, ends, flushed, crashes>>
        /\ UNCHANGED <<pool, sent, entries, ns, nb_children>>
    BY <1>8 DEF vars, fs, changelog, db
  <2>2. Coming' = Coming /\ Logs' = Logs /\ Recent' = Recent
        /\ \A i : Cached(i)' = Cached(i) /\ Queued(i)' = Queued(i)
    BY <2>1 DEF Coming, Logs, Recent, Cached, Queued, List
  <2>3. TypeInv'
    BY <1>8, TypeStep DEF NameInv
  <2>4. HistoryInv' /\ RecentInv' /\ NamesInv'
    BY <2>1, <2>2 DEF NameInv, HistoryInv, LinksHad, Past, RecentInv, NamesInv
  <2> QED
    BY <2>3, <2>4 DEF NameInv
<1> QED
  BY <1>1, <1>2, <1>3, <1>4, <1>5, <1>6, <1>7, <1>8 DEF Next, RbhStep

-----------------------------------------------------------------------------
(* Lists of fsevents, and where those of two kinds A and B are in them.    *)

Meets(A, X) == \E x \in X : x \in A

\* Every fsevent of kind A is followed by one of kind B.
Closed(s, A, B) ==
    \A n \in 1 .. Len(s) : s[n] \in A => \E m \in 1 .. Len(s) : m > n /\ s[m] \in B

Once(s, A) == \A m, n \in 1 .. Len(s) : s[m] \in A /\ s[n] \in A => m = n

\* Nothing about f comes before an fsevent of kind A.
First(s, A, f) == \A m, n \in 1 .. Len(s) : m < n /\ s[n] \in A => s[m].id # f

\* Every position of a concatenation is one of the first list or of the second.
LEMMA Positions ==
    ASSUME NEW S, NEW q \in Seq(S), NEW r \in Seq(S), NEW n \in 1 .. Len(q \o r)
    PROVE  \/ n \in 1 .. Len(q) /\ (q \o r)[n] = q[n]
           \/ \E k \in 1 .. Len(r) : n = Len(q) + k /\ (q \o r)[n] = r[k]
<1>1. /\ Len(q) \in Nat /\ Len(r) \in Nat /\ Len(q \o r) = Len(q) + Len(r)
      /\ \A k \in 1 .. Len(q) : (q \o r)[k] = q[k]
      /\ \A k \in 1 .. Len(r) : (q \o r)[Len(q) + k] = r[k]
  BY ConcatFacts
<1>2. CASE n <= Len(q)
  <2>1. n \in 1 .. Len(q)
    BY <1>1, <1>2
  <2> QED
    BY <1>1, <2>1
<1>3. CASE n > Len(q)
  <2>1. n - Len(q) \in 1 .. Len(r) /\ n = Len(q) + (n - Len(q))
    BY <1>1, <1>3
  <2> QED
    BY <1>1, <2>1
<1> QED
  BY <1>1, <1>2, <1>3

\* Closed lists, one after the other.
LEMMA ClosedConcat ==
    ASSUME NEW S, NEW q \in Seq(S), NEW r \in Seq(S), NEW A, NEW B,
           ~Meets(A, ToSet(r)), Closed(q, A, B) \/ Meets(B, ToSet(r))
    PROVE  Closed(q \o r, A, B)
<1>1. /\ Len(q) \in Nat /\ Len(r) \in Nat /\ Len(q \o r) = Len(q) + Len(r)
      /\ \A k \in 1 .. Len(q) : (q \o r)[k] = q[k]
      /\ \A k \in 1 .. Len(r) : (q \o r)[Len(q) + k] = r[k]
  BY ConcatFacts
<1>2. \A x : x \in ToSet(r) <=> \E k \in 1 .. Len(r) : r[k] = x
  BY ToSetType
<1> SUFFICES ASSUME NEW n \in 1 .. Len(q \o r), (q \o r)[n] \in A
             PROVE  \E m \in 1 .. Len(q \o r) : m > n /\ (q \o r)[m] \in B
  BY DEF Closed
<1>3. \A k \in 1 .. Len(r) : r[k] \notin A
  BY <1>2 DEF Meets
<1>4. n \in 1 .. Len(q) /\ q[n] \in A
  BY <1>3, Positions
<1>5. CASE Closed(q, A, B)
  <2>1. PICK m \in 1 .. Len(q) : m > n /\ q[m] \in B
    BY <1>4, <1>5 DEF Closed
  <2>2. m \in 1 .. Len(q \o r) /\ (q \o r)[m] = q[m]
    BY <1>1
  <2> QED
    BY <2>1, <2>2
<1>6. CASE Meets(B, ToSet(r))
  <2>1. PICK k \in 1 .. Len(r) : r[k] \in B
    BY <1>2, <1>6 DEF Meets
  <2>2. Len(q) + k \in 1 .. Len(q \o r) /\ Len(q) + k > n
    BY <1>1, <1>4
  <2>3. (q \o r)[Len(q) + k] = r[k]
    BY <1>1
  <2> QED
    BY <2>1, <2>2, <2>3
<1> QED
  BY <1>5, <1>6

\* A closed list without its first fsevent.
LEMMA ClosedTail ==
    ASSUME NEW S, NEW q \in Seq(S), q # <<>>, NEW A, NEW B, Closed(q, A, B)
    PROVE  Closed(Tail(q), A, B) /\ (Head(q) \in A => Meets(B, ToSet(Tail(q))))
<1>1. /\ Len(q) \in Nat /\ Len(q) >= 1 /\ Head(q) = q[1] /\ Tail(q) \in Seq(S)
      /\ Len(Tail(q)) = Len(q) - 1
      /\ \A n \in 1 .. Len(q) - 1 : Tail(q)[n] = q[n + 1]
  BY TailFacts
<1>2. ASSUME NEW n \in 1 .. Len(q), q[n] \in A
      PROVE  \E k \in 1 .. Len(Tail(q)) : k > n - 1 /\ Tail(q)[k] \in B
  <2>1. PICK m \in 1 .. Len(q) : m > n /\ q[m] \in B
    BY <1>2 DEF Closed
  <2>2. m - 1 \in 1 .. Len(q) - 1 /\ m - 1 > n - 1 /\ (m - 1) + 1 = m
    BY <1>1, <2>1
  <2>3. Tail(q)[m - 1] = q[(m - 1) + 1]
    BY <1>1, <2>2
  <2> QED
    BY <1>1, <2>1, <2>2, <2>3
<1>3. Closed(Tail(q), A, B)
  <2> SUFFICES ASSUME NEW n \in 1 .. Len(q) - 1, q[n + 1] \in A
               PROVE  \E k \in 1 .. Len(Tail(q)) : k > n /\ Tail(q)[k] \in B
    BY <1>1 DEF Closed
  <2>1. n + 1 \in 1 .. Len(q) /\ (n + 1) - 1 = n
    BY <1>1
  <2> QED
    BY <1>2, <2>1
<1>4. ASSUME Head(q) \in A PROVE Meets(B, ToSet(Tail(q)))
  <2>1. 1 \in 1 .. Len(q) /\ q[1] \in A
    BY <1>1, <1>4
  <2>2. PICK k \in 1 .. Len(Tail(q)) : Tail(q)[k] \in B
    BY <1>2, <2>1
  <2>3. Tail(q)[k] \in ToSet(Tail(q))
    BY <1>1, ToSetType
  <2> QED
    BY <2>2, <2>3 DEF Meets
<1> QED
  BY <1>3, <1>4

\* Two lists, one of which has no fsevent of kind A.
LEMMA OnceConcat ==
    ASSUME NEW S, NEW q \in Seq(S), NEW r \in Seq(S), NEW A, Once(q, A), Once(r, A),
           ~Meets(A, ToSet(q)) \/ ~Meets(A, ToSet(r))
    PROVE  Once(q \o r, A)
<1>1. /\ \A x : x \in ToSet(q) <=> \E k \in 1 .. Len(q) : q[k] = x
      /\ \A x : x \in ToSet(r) <=> \E k \in 1 .. Len(r) : r[k] = x
  BY ToSetType
<1>2. (\A k \in 1 .. Len(q) : q[k] \notin A) \/ (\A k \in 1 .. Len(r) : r[k] \notin A)
  BY <1>1 DEF Meets
<1> SUFFICES ASSUME NEW m \in 1 .. Len(q \o r), NEW n \in 1 .. Len(q \o r),
                    (q \o r)[m] \in A, (q \o r)[n] \in A
             PROVE  m = n
  BY DEF Once
<1>3. \/ m \in 1 .. Len(q) /\ (q \o r)[m] = q[m]
      \/ \E k \in 1 .. Len(r) : m = Len(q) + k /\ (q \o r)[m] = r[k]
  BY Positions
<1>4. \/ n \in 1 .. Len(q) /\ (q \o r)[n] = q[n]
      \/ \E k \in 1 .. Len(r) : n = Len(q) + k /\ (q \o r)[n] = r[k]
  BY Positions
<1> QED
  BY <1>2, <1>3, <1>4 DEF Once

\* The first fsevent of kind A is the only one.
LEMMA OnceTail ==
    ASSUME NEW S, NEW q \in Seq(S), q # <<>>, NEW A, Once(q, A)
    PROVE  Once(Tail(q), A) /\ (Head(q) \in A => ~Meets(A, ToSet(Tail(q))))
<1>1. /\ Len(q) \in Nat /\ Len(q) >= 1 /\ Head(q) = q[1] /\ Tail(q) \in Seq(S)
      /\ Len(Tail(q)) = Len(q) - 1
      /\ \A n \in 1 .. Len(q) - 1 : Tail(q)[n] = q[n + 1]
  BY TailFacts
<1>2. \A n \in 1 .. Len(q) - 1 : n + 1 \in 1 .. Len(q) /\ n + 1 # 1
  BY <1>1
<1>3. Once(Tail(q), A)
  <2> SUFFICES ASSUME NEW m \in 1 .. Len(q) - 1, NEW n \in 1 .. Len(q) - 1,
                      q[m + 1] \in A, q[n + 1] \in A
               PROVE  m = n
    BY <1>1 DEF Once
  <2>1. m + 1 = n + 1
    BY <1>2 DEF Once
  <2> QED
    BY <2>1
<1>4. ASSUME Head(q) \in A PROVE ~Meets(A, ToSet(Tail(q)))
  <2>1. \A x : x \in ToSet(Tail(q)) <=> \E k \in 1 .. Len(Tail(q)) : Tail(q)[k] = x
    BY <1>1, ToSetType
  <2>2. \A k \in 1 .. Len(q) - 1 : q[k + 1] \notin A
    BY <1>1, <1>2, <1>4 DEF Once
  <2> QED
    BY <1>1, <2>1, <2>2 DEF Meets
<1> QED
  BY <1>3, <1>4

\* What comes before stays before.
LEMMA FirstTail ==
    ASSUME NEW S, NEW q \in Seq(S), q # <<>>, NEW A, NEW f, First(q, A, f)
    PROVE  First(Tail(q), A, f) /\ (Meets(A, ToSet(Tail(q))) => Head(q).id # f)
<1>1. /\ Len(q) \in Nat /\ Len(q) >= 1 /\ Head(q) = q[1] /\ Tail(q) \in Seq(S)
      /\ Len(Tail(q)) = Len(q) - 1
      /\ \A n \in 1 .. Len(q) - 1 : Tail(q)[n] = q[n + 1]
  BY TailFacts
<1>2. 1 \in 1 .. Len(q) /\ \A n \in 1 .. Len(q) - 1 : n + 1 \in 1 .. Len(q) /\ 1 < n + 1
  BY <1>1
<1>3. First(Tail(q), A, f)
  <2> SUFFICES ASSUME NEW m \in 1 .. Len(q) - 1, NEW n \in 1 .. Len(q) - 1, m < n,
                      q[n + 1] \in A
               PROVE  q[m + 1].id # f
    BY <1>1 DEF First
  <2>1. m + 1 < n + 1
    OBVIOUS
  <2> QED
    BY <1>2, <2>1 DEF First
<1>4. ASSUME Meets(A, ToSet(Tail(q))) PROVE Head(q).id # f
  <2>0. \A x : x \in ToSet(Tail(q)) <=> \E k \in 1 .. Len(Tail(q)) : Tail(q)[k] = x
    BY <1>1, ToSetType
  <2>1. PICK k \in 1 .. Len(Tail(q)) : Tail(q)[k] \in A
    BY <1>4, <2>0 DEF Meets
  <2>2. q[k + 1] \in A /\ k + 1 \in 1 .. Len(q) /\ 1 < k + 1
    BY <1>1, <1>2, <2>1
  <2> QED
    BY <1>1, <1>2, <2>2 DEF First
<1> QED
  BY <1>3, <1>4

\* A list that goes on without kind A, or begins with it.
LEMMA FirstConcat ==
    ASSUME NEW S, NEW q \in Seq(S), NEW r \in Seq(S), NEW A, NEW f,
           \/ First(q, A, f) /\ ~Meets(A, ToSet(r))
           \/ /\ \A x \in ToSet(q) : x.id # f
              /\ ~Meets(A, ToSet(q))
              /\ \A n \in 1 .. Len(r) : r[n] \in A => n = 1
    PROVE  First(q \o r, A, f)
<1>1. /\ \A x : x \in ToSet(q) <=> \E k \in 1 .. Len(q) : q[k] = x
      /\ \A x : x \in ToSet(r) <=> \E k \in 1 .. Len(r) : r[k] = x
      /\ Len(q) \in Nat /\ Len(r) \in Nat
  BY ToSetType
<1> SUFFICES ASSUME NEW m \in 1 .. Len(q \o r), NEW n \in 1 .. Len(q \o r), m < n,
                    (q \o r)[n] \in A
             PROVE  (q \o r)[m].id # f
  BY DEF First
<1>2. \/ m \in 1 .. Len(q) /\ (q \o r)[m] = q[m]
      \/ \E k \in 1 .. Len(r) : m = Len(q) + k /\ (q \o r)[m] = r[k]
  BY Positions
<1>3. \/ n \in 1 .. Len(q) /\ (q \o r)[n] = q[n]
      \/ \E k \in 1 .. Len(r) : n = Len(q) + k /\ (q \o r)[n] = r[k]
  BY Positions
<1>4. CASE First(q, A, f) /\ ~Meets(A, ToSet(r))
  <2>1. n \in 1 .. Len(q) /\ q[n] \in A
    BY <1>1, <1>3, <1>4 DEF Meets
  <2>2. \A k \in 1 .. Len(r) : m # Len(q) + k
    BY <1>1, <2>1
  <2>3. m \in 1 .. Len(q) /\ (q \o r)[m] = q[m]
    BY <1>2, <2>2
  <2> QED
    BY <1>4, <2>1, <2>3 DEF First
<1>5. CASE /\ \A x \in ToSet(q) : x.id # f
           /\ ~Meets(A, ToSet(q))
           /\ \A k \in 1 .. Len(r) : r[k] \in A => k = 1
  <2>1. n = Len(q) + 1
    BY <1>1, <1>3, <1>5 DEF Meets
  <2>2. \A k \in 1 .. Len(r) : m # Len(q) + k
    BY <1>1, <2>1
  <2>3. m \in 1 .. Len(q) /\ (q \o r)[m] = q[m]
    BY <1>2, <2>2
  <2> QED
    BY <1>1, <1>5, <2>3
<1> QED
  BY <1>4, <1>5

-----------------------------------------------------------------------------
(* As long as rbh-fsevents is not killed, the database holds nothing else. *)

LinksOf(f, l) == {e \in Ev : IsLink(e, f, l)}
GonesOf(f, l) == {e \in Ev : Gone(e, f, l)}
MakesOf(f) == {e \in Ev : Makes(e, f)}
DeletesOf(f) == {e \in Ev : IsDelete(e, f)}

\* A LINK is on its way once, and the database does not have its name yet.
OnceInv ==
    \A f \in File, l \in Link :
        /\ Once(fsevents, LinksOf(f, l)) /\ Once(List(pool, f), LinksOf(f, l))
        /\ Meets(LinksOf(f, l), Coming) =>
              /\ l \notin ns[f]
              /\ ~Meets(LinksOf(f, l), Queued(f)) /\ ~Meets(LinksOf(f, l), Cached(f))
        /\ Meets(LinksOf(f, l), Cached(f)) =>
              l \notin ns[f] /\ ~Meets(LinksOf(f, l), Queued(f))
        /\ l \in ns[f] => l \in had[f]

\* The database knows nothing of a file whose only LINK so far is on its way.
NewInv ==
    \A f \in File :
        /\ had[f] = {} => f \notin entries
        /\ \A l \in Link : had[f] \subseteq {l} =>
              /\ Meets(LinksOf(f, l), Coming) =>
                    /\ f \notin entries /\ Queued(f) = {} /\ Cached(f) = {}
                    /\ First(fsevents, LinksOf(f, l), f)
              /\ Meets(LinksOf(f, l), Cached(f)) => f \notin entries /\ Queued(f) = {}

\* A DELETE is about a file that had one name.
DeleteInv == \A e \in Coming : e.type = "DELETE" => ~Moved(e.id)

\* An fsevent of kind B comes after every fsevent about f of kind A.
Settled(f, A, B) ==
    /\ Closed(sent[f], A, B) \/ Meets(B, Cached(f)) \/ Meets(B, Coming)
    /\ Meets(A, Cached(f)) => Meets(B, Coming)
    /\ Closed(fsevents, A, B)

Owed(f, B) == Meets(B, Queued(f)) \/ Meets(B, Cached(f)) \/ Meets(B, Coming)

\* A name that is gone, and that the database has or will have, will be taken away.
GoneInv ==
    \A f \in File, l \in Link : l \notin links[f] =>
        /\ l \in ns[f] => Owed(f, GonesOf(f, l))
        /\ Settled(f, LinksOf(f, l), GonesOf(f, l))

\* A file that is gone, and that the database has or will have, will be deleted.
DeadInv ==
    \A f \in File : links[f] = {} =>
        /\ f \in entries => Owed(f, DeletesOf(f))
        /\ Settled(f, MakesOf(f), DeletesOf(f))

CleanInv == OnceInv /\ NewInv /\ DeleteInv /\ GoneInv /\ DeadInv

\* Every list is a list of fsevents.
LEMMA QueueTypes ==
    ASSUME TypeInv
    PROVE  /\ fsevents \in Seq(Ev) /\ Coming \subseteq Ev
           /\ \A i : List(pool, i) \in Seq(Ev) /\ Cached(i) \subseteq Ev
           /\ \A i \in Id : sent[i] \in Seq(Ev) /\ Queued(i) \subseteq Ev
<1>1. fsevents \in Seq(Ev) /\ Coming \subseteq Ev
  BY ToSetType DEF TypeInv, LogInv, Coming
<1>2. ASSUME NEW i PROVE List(pool, i) \in Seq(Ev) /\ Cached(i) \subseteq Ev
  BY ListType, ToSetType DEF TypeInv, Cached
<1>3. ASSUME NEW i \in Id PROVE sent[i] \in Seq(Ev) /\ Queued(i) \subseteq Ev
  <2>1. sent[i] \in Seq(Ev)
    BY DEF TypeInv, QueueInv
  <2> QED
    BY <2>1, ToSetType DEF Queued
<1> QED
  BY <1>1, <1>2, <1>3

\* A push gives the list no second LINK of a name.
LEMMA OnceChanges ==
    ASSUME NEW L \in Seq(Ev), NEW e \in Ev, NEW M, Changes(L, e, M), NEW f, NEW l,
           Once(L, LinksOf(f, l)), e \in LinksOf(f, l) => ~Meets(LinksOf(f, l), ToSet(L))
    PROVE  Once(M, LinksOf(f, l))
<1> DEFINE A == LinksOf(f, l)
<1>0. \A x \in A : x.type = "LINK"
  BY DEF LinksOf, IsLink
<1>h. Once(L, A) /\ (e \in A => ~Meets(A, ToSet(L)))
  OBVIOUS
<1> HIDE DEF A
<1>1. Once(<<e>>, A) /\ <<e>> \in Seq(Ev) /\ ToSet(<<e>>) = {e}
  BY ToSetOne DEF Once
<1>2. CASE M = <<e>> \o L
  <2>1. ~Meets(A, ToSet(<<e>>)) \/ ~Meets(A, ToSet(L))
    BY <1>h, <1>1 DEF Meets
  <2> QED
    BY <1>h, <1>1, <1>2, <2>1, OnceConcat DEF A
<1>3. CASE e.type # "LINK" /\ M = Append(L, e)
  <2>1. /\ Len(L) \in Nat /\ Len(M) = Len(L) + 1 /\ M[Len(L) + 1] = e
        /\ \A n \in 1 .. Len(L) : M[n] = L[n]
    BY <1>3, AppendFacts
  <2>2. \A n \in 1 .. Len(M) : M[n] \in A => n \in 1 .. Len(L) /\ L[n] \in A
    BY <1>0, <1>3, <2>1
  <2> QED
    BY <1>h, <2>2 DEF Once, A
<1>4. CASE /\ e.type \in {"UPSERT", "XATTR"}
           /\ \E n \in OfType(L, e.type) : M = [L EXCEPT ![n] = Merge(L[n], e)]
  <2>1. PICK n \in OfType(L, e.type) : M = [L EXCEPT ![n] = Merge(L[n], e)]
    BY <1>4
  <2>2. n \in DOMAIN L /\ L[n].type = e.type /\ L[n] \in Ev
    BY <2>1 DEF OfType
  <2>3. Merge(L[n], e).type = e.type
    BY <2>2, MergeType DEF Ev
  <2>4. Merge(L[n], e) \notin A
    BY <1>0, <1>4, <2>3
  <2>5. Len(M) = Len(L) /\ \A k \in 1 .. Len(L) : k # n => M[k] = L[k]
    BY <2>1, <2>2
  <2>6. M[n] = Merge(L[n], e)
    BY <2>1, <2>2
  <2>7. \A k \in 1 .. Len(M) : M[k] \in A => k \in 1 .. Len(L) /\ L[k] \in A
    BY <2>4, <2>5, <2>6
  <2> QED
    BY <1>h, <2>7 DEF Once, A
<1>5. CASE \E n \in MatchingLinks(L, e) : M = RemoveAt(L, n)
  <2>1. PICK n \in MatchingLinks(L, e) : M = RemoveAt(L, n)
    BY <1>5
  <2>2. n \in 1 .. Len(L)
    BY <2>1 DEF MatchingLinks, OfType
  <2>3. /\ Len(L) \in Nat /\ Len(M) = Len(L) - 1
        /\ \A m \in 1 .. Len(L) - 1 : M[m] = IF m < n THEN L[m] ELSE L[m + 1]
    BY <2>1, <2>2, RemoveAtFacts
  <2> DEFINE at(m) == IF m < n THEN m ELSE m + 1
  <2>4. \A m \in 1 .. Len(M) : at(m) \in 1 .. Len(L) /\ M[m] = L[at(m)]
    BY <2>2, <2>3
  <2>5. \A m, k \in 1 .. Len(M) : at(m) = at(k) => m = k
    BY <2>2, <2>3
  <2> HIDE DEF at
  <2> QED
    BY <1>h, <2>4, <2>5 DEF Once, A
<1>6. CASE M = <<>>
  BY <1>6 DEF Once
<1>7. CASE M = <<e>>
  BY <1>1, <1>7 DEF A
<1> QED
  BY <1>2, <1>3, <1>4, <1>5, <1>6, <1>7 DEF Changes

\* The UNLINK that cancels the LINK of a name leaves no other one.
LEMMA CancelsAll ==
    ASSUME NEW L \in Seq(Ev), NEW e \in Ev, NEW M, Changes(L, e, M), NEW f, NEW l,
           \A x \in ToSet(L) : x.id = f, IsUnlink(e, f, l),
           Once(L, LinksOf(f, l)), Meets(LinksOf(f, l), ToSet(L))
    PROVE  ~Meets(LinksOf(f, l), ToSet(M))
<1>1. \A x : x \in ToSet(L) <=> \E k \in 1 .. Len(L) : L[k] = x
  BY ToSetType
<1>2. PICK k \in 1 .. Len(L) : IsLink(L[k], f, l)
  BY <1>1 DEF Meets, LinksOf
<1>3. k \in MatchingLinks(L, e)
  BY <1>2 DEF MatchingLinks, OfType, IsLink, IsUnlink
<1>4. PICK n \in MatchingLinks(L, e) : M = RemoveAt(L, n)
  <2>1. e.type = "UNLINK" /\ MatchingLinks(L, e) # {}
    BY <1>3 DEF IsUnlink
  <2> QED
    BY <2>1 DEF Changes
<1>5. n \in 1 .. Len(L) /\ L[n].type = "LINK" /\ L[n].link = l /\ L[n] \in Ev
  BY <1>4 DEF MatchingLinks, OfType, IsUnlink
<1>6. L[n] \in LinksOf(f, l)
  BY <1>1, <1>5 DEF LinksOf, IsLink
<1>7. \A m \in 1 .. Len(L) \ {n} : L[m] \notin LinksOf(f, l)
  BY <1>5, <1>6 DEF Once
<1>8. ToSet(M) = {L[m] : m \in 1 .. Len(L) \ {n}}
  BY <1>4, <1>5, ToSetRemoveAt
<1> QED
  BY <1>7, <1>8 DEF Meets

\* The empty list.
LEMMA NothingMeets == \A A : ~Meets(A, {}) /\ \A B : Closed(<<>>, A, B) /\ Once(<<>>, A)
BY DEF Meets, Closed, Once

\* Nothing exists and nothing is on its way.
LEMMA CleanInit == Init => CleanInv
<1> SUFFICES ASSUME Init PROVE CleanInv
  OBVIOUS
<1>1. /\ fsevents = <<>> /\ entries = {} /\ \A i \in Id : sent[i] = <<>>
      /\ \A i : List(pool, i) = <<>>
  BY EmptyFacts DEF Init
<1>2. Coming = {} /\ (\A i : Cached(i) = {}) /\ \A i \in Id : Queued(i) = {}
  BY <1>1, ToSetEmpty DEF Coming, Cached, Queued
<1>3. \A f \in File : ns[f] = {} /\ f \in Id
  BY DEF Init, Id
<1>4. OnceInv
  BY <1>1, <1>2, <1>3, NothingMeets DEF OnceInv
<1>5. NewInv
  BY <1>1, <1>2, <1>3, NothingMeets DEF NewInv
<1>6. DeleteInv
  BY <1>2 DEF DeleteInv
<1>7. \A f \in File : \A A, B : Settled(f, A, B)
  BY <1>1, <1>2, <1>3, NothingMeets DEF Settled
<1>8. GoneInv /\ DeadInv
  BY <1>1, <1>3, <1>7 DEF GoneInv, DeadInv
<1> QED
  BY <1>4, <1>5, <1>6, <1>8 DEF CleanInv

\* A record without an fsevent of kind A leaves what is settled so, and settles
\* what it has an fsevent of kind B about.
LEMMA LogSettles ==
    ASSUME TypeInv, NEW events, LogsRecord(events), NEW f \in File, NEW A, NEW B,
           ~Meets(A, ToSet(events)), Settled(f, A, B) \/ Meets(B, ToSet(events))
    PROVE  Settled(f, A, B)'
<1>1. /\ Coming' = Coming \cup ToSet(events) /\ Cached(f)' = Cached(f)
  BY RecentLogged
<1>2. /\ fsevents' = fsevents \o events /\ events \in Seq(Ev) /\ fsevents \in Seq(Ev)
      /\ sent' = sent
  BY QueueTypes DEF LogsRecord, Logged
<1>3. Closed(fsevents, A, B) \/ Meets(B, ToSet(events))
  BY DEF Settled
<1>4. Closed(fsevents', A, B)
  BY <1>2, <1>3, ClosedConcat
<1>5. CASE Meets(B, ToSet(events))
  <2>1. Meets(B, Coming')
    BY <1>1, <1>5 DEF Meets
  <2> QED
    BY <1>4, <2>1 DEF Settled
<1>6. CASE Settled(f, A, B)
  <2>1. Meets(B, Coming) => Meets(B, Coming')
    BY <1>1 DEF Meets
  <2> QED
    BY <1>1, <1>2, <1>4, <1>6, <2>1 DEF Settled
<1> QED
  BY <1>5, <1>6

\* The LINK of a record is about a name the file never had.
LEMMA LogKeepsOnce ==
    ASSUME NameInv, OnceInv, NEW events, LogsRecord(events), Honest(events)
    PROVE  OnceInv'
<1>1. /\ Coming' = Coming \cup ToSet(events)
      /\ \A i : List(pool, i)' = List(pool, i) /\ Cached(i)' = Cached(i) /\ Queued(i)' = Queued(i)
  BY RecentLogged DEF NameInv
<1>2. /\ fsevents' = fsevents \o events /\ events \in Seq(Ev) /\ fsevents \in Seq(Ev)
      /\ ns' = ns
  BY QueueTypes DEF NameInv, LogsRecord, Logged, db
<1> SUFFICES ASSUME NEW f \in File, NEW l \in Link
    PROVE  /\ Once(fsevents, LinksOf(f, l))' /\ Once(List(pool, f), LinksOf(f, l))'
           /\ Meets(LinksOf(f, l), Coming)' =>
                /\ l \notin ns'[f]
                /\ ~Meets(LinksOf(f, l), Queued(f))' /\ ~Meets(LinksOf(f, l), Cached(f))'
           /\ Meets(LinksOf(f, l), Cached(f))' =>
                l \notin ns'[f] /\ ~Meets(LinksOf(f, l), Queued(f))'
           /\ l \in ns'[f] => l \in had'[f]
  BY DEF OnceInv
<1> DEFINE A == LinksOf(f, l)
<1>3. /\ Once(fsevents, A) /\ Once(List(pool, f), A)
      /\ Meets(A, Coming) => l \notin ns[f] /\ ~Meets(A, Queued(f)) /\ ~Meets(A, Cached(f))
      /\ Meets(A, Cached(f)) => l \notin ns[f] /\ ~Meets(A, Queued(f))
      /\ l \in ns[f] => l \in had[f]
  BY DEF OnceInv
<1>4. had[f] \subseteq had'[f] /\ f \in Id
  BY DEF Honest, Id
<1>5. ASSUME Meets(A, ToSet(events)) PROVE l \notin had[f]
  BY <1>5 DEF Meets, LinksOf, IsLink, Honest
<1>6. ASSUME l \notin had[f]
      PROVE  ~Meets(A, Coming) /\ ~Meets(A, Queued(f)) /\ ~Meets(A, Cached(f)) /\ l \notin ns[f]
  <2>1. \A e : Past(e) => e \notin A
    BY <1>6 DEF Past, LinksOf, IsLink
  <2>2. Coming \subseteq Logs
    BY ComingRecent DEF NameInv
  <2>3. \A e \in Coming \cup Queued(f) \cup Cached(f) : Past(e)
    BY <1>4, <2>2 DEF NameInv, HistoryInv
  <2> QED
    BY <1>3, <1>6, <2>1, <2>3 DEF Meets
<1>7. Once(events, A)
  <2>1. \A x \in A : x.type = "LINK"
    BY DEF LinksOf, IsLink
  <2> QED
    BY <2>1 DEF Honest, OneLink, Once
<1> HIDE DEF A
<1>8. Once(fsevents', A)
  <2>1. ~Meets(A, ToSet(fsevents)) \/ ~Meets(A, ToSet(events))
    BY <1>5, <1>6 DEF Coming
  <2> QED
    BY <1>2, <1>3, <1>7, <2>1, OnceConcat
<1>9. Meets(A, Coming') <=> Meets(A, Coming) \/ Meets(A, ToSet(events))
  BY <1>1 DEF Meets
<1>10. /\ Once(List(pool, f)', A)
       /\ Meets(A, Coming') =>
            l \notin ns'[f] /\ ~Meets(A, Queued(f)') /\ ~Meets(A, Cached(f)')
       /\ Meets(A, Cached(f)') => l \notin ns'[f] /\ ~Meets(A, Queued(f)')
       /\ l \in ns'[f] => l \in had'[f]
  BY <1>1, <1>2, <1>3, <1>4, <1>5, <1>6, <1>9
<1> QED
  BY <1>8, <1>10 DEF A

\* The LINK of a new file is the first fsevent about it.
LEMMA LogKeepsNew ==
    ASSUME NameInv, NewInv, NEW events, LogsRecord(events), Honest(events)
    PROVE  NewInv'
<1>1. /\ Coming' = Coming \cup ToSet(events)
      /\ \A i : Cached(i)' = Cached(i) /\ Queued(i)' = Queued(i)
  BY RecentLogged DEF NameInv
<1>2. /\ fsevents' = fsevents \o events /\ events \in Seq(Ev) /\ fsevents \in Seq(Ev)
      /\ entries' = entries
  BY QueueTypes DEF NameInv, LogsRecord, Logged, db
<1> SUFFICES ASSUME NEW f \in File
    PROVE  /\ had'[f] = {} => f \notin entries'
           /\ \A l \in Link : had'[f] \subseteq {l} =>
                /\ Meets(LinksOf(f, l), Coming)' =>
                      /\ f \notin entries' /\ Queued(f)' = {} /\ Cached(f)' = {}
                      /\ First(fsevents, LinksOf(f, l), f)'
                /\ Meets(LinksOf(f, l), Cached(f))' => f \notin entries' /\ Queued(f)' = {}
  BY DEF NewInv
<1>3. had[f] \subseteq had'[f] /\ f \in Id
  BY DEF Honest, Id
<1>4. had'[f] = {} => f \notin entries'
  BY <1>2, <1>3 DEF NewInv
<1>5. ASSUME NEW l \in Link, had'[f] \subseteq {l}
      PROVE  /\ Meets(LinksOf(f, l), Coming') =>
                  /\ f \notin entries' /\ Queued(f)' = {} /\ Cached(f)' = {}
                  /\ First(fsevents', LinksOf(f, l), f)
             /\ Meets(LinksOf(f, l), Cached(f)') => f \notin entries' /\ Queued(f)' = {}
  <2> DEFINE A == LinksOf(f, l)
  <2>0. \A x \in A : x.type = "LINK" /\ x.id = f /\ x.link = l
    BY DEF LinksOf, IsLink
  <2>1. CASE had[f] = {}
    <3>1. Coming \subseteq Logs
      BY ComingRecent DEF NameInv
    <3>2. \A e \in Coming \cup Queued(f) \cup Cached(f) : e.id # f
      BY <1>3, <2>1, <3>1 DEF NameInv, HistoryInv, Past
    <3>3. Queued(f) = {} /\ Cached(f) = {}
      BY <1>3, <3>2 DEF NameInv, TypeInv, FitsInv
    <3>4. ~Meets(A, Coming) /\ ~Meets(A, {})
      BY <2>0, <3>2 DEF Meets
    <3>5. ASSUME NEW n \in 1 .. Len(events), events[n] \in A PROVE n = 1
      <4>1. events[n] \in ToSet(events) /\ events[n].id = f /\ events[n].type = "LINK"
        BY <1>2, <2>0, <3>5, ToSetType
      <4>2. events[1].type = "LINK"
        BY <2>1, <4>1 DEF Honest
      <4>3. PICK k : \A m \in 1 .. Len(events) : events[m].type = "LINK" => m = k
        BY DEF Honest, OneLink
      <4>4. 1 \in 1 .. Len(events)
        BY <1>2
      <4> QED
        BY <4>1, <4>2, <4>3, <4>4
    <3> HIDE DEF A
    <3>6. First(fsevents', A, f)
      <4>1. \A x \in ToSet(fsevents) : x.id # f
        BY <3>2 DEF Coming
      <4>2. ~Meets(A, ToSet(fsevents))
        BY <3>4 DEF Coming
      <4> QED
        BY <1>2, <3>5, <4>1, <4>2, FirstConcat
    <3>7. f \notin entries
      BY <2>1 DEF NewInv
    <3> QED
      BY <1>1, <1>2, <3>3, <3>4, <3>6, <3>7 DEF A
  <2>2. CASE had[f] # {}
    <3>1. had[f] = {l} /\ l \in had[f]
      BY <1>3, <1>5, <2>2
    <3>2. ~Meets(A, ToSet(events))
      BY <2>0, <3>1 DEF Meets, Honest
    <3>3. Meets(A, Coming') => Meets(A, Coming)
      BY <1>1, <3>2 DEF Meets
    <3>4. /\ Meets(A, Coming) => /\ f \notin entries /\ Queued(f) = {} /\ Cached(f) = {}
                                 /\ First(fsevents, A, f)
          /\ Meets(A, Cached(f)) => f \notin entries /\ Queued(f) = {}
      BY <3>1 DEF NewInv
    <3> HIDE DEF A
    <3>5. Meets(A, Coming) => First(fsevents', A, f)
      BY <1>2, <3>2, <3>4, FirstConcat
    <3> QED
      BY <1>1, <1>2, <3>3, <3>4, <3>5 DEF A
  <2> QED
    BY <2>1, <2>2
<1> QED
  BY <1>4, <1>5

\* A record of what is gone says so.
LEMMA LogKeepsClean ==
    ASSUME NameInv, CleanInv, ~DeleteMoved, NEW events, LogsRecord(events), Honest(events)
    PROVE  CleanInv'
<1>1. OnceInv' /\ NewInv'
  BY LogKeepsOnce, LogKeepsNew DEF CleanInv
<1>2. /\ Coming' = Coming \cup ToSet(events)
      /\ \A i : Cached(i)' = Cached(i) /\ Queued(i)' = Queued(i)
  BY RecentLogged DEF NameInv
<1>3. entries' = entries /\ ns' = ns
  BY DEF LogsRecord, db
<1>4. events \in Seq(Ev) /\ ToSet(events) \subseteq Ev
  BY ToSetType DEF LogsRecord
<1>5. TypeInv
  BY DEF NameInv
<1>6. DeleteInv'
  <2> SUFFICES ASSUME NEW e \in Coming', e.type = "DELETE" PROVE ~Moved(e.id)'
    BY DEF DeleteInv
  <2>1. CASE e \in ToSet(events)
    BY <2>1 DEF Honest
  <2>2. CASE e \in Coming
    <3>1. Coming \subseteq Logs
      BY <1>5, ComingRecent
    <3>2. e.id \in File /\ links[e.id] = {} /\ had[e.id] # {} /\ ~Moved(e.id)
      BY <2>2, <3>1 DEF NameInv, TypeInv, FitsInv, Fits, HistoryInv, Past, CleanInv, DeleteInv
    <3>3. had'[e.id] = had[e.id]
      BY <3>2 DEF Honest
    <3> QED
      BY <3>2, <3>3 DEF Moved
  <2> QED
    BY <1>2, <2>1, <2>2
<1>7. \A B, f : Owed(f, B) \/ Meets(B, ToSet(events)) => Owed(f, B)'
  BY <1>2 DEF Owed, Meets
<1>8. GoneInv'
  <2> SUFFICES ASSUME NEW f \in File, NEW l \in Link, l \notin links'[f]
               PROVE  /\ l \in ns'[f] => Owed(f, GonesOf(f, l))'
                      /\ Settled(f, LinksOf(f, l), GonesOf(f, l))'
    BY DEF GoneInv
  <2>1. ~Meets(LinksOf(f, l), ToSet(events))
    BY DEF Meets, LinksOf, IsLink, Honest
  <2>2. \/ /\ Settled(f, LinksOf(f, l), GonesOf(f, l))
           /\ l \in ns[f] => Owed(f, GonesOf(f, l))
        \/ Meets(GonesOf(f, l), ToSet(events))
    <3>1. CASE l \in links[f]
      <4>1. \E e \in ToSet(events) : Gone(e, f, l)
        BY <3>1 DEF Honest
      <4> QED
        BY <1>4, <4>1 DEF Meets, GonesOf
    <3>2. CASE l \notin links[f]
      BY <3>2 DEF CleanInv, GoneInv
    <3> QED
      BY <3>1, <3>2
  <2> DEFINE A == LinksOf(f, l)
             B == GonesOf(f, l)
  <2>3. Settled(f, A, B) \/ Meets(B, ToSet(events))
    BY <2>2
  <2>4. ~Meets(A, ToSet(events))
    BY <2>1
  <2>5. A' = A /\ B' = B
    OBVIOUS
  <2> HIDE DEF A, B
  <2>6. Settled(f, A, B)'
    BY <1>5, <2>3, <2>4, LogSettles
  <2>7. l \in ns'[f] => Owed(f, B)'
    BY <1>3, <1>7, <2>2 DEF B
  <2> QED
    BY <2>6, <2>7 DEF A, B
<1>9. DeadInv'
  <2> SUFFICES ASSUME NEW f \in File, links'[f] = {}
               PROVE  /\ f \in entries' => Owed(f, DeletesOf(f))'
                      /\ Settled(f, MakesOf(f), DeletesOf(f))'
    BY DEF DeadInv
  <2>1. ~Meets(MakesOf(f), ToSet(events))
    BY DEF Meets, MakesOf, Honest
  <2>2. \/ /\ Settled(f, MakesOf(f), DeletesOf(f))
           /\ f \in entries => Owed(f, DeletesOf(f))
        \/ Meets(DeletesOf(f), ToSet(events))
    <3>1. CASE links[f] # {}
      <4>1. \E e \in ToSet(events) : IsDelete(e, f)
        BY <3>1 DEF Honest
      <4> QED
        BY <1>4, <4>1 DEF Meets, DeletesOf
    <3>2. CASE links[f] = {}
      BY <3>2 DEF CleanInv, DeadInv
    <3> QED
      BY <3>1, <3>2
  <2>3. Settled(f, MakesOf(f), DeletesOf(f))'
    BY <1>5, <2>1, <2>2, LogSettles
  <2>4. f \in entries' => Owed(f, DeletesOf(f))'
    BY <1>3, <1>7, <2>2
  <2> QED
    BY <2>3, <2>4
<1> QED
  BY <1>1, <1>6, <1>8, <1>9 DEF CleanInv

\* The rest of a step that pushes e, seen from the lists of another id.
LEMMA PushSettlesOthers ==
    ASSUME TypeInv, NEW e, PushStep(e), PushEffect(e), NEW f, f # e.id, NEW A, NEW B,
           e \notin B
    PROVE  /\ Settled(f, A, B) => Settled(f, A, B)'
           /\ Owed(f, B) => Owed(f, B)'
<1>1. /\ Coming = {e} \cup Coming' /\ Queued(f)' = Queued(f) /\ Cached(f)' = Cached(f)
      /\ sent' = sent
  BY DEF PushEffect, PushStep, Cached
<1>2. Meets(B, Coming) <=> Meets(B, Coming')
  BY <1>1 DEF Meets
<1>3. fsevents \in Seq(Ev) /\ fsevents # <<>> /\ fsevents' = Tail(fsevents)
  BY QueueTypes DEF PushStep
<1>4. Closed(fsevents, A, B) => Closed(fsevents', A, B)
  BY <1>3, ClosedTail
<1> QED
  BY <1>1, <1>2, <1>4 DEF Settled, Owed

\* The same from the lists of its id: no fsevent of kind B is lost, but when
\* nothing of kind A was sent.
LEMMA PushSettles ==
    ASSUME TypeInv, NEW e, PushStep(e), PushEffect(e), NEW A, NEW B,
           Settled(e.id, A, B),
           \/ Meets(B, Cached(e.id)) \/ e \in B => Meets(B, Cached(e.id)')
           \/ ~Meets(A, Queued(e.id)),
           Meets(A, Cached(e.id)') => e \in A \/ Meets(A, Cached(e.id)),
           Meets(A, Cached(e.id)') => e \notin B
    PROVE  Settled(e.id, A, B)'
<1> DEFINE f == e.id
<1>0. f \in Id
  BY DEF PushEffect
<1>1. /\ Coming = {e} \cup Coming' /\ Queued(f)' = Queued(f) /\ sent' = sent
  BY DEF PushEffect, PushStep
<1>2. Meets(B, Coming) => e \in B \/ Meets(B, Coming')
  BY <1>1 DEF Meets
<1>3. fsevents \in Seq(Ev) /\ fsevents # <<>> /\ fsevents' = Tail(fsevents)
      /\ e = Head(fsevents)
  BY QueueTypes DEF PushStep
<1>4. Closed(fsevents', A, B) /\ (e \in A => Meets(B, Coming'))
  <2>1. Closed(fsevents, A, B)
    BY DEF Settled
  <2> QED
    BY <1>3, <2>1, ClosedTail DEF Coming
<1>5. ~Meets(A, Queued(f)) => Closed(sent[f], A, B)
  <2>1. sent[f] \in Seq(Ev)
    BY <1>0, QueueTypes
  <2>2. \A n \in 1 .. Len(sent[f]) : sent[f][n] \in Queued(f)
    BY <2>1, ToSetType DEF Queued
  <2> QED
    BY <2>2 DEF Closed, Meets
<1>6. Meets(A, Cached(f)') => Meets(B, Coming')
  BY <1>2, <1>4 DEF Settled
<1>7. Closed(sent[f], A, B) \/ Meets(B, Cached(f)') \/ Meets(B, Coming')
  BY <1>2, <1>5 DEF Settled
<1> QED
  BY <1>1, <1>4, <1>6, <1>7 DEF Settled

\* What a push that loses a LINK, or a DELETE, says of the file.
LEMMA DropFacts ==
    ASSUME NameInv, CleanInv, NEW e, PushStep(e), PushEffect(e),
           Drops(Cached(e.id), e, Cached(e.id)')
    PROVE  /\ e.id \in File /\ e.id \notin entries /\ Queued(e.id) = {}
           /\ Cached(e.id)' = {} /\ ns[e.id] = {}
<1> DEFINE f == e.id
<1>1. e.type = "DELETE" /\ Cached(f)' = {} /\ e \in Coming
  BY DEF Drops, PushEffect
<1>2. f \in File /\ f \in Id
  BY <1>1 DEF PushEffect, Fits, Id
<1>3. PICK x \in Cached(f) : x.type = "LINK"
  BY DEF Drops
<1>4. x.id = f /\ x.link \in Link /\ x.link \in had[f] /\ x \in Ev
  BY <1>2, <1>3, QueueTypes DEF NameInv, TypeInv, FitsInv, Fits, HistoryInv, Past
<1>5. ~Moved(f)
  BY <1>1 DEF CleanInv, DeleteInv
<1>6. had[f] \subseteq {x.link}
  BY <1>4, <1>5 DEF Moved
<1>7. Meets(LinksOf(f, x.link), Cached(f))
  BY <1>3, <1>4 DEF Meets, LinksOf, IsLink
<1>8. f \notin entries /\ Queued(f) = {}
  BY <1>2, <1>4, <1>6, <1>7 DEF CleanInv, NewInv
<1>9. ns[f] = {}
  <2>1. ns[f] \subseteq Link
    BY <1>2 DEF NameInv, TypeInv, DbInv
  <2>2. \A l \in ns[f] : l = x.link
    BY <1>2, <1>6, <2>1 DEF CleanInv, OnceInv
  <2>3. x.link \notin ns[f]
    BY <1>2, <1>4, <1>7 DEF CleanInv, OnceInv
  <2> QED
    BY <2>2, <2>3
<1> QED
  BY <1>1, <1>2, <1>8, <1>9

\* Where an fsevent of the list of e comes from.
LEMMA PushOrigin ==
    ASSUME TypeInv, NEW e, PushEffect(e), NEW y \in Cached(e.id)'
    PROVE  \/ y \in Cached(e.id) \/ y = e
           \/ \E x \in Cached(e.id) : x.type = y.type /\ y.type \in {"UPSERT", "XATTR"}
<1>1. CASE \E x \in Cached(e.id) : y = Merge(x, e) /\ x.type \in {"UPSERT", "XATTR"}
  <2>1. PICK x \in Cached(e.id) : y = Merge(x, e) /\ x.type \in {"UPSERT", "XATTR"}
    BY <1>1
  <2>2. x \in Ev /\ e \in Ev
    BY QueueTypes DEF PushEffect
  <2>3. y.type = x.type
    BY <2>1, <2>2, MergeType DEF Ev
  <2> QED
    BY <2>1, <2>3
<1>2. CASE ~\E x \in Cached(e.id) : y = Merge(x, e) /\ x.type \in {"UPSERT", "XATTR"}
  BY <1>2 DEF PushEffect, Grows, Merges, Cancels, Drops, Replaces
<1> QED
  BY <1>1, <1>2

\* A LINK in the pool was there, or is the new one.
LEMMA PushNames ==
    ASSUME NameInv, NEW e, PushEffect(e), NEW f, NEW l
    PROVE  Meets(LinksOf(f, l), Cached(f)') =>
              e \in LinksOf(f, l) \/ Meets(LinksOf(f, l), Cached(f))
<1>1. CASE f # e.id
  BY <1>1 DEF PushEffect, Cached
<1>2. CASE f = e.id
  <2> SUFFICES ASSUME NEW y \in Cached(f)', y \in LinksOf(f, l)
               PROVE  y = e \/ y \in Cached(f)
    BY DEF Meets
  <2>1. y.type = "LINK"
    BY DEF LinksOf, IsLink
  <2> QED
    BY <1>2, <2>1, PushOrigin DEF NameInv
<1> QED
  BY <1>1, <1>2

\* A push makes no second LINK.
LEMMA PushKeepsOnce ==
    ASSUME NameInv, CleanInv, NEW e, PushStep(e), PushEffect(e)
    PROVE  OnceInv'
<1>1. /\ Coming = {e} \cup Coming' /\ (\A i : Queued(i)' = Queued(i))
      /\ (\A i : i # e.id => Cached(i)' = Cached(i))
      /\ (\A i : i # e.id => List(pool, i)' = List(pool, i))
      /\ ns' = ns /\ had' = had /\ e \in Ev
  BY DEF PushEffect, PushStep, Cached, fs, db
<1>2. fsevents \in Seq(Ev) /\ fsevents # <<>> /\ fsevents' = Tail(fsevents)
      /\ e = Head(fsevents)
  BY QueueTypes DEF NameInv, PushStep
<1> SUFFICES ASSUME NEW f \in File, NEW l \in Link
    PROVE  /\ Once(fsevents, LinksOf(f, l))' /\ Once(List(pool, f), LinksOf(f, l))'
           /\ Meets(LinksOf(f, l), Coming)' =>
                /\ l \notin ns'[f]
                /\ ~Meets(LinksOf(f, l), Queued(f))' /\ ~Meets(LinksOf(f, l), Cached(f))'
           /\ Meets(LinksOf(f, l), Cached(f))' =>
                l \notin ns'[f] /\ ~Meets(LinksOf(f, l), Queued(f))'
           /\ l \in ns'[f] => l \in had'[f]
  BY DEF OnceInv
<1> DEFINE A == LinksOf(f, l)
<1>3. /\ Once(fsevents, A) /\ Once(List(pool, f), A)
      /\ Meets(A, Coming) => l \notin ns[f] /\ ~Meets(A, Queued(f)) /\ ~Meets(A, Cached(f))
      /\ Meets(A, Cached(f)) => l \notin ns[f] /\ ~Meets(A, Queued(f))
      /\ l \in ns[f] => l \in had[f]
  BY DEF CleanInv, OnceInv
<1>4. \A x \in A : x.type = "LINK" /\ x.id = f
  BY DEF LinksOf, IsLink
<1>5. e \in A => Meets(A, Coming)
  BY <1>1 DEF Meets
<1>6. Meets(A, Cached(f)') => e \in A \/ Meets(A, Cached(f))
  BY PushNames
<1>7. Once(List(pool, f)', A)
  <2>1. CASE f # e.id
    BY <1>1, <1>3, <2>1
  <2>2. CASE f = e.id
    <3>1. Changes(List(pool, f), e, List(pool, f)') /\ List(pool, f) \in Seq(Ev)
      BY <2>2 DEF PushEffect
    <3>2. e \in A => ~Meets(A, ToSet(List(pool, f)))
      BY <1>3, <1>5 DEF Cached
    <3> QED
      BY <1>1, <1>3, <3>1, <3>2, OnceChanges
  <2> QED
    BY <2>1, <2>2
<1> HIDE DEF A
<1>8. Once(fsevents', A) /\ (e \in A => ~Meets(A, Coming'))
  BY <1>2, <1>3, OnceTail DEF Coming
<1>9. Meets(A, Coming') => Meets(A, Coming)
  BY <1>1 DEF Meets
<1>10. /\ Meets(A, Coming') =>
            l \notin ns'[f] /\ ~Meets(A, Queued(f)') /\ ~Meets(A, Cached(f)')
       /\ Meets(A, Cached(f)') => l \notin ns'[f] /\ ~Meets(A, Queued(f)')
       /\ l \in ns'[f] => l \in had'[f]
  BY <1>1, <1>3, <1>5, <1>6, <1>8, <1>9
<1> QED
  BY <1>7, <1>8, <1>10 DEF A

\* A push keeps the LINK of a new file the first fsevent about it.
LEMMA PushKeepsNew ==
    ASSUME NameInv, CleanInv, NEW e, PushStep(e), PushEffect(e)
    PROVE  NewInv'
<1>1. /\ Coming = {e} \cup Coming' /\ (\A i : Queued(i)' = Queued(i))
      /\ (\A i : i # e.id => Cached(i)' = Cached(i))
      /\ entries' = entries /\ had' = had /\ e \in Ev
  BY DEF PushEffect, PushStep, Cached, fs, db
<1>2. fsevents \in Seq(Ev) /\ fsevents # <<>> /\ fsevents' = Tail(fsevents)
      /\ e = Head(fsevents)
  BY QueueTypes DEF NameInv, PushStep
<1> SUFFICES ASSUME NEW f \in File
    PROVE  /\ had'[f] = {} => f \notin entries'
           /\ \A l \in Link : had'[f] \subseteq {l} =>
                /\ Meets(LinksOf(f, l), Coming)' =>
                      /\ f \notin entries' /\ Queued(f)' = {} /\ Cached(f)' = {}
                      /\ First(fsevents, LinksOf(f, l), f)'
                /\ Meets(LinksOf(f, l), Cached(f))' => f \notin entries' /\ Queued(f)' = {}
  BY DEF NewInv
<1>3. had'[f] = {} => f \notin entries'
  BY <1>1 DEF CleanInv, NewInv
<1>4. ASSUME NEW l \in Link, had[f] \subseteq {l}
      PROVE  /\ Meets(LinksOf(f, l), Coming') =>
                  /\ f \notin entries' /\ Queued(f)' = {} /\ Cached(f)' = {}
                  /\ First(fsevents', LinksOf(f, l), f)
             /\ Meets(LinksOf(f, l), Cached(f)') => f \notin entries' /\ Queued(f)' = {}
  <2> DEFINE A == LinksOf(f, l)
  <2>1. /\ Meets(A, Coming) => /\ f \notin entries /\ Queued(f) = {} /\ Cached(f) = {}
                               /\ First(fsevents, A, f)
        /\ Meets(A, Cached(f)) => f \notin entries /\ Queued(f) = {}
    BY <1>4 DEF CleanInv, NewInv
  <2>2. Meets(A, Coming') => Meets(A, Coming)
    BY <1>1 DEF Meets
  <2>3. Meets(A, Cached(f)') => e \in A \/ Meets(A, Cached(f))
    BY PushNames
  <2>4. e \in A => Meets(A, Coming)
    BY <1>1 DEF Meets
  <2> HIDE DEF A
  <2>5. Meets(A, Coming') => First(fsevents', A, f) /\ e.id # f
    BY <1>2, <2>1, <2>2, FirstTail DEF Coming
  <2> QED
    BY <1>1, <2>1, <2>2, <2>3, <2>4, <2>5 DEF A
<1> QED
  BY <1>1, <1>3, <1>4

\* An UNLINK is lost only with its LINK, which the database has not seen.
LEMMA PushKeepsGone ==
    ASSUME NameInv, CleanInv, NEW e, PushStep(e), PushEffect(e)
    PROVE  GoneInv'
<1>1. /\ Coming = {e} \cup Coming' /\ (\A i : Queued(i)' = Queued(i))
      /\ ns' = ns /\ links' = links /\ e \in Ev /\ TypeInv
  BY DEF PushEffect, PushStep, fs, db, NameInv
<1> SUFFICES ASSUME NEW f \in File, NEW l \in Link, l \notin links[f]
             PROVE  /\ l \in ns[f] => Owed(f, GonesOf(f, l))'
                    /\ Settled(f, LinksOf(f, l), GonesOf(f, l))'
  BY <1>1 DEF GoneInv
<1> DEFINE A == LinksOf(f, l)
           B == GonesOf(f, l)
<1>2. (l \in ns[f] => Owed(f, B)) /\ Settled(f, A, B)
  BY DEF CleanInv, GoneInv
<1>3. CASE f # e.id
  <2>1. e \notin B
    BY <1>3 DEF GonesOf, Gone, IsUnlink, IsDelete
  <2>2. Settled(f, A, B)' /\ (Owed(f, B) => Owed(f, B)')
    BY <1>1, <1>2, <1>3, <2>1, PushSettlesOthers
  <2> QED
    BY <1>2, <2>2
<1>4. CASE f = e.id
  <2>0. /\ \A x \in A : x \in Ev /\ IsLink(x, f, l)
        /\ \A x \in B : x \in Ev /\ (IsUnlink(x, f, l) \/ IsDelete(x, f))
        /\ \A x \in Ev : IsUnlink(x, f, l) \/ IsDelete(x, f) => x \in B
        /\ \A x \in Ev : IsLink(x, f, l) => x \in A
    BY DEF LinksOf, GonesOf, Gone
  <2>1. \A x \in Cached(f) : x.id = f /\ x \in Ev
    BY <1>1, <1>4, QueueTypes DEF PushEffect, TypeInv, FitsInv
  <2>2. Meets(A, Cached(f)') => e \in A \/ Meets(A, Cached(f))
    BY PushNames
  <2>3. Meets(A, Cached(f)) => l \notin ns[f] /\ ~Meets(A, Queued(f))
    BY DEF CleanInv, OnceInv
  <2>4. ASSUME Meets(A, Cached(f)') PROVE e \notin B
    <3>1. CASE e.type = "DELETE"
      <4>1. Cached(f)' \subseteq {e}
        BY <1>4, <3>1 DEF PushEffect, Grows, Merges, Cancels, Drops, Replaces
      <4> QED
        BY <2>0, <2>4, <3>1, <4>1 DEF Meets, IsLink
    <3>2. CASE IsUnlink(e, f, l)
      <4>1. e \notin A
        BY <2>0, <3>2 DEF IsUnlink, IsLink
      <4>2. Meets(A, Cached(f))
        BY <2>2, <2>4, <4>1
      <4>3. Changes(List(pool, f), e, List(pool, f)') /\ List(pool, f) \in Seq(Ev)
        BY <1>4 DEF PushEffect
      <4>4. Once(List(pool, f), A)
        BY DEF CleanInv, OnceInv
      <4>5. Meets(A, ToSet(List(pool, f))) /\ \A x \in ToSet(List(pool, f)) : x.id = f
        BY <2>1, <4>2 DEF Cached
      <4>6. ~Meets(A, ToSet(List(pool, f)'))
        BY <1>1, <3>2, <4>3, <4>4, <4>5, CancelsAll
      <4> QED
        BY <2>4, <4>6 DEF Cached
    <3> QED
      BY <2>0, <3>1, <3>2 DEF IsDelete
  <2>5. ASSUME Meets(B, Cached(f)) \/ e \in B
        PROVE  Meets(B, Cached(f)') \/ (l \notin ns[f] /\ ~Meets(A, Queued(f)))
    <3>0. PICK b \in Cached(f) \cup {e} : b \in B
      BY <2>5 DEF Meets
    <3>1. b.type \in {"UNLINK", "DELETE"} /\ (b.type = "UNLINK" => b.link = l)
      BY <2>0, <3>0 DEF IsUnlink, IsDelete
    <3>2. CASE b \in Cached(f)'
      BY <3>0, <3>2 DEF Meets
    <3>3. CASE Drops(Cached(f), e, Cached(f)')
      <4>1. ns[f] = {} /\ Queued(f) = {}
        BY <1>4, <3>3, DropFacts
      <4> QED
        BY <4>1 DEF Meets
    <3>4. CASE Replaces(Cached(f), e, Cached(f)')
      <4>1. e \in B /\ e \in Cached(f)'
        BY <1>1, <1>4, <2>0, <3>4 DEF Replaces, IsDelete
      <4> QED
        BY <4>1 DEF Meets
    <3>5. CASE Cancels(Cached(f), e, Cached(f)') /\ b \notin Cached(f)'
      <4>1. b = e /\ e.link = l
        BY <3>0, <3>1, <3>5 DEF Cancels
      <4>2. Meets(A, Cached(f))
        <5>1. PICK x \in Cached(f) : x.type = "LINK" /\ x.link = l
          BY <3>5, <4>1 DEF Cancels
        <5>2. x \in A
          BY <2>0, <2>1, <5>1 DEF IsLink
        <5> QED
          BY <5>2 DEF Meets
      <4> QED
        BY <2>3, <4>2
    <3>6. CASE (Grows(Cached(f), e, Cached(f)') \/ Merges(Cached(f), e, Cached(f)'))
               /\ b \notin Cached(f)'
      BY <3>0, <3>1, <3>6 DEF Grows, Merges
    <3> QED
      BY <1>4, <3>2, <3>3, <3>4, <3>5, <3>6 DEF PushEffect
  <2>6. Meets(B, Coming) => e \in B \/ Meets(B, Coming')
    BY <1>1 DEF Meets
  <2> HIDE DEF A, B
  <2>7. Settled(f, A, B)'
    <3>1. \/ Meets(B, Cached(e.id)) \/ e \in B => Meets(B, Cached(e.id)')
          \/ ~Meets(A, Queued(e.id))
      BY <1>4, <2>5
    <3> QED
      BY <1>1, <1>2, <1>4, <2>2, <2>4, <3>1, PushSettles
  <2>8. l \in ns[f] => Owed(f, B)'
    BY <1>1, <1>2, <2>5, <2>6 DEF Owed
  <2> QED
    BY <2>7, <2>8 DEF A, B
<1> QED
  BY <1>3, <1>4

\* A DELETE is lost only with a file that the database has not seen.
LEMMA PushKeepsDead ==
    ASSUME NameInv, CleanInv, NEW e, PushStep(e), PushEffect(e)
    PROVE  DeadInv'
<1>1. /\ Coming = {e} \cup Coming' /\ (\A i : Queued(i)' = Queued(i))
      /\ entries' = entries /\ links' = links /\ e \in Ev /\ TypeInv
  BY DEF PushEffect, PushStep, fs, db, NameInv
<1> SUFFICES ASSUME NEW f \in File, links[f] = {}
             PROVE  /\ f \in entries => Owed(f, DeletesOf(f))'
                    /\ Settled(f, MakesOf(f), DeletesOf(f))'
  BY <1>1 DEF DeadInv
<1> DEFINE A == MakesOf(f)
           B == DeletesOf(f)
<1>2. (f \in entries => Owed(f, B)) /\ Settled(f, A, B)
  BY DEF CleanInv, DeadInv
<1>3. CASE f # e.id
  <2>1. e \notin B
    BY <1>3 DEF DeletesOf, IsDelete
  <2>2. Settled(f, A, B)' /\ (Owed(f, B) => Owed(f, B)')
    BY <1>1, <1>2, <1>3, <2>1, PushSettlesOthers
  <2> QED
    BY <1>2, <2>2
<1>4. CASE f = e.id
  <2>0. /\ \A x \in A : x \in Ev /\ Makes(x, f)
        /\ \A x \in B : x \in Ev /\ IsDelete(x, f)
        /\ \A x \in Ev : IsDelete(x, f) => x \in B
        /\ \A x \in Ev : Makes(x, f) => x \in A
    BY DEF MakesOf, DeletesOf
  <2>1. \A x \in Cached(f) : x.id = f /\ x \in Ev
    BY <1>1, <1>4, QueueTypes DEF PushEffect, TypeInv, FitsInv
  <2>2. ASSUME Meets(A, Cached(f)') PROVE e \in A \/ Meets(A, Cached(f))
    <3>1. PICK y \in Cached(f)' : y \in A
      BY <2>2 DEF Meets
    <3>2. \/ y \in Cached(f) \/ y = e
          \/ \E x \in Cached(f) : x.type = y.type /\ y.type \in {"UPSERT", "XATTR"}
      BY <1>1, <1>4, PushOrigin
    <3>3. CASE \E x \in Cached(f) : x.type = y.type /\ y.type \in {"UPSERT", "XATTR"}
      <4>1. PICK x \in Cached(f) : x.type = y.type
        BY <3>3
      <4>2. x \in A
        BY <2>0, <2>1, <3>1, <4>1 DEF Makes
      <4> QED
        BY <4>2 DEF Meets
    <3> QED
      BY <3>1, <3>2, <3>3 DEF Meets
  <2>4. ASSUME Meets(A, Cached(f)') PROVE e \notin B
    <3>1. CASE e.type = "DELETE"
      <4>1. Cached(f)' \subseteq {e}
        BY <1>4, <3>1 DEF PushEffect, Grows, Merges, Cancels, Drops, Replaces
      <4> QED
        BY <2>0, <2>4, <3>1, <4>1 DEF Meets, Makes
    <3> QED
      BY <2>0, <3>1 DEF IsDelete
  <2>5. ASSUME Meets(B, Cached(f)) \/ e \in B
        PROVE  Meets(B, Cached(f)') \/ (f \notin entries /\ ~Meets(A, Queued(f)))
    <3>0. PICK b \in Cached(f) \cup {e} : b \in B
      BY <2>5 DEF Meets
    <3>1. b.type = "DELETE"
      BY <2>0, <3>0 DEF IsDelete
    <3>2. CASE b \in Cached(f)'
      BY <3>0, <3>2 DEF Meets
    <3>3. CASE Drops(Cached(f), e, Cached(f)')
      <4>1. f \notin entries /\ Queued(f) = {}
        BY <1>4, <3>3, DropFacts
      <4> QED
        BY <4>1 DEF Meets
    <3>4. CASE Replaces(Cached(f), e, Cached(f)')
      <4>1. e \in B /\ e \in Cached(f)'
        BY <1>1, <1>4, <2>0, <3>4 DEF Replaces, IsDelete
      <4> QED
        BY <4>1 DEF Meets
    <3>5. CASE ~Drops(Cached(f), e, Cached(f)') /\ ~Replaces(Cached(f), e, Cached(f)')
      <4>1. b \in Cached(f)'
        BY <1>4, <3>0, <3>1, <3>5 DEF PushEffect, Grows, Merges, Cancels
      <4> QED
        BY <3>2, <4>1
    <3> QED
      BY <3>3, <3>4, <3>5
  <2>6. Meets(B, Coming) => e \in B \/ Meets(B, Coming')
    BY <1>1 DEF Meets
  <2> HIDE DEF A, B
  <2>7. Settled(f, A, B)'
    <3>1. \/ Meets(B, Cached(e.id)) \/ e \in B => Meets(B, Cached(e.id)')
          \/ ~Meets(A, Queued(e.id))
      BY <1>4, <2>5
    <3> QED
      BY <1>1, <1>2, <1>4, <2>2, <2>4, <3>1, PushSettles
  <2>8. f \in entries => Owed(f, B)'
    BY <1>1, <1>2, <2>5, <2>6 DEF Owed
  <2> QED
    BY <2>7, <2>8 DEF A, B
<1> QED
  BY <1>3, <1>4

\* A push keeps what the database will be told.
LEMMA PushKeepsClean ==
    ASSUME NameInv, CleanInv, NEW e, PushStep(e)
    PROVE  CleanInv'
<1>1. PushEffect(e)
  BY PushEffects DEF NameInv
<1>2. had' = had /\ Coming' \subseteq Coming
  BY <1>1 DEF PushStep, PushEffect, fs
<1>3. DeleteInv'
  BY <1>2 DEF CleanInv, DeleteInv, Moved
<1> QED
  BY <1>1, <1>3, PushKeepsOnce, PushKeepsNew, PushKeepsGone, PushKeepsDead DEF CleanInv

\* A flush keeps the order of what the database will be told.
LEMMA FlushKeepsClean ==
    ASSUME NameInv, CleanInv, Flush
    PROVE  CleanInv'
<1>1. FlushEffect /\ TypeInv
  BY FlushEffects DEF NameInv
<1>2. /\ \A i \in Id : sent'[i] = sent[i] \o List(pool, i)
      /\ \A i \in Id : Queued(i)' = Queued(i) \cup Cached(i)
      /\ \A i : List(pool, i)' = <<>> /\ Cached(i)' = {}
      /\ links' = links /\ had' = had /\ fsevents' = fsevents /\ Coming' = Coming
      /\ entries' = entries /\ ns' = ns
  BY <1>1 DEF FlushEffect, fs, db
<1>3. \A f \in File : f \in Id
  BY DEF Id
<1>4. \A A, f : f \in Id => (Meets(A, Queued(f)') <=> Meets(A, Queued(f)) \/ Meets(A, Cached(f)))
  BY <1>2 DEF Meets
<1>5. OnceInv'
  <2> SUFFICES ASSUME NEW f \in File, NEW l \in Link
      PROVE  /\ Once(fsevents, LinksOf(f, l))' /\ Once(List(pool, f), LinksOf(f, l))'
             /\ Meets(LinksOf(f, l), Coming)' =>
                  /\ l \notin ns'[f]
                  /\ ~Meets(LinksOf(f, l), Queued(f))' /\ ~Meets(LinksOf(f, l), Cached(f))'
             /\ Meets(LinksOf(f, l), Cached(f))' =>
                  l \notin ns'[f] /\ ~Meets(LinksOf(f, l), Queued(f))'
             /\ l \in ns'[f] => l \in had'[f]
    BY DEF OnceInv
  <2> DEFINE A == LinksOf(f, l)
  <2>1. /\ Once(fsevents, A) /\ (l \in ns[f] => l \in had[f])
        /\ Meets(A, Coming) => l \notin ns[f] /\ ~Meets(A, Queued(f)) /\ ~Meets(A, Cached(f))
    BY DEF CleanInv, OnceInv
  <2>2. Meets(A, Queued(f)') <=> Meets(A, Queued(f)) \/ Meets(A, Cached(f))
    BY <1>3, <1>4
  <2>3. Once(List(pool, f)', A) /\ ~Meets(A, Cached(f)')
    BY <1>2, NothingMeets
  <2> HIDE DEF A
  <2>4. /\ Once(fsevents', A) /\ (l \in ns'[f] => l \in had'[f])
        /\ Meets(A, Coming') =>
              l \notin ns'[f] /\ ~Meets(A, Queued(f)') /\ ~Meets(A, Cached(f)')
    BY <1>2, <2>1, <2>2, <2>3
  <2> QED
    BY <2>3, <2>4 DEF A
<1>6. NewInv'
  BY <1>2, <1>3, NothingMeets DEF CleanInv, NewInv
<1>7. DeleteInv'
  BY <1>2 DEF CleanInv, DeleteInv, Moved
<1>8. ASSUME NEW f \in File, NEW A, NEW B, Settled(f, A, B)
      PROVE  Settled(f, A, B)'
  <2>1. sent[f] \in Seq(Ev) /\ List(pool, f) \in Seq(Ev) /\ sent'[f] = sent[f] \o List(pool, f)
    BY <1>1, <1>2, <1>3, QueueTypes
  <2>2. CASE Meets(B, Coming)
    BY <1>2, <1>8, <2>2, NothingMeets DEF Settled
  <2>3. CASE ~Meets(B, Coming)
    <3>1. ~Meets(A, ToSet(List(pool, f)))
      BY <1>8, <2>3 DEF Settled, Cached
    <3>2. Closed(sent[f], A, B) \/ Meets(B, ToSet(List(pool, f)))
      BY <1>8, <2>3 DEF Settled, Cached
    <3>3. Closed(sent'[f], A, B)
      BY <2>1, <3>1, <3>2, ClosedConcat
    <3> QED
      BY <1>2, <1>8, <3>3, NothingMeets DEF Settled
  <2> QED
    BY <2>2, <2>3
<1>9. \A f \in File : \A B : Owed(f, B) => Owed(f, B)'
  BY <1>2, <1>3, <1>4 DEF Owed
<1>10. GoneInv'
  <2> SUFFICES ASSUME NEW f \in File, NEW l \in Link, l \notin links[f]
               PROVE  /\ l \in ns[f] => Owed(f, GonesOf(f, l))'
                      /\ Settled(f, LinksOf(f, l), GonesOf(f, l))'
    BY <1>2 DEF GoneInv
  <2>1. /\ l \in ns[f] => Owed(f, GonesOf(f, l))
        /\ Settled(f, LinksOf(f, l), GonesOf(f, l))
    BY DEF CleanInv, GoneInv
  <2> QED
    BY <1>8, <1>9, <2>1
<1>11. DeadInv'
  <2> SUFFICES ASSUME NEW f \in File, links[f] = {}
               PROVE  /\ f \in entries => Owed(f, DeletesOf(f))'
                      /\ Settled(f, MakesOf(f), DeletesOf(f))'
    BY <1>2 DEF DeadInv
  <2>1. /\ f \in entries => Owed(f, DeletesOf(f))
        /\ Settled(f, MakesOf(f), DeletesOf(f))
    BY DEF CleanInv, DeadInv
  <2> QED
    BY <1>8, <1>9, <2>1
<1> QED
  BY <1>5, <1>6, <1>7, <1>10, <1>11 DEF CleanInv

\* A worker takes e: what is settled stays so, and what e asks for is owed.
LEMMA TakeSettles ==
    ASSUME TypeInv, NEW id, NEW e, TakeStep(id, e), NEW f \in File, NEW A, NEW B,
           Settled(f, A, B)
    PROVE  /\ Settled(f, A, B)'
           /\ f = id /\ e \in A => Owed(f, B)'
           /\ Owed(f, B) => Owed(f, B)' \/ (f = id /\ e \in B)
<1>1. /\ \A i \in Id : i # id => sent'[i] = sent[i]
      /\ fsevents' = fsevents /\ Coming' = Coming /\ \A i : Cached(i)' = Cached(i)
      /\ id \in Id /\ sent[id] \in Seq(Ev) /\ sent[id] # <<>> /\ sent'[id] = Tail(sent[id])
      /\ e = Head(sent[id]) /\ Queued(id) = {e} \cup Queued(id)'
      /\ \A i \in Id : i # id => Queued(i)' = Queued(i)
  BY DEF TakeStep
<1>2. f \in Id
  BY DEF Id
<1>3. CASE f # id
  BY <1>1, <1>2, <1>3 DEF Settled, Owed
<1>4. CASE f = id
  <2>1. Closed(sent[f], A, B) =>
          Closed(sent'[f], A, B) /\ (e \in A => Meets(B, Queued(f)'))
    BY <1>1, <1>4, ClosedTail DEF Queued
  <2>2. Meets(B, Queued(f)) => Meets(B, Queued(f)') \/ e \in B
    BY <1>1, <1>4 DEF Meets
  <2> QED
    BY <1>1, <1>4, <2>1, <2>2 DEF Settled, Owed
<1> QED
  BY <1>3, <1>4

\* The worker processes e, or skips it and does not change the database.
LEMMA TakeKeepsClean ==
    ASSUME NameInv, CleanInv, NEW id \in Id, Process(id) \/ Skip(id)
    PROVE  CleanInv'
<1> DEFINE e == Head(sent[id])
<1>1. TakeStep(id, e) /\ TypeInv
  BY TakeSteps DEF NameInv
<1>2. \/ Mongo(e)
      \/ e.enrich # {} /\ entries' = entries /\ ns' = ns
  BY DEF Process, Skip, Stale, db
<1> HIDE DEF e
<1>3. /\ links' = links /\ had' = had /\ fsevents' = fsevents /\ Coming' = Coming
      /\ (\A i : List(pool, i)' = List(pool, i) /\ Cached(i)' = Cached(i))
      /\ Queued(id) = {e} \cup Queued(id)'
      /\ (\A i \in Id : i # id => Queued(i)' = Queued(i))
      /\ e.id = id /\ e \in Ev /\ Fits(e)
  BY <1>1 DEF TakeStep, fs
<1>4. Past(e) /\ DbInv /\ DbInv'
  <2>1. TypeInv'
    BY TakeKeepsTypes DEF NameInv
  <2> QED
    BY <1>3, <2>1 DEF NameInv, HistoryInv, TypeInv
<1>5. \A f \in File : f \in Id
  BY DEF Id
\* What changes in the database.
<1>6. /\ \A f \in File : f # id => ns'[f] = ns[f] /\ (f \in entries' <=> f \in entries)
      /\ \A f \in File : \A l : l \in ns'[f] => l \in ns[f] \/ IsLink(e, f, l)
      /\ \A f \in File : f \in entries' => f \in entries \/ Makes(e, f)
      /\ \A f \in File : \A l : Gone(e, f, l) => l \notin ns'[f]
      /\ \A f \in File : IsDelete(e, f) => f \notin entries'
  <2>1. CASE e.enrich # {} /\ entries' = entries /\ ns' = ns
    BY <1>3, <2>1 DEF Fits, Gone, IsUnlink, IsDelete
  <2>2. CASE Mongo(e)
    <3>1. e.type \in {"LINK", "UNLINK", "DELETE", "UPSERT", "XATTR"}
      BY <1>3 DEF Ev, Fsevent
    <3>2. /\ \A f \in File : f # e.id => ns'[f] = ns[f] /\ (f \in entries' <=> f \in entries)
          /\ e.type = "LINK" => /\ entries' = entries \cup {e.id}
                                /\ ns'[e.id] = ns[e.id] \cup {e.link}
          /\ e.type = "UNLINK" => entries' = entries /\ ns'[e.id] = ns[e.id] \ {e.link}
          /\ e.type = "DELETE" => entries' = entries \ {e.id} /\ ns'[e.id] = {}
          /\ e.type = "UPSERT" => entries' = entries \cup ({e.id} \cap File) /\ ns' = ns
          /\ e.type = "XATTR" => entries' = entries /\ ns' = ns
      BY <1>3, <1>4, <2>2, MongoFacts
    <3> QED
      BY <1>3, <3>1, <3>2 DEF IsLink, Makes, Gone, IsUnlink, IsDelete
  <2> QED
    BY <1>2, <2>1, <2>2
<1>7. \A A, i : i \in Id => (Meets(A, Queued(i)') => Meets(A, Queued(i)))
  BY <1>3 DEF Meets
<1>8. OnceInv'
  <2> SUFFICES ASSUME NEW f \in File, NEW l \in Link
      PROVE  /\ Once(fsevents, LinksOf(f, l))' /\ Once(List(pool, f), LinksOf(f, l))'
             /\ Meets(LinksOf(f, l), Coming)' =>
                  /\ l \notin ns'[f]
                  /\ ~Meets(LinksOf(f, l), Queued(f))' /\ ~Meets(LinksOf(f, l), Cached(f))'
             /\ Meets(LinksOf(f, l), Cached(f))' =>
                  l \notin ns'[f] /\ ~Meets(LinksOf(f, l), Queued(f))'
             /\ l \in ns'[f] => l \in had'[f]
    BY DEF OnceInv
  <2> DEFINE A == LinksOf(f, l)
  <2>1. /\ Once(fsevents, A) /\ Once(List(pool, f), A)
        /\ Meets(A, Coming) => l \notin ns[f] /\ ~Meets(A, Queued(f)) /\ ~Meets(A, Cached(f))
        /\ Meets(A, Cached(f)) => l \notin ns[f] /\ ~Meets(A, Queued(f))
        /\ l \in ns[f] => l \in had[f]
    BY DEF CleanInv, OnceInv
  <2>2. ASSUME IsLink(e, f, l) PROVE Meets(A, Queued(f)) /\ l \in had[f]
    <3>1. e \in A /\ e \in Queued(f)
      BY <1>3, <2>2 DEF LinksOf, IsLink
    <3> QED
      BY <1>4, <2>2, <3>1 DEF Meets, Past, IsLink
  <2>3. l \in ns'[f] => l \in ns[f] \/ IsLink(e, f, l)
    BY <1>6
  <2>4. Meets(A, Queued(f)') => Meets(A, Queued(f))
    BY <1>5, <1>7
  <2> HIDE DEF A
  <2>5. /\ Once(fsevents', A) /\ Once(List(pool, f)', A)
        /\ Meets(A, Coming') =>
              l \notin ns'[f] /\ ~Meets(A, Queued(f)') /\ ~Meets(A, Cached(f)')
        /\ Meets(A, Cached(f)') => l \notin ns'[f] /\ ~Meets(A, Queued(f)')
        /\ l \in ns'[f] => l \in had'[f]
    BY <1>3, <2>1, <2>2, <2>3, <2>4
  <2> QED
    BY <2>5 DEF A
<1>9. NewInv'
  <2> SUFFICES ASSUME NEW f \in File
      PROVE  /\ had'[f] = {} => f \notin entries'
             /\ \A l \in Link : had'[f] \subseteq {l} =>
                  /\ Meets(LinksOf(f, l), Coming)' =>
                        /\ f \notin entries' /\ Queued(f)' = {} /\ Cached(f)' = {}
                        /\ First(fsevents, LinksOf(f, l), f)'
                  /\ Meets(LinksOf(f, l), Cached(f))' => f \notin entries' /\ Queued(f)' = {}
    BY DEF NewInv
  <2>1. CASE f = id
    <3>1. had[f] # {} /\ Queued(f) # {}
      BY <1>3, <1>4, <2>1 DEF Past
    <3>2. \A l \in Link : had[f] \subseteq {l} =>
            ~Meets(LinksOf(f, l), Coming) /\ ~Meets(LinksOf(f, l), Cached(f))
      BY <3>1 DEF CleanInv, NewInv
    <3> QED
      BY <1>3, <3>1, <3>2
  <2>2. CASE f # id
    BY <1>3, <1>5, <1>6, <2>2 DEF CleanInv, NewInv
  <2> QED
    BY <2>1, <2>2
<1>10. DeleteInv'
  BY <1>3 DEF CleanInv, DeleteInv, Moved
<1>11. GoneInv'
  <2> SUFFICES ASSUME NEW f \in File, NEW l \in Link, l \notin links[f]
               PROVE  /\ l \in ns'[f] => Owed(f, GonesOf(f, l))'
                      /\ Settled(f, LinksOf(f, l), GonesOf(f, l))'
    BY <1>3 DEF GoneInv
  <2> DEFINE A == LinksOf(f, l)
             B == GonesOf(f, l)
  <2>1. (l \in ns[f] => Owed(f, B)) /\ Settled(f, A, B)
    BY DEF CleanInv, GoneInv
  <2>2. /\ Settled(f, A, B)'
        /\ f = id /\ e \in A => Owed(f, B)'
        /\ Owed(f, B) => Owed(f, B)' \/ (f = id /\ e \in B)
    BY <1>1, <2>1, TakeSettles
  <2>3. /\ l \in ns'[f] => l \in ns[f] \/ (f = id /\ e \in A)
        /\ e \in B => l \notin ns'[f]
    BY <1>3, <1>6 DEF LinksOf, GonesOf, IsLink
  <2> QED
    BY <2>1, <2>2, <2>3
<1>12. DeadInv'
  <2> SUFFICES ASSUME NEW f \in File, links[f] = {}
               PROVE  /\ f \in entries' => Owed(f, DeletesOf(f))'
                      /\ Settled(f, MakesOf(f), DeletesOf(f))'
    BY <1>3 DEF DeadInv
  <2> DEFINE A == MakesOf(f)
             B == DeletesOf(f)
  <2>1. (f \in entries => Owed(f, B)) /\ Settled(f, A, B)
    BY DEF CleanInv, DeadInv
  <2>2. /\ Settled(f, A, B)'
        /\ f = id /\ e \in A => Owed(f, B)'
        /\ Owed(f, B) => Owed(f, B)' \/ (f = id /\ e \in B)
    BY <1>1, <2>1, TakeSettles
  <2>3. /\ f \in entries' => f \in entries \/ (f = id /\ e \in A)
        /\ e \in B => f \notin entries'
    BY <1>3, <1>6 DEF MakesOf, DeletesOf, Makes
  <2> QED
    BY <2>1, <2>2, <2>3
<1> QED
  BY <1>8, <1>9, <1>10, <1>11, <1>12 DEF CleanInv

\* A step that changes neither the lists nor what they are about.
LEMMA SameKeepsClean ==
    ASSUME CleanInv, links' = links, had' = had, fsevents' = fsevents, sent' = sent,
           entries' = entries, ns' = ns, \A i : List(pool, i)' = List(pool, i)
    PROVE  CleanInv'
<1>1. Coming' = Coming /\ \A i : Cached(i)' = Cached(i) /\ Queued(i)' = Queued(i)
  BY DEF Coming, Cached, Queued
<1>2. OnceInv'
  BY <1>1 DEF CleanInv, OnceInv
<1>3. NewInv' /\ DeleteInv'
  BY <1>1 DEF CleanInv, NewInv, DeleteInv, Moved
<1>4. GoneInv' /\ DeadInv'
  BY <1>1 DEF CleanInv, GoneInv, DeadInv, Settled, Owed
<1> QED
  BY <1>2, <1>3, <1>4 DEF CleanInv

MirrorInv == NameInv /\ (crashes = 0 => CleanInv)

\* Every step keeps the invariant.
LEMMA MirrorStep ==
    ASSUME ~Relink, ~DeleteMoved, MirrorInv, [Next]_vars
    PROVE  MirrorInv'
<1>0. NameInv' /\ NameInv /\ TypeInv
  BY NameStep DEF MirrorInv, NameInv
<1> SUFFICES ASSUME crashes' = 0 PROVE CleanInv'
  BY <1>0 DEF MirrorInv
<1>1. CASE UserStep
  <2>1. PICK events : LogsRecord(events) /\ Honest(events)
    BY <1>0, <1>1, UserHonest DEF NameInv, TypeInv, HistoryInv
  <2>2. crashes = 0
    BY <2>1 DEF LogsRecord, Logged
  <2> QED
    BY <1>0, <2>1, <2>2, LogKeepsClean DEF MirrorInv
<1>2. CASE PushDeduplicated \/ PushNew
  <2>1. PushStep(Head(fsevents))
    BY <1>2, PushSteps
  <2>2. crashes = 0
    BY <2>1 DEF PushStep, changelog
  <2> QED
    BY <1>0, <2>1, <2>2, PushKeepsClean DEF MirrorInv
<1>3. CASE PushFull
  <2>1. /\ UNCHANGED <<fs, stale, fsevents, changelog, sent, db>>
        /\ \A i : List(pool, i)' = List(pool, i)
    BY <1>0, <1>3, FullKeepsTypes
  <2> QED
    BY <2>1, SameKeepsClean DEF MirrorInv, fs, db, changelog
<1>4. CASE Flush
  BY <1>0, <1>4, FlushKeepsClean DEF MirrorInv, Flush
<1>5. ASSUME NEW i \in Id, Process(i) \/ Skip(i) PROVE CleanInv'
  <2>1. crashes = 0
    BY <1>5 DEF Process, Skip, changelog
  <2> QED
    BY <1>0, <1>5, <2>1, TakeKeepsClean DEF MirrorInv
<1>6. CASE Ack
  <2>1. AckEffect
    BY <1>0, <1>6, AckKeepsTypes
  <2> QED
    BY <2>1, SameKeepsClean DEF MirrorInv, AckEffect, fs, db
<1>7. CASE Crash
  <2>1. crashes' > 0
    BY <1>0, <1>7, CrashKeepsTypes DEF CrashEffect
  <2> QED
    BY <2>1
<1>8. CASE UNCHANGED vars
  <2>1. UNCHANGED <<links, had, fsevents, crashes, pool, sent, entries, ns>>
    BY <1>8 DEF vars, fs, changelog, db
  <2>2. \A i : List(pool, i)' = List(pool, i)
    BY <2>1
  <2> QED
    BY <2>1, <2>2, SameKeepsClean DEF MirrorInv
<1> QED
  BY <1>1, <1>2, <1>3, <1>4, <1>5, <1>6, <1>7, <1>8 DEF Next, RbhStep

\* Nothing is left anywhere.
LEMMA CaughtUpFacts ==
    ASSUME TypeInv, CaughtUp
    PROVE  /\ fsevents = <<>> /\ Coming = {}
           /\ \A i : List(pool, i) = <<>> /\ Cached(i) = {}
           /\ \A i \in Id : sent[i] = <<>> /\ Queued(i) = {}
<1>1. fsevents = <<>> /\ pool.count = 0 /\ \A i \in Id : sent[i] = <<>>
  BY DEF CaughtUp
<1>2. IsFiniteSet(DOMAIN pool.events) /\ pool.count = Cardinality(DOMAIN pool.events)
  BY ConsistentParts DEF TypeInv, QueueInv
<1>3. DOMAIN pool.events = {}
  BY <1>1, <1>2, FS_EmptySet
<1>4. \A i : List(pool, i) = <<>>
  BY <1>3 DEF List, Holds
<1> QED
  BY <1>1, <1>4, ToSetEmpty DEF Coming, Cached, Queued

\* What the invariant says once nothing is on its way.
LEMMA MirrorImplies == MirrorInv => NamesMirrored
<1> SUFFICES ASSUME MirrorInv, CaughtUp
    PROVE  /\ \A f \in File : Alive(f) => f \in entries /\ links[f] \subseteq ns[f]
           /\ crashes = 0 => entries = {f \in File : Alive(f)} /\ ns = links
  BY DEF NamesMirrored
<1>1. TypeInv /\ NamesInv
  BY DEF MirrorInv, NameInv
<1>2. /\ Coming = {} /\ (\A i : Cached(i) = {}) /\ \A i \in Id : Queued(i) = {}
  BY <1>1, CaughtUpFacts
<1>3. \A f \in File : \A l \in links[f] : f \in entries /\ l \in ns[f]
  BY <1>1, <1>2 DEF NamesInv, Id
<1>4. \A f \in File : Alive(f) => f \in entries /\ links[f] \subseteq ns[f]
  BY <1>3 DEF Alive
<1>5. ASSUME crashes = 0 PROVE entries = {f \in File : Alive(f)} /\ ns = links
  <2>0. CleanInv /\ entries \subseteq File /\ ns \in [File -> SUBSET Link]
        /\ links \in [File -> SUBSET Link]
    BY <1>1, <1>5 DEF MirrorInv, TypeInv, DbInv, FsInv
  <2>1. \A f \in File : \A B : ~Owed(f, B)
    BY <1>2, NothingMeets DEF Owed, Id
  <2>2. \A f \in File : f \in entries => Alive(f)
    BY <2>0, <2>1 DEF CleanInv, DeadInv, Alive
  <2>3. ASSUME NEW f \in File PROVE ns[f] = links[f]
    <3>1. \A l \in Link : l \notin links[f] => l \notin ns[f]
      BY <2>0, <2>1 DEF CleanInv, GoneInv
    <3>2. ns[f] \subseteq Link
      BY <2>0
    <3> QED
      BY <1>3, <3>1, <3>2
  <2>4. ns = links
    BY <2>0, <2>3
  <2> QED
    BY <1>4, <2>0, <2>2, <2>4
<1> QED
  BY <1>4, <1>5

\* Once rbh-fsevents has caught up, the database holds every file that exists
\* under all its names, and, as long as it was not killed, nothing else: whatever
\* the pool merged and cancelled, for any number of files, names, records and
\* crashes. A file does not get back a name it lost, and only a file that kept
\* its name all along is deleted.
THEOREM NamesAreMirrored ==
    ASSUME ~Relink, ~DeleteMoved
    PROVE  Spec => []NamesMirrored
<1>1. Init => MirrorInv
  BY NameInit, CleanInit DEF MirrorInv
<1>2. MirrorInv /\ [Next]_vars => MirrorInv'
  BY MirrorStep
<1> QED
  BY <1>1, <1>2, MirrorImplies, PTL DEF Spec

-----------------------------------------------------------------------------
(* Attributes: what the records say of them.                               *)

Reads(e, i, a) == e.id = i /\ a \in e.enrich

\* What changes is to be read again, but for what a file that is gone had, and
\* the link count of one that lost a name.
Tells(events) ==
    /\ \A f \in File : had'[f] = {} => stale'[f] \subseteq stale[f]
    /\ \A i \in Id : \A a \in stale'[i] \ stale[i] :
          \/ i \in File /\ (links'[i] = {} \/ (a = "nlink" /\ had'[i] # links'[i]))
          \/ \E e \in ToSet(events) : Reads(e, i, a)

\* When there is an fsevent of a file, a name that the file keeps is logged.
Grounded(events) ==
    \A f \in File, n \in 1 .. Len(events) : events[n].id = f /\ links'[f] # {} =>
        \E k \in links'[f] : k \in links[f] \/ \E m \in 1 .. n : IsLink(events[m], f, k)

\* What an operation changes.
LEMMA ChangedFacts ==
    ASSUME FsInv, NEW f \in File, NEW attrs, NEW dirs, dirs \subseteq Dir
    PROVE  /\ \A i \in Id : \A a \in Touches(f, attrs, dirs)[i] :
                (i = f /\ a \in attrs) \/ (i \in dirs /\ a = "time")
           /\ Changed(Touches(f, attrs, dirs)) =>
                \A i \in Id : \A a \in stale'[i] \ stale[i] :
                    (i = f /\ a \in attrs) \/ (i \in dirs /\ a = "time")
<1>1. f \notin dirs
  BY IdsAssumption
<1>2. \A i \in Id : \A a \in Touches(f, attrs, dirs)[i] :
        (i = f /\ a \in attrs) \/ (i \in dirs /\ a = "time")
  BY <1>1 DEF Touches
<1>3. ASSUME Changed(Touches(f, attrs, dirs)), NEW i \in Id, NEW a \in stale'[i] \ stale[i]
      PROVE  a \in Touches(f, attrs, dirs)[i]
  BY <1>3 DEF Changed
<1> QED
  BY <1>2, <1>3

\* A record that has everything read.
LEMMA PlainTells ==
    ASSUME NEW f \in File, had'[f] # {}, NEW attrs, NEW dirs, dirs \subseteq Dir,
           \A i \in Id : \A a \in stale'[i] \ stale[i] :
               (i = f /\ a \in attrs) \/ (i \in dirs /\ a = "time"),
           NEW events,
           \A a \in attrs : \E e \in ToSet(events) : Reads(e, f, a),
           \A d \in dirs : \E e \in ToSet(events) : Reads(e, d, "time")
    PROVE  Tells(events)
<1>1. \A g \in File : g \in Id /\ g \notin Dir
  BY IdsAssumption DEF Id
<1>2. \A g \in File : had'[g] = {} => stale'[g] \subseteq stale[g]
  BY <1>1
<1>3. \A i \in Id : \A a \in stale'[i] \ stale[i] : \E e \in ToSet(events) : Reads(e, i, a)
  OBVIOUS
<1> QED
  BY <1>2, <1>3 DEF Tells

\* The name that a file keeps is an old one, or the first fsevent of the file says it.
LEMMA Grounds ==
    ASSUME FsInv, links' \in [File -> SUBSET Link], NEW events,
           \A g \in File : \/ links'[g] = {} \/ \E k \in links'[g] : k \in links[g]
                           \/ \E k \in links'[g] : \A n \in 1 .. Len(events) :
                                 events[n].id = g => \E m \in 1 .. n : IsLink(events[m], g, k)
    PROVE  Grounded(events)
BY DEF Grounded

\* The record of Create has everything read.
LEMMA CreateTells ==
    ASSUME FsInv, NEW f \in File, NEW l \in Link, Create(f, l)
    PROVE  Tells(build_create_inode_events(f, l))
<1> DEFINE events == build_create_inode_events(f, l)
           attrs == Statx \cup {"lustre"}
           dirs == {Parent(l)}
<1>1. dirs \subseteq Dir
  BY ParentType
<1>2. \A i \in Id : \A a \in stale'[i] \ stale[i] :
        (i = f /\ a \in attrs) \/ (i \in dirs /\ a = "time")
  BY <1>1, ChangedFacts DEF Create
<1>3. had'[f] # {}
  BY DEF Create, Names, FsInv
<1>4. /\ events \in Seq(Ev)
      /\ ToSet(events) = {new_link_inode_event(f, l), build_enrich_xattr(f, {"lustre"}),
                          build_statx_event(f, Statx), update_parent_acmtime_event(Parent(l)),
                          update_parent_nb_children_event(Parent(l), 1)}
  BY CreateRecord
<1> HIDE DEF events
<1>6. \A a \in attrs : \E e \in ToSet(events) : Reads(e, f, a)
  BY <1>4, EventFields DEF Reads
<1>7. \A d \in dirs : \E e \in ToSet(events) : Reads(e, d, "time")
  BY <1>4, EventFields DEF Reads
<1> HIDE DEF attrs, dirs
<1>8. Tells(events)
  BY <1>1, <1>2, <1>3, <1>6, <1>7, PlainTells
<1> QED
  BY <1>8 DEF events

\* The record of Write has everything read.
LEMMA WriteTells ==
    ASSUME FsInv, LinksHad, NEW f \in File, Write(f)
    PROVE  Tells(build_statx_update_event(f))
<1> DEFINE events == build_statx_update_event(f)
           attrs == {"time", "size"}
           dirs == {}
<1>1. dirs \subseteq Dir
  OBVIOUS
<1>2. \A i \in Id : \A a \in stale'[i] \ stale[i] :
        (i = f /\ a \in attrs) \/ (i \in dirs /\ a = "time")
  BY <1>1, ChangedFacts DEF Write
<1>3. had'[f] # {}
  BY DEF Write, Alive, LinksHad
<1>4. /\ events \in Seq(Ev)
      /\ ToSet(events) = {build_statx_event(f, {"time", "size"}),
                          build_enrich_xattr(f, {"lustre"})}
  BY WriteRecord
<1> HIDE DEF events
<1>6. \A a \in attrs : \E e \in ToSet(events) : Reads(e, f, a)
  BY <1>4, EventFields DEF Reads
<1>7. \A d \in dirs : \E e \in ToSet(events) : Reads(e, d, "time")
  OBVIOUS
<1> HIDE DEF attrs, dirs
<1>8. Tells(events)
  BY <1>1, <1>2, <1>3, <1>6, <1>7, PlainTells
<1> QED
  BY <1>8 DEF events

\* The record of SetXattr has everything read.
LEMMA SetXattrTells ==
    ASSUME FsInv, LinksHad, NEW f \in File, SetXattr(f)
    PROVE  Tells(build_setxattr_event(f))
<1> DEFINE events == build_setxattr_event(f)
           attrs == {"time", "xattr"}
           dirs == {}
<1>1. dirs \subseteq Dir
  OBVIOUS
<1>2. \A i \in Id : \A a \in stale'[i] \ stale[i] :
        (i = f /\ a \in attrs) \/ (i \in dirs /\ a = "time")
  BY <1>1, ChangedFacts DEF SetXattr
<1>3. had'[f] # {}
  BY DEF SetXattr, Alive, LinksHad
<1>4. /\ events \in Seq(Ev)
      /\ ToSet(events) = {build_statx_event(f, {"time"}), build_enrich_xattr(f, {"xattr"}),
                          build_enrich_xattr(f, {"lustre"})}
  BY SetxattrRecord
<1> HIDE DEF events
<1>6. \A a \in attrs : \E e \in ToSet(events) : Reads(e, f, a)
  BY <1>4, EventFields DEF Reads
<1>7. \A d \in dirs : \E e \in ToSet(events) : Reads(e, d, "time")
  OBVIOUS
<1> HIDE DEF attrs, dirs
<1>8. Tells(events)
  BY <1>1, <1>2, <1>3, <1>6, <1>7, PlainTells
<1> QED
  BY <1>8 DEF events

\* The record of HardLink has everything read.
LEMMA HardLinkTells ==
    ASSUME FsInv, NEW f \in File, NEW l \in Link, HardLink(f, l)
    PROVE  Tells(build_hardlink_events(f, l))
<1> DEFINE events == build_hardlink_events(f, l)
           attrs == {"nlink"}
           dirs == {Parent(l)}
<1>1. dirs \subseteq Dir
  BY ParentType
<1>2. \A i \in Id : \A a \in stale'[i] \ stale[i] :
        (i = f /\ a \in attrs) \/ (i \in dirs /\ a = "time")
  BY <1>1, ChangedFacts DEF HardLink
<1>3. had'[f] # {}
  BY DEF HardLink, Names, FsInv
<1>4. /\ events \in Seq(Ev)
      /\ ToSet(events) = {new_link_inode_event(f, l), build_statx_event(f, Statx),
                          update_parent_acmtime_event(Parent(l)),
                          update_parent_nb_children_event(Parent(l), 1)}
  BY HardlinkRecord
<1> HIDE DEF events
<1>6. \A a \in attrs : \E e \in ToSet(events) : Reads(e, f, a)
  BY <1>4, EventFields DEF Reads, Statx
<1>7. \A d \in dirs : \E e \in ToSet(events) : Reads(e, d, "time")
  BY <1>4, EventFields DEF Reads
<1> HIDE DEF attrs, dirs
<1>8. Tells(events)
  BY <1>1, <1>2, <1>3, <1>6, <1>7, PlainTells
<1> QED
  BY <1>8 DEF events

\* The record of Unlink has everything read, but for the link count.
LEMMA UnlinkTells ==
    ASSUME FsInv, LinksHad, NEW f \in File, NEW l \in Link, Unlink(f, l)
    PROVE  Tells(build_unlink_events(f, l, links[f] = {l}))
<1> DEFINE events == build_unlink_events(f, l, links[f] = {l})
           attrs == {"nlink"}
           dirs == {Parent(l)}
           x == unlink_inode_event(f, l, links[f] = {l})
<1>0. \A g \in File : g \in Id /\ g \notin Dir
  BY IdsAssumption DEF Id
<1>1. dirs \subseteq Dir
  BY ParentType
<1>2. \A i \in Id : \A a \in stale'[i] \ stale[i] :
        (i = f /\ a \in attrs) \/ (i \in dirs /\ a = "time")
  BY <1>1, ChangedFacts DEF Unlink
<1>3. had'[f] # {} /\ had'[f] # links'[f]
  BY DEF Unlink, FsInv, LinksHad
<1>4. ToSet(events) = {x, update_parent_acmtime_event(Parent(l)),
                       update_parent_nb_children_event(Parent(l), -1)}
  BY UnlinkRecord
<1> HIDE DEF events, x
<1>6. \E e \in ToSet(events) : Reads(e, Parent(l), "time")
  BY <1>4, EventFields DEF Reads
<1>9. Tells(events)
  BY <1>0, <1>1, <1>2, <1>3, <1>6 DEF Tells
<1> QED
  BY <1>9 DEF events

\* The record of Rename has everything read.
LEMMA RenameTells ==
    ASSUME FsInv, NEW f \in File, NEW from \in Link, NEW to \in Link, Rename(f, from, to)
    PROVE  Tells(build_rename_events(f, from, to))
<1> DEFINE events == build_rename_events(f, from, to)
           attrs == {"time"}
           dirs == {Parent(from), Parent(to)}
<1>1. dirs \subseteq Dir
  BY ParentType
<1>2. \A i \in Id : \A a \in stale'[i] \ stale[i] :
        (i = f /\ a \in attrs) \/ (i \in dirs /\ a = "time")
  BY <1>1, ChangedFacts DEF Rename
<1>3. had'[f] # {}
  BY DEF Rename, Names, FsInv
<1>4. /\ build_statx_event(f, Statx) \in ToSet(events)
      /\ update_parent_acmtime_event(Parent(to)) \in ToSet(events)
      /\ update_parent_acmtime_event(Parent(from)) \in ToSet(events)
  BY RenameRecord
<1> HIDE DEF events
<1>6. \A a \in attrs : \E e \in ToSet(events) : Reads(e, f, a)
  BY <1>4, EventFields DEF Reads, Statx
<1>7. \A d \in dirs : \E e \in ToSet(events) : Reads(e, d, "time")
  BY <1>4, EventFields DEF Reads
<1> HIDE DEF attrs, dirs
<1>8. Tells(events)
  BY <1>1, <1>2, <1>3, <1>6, <1>7, PlainTells
<1> QED
  BY <1>8 DEF events

\* The record of RenameOver has everything read, but for the link count of the
\* file that loses its name.
LEMMA RenameOverTells ==
    ASSUME FsInv, LinksHad, NEW f \in File, NEW from \in Link, NEW to \in Link,
           NEW over \in File, RenameOver(f, from, to, over)
    PROVE  Tells(build_rename_over_events(f, from, to, over, links[over] = {to}))
<1> DEFINE events == build_rename_over_events(f, from, to, over, links[over] = {to})
           dirs == {Parent(from), Parent(to)}
           one == Touches(f, {"time"}, dirs)
           two == Touches(over, {"nlink"}, {})
<1>0. \A g \in File : g \in Id /\ g \notin Dir
  BY IdsAssumption DEF Id
<1>1. dirs \subseteq Dir
  BY ParentType
<1>2. \A i \in Id : stale'[i] = stale[i] \cup one[i] \cup two[i]
  BY DEF RenameOver
<1>3. /\ \A i \in Id : \A a \in one[i] : (i = f /\ a \in {"time"}) \/ (i \in dirs /\ a = "time")
      /\ \A i \in Id : \A a \in two[i] : (i = over /\ a \in {"nlink"}) \/ (i \in {} /\ a = "time")
  BY <1>1, ChangedFacts
<1>4. /\ build_statx_event(f, Statx) \in ToSet(events)
      /\ update_parent_acmtime_event(Parent(to)) \in ToSet(events)
      /\ update_parent_acmtime_event(Parent(from)) \in ToSet(events)
  BY RenameOverRecord
<1>5. /\ f # over /\ had'[f] # {} /\ had'[over] # {} /\ had'[over] # links'[over]
  BY DEF RenameOver, Names, FsInv, LinksHad
<1> HIDE DEF events, one, two
<1>6. Reads(build_statx_event(f, Statx), f, "time")
  BY EventFields DEF Reads, Statx
<1>7. \A d \in dirs : \E e \in ToSet(events) : Reads(e, d, "time")
  BY <1>4, EventFields DEF Reads
<1> HIDE DEF dirs
<1>8. \A i \in Id : \A a \in stale'[i] \ stale[i] :
        (i = f /\ a = "time") \/ (i \in dirs /\ a = "time") \/ (i = over /\ a = "nlink")
  BY <1>2, <1>3
<1>9. Tells(events)
  BY <1>0, <1>1, <1>4, <1>5, <1>6, <1>7, <1>8 DEF Tells
<1> QED
  BY <1>9 DEF events

\* The LINK of a rename comes first.
LEMMA RenameFirst ==
    ASSUME NEW f \in File, NEW from \in Link, NEW to \in Link
    PROVE  IsLink(build_rename_events(f, from, to)[1], f, to)
<1> DEFINE a == RenameTarget(f, to)
           x == update_parent_nb_children_event(Parent(to), 1)
           b == <<x>>
           c == RenameSource(f, from)
<1>1. x \in Ev
  <2>1. 1 \in Int /\ Parent(to) \in Id
    BY ParentType
  <2> QED
    BY <2>1, EventFacts
<1>2. build_rename_events(f, from, to) = (a \o b) \o c
  BY DEF build_rename_events
<1>3. a \in Seq(Ev) /\ c \in Seq(Ev) /\ Len(a) = 3 /\ IsLink(a[1], f, to)
  BY RenameParts, EventFields DEF IsLink
<1> HIDE DEF a, c, x
<1>5. b \in Seq(Ev)
  BY <1>1, ToSetOne
<1> HIDE DEF b
<1> DEFINE d == a \o b
<1>6. /\ d \in Seq(Ev) /\ Len(d) >= 1 /\ d[1] = a[1]
  <2>1. d \in Seq(Ev) /\ Len(a) \in Nat /\ Len(b) \in Nat /\ Len(d) = Len(a) + Len(b)
        /\ \A n \in 1 .. Len(a) : d[n] = a[n]
    <3>1. a \in Seq(Ev) /\ b \in Seq(Ev)
      BY <1>3, <1>5
    <3> QED
      BY <3>1, ConcatFacts
  <2> QED
    BY <2>1, <1>3
<1> HIDE DEF d
<1>8. (d \o c)[1] = d[1]
  <2>1. \A n \in 1 .. Len(d) : (d \o c)[n] = d[n]
    <3>1. d \in Seq(Ev) /\ c \in Seq(Ev)
      BY <1>3, <1>6
    <3> QED
      BY <3>1, ConcatFacts
  <2>2. Len(d) \in Nat
    BY <1>6, Elements
  <2> QED
    BY <2>1, <2>2, <1>6
<1> QED
  BY <1>2, <1>3, <1>6, <1>8 DEF d

\* In a rename over a file, the LINK comes right after the fsevent of that file.
LEMMA RenameOverFirst ==
    ASSUME NEW f \in File, NEW from \in Link, NEW to \in Link, NEW over \in File, NEW last
    PROVE  /\ IsLink(build_rename_over_events(f, from, to, over, last)[2], f, to)
           /\ build_rename_over_events(f, from, to, over, last)[1].id = over
<1> DEFINE a == RenameTarget(f, to)
           x == unlink_inode_event(over, to, last)
           b == <<x>>
           c == RenameSource(f, from)
<1>1. x \in Ev /\ x.id = over
  <2>1. over \in Id
    BY DEF Id
  <2>2. x.id = over
    BY DEF unlink_inode_event, Event
  <2> QED
    BY <2>1, <2>2, EventFacts
<1>2. build_rename_over_events(f, from, to, over, last) = (b \o a) \o c
  BY DEF build_rename_over_events
<1>3. a \in Seq(Ev) /\ c \in Seq(Ev) /\ Len(a) = 3 /\ IsLink(a[1], f, to)
  BY RenameParts, EventFields DEF IsLink
<1> HIDE DEF a, c, x
<1>5. b \in Seq(Ev) /\ Len(b) = 1 /\ b[1] = x
  BY <1>1, ToSetOne
<1> HIDE DEF b
<1> DEFINE d == b \o a
<1>7. d \in Seq(Ev) /\ Len(d) = 4 /\ d[1] = x /\ d[2] = a[1]
  <2>1. /\ b \o a \in Seq(Ev) /\ Len(b \o a) = Len(b) + Len(a)
        /\ \A n \in 1 .. Len(b) : (b \o a)[n] = b[n]
        /\ \A n \in 1 .. Len(a) : (b \o a)[Len(b) + n] = a[n]
    <3>1. b \in Seq(Ev) /\ a \in Seq(Ev)
      BY <1>3, <1>5
    <3> QED
      BY <3>1, ConcatFacts
  <2>2. 1 \in 1 .. 1 /\ 1 \in 1 .. 3
    OBVIOUS
  <2>3. d[1] = b[1] /\ d[1 + 1] = a[1]
    BY <2>1, <2>2, <1>3, <1>5
  <2> QED
    BY <2>1, <2>3, <1>3, <1>5
<1> HIDE DEF d
<1>9. (d \o c)[1] = d[1] /\ (d \o c)[2] = d[2]
  <2>1. \A n \in 1 .. Len(d) : (d \o c)[n] = d[n]
    <3>1. d \in Seq(Ev) /\ c \in Seq(Ev)
      BY <1>3, <1>7
    <3> QED
      BY <3>1, ConcatFacts
  <2>2. 1 \in 1 .. Len(d) /\ 2 \in 1 .. Len(d)
    BY <1>7
  <2> QED
    BY <2>1, <2>2
<1> QED
  BY <1>1, <1>2, <1>3, <1>7, <1>9 DEF d

\* Every step of a user logs a record that says what it did, and what to read.
LEMMA UserTells ==
    ASSUME FsInv, LinksHad, ~Relink, UserStep
    PROVE  \E events : LogsRecord(events) /\ Honest(events) /\ Tells(events)
                       /\ Grounded(events)
<1> DEFINE Done == \E events : LogsRecord(events) /\ Honest(events) /\ Tells(events)
                               /\ Grounded(events)
           Kept(g) == \/ links'[g] = {} \/ \E k \in links'[g] : k \in links[g]
<1>0. ASSUME NEW events, LogsRecord(events), Honest(events), Tells(events),
             \A g \in File : \/ Kept(g)
                             \/ \E k \in links'[g] : \A n \in 1 .. Len(events) :
                                   events[n].id = g => \E m \in 1 .. n : IsLink(events[m], g, k)
      PROVE  Done
  <2>1. links' \in [File -> SUBSET Link]
    BY <1>0 DEF LogsRecord
  <2>2. Grounded(events)
    BY <1>0, <2>1, Grounds
  <2> QED
    BY <1>0, <2>2
<1> HIDE DEF Done
<1>1. ASSUME NEW f \in File, NEW l \in Link, Create(f, l) PROVE Done
  <2> DEFINE events == build_create_inode_events(f, l)
  <2>1. events[1] = new_link_inode_event(f, l)
    BY CreateRecord
  <2>2. LogsRecord(events) /\ Honest(events) /\ Tells(events)
    BY <1>1, CreateLogs, CreateHonest, CreateTells
  <2> HIDE DEF events
  <2>3. \A n \in 1 .. Len(events) : \E m \in 1 .. n : IsLink(events[m], f, l)
    <3>1. IsLink(events[1], f, l)
      BY <2>1, EventFields DEF IsLink
    <3>2. \A n \in 1 .. Len(events) : 1 \in 1 .. n
      OBVIOUS
    <3> QED
      BY <3>1, <3>2
  <2>4. l \in links'[f] /\ \A g \in File : g # f => links'[g] = links[g]
    BY <1>1 DEF Create, Names, FsInv
  <2>5. \A g \in File : g # f => Kept(g)
    BY <2>4
  <2> QED
    BY <1>0, <2>2, <2>3, <2>4, <2>5
<1>2. ASSUME NEW f \in File, NEW l \in Link, HardLink(f, l) PROVE Done
  <2>1. \A g \in File : Kept(g)
    BY <1>2 DEF HardLink, Names, FsInv, Alive
  <2> QED
    BY <1>0, <1>2, <2>1, HardLinkLogs, HardLinkHonest, HardLinkTells
<1>3. ASSUME NEW f \in File, NEW l \in Link, Unlink(f, l) PROVE Done
  <2>1. \A g \in File : Kept(g)
    BY <1>3 DEF Unlink, FsInv
  <2> QED
    BY <1>0, <1>3, <2>1, UnlinkLogs, UnlinkHonest, UnlinkTells
<1>4. ASSUME NEW f \in File, Write(f) PROVE Done
  <2>1. \A g \in File : Kept(g)
    BY <1>4 DEF Write
  <2> QED
    BY <1>0, <1>4, <2>1, WriteLogs, WriteHonest, WriteTells
<1>5. ASSUME NEW f \in File, SetXattr(f) PROVE Done
  <2>1. \A g \in File : Kept(g)
    BY <1>5 DEF SetXattr
  <2> QED
    BY <1>0, <1>5, <2>1, SetXattrLogs, SetXattrHonest, SetXattrTells
<1>6. ASSUME NEW f \in File, NEW from \in Link, NEW to \in Link, Rename(f, from, to) PROVE Done
  <2> DEFINE events == build_rename_events(f, from, to)
  <2>2. LogsRecord(events) /\ Honest(events) /\ Tells(events)
    BY <1>6, RenameLogs, RenameHonest, RenameTells
  <2>1. IsLink(events[1], f, to)
    BY RenameFirst
  <2> HIDE DEF events
  <2>3. \A n \in 1 .. Len(events) : \E m \in 1 .. n : IsLink(events[m], f, to)
    <3>2. \A n \in 1 .. Len(events) : 1 \in 1 .. n
      OBVIOUS
    <3> QED
      BY <2>1, <3>2
  <2>4. to \in links'[f] /\ \A g \in File : g # f => links'[g] = links[g]
    BY <1>6 DEF Rename, Names, FsInv
  <2>5. \A g \in File : g # f => Kept(g)
    BY <2>4
  <2> QED
    BY <1>0, <2>2, <2>3, <2>4, <2>5
<1>7. ASSUME NEW f \in File, NEW from \in Link, NEW to \in Link, NEW over \in File,
             RenameOver(f, from, to, over)
      PROVE  Done
  <2> DEFINE events == build_rename_over_events(f, from, to, over, links[over] = {to})
  <2>0. f # over
    BY <1>7 DEF RenameOver
  <2>2. LogsRecord(events) /\ Honest(events) /\ Tells(events)
    BY <1>7, RenameOverLogs, RenameOverHonest, RenameOverTells
  <2>1. IsLink(events[2], f, to) /\ events[1].id = over
    BY RenameOverFirst
  <2> HIDE DEF events
  <2>3. \A n \in 1 .. Len(events) : events[n].id = f => \E m \in 1 .. n : IsLink(events[m], f, to)
    <3>2. \A n \in 1 .. Len(events) : n = 1 \/ 2 \in 1 .. n
      OBVIOUS
    <3> QED
      BY <2>0, <2>1, <3>2
  <2>4. to \in links'[f] /\ \A g \in File : g # f => links'[g] \subseteq links[g]
    BY <1>7, <2>0 DEF RenameOver, Names, FsInv
  <2>5. \A g \in File : g # f => Kept(g)
    BY <2>4
  <2> QED
    BY <1>0, <2>2, <2>3, <2>4, <2>5
<1>8. Done
  BY <1>1, <1>2, <1>3, <1>4, <1>5, <1>6, <1>7 DEF UserStep
<1> QED
  BY <1>8 DEF Done

-----------------------------------------------------------------------------
(* Attributes: no change is forgotten, crashes or not.                     *)

\* A file that exists, and that the database does not hold yet.
Unborn(f) == links[f] # {} /\ f \notin entries

\* When there is an fsevent of f, the LINK of a name that f has not lost by then is
\* before it in s, or in X.
Rests(s, X, f) ==
    \A n \in 1 .. Len(s) : s[n].id = f =>
        \E k \in Link : /\ \/ \E x \in X : IsLink(x, f, k)
                           \/ \E m \in 1 .. n : IsLink(s[m], f, k)
                        /\ \A m \in 1 .. n : ~IsUnlink(s[m], f, k)

\* Nothing of f is among the n first fsevents that are not acknowledged.
Absent(f, n) == \A m \in 1 .. n : unacked[m].id # f

\* The first fsevent of f to reach the database is a LINK, whatever is cancelled
\* and read again on the way.
Announced(f) ==
    /\ Rests(unacked, {}, f) /\ Rests(fsevents, Queued(f) \cup Cached(f), f)
    /\ sent[f] # <<>> => sent[f][1].type = "LINK"
    /\ sent[f] = <<>> =>
          /\ Cached(f) # {} => \E x \in Cached(f) : x.type = "LINK"
          /\ Cached(f) = {} => Absent(f, NbPushed)
          /\ Absent(f, flushed)

BornInv == \A f \in File : Unborn(f) => Announced(f)

\* The LINKs of a list of the pool come first.
LinksFirst(s) == \A m, n \in 1 .. Len(s) : m < n /\ s[n].type = "LINK" => s[m].type = "LINK"

OrderInv == \A i \in Id : LinksFirst(List(pool, i))

\* What the pool has to read, the records that are not covered by a batch say.
ReadInv ==
    \A i \in Id : \A e \in Cached(i) : \A a \in e.enrich : \E x \in Recent : Reads(x, i, a)

\* What changed is going to be read, and would be read again after a crash.
AttrInv ==
    /\ \A f \in File : had[f] = {} => stale[f] = {}
    /\ \A i \in Id : i \in Dir \/ links[i] # {} => \A a \in stale[i] :
          \/ i \in File /\ a = "nlink" /\ had[i] # links[i]
          \/ /\ \E e \in Queued(i) \cup Cached(i) \cup Coming : Reads(e, i, a)
             /\ \E e \in Logs : Reads(e, i, a)

AttributesInv == NameInv /\ BornInv /\ OrderInv /\ ReadInv /\ AttrInv

\* Nothing has changed yet.
LEMMA AttributesInit == Init => AttributesInv
<1> SUFFICES ASSUME Init PROVE AttributesInv
  OBVIOUS
<1>1. NameInv
  BY NameInit
<1>2. BornInv
  BY DEF Init, BornInv, Unborn
<1>3. OrderInv
  BY EmptyFacts DEF Init, OrderInv, LinksFirst
<1>4. ReadInv
  BY EmptyFacts, ToSetEmpty DEF Init, ReadInv, Cached
<1>5. AttrInv
  BY DEF Init, AttrInv, Id
<1> QED
  BY <1>1, <1>2, <1>3, <1>4, <1>5 DEF AttributesInv

\* A record that names a name that the file keeps, before its other fsevents.
LEMMA RestsConcat ==
    ASSUME NEW s \in Seq(Ev), NEW events \in Seq(Ev), NEW X, NEW f \in File, Rests(s, X, f),
           Grounded(events), links'[f] # {}, links'[f] \subseteq Link,
           \A k \in links'[f] : k \in links[f] =>
               \E x \in X \cup ToSet(s) : IsLink(x, f, k),
           \A k \in links'[f] : \A x \in ToSet(s) \cup ToSet(events) : ~IsUnlink(x, f, k)
    PROVE  Rests(s \o events, X, f)
<1> DEFINE t == s \o events
<1>1. /\ t \in Seq(Ev) /\ Len(s) \in Nat /\ Len(events) \in Nat
      /\ Len(t) = Len(s) + Len(events)
      /\ \A n \in 1 .. Len(s) : t[n] = s[n]
      /\ \A n \in 1 .. Len(events) : t[Len(s) + n] = events[n]
  BY ConcatFacts
<1>2. \A n \in 1 .. Len(t) : t[n] \in ToSet(s) \cup ToSet(events)
  <2>1. ToSet(t) = ToSet(s) \cup ToSet(events)
    BY ToSetConcat
  <2>2. \A n \in 1 .. Len(t) : t[n] \in ToSet(t)
    BY <1>1, ToSetType
  <2> QED
    BY <2>1, <2>2
<1>3. \A n \in 1 .. Len(t) : \/ n \in 1 .. Len(s)
                             \/ \E j \in 1 .. Len(events) : n = Len(s) + j
  BY Positions
<1>4. \A x \in ToSet(s) : \E m \in 1 .. Len(s) : s[m] = x
  BY ToSetType
<1> HIDE DEF t
<1>5. ASSUME NEW n \in 1 .. Len(s), t[n].id = f
      PROVE  \E k \in Link : /\ \/ \E x \in X : IsLink(x, f, k)
                                \/ \E m \in 1 .. n : IsLink(t[m], f, k)
                             /\ \A m \in 1 .. n : ~IsUnlink(t[m], f, k)
  <2>1. \A m \in 1 .. n : m \in 1 .. Len(s) /\ t[m] = s[m]
    BY <1>1
  <2>2. s[n].id = f
    BY <1>1, <1>5
  <2> QED
    BY <2>1, <2>2 DEF Rests
<1>6. ASSUME NEW j \in 1 .. Len(events), t[Len(s) + j].id = f
      PROVE  \E k \in Link : /\ \/ \E x \in X : IsLink(x, f, k)
                                \/ \E m \in 1 .. Len(s) + j : IsLink(t[m], f, k)
                             /\ \A m \in 1 .. Len(s) + j : ~IsUnlink(t[m], f, k)
  <2>1. events[j].id = f
    BY <1>1, <1>6
  <2>2. PICK k \in links'[f] : k \in links[f] \/ \E m \in 1 .. j : IsLink(events[m], f, k)
    BY <2>1 DEF Grounded
  <2>3. \A m \in 1 .. Len(s) + j : m \in 1 .. Len(t)
    BY <1>1
  <2>4. \A m \in 1 .. Len(s) + j : ~IsUnlink(t[m], f, k)
    BY <1>2, <2>3
  <2>5. CASE k \in links[f]
    <3>1. PICK x \in X \cup ToSet(s) : IsLink(x, f, k)
      BY <2>5
    <3>2. \A m \in 1 .. Len(s) : m \in 1 .. Len(s) + j /\ t[m] = s[m]
      BY <1>1
    <3>3. x \in X \/ \E m \in 1 .. Len(s) + j : t[m] = x
      BY <1>4, <3>2
    <3> QED
      BY <2>4, <3>1, <3>3
  <2>6. CASE \E m \in 1 .. j : IsLink(events[m], f, k)
    <3>1. PICK m \in 1 .. j : IsLink(events[m], f, k)
      BY <2>6
    <3>2. m \in 1 .. Len(events) /\ Len(s) + m \in 1 .. Len(s) + j
      BY <1>1
    <3> QED
      BY <1>1, <2>4, <3>1, <3>2
  <2> QED
    BY <2>2, <2>5, <2>6
<1>7. ASSUME NEW n \in 1 .. Len(t), t[n].id = f
      PROVE  \E k \in Link : /\ \/ \E x \in X : IsLink(x, f, k)
                                \/ \E m \in 1 .. n : IsLink(t[m], f, k)
                             /\ \A m \in 1 .. n : ~IsUnlink(t[m], f, k)
  BY <1>3, <1>5, <1>6, <1>7
<1>8. Rests(t, X, f)
  BY <1>7 DEF Rests
<1> QED
  BY <1>8 DEF t

\* The first fsevent of a list goes to where Y is known.
LEMMA RestsTail ==
    ASSUME NEW s \in Seq(Ev), s # <<>>, NEW X, NEW Y, NEW f, Rests(s, X, f),
           \A k \in Link : \A x \in X \cup {Head(s)} :
               IsLink(x, f, k) /\ ~IsUnlink(Head(s), f, k) => \E y \in Y : IsLink(y, f, k)
    PROVE  Rests(Tail(s), Y, f)
<1> DEFINE t == Tail(s)
<1>1. /\ t \in Seq(Ev) /\ Len(s) \in Nat /\ Len(s) >= 1 /\ Len(t) = Len(s) - 1
      /\ Head(s) = s[1] /\ \A n \in 1 .. Len(s) - 1 : t[n] = s[n + 1]
  BY TailFacts
<1> HIDE DEF t
<1>2. ASSUME NEW n \in 1 .. Len(t), t[n].id = f
      PROVE  \E k \in Link : /\ \/ \E y \in Y : IsLink(y, f, k)
                                \/ \E m \in 1 .. n : IsLink(t[m], f, k)
                             /\ \A m \in 1 .. n : ~IsUnlink(t[m], f, k)
  <2>1. n + 1 \in 1 .. Len(s) /\ s[n + 1].id = f /\ 1 \in 1 .. n + 1
    BY <1>1, <1>2
  <2>2. PICK k \in Link : /\ \/ \E x \in X : IsLink(x, f, k)
                             \/ \E m \in 1 .. n + 1 : IsLink(s[m], f, k)
                          /\ \A m \in 1 .. n + 1 : ~IsUnlink(s[m], f, k)
    BY <2>1 DEF Rests
  <2>3. \A m \in 1 .. n : m + 1 \in 1 .. n + 1 /\ t[m] = s[m + 1]
    BY <1>1
  <2>4. \A m \in 1 .. n : ~IsUnlink(t[m], f, k)
    BY <2>2, <2>3
  <2>5. ~IsUnlink(Head(s), f, k)
    BY <1>1, <2>1, <2>2
  <2>6. CASE \E x \in X : IsLink(x, f, k)
    BY <2>4, <2>5, <2>6
  <2>7. CASE \E m \in 1 .. n + 1 : IsLink(s[m], f, k)
    <3>1. PICK m \in 1 .. n + 1 : IsLink(s[m], f, k)
      BY <2>7
    <3>2. CASE m = 1
      BY <1>1, <2>4, <2>5, <3>1, <3>2
    <3>3. CASE m # 1
      <4>1. m - 1 \in 1 .. n /\ (m - 1) + 1 = m
        BY <3>3
      <4>2. t[m - 1] = s[m]
        BY <2>3, <4>1
      <4> QED
        BY <2>4, <3>1, <4>1, <4>2
    <3> QED
      BY <3>2, <3>3
  <2> QED
    BY <2>2, <2>6, <2>7
<1>3. Rests(t, Y, f)
  BY <1>2 DEF Rests
<1> QED
  BY <1>3 DEF t

\* What is not acknowledged, without fsevents of other files at the front.
LEMMA RestsSuffix ==
    ASSUME TypeInv, NEW f, Rests(unacked, {}, f), Absent(f, flushed)
    PROVE  Rests(SubSeq(unacked, flushed + 1, Len(unacked)), {}, f)
<1> DEFINE t == SubSeq(unacked, flushed + 1, Len(unacked))
<1>1. /\ unacked \in Seq(Ev) /\ Len(unacked) \in Nat /\ flushed \in Nat /\ flushed <= Len(unacked)
  BY Elements DEF TypeInv, LogInv
<1>2. /\ Len(t) = Len(unacked) - flushed
      /\ \A n \in 1 .. Len(unacked) - flushed : t[n] = unacked[flushed + n]
  BY <1>1, SuffixFacts
<1> HIDE DEF t
<1>3. ASSUME NEW n \in 1 .. Len(t), t[n].id = f
      PROVE  \E k \in Link : /\ \/ \E x \in {} : IsLink(x, f, k)
                                \/ \E m \in 1 .. n : IsLink(t[m], f, k)
                             /\ \A m \in 1 .. n : ~IsUnlink(t[m], f, k)
  <2>1. flushed + n \in 1 .. Len(unacked) /\ unacked[flushed + n].id = f
    BY <1>1, <1>2, <1>3
  <2>2. PICK k \in Link : /\ \/ \E x \in {} : IsLink(x, f, k)
                             \/ \E m \in 1 .. flushed + n : IsLink(unacked[m], f, k)
                          /\ \A m \in 1 .. flushed + n : ~IsUnlink(unacked[m], f, k)
    BY <2>1 DEF Rests
  <2>3. \A m \in 1 .. n : flushed + m \in 1 .. flushed + n /\ t[m] = unacked[flushed + m]
    BY <1>1, <1>2
  <2>4. \A m \in 1 .. n : ~IsUnlink(t[m], f, k)
    BY <2>2, <2>3
  <2>5. PICK m \in 1 .. flushed + n : IsLink(unacked[m], f, k)
    BY <2>2
  <2>6. m \notin 1 .. flushed
    BY <2>5 DEF Absent, IsLink
  <2>7. m - flushed \in 1 .. n /\ flushed + (m - flushed) = m
    BY <1>1, <2>6
  <2>8. t[m - flushed] = unacked[m]
    BY <2>3, <2>7
  <2> QED
    BY <2>4, <2>5, <2>7, <2>8
<1>4. Rests(t, {}, f)
  BY <1>3 DEF Rests
<1> QED
  BY <1>4 DEF t

\* A file that was just created, or that the database does not hold yet.
LEMMA AnnouncedBefore ==
    ASSUME NameInv, BornInv, NEW events, LogsRecord(events), Honest(events),
           NEW f \in File, Unborn(f)'
    PROVE  Announced(f) /\ f \notin entries
<1>1. f \in Id /\ f \notin entries /\ links'[f] # {}
  BY DEF Id, Unborn, LogsRecord, db
<1>2. CASE links[f] # {}
  BY <1>1, <1>2 DEF BornInv, Unborn
<1>3. CASE links[f] = {}
  <2>1. had[f] = {}
    BY <1>1, <1>3 DEF Honest
  <2>2. \A e \in Logs \cup Cached(f) \cup Queued(f) : e.id # f
    BY <1>1, <2>1 DEF NameInv, HistoryInv, Past
  <2>3. Cached(f) = {} /\ Queued(f) = {}
    BY <1>1, <2>2 DEF NameInv, TypeInv, FitsInv
  <2>4. /\ fsevents \in Seq(Ev) /\ unacked \in Seq(Ev) /\ sent[f] \in Seq(Ev)
        /\ Len(unacked) \in Nat /\ NbPushed <= Len(unacked) /\ flushed <= Len(unacked)
        /\ NbPushed \in Int /\ flushed \in Int
    BY <1>1, Elements DEF NameInv, TypeInv, LogInv, QueueInv, NbPushed
  <2>5. \A n \in 1 .. Len(unacked) : unacked[n].id # f
    BY <2>2, <2>4, ToSetType DEF Logs
  <2>6. \A n \in 1 .. Len(fsevents) : fsevents[n].id # f
    <3>1. Coming \subseteq Logs
      BY ComingRecent DEF NameInv
    <3> QED
      BY <2>2, <2>4, <3>1, ToSetType DEF Coming
  <2>7. sent[f] = <<>>
    BY <2>3, <2>4, ToSetType DEF Queued
  <2>8. Rests(unacked, {}, f) /\ Rests(fsevents, Queued(f) \cup Cached(f), f)
    BY <2>5, <2>6 DEF Rests
  <2>9. Absent(f, NbPushed) /\ Absent(f, flushed)
    BY <2>4, <2>5 DEF Absent
  <2> QED
    BY <1>1, <2>3, <2>7, <2>8, <2>9 DEF Announced
<1> QED
  BY <1>2, <1>3

\* A record keeps a LINK before the other fsevents of a file.
LEMMA LogKeepsBorn ==
    ASSUME NameInv, BornInv, ~Relink, NEW events, LogsRecord(events), Honest(events),
           Grounded(events)
    PROVE  BornInv'
<1> SUFFICES ASSUME NEW f \in File, Unborn(f)' PROVE Announced(f)'
  BY DEF BornInv
<1>1. Announced(f) /\ f \notin entries
  BY AnnouncedBefore
<1>2. /\ f \in Id /\ links'[f] # {} /\ links'[f] \subseteq Link
  BY DEF Id, Unborn, LogsRecord
<1>3. /\ Recent' = Recent \cup ToSet(events) /\ Coming' = Coming \cup ToSet(events)
      /\ Logs' = Logs \cup ToSet(events)
      /\ Cached(f)' = Cached(f) /\ Queued(f)' = Queued(f)
  BY RecentLogged DEF NameInv
<1>4. Coming \subseteq Logs
  BY ComingRecent DEF NameInv
<1>5. NameInv'
  BY LogKeepsNames
<1>6. \A k \in links'[f] : \A x \in Logs \cup ToSet(events) : ~IsUnlink(x, f, k)
  BY <1>3, <1>5 DEF NameInv, HistoryInv, Past, IsUnlink
<1>7. \A k \in links[f] : /\ \E x \in (Queued(f) \cup Cached(f)) \cup Coming : IsLink(x, f, k)
                          /\ \E x \in {} \cup Logs : IsLink(x, f, k)
  BY <1>1 DEF NameInv, NamesInv
<1>8. /\ fsevents \in Seq(Ev) /\ unacked \in Seq(Ev) /\ events \in Seq(Ev)
      /\ fsevents' = fsevents \o events /\ unacked' = unacked \o events
      /\ flushed' = flushed /\ sent' = sent
  BY DEF NameInv, TypeInv, LogInv, LogsRecord, Logged
<1>9. Rests(unacked, {}, f) /\ Rests(fsevents, Queued(f) \cup Cached(f), f)
  BY <1>1 DEF Announced
<1>10. Rests(unacked', {}, f)
  <2>1. \A k \in links'[f] : k \in links[f] => \E x \in {} \cup ToSet(unacked) : IsLink(x, f, k)
    BY <1>7 DEF Logs
  <2>2. \A k \in links'[f] : \A x \in ToSet(unacked) \cup ToSet(events) : ~IsUnlink(x, f, k)
    BY <1>6 DEF Logs
  <2> QED
    BY <1>2, <1>8, <1>9, <2>1, <2>2, RestsConcat
<1>11. Rests(fsevents', Queued(f) \cup Cached(f), f)
  <2> DEFINE X == Queued(f) \cup Cached(f)
  <2>1. \A k \in links'[f] : k \in links[f] => \E x \in X \cup ToSet(fsevents) : IsLink(x, f, k)
    BY <1>7 DEF Coming
  <2>2. \A k \in links'[f] : \A x \in ToSet(fsevents) \cup ToSet(events) : ~IsUnlink(x, f, k)
    BY <1>4, <1>6 DEF Coming
  <2> HIDE DEF X
  <2>3. Rests(fsevents, X, f)
    BY <1>9 DEF X
  <2>4. Rests(fsevents', X, f)
    BY <1>2, <1>8, <2>1, <2>2, <2>3, RestsConcat
  <2> QED
    BY <2>4 DEF X
<1>12. /\ Len(unacked) \in Nat /\ \A n \in 1 .. Len(unacked) : unacked'[n] = unacked[n]
       /\ NbPushed \in Int /\ NbPushed' = NbPushed /\ NbPushed <= Len(unacked)
       /\ flushed \in Int /\ flushed <= Len(unacked)
  <2>1. /\ Len(unacked) \in Nat /\ Len(fsevents) \in Nat /\ Len(events) \in Nat
        /\ Len(unacked') = Len(unacked) + Len(events)
        /\ Len(fsevents') = Len(fsevents) + Len(events)
        /\ \A n \in 1 .. Len(unacked) : unacked'[n] = unacked[n]
    BY <1>8, ConcatFacts
  <2>2. flushed \in Int /\ flushed <= Len(unacked)
    BY <2>1 DEF NameInv, TypeInv, LogInv
  <2> QED
    BY <2>1, <2>2 DEF NbPushed
<1>13. \A n \in Int : n <= Len(unacked) /\ Absent(f, n) => Absent(f, n)'
  BY <1>12 DEF Absent
<1>14. /\ sent[f] = <<>> /\ Cached(f) = {} => Absent(f, NbPushed)'
       /\ sent[f] = <<>> => Absent(f, flushed)'
  BY <1>1, <1>8, <1>12, <1>13 DEF Announced, Absent
<1> QED
  BY <1>1, <1>3, <1>8, <1>10, <1>11, <1>14 DEF Announced

\* A push takes no LINK of a name that the file keeps out of the pool.
LEMMA PushKeepsLink ==
    ASSUME NEW e, PushEffect(e), Past(e), links[e.id] # {}, NEW k,
           NEW x \in Cached(e.id) \cup {e}, IsLink(x, e.id, k), ~IsUnlink(e, e.id, k)
    PROVE  \E y \in Cached(e.id)' : IsLink(y, e.id, k)
<1>1. e.type # "DELETE"
  BY DEF Past
<1>2. CASE Grows(Cached(e.id), e, Cached(e.id)')
  BY <1>2 DEF Grows
<1>3. CASE Merges(Cached(e.id), e, Cached(e.id)')
  BY <1>3 DEF Merges, IsLink
<1>4. CASE Cancels(Cached(e.id), e, Cached(e.id)')
  BY <1>4 DEF Cancels, IsLink, IsUnlink
<1> QED
  BY <1>1, <1>2, <1>3, <1>4 DEF PushEffect, Drops, Replaces

\* A push keeps a LINK before the other fsevents of a file.
LEMMA PushKeepsBorn ==
    ASSUME NameInv, BornInv, NEW e, PushStep(e)
    PROVE  BornInv'
<1> SUFFICES ASSUME NEW f \in File, Unborn(f)' PROVE Announced(f)'
  BY DEF BornInv
<1>1. PushEffect(e)
  BY PushEffects DEF NameInv
<1>2. /\ links' = links /\ entries' = entries /\ sent' = sent /\ unacked' = unacked
      /\ flushed' = flushed /\ fsevents # <<>> /\ e = Head(fsevents)
      /\ fsevents' = Tail(fsevents)
  BY DEF PushStep, fs, changelog, db
<1>3. Announced(f) /\ links[f] # {}
  BY <1>2 DEF BornInv, Unborn
<1>4. /\ fsevents \in Seq(Ev) /\ unacked \in Seq(Ev) /\ Past(e) /\ e \in Coming
      /\ Queued(f)' = Queued(f)
  <2>1. Coming \subseteq Logs
    BY ComingRecent DEF NameInv
  <2> QED
    BY <1>1, <2>1 DEF NameInv, TypeInv, LogInv, HistoryInv, PushEffect
<1>5. \A k : \A x \in Cached(f) \cup {e} : IsLink(x, f, k) /\ ~IsUnlink(e, f, k) =>
          \E y \in Cached(f)' : IsLink(y, f, k)
  <2>1. CASE e.id = f
    BY <1>1, <1>3, <1>4, <2>1, PushKeepsLink
  <2>2. CASE e.id # f
    BY <1>1, <2>2 DEF PushEffect, Cached, IsLink
  <2> QED
    BY <2>1, <2>2
<1>6. Rests(fsevents', Queued(f)' \cup Cached(f)', f)
  <2> DEFINE X == Queued(f) \cup Cached(f)
             Y == Queued(f)' \cup Cached(f)'
  <2>1. \A k \in Link : \A x \in X \cup {Head(fsevents)} :
          IsLink(x, f, k) /\ ~IsUnlink(Head(fsevents), f, k) => \E y \in Y : IsLink(y, f, k)
    BY <1>2, <1>4, <1>5
  <2>2. Rests(fsevents, X, f)
    BY <1>3 DEF Announced
  <2> HIDE DEF X, Y
  <2>3. Rests(fsevents', Y, f)
    BY <1>2, <1>4, <2>1, <2>2, RestsTail
  <2> QED
    BY <2>3 DEF Y
<1>7. /\ Len(fsevents) \in Nat /\ Len(fsevents) >= 1 /\ Len(fsevents') = Len(fsevents) - 1
      /\ e = fsevents[1] /\ Len(unacked) \in Nat
      /\ \A n \in 1 .. Len(fsevents) : fsevents[n] = unacked[NbPushed + n]
  BY <1>2, <1>4, TailFacts, Elements DEF NameInv, TypeInv, LogInv
<1>8. ASSUME sent[f] = <<>>, e.id = f
      PROVE  \E y \in Cached(f)' : y.type = "LINK"
  <2>1. Queued(f) = {}
    BY <1>8, ToSetEmpty DEF Queued
  <2>2. 1 \in 1 .. Len(fsevents) /\ fsevents[1].id = f
    BY <1>7, <1>8
  <2>3. PICK k \in Link : /\ \/ \E x \in Queued(f) \cup Cached(f) : IsLink(x, f, k)
                             \/ \E m \in 1 .. 1 : IsLink(fsevents[m], f, k)
                          /\ \A m \in 1 .. 1 : ~IsUnlink(fsevents[m], f, k)
    BY <1>3, <2>2 DEF Announced, Rests
  <2>4. (\E x \in Cached(f) \cup {e} : IsLink(x, f, k)) /\ ~IsUnlink(e, f, k)
    BY <1>7, <2>1, <2>3
  <2> QED
    BY <1>5, <2>4 DEF IsLink
<1>9. ASSUME sent[f] = <<>>, Cached(f)' # {}
      PROVE  \E y \in Cached(f)' : y.type = "LINK"
  <2>1. CASE e.id # f
    <3>1. Cached(f)' = Cached(f)
      BY <1>1, <2>1 DEF PushEffect, Cached
    <3> QED
      BY <1>3, <1>9, <3>1 DEF Announced
  <2> QED
    BY <1>8, <1>9, <2>1
<1>10. ASSUME sent[f] = <<>>, Cached(f)' = {}
       PROVE  Absent(f, NbPushed)'
  <2>1. e.id # f
    BY <1>8, <1>10
  <2>2. Cached(f)' = Cached(f)
    BY <1>1, <2>1 DEF PushEffect, Cached
  <2>3. Absent(f, NbPushed)
    BY <1>3, <1>10, <2>2 DEF Announced
  <2>4. NbPushed \in Int /\ NbPushed' = NbPushed + 1
    BY <1>2, <1>7 DEF NbPushed
  <2>5. unacked[NbPushed + 1] = e
    BY <1>7
  <2>6. ASSUME NEW m \in 1 .. NbPushed + 1 PROVE unacked[m].id # f
    <3>1. m \in 1 .. NbPushed \/ m = NbPushed + 1
      BY <2>4
    <3> QED
      BY <2>1, <2>3, <2>5, <3>1 DEF Absent
  <2> QED
    BY <1>2, <2>4, <2>6 DEF Absent
<1>11. Absent(f, flushed)' <=> Absent(f, flushed)
  BY <1>2 DEF Absent
<1> QED
  BY <1>2, <1>3, <1>6, <1>9, <1>10, <1>11 DEF Announced

\* A flush sends a LINK first.
LEMMA FlushKeepsBorn ==
    ASSUME NameInv, BornInv, OrderInv, Flush
    PROVE  BornInv'
<1> SUFFICES ASSUME NEW f \in File, Unborn(f)' PROVE Announced(f)'
  BY DEF BornInv
<1>1. FlushEffect
  BY FlushEffects DEF NameInv
<1>2. /\ links' = links /\ entries' = entries /\ unacked' = unacked /\ fsevents' = fsevents
      /\ flushed' <= NbPushed /\ f \in Id
  BY <1>1 DEF FlushEffect, fs, db, Id
<1>3. Announced(f)
  BY <1>2 DEF BornInv, Unborn
<1>4. /\ sent[f] \in Seq(Ev) /\ List(pool, f) \in Seq(Ev) /\ sent'[f] = sent[f] \o List(pool, f)
      /\ Queued(f)' = Queued(f) \cup Cached(f) /\ Cached(f)' = {}
      /\ LinksFirst(List(pool, f))
  BY <1>1, <1>2, QueueTypes DEF FlushEffect, NameInv, OrderInv
<1>5. NbPushed \in Int /\ NbPushed' = NbPushed /\ flushed' \in Int
  <2>1. Len(unacked) \in Nat /\ Len(fsevents) \in Nat
    BY Elements DEF NameInv, TypeInv, LogInv
  <2>2. flushed' \in Int
    BY <1>1, <2>1 DEF FlushEffect, NameInv, TypeInv, LogInv
  <2> QED
    BY <1>2, <2>1, <2>2 DEF NbPushed
<1> DEFINE q == sent[f]
           r == List(pool, f)
<1>6. /\ Len(q) \in Nat /\ Len(r) \in Nat /\ Len(q \o r) = Len(q) + Len(r)
      /\ \A n \in 1 .. Len(q) : (q \o r)[n] = q[n]
      /\ \A n \in 1 .. Len(r) : (q \o r)[Len(q) + n] = r[n]
  BY <1>4, ConcatFacts
<1>7. /\ (q = <<>> <=> Len(q) = 0) /\ (r = <<>> <=> Len(r) = 0)
      /\ (q \o r = <<>> <=> Len(q \o r) = 0)
  <2>1. q \o r \in Seq(Ev)
    BY <1>4, ConcatFacts
  <2> QED
    BY <1>4, <2>1
<1>8. Cached(f) = ToSet(r) /\ (r # <<>> => Cached(f) # {})
  BY <1>4, ToSetType DEF Cached
<1>9. ASSUME sent'[f] # <<>> PROVE sent'[f][1].type = "LINK"
  <2>1. CASE q # <<>>
    <3>1. 1 \in 1 .. Len(q)
      BY <1>6, <1>7, <2>1
    <3>2. sent'[f][1] = q[1]
      BY <1>4, <1>6, <3>1
    <3> QED
      BY <1>3, <2>1, <3>2 DEF Announced
  <2>2. CASE q = <<>>
    <3>1. r # <<>> /\ Len(q) = 0 /\ 1 \in 1 .. Len(r)
      BY <1>4, <1>6, <1>7, <1>9, <2>2
    <3>2. sent'[f][1] = r[1]
      BY <1>4, <1>6, <3>1
    <3>3. PICK x \in Cached(f) : x.type = "LINK"
      BY <1>3, <1>8, <2>2, <3>1 DEF Announced
    <3>4. PICK n \in 1 .. Len(r) : r[n] = x
      BY <1>4, <1>8, ToSetType
    <3>5. n = 1 \/ 1 < n
      BY <1>6
    <3>6. r[1].type = "LINK"
      BY <1>4, <3>1, <3>3, <3>4, <3>5 DEF LinksFirst
    <3> QED
      BY <3>2, <3>6
  <2> QED
    BY <2>1, <2>2
<1>10. ASSUME sent'[f] = <<>> PROVE Absent(f, NbPushed)' /\ Absent(f, flushed)'
  <2>1. q = <<>> /\ r = <<>>
    BY <1>4, <1>6, <1>7, <1>10
  <2>2. Cached(f) = {}
    BY <1>8, <2>1, ToSetEmpty
  <2>3. Absent(f, NbPushed)
    BY <1>3, <2>1, <2>2 DEF Announced
  <2> QED
    BY <1>2, <1>5, <2>3 DEF Absent
<1>11. Rests(unacked', {}, f) /\ Rests(fsevents', Queued(f)' \cup Cached(f)', f)
  <2>1. Queued(f)' \cup Cached(f)' = Queued(f) \cup Cached(f)
    BY <1>4
  <2> QED
    BY <1>2, <1>3, <2>1 DEF Announced
<1> QED
  BY <1>4, <1>9, <1>10, <1>11 DEF Announced

\* The first fsevent of a file that a worker takes puts the file in the database.
LEMMA TakeKeepsBorn ==
    ASSUME NameInv, BornInv, NEW id \in Id, Process(id) \/ Skip(id)
    PROVE  BornInv'
<1> SUFFICES ASSUME NEW f \in File, Unborn(f)' PROVE Announced(f)'
  BY DEF BornInv
<1> DEFINE e == Head(sent[id])
<1>1. TakeStep(id, e)
  BY TakeSteps DEF NameInv
<1>2. Process(id) => ~Stale(e) /\ Mongo(e)
  BY DEF Process
<1>3. Skip(id) => Stale(e) /\ entries' = entries
  BY DEF Skip, db
<1> HIDE DEF e
<1>4. /\ links' = links /\ unacked' = unacked /\ fsevents' = fsevents /\ flushed' = flushed
      /\ f \in Id
  BY <1>1 DEF TakeStep, fs, changelog, Id
<1>5. Past(e) /\ e \in Queued(id)
  BY <1>1 DEF TakeStep, NameInv, HistoryInv
<1>6. Process(id) =>
        /\ f # id => (f \in entries' <=> f \in entries)
        /\ e.type \in {"LINK", "UPSERT"} => entries \cup ({id} \cap File) \subseteq entries'
        /\ e.type # "DELETE" => entries \subseteq entries'
  <2>1. DbInv /\ Fits(e) /\ e \in Ev /\ e.id = id
    BY <1>1 DEF TakeStep, NameInv, TypeInv
  <2>2. e.type \in {"LINK", "UNLINK", "DELETE", "UPSERT", "XATTR"}
    BY <2>1 DEF Ev, Fsevent
  <2> QED
    BY <1>2, <2>1, <2>2, MongoFacts
<1>7. Unborn(f)
  <2>1. links[f] # {} /\ f \notin entries'
    BY <1>4 DEF Unborn
  <2>2. e.id = id
    BY <1>1 DEF TakeStep
  <2>3. f = id => e.type # "DELETE"
    BY <1>5, <2>1, <2>2 DEF Past
  <2> QED
    BY <1>3, <1>6, <2>1, <2>3 DEF Unborn
<1>8. Announced(f)
  BY <1>7 DEF BornInv
<1>9. f # id
  <2> SUFFICES ASSUME f = id PROVE FALSE
    OBVIOUS
  <2>1. e.type = "LINK" /\ e.id = f
    BY <1>1, <1>8 DEF TakeStep, Announced
  <2>2. Process(id) => f \in entries'
    BY <1>6, <2>1
  <2>3. ~Stale(e)
    BY <1>7, <2>1 DEF Stale, Alive, Unborn
  <2> QED
    BY <1>3, <2>2, <2>3 DEF Unborn
<1>10. sent'[f] = sent[f] /\ Queued(f)' = Queued(f) /\ Cached(f)' = Cached(f)
  BY <1>1, <1>4, <1>9 DEF TakeStep
<1>11. Absent(f, NbPushed)' = Absent(f, NbPushed) /\ Absent(f, flushed)' = Absent(f, flushed)
  BY <1>4 DEF Absent, NbPushed
<1> QED
  BY <1>4, <1>8, <1>10, <1>11 DEF Announced

\* What is acknowledged is nothing of a file that the database does not hold.
LEMMA AckKeepsBorn ==
    ASSUME NameInv, BornInv, Ack
    PROVE  BornInv'
<1> SUFFICES ASSUME NEW f \in File, Unborn(f)' PROVE Announced(f)'
  BY DEF BornInv
<1>1. AckEffect
  BY AckKeepsTypes DEF NameInv
<1>2. /\ links' = links /\ entries' = entries /\ fsevents' = fsevents /\ sent' = sent
      /\ flushed' = 0 /\ sent[f] = <<>> /\ Cached(f)' = Cached(f) /\ Queued(f)' = Queued(f)
      /\ unacked' = SubSeq(unacked, flushed + 1, Len(unacked))
  BY <1>1 DEF AckEffect, Ack, fs, db, Id
<1>3. Announced(f)
  BY <1>2 DEF BornInv, Unborn
<1>4. Rests(unacked', {}, f)
  <2>1. Rests(unacked, {}, f) /\ Absent(f, flushed) /\ TypeInv
    BY <1>2, <1>3 DEF Announced, NameInv
  <2> QED
    BY <1>2, <2>1, RestsSuffix
<1>5. /\ unacked \in Seq(Ev) /\ Len(unacked) \in Nat /\ Len(fsevents) \in Nat
      /\ flushed \in Nat /\ flushed <= NbPushed /\ flushed <= Len(unacked)
  BY Elements DEF NameInv, TypeInv, LogInv, NbPushed
<1>6. /\ Len(unacked') = Len(unacked) - flushed
      /\ \A n \in 1 .. Len(unacked) - flushed : unacked'[n] = unacked[flushed + n]
  BY <1>2, <1>5, SuffixFacts
<1>7. NbPushed' = NbPushed - flushed /\ NbPushed \in Int /\ NbPushed <= Len(unacked)
  BY <1>2, <1>5, <1>6 DEF NbPushed
<1>8. Absent(f, NbPushed) => Absent(f, NbPushed)'
  <2> SUFFICES ASSUME Absent(f, NbPushed), NEW m \in 1 .. NbPushed - flushed
               PROVE  unacked'[m].id # f
    BY <1>7 DEF Absent
  <2>1. flushed + m \in 1 .. NbPushed /\ m \in 1 .. Len(unacked) - flushed
    BY <1>5, <1>7
  <2> QED
    BY <1>6, <2>1 DEF Absent
<1>9. Absent(f, flushed)'
  BY <1>2 DEF Absent
<1> QED
  BY <1>2, <1>3, <1>4, <1>8, <1>9 DEF Announced

\* What is read again begins with a LINK too.
LEMMA CrashKeepsBorn ==
    ASSUME NameInv, BornInv, Crash
    PROVE  BornInv'
<1> SUFFICES ASSUME NEW f \in File, Unborn(f)' PROVE Announced(f)'
  BY DEF BornInv
<1>1. CrashEffect
  BY CrashKeepsTypes DEF NameInv
<1>2. /\ links' = links /\ entries' = entries /\ unacked' = unacked /\ fsevents' = unacked
      /\ flushed' = 0 /\ sent'[f] = <<>> /\ Cached(f)' = {} /\ Queued(f)' = {}
  BY <1>1 DEF CrashEffect, fs, db, Id
<1>3. Rests(unacked, {}, f)
  BY <1>2 DEF BornInv, Unborn, Announced
<1>4. NbPushed' = 0
  <2>1. Len(unacked) \in Nat
    BY Elements DEF NameInv, TypeInv, LogInv
  <2> QED
    BY <1>2, <2>1 DEF NbPushed
<1>5. Absent(f, NbPushed)' /\ Absent(f, flushed)'
  BY <1>2, <1>4 DEF Absent
<1>6. Rests(fsevents', Queued(f)' \cup Cached(f)', f)
  <2>1. Queued(f)' \cup Cached(f)' = {}
    BY <1>2
  <2> QED
    BY <1>2, <1>3, <2>1
<1> QED
  BY <1>2, <1>3, <1>5, <1>6 DEF Announced

\* A push keeps the LINKs of a list first.
LEMMA ChangesOrder ==
    ASSUME NEW L \in Seq(Ev), LinksFirst(L), NEW e \in Ev, NEW M, Changes(L, e, M)
    PROVE  LinksFirst(M)
<1>1. Len(L) \in Nat /\ DOMAIN L = 1 .. Len(L)
  BY Elements
<1>2. CASE e.type = "LINK" /\ M = <<e>> \o L
  <2>1. /\ Len(M) = Len(L) + 1 /\ M[1] = e /\ \A n \in 1 .. Len(L) : M[n + 1] = L[n]
    BY <1>2, FrontFacts
  <2> SUFFICES ASSUME NEW m \in 1 .. Len(M), NEW n \in 1 .. Len(M), m < n, M[n].type = "LINK"
               PROVE  M[m].type = "LINK"
    BY DEF LinksFirst
  <2>2. CASE m = 1
    BY <1>2, <2>1, <2>2
  <2>3. CASE m # 1
    <3>1. /\ m - 1 \in 1 .. Len(L) /\ n - 1 \in 1 .. Len(L) /\ m - 1 < n - 1
          /\ (m - 1) + 1 = m /\ (n - 1) + 1 = n
      BY <1>1, <2>1, <2>3
    <3>2. M[m] = L[m - 1] /\ M[n] = L[n - 1]
      BY <2>1, <3>1
    <3> QED
      BY <3>1, <3>2 DEF LinksFirst
  <2> QED
    BY <2>2, <2>3
<1>3. CASE e.type # "LINK" /\ M = Append(L, e)
  <2>1. /\ Len(M) = Len(L) + 1 /\ M[Len(L) + 1] = e /\ \A n \in 1 .. Len(L) : M[n] = L[n]
    BY <1>3, AppendFacts
  <2> SUFFICES ASSUME NEW m \in 1 .. Len(M), NEW n \in 1 .. Len(M), m < n, M[n].type = "LINK"
               PROVE  M[m].type = "LINK"
    BY DEF LinksFirst
  <2>2. n # Len(L) + 1
    BY <1>3, <2>1
  <2>3. m \in 1 .. Len(L) /\ n \in 1 .. Len(L)
    BY <1>1, <2>1, <2>2
  <2> QED
    BY <2>1, <2>3 DEF LinksFirst
<1>4. CASE /\ e.type \in {"UPSERT", "XATTR"}
           /\ \E n \in OfType(L, e.type) : M = [L EXCEPT ![n] = Merge(L[n], e)]
  <2>1. PICK n \in OfType(L, e.type) : M = [L EXCEPT ![n] = Merge(L[n], e)]
    BY <1>4
  <2>2. n \in 1 .. Len(L) /\ L[n] \in Ev
    BY <1>1, <2>1, Elements DEF OfType
  <2>3. Merge(L[n], e).type = L[n].type
    BY <2>2, MergeType DEF Ev
  <2>4. Len(M) = Len(L) /\ \A m \in 1 .. Len(L) : M[m].type = L[m].type
    BY <1>1, <2>1, <2>2, <2>3
  <2> QED
    BY <2>4 DEF LinksFirst
<1>5. CASE e.type = "UNLINK" /\ \E n \in MatchingLinks(L, e) : M = RemoveAt(L, n)
  <2>1. PICK n \in MatchingLinks(L, e) : M = RemoveAt(L, n)
    BY <1>5
  <2>2. n \in 1 .. Len(L)
    BY <1>1, <2>1 DEF MatchingLinks, OfType
  <2>3. /\ Len(M) = Len(L) - 1
        /\ \A m \in 1 .. Len(L) - 1 : M[m] = IF m < n THEN L[m] ELSE L[m + 1]
    BY <2>1, <2>2, RemoveAtFacts
  <2> SUFFICES ASSUME NEW i \in 1 .. Len(M), NEW j \in 1 .. Len(M), i < j, M[j].type = "LINK"
               PROVE  M[i].type = "LINK"
    BY DEF LinksFirst
  <2> DEFINE a == IF i < n THEN i ELSE i + 1
             b == IF j < n THEN j ELSE j + 1
  <2>4. a \in 1 .. Len(L) /\ b \in 1 .. Len(L) /\ a < b
    BY <1>1, <2>2, <2>3
  <2>5. M[i] = L[a] /\ M[j] = L[b]
    BY <2>3
  <2> HIDE DEF a, b
  <2> QED
    BY <2>4, <2>5 DEF LinksFirst
<1>6. CASE M = <<>> \/ M = <<e>>
  <2>1. Len(M) = 0 \/ Len(M) = 1
    BY <1>6, ToSetOne
  <2>2. ASSUME NEW m \in 1 .. Len(M), NEW n \in 1 .. Len(M) PROVE ~(m < n)
    <3>1. CASE Len(M) = 0
      BY <3>1
    <3>2. CASE Len(M) = 1
      BY <3>2
    <3> QED
      BY <2>1, <3>1, <3>2
  <2> QED
    BY <2>2 DEF LinksFirst
<1> QED
  BY <1>2, <1>3, <1>4, <1>5, <1>6 DEF Changes

\* What an operation changes is in its record.
LEMMA LogKeepsAttributes ==
    ASSUME AttributesInv, ~Relink, NEW events, LogsRecord(events), Honest(events),
           Tells(events), Grounded(events)
    PROVE  AttributesInv'
<1> USE DEF AttributesInv
<1>1. NameInv'
  BY LogKeepsNames
<1>2. BornInv'
  BY LogKeepsBorn
<1>3. /\ Recent' = Recent \cup ToSet(events) /\ Coming' = Coming \cup ToSet(events)
      /\ Logs' = Logs \cup ToSet(events)
      /\ \A i : List(pool, i)' = List(pool, i) /\ Cached(i)' = Cached(i)
                /\ Queued(i)' = Queued(i)
  BY RecentLogged DEF NameInv
<1>4. OrderInv' /\ ReadInv'
  <2>1. OrderInv'
    BY <1>3 DEF OrderInv
  <2>2. ReadInv'
    BY <1>3 DEF ReadInv
  <2> QED
    BY <2>1, <2>2
<1>5. \A f \in File : had'[f] = {} => stale'[f] = {}
  <2>1. \A f \in File : had'[f] = {} => had[f] = {}
    BY DEF Honest
  <2> QED
    BY <2>1 DEF AttrInv, Tells
<1>6. ASSUME NEW i \in Id, i \in Dir \/ links'[i] # {}, NEW a \in stale'[i]
      PROVE  \/ i \in File /\ a = "nlink" /\ had'[i] # links'[i]
             \/ /\ \E e \in Queued(i)' \cup Cached(i)' \cup Coming' : Reads(e, i, a)
                /\ \E e \in Logs' : Reads(e, i, a)
  <2>1. CASE a \notin stale[i]
    <3>1. i \in File => i \notin Dir
      BY IdsAssumption
    <3> QED
      BY <1>3, <1>6, <2>1, <3>1 DEF Tells
  <2>2. CASE a \in stale[i]
    <3>1. i \in Dir \/ links[i] # {}
      <4>1. CASE i \in Dir
        BY <4>1
      <4>2. CASE i \notin Dir
        <5>1. i \in File /\ links'[i] # {}
          BY <1>6, <4>2 DEF Id
        <5>2. had[i] # {}
          BY <2>2, <5>1 DEF AttrInv
        <5> QED
          BY <5>1, <5>2 DEF Honest
      <4> QED
        BY <4>1, <4>2
    <3>2. CASE i \in File /\ a = "nlink" /\ had[i] # links[i]
      <4>1. PICK l \in had[i] : l \notin links[i]
        BY <3>2 DEF NameInv, HistoryInv, LinksHad
      <4>2. l \in had'[i] /\ l \notin links'[i]
        BY <3>2, <4>1 DEF Honest
      <4> QED
        BY <3>2, <4>2
    <3>3. CASE /\ \E e \in Queued(i) \cup Cached(i) \cup Coming : Reads(e, i, a)
               /\ \E e \in Logs : Reads(e, i, a)
      BY <1>3, <3>3
    <3> QED
      BY <2>2, <3>1, <3>2, <3>3 DEF AttrInv
  <2> QED
    BY <2>1, <2>2
<1>7. AttrInv'
  BY <1>5, <1>6 DEF AttrInv
<1> QED
  BY <1>1, <1>2, <1>4, <1>7

\* A push keeps what is to be read, but for a file that is deleted.
LEMMA PushReads ==
    ASSUME TypeInv, NEW e, PushEffect(e), e.type # "DELETE", NEW a,
           NEW x \in Cached(e.id) \cup {e}, a \in x.enrich
    PROVE  \E y \in Cached(e.id)' : a \in y.enrich
<1>1. e \in Ev /\ Cached(e.id) \subseteq Ev
  BY QueueTypes DEF PushEffect
<1>2. CASE Grows(Cached(e.id), e, Cached(e.id)')
  BY <1>2 DEF Grows
<1>3. CASE Merges(Cached(e.id), e, Cached(e.id)')
  <2>1. PICK z \in Cached(e.id) : /\ Merge(z, e) \in Cached(e.id)'
                                  /\ Cached(e.id) \subseteq Cached(e.id)' \cup {z}
    BY <1>3 DEF Merges
  <2>2. Merge(z, e).enrich = z.enrich \cup e.enrich
    BY <1>1, <2>1, MergeType DEF Ev
  <2> QED
    BY <2>1, <2>2
<1>4. CASE Cancels(Cached(e.id), e, Cached(e.id)')
  <2>1. PICK z \in Cached(e.id) : /\ z.type = "LINK" /\ e.type = "UNLINK"
                                  /\ Cached(e.id) \subseteq Cached(e.id)' \cup {z}
    BY <1>4 DEF Cancels
  <2>2. Fits(z) /\ Fits(e)
    BY <2>1 DEF PushEffect, TypeInv, FitsInv
  <2>3. z.enrich = {} /\ e.enrich = {}
    BY <2>1, <2>2 DEF Fits
  <2> QED
    BY <2>1, <2>3
<1> QED
  BY <1>2, <1>3, <1>4 DEF PushEffect, Drops, Replaces

\* What is to be read was to be read before the push.
LEMMA PushReadsOnly ==
    ASSUME TypeInv, NEW e, PushEffect(e), NEW y \in Cached(e.id)', NEW a \in y.enrich
    PROVE  \E x \in Cached(e.id) \cup {e} : a \in x.enrich
<1>1. e \in Ev /\ Cached(e.id) \subseteq Ev
  BY QueueTypes DEF PushEffect
<1>2. CASE Grows(Cached(e.id), e, Cached(e.id)')
  BY <1>2 DEF Grows
<1>3. CASE Merges(Cached(e.id), e, Cached(e.id)')
  <2>1. PICK z \in Cached(e.id) : Cached(e.id)' \subseteq Cached(e.id) \cup {Merge(z, e)}
    BY <1>3 DEF Merges
  <2>2. Merge(z, e).enrich = z.enrich \cup e.enrich
    BY <1>1, <2>1, MergeType DEF Ev
  <2> QED
    BY <2>1, <2>2
<1>4. CASE Cancels(Cached(e.id), e, Cached(e.id)')
  BY <1>4 DEF Cancels
<1> QED
  BY <1>2, <1>3, <1>4 DEF PushEffect, Drops, Replaces

\* A push loses nothing that is to be read.
LEMMA PushKeepsAttributes ==
    ASSUME AttributesInv, NEW e, PushStep(e)
    PROVE  AttributesInv'
<1> USE DEF AttributesInv
<1>0. TypeInv
  BY DEF NameInv
<1>1. NameInv' /\ BornInv'
  BY PushKeepsNames, PushKeepsBorn
<1>2. PushEffect(e)
  BY <1>0, PushEffects
<1>3. /\ links' = links /\ had' = had /\ stale' = stale /\ unacked' = unacked
      /\ flushed' = flushed
  BY DEF PushStep, fs, changelog
<1>4. /\ Recent' = Recent /\ Logs' = Logs /\ Coming = {e} \cup Coming' /\ Coming \subseteq Recent
      /\ \A i : Queued(i)' = Queued(i) /\ (i # e.id => Cached(i)' = Cached(i))
  BY <1>0, <1>2, <1>3, RecentSame, ComingRecent DEF PushEffect, Cached
<1>5. OrderInv'
  <2>1. ASSUME NEW i \in Id PROVE LinksFirst(List(pool, i)')
    <3>1. CASE i = e.id
      BY <1>2, <3>1, ChangesOrder DEF PushEffect, OrderInv
    <3>2. CASE i # e.id
      BY <1>2, <3>2 DEF PushEffect, OrderInv
    <3> QED
      BY <3>1, <3>2
  <2> QED
    BY <2>1 DEF OrderInv
<1>6. ReadInv'
  <2>1. ASSUME NEW i \in Id, NEW y \in Cached(i)', NEW a \in y.enrich
        PROVE  \E x \in Recent : Reads(x, i, a)
    <3>1. CASE i # e.id
      BY <1>4, <2>1, <3>1 DEF ReadInv
    <3>2. CASE i = e.id
      <4>1. PICK x \in Cached(i) \cup {e} : a \in x.enrich
        BY <1>0, <1>2, <2>1, <3>2, PushReadsOnly
      <4> QED
        BY <1>4, <3>2, <4>1 DEF ReadInv, Reads
    <3> QED
      BY <3>1, <3>2
  <2> QED
    BY <1>4, <2>1 DEF ReadInv
<1>7. AttrInv'
  <2>0. Past(e) /\ e \in Logs
    BY <1>0, <1>4, ComingRecent DEF NameInv, HistoryInv
  <2>1. ASSUME NEW i \in Id, i \in Dir \/ links[i] # {}, NEW a,
               NEW x \in Queued(i) \cup Cached(i) \cup Coming, Reads(x, i, a)
        PROVE  \E y \in Queued(i)' \cup Cached(i)' \cup Coming' : Reads(y, i, a)
    <3>1. CASE x \in Queued(i) \/ x \in Coming'
      BY <1>4, <2>1, <3>1
    <3>2. CASE x \in Cached(i) /\ i # e.id
      BY <1>4, <2>1, <3>2
    <3>3. CASE x = e \/ (x \in Cached(i) /\ i = e.id)
      <4>1. i = e.id /\ x \in Cached(e.id) \cup {e} /\ a \in x.enrich
        BY <2>1, <3>3 DEF Reads
      <4>2. e.type # "DELETE"
        <5>1. e.type = "DELETE" => e.id \in File
          BY <1>2 DEF PushEffect, Fits
        <5> QED
          BY <2>0, <2>1, <4>1, <5>1, IdsAssumption DEF Past
      <4>3. PICK y \in Cached(i)' : a \in y.enrich
        BY <1>0, <1>2, <4>1, <4>2, PushReads
      <4>4. y.id = i
        BY <1>1, <4>3 DEF NameInv, TypeInv, FitsInv
      <4> QED
        BY <4>3, <4>4 DEF Reads
    <3> QED
      BY <1>4, <2>1, <3>1, <3>2, <3>3
  <2> QED
    BY <1>3, <1>4, <2>1 DEF AttrInv
<1> QED
  BY <1>1, <1>5, <1>6, <1>7

\* A step that leaves the fsevents and the file system alone.
LEMMA SameKeepsAttributes ==
    ASSUME AttributesInv, NameInv',
           links' = links, had' = had, stale' = stale, unacked' = unacked, flushed' = flushed,
           fsevents' = fsevents, sent' = sent, entries' = entries,
           \A i : List(pool, i)' = List(pool, i)
    PROVE  AttributesInv'
<1> USE DEF AttributesInv
<1>1. /\ Recent' = Recent /\ Logs' = Logs /\ Coming' = Coming /\ NbPushed' = NbPushed
      /\ \A i : Cached(i)' = Cached(i) /\ Queued(i)' = Queued(i)
  BY DEF Recent, Logs, Coming, Cached, Queued, NbPushed
<1>2. \A f, n : Absent(f, n)' <=> Absent(f, n)
  BY DEF Absent
<1>3. \A f \in File : Announced(f) => Announced(f)'
  BY <1>1 DEF Announced, Absent
<1>4. BornInv'
  BY <1>3 DEF BornInv, Unborn
<1>5. OrderInv'
  BY DEF OrderInv
<1>6. ReadInv'
  BY <1>1 DEF ReadInv
<1>7. AttrInv'
  BY <1>1 DEF AttrInv
<1> QED
  BY <1>4, <1>5, <1>6, <1>7

\* A flush sends what is to be read.
LEMMA FlushKeepsAttributes ==
    ASSUME AttributesInv, Flush
    PROVE  AttributesInv'
<1> USE DEF AttributesInv
<1>1. NameInv' /\ BornInv'
  BY FlushKeepsNames, FlushKeepsBorn
<1>2. FlushEffect
  BY FlushEffects DEF NameInv
<1>3. /\ \A i : List(pool, i)' = <<>> /\ Cached(i)' = {}
      /\ \A i \in Id : Queued(i)' = Queued(i) \cup Cached(i)
      /\ Coming' = Coming /\ Logs' = Logs
      /\ links' = links /\ had' = had /\ stale' = stale
  BY <1>2 DEF FlushEffect, fs
<1>4. OrderInv' /\ ReadInv'
  BY <1>3 DEF OrderInv, ReadInv, LinksFirst
<1>5. AttrInv'
  <2>1. \A i \in Id : Queued(i)' \cup Cached(i)' \cup Coming' = Queued(i) \cup Cached(i) \cup Coming
    BY <1>3
  <2> QED
    BY <1>3, <2>1 DEF AttrInv
<1> QED
  BY <1>1, <1>4, <1>5

\* What a worker processes is read, for an entry that exists: it is in the database.
LEMMA TakeKeepsAttributes ==
    ASSUME AttributesInv, NEW id \in Id, Process(id) \/ Skip(id)
    PROVE  AttributesInv'
<1> USE DEF AttributesInv
<1> DEFINE e == Head(sent[id])
<1>1. NameInv' /\ BornInv'
  BY ProcessKeepsNames, SkipKeepsNames, TakeKeepsBorn
<1>2. TakeStep(id, e)
  BY TakeSteps DEF NameInv
<1>3. /\ links' = links /\ had' = had /\ unacked' = unacked /\ flushed' = flushed
      /\ Coming' = Coming /\ Logs' = Logs
      /\ \A i : List(pool, i)' = List(pool, i) /\ Cached(i)' = Cached(i)
      /\ Queued(id) = {e} \cup Queued(id)' /\ \A i \in Id : i # id => Queued(i)' = Queued(i)
      /\ e.id = id /\ sent[id] # <<>> /\ e = sent[id][1]
  BY <1>2 DEF TakeStep, fs, changelog
<1>4. OrderInv' /\ ReadInv'
  <2>1. Recent' = Recent
    BY <1>3, RecentSame
  <2> QED
    BY <1>3, <2>1 DEF OrderInv, ReadInv
<1>5. Process(id) => stale' = IF e.type = "XATTR" /\ ~Found(id) THEN stale ELSE Enriched(e)
  BY DEF Process
<1>6. Skip(id) => stale' = stale /\ Stale(e)
  BY DEF Skip
<1> HIDE DEF e
<1>7. stale \in [Id -> SUBSET (Statx \cup Xattrs)]
  BY DEF NameInv, TypeInv, FsInv
<1>8. /\ \A i \in Id : i # id => stale'[i] = stale[i]
      /\ stale'[id] \subseteq stale[id]
  BY <1>3, <1>5, <1>6, <1>7 DEF Enriched
<1>9. ASSUME id \in Dir \/ links[id] # {}
      PROVE  stale'[id] = stale[id] \ e.enrich
  <2>1. CASE Skip(id)
    <3>1. id \in File /\ links[id] = {}
      BY <1>3, <1>6, <2>1 DEF Stale, Alive
    <3> QED
      BY <1>9, <3>1, IdsAssumption
  <2>2. CASE Process(id)
    <3>1. e.type = "XATTR" => Found(id)
      <4>1. CASE id \in Dir
        BY <4>1 DEF Found
      <4>2. CASE id \notin Dir
        <5>1. id \in File /\ links[id] # {}
          BY <1>9, <4>2 DEF Id
        <5>2. id \notin entries => e.type = "LINK"
          BY <1>3, <5>1 DEF BornInv, Unborn, Announced
        <5> QED
          BY <5>2 DEF Found
      <4> QED
        BY <4>1, <4>2
    <3>2. stale' = [stale EXCEPT ![id] = @ \ e.enrich]
      BY <1>3, <1>5, <2>2, <3>1 DEF Enriched
    <3> QED
      BY <1>7, <3>2
  <2> QED
    BY <2>1, <2>2
<1>10. ASSUME NEW i \in Id, i \in Dir \/ links[i] # {}, NEW a \in stale'[i]
       PROVE  \/ i \in File /\ a = "nlink" /\ had[i] # links[i]
              \/ /\ \E x \in Queued(i)' \cup Cached(i)' \cup Coming' : Reads(x, i, a)
                 /\ \E x \in Logs : Reads(x, i, a)
  <2>1. a \in stale[i]
    BY <1>8, <1>10
  <2>2. i = id => a \notin e.enrich
    BY <1>9, <1>10
  <2>3. \A x \in Queued(i) \cup Cached(i) \cup Coming :
          Reads(x, i, a) => x \in Queued(i)' \cup Cached(i)' \cup Coming'
    BY <1>3, <2>2 DEF Reads
  <2> QED
    BY <1>10, <2>1, <2>3 DEF AttrInv
<1>11. \A f \in File : had'[f] = {} => stale'[f] = {}
  BY <1>3, <1>8 DEF AttrInv, Id
<1>12. AttrInv'
  BY <1>3, <1>10, <1>11 DEF AttrInv
<1> QED
  BY <1>1, <1>4, <1>12

\* What is acknowledged was read.
LEMMA AckKeepsAttributes ==
    ASSUME AttributesInv, Ack
    PROVE  AttributesInv'
<1> USE DEF AttributesInv
<1>1. NameInv' /\ BornInv'
  BY AckKeepsNames, AckKeepsBorn
<1>2. AckEffect /\ TypeInv
  BY AckKeepsTypes DEF NameInv
<1>3. /\ links' = links /\ had' = had /\ stale' = stale
      /\ Coming' = Coming /\ Logs' = Recent /\ Recent' = Recent /\ Coming \subseteq Recent
      /\ \A i : List(pool, i)' = List(pool, i) /\ Cached(i)' = Cached(i) /\ Queued(i)' = Queued(i)
      /\ \A i \in Id : Queued(i) = {}
  BY <1>2, ComingRecent DEF AckEffect, fs
<1>4. OrderInv' /\ ReadInv'
  BY <1>3 DEF OrderInv, ReadInv
<1>5. \A i \in Id : \A a : \A e \in Queued(i) \cup Cached(i) \cup Coming :
        Reads(e, i, a) => \E x \in Recent : Reads(x, i, a)
  BY <1>3 DEF ReadInv, Reads
<1>6. AttrInv'
  BY <1>3, <1>5 DEF AttrInv
<1> QED
  BY <1>1, <1>4, <1>6

\* What was not acknowledged is read again.
LEMMA CrashKeepsAttributes ==
    ASSUME AttributesInv, Crash
    PROVE  AttributesInv'
<1> USE DEF AttributesInv
<1>1. NameInv' /\ BornInv'
  BY CrashKeepsNames, CrashKeepsBorn
<1>2. CrashEffect
  BY CrashKeepsTypes DEF NameInv
<1>3. /\ links' = links /\ had' = had /\ stale' = stale /\ Coming' = Logs /\ Logs' = Logs
      /\ \A i : List(pool, i)' = <<>> /\ Cached(i)' = {}
  BY <1>2 DEF CrashEffect, fs
<1>4. OrderInv' /\ ReadInv'
  BY <1>3 DEF OrderInv, ReadInv, LinksFirst
<1>5. AttrInv'
  BY <1>3 DEF AttrInv
<1> QED
  BY <1>1, <1>4, <1>5

\* Every step keeps the invariant.
LEMMA AttributesStep ==
    ASSUME ~Relink, AttributesInv, [Next]_vars
    PROVE  AttributesInv'
<1>1. CASE UserStep
  <2>1. FsInv /\ LinksHad
    BY DEF AttributesInv, NameInv, TypeInv, HistoryInv
  <2>2. PICK events : LogsRecord(events) /\ Honest(events) /\ Tells(events) /\ Grounded(events)
    BY <1>1, <2>1, UserTells
  <2> QED
    BY <2>2, LogKeepsAttributes
<1>2. CASE PushDeduplicated \/ PushNew
  BY <1>2, PushSteps, PushKeepsAttributes
<1>3. CASE PushFull
  <2>1. /\ UNCHANGED <<fs, stale, fsevents, changelog, sent, db>>
        /\ \A i : List(pool, i)' = List(pool, i)
    BY <1>3, FullKeepsTypes DEF AttributesInv, NameInv
  <2>2. NameInv'
    BY <1>3, FullKeepsNames DEF AttributesInv
  <2> QED
    BY <2>1, <2>2, SameKeepsAttributes DEF fs, changelog, db
<1>4. CASE Flush
  BY <1>4, FlushKeepsAttributes
<1>5. CASE \E i \in Id : Process(i) \/ Skip(i)
  BY <1>5, TakeKeepsAttributes
<1>6. CASE Ack
  BY <1>6, AckKeepsAttributes
<1>7. CASE Crash
  BY <1>7, CrashKeepsAttributes
<1>8. CASE UNCHANGED vars
  <2>1. NameInv'
    BY NameStep DEF AttributesInv
  <2>2. \A i : List(pool, i)' = List(pool, i)
    BY <1>8 DEF vars, List, Holds
  <2> QED
    BY <1>8, <2>1, <2>2, SameKeepsAttributes DEF vars, fs, changelog, db
<1> QED
  BY <1>1, <1>2, <1>3, <1>4, <1>5, <1>6, <1>7, <1>8 DEF Next, RbhStep

\* Once rbh-fsevents has caught up, crashes or not, every attribute of every file
\* and directory that exists was read after its last change, but for the link count
\* of a file that lost a name (dedup_upsert, dedup_xattrs, lustre_changelog_save_batch),
\* as long as no file gets back a name it lost.
THEOREM AttributesAreMirrored ==
    ASSUME ~Relink
    PROVE  Spec => []AttributesMirrored
<1>1. Init => AttributesInv
  BY AttributesInit
<1>2. AttributesInv /\ [Next]_vars => AttributesInv'
  BY AttributesStep
<1>3. AttributesInv => AttributesMirrored
  <2> SUFFICES ASSUME AttributesInv, CaughtUp, NEW i \in Id, i \in Dir \/ Alive(i),
                      NEW a \in stale[i]
               PROVE  i \in File /\ a = "nlink" /\ had[i] # links[i]
    BY DEF AttributesMirrored
  <2>1. Coming = {} /\ Cached(i) = {} /\ Queued(i) = {}
    BY CaughtUpFacts DEF AttributesInv, NameInv
  <2> QED
    BY <2>1 DEF AttributesInv, AttrInv, Alive
<1> QED
  BY <1>1, <1>2, <1>3, PTL DEF Spec

-----------------------------------------------------------------------------
(* Children: sums of increments.                                           *)

\* What an fsevent adds to the number of children of d.
Inc(e, d) == IF e.id = d /\ e.type = "XATTR" THEN e.inc ELSE 0

\* The fsevents of s add v to the number of children of d.
IsSum(s, d, v) ==
    \E p \in [0 .. Len(s) -> Int] :
        /\ p[0] = 0 /\ p[Len(s)] = v
        /\ \A n \in 1 .. Len(s) : p[n] = p[n - 1] + Inc(s[n], d)

\* An increment is a number.
LEMMA IncType ==
    ASSUME NEW e \in Ev, NEW d
    PROVE  Inc(e, d) \in Int
BY DEF Inc, Ev, Fsevent

\* Nothing is added by no fsevent.
LEMMA SumEmpty ==
    ASSUME NEW d
    PROVE  IsSum(<<>>, d, 0) /\ \A v : IsSum(<<>>, d, v) => v = 0
<1> DEFINE s == <<>>
           p == [n \in 0 .. 0 |-> 0]
<1>1. Len(s) = 0
  OBVIOUS
<1> HIDE DEF s
<1>2. p \in [0 .. 0 -> Int] /\ p[0] = 0
  OBVIOUS
<1> HIDE DEF p
<1>3. p \in [0 .. Len(s) -> Int] /\ p[0] = 0 /\ p[Len(s)] = 0
      /\ \A n \in 1 .. Len(s) : p[n] = p[n - 1] + Inc(s[n], d)
  BY <1>1, <1>2
<1>4. IsSum(s, d, 0)
  BY <1>3 DEF IsSum
<1>5. \A v : IsSum(s, d, v) => v = 0
  BY <1>1 DEF IsSum
<1> QED
  BY <1>4, <1>5 DEF s

\* Sums are numbers.
LEMMA SumType ==
    ASSUME NEW s \in Seq(Ev), NEW d, NEW v, IsSum(s, d, v)
    PROVE  v \in Int
<1>1. Len(s) \in Nat
  BY Elements
<1> QED
  BY <1>1 DEF IsSum

\* The sum of a list in which one fsevent counts.
LEMMA SumAt ==
    ASSUME NEW s \in Seq(Ev), NEW d, NEW k \in 1 .. Len(s),
           \A n \in 1 .. Len(s) : n # k => Inc(s[n], d) = 0
    PROVE  IsSum(s, d, Inc(s[k], d))
<1> DEFINE v == Inc(s[k], d)
           p == [n \in 0 .. Len(s) |-> IF n < k THEN 0 ELSE v]
<1>1. Len(s) \in Nat /\ v \in Int
  BY Elements, IncType
<1> HIDE DEF v
<1>2. /\ p \in [0 .. Len(s) -> Int] /\ \A n \in 0 .. Len(s) : p[n] = IF n < k THEN 0 ELSE v
  BY <1>1
<1> HIDE DEF p
<1>3. p[0] = 0 /\ p[Len(s)] = v
  BY <1>1, <1>2
<1>4. ASSUME NEW n \in 1 .. Len(s) PROVE p[n] = p[n - 1] + Inc(s[n], d)
  <2>1. n \in 0 .. Len(s) /\ n - 1 \in 0 .. Len(s)
    BY <1>1
  <2>2. CASE n = k
    <3>1. Inc(s[n], d) = v /\ p[n] = v /\ p[n - 1] = 0
      BY <1>1, <1>2, <2>1, <2>2 DEF v
    <3> QED
      BY <1>1, <3>1
  <2>3. CASE n < k
    <3>1. Inc(s[n], d) = 0 /\ p[n] = 0 /\ p[n - 1] = 0
      BY <1>1, <1>2, <2>1, <2>3
    <3> QED
      BY <3>1
  <2>4. CASE n > k
    <3>1. Inc(s[n], d) = 0 /\ p[n] = v /\ p[n - 1] = v
      BY <1>1, <1>2, <2>1, <2>4
    <3> QED
      BY <1>1, <3>1
  <2> QED
    BY <2>2, <2>3, <2>4
<1>5. IsSum(s, d, v)
  BY <1>2, <1>3, <1>4 DEF IsSum
<1> QED
  BY <1>5 DEF v

\* The sum of a list in which no fsevent counts.
LEMMA SumNothing ==
    ASSUME NEW s \in Seq(Ev), NEW d, \A e \in ToSet(s) : Inc(e, d) = 0
    PROVE  IsSum(s, d, 0)
<1>1. CASE s = <<>>
  BY <1>1, SumEmpty
<1>2. CASE s # <<>>
  <2>1. Len(s) \in Nat /\ 1 \in 1 .. Len(s)
    BY <1>2, TailFacts
  <2>2. \A n \in 1 .. Len(s) : Inc(s[n], d) = 0
    BY ToSetType
  <2>3. IsSum(s, d, Inc(s[1], d))
    BY <2>1, <2>2, SumAt
  <2> QED
    BY <2>1, <2>2, <2>3
<1> QED
  BY <1>1, <1>2

\* The sum of two lists.
LEMMA SumConcat ==
    ASSUME NEW q \in Seq(Ev), NEW r \in Seq(Ev), NEW d, NEW u, NEW v,
           IsSum(q, d, u), IsSum(r, d, v)
    PROVE  IsSum(q \o r, d, u + v)
<1> DEFINE s == q \o r
<1>1. /\ Len(q) \in Nat /\ Len(r) \in Nat /\ Len(s) = Len(q) + Len(r)
      /\ \A n \in 1 .. Len(q) : s[n] = q[n]
      /\ \A n \in 1 .. Len(r) : s[Len(q) + n] = r[n]
  BY ConcatFacts
<1> HIDE DEF s
<1>2. PICK a \in [0 .. Len(q) -> Int] :
         /\ a[0] = 0 /\ a[Len(q)] = u
         /\ \A n \in 1 .. Len(q) : a[n] = a[n - 1] + Inc(q[n], d)
  BY DEF IsSum
<1>3. PICK b \in [0 .. Len(r) -> Int] :
         /\ b[0] = 0 /\ b[Len(r)] = v
         /\ \A n \in 1 .. Len(r) : b[n] = b[n - 1] + Inc(r[n], d)
  BY DEF IsSum
<1>4. /\ u \in Int /\ v \in Int
      /\ \A n \in 0 .. Len(q) : a[n] \in Int
      /\ \A n \in 0 .. Len(r) : b[n] \in Int
  <2>1. u \in Int /\ v \in Int
    BY SumType
  <2>2. \A n \in 0 .. Len(q) : a[n] \in Int
    BY <1>2
  <2>3. \A n \in 0 .. Len(r) : b[n] \in Int
    BY <1>3
  <2> QED
    BY <2>1, <2>2, <2>3
<1> DEFINE p == [n \in 0 .. Len(s) |-> IF n <= Len(q) THEN a[n] ELSE u + b[n - Len(q)]]
<1>5. p \in [0 .. Len(s) -> Int]
  <2>1. ASSUME NEW n \in 0 .. Len(s)
        PROVE  (IF n <= Len(q) THEN a[n] ELSE u + b[n - Len(q)]) \in Int
    <3>1. CASE n <= Len(q)
      BY <1>1, <1>4, <3>1
    <3>2. CASE ~(n <= Len(q))
      <4>1. n - Len(q) \in 0 .. Len(r)
        BY <1>1, <3>2
      <4>2. b[n - Len(q)] \in Int
        BY <1>4, <4>1
      <4> QED
        BY <1>4, <3>2, <4>2
    <3> QED
      BY <3>1, <3>2
  <2> QED
    BY <2>1
<1>6. /\ \A n \in 0 .. Len(q) : p[n] = a[n]
      /\ \A n \in 0 .. Len(r) : p[Len(q) + n] = u + b[n]
  <2>1. ASSUME NEW n \in 0 .. Len(q) PROVE p[n] = a[n]
    BY <1>1
  <2>2. ASSUME NEW n \in 0 .. Len(r) PROVE p[Len(q) + n] = u + b[n]
    <3>1. CASE n = 0
      BY <1>1, <1>2, <1>3, <1>4, <3>1
    <3>2. CASE n # 0
      <4>1. Len(q) + n \in 0 .. Len(s) /\ ~(Len(q) + n <= Len(q)) /\ Len(q) + n - Len(q) = n
        BY <1>1, <3>2
      <4> QED
        BY <4>1
    <3> QED
      BY <3>1, <3>2
  <2> QED
    BY <2>1, <2>2
<1> HIDE DEF p
<1>7. p[0] = 0 /\ p[Len(s)] = u + v
  <2>1. 0 \in 0 .. Len(q) /\ Len(r) \in 0 .. Len(r)
    BY <1>1
  <2> QED
    BY <1>1, <1>2, <1>3, <1>6, <2>1
<1>8. ASSUME NEW n \in 1 .. Len(s) PROVE p[n] = p[n - 1] + Inc(s[n], d)
  <2>1. CASE n <= Len(q)
    <3>1. n \in 1 .. Len(q) /\ n \in 0 .. Len(q) /\ n - 1 \in 0 .. Len(q)
      BY <1>1, <2>1
    <3> QED
      BY <1>1, <1>2, <1>6, <3>1
  <2>2. CASE ~(n <= Len(q))
    <3> DEFINE m == n - Len(q)
    <3>1. /\ m \in 1 .. Len(r) /\ m \in 0 .. Len(r) /\ m - 1 \in 0 .. Len(r)
          /\ Len(q) + m = n /\ Len(q) + (m - 1) = n - 1
      BY <1>1, <2>2
    <3> HIDE DEF m
    <3>2. p[n] = u + b[m] /\ p[n - 1] = u + b[m - 1]
      BY <1>6, <3>1
    <3>3. b[m] = b[m - 1] + Inc(r[m], d) /\ s[n] = r[m] /\ Inc(r[m], d) \in Int
      <4>1. r[m] \in Ev
        BY <3>1, Elements
      <4> QED
        BY <1>1, <1>3, <3>1, <4>1, IncType
    <3>4. b[m] \in Int /\ b[m - 1] \in Int
      BY <1>4, <3>1
    <3> QED
      BY <1>4, <3>2, <3>3, <3>4
  <2> QED
    BY <2>1, <2>2
<1>9. IsSum(s, d, u + v)
  BY <1>5, <1>7, <1>8 DEF IsSum
<1> QED
  BY <1>9 DEF s

\* The sum of what follows the first fsevent.
LEMMA SumTail ==
    ASSUME NEW s \in Seq(Ev), s # <<>>, NEW d, NEW v, IsSum(s, d, v)
    PROVE  IsSum(Tail(s), d, v - Inc(Head(s), d))
<1> DEFINE t == Tail(s)
           h == Inc(Head(s), d)
<1>1. /\ Len(s) \in Nat /\ Len(s) >= 1 /\ Len(t) = Len(s) - 1 /\ Head(s) = s[1]
      /\ Head(s) \in Ev /\ \A n \in 1 .. Len(s) - 1 : t[n] = s[n + 1]
  BY TailFacts
<1>2. h \in Int /\ h = Inc(s[1], d)
  BY <1>1, IncType
<1> HIDE DEF t, h
<1>3. PICK a \in [0 .. Len(s) -> Int] :
         /\ a[0] = 0 /\ a[Len(s)] = v
         /\ \A n \in 1 .. Len(s) : a[n] = a[n - 1] + Inc(s[n], d)
  BY DEF IsSum
<1>4. a[1] = h
  <2>1. 1 \in 1 .. Len(s)
    BY <1>1
  <2>2. a[1] = a[1 - 1] + Inc(s[1], d)
    BY <1>3, <2>1
  <2> QED
    BY <1>2, <1>3, <2>2
<1> DEFINE p == [n \in 0 .. Len(t) |-> a[n + 1] - h]
<1>5. \A n \in 0 .. Len(t) : n + 1 \in 0 .. Len(s) /\ n + 1 \in 1 .. Len(s) /\ a[n + 1] \in Int
  <2>1. \A n \in 0 .. Len(t) : n + 1 \in 0 .. Len(s) /\ n + 1 \in 1 .. Len(s)
    BY <1>1
  <2> QED
    BY <1>3, <2>1
<1>6. p \in [0 .. Len(t) -> Int] /\ \A n \in 0 .. Len(t) : p[n] = a[n + 1] - h
  BY <1>2, <1>5
<1> HIDE DEF p
<1>7. p[0] = 0 /\ p[Len(t)] = v - h
  <2>1. 0 \in 0 .. Len(t) /\ Len(t) \in 0 .. Len(t) /\ Len(t) + 1 = Len(s)
    BY <1>1
  <2>2. p[0] = a[0 + 1] - h /\ p[Len(t)] = a[Len(t) + 1] - h
    BY <1>6, <2>1
  <2> QED
    BY <1>2, <1>3, <1>4, <2>1, <2>2
<1>8. ASSUME NEW n \in 1 .. Len(t) PROVE p[n] = p[n - 1] + Inc(t[n], d)
  <2>1. /\ n \in 0 .. Len(t) /\ n - 1 \in 0 .. Len(t) /\ n + 1 \in 1 .. Len(s)
        /\ (n - 1) + 1 = n /\ (n + 1) - 1 = n /\ n \in 1 .. Len(s) - 1
    BY <1>1
  <2>2. p[n] = a[n + 1] - h /\ p[n - 1] = a[n] - h
    BY <1>6, <2>1
  <2>3. a[n + 1] = a[n] + Inc(s[n + 1], d) /\ t[n] = s[n + 1]
    BY <1>1, <1>3, <2>1
  <2>4. a[n] \in Int /\ a[n + 1] \in Int /\ Inc(s[n + 1], d) \in Int
    <3>1. n \in 0 .. Len(s) /\ n + 1 \in 0 .. Len(s)
      BY <1>1, <2>1
    <3>2. s[n + 1] \in Ev
      BY <2>1, Elements
    <3> QED
      BY <1>3, <3>1, <3>2, IncType
  <2> QED
    BY <1>2, <2>2, <2>3, <2>4
<1>9. IsSum(t, d, v - h)
  BY <1>6, <1>7, <1>8 DEF IsSum
<1> QED
  BY <1>9 DEF t, h

\* The sum once one fsevent adds w more.
LEMMA SumReplaced ==
    ASSUME NEW s \in Seq(Ev), NEW d, NEW v, IsSum(s, d, v), NEW k \in 1 .. Len(s), NEW w \in Int,
           NEW t \in Seq(Ev), Len(t) = Len(s), Inc(t[k], d) = Inc(s[k], d) + w,
           \A n \in 1 .. Len(s) : n # k => t[n] = s[n]
    PROVE  IsSum(t, d, v + w)
<1>1. Len(s) \in Nat
  BY Elements
<1>2. PICK a \in [0 .. Len(s) -> Int] :
         /\ a[0] = 0 /\ a[Len(s)] = v
         /\ \A n \in 1 .. Len(s) : a[n] = a[n - 1] + Inc(s[n], d)
  BY DEF IsSum
<1> DEFINE p == [n \in 0 .. Len(t) |-> IF n < k THEN a[n] ELSE a[n] + w]
<1>3. /\ p \in [0 .. Len(t) -> Int]
      /\ \A n \in 0 .. Len(s) : p[n] = IF n < k THEN a[n] ELSE a[n] + w
  BY <1>2
<1> HIDE DEF p
<1>4. p[0] = 0 /\ p[Len(t)] = v + w
  BY <1>1, <1>2, <1>3
<1>5. ASSUME NEW n \in 1 .. Len(t) PROVE p[n] = p[n - 1] + Inc(t[n], d)
  <2>1. n \in 1 .. Len(s) /\ n \in 0 .. Len(s) /\ n - 1 \in 0 .. Len(s)
    BY <1>1
  <2>2. a[n] = a[n - 1] + Inc(s[n], d) /\ a[n] \in Int /\ a[n - 1] \in Int
    BY <1>2, <2>1
  <2>3. Inc(s[n], d) \in Int
    <3>1. s[n] \in Ev
      BY <2>1, Elements
    <3> QED
      BY <3>1, IncType
  <2>4. CASE n < k
    <3>1. p[n] = a[n] /\ p[n - 1] = a[n - 1] /\ t[n] = s[n]
      BY <1>1, <1>3, <2>1, <2>4
    <3> QED
      BY <2>2, <3>1
  <2>5. CASE n > k
    <3>1. p[n] = a[n] + w /\ p[n - 1] = a[n - 1] + w /\ t[n] = s[n]
      BY <1>1, <1>3, <2>1, <2>5
    <3> QED
      BY <2>2, <2>3, <3>1
  <2>6. CASE n = k
    <3>1. p[n] = a[n] + w /\ p[n - 1] = a[n - 1] /\ Inc(t[n], d) = Inc(s[n], d) + w
      BY <1>1, <1>3, <2>1, <2>6
    <3> QED
      BY <2>2, <2>3, <3>1
  <2> QED
    BY <2>4, <2>5, <2>6
<1> QED
  BY <1>3, <1>4, <1>5 DEF IsSum

-----------------------------------------------------------------------------
(* Children: what the records add.                                         *)

\* One more for a directory, if it is the parent.
One(p, d) == IF p = d THEN 1 ELSE 0

\* What each fsevent adds.
LEMMA IncFacts ==
    ASSUME NEW d \in Dir
    PROVE  /\ \A f \in File : \A l : Inc(new_link_inode_event(f, l), d) = 0
           /\ \A f \in File : \A l, last : Inc(unlink_inode_event(f, l, last), d) = 0
           /\ \A f \in File : \A l : Inc(UnlinkOf(f, l), d) = 0
           /\ \A f \in File : \A keys : Inc(build_enrich_xattr(f, keys), d) = 0
           /\ \A i, mask : Inc(build_statx_event(i, mask), d) = 0
           /\ \A i : Inc(update_parent_acmtime_event(i), d) = 0
           /\ \A i : /\ Inc(update_parent_nb_children_event(i, 1), d) = One(i, d)
                     /\ Inc(update_parent_nb_children_event(i, -1), d) = -One(i, d)
<1>1. \A f \in File : f # d
  BY IdsAssumption
<1>2. /\ \A f \in File : \A l : Inc(new_link_inode_event(f, l), d) = 0
      /\ \A f \in File : \A l : Inc(UnlinkOf(f, l), d) = 0
      /\ \A f \in File : \A keys : Inc(build_enrich_xattr(f, keys), d) = 0
      /\ \A i, mask : Inc(build_statx_event(i, mask), d) = 0
      /\ \A i : Inc(update_parent_acmtime_event(i), d) = 0
  BY <1>1, EventFields DEF Inc
<1>3. \A f \in File : \A l, last : Inc(unlink_inode_event(f, l, last), d) = 0
  BY <1>1 DEF Inc, unlink_inode_event, Event
<1>4. \A i : /\ Inc(update_parent_nb_children_event(i, 1), d) = One(i, d)
             /\ Inc(update_parent_nb_children_event(i, -1), d) = -One(i, d)
  BY EventFields DEF Inc, One
<1> QED
  BY <1>2, <1>3, <1>4

\* Records in which the last fsevent counts.
LEMMA SumOf5 ==
    ASSUME NEW a \in Ev, NEW b \in Ev, NEW c \in Ev, NEW x \in Ev, NEW y \in Ev, NEW d,
           Inc(a, d) = 0, Inc(b, d) = 0, Inc(c, d) = 0, Inc(x, d) = 0
    PROVE  IsSum(<<a, b, c, x, y>>, d, Inc(y, d))
<1> DEFINE s == <<a, b, c, x, y>>
<1>1. /\ s \in Seq(Ev) /\ Len(s) = 5 /\ s[1] = a /\ s[2] = b /\ s[3] = c /\ s[4] = x /\ s[5] = y
  BY Sequences5
<1> HIDE DEF s
<1>2. ASSUME NEW n \in 1 .. Len(s), n # 5 PROVE Inc(s[n], d) = 0
  <2>1. n = 1 \/ n = 2 \/ n = 3 \/ n = 4
    BY <1>1, <1>2
  <2> QED
    BY <1>1, <2>1
<1>3. 5 \in 1 .. Len(s)
  BY <1>1
<1>4. IsSum(s, d, Inc(s[5], d))
  BY <1>1, <1>2, <1>3, SumAt
<1> QED
  BY <1>1, <1>4 DEF s

\* The same for the record of a hard link.
LEMMA SumOf4 ==
    ASSUME NEW a \in Ev, NEW b \in Ev, NEW c \in Ev, NEW y \in Ev, NEW d,
           Inc(a, d) = 0, Inc(b, d) = 0, Inc(c, d) = 0
    PROVE  IsSum(<<a, b, c, y>>, d, Inc(y, d))
<1> DEFINE s == <<a, b, c, y>>
<1>1. /\ s \in Seq(Ev) /\ Len(s) = 4 /\ s[1] = a /\ s[2] = b /\ s[3] = c /\ s[4] = y
  BY Sequences4
<1> HIDE DEF s
<1>2. ASSUME NEW n \in 1 .. Len(s), n # 4 PROVE Inc(s[n], d) = 0
  <2>1. n = 1 \/ n = 2 \/ n = 3
    BY <1>1, <1>2
  <2> QED
    BY <1>1, <2>1
<1>3. 4 \in 1 .. Len(s)
  BY <1>1
<1>4. IsSum(s, d, Inc(s[4], d))
  BY <1>1, <1>2, <1>3, SumAt
<1> QED
  BY <1>1, <1>4 DEF s

\* The same for the record of an unlink.
LEMMA SumOf3 ==
    ASSUME NEW a \in Ev, NEW b \in Ev, NEW y \in Ev, NEW d, Inc(a, d) = 0, Inc(b, d) = 0
    PROVE  IsSum(<<a, b, y>>, d, Inc(y, d))
<1> DEFINE s == <<a, b, y>>
<1>1. /\ s \in Seq(Ev) /\ Len(s) = 3 /\ s[1] = a /\ s[2] = b /\ s[3] = y
  BY Sequences3
<1> HIDE DEF s
<1>2. ASSUME NEW n \in 1 .. Len(s), n # 3 PROVE Inc(s[n], d) = 0
  <2>1. n = 1 \/ n = 2
    BY <1>1, <1>2
  <2> QED
    BY <1>1, <2>1
<1>3. 3 \in 1 .. Len(s)
  BY <1>1
<1>4. IsSum(s, d, Inc(s[3], d))
  BY <1>1, <1>2, <1>3, SumAt
<1> QED
  BY <1>1, <1>4 DEF s

\* The same for a single fsevent.
LEMMA SumOf1 ==
    ASSUME NEW y \in Ev, NEW d
    PROVE  IsSum(<<y>>, d, Inc(y, d))
<1> DEFINE s == <<y>>
<1>1. s \in Seq(Ev) /\ Len(s) = 1 /\ s[1] = y
  BY ToSetOne
<1> HIDE DEF s
<1>2. 1 \in 1 .. Len(s) /\ \A n \in 1 .. Len(s) : n # 1 => Inc(s[n], d) = 0
  BY <1>1
<1>3. IsSum(s, d, Inc(s[1], d))
  BY <1>1, <1>2, SumAt
<1> QED
  BY <1>1, <1>3 DEF s

\* What the records of Create, HardLink and Unlink add.
LEMMA RecordSums ==
    ASSUME NEW f \in File, NEW l \in Link, NEW d \in Dir
    PROVE  /\ IsSum(build_create_inode_events(f, l), d, One(Parent(l), d))
           /\ IsSum(build_hardlink_events(f, l), d, One(Parent(l), d))
           /\ \A last : IsSum(build_unlink_events(f, l, last), d, -One(Parent(l), d))
<1> DEFINE link == new_link_inode_event(f, l)
           xattr == build_enrich_xattr(f, {"lustre"})
           statx == build_statx_event(f, Statx)
           times == update_parent_acmtime_event(Parent(l))
           more == update_parent_nb_children_event(Parent(l), 1)
           less == update_parent_nb_children_event(Parent(l), -1)
<1>1. f \in Id /\ Parent(l) \in Id
  BY ParentType DEF Id
<1>2. link \in Ev /\ xattr \in Ev /\ statx \in Ev /\ times \in Ev /\ more \in Ev /\ less \in Ev
  <2>1. {"lustre"} \in SUBSET Xattrs /\ Statx \in SUBSET Statx /\ 1 \in Int /\ -1 \in Int
    BY DEF Xattrs
  <2> QED
    BY <1>1, <2>1, EventFacts
<1>3. /\ Inc(link, d) = 0 /\ Inc(xattr, d) = 0 /\ Inc(statx, d) = 0 /\ Inc(times, d) = 0
      /\ Inc(more, d) = One(Parent(l), d) /\ Inc(less, d) = -One(Parent(l), d)
  BY IncFacts
<1>4. /\ build_create_inode_events(f, l) = <<link, xattr, statx, times, more>>
      /\ build_hardlink_events(f, l) = <<link, statx, times, more>>
  BY DEF build_create_inode_events, build_hardlink_events
<1> HIDE DEF link, xattr, statx, times, more, less
<1>5. IsSum(<<link, xattr, statx, times, more>>, d, Inc(more, d))
  BY <1>2, <1>3, SumOf5
<1>6. IsSum(<<link, statx, times, more>>, d, Inc(more, d))
  BY <1>2, <1>3, SumOf4
<1>7. ASSUME NEW last PROVE IsSum(build_unlink_events(f, l, last), d, -One(Parent(l), d))
  <2> DEFINE x == unlink_inode_event(f, l, last)
  <2>1. x \in Ev /\ Inc(x, d) = 0
    BY <1>1, EventFacts, IncFacts
  <2>2. build_unlink_events(f, l, last) = <<x, times, less>>
    BY DEF build_unlink_events, times, less
  <2> HIDE DEF x
  <2>3. IsSum(<<x, times, less>>, d, Inc(less, d))
    BY <1>2, <1>3, <2>1, SumOf3
  <2> QED
    BY <1>3, <2>2, <2>3
<1> QED
  BY <1>3, <1>4, <1>5, <1>6, <1>7

\* What the records of Rename and RenameOver add.
LEMMA RenameSums ==
    ASSUME NEW f \in File, NEW from \in Link, NEW to \in Link, NEW over \in File, NEW d \in Dir
    PROVE  /\ IsSum(build_rename_events(f, from, to), d, One(Parent(to), d) - One(Parent(from), d))
           /\ \A last : IsSum(build_rename_over_events(f, from, to, over, last), d,
                              -One(Parent(from), d))
<1> DEFINE a == RenameTarget(f, to)
           more == update_parent_nb_children_event(Parent(to), 1)
           b == <<more>>
           c == RenameSource(f, from)
           u == One(Parent(to), d)
           v == One(Parent(from), d)
<1>1. u \in Int /\ v \in Int /\ 0 + u = u /\ u + -v = u - v /\ 0 + -v = -v /\ 0 + 0 = 0
  BY DEF One
<1>2. more \in Ev /\ Inc(more, d) = u
  <2>1. 1 \in Int /\ Parent(to) \in Id
    BY ParentType
  <2> QED
    BY <2>1, EventFacts, IncFacts
<1>3. a \in Seq(Ev) /\ c \in Seq(Ev)
  BY RenameParts
<1>4. IsSum(a, d, 0)
  <2>1. \A e \in ToSet(a) : Inc(e, d) = 0
    <3>1. ToSet(a) = {new_link_inode_event(f, to), build_statx_event(f, Statx),
                      update_parent_acmtime_event(Parent(to))}
      BY RenameParts
    <3>2. /\ Inc(new_link_inode_event(f, to), d) = 0
          /\ Inc(build_statx_event(f, Statx), d) = 0
          /\ Inc(update_parent_acmtime_event(Parent(to)), d) = 0
      BY IncFacts
    <3> HIDE DEF a
    <3> QED
      BY <3>1, <3>2
  <2> HIDE DEF a
  <2> QED
    BY <1>3, <2>1, SumNothing
<1>5. IsSum(c, d, -v)
  <2> DEFINE x == unlink_inode_event(f, from, FALSE)
             y == update_parent_acmtime_event(Parent(from))
             z == update_parent_nb_children_event(Parent(from), -1)
  <2>1. f \in Id /\ Parent(from) \in Id /\ -1 \in Int
    BY ParentType DEF Id
  <2>2. x \in Ev /\ y \in Ev /\ z \in Ev
    BY <2>1, EventFacts
  <2>3. Inc(x, d) = 0 /\ Inc(y, d) = 0 /\ Inc(z, d) = -v
    BY IncFacts
  <2>4. c = <<x, y, z>>
    BY DEF RenameSource
  <2> HIDE DEF x, y, z
  <2>5. IsSum(<<x, y, z>>, d, Inc(z, d))
    BY <2>2, <2>3, SumOf3
  <2> QED
    BY <2>3, <2>4, <2>5
<1>6. build_rename_events(f, from, to) = (a \o b) \o c
  BY DEF build_rename_events
<1> HIDE DEF a, c, u, v, more
<1>7. b \in Seq(Ev) /\ IsSum(b, d, u)
  BY <1>2, ToSetOne, SumOf1
<1> HIDE DEF b
<1>8. a \o b \in Seq(Ev) /\ IsSum(a \o b, d, 0 + u)
  BY <1>3, <1>4, <1>7, ConcatFacts, SumConcat
<1> DEFINE ab == a \o b
<1> HIDE DEF ab
<1>9. ab \in Seq(Ev) /\ IsSum(ab, d, u)
  BY <1>1, <1>8 DEF ab
<1>10. IsSum(ab \o c, d, u + -v)
  BY <1>3, <1>5, <1>9, SumConcat
<1>11. ASSUME NEW last
       PROVE  IsSum(build_rename_over_events(f, from, to, over, last), d, -v)
  <2> DEFINE x == unlink_inode_event(over, to, last)
             o == <<x>>
  <2>1. x \in Ev /\ Inc(x, d) = 0
    <3>1. over \in Id
      BY DEF Id
    <3> QED
      BY <3>1, EventFacts, IncFacts
  <2>2. build_rename_over_events(f, from, to, over, last) = (o \o a) \o c
    BY DEF build_rename_over_events, a, c
  <2> HIDE DEF x
  <2>3. o \in Seq(Ev) /\ IsSum(o, d, 0)
    BY <2>1, ToSetOne, SumOf1
  <2> HIDE DEF o
  <2>4. o \o a \in Seq(Ev) /\ IsSum(o \o a, d, 0 + 0)
    BY <1>3, <1>4, <2>3, ConcatFacts, SumConcat
  <2> DEFINE oa == o \o a
  <2> HIDE DEF oa
  <2>5. oa \in Seq(Ev) /\ IsSum(oa, d, 0)
    BY <1>1, <2>4 DEF oa
  <2>6. IsSum(oa \o c, d, 0 + -v)
    BY <1>3, <1>5, <2>5, SumConcat
  <2> QED
    BY <1>1, <2>2, <2>6 DEF oa
<1> QED
  BY <1>1, <1>6, <1>10, <1>11 DEF ab, u, v

\* The names of S in a directory.
NamesIn(S, d) == {l \in S : Parent(l) = d}

\* One name more.
LEMMA NameAdded ==
    ASSUME NEW S, NEW l, l \notin S, NEW d, IsFiniteSet(NamesIn(S, d))
    PROVE  /\ IsFiniteSet(NamesIn(S \cup {l}, d)) /\ Cardinality(NamesIn(S, d)) \in Nat
           /\ Cardinality(NamesIn(S \cup {l}, d)) = Cardinality(NamesIn(S, d)) + One(Parent(l), d)
<1> DEFINE N == NamesIn(S, d)
<1>1. l \notin N
  BY DEF NamesIn
<1>2. NamesIn(S \cup {l}, d) = IF Parent(l) = d THEN N \cup {l} ELSE N
  BY DEF NamesIn
<1>3. IsFiniteSet(N)
  OBVIOUS
<1> HIDE DEF N
<1>4. /\ Cardinality(N) \in Nat /\ IsFiniteSet(N \cup {l})
      /\ Cardinality(N \cup {l}) = Cardinality(N) + 1
  BY <1>1, <1>3, FS_CardinalityType, FS_AddElement
<1>5. CASE Parent(l) = d
  BY <1>2, <1>3, <1>4, <1>5 DEF N, One
<1>6. CASE Parent(l) # d
  BY <1>2, <1>3, <1>4, <1>6 DEF N, One
<1> QED
  BY <1>5, <1>6

\* One name less.
LEMMA NameRemoved ==
    ASSUME NEW S, NEW l, l \in S, NEW d, IsFiniteSet(NamesIn(S, d))
    PROVE  /\ IsFiniteSet(NamesIn(S \ {l}, d)) /\ Cardinality(NamesIn(S, d)) \in Nat
           /\ Cardinality(NamesIn(S \ {l}, d)) = Cardinality(NamesIn(S, d)) - One(Parent(l), d)
<1> DEFINE N == NamesIn(S, d)
<1>1. Parent(l) = d => l \in N
  BY DEF NamesIn
<1>2. NamesIn(S \ {l}, d) = IF Parent(l) = d THEN N \ {l} ELSE N
  BY DEF NamesIn
<1>3. IsFiniteSet(N)
  OBVIOUS
<1> HIDE DEF N
<1>4. /\ Cardinality(N) \in Nat /\ IsFiniteSet(N \ {l})
      /\ l \in N => Cardinality(N \ {l}) = Cardinality(N) - 1
  BY <1>3, FS_CardinalityType, FS_RemoveElement
<1>5. CASE Parent(l) = d
  BY <1>1, <1>2, <1>3, <1>4, <1>5 DEF N, One
<1>6. CASE Parent(l) # d
  BY <1>2, <1>3, <1>4, <1>6 DEF N, One
<1> QED
  BY <1>5, <1>6

\* A name is the name of one file.
Disjoint == \A f, g \in File : \A l : l \in links[f] /\ l \in links[g] => f = g

Finite == \A d \in Dir : IsFiniteSet(NamesIn(Used, d))

\* A record adds what the operation changes.
Counts(events) ==
    /\ Disjoint' /\ Finite'
    /\ \A d \in Dir : \E v \in Int :
          /\ IsSum(events, d, v)
          /\ Cardinality(NamesIn(Used, d)') = Cardinality(NamesIn(Used, d)) + v

\* What the operation does to the names in use.
LEMMA CountsMade ==
    ASSUME Finite, Disjoint', NEW events, NEW U, Used' = U,
           \A d \in Dir : /\ IsFiniteSet(NamesIn(U, d))
                          /\ \E v \in Int :
                                /\ IsSum(events, d, v)
                                /\ Cardinality(NamesIn(U, d)) = Cardinality(NamesIn(Used, d)) + v
    PROVE  Counts(events)
<1>1. \A d : NamesIn(Used, d)' = NamesIn(U, d)
  BY DEF NamesIn
<1> QED
  BY <1>1 DEF Counts, Finite

\* A file takes a free name.
LEMMA CountsNamed ==
    ASSUME FsInv, Finite, Disjoint, NEW f \in File, NEW l \in Link, l \notin Used,
           links' = [links EXCEPT ![f] = @ \cup {l}],
           NEW events, \A d \in Dir : IsSum(events, d, One(Parent(l), d))
    PROVE  Counts(events)
<1>1. Used' = Used \cup {l}
  BY DEF Used, FsInv
<1>2. Disjoint'
  BY DEF Disjoint, Used, FsInv
<1>3. ASSUME NEW d \in Dir
      PROVE  /\ IsFiniteSet(NamesIn(Used \cup {l}, d))
             /\ \E v \in Int :
                   /\ IsSum(events, d, v)
                   /\ Cardinality(NamesIn(Used \cup {l}, d)) = Cardinality(NamesIn(Used, d)) + v
  <2>1. IsFiniteSet(NamesIn(Used, d)) /\ One(Parent(l), d) \in Int
    BY DEF Finite, One
  <2> QED
    BY <2>1, NameAdded
<1> QED
  BY <1>1, <1>2, <1>3, CountsMade

\* A file loses a name.
LEMMA CountsUnlinked ==
    ASSUME FsInv, Finite, Disjoint, NEW f \in File, NEW l \in Link, l \in links[f],
           Used' = Used \ {l}, Disjoint',
           NEW events, \A d \in Dir : IsSum(events, d, -One(Parent(l), d))
    PROVE  Counts(events)
<1>1. l \in Used
  BY DEF Used
<1>3. ASSUME NEW d \in Dir
      PROVE  /\ IsFiniteSet(NamesIn(Used \ {l}, d))
             /\ \E v \in Int :
                   /\ IsSum(events, d, v)
                   /\ Cardinality(NamesIn(Used \ {l}, d)) = Cardinality(NamesIn(Used, d)) + v
  <2>1. /\ IsFiniteSet(NamesIn(Used, d)) /\ One(Parent(l), d) \in Int
        /\ -One(Parent(l), d) \in Int
    BY DEF Finite, One
  <2>2. /\ IsFiniteSet(NamesIn(Used \ {l}, d)) /\ Cardinality(NamesIn(Used, d)) \in Nat
        /\ Cardinality(NamesIn(Used \ {l}, d)) = Cardinality(NamesIn(Used, d)) - One(Parent(l), d)
    BY <1>1, <2>1, NameRemoved
  <2>3. Cardinality(NamesIn(Used \ {l}, d)) = Cardinality(NamesIn(Used, d)) + -One(Parent(l), d)
    BY <2>1, <2>2
  <2> QED
    BY <2>1, <2>2, <2>3
<1> QED
  BY <1>3, CountsMade

\* A file gets a free name for one it loses.
LEMMA CountsMoved ==
    ASSUME FsInv, Finite, Disjoint, NEW f \in File, NEW from \in Link, NEW to \in Link,
           from \in links[f], to \notin Used,
           links' = [[links EXCEPT ![f] = @ \ {from}] EXCEPT ![f] = @ \cup {to}],
           NEW events,
           \A d \in Dir : IsSum(events, d, One(Parent(to), d) - One(Parent(from), d))
    PROVE  Counts(events)
<1> DEFINE U == (Used \ {from}) \cup {to}
<1>0. /\ links'[f] = (links[f] \ {from}) \cup {to}
      /\ \A g \in File : g # f => links'[g] = links[g]
  BY DEF FsInv
<1>1. from \in Used /\ to \notin Used \ {from}
  BY DEF Used
<1>2. Used' = U
  <2>1. \A l : l \in Used' <=> \E g \in File : l \in links'[g]
    BY DEF Used
  <2>2. \A l : l \in Used <=> \E g \in File : l \in links[g]
    BY DEF Used
  <2>3. \A g \in File : from \in links[g] => g = f
    BY DEF Disjoint
  <2>4. \A l : l \in Used' <=> l \in U
    BY <1>0, <2>1, <2>2, <2>3
  <2> QED
    BY <2>4
<1>3. Disjoint'
  <2>1. \A g \in File : to \notin links[g]
    BY DEF Used
  <2>2. ASSUME NEW g \in File, NEW h \in File, NEW l, l \in links'[g], l \in links'[h]
        PROVE  g = h
    <3>1. /\ l = to \/ l \in links[g]
          /\ l = to \/ l \in links[h]
      BY <1>0, <2>2
    <3>2. CASE l = to
      BY <1>0, <2>1, <2>2, <3>2
    <3>3. CASE l # to
      BY <3>1, <3>3 DEF Disjoint
    <3> QED
      BY <3>2, <3>3
  <2> QED
    BY <2>2 DEF Disjoint
<1>4. ASSUME NEW d \in Dir
      PROVE  /\ IsFiniteSet(NamesIn(U, d))
             /\ \E v \in Int :
                   /\ IsSum(events, d, v)
                   /\ Cardinality(NamesIn(U, d)) = Cardinality(NamesIn(Used, d)) + v
  <2> DEFINE u == One(Parent(to), d)
             v == One(Parent(from), d)
             R == Used \ {from}
  <2>1. IsFiniteSet(NamesIn(Used, d)) /\ u \in Int /\ v \in Int /\ u - v \in Int
    BY DEF Finite, One
  <2>2. /\ IsFiniteSet(NamesIn(R, d)) /\ Cardinality(NamesIn(Used, d)) \in Nat
        /\ Cardinality(NamesIn(R, d)) = Cardinality(NamesIn(Used, d)) - v
    BY <1>1, <2>1, NameRemoved
  <2> HIDE DEF R
  <2>3. /\ IsFiniteSet(NamesIn(R \cup {to}, d)) /\ Cardinality(NamesIn(R, d)) \in Nat
        /\ Cardinality(NamesIn(R \cup {to}, d)) = Cardinality(NamesIn(R, d)) + u
    <3>1. to \notin R
      BY <1>1 DEF R
    <3> QED
      BY <2>2, <3>1, NameAdded
  <2>4. IsSum(events, d, u - v)
    OBVIOUS
  <2> HIDE DEF u, v
  <2>5. Cardinality(NamesIn(R \cup {to}, d)) = Cardinality(NamesIn(Used, d)) + (u - v)
    BY <2>1, <2>2, <2>3
  <2> QED
    BY <2>1, <2>3, <2>4, <2>5 DEF R
<1> HIDE DEF U
<1> QED
  BY <1>2, <1>3, <1>4, CountsMade

\* Every step of a user logs a record that adds what the step changes.
LEMMA UserCounts ==
    ASSUME FsInv, Finite, Disjoint, UserStep
    PROVE  \E events : LogsRecord(events) /\ Counts(events)
<1> DEFINE Done == \E events : LogsRecord(events) /\ Counts(events)
<1>1. ASSUME NEW f \in File, NEW l \in Link, Create(f, l) PROVE Done
  <2>1. l \notin Used /\ links' = [links EXCEPT ![f] = @ \cup {l}]
    BY <1>1 DEF Create, Names
  <2>2. Counts(build_create_inode_events(f, l))
    BY <2>1, RecordSums, CountsNamed
  <2> QED
    BY <1>1, <2>2, CreateLogs
<1>2. ASSUME NEW f \in File, NEW l \in Link, HardLink(f, l) PROVE Done
  <2>1. l \notin Used /\ links' = [links EXCEPT ![f] = @ \cup {l}]
    BY <1>2 DEF HardLink, Names
  <2>2. Counts(build_hardlink_events(f, l))
    BY <2>1, RecordSums, CountsNamed
  <2> QED
    BY <1>2, <2>2, HardLinkLogs
<1>3. ASSUME NEW f \in File, NEW l \in Link, Unlink(f, l) PROVE Done
  <2>1. l \in links[f] /\ links' = [links EXCEPT ![f] = @ \ {l}]
    BY <1>3 DEF Unlink
  <2>2. links'[f] = links[f] \ {l} /\ \A g \in File : g # f => links'[g] = links[g]
    BY <2>1 DEF FsInv
  <2>3. Used' = Used \ {l}
    <3>1. \A k : k \in Used' <=> \E g \in File : k \in links'[g]
      BY DEF Used
    <3>2. \A k : k \in Used <=> \E g \in File : k \in links[g]
      BY DEF Used
    <3>3. \A g \in File : l \in links[g] => g = f
      BY <2>1 DEF Disjoint
    <3>4. \A k : k \in Used' <=> k \in Used \ {l}
      BY <2>2, <3>1, <3>2, <3>3
    <3> QED
      BY <3>4
  <2>4. Disjoint'
    BY <2>2 DEF Disjoint
  <2> DEFINE events == build_unlink_events(f, l, links[f] = {l})
  <2>5. \A d \in Dir : IsSum(events, d, -One(Parent(l), d))
    BY RecordSums
  <2>7. LogsRecord(events)
    BY <1>3, UnlinkLogs
  <2> HIDE DEF events
  <2>6. Counts(events)
    BY <2>1, <2>3, <2>4, <2>5, CountsUnlinked
  <2> QED
    BY <2>6, <2>7
<1>4. ASSUME links' = links, NEW events, LogsRecord(events),
             \A d \in Dir : \A e \in ToSet(events) : Inc(e, d) = 0
      PROVE  Done
  <2>1. Used' = Used /\ Disjoint'
    BY <1>4 DEF Used, Disjoint
  <2>2. ASSUME NEW d \in Dir
        PROVE  /\ IsFiniteSet(NamesIn(Used, d))
               /\ \E v \in Int :
                     /\ IsSum(events, d, v)
                     /\ Cardinality(NamesIn(Used, d)) = Cardinality(NamesIn(Used, d)) + v
    <3>1. events \in Seq(Ev)
      BY <1>4 DEF LogsRecord
    <3>2. IsSum(events, d, 0)
      BY <1>4, <3>1, SumNothing
    <3>3. IsFiniteSet(NamesIn(Used, d)) /\ Cardinality(NamesIn(Used, d)) \in Nat
      BY FS_CardinalityType DEF Finite
    <3> QED
      BY <3>2, <3>3
  <2>3. Counts(events)
    BY <2>1, <2>2, CountsMade
  <2> QED
    BY <1>4, <2>3
<1> HIDE DEF Done
<1>5. ASSUME NEW f \in File, Write(f) PROVE Done
  <2>1. links' = links /\ LogsRecord(build_statx_update_event(f))
    BY <1>5, WriteLogs DEF Write
  <2>2. \A d \in Dir : \A e \in ToSet(build_statx_update_event(f)) : Inc(e, d) = 0
    BY WriteRecord, IncFacts
  <2> QED
    BY <1>4, <2>1, <2>2
<1>6. ASSUME NEW f \in File, SetXattr(f) PROVE Done
  <2>1. links' = links /\ LogsRecord(build_setxattr_event(f))
    BY <1>6, SetXattrLogs DEF SetXattr
  <2>2. \A d \in Dir : \A e \in ToSet(build_setxattr_event(f)) : Inc(e, d) = 0
    BY SetxattrRecord, IncFacts
  <2> QED
    BY <1>4, <2>1, <2>2
<1>7. ASSUME NEW f \in File, NEW from \in Link, NEW to \in Link, Rename(f, from, to) PROVE Done
  <2>1. /\ from \in links[f] /\ to \notin Used
        /\ links' = [[links EXCEPT ![f] = @ \ {from}] EXCEPT ![f] = @ \cup {to}]
    BY <1>7 DEF Rename, Names
  <2>2. \A d \in Dir : IsSum(build_rename_events(f, from, to), d,
                             One(Parent(to), d) - One(Parent(from), d))
    BY RenameSums
  <2>3. Counts(build_rename_events(f, from, to))
    BY <2>1, <2>2, CountsMoved
  <2> QED
    BY <1>7, <2>3, RenameLogs DEF Done
<1>8. ASSUME NEW f \in File, NEW from \in Link, NEW to \in Link, NEW over \in File,
             RenameOver(f, from, to, over)
      PROVE  Done
  <2>1. /\ f # over /\ from \in links[f] /\ to \in links[over]
        /\ links' = [[links EXCEPT ![f] = @ \ {from}, ![over] = @ \ {to}]
                        EXCEPT ![f] = @ \cup {to}]
    BY <1>8 DEF RenameOver, Names
  <2>2. /\ links'[f] = (links[f] \ {from}) \cup {to} /\ links'[over] = links[over] \ {to}
        /\ \A g \in File : g # f /\ g # over => links'[g] = links[g]
    BY <2>1 DEF FsInv
  <2>3. /\ \A g \in File : from \in links[g] => g = f
        /\ \A g \in File : to \in links[g] => g = over
    BY <2>1 DEF Disjoint
  <2>4. from # to
    BY <2>1, <2>3
  <2>5. Used' = Used \ {from}
    <3>1. \A k : k \in Used' <=> \E g \in File : k \in links'[g]
      BY DEF Used
    <3>2. \A k : k \in Used <=> \E g \in File : k \in links[g]
      BY DEF Used
    <3>3. \A k : k \in Used' => k \in Used \ {from}
      BY <2>1, <2>2, <2>3, <2>4, <3>1, <3>2
    <3>4. \A k : k \in Used \ {from} => k \in Used'
      BY <2>1, <2>2, <2>3, <2>4, <3>1, <3>2
    <3> QED
      BY <3>3, <3>4
  <2>6. Disjoint'
    <3>1. ASSUME NEW g \in File, NEW h \in File, NEW l, l \in links'[g], l \in links'[h]
          PROVE  g = h
      <4>1. /\ (l = to /\ g = f) \/ (l # to /\ l \in links[g])
            /\ (l = to /\ h = f) \/ (l # to /\ l \in links[h])
        BY <2>1, <2>2, <2>3, <3>1
      <4> QED
        BY <4>1 DEF Disjoint
    <3> QED
      BY <3>1 DEF Disjoint
  <2> DEFINE events == build_rename_over_events(f, from, to, over, links[over] = {to})
  <2>7. \A d \in Dir : IsSum(events, d, -One(Parent(from), d))
    BY RenameSums
  <2>8. LogsRecord(events)
    BY <1>8, RenameOverLogs
  <2> HIDE DEF events
  <2>9. Counts(events)
    BY <2>1, <2>5, <2>6, <2>7, CountsUnlinked
  <2> QED
    BY <2>8, <2>9 DEF Done
<1>9. Done
  BY <1>1, <1>2, <1>3, <1>5, <1>6, <1>7, <1>8 DEF UserStep
<1> QED
  BY <1>9 DEF Done

-----------------------------------------------------------------------------
(* Children: the count and the increments on their way.                    *)

\* n children, and what the three lists add to them, make c.
Balanced(q, r, s, n, c, d) ==
    \E u, v, w \in Int : /\ IsSum(q, d, u) /\ IsSum(r, d, v) /\ IsSum(s, d, w)
                         /\ n + u + v + w = c

\* What the database counts and what is on its way to it make the number of names.
CountInv ==
    \A d \in Dir : Balanced(sent[d], List(pool, d), fsevents, nb_children[d],
                            Cardinality(NamesIn(Used, d)), d)

ChildrenInv == TypeInv /\ Disjoint /\ Finite /\ (crashes = 0 => CountInv)

\* A push adds the fsevent to the sum of the list of a directory.
LEMMA ChangesSum ==
    ASSUME NEW d \in Dir, NEW L \in Seq(Ev), NEW e \in Ev, e.id = d, Fits(e),
           \A x \in ToSet(L) : x.id = d, NEW M \in Seq(Ev), Changes(L, e, M),
           NEW v, IsSum(L, d, v)
    PROVE  IsSum(M, d, v + Inc(e, d))
<1>1. e.type \notin {"LINK", "UNLINK", "DELETE"} /\ Inc(e, d) \in Int
  BY IdsAssumption, IncType DEF Fits
<1>2. CASE M = Append(L, e)
  <2> DEFINE r == <<e>>
  <2>1. r \in Seq(Ev) /\ IsSum(r, d, Inc(e, d)) /\ M = L \o r
    BY <1>2, ToSetOne, SumOf1
  <2> HIDE DEF r
  <2> QED
    BY <2>1, SumConcat
<1>3. ASSUME NEW n \in OfType(L, e.type), M = [L EXCEPT ![n] = Merge(L[n], e)]
      PROVE  IsSum(M, d, v + Inc(e, d))
  <2> DEFINE x == L[n]
             y == Merge(x, e)
  <2>1. /\ Len(L) \in Nat /\ DOMAIN L = 1 .. Len(L) /\ \A m \in 1 .. Len(L) : L[m] \in Ev
    BY Elements
  <2>2. n \in 1 .. Len(L) /\ x.type = e.type /\ x \in Ev
    BY <2>1 DEF OfType
  <2>3. x.id = d
    BY <2>2, ToSetType
  <2>4. y.type = x.type /\ y.id = x.id /\ y.inc = x.inc + e.inc
    BY <2>2, MergeType DEF Ev
  <2>5. /\ Len(M) = Len(L) /\ M[n] = y
        /\ \A m \in 1 .. Len(L) : m # n => M[m] = L[m]
    <3>1. DOMAIN M = 1 .. Len(L)
      BY <1>3, <2>1
    <3>2. Len(M) = Len(L)
      BY <2>1, <3>1, Elements
    <3> QED
      BY <1>3, <2>1, <2>2, <3>2
  <2> HIDE DEF x, y
  <2>6. Inc(y, d) = Inc(x, d) + Inc(e, d)
    <3>1. CASE e.type = "XATTR"
      BY <2>2, <2>3, <2>4, <3>1 DEF Inc
    <3>2. CASE e.type # "XATTR"
      BY <2>2, <2>4, <3>2 DEF Inc
    <3> QED
      BY <3>1, <3>2
  <2>7. Inc(M[n], d) = Inc(L[n], d) + Inc(e, d)
    BY <2>5, <2>6 DEF x
  <2> QED
    BY <1>1, <2>2, <2>5, <2>7, SumReplaced
<1> QED
  BY <1>1, <1>2, <1>3 DEF Changes

\* Nothing is on its way, and there is no name.
LEMMA ChildrenInit == Init => ChildrenInv
<1> SUFFICES ASSUME Init PROVE ChildrenInv
  OBVIOUS
<1>1. TypeInv
  BY TypeInit
<1>2. /\ \A f \in File : links[f] = {}
      /\ \A d \in Dir : sent[d] = <<>> /\ nb_children[d] = 0
      /\ fsevents = <<>> /\ pool = EmptyPool
  BY DEF Init, Id
<1>3. Used = {}
  BY <1>2 DEF Used
<1>4. \A d : NamesIn(Used, d) = {}
  BY <1>3 DEF NamesIn
<1>5. IsFiniteSet({}) /\ Cardinality({}) = 0
  BY FS_EmptySet
<1>6. Disjoint /\ Finite
  BY <1>2, <1>4, <1>5 DEF Disjoint, Finite
<1>7. ASSUME NEW d \in Dir
      PROVE  Balanced(sent[d], List(pool, d), fsevents, nb_children[d],
                      Cardinality(NamesIn(Used, d)), d)
  <2> DEFINE e == <<>>
  <2>1. IsSum(e, d, 0)
    BY SumEmpty
  <2>2. /\ sent[d] = e /\ List(pool, d) = e /\ fsevents = e /\ nb_children[d] = 0
        /\ Cardinality(NamesIn(Used, d)) = 0
    BY <1>2, <1>4, <1>5, EmptyFacts
  <2> HIDE DEF e
  <2>3. 0 \in Int /\ 0 + 0 + 0 + 0 = 0
    OBVIOUS
  <2> QED
    BY <2>1, <2>2, <2>3 DEF Balanced
<1> QED
  BY <1>1, <1>6, <1>7 DEF ChildrenInv, CountInv

\* The record of an operation adds what the operation changes.
LEMMA LogKeepsCount ==
    ASSUME TypeInv, Finite, CountInv, NEW events, LogsRecord(events), Counts(events)
    PROVE  CountInv'
<1>1. /\ fsevents' = fsevents \o events /\ pool' = pool /\ sent' = sent
      /\ nb_children' = nb_children /\ events \in Seq(Ev) /\ fsevents \in Seq(Ev)
  BY QueueTypes DEF LogsRecord, Logged, db
<1>2. \A d : List(pool, d)' = List(pool, d)
  BY <1>1 DEF List, Holds
<1> SUFFICES ASSUME NEW d \in Dir
             PROVE  Balanced(sent[d], List(pool, d), fsevents \o events, nb_children[d],
                             Cardinality(NamesIn(Used, d)'), d)
  BY <1>1, <1>2 DEF CountInv
<1>3. PICK x \in Int : /\ IsSum(events, d, x)
                       /\ Cardinality(NamesIn(Used, d)') = Cardinality(NamesIn(Used, d)) + x
  BY DEF Counts
<1>4. PICK u, v, w \in Int :
         /\ IsSum(sent[d], d, u) /\ IsSum(List(pool, d), d, v) /\ IsSum(fsevents, d, w)
         /\ nb_children[d] + u + v + w = Cardinality(NamesIn(Used, d))
  BY DEF CountInv, Balanced
<1>5. IsSum(fsevents \o events, d, w + x)
  BY <1>1, <1>3, <1>4, SumConcat
<1>6. nb_children[d] \in Int
  BY DEF TypeInv, DbInv
<1>7. w + x \in Int /\ nb_children[d] + u + v + (w + x) = Cardinality(NamesIn(Used, d)')
  BY <1>3, <1>4, <1>6
<1> QED
  BY <1>4, <1>5, <1>7 DEF Balanced

\* A push moves an increment from the changelog to the pool.
LEMMA PushKeepsCount ==
    ASSUME TypeInv, CountInv, NEW e, PushStep(e)
    PROVE  CountInv'
<1>1. PushEffect(e)
  BY PushEffects
<1>2. /\ fsevents # <<>> /\ e = Head(fsevents) /\ fsevents' = Tail(fsevents)
      /\ sent' = sent /\ nb_children' = nb_children /\ links' = links
      /\ fsevents \in Seq(Ev)
  BY QueueTypes DEF PushStep, db, fs
<1>3. \A d : NamesIn(Used, d)' = NamesIn(Used, d)
  BY <1>2 DEF NamesIn, Used
<1> SUFFICES ASSUME NEW d \in Dir
             PROVE  Balanced(sent[d], List(pool, d)', Tail(fsevents), nb_children[d],
                             Cardinality(NamesIn(Used, d)), d)
  BY <1>2, <1>3 DEF CountInv
<1>4. PICK u, v, w \in Int :
         /\ IsSum(sent[d], d, u) /\ IsSum(List(pool, d), d, v) /\ IsSum(fsevents, d, w)
         /\ nb_children[d] + u + v + w = Cardinality(NamesIn(Used, d))
  BY DEF CountInv, Balanced
<1> DEFINE x == Inc(e, d)
<1>5. x \in Int /\ nb_children[d] \in Int
  BY <1>1, IncType DEF PushEffect, TypeInv, DbInv
<1>6. IsSum(Tail(fsevents), d, w - x)
  BY <1>2, <1>4, SumTail
<1>7. IsSum(List(pool, d)', d, v + x)
  <2>1. CASE e.id # d
    <3>1. x = 0 /\ List(pool, d)' = List(pool, d) /\ v + 0 = v
      BY <1>1, <1>4, <2>1 DEF Inc, PushEffect
    <3> QED
      BY <1>4, <3>1
  <2>2. CASE e.id = d
    <3> DEFINE L == List(pool, d)
               M == List(pool, d)'
    <3>1. L \in Seq(Ev) /\ M \in Seq(Ev) /\ Changes(L, e, M) /\ e \in Ev /\ Fits(e)
      BY <1>1, <2>2 DEF PushEffect
    <3>2. \A y \in ToSet(L) : y.id = d
      BY DEF TypeInv, FitsInv, Cached, Id
    <3>3. IsSum(L, d, v)
      BY <1>4
    <3> HIDE DEF L, M
    <3>4. IsSum(M, d, v + Inc(e, d))
      BY <2>2, <3>1, <3>2, <3>3, ChangesSum
    <3> QED
      BY <3>4 DEF M
  <2> QED
    BY <2>1, <2>2
<1> HIDE DEF x
<1>8. /\ v + x \in Int /\ w - x \in Int
      /\ nb_children[d] + u + (v + x) + (w - x) = Cardinality(NamesIn(Used, d))
  BY <1>4, <1>5
<1> QED
  BY <1>4, <1>6, <1>7, <1>8 DEF Balanced

\* A flush moves the increments of the pool to the workers.
LEMMA FlushKeepsCount ==
    ASSUME TypeInv, CountInv, Flush
    PROVE  CountInv'
<1>1. FlushEffect
  BY FlushEffects
<1>2. /\ fsevents' = fsevents /\ nb_children' = nb_children /\ links' = links
      /\ \A d \in Dir : sent'[d] = sent[d] \o List(pool, d) /\ List(pool, d)' = <<>>
  BY <1>1 DEF FlushEffect, db, fs, Id
<1>3. \A d : NamesIn(Used, d)' = NamesIn(Used, d)
  BY <1>2 DEF NamesIn, Used
<1> DEFINE none == <<>>
<1> SUFFICES ASSUME NEW d \in Dir
             PROVE  Balanced(sent[d] \o List(pool, d), none, fsevents, nb_children[d],
                             Cardinality(NamesIn(Used, d)), d)
  BY <1>2, <1>3 DEF CountInv
<1>4. PICK u, v, w \in Int :
         /\ IsSum(sent[d], d, u) /\ IsSum(List(pool, d), d, v) /\ IsSum(fsevents, d, w)
         /\ nb_children[d] + u + v + w = Cardinality(NamesIn(Used, d))
  BY DEF CountInv, Balanced
<1>5. sent[d] \in Seq(Ev) /\ List(pool, d) \in Seq(Ev) /\ nb_children[d] \in Int
  BY QueueTypes DEF Id, TypeInv, DbInv
<1>6. IsSum(sent[d] \o List(pool, d), d, u + v) /\ IsSum(none, d, 0)
  BY <1>4, <1>5, SumConcat, SumEmpty
<1> HIDE DEF none
<1>7. /\ u + v \in Int /\ 0 \in Int
      /\ nb_children[d] + (u + v) + 0 + w = Cardinality(NamesIn(Used, d))
  BY <1>4, <1>5
<1> QED
  BY <1>4, <1>6, <1>7 DEF Balanced

\* What a worker does to the number of children of a directory.
LEMMA TakeCounts ==
    ASSUME TypeInv, NEW id \in Id, Process(id) \/ Skip(id), NEW d \in Dir
    PROVE  nb_children'[d] = nb_children[d] + Inc(Head(sent[id]), d)
<1> DEFINE e == Head(sent[id])
<1>1. TakeStep(id, e)
  BY TakeSteps
<1>2. nb_children \in [Dir -> Int] /\ nb_children[d] \in Int
  BY DEF TypeInv, DbInv
<1>3. Process(id) => Mongo(e)
  BY DEF Process
<1>4. Skip(id) => Stale(e) /\ nb_children' = nb_children
  BY DEF Skip, db
<1> SUFFICES nb_children'[d] = nb_children[d] + Inc(e, d)
  OBVIOUS
<1> HIDE DEF e
<1>5. /\ e.type \in {"LINK", "UNLINK", "DELETE", "UPSERT", "XATTR"} /\ e.inc \in Int
  BY <1>1 DEF TakeStep, Ev, Fsevent
<1>6. CASE Skip(id)
  <2>1. e.id # d
    BY <1>4, <1>6, IdsAssumption DEF Stale
  <2> QED
    BY <1>2, <1>4, <1>6, <2>1 DEF Inc
<1>7. CASE Mongo(e) /\ e.type = "XATTR"
  <2>1. nb_children' = [c \in Dir |-> IF c = e.id THEN nb_children[c] + e.inc
                                                  ELSE nb_children[c]]
    BY <1>7 DEF Mongo
  <2>2. nb_children'[d] = IF d = e.id THEN nb_children[d] + e.inc ELSE nb_children[d]
    BY <2>1
  <2> QED
    BY <1>2, <1>5, <1>7, <2>2 DEF Inc
<1>8. CASE Mongo(e) /\ e.type # "XATTR"
  <2>1. nb_children' = nb_children
    BY <1>5, <1>8 DEF Mongo
  <2> QED
    BY <1>2, <1>8, <2>1 DEF Inc
<1> QED
  BY <1>3, <1>6, <1>7, <1>8

\* A worker moves an increment to the database.
LEMMA TakeKeepsCount ==
    ASSUME TypeInv, CountInv, NEW id \in Id, Process(id) \/ Skip(id)
    PROVE  CountInv'
<1> DEFINE e == Head(sent[id])
<1>1. TakeStep(id, e)
  BY TakeSteps
<1>2. \A d \in Dir : nb_children'[d] = nb_children[d] + Inc(e, d)
  BY TakeCounts
<1>3. /\ fsevents' = fsevents /\ links' = links /\ \A i : List(pool, i)' = List(pool, i)
      /\ sent[id] \in Seq(Ev) /\ sent[id] # <<>> /\ sent'[id] = Tail(sent[id])
      /\ \A i \in Id : i # id => sent'[i] = sent[i]
      /\ e \in Ev /\ e.id = id
  BY <1>1 DEF TakeStep, fs
<1>4. \A d : NamesIn(Used, d)' = NamesIn(Used, d)
  BY <1>3 DEF NamesIn, Used
<1> SUFFICES ASSUME NEW d \in Dir
             PROVE  Balanced(sent'[d], List(pool, d), fsevents, nb_children'[d],
                             Cardinality(NamesIn(Used, d)), d)
  BY <1>3, <1>4 DEF CountInv
<1>5. PICK u, v, w \in Int :
         /\ IsSum(sent[d], d, u) /\ IsSum(List(pool, d), d, v) /\ IsSum(fsevents, d, w)
         /\ nb_children[d] + u + v + w = Cardinality(NamesIn(Used, d))
  BY DEF CountInv, Balanced
<1> DEFINE x == Inc(e, d)
<1>6. x \in Int /\ nb_children[d] \in Int
  BY <1>3, IncType DEF TypeInv, DbInv
<1>7. IsSum(sent'[d], d, u - x)
  <2>1. CASE id = d
    BY <1>3, <1>5, <2>1, SumTail
  <2>2. CASE id # d
    <3>1. x = 0 /\ sent'[d] = sent[d] /\ u - 0 = u
      BY <1>3, <1>5, <2>2 DEF Inc, Id
    <3> QED
      BY <1>5, <3>1
  <2> QED
    BY <2>1, <2>2
<1>8. nb_children'[d] = nb_children[d] + x
  BY <1>2
<1> HIDE DEF x
<1>9. u - x \in Int /\ nb_children'[d] + (u - x) + v + w = Cardinality(NamesIn(Used, d))
  BY <1>5, <1>6, <1>8
<1> QED
  BY <1>5, <1>7, <1>9 DEF Balanced

\* Every step keeps the invariant.
LEMMA ChildrenStep ==
    ASSUME ChildrenInv, [Next]_vars
    PROVE  ChildrenInv'
<1>1. TypeInv /\ TypeInv' /\ Disjoint /\ Finite /\ (crashes = 0 => CountInv)
  BY TypeStep DEF ChildrenInv
<1>2. ASSUME links' = links PROVE Disjoint' /\ Finite'
  <2>1. \A d : NamesIn(Used, d)' = NamesIn(Used, d)
    BY <1>2 DEF NamesIn, Used
  <2> QED
    BY <1>1, <1>2, <2>1 DEF Disjoint, Finite
<1>3. ASSUME fsevents' = fsevents, links' = links, sent' = sent, nb_children' = nb_children,
             \A i : List(pool, i)' = List(pool, i), CountInv
      PROVE  CountInv'
  <2>1. \A d : NamesIn(Used, d)' = NamesIn(Used, d)
    BY <1>3 DEF NamesIn, Used
  <2> QED
    BY <1>3, <2>1 DEF CountInv
<1>4. CASE UserStep
  <2>1. PICK events : LogsRecord(events) /\ Counts(events)
    BY <1>1, <1>4, UserCounts DEF TypeInv
  <2>2. crashes' = crashes
    BY <2>1 DEF LogsRecord, Logged
  <2>3. crashes' = 0 => CountInv'
    BY <1>1, <2>1, <2>2, LogKeepsCount
  <2> QED
    BY <1>1, <2>1, <2>3 DEF ChildrenInv, Counts
<1>5. CASE PushDeduplicated \/ PushNew
  <2>1. PushStep(Head(fsevents))
    BY <1>5, PushSteps
  <2>2. links' = links /\ crashes' = crashes
    BY <2>1 DEF PushStep, fs, changelog
  <2>3. crashes' = 0 => CountInv'
    BY <1>1, <2>1, <2>2, PushKeepsCount
  <2> QED
    BY <1>1, <1>2, <2>2, <2>3 DEF ChildrenInv
<1>6. CASE PushFull
  <2>1. /\ fsevents' = fsevents /\ links' = links /\ sent' = sent /\ crashes' = crashes
        /\ nb_children' = nb_children /\ \A i : List(pool, i)' = List(pool, i)
    BY <1>1, <1>6, FullKeepsTypes DEF fs, changelog, db
  <2> QED
    BY <1>1, <1>2, <1>3, <2>1 DEF ChildrenInv
<1>7. CASE Flush
  <2>1. links' = links /\ crashes' = crashes
    BY <1>7 DEF Flush, fs
  <2>2. crashes' = 0 => CountInv'
    BY <1>1, <1>7, <2>1, FlushKeepsCount
  <2> QED
    BY <1>1, <1>2, <2>1, <2>2 DEF ChildrenInv
<1>8. CASE \E i \in Id : Process(i) \/ Skip(i)
  <2>1. links' = links /\ crashes' = crashes
    BY <1>8 DEF Process, Skip, fs, changelog
  <2>2. crashes' = 0 => CountInv'
    BY <1>1, <1>8, <2>1, TakeKeepsCount
  <2> QED
    BY <1>1, <1>2, <2>1, <2>2 DEF ChildrenInv
<1>9. CASE Ack
  <2>1. /\ fsevents' = fsevents /\ links' = links /\ sent' = sent /\ crashes' = crashes
        /\ nb_children' = nb_children /\ \A i : List(pool, i)' = List(pool, i)
    BY <1>1, <1>9, AckKeepsTypes DEF AckEffect, fs, db
  <2> QED
    BY <1>1, <1>2, <1>3, <2>1 DEF ChildrenInv
<1>10. CASE Crash
  <2>1. links' = links /\ crashes' > 0
    BY <1>1, <1>10, CrashKeepsTypes DEF CrashEffect, fs
  <2>2. crashes' # 0
    BY <1>1, <2>1 DEF TypeInv, FsInv
  <2> QED
    BY <1>1, <1>2, <2>1, <2>2 DEF ChildrenInv
<1>11. CASE UNCHANGED vars
  <2>1. /\ fsevents' = fsevents /\ links' = links /\ sent' = sent /\ crashes' = crashes
        /\ nb_children' = nb_children /\ pool' = pool
    BY <1>11 DEF vars, fs, changelog, db
  <2>2. \A i : List(pool, i)' = List(pool, i)
    BY <2>1 DEF List, Holds
  <2> QED
    BY <1>1, <1>2, <1>3, <2>1, <2>2 DEF ChildrenInv
<1> QED
  BY <1>4, <1>5, <1>6, <1>7, <1>8, <1>9, <1>10, <1>11 DEF Next, RbhStep

\* Once rbh-fsevents has caught up, and as long as no record had to be read again,
\* nb_children of a directory in the database is the number of names in it, however
\* the increments were added up in the pool, split between batches and reordered
\* between workers (update_parent_nb_children_event, dedup_xattrs).
THEOREM ChildrenAreCounted == Spec => []ChildrenCounted
<1>1. Init => ChildrenInv
  BY ChildrenInit
<1>2. ChildrenInv /\ [Next]_vars => ChildrenInv'
  BY ChildrenStep
<1>3. ChildrenInv => ChildrenCounted
  <2> SUFFICES ASSUME ChildrenInv, CaughtUp, crashes = 0, NEW d \in Dir
               PROVE  nb_children[d] = Cardinality(NamesIn(Used, d))
    BY DEF ChildrenCounted, NamesIn
  <2>1. PICK u, v, w \in Int :
           /\ IsSum(sent[d], d, u) /\ IsSum(List(pool, d), d, v) /\ IsSum(fsevents, d, w)
           /\ nb_children[d] + u + v + w = Cardinality(NamesIn(Used, d))
    BY DEF ChildrenInv, CountInv, Balanced
  <2>2. sent[d] = <<>> /\ List(pool, d) = <<>> /\ fsevents = <<>>
    BY CaughtUpFacts DEF ChildrenInv, Id
  <2>3. u = 0 /\ v = 0 /\ w = 0
    BY <2>1, <2>2, SumEmpty
  <2>4. nb_children[d] \in Int
    BY DEF ChildrenInv, TypeInv, DbInv
  <2> QED
    BY <2>1, <2>3, <2>4
<1> QED
  BY <1>1, <1>2, <1>3, PTL DEF Spec
=============================================================================
