--------------------------- MODULE LustreRecords ---------------------------
(***************************************************************************)
(* The fsevents that one Lustre changelog record becomes                   *)
(* (rbh-fsevents/src/sources/lustre/source_reader.c).                      *)
(*                                                                         *)
(* An fsevent is a record:                                                 *)
(*    type    the RBH_FET_ constant,                                       *)
(*    id      the entry it is about,                                       *)
(*    link    <<parent, name>>, or NoLink when the type has none,          *)
(*    enrich  what the enricher will read in the file system for it: the   *)
(*            statx mask of an UPSERT, the "rbh-fsevents" map of an XATTR, *)
(*    inc     what an XATTR adds to nb_children.                           *)
(* Values the record itself carries (uid, gid, fid) cannot go stale and are*)
(* left out.  "nlink" stands for the link count and its ctime, "time" for  *)
(* the other timestamps and the mode, "size" for size and blocks.          *)
(***************************************************************************)
EXTENDS Integers, Sequences

NoLink == <<>>

Statx == {"nlink", "time", "size"}          \* RBH_STATX_ALL
Xattrs == {"xattr", "lustre"}

Fsevent(Id, Link) ==
    [type : {"LINK", "UNLINK", "UPSERT", "XATTR", "DELETE"},
     id : Id, link : Link \cup {NoLink}, enrich : SUBSET (Statx \cup Xattrs),
     inc : Int]

Event(type, id, link, enrich, inc) ==
    [type |-> type, id |-> id, link |-> link, enrich |-> enrich, inc |-> inc]

new_link_inode_event(id, link) == Event("LINK", id, link, {}, 0)

build_statx_event(id, mask) == Event("UPSERT", id, NoLink, mask, 0)

build_enrich_xattr(id, keys) == Event("XATTR", id, NoLink, keys, 0)

update_parent_acmtime_event(dir) == build_statx_event(dir, {"time"})

update_parent_nb_children_event(dir, inc) ==
    Event("XATTR", dir, NoLink, {}, inc)

unlink_inode_event(id, link, last_copy) ==
    IF last_copy THEN Event("DELETE", id, NoLink, {}, 0)
                 ELSE Event("UNLINK", id, link, {}, 0)

\* Mutant: the wrong half of a link.
NameAsParent(link) == link[2]

Parent(link) == link[1]

build_create_inode_events(id, link) ==
    << new_link_inode_event(id, link),
       build_enrich_xattr(id, {"lustre"}),
       build_statx_event(id, Statx),
       update_parent_acmtime_event(Parent(link)),
       update_parent_nb_children_event(Parent(link), 1) >>

build_setxattr_event(id) ==
    << build_statx_event(id, {"time"}),
       build_enrich_xattr(id, {"xattr"}),
       build_enrich_xattr(id, {"lustre"}) >>

\* CL_TRUNC and CL_CLOSE; layout, flrw and resync differ in the mask only.
build_statx_update_event(id) ==
    << build_statx_event(id, {"time", "size"}),
       build_enrich_xattr(id, {"lustre"}) >>

build_hardlink_events(id, link) ==
    << new_link_inode_event(id, link),
       build_statx_event(id, Statx),
       update_parent_acmtime_event(Parent(link)),
       update_parent_nb_children_event(Parent(link), 1) >>

build_unlink_events(id, link, last_copy) ==
    << unlink_inode_event(id, link, last_copy),
       update_parent_acmtime_event(Parent(link)),
       update_parent_nb_children_event(Parent(link), -1) >>

RenameTarget(id, to) ==
    << new_link_inode_event(id, to),
       build_statx_event(id, Statx),
       update_parent_acmtime_event(Parent(to)) >>

RenameSource(id, from) ==
    << unlink_inode_event(id, from, FALSE),
       update_parent_acmtime_event(Parent(from)),
       update_parent_nb_children_event(Parent(from), -1) >>

\* cr_tfid is zero: nothing is overwritten, and the target gets one more child.
build_rename_events(id, from, to) ==
    RenameTarget(id, to)
        \o << update_parent_nb_children_event(Parent(to), 1) >>
        \o RenameSource(id, from)

\* The rename overwrites the link that the entry over has at to.
build_rename_over_events(id, from, to, over, last_copy) ==
    << unlink_inode_event(over, to, last_copy) >>
        \o RenameTarget(id, to)
        \o RenameSource(id, from)
=============================================================================
