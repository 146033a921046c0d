----------------------------- MODULE Extensions -----------------------------
(***************************************************************************)
(* An inode whose attributes change by the operations of the filesystem,   *)
(* the enrichment of its entry by the extensions of the posix plugin, and  *)
(* the predicates of rbh-find on what was stored, against what they mean   *)
(* for the inode.                                                          *)
(***************************************************************************)
EXTENDS Acl, Selinux, LustreAttrs, Retention

CONSTANTS Ids,          \* uids and gids of the named entries of an ACL
          AclPerms,     \* permissions of an entry of an ACL
          Subjects,     \* [uid, gids]
          Levels,       \* levels of a range and of -selinux-range-dominates
          Components,   \* sequence of components of a layout
          Expirations,  \* values of the retention attribute
          Dates,        \* dates of -expired-at
          LustreTests,  \* predicates of the lustre extension
          MaxSteps,     \* operations on the inode
          MaxRetentionSteps     \* and those of retention, rbh-sync's among them

VARIABLES inode,    \* the attributes of the inode
          mirror,   \* what the last rbh-sync stored of it, once there was one
          topic,    \* the extension they belong to
          steps

vars == <<inode, mirror, topic, steps>>

-----------------------------------------------------------------------------
(* ACLs: the group bits of the mode are the mask, once there is one.       *)

Octal(u, g, o) == u * 64 + g * 8 + o

AclOf(u, g, o) == <<[tag |-> "USER_OBJ", id |-> 0, perms |-> u],
                    [tag |-> "GROUP_OBJ", id |-> 0, perms |-> g],
                    [tag |-> "OTHER", id |-> 0, perms |-> o]>>

AclInode(u, g, o) ==
    [type |-> S_IF.f, uid |-> 1, gid |-> 1, mode |-> Octal(u, g, o),
     access |-> <<>>, default |-> <<>>]

\* setfacl: the named entry and a mask are added to the ACL
Setfacl ==
    /\ topic = "acl" /\ steps < MaxSteps
    /\ \E tag \in {"USER", "GROUP"}, id \in Ids, perms \in AclPerms,
          mask \in AclPerms :
         LET m == inode.mode
             old == IF inode.access # <<>> THEN inode.access
                    ELSE AclOf(m \div 64, (m \div 8) % 8, m % 8)
             kept == SelectSeq(old, LAMBDA e : /\ e.tag # "MASK"
                                               /\ <<e.tag, e.id>> # <<tag, id>>)
         IN inode' = [inode EXCEPT
                !.access = kept \o <<[tag |-> tag, id |-> id, perms |-> perms],
                                     [tag |-> "MASK", id |-> 0, perms |-> mask]>>,
                !.mode = Octal(m \div 64, mask, m % 8)]
    /\ steps' = steps + 1
    /\ UNCHANGED <<topic, mirror>>

\* chmod on an inode with an ACL changes its mask.
Chmod ==
    /\ topic = "acl" /\ steps < MaxSteps /\ inode.access # <<>>
    /\ \E mask \in AclPerms :
         inode' = [inode EXCEPT
             !.access = [i \in DOMAIN @ |-> IF @[i].tag = "MASK"
                                            THEN [@[i] EXCEPT !.perms = mask]
                                            ELSE @[i]],
             !.mode = Octal(@ \div 64, mask, @ % 8)]
    /\ steps' = steps + 1
    /\ UNCHANGED <<topic, mirror>>

AclEntry(i) ==
    [type |-> i.type, uid |-> i.uid, gid |-> i.gid, mode |-> i.mode]
      @@ acl_enrich(i).xattrs

Allows(perms, letter) == (perms \div 2^RWX[letter]) % 2 = 1

\* The access check algorithm of acl(5).
Granted(i, subject, letter) ==
    LET acl == IF i.access # <<>> THEN i.access
               ELSE AclOf(i.mode \div 64, (i.mode \div 8) % 8, i.mode % 8)
        mask == IF Tagged(acl, "MASK") = <<>> THEN 7 ELSE Perms(acl, "MASK")
        users == {k \in DOMAIN acl : acl[k].tag = "USER" /\ acl[k].id = subject.uid}
        member(gid) == \E k \in DOMAIN subject.gids : subject.gids[k] = gid
        groups == {k \in DOMAIN acl : \/ acl[k].tag = "GROUP" /\ member(acl[k].id)
                                      \/ acl[k].tag = "GROUP_OBJ" /\ member(i.gid)}
    IN CASE i.uid = subject.uid -> Allows(Perms(acl, "USER_OBJ"), letter)
         [] users # {} -> /\ Allows(mask, letter)
                          /\ \E k \in users : Allows(acl[k].perms, letter)
         [] groups # {} -> /\ Allows(mask, letter)
                           /\ \E k \in groups : Allows(acl[k].perms, letter)
         [] OTHER -> Allows(Perms(acl, "OTHER"), letter)

(* -readable, -writable and -executable of the acl extension select an entry
   exactly when the kernel would grant the access: the four filters of
   acl_access2filter() exclude each other in the order of the algorithm. *)
AccessAgrees ==
    topic = "acl" =>
        \A subject \in Subjects, letter \in {"r", "w", "x"} :
           Meaning(acl_access2filter(subject, letter), AclEntry(inode))
             <=> Granted(inode, subject, letter)

-----------------------------------------------------------------------------
(* SELinux: chcon writes another range.                                    *)

SelinuxInode(range) ==
    [type |-> S_IF.f, context |-> [user |-> "u", role |-> "r", type |-> "t",
                                   range |-> range]]

Chcon ==
    /\ topic = "selinux" /\ steps < MaxSteps
    /\ \E low \in Levels, high \in Levels, two \in BOOLEAN :
         inode' = SelinuxInode(IF two THEN <<low, high>> ELSE <<low>>)
    /\ steps' = steps + 1
    /\ UNCHANGED <<topic, mirror>>

Categories(level) ==
    UNION {level.items[i].first..level.items[i].last : i \in DOMAIN level.items}

(* -selinux-range-dominates LEVEL selects the entries whose high level has at
   least the sensitivity and all the categories of LEVEL, however the two sets
   of categories are written: the stored intervals are disjoint and never
   adjacent, so that one of them covers an interval of LEVEL. *)
DominatesAgrees ==
    topic = "selinux" =>
        \A level \in {l \in Levels : parse_level(l).ok} :
           LET range == inode.context.range
           IN Meaning(selinux_dominates_filter(level),
                      [type |-> inode.type] @@ fill_selinux_pairs(inode.context))
                <=> /\ RangeValid(range)
                    /\ Last(range).sens >= level.sens
                    /\ Categories(level) \subseteq Categories(Last(range))

-----------------------------------------------------------------------------
(* Retention: an inode is written, its retention is set, files of a        *)
(* directory are used, rbh-sync and later rbh-update-retention run.        *)

RetentionInode(type) ==
    [type |-> type, mtime |-> Now - 5, size |-> 0, blocks |-> 0, files |-> {},
     expires |-> <<>>, expiration_date |-> <<>>, deleted |-> FALSE]

Alive == topic = "retention" /\ steps < MaxRetentionSteps /\ ~inode.deleted

Write ==
    /\ Alive /\ inode.type = REG
    /\ \E t \in Dates, size \in {1, BLOCK - 1, BLOCK, BLOCK + 1}, blocks \in 0..2 :
         inode' = [inode EXCEPT !.mtime = t, !.size = size, !.blocks = blocks]
    /\ steps' = steps + 1
    /\ UNCHANGED <<topic, mirror>>

\* A file of the directory is used, or created, which changes the directory's mtime.
UseFile ==
    /\ Alive /\ inode.type = DIR
    /\ \E t \in {d \in Dates : 0 < d /\ d <= Now}, new \in BOOLEAN :
         /\ inode.files = {} => new
         /\ inode' = [inode EXCEPT !.files = @ \cup {t}, !.mtime = IF new THEN t ELSE @]
    /\ steps' = steps + 1
    /\ UNCHANGED <<topic, mirror>>

SetExpires ==
    /\ Alive
    /\ \E e \in Expirations : inode' = [inode EXCEPT !.expires = <<e>>]
    /\ steps' = steps + 1
    /\ UNCHANGED <<topic, mirror>>

\* The script of run_retention.rst drops the database before rbh-sync.
Synchronize ==
    /\ Alive /\ inode.type = DIR
    /\ mirror' = <<Mirrored(inode)>>
    /\ steps' = steps + 1
    /\ UNCHANGED <<topic, inode>>

\* Hours later: the inode may have changed.
UpdateRetention ==
    /\ Alive /\ mirror # <<>>
    /\ LET outcome == check_directory_expirancy(inode, mirror[1])
           updated == update_expiration_date(inode, mirror[1])
       IN CASE outcome = "deleted" ->
                  inode' = [inode EXCEPT !.deleted = TRUE] /\ UNCHANGED mirror
            [] outcome = "updated" ->
                  inode' = updated.inode /\ mirror' = <<updated.mirror>>
            [] OTHER -> UNCHANGED <<inode, mirror>>
    /\ steps' = steps + 1
    /\ UNCHANGED topic

\* The date the user asked for, as it was when the file was last written.
Asked(i) ==
    CASE i.expires[1].kind = "inf" -> INT64_MAX
      [] i.expires[1].kind = "+" -> i.mtime + i.expires[1].n
      [] OTHER -> i.expires[1].n

Readable(i) == /\ i.expires # <<>>
               /\ i.expires[1].kind \in {"inf", "+", "date"}
               /\ Asked(i) >= 0
               /\ i.expires[1].kind = "date" => Asked(i) <= INT64_MAX

(* A file is never taken for expired before the date its retention asks for,
   nor before a date that was stored for it earlier; a file without a
   retention, or with one that cannot be read, never is; and an infinite
   retention is none of the dates of -expired-at. *)
NeverExpiredEarly ==
    topic = "retention" =>
        LET entry == [type |-> inode.type] @@ enrich_from_xattrs(inode)
        IN /\ Meaning(expired2filter, entry) =>
                 /\ Readable(inode)
                 /\ Asked(inode) <= Now
                 /\ inode.expiration_date # <<>> => inode.expiration_date[1] <= Now
           /\ \A at \in Dates :
                 /\ Readable(inode) /\ inode.expires[1].kind = "inf" =>
                       ~Meaning(expired_at2filter([sign |-> "+", n |-> at]), entry)
                 /\ Meaning(expired_at2filter([sign |-> "", n |-> at]), entry) =>
                       Asked(inode) <= at

(* With --delete, rbh-update-retention only deletes a directory whose
   retention is over: no file of it was used too recently, and a directory
   that had no file at the last rbh-sync is not deleted with one in it
   (check_directory_expirancy). What it does not know of since the last rbh-sync
   does not save a directory that had files, or that has a date: the files used
   since, and another retention. A date may be up to Delay ahead. *)
DeletedOnlyExpired ==
    topic = "retention" /\ inode.deleted =>
        LET known == mirror[1]
            retention == known.expires[1]
        IN /\ retention.kind # "inf"
           /\ retention.kind = "date" =>
                 /\ retention.n <= Now + Delay
                 /\ inode.expiration_date # <<>> => inode.expiration_date[1] <= Now + Delay
           /\ retention.kind = "+" =>
                 \A t \in inode.files :
                     \/ t + retention.n <= Now
                     \/ known.files # {} /\ t \notin known.files

(* -sparse selects the regular files that are not empty and have fewer
   blocks than their size needs. *)
SparseAgrees ==
    topic = "retention" /\ inode.type = REG =>
        (Meaning(sparse2filter, [type |-> inode.type] @@ sparse_enrich(inode))
           <=> inode.size > 0 /\ BLOCK * inode.blocks < inode.size)

-----------------------------------------------------------------------------
(* Lustre: components are added to the layout, the file is archived, calls *)
(* of liblustreapi fail.                                                   *)

LustreInode(type) ==
    [type |-> type, fd |-> TRUE, fid |-> "fid", layout |-> <<>>,
     hsm |-> [states |-> 0, archive |-> 0], lmv |-> <<>>, mdt |-> 0,
     project |-> 0, failing |-> {}]

AddComponent ==
    /\ topic = "lustre" /\ steps < MaxSteps
    /\ \E k \in DOMAIN Components, composite \in BOOLEAN :
         LET old == IF inode.layout = <<>> THEN <<>>
                    ELSE inode.layout[1].components
         IN /\ old # <<>> => composite /\ inode.layout[1].composite
            /\ inode' = [inode EXCEPT !.layout =
                  <<[composite |-> composite, flags |-> 0, state |-> 1,
                     gen |-> Len(old),
                     components |-> Append(old, Components[k])]>>]
    /\ steps' = steps + 1
    /\ UNCHANGED <<topic, mirror>>

Archive ==
    /\ topic = "lustre" /\ steps < MaxSteps /\ inode.type = REG
    /\ \E states \in {HSM_STATE.exists, HSM_STATE.exists + HSM_STATE.archived} :
         inode' = [inode EXCEPT !.hsm = [states |-> states, archive |-> 1]]
    /\ steps' = steps + 1
    /\ UNCHANGED <<topic, mirror>>

\* lfs setdirstripe and lfs project
SetDirStripe ==
    /\ topic = "lustre" /\ steps < MaxSteps /\ inode.type = DIR
    /\ inode' = [inode EXCEPT !.lmv = <<[objects |-> <<0, 1>>, hash |-> 3,
                                         flags |-> 0]>>,
                              !.project = 7]
    /\ steps' = steps + 1
    /\ UNCHANGED <<topic, mirror>>

CallFails ==
    /\ topic = "lustre" /\ steps < MaxSteps /\ inode.failing = {}
    /\ \E call \in {"fid", "hsm", "layout", "mdt", "project"} :
         inode' = [inode EXCEPT !.failing = {call}]
    /\ steps' = steps + 1
    /\ UNCHANGED <<topic, mirror>>

LustreEntry(i, r) ==
    [type |-> i.type] @@ r.xattrs
      @@ (IF i.type = DIR /\ i.layout # <<>>
          THEN "trusted.lov" :> Val("BINARY", "lov") ELSE <<>>)

\* What a predicate of LustreTests means for the inode.
Compares(number, n) == Ordered([s \in {"-", "+", ""} |->
                                   CASE s = "-" -> "STRICTLY_LOWER"
                                     [] s = "+" -> "STRICTLY_GREATER"
                                     [] OTHER -> "EQUAL"][number.sign], n, number.n)

Selected(i, p) ==
    LET parts == IF i.layout = <<>> THEN {}
                 ELSE {i.layout[1].components[k] :
                          k \in DOMAIN i.layout[1].components}
        inherited == i.type = DIR /\ parts = {}
        composite == parts # {} /\ i.layout[1].composite
        unit(size) == 2^UNIT[size.suffix]
        lower == (Head(p.arg).n - 1) * unit(Head(p.arg))
        upper == Last(p.arg).n * unit(Last(p.arg))
        within(n) == CASE Last(p.arg).sign = "-" ->
                            n <= upper - unit(Last(p.arg))
                       [] Last(p.arg).sign = "+" -> n > upper
                       [] OTHER -> lower < n /\ n <= upper
    IN CASE p.name = "stripe-count" ->
              IF inherited
              THEN FsDefault[p.key] # <<>> /\ Compares(p.arg, FsDefault[p.key][1])
              ELSE \E c \in parts : Compares(p.arg, c.count)
         [] p.name = "layout-pattern" ->
              IF inherited
              THEN FsDefault.pattern = <<PATTERN[p.arg]>>
              ELSE \E c \in parts : c.pattern = PATTERN[p.arg]
         [] p.name = "comp-start" -> composite /\ \E c \in parts : within(c.begin)
         [] p.name = "comp-end" -> composite /\ \E c \in parts : within(c.end)
         [] p.name = "comp-count" ->
              parts # {} /\ Compares(p.arg, Len(i.layout[1].components))
         [] p.name = "ost" ->
              /\ i.type = REG
              /\ \E c \in parts : /\ ~composite \/ c.flags = LCME_FL_INIT
                                  /\ \E k \in DOMAIN c.osts : c.osts[k] = p.arg
         [] p.name = "hsm-state" ->
              /\ i.type = REG
              /\ IF p.arg = "none" THEN i.hsm.states = 0
                 ELSE (i.hsm.states \div HSM_STATE[p.arg]) % 2 = 1
         [] p.name = "mdt-count" ->
              /\ i.type = DIR
              /\ Compares(p.arg, IF i.lmv = <<>> THEN 1 ELSE Len(i.lmv[1].objects))
         [] p.name = "project-id" -> i.project = p.arg

(* A predicate of the lustre extension selects the inodes that have the
   attribute: a directory without a layout has the default of the filesystem,
   a bound of a component is compared on one component at a time, a file that
   was never archived is in the state "none". The enrichment must have
   succeeded: one failing call leaves the entry without any of them. *)
LustreAgrees ==
    topic = "lustre" =>
        LET r == lustre_enrich(inode, "all", 64)
        IN r.rc # -1 => \A p \in LustreTests :
               Meaning(lustre_build_filter(p), LustreEntry(inode, r))
                 <=> Selected(inode, p)

(* The enrichment of a file fills the pairs it says it does, and no more than
   there is room for. *)
PairsFit ==
    topic = "lustre" /\ inode.type = REG =>
        \A room \in 0..24, what \in {"all", "no_fid", "layout"} :
           LET r == lustre_enrich(inode, what, room)
           IN r.rc # -1 => r.rc = Cardinality(DOMAIN r.xattrs) /\ r.rc <= room

-----------------------------------------------------------------------------
Init ==
    /\ steps = 0 /\ mirror = <<>>
    /\ \/ topic = "acl" /\ \E u \in AclPerms, g \in AclPerms, o \in AclPerms :
                              inode = AclInode(u, g, o)
       \/ topic = "selinux" /\ \E l \in Levels : inode = SelinuxInode(<<l>>)
       \/ topic = "retention" /\ \E type \in {REG, DIR} : inode = RetentionInode(type)
       \/ topic = "lustre" /\ \E type \in {REG, DIR} : inode = LustreInode(type)

Next == \/ Setfacl \/ Chmod \/ Chcon \/ Write \/ UseFile \/ SetExpires
        \/ Synchronize \/ UpdateRetention \/ AddComponent \/ Archive \/ SetDirStripe \/ CallFails

Spec == Init /\ [][Next]_vars

(* What an extension stores of an inode and the predicates over it fit
   together: they select the inodes that have the property (ACLs, SELinux
   ranges, sparse files, Lustre layouts, HSM states and stripes). *)
PredicatesAgree == AccessAgrees /\ DominatesAgrees /\ SparseAgrees /\ LustreAgrees

(* A file does not count as expired, and a directory is not deleted, before
   its retention is over. *)
RetentionHonoured == NeverExpiredEarly /\ DeletedOnlyExpired
=============================================================================
