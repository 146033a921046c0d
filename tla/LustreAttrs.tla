---------------------------- MODULE LustreAttrs -----------------------------
(***************************************************************************)
(* The lustre extension of the posix plugin: the attributes stored of a    *)
(* Lustre inode and the predicates about them.                             *)
(*                                                                         *)
(* An inode is [type, fd, layout, hsm, lmv, mdt, project, failing]: fd     *)
(* tells whether it could be opened (the ldiskfs backend reads a device    *)
(* and has none), layout is <<>> or one [composite, flags, state, gen,     *)
(* components], lmv is <<>> or one [objects, hash, flags], and failing the *)
(* calls of liblustreapi that return an error. An enrichment is [rc,       *)
(* xattrs]: rc is -1 or the number of pairs the caller takes for filled.   *)
(***************************************************************************)
EXTENDS Predicates

CONSTANT FsDefault    \* key -> <<>> or the value of the root's default layout

REG == S_IF.f
DIR == S_IF.d

LCME_FL_INIT == 16
LCME_FL_EXTENSION == 64
HSM_STATE == [exists |-> 1, dirty |-> 2, released |-> 4, archived |-> 8,
              norelease |-> 16, noarchive |-> 32, lost |-> 64]
PATTERN == [raid0 |-> 0, mdt |-> 2, overstriped |-> 4,
            released |-> 2^(W32 - 1)]
MIRROR_STATE == [ro |-> 1, wp |-> 2, sp |-> 3]
HASH_TYPE == [all_char |-> 1, fnv_1a_64 |-> 2, crush |-> 3, crush2 |-> 4]
ENODATA == 61

Failed == [rc |-> -1, xattrs |-> <<>>]
Filled(xattrs) == [rc |-> Cardinality(DOMAIN xattrs), xattrs |-> xattrs]
Nothing == Filled(<<>>)

xattrs_get_fid(inode, available) ==
    IF available < 1 \/ "fid" \in inode.failing THEN Failed
    ELSE Filled("fid" :> Val("BINARY", inode.fid))

xattrs_get_hsm(inode, available) ==
    CASE inode.type # REG -> Nothing
      [] available < 2 \/ "hsm" \in inode.failing -> Failed
      [] inode.hsm.states = 0 /\ inode.hsm.archive = 0 -> Nothing
      [] OTHER -> Filled(("hsm_state" :> Val("UINT32", inode.hsm.states))
                    @@ ("hsm_archive_id" :> Val("UINT32", inode.hsm.archive)))

xattrs_get_project_id(inode, available) ==
    CASE inode.type \notin {REG, DIR} -> Nothing
      [] available < 1 \/ "project" \in inode.failing -> Failed
      [] OTHER -> Filled("project_id" :> Val("UINT32", inode.project))

\* fill_iterator_data(): the OSTs of a component are known once it is
\* initialised (and has no other flag); -1 stands for those of another.
Osts(layout, c) ==
    IF c.flags \in {LCME_FL_INIT, LCME_FL_EXTENSION} \/ ~layout.composite
    THEN c.osts ELSE <<-1>>

IsExtension(c) == LCME_FL_EXTENSION \in {2^b : b \in BitsOf(c.flags, W32)}

PerComponent(type, values) ==
    Val("SEQUENCE", [i \in DOMAIN values |-> Val(type, values[i])])

\* What xattrs_fill_layout() stores for the components.
ComponentPairs(inode, layout) ==
    LET cs == layout.components
        Each(field) == [i \in DOMAIN cs |-> cs[i][field]]
        Sizes(extension) ==
            [i \in DOMAIN cs |-> IF IsExtension(cs[i]) = extension THEN cs[i].size ELSE 0]
        osts == FlattenSeq([i \in DOMAIN cs |-> Osts(layout, cs[i])])
    IN ("stripe_count" :> PerComponent("UINT64", Each("count")))
         @@ ("stripe_size" :> PerComponent("UINT64", Sizes(FALSE)))
         @@ ("pattern" :> PerComponent("UINT64", Each("pattern")))
         @@ ("comp_flags" :> PerComponent("UINT32", Each("flags")))
         @@ ("pool" :> PerComponent("STRING", Each("pool")))
         @@ (IF ~layout.composite THEN <<>>
             ELSE ("mirror_id" :> PerComponent("UINT32", Each("mirror")))
                    @@ ("begin" :> PerComponent("UINT64", Each("begin")))
                    @@ ("end" :> PerComponent("UINT64", Each("end"))))
         @@ (IF inode.type = DIR THEN <<>>
             ELSE "ost" :> PerComponent("INT64", osts))
         @@ (IF \A i \in DOMAIN cs : ~IsExtension(cs[i]) THEN <<>>
             ELSE "extension_size" :> PerComponent("UINT64", Sizes(TRUE)))

LayoutHeader(inode, layout) ==
    ("flags" :> Val("UINT32", layout.flags))
      @@ (IF inode.type = DIR THEN <<>>
          ELSE ("magic" :> Val("STRING", IF layout.composite
                                         THEN "LOV_USER_MAGIC_COMP_V1"
                                         ELSE "LOV_USER_MAGIC_V3"))
                 @@ ("gen" :> Val("UINT32", layout.gen)))
      @@ (IF ~layout.composite THEN <<>>
          ELSE ("mirror_count" :> Val("UINT32",
                   Cardinality({layout.components[i].mirror :
                                   i \in DOMAIN layout.components})))
                 @@ ("mirror_state" :> Val("UINT32", layout.state)))
      @@ ("comp_count" :> Val("UINT32", Len(layout.components)))

\* Mutant: the room for the list of OSTs is not asked for.
RequiredPairsNoOst(inode, layout) ==
    Cardinality(DOMAIN ComponentPairs(inode, layout)) - 1

\* The pairs xattrs_get_layout() asks for before it fills those of the
\* components: one too few for a directory.
RequiredPairs(inode, layout) ==
    (IF layout.composite THEN 8 ELSE 5)
      + (IF inode.type = DIR THEN -1 ELSE 1)
      + (IF "extension_size" \in DOMAIN ComponentPairs(inode, layout)
         THEN 1 ELSE 0)

\* Without a file descriptor and without trusted.lov the positive ENODATA is
\* returned, which the caller takes for a number of pairs.
xattrs_get_layout(inode, available) ==
    LET header == IF inode.type = REG THEN 3 ELSE 1
    IN CASE inode.type \notin {REG, DIR} -> Nothing
         [] available < header -> Failed
         [] inode.layout = <<>> /\ ~inode.fd -> [rc |-> ENODATA, xattrs |-> <<>>]
         [] "layout" \in inode.failing -> Failed
         [] inode.layout = <<>> -> IF inode.type = DIR THEN Nothing ELSE Failed
         [] OTHER ->
              LET layout == inode.layout[1]
                  used == Cardinality(DOMAIN LayoutHeader(inode, layout))
              IN IF used > available
                      \/ available - used < RequiredPairs(inode, layout)
                 THEN Failed
                 ELSE Filled(LayoutHeader(inode, layout)
                               @@ ComponentPairs(inode, layout))

\* A directory that is not striped is on one MDT.
xattrs_get_mdt_info(inode, available) ==
    CASE available < (CASE inode.type = DIR -> 5 [] inode.type = REG -> 1
                        [] OTHER -> 0) -> Failed
      [] inode.type \notin {REG, DIR} -> Nothing
      [] "mdt" \in inode.failing \/ ~inode.fd -> Failed
      [] OTHER ->
           Filled(("mdt_index" :> Val("INT32", inode.mdt))
             @@ (CASE inode.type = REG -> <<>>
                   [] inode.lmv = <<>> -> "mdt_count" :> Val("UINT32", 1)
                   [] OTHER ->
                        LET lmv == inode.lmv[1]
                        IN ("child_mdt_idx" :> Val("SEQUENCE",
                               [i \in DOMAIN lmv.objects |->
                                   Val("UINT32", lmv.objects[i])]))
                             @@ ("mdt_hash" :> Val("UINT32", lmv.hash))
                             @@ ("mdt_hash_flags" :> Val("UINT32", lmv.flags))
                             @@ ("mdt_count" :>
                                    Val("UINT32", Len(lmv.objects)))))

\* _get_attrs(): every function is called, but one that fails fails them all.
GetAttrs(inode, functions, available) ==
    LET call(name, left) ==
            CASE name = "fid"     -> xattrs_get_fid(inode, left)
              [] name = "hsm"     -> xattrs_get_hsm(inode, left)
              [] name = "layout"  -> xattrs_get_layout(inode, left)
              [] name = "mdt"     -> xattrs_get_mdt_info(inode, left)
              [] name = "project" -> xattrs_get_project_id(inode, left)
        all == FoldLeft(LAMBDA sum, name :
                   LET part == call(name, available - sum.rc)
                   IN IF part.rc = -1 THEN [sum EXCEPT !.failed = TRUE]
                      ELSE [rc |-> sum.rc + part.rc, failed |-> sum.failed,
                            xattrs |-> sum.xattrs @@ part.xattrs],
                   [rc |-> 0, failed |-> FALSE, xattrs |-> <<>>], functions)
    IN IF all.failed THEN Failed ELSE [rc |-> all.rc, xattrs |-> all.xattrs]

\* rbh_lustre_enrich(): the whole inode, everything but the fid, or the layout
lustre_enrich(inode, what, available) ==
    GetAttrs(inode,
             CASE what = "all" -> <<"fid", "hsm", "layout", "mdt", "project">>
               [] what = "no_fid" -> <<"hsm", "layout", "mdt", "project">>
               [] what = "layout" -> <<"layout">>,
             available)

-----------------------------------------------------------------------------
(* The predicates.                                                         *)

hsm_state2filter(state) ==
    IF state = "none"
    THEN FilterAnd(filetype2filter("f"), FilterNot(ExistsNew(Xattr("hsm_state"))))
    ELSE U32("BITS_ANY_SET", Xattr("hsm_state"), HSM_STATE[state])

get_default_stripe_filter ==
    FilterAnd(filetype2filter("d"), FilterNot(ExistsNew(Xattr("trusted.lov"))))

\* A directory without a layout has that of the root, when it is known.
WithDefault(filter, selected) ==
    IF selected THEN FilterOr(filter, get_default_stripe_filter)
    ELSE FilterAnd(filter, FilterNot(get_default_stripe_filter))

\* stripe_count2filter() and stripe_size2filter()
stripe2filter(key, number) ==
    IF number.sign = "default" THEN get_default_stripe_filter
    ELSE LET filter == numeric2filter(Xattr(key), number, "EQUAL")
         IN WithDefault(filter,
                /\ FsDefault[key] # <<>>
                /\ Ordered(filter.op, FsDefault[key][1], filter.value.v))

layout_pattern2filter(pattern) ==
    IF pattern = "default" THEN get_default_stripe_filter
    ELSE WithDefault(
             U64(IF pattern = "released" THEN "BITS_ANY_SET" ELSE "EQUAL",
                 Xattr("pattern"), PATTERN[pattern]),
             FsDefault["pattern"] = <<PATTERN[pattern]>>)

\* Mutant: the two bounds may be met by two components.
comp2filterApart(key, arg) ==
    RangeNew(Xattr(key), Scale(Head(arg).n - 1, Head(arg).suffix),
             Wrap(Scale(Last(arg).n, Last(arg).suffix) + 1))

\* comp2filter(): arg is the sequence of the one or two sizes. The bounds are
\* unsigned and are swapped when they cross.
comp2filter(key, arg) ==
    LET size == Last(arg)
        first == Scale(Head(arg).n - 1, Head(arg).suffix)
        last == Wrap(Scale(size.n, size.suffix) + 1)
        before == Scale(size.n - 1, size.suffix)
        compare(op, n) == U64(op, Xattr(key), n)
    IN CASE size.sign = "-" /\ key = "begin" -> compare("LOWER_OR_EQUAL", before)
         [] size.sign = "-" ->
              ElemMatch(Xattr(key), <<compare("STRICTLY_GREATER", 0),
                                      compare("LOWER_OR_EQUAL", before)>>)
         [] size.sign = "+" -> compare("STRICTLY_GREATER",
                                       Scale(size.n, size.suffix))
         [] OTHER ->
              ElemMatch(Xattr(key),
                  <<compare("STRICTLY_GREATER", IF last < first THEN last ELSE first),
                    compare("STRICTLY_LOWER", IF last < first THEN first ELSE last)>>)

\* rbh_lustre_build_filter()
lustre_build_filter(p) ==
    CASE p.name \in {"comp-count", "mdt-count", "mirror-count"} ->
            numeric2filter(Xattr(p.key), p.arg, "EQUAL")
      [] p.name \in {"comp-start", "comp-end"} -> comp2filter(p.key, p.arg)
      [] p.name = "comp-flags" -> U32("BITS_ANY_SET", Xattr("comp_flags"), p.arg)
      [] p.name = "composite" -> ExistsNew(Xattr("mirror_count"))
      [] p.name = "extension-size" -> size2filter(Xattr("extension_size"), p.arg)
      [] p.name = "fid" -> CompareNew("EQUAL", Xattr("fid"), Val("BINARY", p.arg))
      [] p.name = "hash-type" ->
            U32("EQUAL", Xattr("mdt_hash"), HASH_TYPE[p.arg])
      [] p.name = "hsm-state" -> hsm_state2filter(p.arg)
      [] p.name = "ipool" -> regex2filter(Xattr("pool"), p.arg, ALL)
      [] p.name = "pool" -> regex2filter(Xattr("pool"), p.arg, {"SHELL_PATTERN"})
      [] p.name = "layout-pattern" -> layout_pattern2filter(p.arg)
      [] p.name \in {"mdt-index", "project-id"} ->
            U64("EQUAL", Xattr(p.key), p.arg)
      [] p.name = "mirror-state" ->
            U32("EQUAL", Xattr("mirror_state"), MIRROR_STATE[p.arg])
      [] p.name = "ost" -> CompareNew("IN", Xattr("ost"),
                              Val("SEQUENCE", <<Val("UINT64", p.arg)>>))
      [] p.name \in {"stripe-count", "stripe-size"} -> stripe2filter(p.key, p.arg)

=============================================================================
