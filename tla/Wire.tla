-------------------------------- MODULE Wire --------------------------------
(***************************************************************************)
(* The way of an fsevent: written to a YAML file (the file sink of         *)
(* rbh-fsevents), read back by the file source (file.c, yaml_file.c),      *)
(* cloned (fsevent.c), stored in Mongo, and read as fsentries (fsentry.c). *)
(* Or the sink is Mongo, and there is no file.                             *)
(* The file may also hold documents that somebody else has written.        *)
(***************************************************************************)
EXTENDS MongoDocuments

CONSTANTS Events,        \* sequence of the fsevents to write
          HandWritten,   \* sequence of documents no sink has written
          Projections,   \* sequence of the projections readers ask for
          MaxEvents      \* bound: documents read

VARIABLES stage,         \* "idle", "written", "parsed", "stopped", "refused"
          doc,           \* the document in the file
          sent,          \* option: the fsevent the document was written from
          statxbuf,      \* static variable of parse_upsert()
          got,           \* option: the fsevent of the source
          documents,     \* the collection
          want,          \* ghost: what the fsevents read so far say
          count          \* documents read

vars == <<stage, doc, sent, statxbuf, got, documents, want, count>>

NoDoc == Mapping("", <<>>)

-----------------------------------------------------------------------------
(* Sizes of the clones                                                     *)

STATX == 256
ID == 16

\* The id is not aligned.
fsevent_data_sizePacked(e) == Len(e.id) + MapSize(e.xattrs)

\* fsevent_data_size()
fsevent_data_size(e) ==
    LET map == Align(Len(e.id)) + MapSize(e.xattrs)
        statx == IF e.statx = <<>> THEN map ELSE Align(map) + STATX
    IN CASE e.type = "UPSERT" ->
               statx + (IF e.symlink = <<>> THEN 0 ELSE StrSize(e.symlink[1]))
         [] e.ns # <<>> ->
               Align(map) + ID + Len(e.ns[1].parent) + StrSize(e.ns[1].name)
         [] OTHER -> map

\* fsevent_copy(): the position behind the copy.
fsevent_copy(e) ==
    LET map == MapCopy(e.xattrs, Len(e.id))
        statx == IF e.statx = <<>> THEN map ELSE Align(map) + STATX
    IN CASE e.type = "UPSERT" ->
               statx + (IF e.symlink = <<>> THEN 0 ELSE StrSize(e.symlink[1]))
         [] e.ns # <<>> ->
               Align(map) + ID + Len(e.ns[1].parent) + StrSize(e.ns[1].name)
         [] OTHER -> map

\* rbh_fsentry_new(): the names and the ids, a statx, the two maps.
EntryNames(id, entry) ==
    (IF entry.symlink = <<>> THEN 0 ELSE StrSize(entry.symlink[1])) + Len(id)
      + (IF entry.ns = <<>> THEN 0
         ELSE Len(entry.ns[1].parent) + StrSize(entry.ns[1].name))
EntrySize(id, entry) ==
    LET ns == Align(EntryNames(id, entry)) + STATX
        inode == IF entry.ns = <<>> THEN ns
                 ELSE Align(ns) + MapSize(entry.ns[1].xattrs)
    IN Align(inode) + MapSize(entry.xattrs)
EntryCopy(id, entry) ==
    LET ns == Align(EntryNames(id, entry)) + STATX
        inode == IF entry.ns = <<>> THEN ns
                 ELSE MapCopy(entry.ns[1].xattrs, ns)
    IN MapCopy(entry.xattrs, inode)

-----------------------------------------------------------------------------
(* What the fsevents mean: an entry is [statx, symlink, xattrs, links],    *)
(* with functions for the fields, the xattrs and the links.                *)

NoEntry == [statx |-> <<>>, symlink |-> <<>>, xattrs |-> <<>>, links |-> <<>>]

\* What a reader gets for a value: BSON has no unsigned integers and no NULL.
RECURSIVE AsRead(_)
AsRead(value) ==
    CASE value.type = "UINT32" -> Val("INT32", Signed(value.v, W32))
      [] value.type = "UINT64" -> Val("INT64", Signed(value.v, W64))
      [] value.type \in {"NIL", "NULL"} -> Val("BINARY", "")
      [] value.type = "SEQUENCE" ->
            Val("SEQUENCE", [i \in DOMAIN value.v |-> AsRead(value.v[i])])
      [] value.type = "MAP" ->
            Val("MAP", [i \in DOMAIN value.v |->
                          [value.v[i] EXCEPT !.value = AsRead(@)]])
      [] OTHER -> value

AsFunction(pairs) ==
    [key \in {pairs[i].key : i \in DOMAIN pairs} |-> FindKey(pairs, key)]

\* nb_children: the latest count stays, and a final one of the same time.
NewerChildren(old, new) ==
    LET field(m, key) == FindKey(m.v, key).v
    IN \/ field(new, "timestamp") > field(old, "timestamp")
       \/ /\ field(new, "timestamp") = field(old, "timestamp")
          /\ ~field(old, "final")

\* An upsert adds to a map what it sets; every other set replaces the value.
Added(type, old, new) ==
    IF type = "UPSERT" /\ old.type = "MAP" /\ new.type = "MAP"
    THEN LET rest == SelectSeq(new.v, LAMBDA p : ~\E i \in DOMAIN old.v :
                                                     old.v[i].key = p.key)
             kept(p) == IF \E i \in DOMAIN new.v : new.v[i].key = p.key
                        THEN [p EXCEPT !.value = FindKey(new.v, p.key)] ELSE p
         IN Val("MAP", [i \in DOMAIN old.v |-> kept(old.v[i])] \o rest)
    ELSE new

Applied(type, xattrs, ops) ==
    LET keys == {ops[i].key : i \in DOMAIN ops}
        op(key) == FindKey(ops, key).v[1]
        old(key) == key \in DOMAIN xattrs
        value(key) ==
            CASE key \notin keys -> xattrs[key]
              [] op(key).key = "inc" /\ old(key) ->
                    [AsRead(op(key).value) EXCEPT !.v = @ + xattrs[key].v]
              [] key = "nb_children" /\ old(key) ->
                    IF NewerChildren(xattrs[key], op(key).value)
                    THEN AsRead(op(key).value) ELSE xattrs[key]
              [] op(key).key = "set" /\ old(key) ->
                    Added(type, xattrs[key], AsRead(op(key).value))
              [] OTHER -> AsRead(op(key).value)
    IN [key \in (DOMAIN xattrs \cup keys) \ {k \in keys : op(k).key = "unset"}
          |-> value(key)]

Meaning(w, e) ==
    LET old == IF e.id \in DOMAIN w THEN w[e.id] ELSE NoEntry
        put(new) == (e.id :> new) @@ w
        field(f) ==
            LET new == FieldOf(e.statx[1], f)
            IN IF f # <<"attributes">> \/ f \notin DOMAIN old.statx THEN new
               ELSE [mask |-> old.statx[f].mask \cup new.mask,
                     set |-> (old.statx[f].set \ new.mask) \cup new.set]
        fields == IF e.statx = <<>> THEN <<>>
                  ELSE [f \in e.statx[1].mask |-> field(f)]
    IN CASE e.type = "UPSERT" ->
               put([old EXCEPT !.statx = fields @@ @,
                               !.symlink = IF e.symlink = <<>> THEN @ ELSE e.symlink,
                               !.xattrs = Applied(e.type, @, e.xattrs)])
         [] e.type = "LINK" ->
               put([old EXCEPT !.links =
                      (e.ns[1] :> AsFunction(AsRead(Val("MAP", e.xattrs)).v)) @@ @])
         [] e.id \notin DOMAIN w -> w
         [] e.type = "DELETE" -> [id \in DOMAIN w \ {e.id} |-> w[id]]
         [] e.type = "UNLINK" ->
               put([old EXCEPT !.links =
                      [l \in DOMAIN @ \ {e.ns[1]} |-> @[l]]])
         [] e.type = "XATTR" /\ e.ns = <<>> ->
               put([old EXCEPT !.xattrs = Applied(e.type, @, e.xattrs)])
         [] e.ns[1] \in DOMAIN old.links ->
               put([old EXCEPT !.links[e.ns[1]] = Applied(e.type, @, e.xattrs)])
         [] OTHER -> w

-----------------------------------------------------------------------------
Init ==
    /\ stage = "idle" /\ doc = NoDoc /\ sent = <<>> /\ statxbuf = ZeroStatx
    /\ got = <<>> /\ documents = <<>> /\ want = <<>> /\ count = 0

\* file_sink_process(): one document per fsevent.
Emit(i) ==
    /\ stage = "idle" /\ count < MaxEvents
    /\ doc' = emit_fsevent(Events[i])
    /\ sent' = <<Events[i]>>
    /\ stage' = "written"
    /\ UNCHANGED <<statxbuf, got, documents, want, count>>

\* rbh-fsevents, when its sink is Mongo.
Feed(i) ==
    /\ stage = "idle" /\ count < MaxEvents
    /\ got' = <<Events[i]>>
    /\ sent' = <<>>
    /\ stage' = "parsed"
    /\ count' = count + 1
    /\ UNCHANGED <<doc, statxbuf, documents, want>>

\* Somebody else's document.
Write(i) ==
    /\ stage = "idle" /\ count < MaxEvents
    /\ doc' = HandWritten[i]
    /\ sent' = <<>>
    /\ stage' = "written"
    /\ UNCHANGED <<statxbuf, got, documents, want, count>>

\* yaml_fsevent_iter_next(): parser_error() ends the program when a document
\* cannot be read.
Next_(r) ==
    IF r = Fail THEN /\ stage' = "stopped"
                     /\ UNCHANGED <<statxbuf, got>>
    ELSE /\ got' = <<r[1].e>>
         /\ statxbuf' = r[1].statxbuf
         /\ stage' = "parsed"

yaml_fsevent_iter_next ==
    /\ stage = "written"
    /\ Next_(parse_fsevent(statxbuf, doc))
    /\ count' = count + 1
    /\ UNCHANGED <<doc, sent, documents, want>>

\* mongo_backend_update(): an update that cannot be built, or that Mongo
\* refuses, ends the program.
Store ==
    /\ stage = "parsed"
    /\ IF UpdateFails(got[1]) \/ PipelineFails(got[1])
       THEN stage' = "refused" /\ UNCHANGED <<documents, want>>
       ELSE /\ documents' = mongo_update(documents, got[1])
            /\ want' = Meaning(want, got[1])
            /\ stage' = "idle"
    /\ doc' = NoDoc
    /\ UNCHANGED <<sent, statxbuf, got, count>>

Next ==
    \/ \E i \in DOMAIN Events : Emit(i)
    \/ \E i \in DOMAIN Events : Feed(i)
    \/ \E i \in DOMAIN HandWritten : Write(i)
    \/ yaml_fsevent_iter_next
    \/ Store

Spec == Init /\ [][Next]_vars

-----------------------------------------------------------------------------
(* Equality of values: TLC compares only values of one type.               *)

RECURSIVE Same(_, _)
Same(a, b) ==
    /\ a.type = b.type
    /\ CASE a.type \in {"NIL", "NULL"} -> TRUE
         [] a.type = "SEQUENCE" ->
               /\ Len(a.v) = Len(b.v)
               /\ \A i \in DOMAIN a.v : Same(a.v[i], b.v[i])
         [] a.type = "MAP" ->
               /\ Len(a.v) = Len(b.v)
               /\ \A i \in DOMAIN a.v :
                     a.v[i].key = b.v[i].key /\ Same(a.v[i].value, b.v[i].value)
         [] OTHER -> a.v = b.v

SamePairs(a, b) == Same(Val("MAP", a), Val("MAP", b))
SameFunction(f, g) ==
    DOMAIN f = DOMAIN g /\ \A key \in DOMAIN f : Same(f[key], g[key])

RECURSIVE HasType(_, _)
HasType(value, type) ==
    \/ value.type = type
    \/ value.type = "SEQUENCE" /\ \E i \in DOMAIN value.v : HasType(value.v[i], type)
    \/ value.type = "MAP" /\ \E i \in DOMAIN value.v : HasType(value.v[i].value, type)

\* YamlKept: the source gives every fsevent the sink has written back, with
\* all its parts: the type, the id, the link, the symlink, the xattrs with the
\* types of their values, and every statx field it has set but the id of the
\* mount, which is lost. It stops only at an xattr that holds a double.
YamlKept ==
    sent # <<>> =>
        /\ stage = "stopped" => HasType(Val("MAP", sent[1].xattrs), "DOUBLE")
        /\ stage = "parsed" =>
              LET s == sent[1] g == got[1]
              IN /\ <<g.type, g.id, g.symlink, g.ns>> = <<s.type, s.id, s.symlink, s.ns>>
                 /\ SamePairs(g.xattrs, s.xattrs)
                 /\ Len(g.statx) = Len(s.statx)
                 /\ s.statx # <<>> =>
                       /\ s.statx[1].mask \ {<<"mnt_id">>} \subseteq g.statx[1].mask
                       /\ \A f \in s.statx[1].mask \ {<<"mnt_id">>} :
                             FieldOf(g.statx[1], f) = FieldOf(s.statx[1], f)

\* ParsedComplete: whatever the file holds, an fsevent the source gives has
\* what its type needs: an id, a parent and a name for a link and an unlink,
\* both or none of them for an xattr, no link for an upsert.
ParsedComplete ==
    stage = "parsed" =>
        LET e == got[1]
        IN /\ e.id # ""
           /\ e.type \in {"LINK", "UNLINK"} => e.ns # <<>>
           /\ e.ns # <<>> => e.ns[1].parent # "" /\ e.ns[1].name # ""
           /\ e.type \in {"UPSERT", "DELETE"} => e.ns = <<>>

\* The fsentries a reader gets for an id with a projection.
Read(id, p) ==
    LET d == documents[id]
    IN [i \in DOMAIN d.ns |->
          fsentry_from_bson(bson_append_fot_projection(d, d.ns[i], p))]

Projected(w, p) ==
    [statx |-> IF "statx" \in p.parts
               THEN [f \in DOMAIN w.statx \cap p.statx |-> w.statx[f]] ELSE <<>>,
     symlink |-> IF "symlink" \in p.parts THEN w.symlink ELSE <<>>,
     xattrs |-> IF "xattrs" \notin p.parts THEN <<>>
                ELSE [key \in {k \in DOMAIN w.xattrs :
                                 p.xattrs = {} \/ k \in p.xattrs} |-> w.xattrs[key]]]

\* An event with nothing to store.
Empty(e) ==
    /\ e.xattrs = <<>> /\ e.symlink = <<>>
    /\ \/ e.type = "XATTR"
       \/ e.type = "UPSERT" /\ (e.statx = <<>> \/ e.statx[1].mask = {}
                              \/ e.statx[1].mask = {<<"attributes">>})

\* ReadBack: the links of an entry in the database are those of the fsevents
\* stored, each once; and a reader that asks for some of the fields gets, for
\* each link, those fields with the values of the last fsevents that set them,
\* unless the xattrs exceed the buffer or the type is not a symlink's. Only an
\* empty update, and an upsert that removes or increments an xattr, are refused.
ReadBack ==
    /\ stage = "refused" =>
          \/ Empty(got[1])
          \/ /\ got[1].type = "UPSERT"
             /\ \E i \in DOMAIN got[1].xattrs :
                   got[1].xattrs[i].value.v[1].key \in {"unset", "inc"}
    /\ stage = "idle" =>
           /\ DOMAIN documents = DOMAIN want
           /\ \A id \in DOMAIN want :
                 LET ns == documents[id].ns
                 IN /\ {[parent |-> ns[i].parent, name |-> ns[i].name] :
                           i \in DOMAIN ns} = DOMAIN want[id].links
                    /\ Len(ns) = Cardinality(DOMAIN want[id].links)
                    /\ \A k \in DOMAIN Projections :
                       LET p == Projections[k]
                           read == Read(id, p)
                           w == Projected(want[id], p)
                       IN \A i \in {j \in DOMAIN read : read[j] # Fail} :
                           LET entry == read[i][1]
                           IN /\ DOMAIN w.statx = entry.statx.mask
                              /\ \A f \in DOMAIN w.statx :
                                    FieldOf(entry.statx, f) = w.statx[f]
                              /\ entry.symlink = w.symlink
                              /\ SameFunction(AsFunction(entry.xattrs), w.xattrs)
                              /\ "ns" \in p.parts =>
                                    SameFunction(AsFunction(entry.ns[1].xattrs),
                                       want[id].links[[parent |-> entry.ns[1].parent,
                                                       name |-> entry.ns[1].name]])

\* ReadFails: an entry whose xattrs fit the buffer and whose symlink, if it
\* has one, comes with a symlink's type can be read with every projection.
ReadFails ==
    stage = "idle" =>
        \A id \in DOMAIN documents : \A k \in DOMAIN Projections :
            \A i \in DOMAIN documents[id].ns :
                LET d == documents[id]
                    maps == [type |-> "document", v |-> d.xattrs \o d.ns[i].xattrs]
                IN Read(id, Projections[k])[i] = Fail =>
                      \/ BsonBytes(maps) > BUFSIZE
                      \/ /\ d.symlink # <<>> /\ <<"type">> \in DOMAIN want[id].statx
                         /\ want[id].statx[<<"type">>] # FileTypes.link

\* WireClonesFit: the block allocated for the clone of an fsevent, or for an
\* fsentry, is as long as what is copied into it.
WireClonesFit ==
    /\ stage = "parsed" => fsevent_copy(got[1]) <= fsevent_data_size(got[1])
    /\ stage = "idle" =>
          \A id \in DOMAIN documents : \A k \in DOMAIN Projections :
              LET read == Read(id, Projections[k])
              IN \A i \in {j \in DOMAIN read : read[j] # Fail} :
                    EntryCopy(id, read[i][1]) <= EntrySize(id, read[i][1])

\* YamlWhole: what goes through a YAML file comes out of it whole, and nothing
\* that is incomplete does (emit_fsevent(), parse_fsevent()).
YamlWhole == YamlKept /\ ParsedComplete

\* MemoryFits: copies of fsevents and fsentries fit the blocks allocated for them,
\* and only what exceeds the fixed buffer of fsentry_from_bson() cannot be read.
MemoryFits == WireClonesFit /\ ReadFails
=============================================================================
