------------------------------- MODULE MCWire -------------------------------
(***************************************************************************)
(* The fsevents, the documents and the projections of the instance.        *)
(***************************************************************************)
EXTENDS Wire

P(key, value) == <<[key |-> key, value |-> value]>>
Op(op, value) == Val("MAP", P(op, value))
Buf(fields) == <<[mask |-> DOMAIN fields \ {<<"stx_mode">>},
                  v |-> fields @@ ZeroStatx.v]>>
Ns(parent, name) == <<[parent |-> parent, name |-> name]>>

File == Buf((<<"type">> :> 0) @@ (<<"mode">> :> 0) @@ (<<"size">> :> 2^W64 - 1)
              @@ (<<"uid">> :> 2^W32 - 1) @@ (<<"mtime", "sec">> :> -3)
              @@ (<<"mtime", "nsec">> :> 2^W32 - 1)
              @@ (<<"stx_mode">> :> {15, 8, 7, 6, 3, 0})
              @@ (<<"rdev", "minor">> :> 5)
              @@ (<<"attributes">> :> [mask |-> {"immutable", "dax"},
                                       set |-> {"dax"}]))
Link == Buf((<<"type">> :> 0) @@ (<<"stx_mode">> :> {13, 15})
              @@ (<<"atime", "sec">> :> 2^(W64 - 1) - 1))
Size == Buf(<<"size">> :> 2^(W64 - 1))
Perm == Buf((<<"mode">> :> 0) @@ (<<"mnt_id">> :> 2^W64 - 2) @@ (<<"stx_mode">> :> {11, 2})
              @@ (<<"attributes">> :> [mask |-> {"immutable"},
                                       set |-> {"immutable"}]))

Children(n, ts, final) ==
    P("nb_children", Op("set", Val("MAP", P("value", Val("INT64", n))
        \o P("timestamp", Val("INT64", ts)) \o P("final", Val("BOOLEAN", final)))))

Nested == Val("MAP", P("s", Val("SEQUENCE", <<Val("UINT32", 2^W32 - 1),
                                              Val("STRING", "ab")>>))
                       \o P("b", Val("BINARY", "xyz")) \o P("t", Val("BOOLEAN", TRUE)))

MCEvents == <<
    Event("UPSERT", "a", <<>>, File, <<>>, <<>>),
    Event("UPSERT", "b", P("k", Op("set", Val("UINT64", 2^W64 - 1))), Link,
          <<"to">>, <<>>),
    Event("UPSERT", "a", Children(1, 5, FALSE), Size, <<>>, <<>>),
    Event("UPSERT", "a", Children(2, 5, TRUE), Perm, <<>>, <<>>),
    Event("UPSERT", "a", Children(3, 4, TRUE) \o P("k", Op("set", Val("INT32", -2))),
          <<>>, <<>>, <<>>),
    Event("LINK", "a", P("path", Val("STRING", "/n")), <<>>, <<>>, Ns("r", "n")),
    Event("LINK", "b", P("path", Val("STRING", "/m")), <<>>, <<>>, Ns("r", "m")),
    Event("UNLINK", "a", <<>>, <<>>, <<>>, Ns("r", "n")),
    Event("DELETE", "a", <<>>, <<>>, <<>>, <<>>),
    Event("XATTR", "a", P("k", Op("unset", NIL)) \o P("m", Op("set", Nested)),
          <<>>, <<>>, <<>>),
    Event("XATTR", "a", P("n", Op("inc", Val("INT64", -1))), <<>>, <<>>, <<>>),
    Event("XATTR", "a", P("rm", Op("set", Val("INT64", 2^(W64 - 1) - 1))), <<>>,
          <<>>, Ns("r", "n")),
    Event("XATTR", "a", P("d", Op("set", Val("DOUBLE", "0.5"))), <<>>, <<>>, <<>>),
    Event("XATTR", "b", P("re", Op("set", Val("SEQUENCE",
          <<Val("INT64", -(2^(W64 - 1))), Val("INT32", 2^(W32 - 1) - 1)>>))),
          <<>>, <<>>, <<>>),
    Event("UPSERT", "a", P("m", Op("set", Val("MAP", P("b", Val("INT32", 1))
          \o P("x", Val("INT32", 2))))), <<>>, <<>>, <<>>),
    Event("UPSERT", "a", P("k", Op("unset", NIL)), Size, <<>>, <<>>),
    Event("UPSERT", "b", P("n", Op("inc", Val("INT64", 1))), <<>>, <<>>, <<>>),
    Event("XATTR", "c", P("re", Op("set", Val("REGEX",
          [string |-> "a*", options |-> {"SHELL_PATTERN"}]))), <<>>, <<>>, <<>>)>>

MCHandWritten == <<
    Mapping("!link", <<Pair("id", Id("a")), Pair("name", Text("", "n"))>>),
    Mapping("!unlink", <<Pair("id", Id("a")), Pair("xattrs", Text("", "none")),
                         Pair("name", Text("", "n")), Pair("parent", Id("r"))>>),
    Mapping("!upsert", <<Pair("id", Id("a")), Pair("statx",
        Mapping("", <<Pair("uid", Number("", -1))>>))>>),
    Mapping("!upsert", <<Pair("statx", Mapping("",
        <<Pair("mode", Number("", 7)), Pair("type", Text("", "fifo"))>>)),
        Pair("id", Id("a"))>>),
    Mapping("!upsert", <<Pair("statx", Mapping("", <<>>)), Pair("id", Id("a"))>>),
    Mapping("!ns_xattr", <<Pair("id", Id("a")), Pair("parent", Id("r"))>>),
    Mapping("!delete", <<Pair("id", Id("a")), Pair("name", Text("", "n"))>>),
    Mapping("", <<Pair("id", Id("a"))>>)>>

MCProjections == <<
    [parts |-> {"statx", "symlink", "xattrs", "ns"}, statx |-> StatxFields,
     xattrs |-> {}],
    [parts |-> {"statx", "xattrs"}, statx |-> {<<"size">>, <<"type">>},
     xattrs |-> {"k"}],
    [parts |-> {"statx", "symlink", "ns"},
     statx |-> {<<"mtime", "sec">>, <<"attributes">>, <<"mode">>}, xattrs |-> {}]>>

=============================================================================
