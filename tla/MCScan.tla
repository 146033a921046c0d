------------------------------- MODULE MCScan -------------------------------
(* Bounds for Scan. *)
EXTENDS Scan

MCAll == {"id", "parent-id", "name", "statx", "ns-xattrs", "xattrs"}
With(to, proj, skip) == [to |-> to, proj |-> proj, skip |-> skip, one |-> FALSE]
Usual == With("mongo", MCAll, TRUE)
One(set) == [set EXCEPT !.one = TRUE]
Attributes == {"ns-xattrs", "xattrs"}
MCSettings == <<{Usual, One(Usual), With("mongo", Attributes, FALSE), With("mpi-file", MCAll, FALSE)},
                {Usual, One(With("mongo", Attributes, TRUE))}>>

\* A directory with a file in it, and room for another file.
MCTrees == {[tree |-> (<<Root, "a">> :> "d" @@ <<"d", "a">> :> "f"),
             up |-> [x \in Dir |-> Root]]}

D(path) == [path |-> path, dir |-> TRUE]
F(path) == [path |-> path, dir |-> FALSE]
Deal(first, second, gone) ==
    [lists |-> [r \in {0, 1} |-> IF r = 0 THEN first ELSE second], gone |-> gone]
Top1 == <<D(<<>>), D(<<"d">>), D(<<"e">>), F(<<"f">>)>>
Low1 == <<F(<<"d", "x">>), F(<<"d", "y">>), D(<<"e", "z">>)>>
MCDealings ==
    {Deal(Top1 \o Low1, <<>>, {}), Deal(Top1, Low1, {}), Deal(Top1 \o <<Low1[1]>>, Tail(Low1), {}),
     Deal(<<D(<<>>), F(<<"f">>)>> \o Low1, <<D(<<"d">>), D(<<"e">>)>>, {}),
     Deal(Top1, Low1, {<<"d", "x">>}), Deal(Top1, Low1, {<<"f">>, <<"d", "y">>}),
     Deal(Top1, Low1, {<<"e">>, <<"e", "z">>}), Deal(Top1, Low1, {<<"e", "z">>}),
     Deal(<<D(<<>>)>> \o Low1, Tail(Top1), {<<"d">>, <<"d", "x">>, <<"d", "y">>}),
     Deal(<<D(<<>>), D(<<"d">>), F(<<"f">>), D(<<"e">>)>>, <<>>, {<<"d">>, <<"f">>})}

MCHints == {0, 4095}
MCLengths == {1, 4096, 65536}
List(bytes, keys) == [size |-> bytes, names |-> keys]
MCNameLists == {List(0, <<>>), List(20, <<"user.b">>),
                List(33, <<"user.a", "user.b", "user.c">>), List(70000, <<>>)}
Text(text, number) == [text |-> text, number |-> number]
Texts == {Text("true", <<>>), Text("4294967303", <<1, 7>>)}
MCAnswers == {[errno |-> NoError, text |-> t] : t \in Texts}
             \cup {[errno |-> e, text |-> Text("", <<>>)] : e \in {"ENODATA", "EIO"}}
MCTypeMaps ==
    {[x \in {} |-> "string"]} \cup {[x \in {"user.a"} |-> t] : t \in {"boolean", "regex"}}
    \cup {[x \in {"user.a", "user.b"} |-> "int32"]}
=============================================================================
