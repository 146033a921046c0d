---------------------------- MODULE MCExtensions ----------------------------
(* Integers of 14 and 20 bits; sizes in units of one byte and 2 bytes.     *)
EXTENDS Extensions

MCSubjects == {[uid |-> 1, gids |-> <<2>>], [uid |-> 2, gids |-> <<1>>],
               [uid |-> 2, gids |-> <<3, 2>>], [uid |-> 3, gids |-> <<2, 1>>]}

Item(first, last) == [first |-> first, last |-> last]
MCLevels ==
    {[sens |-> s, items |-> items] : s \in {0, 1},
        items \in {<<>>, <<Item(0, 0)>>, <<Item(0, 2)>>, <<Item(0, 0), Item(1, 2)>>,
                   <<Item(0, 1), Item(1, 3)>>, <<Item(0, 0), Item(2, 3)>>,
                   <<Item(2, 2), Item(0, 0)>>, <<Item(0, 4)>>, <<Item(2, 1)>>}}

Component(flags, count, pattern, begin, end, osts) ==
    [flags |-> flags, count |-> count, size |-> 2, pattern |-> pattern,
     pool |-> "p", begin |-> begin, end |-> end, mirror |-> 1, osts |-> osts]
Eof == 2^W64 - 1
MCComponents == <<Component(16, 2, 0, 0, 4, <<0, 1>>),
                  Component(16, 1, 2, 4, Eof, <<2>>),
                  Component(0, 2, 0, 8, Eof, <<>>),
                  Component(64, 1, 0, 4, 8, <<>>)>>

Date(kind, n) == [kind |-> kind, n |-> n]
MCExpirations == {Date("inf", 0), Date("+", 0), Date("+", 5),
                  Date("+", 2^19 - 1), Date("date", Now), Date("date", Now + 3),
                  Date("date", 2^19), Date("bad", 0)}
MCDates == {0, Now - 5, Now, Now + 4}

Size(sign, n) == [sign |-> sign, n |-> n, suffix |-> "w"]
Number(sign, n) == [sign |-> sign, n |-> n]
MCLustreTests ==
    {[name |-> "stripe-count", key |-> "stripe_count", arg |-> Number(s, n)] :
        s \in {"", "+", "-"}, n \in {0, 1, 2}}
      \cup {[name |-> "layout-pattern", arg |-> p] : p \in {"raid0", "mdt"}}
      \cup {[name |-> n, key |-> IF n = "comp-start" THEN "begin" ELSE "end",
             arg |-> a] : n \in {"comp-start", "comp-end"},
                a \in {<<Size("", 2)>>, <<Size("-", 3)>>, <<Size("+", 1)>>,
                       <<Size("", 1), Size("", 4)>>}}
      \cup {[name |-> "comp-count", key |-> "comp_count", arg |-> Number("+", 1)],
            [name |-> "mdt-count", key |-> "mdt_count", arg |-> Number("", 1)],
            [name |-> "project-id", key |-> "project_id", arg |-> 7]}
      \cup {[name |-> "ost", arg |-> n] : n \in 0..2}
      \cup {[name |-> "hsm-state", arg |-> s] : s \in {"none", "archived", "dirty"}}
MCFsDefault == [stripe_count |-> <<1>>, stripe_size |-> <<>>, pattern |-> <<0>>]

=============================================================================
