------------------------------ MODULE MCXdelta ------------------------------
(* Small files, small pages, and a small hash that collides; and the command *)
(* lines, with names that look like something else.                           *)
EXTENDS XdeltaMain

MCByte == {0, 1}
Strings(n) == UNION {[1..k -> MCByte] : k \in 0..n}

\* Pages of four bytes: TO has up to three of them, the last one empty, short
\* or full, FROM up to two.
Repeat == <<0, 1, 0, 1, 0, 1, 0, 1>>
Blank == <<0, 0, 0, 0, 0, 0, 0, 0>>
Mixed == <<0, 0, 1, 0, 1, 1, 0, 1>>
Halves == <<0, 0, 0, 0, 1, 1, 0, 1>>
Longer == {Repeat, Blank, Mixed, Halves, <<1, 0, 0, 1, 1>>}
Tiny == {<< >>, <<1>>, <<0, 1, 1>>}

\* As MojoPatch runs it.
Unverified == [noverify |-> TRUE, compress |-> TRUE, to_gz |-> FALSE,
               maker |-> "64bit", user |-> "64bit", may_fail |-> FALSE]

\* The options in MojoPatch's words, and in words somebody else would write.
MaxMem == LongWith("maxmem", <<"128M">>)
Told(o) == (IF o.noverify THEN <<Short(<<"n">>)>> ELSE << >>) \o <<MaxMem>>
             \o IF o.compress THEN << >> ELSE <<Short(<<"0">>)>>
Line(options, args) == [delta |-> options \o args,
                         patch |-> <<MaxMem, Named("tmp2"), args[2], Named("tmp")>>]
Usual == <<Named("old/f"), Named("f"), Named("tmp")>>

Asked(froms, tos, options) ==
    {[from |-> f, to |-> t, old |-> f, opts |-> o, words |-> Line(Told(o), Usual)] :
       f \in froms, t \in tos, o \in options}

\* A name like an option, in the product, and of the directory of the old release.
OptionNames == {Short(<<"n">>), Short(<<"m">>), EndMark, Long("ver")}
OptionDirs == {Short(<<"n", "/", "f">>), Short(<<"0", "old/f">>), Short(<<"m", "old/f">>),
               Short(<<"s", "old/f">>), Long("old/f"), LongWith("quiet", <<"old/f">>)}
OtherWords == {<<Short(<<"n", "q">>), Long("max"), Named("640K")>>,
               <<Long("nov"), Short(<<"s">>), Named("16"), Short(<<"m", "128M">>), EndMark>>,
               <<Long("noverify"), Short(<<"V", "n", "9">>)>>}
Odd(lines) == {[from |-> Mixed, to |-> Halves, old |-> Mixed, opts |-> Unverified, words |-> l] :
                 l \in lines}

MCCases ==
    Asked(Strings(4), Strings(5), {Unverified})
    \cup Asked(Longer, Longer \cup {p \o q : p \in {Mixed, Halves, <<1, 1, 1>>}, q \in Strings(3)},
              {Unverified, [Unverified EXCEPT !.noverify = FALSE]})
    \cup Asked(Longer \cup Tiny, Longer \cup Tiny,
              {[Unverified EXCEPT !.to_gz = TRUE, !.may_fail = TRUE],
               [Unverified EXCEPT !.maker = "32bit", !.compress = FALSE],
               [Unverified EXCEPT !.user = "32bit", !.may_fail = TRUE]})
    \cup {[c EXCEPT !.old = f] : f \in Longer \cup Tiny,
            c \in Asked(Longer, Longer \cup Tiny, {Unverified, [Unverified EXCEPT !.noverify = FALSE]})}
    \cup Odd({Line(Told(Unverified), <<Named("old/f"), n, Named("tmp")>>) : n \in OptionNames})
    \cup Odd({Line(Told(Unverified), <<n, Named("f"), Named("tmp")>>) : n \in OptionDirs})
    \cup Odd({Line(options, Usual) : options \in OtherWords})

MCCHEW == 0 :> 3 @@ 1 :> 6
MCHash(l, h) == l + 3 * h
MCName == <<1, 2, 3>>
=============================================================================
