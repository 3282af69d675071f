----------------------------- MODULE MCRoundTrip -----------------------------
(* All pairs of releases over a small set of paths. *)
EXTENDS RoundTrip, TLC

d == <<"d">>
dx == <<"d", "x">>
ds == <<"d", "s">>
dsy == <<"d", "s", "y">>
dd == <<"d", ".DS_Store">>

MCPath == {d, dx, ds, dsy, dd}

Trees(kinds) ==
    {t \in [MCPath -> {"absent", "dir", "c1", "c2"}] :
        IsTree(t) /\ \A q \in MCPath : t[q] \in kinds[q]}

Shapes == [q \in MCPath |->
    CASE q = dsy -> {"absent", "c1", "c2"}
      [] q = dx -> {"absent", "c1", "c2"}
      [] q = dd -> {"absent"}
      [] OTHER -> {"absent", "dir", "c1"}]

AllReleases == Trees(Shapes) \X Trees(Shapes)

\* Those without the file next to the inner directory.
Narrow == Trees([Shapes EXCEPT ![dx] = {"absent"}])

\* A tree over the paths it says something of.
Holding(t) == [q \in MCPath |-> IF q \in DOMAIN t THEN t[q] ELSE "absent"]

\* Three releases of a directory with the Finder's .DS_Store in it.
Bare == Holding(d :> "dir" @@ dx :> "c1")
Finder == Holding(d :> "dir" @@ dx :> "c1" @@ dd :> "c1" @@ ds :> "dir" @@ dsy :> "c1")
Finder2 == Holding(d :> "dir" @@ dx :> "c2" @@ dd :> "c2" @@ ds :> "c1")
Nothing == Holding(<< >>)
DSReleases == {Bare, Finder, Finder2, Nothing} \X {Bare, Finder, Finder2, Nothing}
MCDSStore == {dd}

\* Without options, and nothing goes wrong.
Plain == [releases |-> AllReleases, ignored |-> {}, confirm |-> FALSE,
          replace |-> FALSE, alwaysadd |-> FALSE, fails |-> {}, killed |-> FALSE]

\* The application is killed, and killed again.
Stopped == [Plain EXCEPT !.releases = Narrow \X Narrow, !.killed = TRUE]

\* Operations are left out, and everything goes wrong but that files are read.
Faulty == [Plain EXCEPT !.releases = DSReleases, !.ignored = {dx}, !.confirm = TRUE,
                        !.fails = CreateFaults \ {"uninit"}]

\* md5sums_match cannot read a file, with and without --alwaysadd.
Unread(always) == [Plain EXCEPT !.releases = {Bare, Finder2} \X {Bare, Finder2},
                                !.alwaysadd = always, !.fails = {"uninit", "edit"}]

\* --replace --alwaysadd, and the application is killed.
Replacing == [Plain EXCEPT !.replace = TRUE, !.alwaysadd = TRUE, !.fails = {"io"},
                           !.killed = TRUE]

MCMakings == {Plain, Stopped, Faulty, Unread(TRUE), Unread(FALSE), Replacing}
=============================================================================
