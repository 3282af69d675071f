---------------------------- MODULE MCDoPatching ----------------------------
(* Small products and archives for DoPatching. *)
EXTENDS DoPatching, TLC

a == <<"a">>
b == <<"b">>
d == <<"d">>
dx == <<"d", "x">>
r == <<"readme">>
contents == <<"Contents">>
plist == <<"Contents", "Info.plist">>

MCPath == {a, b, d, dx, r, contents, plist}

\* Contents/Info.plist of versions 1, 2, 3 and beta as released ("p1" ...), and
\* with another version written into it ("s1" ... whatever it was before).
MCContent == {"c1", "c2", "c3", "r2", "p1", "p2", "p3", "pb", "s1", "s2", "s3", "sb"}
MCVersion == {"1", "2", "3", "beta"}

MCVersionOf ==
    [n \in MCContent \cup {"absent", "dir", "partial"} |->
        CASE n \in {"p1", "s1"} -> "1"
          [] n \in {"p2", "s2"} -> "2"
          [] n \in {"p3", "s3"} -> "3"
          [] n \in {"pb", "sb"} -> "beta"
          [] OTHER -> ""]

\* Two stampings with the same version differ in the blanks behind the text.
MCStamped ==
    [x \in MCContent \X MCVersion |->
        CASE x[2] = "1" -> IF x[1] = "s1" THEN "p1" ELSE "s1"
          [] x[2] = "2" -> IF x[1] = "s2" THEN "p2" ELSE "s2"
          [] x[2] = "3" -> IF x[1] = "s3" THEN "p3" ELSE "s3"
          [] x[2] = "beta" -> IF x[1] = "sb" THEN "pb" ELSE "sb"]

Holding(t) == [p \in MCPath |-> IF p \in DOMAIN t THEN t[p] ELSE "absent"]

V1 == Holding(a :> "c1" @@ d :> "dir" @@ dx :> "c1" @@ contents :> "dir" @@ plist :> "p1")
V3 == Holding(a :> "c3" @@ b :> "c1" @@ r :> "r2" @@ contents :> "dir" @@ plist :> "p3")
Edited == [V1 EXCEPT ![a] = "c2", ![r] = "dir"]
NoVersion == [V1 EXCEPT ![plist] = "c1"]
Beta == [V1 EXCEPT ![plist] = "pb"]

\* An archive made with Contents/Info.plist on the ignore list.
To2 == [version |-> {"1"}, newversion |-> "2", readme |-> r, readmedata |-> "r2",
        renamedir |-> "new",
        ops |-> <<Delete(dx), DeleteDir(d), Patch(a, "c1", "c2"), Add(b, "c1"), Done>>]
To3 == [version |-> {"2"}, newversion |-> "3", readme |-> Root, readmedata |-> "r2",
        renamedir |-> "", ops |-> <<Patch(a, "c2", "c3"), Done>>]
To3Cut == [To3 EXCEPT !.ops = <<Patch(a, "c2", "c3")>>]
Below3 == [To3 EXCEPT !.version = {"less than", "1", "2"}]
Bad == [To3 EXCEPT !.version = {"misbuilt"}]
Unguarded == [To3 EXCEPT !.version = {}, !.newversion = "", !.ops = <<Delete(a), Done>>]

\* The same with --alwaysadd --replace.
Plain2 == [To2 EXCEPT !.ops = <<Delete(dx), DeleteDir(d), Replace(a, "c2"), Replace(b, "c1"), Done>>]
Plain3 == [To3 EXCEPT !.version = {"1", "2"}, !.ops = <<Delete(r), Replace(a, "c3"), Replace(b, "c2"), Done>>]

Chain == <<To2, To3>>
PlainChain == <<Plain2, Plain3>>
MCArchives == {Chain, <<To2, Below3>>, <<To2, To3Cut>>, <<To3, Bad>>, <<To3, Unguarded>>, PlainChain}
ChainOnly == {Chain}
MCPatches == {p.ops : p \in {To2, To3, To3Cut, Unguarded, Plain2, Plain3}}

MCInstalls == {V1, V3, Edited, NoVersion, Beta}
V1Only == {V1}

\* What heals is asked of the chain of REPLACEs where calls do not fail; rename()
\* may, when /tmp is another file system.
Calm == INSTANCE DoPatching WITH Fails <- {"exdev"}
Healing == archive = PlainChain
MCInit == PInit /\ (Healing => fs = V1)
MCNext == PNext /\ (Healing => Calm!PNext)
MCSpec == MCInit /\ [][MCNext]_pvars /\ WF_pvars(Progress /\ (Healing => Calm!Progress))

MCDirName == {"old", "new"}
MCNameLength == [n \in MCDirName |-> 3]
=============================================================================
