---------------------------- MODULE MCOpHandlers ----------------------------
(* Small products and patches for OpHandlers. *)
EXTENDS OpHandlers, TLC

a == <<"a">>
ax == <<"a", "x">>
b == <<"b">>
d == <<"d">>
dx == <<"d", "x">>
ds == <<"d", "s">>
dsy == <<"d", "s", "y">>
dsz == <<"d", "s", "z">>

MCPath == {a, ax, b, d, dx, ds, dsy, dsz}

Holding(t) == [p \in MCPath |-> IF p \in DOMAIN t THEN t[p] ELSE "absent"]

\* The version the patches are made from: a file, and a directory with a file
\* in it and one more directory level.
OldTree == Holding(a :> "c1" @@ d :> "dir" @@ dx :> "c1" @@ ds :> "dir" @@ dsy :> "c2")

\* Somebody has edited a, and has files of his own: b and one in d/s.
EditedTree == [OldTree EXCEPT ![a] = "c2", ![b] = "c2", ![dsz] = "c1"]

\* The directory is a file.
FlatTree == Holding(a :> "c1" @@ d :> "c2")

\* The inner directory is gone from the new version, b is new, two files have
\* changed.  A deleted directory is listed file by file before it is listed
\* itself.
Update == <<Delete(dsy), DeleteDir(ds), Patch(a, "c1", "c3"), Add(b, "c1"),
            Patch(dx, "c1", "c2"), Done>>

\* A file becomes a directory with a file in it, the directory a file.
Retype == <<Delete(a), AddDir(a), Add(ax, "c2"), Add(ax, "c2"), DeleteDir(d),
            Add(d, "c3"), Done>>

\* The other way round.
Rebuild == <<Delete(d), AddDir(d), AddDir(ds), Add(dsy, "c3"), Replace(dx, "c2"), Done>>

\* A damaged archive: wrong bytes, a payload that ends early, DONE missing.
Damaged == <<[Replace(a, "c2") EXCEPT !.data = "c3"], Done>>
DamagedDelta == <<[Patch(a, "c1", "c2") EXCEPT !.data = "c3"], Done>>
Cut == <<Delete(a), [Replace(b, "c2") EXCEPT !.data = "partial"]>>
CutDelta == <<[Patch(a, "c1", "c2") EXCEPT !.data = "partial"]>>

OldInstall == {OldTree}
AllInstalls == {OldTree, EditedTree, FlatTree}
UpdateOnly == {Update}
AllPatches == {Update, Retype, Rebuild, Damaged, DamagedDelta, Cut, CutDelta}
IgnoreSome == {dx, b}
=============================================================================
