----------------------------- MODULE CreatePatch -----------------------------
(***************************************************************************)
(* create_patchfile: compare_directories walks the two releases and the    *)
(* put_* functions write the operations that turn the first into the       *)
(* second.  todo is the call stack, its head the innermost call: the lists *)
(* make_filelist returned, in the order of readdir, and the calls of put_* *)
(* that are still to come.                                                 *)
(*                                                                         *)
(* How it is called does not change while it runs: its options, its two    *)
(* releases, and in fails what may go wrong while the archive is made:     *)
(*   "io"      a call fails where the code checks for it                   *)
(*   "xdelta"  xdelta writes a wrong delta (its exit code is not looked at)*)
(*   "edit"    a file changes between its md5sum and its copy or its delta *)
(*   "uninit"  md5sums_match cannot read a file: the md5sums that it has   *)
(*             not taken by then stay uninitialized                        *)
(***************************************************************************)
EXTENDS PatchOps

CONSTANTS
    Makings,    \* the ways in which the program is asked for a patch
    DSStore     \* the paths that end in .DS_Store

ASSUME DSStoreAssumption == DSStore \subseteq Path

CreateFaults == {"io", "xdelta", "edit", "uninit"}

\* Whole files, and none of the directories is called .DS_Store: that is a file of
\* the Finder's.
Release(t) == /\ t \in [Path -> Content \cup {Absent, Dir}]
              /\ IsTree(t)
              /\ \A q \in DSStore : t[q] # Dir

\* releases: pairs of product trees, older and newer; ignored, confirm, replace
\* and alwaysadd: the options of these names; killed: whether the process that
\* applies the archive may be.
Making(m) ==
    /\ m.releases \subseteq Tree \X Tree
    /\ \A r \in m.releases : Release(r[1]) /\ Release(r[2])
    /\ m.ignored \subseteq Path
    /\ {m.confirm, m.replace, m.alwaysadd, m.killed} \subseteq BOOLEAN
    /\ m.fails \subseteq CreateFaults

ASSUME MakingsAssumption == \A m \in Makings : Making(m)

VARIABLES
    making,     \* how create_patchfile was called
    old,        \* dir1, the older release
    new,        \* dir2, the newer release
    out,        \* the operations in the archive so far
    todo,       \* the calls that are under way
    maker       \* "run", "done", "unclosed" or "failed"

releases == <<making, old, new>>
cvars == <<making, old, new, out, todo, maker>>

Call == {"deletions", "additions", "wholedir", "delete", "deldir", "add",
         "adddir", "patch"}

ToCall(f, p) == <<[call |-> f, at |-> p, left |-> {}]>>
Listing(f, p, t) == <<[call |-> f, at |-> p, left |-> make_filelist(t, p)]>>

compare_directories(p) == Listing("deletions", p, old) \o Listing("additions", p, new)

CreateInit == /\ making \in Makings
              /\ \E r \in making.releases : old = r[1] /\ new = r[2]
              /\ out = << >>
              /\ todo = compare_directories(Root)
              /\ maker = "run"

Running(f) == /\ maker = "run"
              /\ todo # << >>
              /\ Head(todo).call = f
              /\ UNCHANGED <<releases, maker>>

\* Entry q of the list in hand is taken from it, and calls come before the rest.
Entry(q, calls) ==
    /\ q \in Head(todo).left
    /\ todo' = calls \o <<[Head(todo) EXCEPT !.left = @ \ {q}]>> \o Tail(todo)
    /\ UNCHANGED out

EndOfList == /\ maker = "run"
             /\ todo # << >>
             /\ Head(todo).call \in {"deletions", "additions", "wholedir"}
             /\ Head(todo).left = {}
             /\ todo' = Tail(todo)
             /\ UNCHANGED <<releases, out, maker>>

----------------------------------------------------------------------------
(* compare_directories: first what the newer release has lost. *)

OldKept(q) == /\ Running("deletions")
              /\ file_exists(new, q)
              /\ Entry(q, << >>)

OldFileGone(q) == /\ Running("deletions")
                  /\ ~file_exists(new, q) /\ ~file_is_directory(old, q)
                  /\ Entry(q, ToCall("delete", q))

\* Slip: the directory is deleted before its contents are gone through, and
\* what is below it is lost sight of.
OldDirDropped(q) == /\ Running("deletions")
                    /\ ~file_exists(new, q) /\ file_is_directory(old, q)
                    /\ Entry(q, compare_directories(q))

OldDirGone(q) == /\ Running("deletions")
                 /\ ~file_exists(new, q) /\ file_is_directory(old, q)
                 /\ Entry(q, compare_directories(q) \o ToCall("deldir", q))

(* Then everything it has. *)

SkipDSStore(q) == /\ Running("additions")
                  /\ q \in DSStore
                  /\ Entry(q, << >>)

NewEntry(q) == Running("additions") /\ q \notin DSStore

BothDirs(q) == /\ NewEntry(q)
               /\ file_is_directory(old, q) /\ file_is_directory(new, q)
               /\ Entry(q, compare_directories(q))

\* Slip: only the additions are made; the file in the way is not deleted.
FileKeptForDir(q) == /\ NewEntry(q)
                     /\ old[q] \in File /\ file_is_directory(new, q)
                     /\ Entry(q, ToCall("adddir", q) \o compare_directories(q))

\* The contents are added by put_add_dir, and compare_directories, which goes
\* on in any case, adds them once more.
FileToDir(q) == /\ NewEntry(q)
                /\ old[q] \in File /\ file_is_directory(new, q)
                /\ Entry(q, ToCall("delete", q) \o ToCall("adddir", q)
                                \o compare_directories(q))

DirToFile(q) == /\ NewEntry(q)
                /\ file_is_directory(old, q) /\ ~file_is_directory(new, q)
                /\ Entry(q, ToCall("deldir", q) \o ToCall("add", q))

\* Slip: what the newer release has there is not looked at.
PatchUnasked(q) == /\ NewEntry(q)
                   /\ old[q] \in File
                   /\ Entry(q, ToCall("patch", q))

BothFiles(q) == /\ NewEntry(q)
                /\ old[q] \in File /\ ~file_is_directory(new, q)
                /\ Entry(q, ToCall("patch", q))

NewDir(q) == /\ NewEntry(q)
             /\ ~file_exists(old, q) /\ file_is_directory(new, q)
             /\ Entry(q, ToCall("adddir", q))

NewFile(q) == /\ NewEntry(q)
              /\ ~file_exists(old, q) /\ ~file_is_directory(new, q)
              /\ Entry(q, ToCall("add", q))

\* put_add_for_wholedir, which does not know of .DS_Store.
WholeDirEntry(q) ==
    /\ Running("wholedir")
    /\ Entry(q, ToCall(IF file_is_directory(new, q) THEN "adddir" ELSE "add", q))

----------------------------------------------------------------------------
(* The put_* functions. *)

At == Head(todo).at

Emit(o) == out' = Append(out, o)

PassOver == /\ todo' = Tail(todo)
            /\ UNCHANGED out

\* A No at the prompt, or the ignore list.
Declined == making.confirm \/ At \in making.ignored

put_delete == /\ Running("delete")
              /\ \/ At \notin making.ignored /\ Emit(Delete(At)) /\ todo' = Tail(todo)
                 \/ Declined /\ PassOver

put_delete_dir == /\ Running("deldir")
                  /\ \/ At \notin making.ignored /\ Emit(DeleteDir(At)) /\ todo' = Tail(todo)
                     \/ Declined /\ PassOver

\* What the bytes copied behind the operation may be.
Copied(c) == {c} \cup IF "edit" \in making.fails THEN File ELSE {}

\* The operation is written before the file is copied.
Adding(as_replace) ==
    \E c \in Copied(new[At]) :
        Emit([(IF as_replace THEN Replace(At, new[At]) ELSE Add(At, new[At]))
                EXCEPT !.data = c])

\* Slip: REPLACE is put whether it was asked for or not.
put_add_replacing == /\ Running("add")
                     /\ \/ At \notin making.ignored /\ Adding(TRUE) /\ todo' = Tail(todo)
                        \/ Declined /\ PassOver

put_add == /\ Running("add")
           /\ \/ At \notin making.ignored /\ Adding(making.replace) /\ todo' = Tail(todo)
              \/ Declined /\ PassOver

put_add_dir == /\ Running("adddir")
               /\ \/ /\ At \notin making.ignored
                     /\ Emit(AddDir(At))
                     /\ todo' = Listing("wholedir", At, new) \o Tail(todo)
                  \/ Declined /\ PassOver

\* What md5sums_match leaves behind: an md5sum it could not take is what the stack
\* happens to hold, that of another file perhaps.
Sums == {<<old[At], new[At]>>} \cup
            IF "uninit" \in making.fails THEN Content \X Content ELSE {}

\* It calls the files different; put_add takes the md5sum once more.
Differ(f) == old[At] # new[At] \/ f \cap making.fails # {}

put_patch_same == /\ Running("patch")
                  /\ old[At] = new[At]
                  /\ PassOver

\* --alwaysadd: "must ADDORREPLACE, as file will definitely exist."
put_patch_add == /\ Running("patch")
                 /\ Differ({"uninit", "edit"})
                 /\ making.alwaysadd
                 /\ \/ At \notin making.ignored /\ Adding(TRUE) /\ todo' = Tail(todo)
                    \/ Declined /\ PassOver

\* xdelta reads both files anew.
Delta(c) == {c} \cup IF {"xdelta", "edit"} \cap making.fails # {} THEN File ELSE {}

put_patch == /\ Running("patch")
             /\ Differ({"uninit"})
             /\ ~making.alwaysadd
             /\ \/ /\ At \notin making.ignored
                   /\ \E c \in Delta(new[At]), sums \in Sums :
                         Emit([Patch(At, sums[1], sums[2]) EXCEPT !.data = c])
                   /\ todo' = Tail(todo)
                \/ Declined /\ PassOver

\* Behind it the archive is closed and its size is asked for.  Either may fail when
\* everything is in the file, and the user is told not to use it ("unclosed"), if
\* the program survives that it then frees real3 twice.
put_done == /\ maker = "run"
            /\ todo = << >>
            /\ Emit(Done)
            /\ maker' \in {"done"} \cup (IF "io" \in making.fails THEN {"unclosed"} ELSE {})
            /\ UNCHANGED <<releases, todo>>

\* "THE FILE [%s] IS LIKELY INCOMPLETE. DO NOT USE!": what was written stays,
\* the bytes behind the last operation perhaps not all of them.
CreateFail ==
    /\ maker = "run"
    /\ "io" \in making.fails
    /\ maker' = "failed"
    /\ todo' = << >>
    /\ \/ UNCHANGED out
       \/ /\ out # << >>
          /\ out[Len(out)].op \in {"ADD", "REPLACE", "PATCH"}
          /\ out' = [out EXCEPT ![Len(out)].data = Partial]
    /\ UNCHANGED releases

Compare == \E q \in Path :
              \/ OldKept(q) \/ OldFileGone(q) \/ OldDirGone(q)
              \/ SkipDSStore(q) \/ BothDirs(q) \/ FileToDir(q) \/ DirToFile(q)
              \/ BothFiles(q) \/ NewDir(q) \/ NewFile(q) \/ WholeDirEntry(q)

PutOp == \/ put_delete \/ put_delete_dir \/ put_add \/ put_add_dir
         \/ put_patch_same \/ put_patch_add \/ put_patch \/ put_done

CreateStep == Compare \/ EndOfList \/ PutOp \/ CreateFail

----------------------------------------------------------------------------
\* The archive is written to its end, whatever the user is told.
Finished == maker \in {"done", "unclosed"}

(* Types: every operation written is a well-formed one, with md5sums of files
   and never of a directory; and DONE stands at the end of an archive whose
   making came to it, and nowhere else. *)
CTypeOK ==
    /\ making \in Makings /\ <<old, new>> \in making.releases
    /\ out \in Seq(Operation)
    /\ \A n \in DOMAIN out : WellFormed(out[n])
    /\ todo \in Seq([call : Call, at : Path \cup {Root}, left : SUBSET Path])
    /\ maker \in {"run", "done", "unclosed", "failed"}
    /\ \A n \in DOMAIN out : out[n].op = "DONE" <=> (Finished /\ n = Len(out))
=============================================================================
