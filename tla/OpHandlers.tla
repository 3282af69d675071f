----------------------------- MODULE OpHandlers -----------------------------
(***************************************************************************)
(* do_patch_operations and the handle_*_op functions of mojopatch.c, one   *)
(* action per system call that changes the product or the temporary files. *)
(* Between any two of them the process may be killed, and the patcher is   *)
(* simply run again on whatever it left behind.                            *)
(*                                                                         *)
(* pc names the place in the handler: "fetch" is the top of the loop, "op" *)
(* the start of a handler, and the other labels the points between two     *)
(* system calls of the longer ones.                                        *)
(*                                                                         *)
(* Fails says which kinds of fault the machine may show:                   *)
(*   "io"      a system call fails where the code checks for it            *)
(*   "xdelta"  xdelta writes a wrong or no output file                     *)
(*   "exdev"   rename() refuses, e.g. /tmp is another file system          *)
(*   "copy"    the copy that then replaces rename() fails as well          *)
(*   "stale"   the process id, and with it the name of the temporary file, *)
(*             is one a killed run had                                     *)
(*   "uninit"  a file cannot be read and the uninitialized md5result       *)
(*             happens to equal md5_2                                      *)
(***************************************************************************)
EXTENDS PatchOps

CONSTANTS
    Patches,        \* the operation sequences that may be applied
    Installs,       \* the product trees a first run may find
    Ignored,        \* the --ignore list
    Interactive,    \* --confirm
    Fails

FaultKinds == {"io", "xdelta", "exdev", "copy", "stale", "uninit"}

\* What follows DONE in the archive is read as the next patch.
WellMade(ps) == /\ ps \in Seq(Operation)
                /\ \A k \in 1..Len(ps) :
                      WellFormed(ps[k]) /\ (ps[k].op = "DONE" => k = Len(ps))

ASSUME PatchesAssumption == \A ps \in Patches : WellMade(ps)

ASSUME InstallsAssumption ==
    \A t \in Installs : t \in [Path -> Node] /\ IsTree(t)

ASSUME OptionsAssumption ==
    /\ Ignored \subseteq Path
    /\ Interactive \in BOOLEAN
    /\ Fails \subseteq FaultKinds

VARIABLES
    fs,         \* the product on disk
    tmp,        \* patchtmpfile, where xdelta writes the patched file
    tmp2,       \* patchtmpfile2, the delta taken out of the archive
    ops,        \* the operations of the archive being read
    i,          \* position in the archive: the operation in hand or the next
    pc,
    wd,         \* the directory delete_dir_tree is emptying
    infoOnly,   \* info_only(): --info, or skip_patch was set by the header
    declined,   \* history: the operations passed over unperformed
    start       \* history: the product as this run found it

input == <<ops, infoOnly, start>>
temps == <<tmp, tmp2>>
vars == <<fs, tmp, tmp2, ops, i, pc, wd, infoOnly, declined, start>>

DeletePc == {"deltree"}
AddPc == {"add.open", "add.write", "add.verify"}
PatchPc == {"patch.delta", "patch.xdelta", "patch.check"}
RenamePc == {"patch.unlink", "patch.rename", "patch.copy", "patch.copywrite"}
Working == {"op"} \cup DeletePc \cup AddPc \cup PatchPc \cup RenamePc
Program == {"fetch", "success", "error"} \cup Working

Op == ops[i]
Target == Op.fname

Put(q, v) == fs' = [fs EXCEPT ![q] = v]

Advance == /\ pc' = "fetch"
           /\ i' = i + 1

Abort == /\ pc' = "error"
         /\ UNCHANGED <<fs, i, wd, declined>>

Goto(label) == /\ pc' = label
               /\ UNCHANGED i

----------------------------------------------------------------------------
(* Starting, stopping and being killed. *)

Init == /\ fs \in Installs
        /\ ops \in Patches
        /\ tmp = Absent
        /\ tmp2 = Absent
        /\ i = 1
        /\ pc = "idle"
        /\ wd = Root
        /\ infoOnly = FALSE
        /\ declined = {}
        /\ start = fs

\* The archive is open and the header is read.  A temporary file of an
\* earlier process is seen only under the same process id.
Enter(ps, info) ==
    /\ pc = "idle"
    /\ pc' = "fetch"
    /\ i' = 1
    /\ ops' = ps
    /\ infoOnly' = info
    /\ start' = fs
    /\ \/ tmp' = Absent
       \/ "stale" \in Fails /\ tmp' = tmp
    /\ tmp2' = Absent
    /\ UNCHANGED <<fs, wd, declined>>

\* mojopatch_main unlinks both temporary files on the way out.
Exit == /\ pc \in {"success", "error"}
        /\ pc' = "idle"
        /\ i' = 1
        /\ wd' = Root
        /\ tmp' = Absent
        /\ tmp2' = Absent
        /\ declined' = {}
        /\ UNCHANGED <<fs, ops, infoOnly, start>>

Crash == /\ pc \in Program
         /\ pc' = "idle"
         /\ i' = 1
         /\ wd' = Root
         /\ declined' = {}
         /\ UNCHANGED <<fs, tmp, tmp2, ops, infoOnly, start>>

----------------------------------------------------------------------------
(* The loop: serialize_operation reads the next operation. *)

FetchOp == /\ pc = "fetch"
           /\ i <= Len(ops)
           /\ Goto("op")
           /\ UNCHANGED <<fs, temps, input, wd, declined>>

\* Slip: the end of the archive is taken for DONE.
EndIsDone == /\ pc = "fetch"
             /\ i > Len(ops) \/ "io" \in Fails
             /\ pc' = "success"
             /\ UNCHANGED <<fs, temps, input, i, wd, declined>>

FetchFail == /\ pc = "fetch"
             /\ i > Len(ops) \/ "io" \in Fails
             /\ Abort
             /\ UNCHANGED <<temps, input>>

\* info_only(), a No at the confirm() prompt, or the ignore list.  The bytes
\* after an ADD, REPLACE or PATCH are passed over by fseek, which is content
\* to go beyond the end of a shortened archive.
SkipOp == /\ pc = "op"
          /\ Op.op # "DONE"
          /\ infoOnly \/ Interactive \/ Target \in Ignored
          /\ declined' = declined \cup {i}
          /\ Advance
          /\ UNCHANGED <<fs, temps, input, wd>>

\* The operation in hand is to be carried out.
Performing(types) == /\ pc = "op"
                     /\ Op.op \in types
                     /\ ~infoOnly
                     /\ Target \notin Ignored

HandleDone == /\ pc = "op"
              /\ Op.op = "DONE"
              /\ pc' = "success"
              /\ i' = i + 1
              /\ UNCHANGED <<fs, temps, input, wd, declined>>

----------------------------------------------------------------------------
(* DELETE and DELETEDIRECTORY. *)

\* Slip: deleting what is gone already is an error.
DeleteMustExist == /\ Performing({"DELETE"})
                   /\ ~file_is_directory(fs, Target)
                   /\ IF file_exists(fs, Target)
                      THEN Put(Target, Absent) /\ Advance /\ UNCHANGED <<wd, declined>>
                      ELSE Abort
                   /\ UNCHANGED <<temps, input>>

HandleDelete == /\ Performing({"DELETE"})
                /\ ~file_is_directory(fs, Target)
                /\ Put(Target, Absent)
                /\ Advance
                /\ UNCHANGED <<temps, input, wd, declined>>

DeleteFail == /\ Performing({"DELETE"})
              /\ file_is_directory(fs, Target) \/ "io" \in Fails
              /\ Abort
              /\ UNCHANGED <<temps, input>>

\* Slip: so is a directory that is gone already.
DelDirMustExist == /\ Performing({"DELETEDIRECTORY"})
                   /\ ~file_exists(fs, Target)
                   /\ Abort
                   /\ UNCHANGED <<temps, input>>

HandleDelDirGone == /\ Performing({"DELETEDIRECTORY"})
                    /\ ~file_exists(fs, Target)
                    /\ Advance
                    /\ UNCHANGED <<fs, temps, input, wd, declined>>

HandleDelDir == /\ Performing({"DELETEDIRECTORY"})
                /\ file_is_directory(fs, Target)
                /\ wd' = Target
                /\ Goto("deltree")
                /\ UNCHANGED <<fs, temps, input, declined>>

DelDirFail == /\ Performing({"DELETEDIRECTORY"})
              /\ fs[Target] \in File
              /\ Abort
              /\ UNCHANGED <<temps, input>>

\* delete_dir_tree takes the entries in the order readdir gives them.
DelTreeRemove(q) == /\ pc = "deltree"
                    /\ q \in make_filelist(fs, wd)
                    /\ ~file_is_directory(fs, q)
                    /\ Put(q, Absent)
                    /\ UNCHANGED <<temps, input, i, pc, wd, declined>>

DelTreeDescend(q) == /\ pc = "deltree"
                     /\ q \in make_filelist(fs, wd)
                     /\ file_is_directory(fs, q)
                     /\ wd' = q
                     /\ UNCHANGED <<fs, temps, input, i, pc, declined>>

\* Slip: the recursion ends at the top of the product, not where it began.
RmdirUpToRoot == /\ pc = "deltree"
                 /\ make_filelist(fs, wd) = {}
                 /\ Put(wd, Absent)
                 /\ IF Parent(wd) = Root
                    THEN Advance /\ wd' = Root
                    ELSE wd' = Parent(wd) /\ UNCHANGED <<i, pc>>
                 /\ UNCHANGED <<temps, input, declined>>

\* rmdir() of the emptied directory, and back to the caller.
DelTreeRmdir == /\ pc = "deltree"
                /\ make_filelist(fs, wd) = {}
                /\ Put(wd, Absent)
                /\ IF wd = Target
                   THEN Advance /\ wd' = Root
                   ELSE wd' = Parent(wd) /\ UNCHANGED <<i, pc>>
                /\ UNCHANGED <<temps, input, declined>>

DelTreeFail == /\ pc = "deltree"
               /\ "io" \in Fails
               /\ Abort
               /\ UNCHANGED <<temps, input>>

----------------------------------------------------------------------------
(* ADD and REPLACE: handle_add_op. *)

\* "already exists...looking at md5sum..."
AddAlreadyThere == /\ Performing({"ADD"})
                   /\ fs[Target] = Op.md5_2
                   /\ Advance
                   /\ UNCHANGED <<fs, temps, input, wd, declined>>

AddConflict == /\ Performing({"ADD"})
               /\ file_exists(fs, Target)
               /\ fs[Target] # Op.md5_2 \/ "io" \in Fails
               /\ Abort
               /\ UNCHANGED <<temps, input>>

AddMissing == /\ Performing({"ADD", "REPLACE"})
              /\ ~file_exists(fs, Target)
              /\ Goto("add.open")
              /\ UNCHANGED <<fs, temps, input, wd, declined>>

\* The result of unlink() is not looked at; it cannot remove a directory.
ReplaceUnlink == /\ Performing({"REPLACE"})
                 /\ file_exists(fs, Target)
                 /\ Put(Target, IF file_is_directory(fs, Target) THEN Dir ELSE Absent)
                 /\ Goto("add.open")
                 /\ UNCHANGED <<temps, input, wd, declined>>

\* Slip: the directory is taken to be there.
AddOpenAnywhere == /\ pc = "add.open"
                   /\ ~file_is_directory(fs, Target)
                   /\ Put(Target, Partial)
                   /\ Goto("add.write")
                   /\ UNCHANGED <<temps, input, wd, declined>>

AddOpen == /\ pc = "add.open"
           /\ ~file_is_directory(fs, Target)
           /\ ParentIsDir(fs, Target)
           /\ Put(Target, Partial)
           /\ Goto("add.write")
           /\ UNCHANGED <<temps, input, wd, declined>>

AddOpenFail == /\ pc = "add.open"
               /\ \/ file_is_directory(fs, Target)
                  \/ ~ParentIsDir(fs, Target)
                  \/ "io" \in Fails
               /\ Abort
               /\ UNCHANGED <<temps, input>>

AddWrite == /\ pc = "add.write"
            /\ Op.data # Partial
            /\ Put(Target, Op.data)
            /\ Goto("add.verify")
            /\ UNCHANGED <<temps, input, wd, declined>>

\* The archive or the disk gives out; what was written so far stays.
AddWriteFail == /\ pc = "add.write"
                /\ Op.data = Partial \/ "io" \in Fails
                /\ Abort
                /\ UNCHANGED <<temps, input>>

\* Slip: what was written is not read back.
AddNotVerified == /\ pc = "add.verify"
                  /\ Advance
                  /\ UNCHANGED <<fs, temps, input, wd, declined>>

AddVerify == /\ pc = "add.verify"
             /\ fs[Target] = Op.md5_2
             /\ Advance
             /\ UNCHANGED <<fs, temps, input, wd, declined>>

AddVerifyFail == /\ pc = "add.verify"
                 /\ fs[Target] # Op.md5_2 \/ "io" \in Fails
                 /\ Abort
                 /\ UNCHANGED <<temps, input>>

----------------------------------------------------------------------------
(* ADDDIRECTORY. *)

AddDirAlreadyThere == /\ Performing({"ADDDIRECTORY"})
                      /\ file_is_directory(fs, Target)
                      /\ Advance
                      /\ UNCHANGED <<fs, temps, input, wd, declined>>

HandleAddDir == /\ Performing({"ADDDIRECTORY"})
                /\ ~file_exists(fs, Target)
                /\ ParentIsDir(fs, Target)
                /\ Put(Target, Dir)
                /\ Advance
                /\ UNCHANGED <<temps, input, wd, declined>>

AddDirFail == /\ Performing({"ADDDIRECTORY"})
              /\ \/ fs[Target] \in File
                 \/ ~file_exists(fs, Target) /\ (~ParentIsDir(fs, Target) \/ "io" \in Fails)
              /\ Abort
              /\ UNCHANGED <<temps, input>>

----------------------------------------------------------------------------
(* PATCH: verify the original, apply the delta beside it, verify the result,
   then do_rename it over the original. *)

\* Slip: the delta is applied to whatever file is there.
PatchAnyFile == /\ Performing({"PATCH"})
                /\ fs[Target] \in File
                /\ Goto("patch.delta")
                /\ UNCHANGED <<fs, temps, input, wd, declined>>

PatchVerifyOld == /\ Performing({"PATCH"})
                  /\ fs[Target] = Op.md5_1
                  /\ Goto("patch.delta")
                  /\ UNCHANGED <<fs, temps, input, wd, declined>>

\* A directory opens but does not read, so md5result is never written.
Unreadable == file_is_directory(fs, Target) \/ "io" \in Fails

PatchAlreadyDone == /\ Performing({"PATCH"})
                    /\ fs[Target] # Op.md5_1
                    /\ fs[Target] = Op.md5_2
                    /\ Advance
                    /\ UNCHANGED <<fs, temps, input, wd, declined>>

PatchUnreadable == /\ Performing({"PATCH"})
                   /\ file_exists(fs, Target)
                   /\ Unreadable /\ "uninit" \in Fails
                   /\ Advance
                   /\ UNCHANGED <<fs, temps, input, wd, declined>>

PatchMismatch == /\ Performing({"PATCH"})
                 /\ fs[Target] \notin {Op.md5_1, Op.md5_2} \/ "io" \in Fails
                 /\ Abort
                 /\ UNCHANGED <<temps, input>>

PatchDelta == /\ pc = "patch.delta"
              /\ Op.data # Partial
              /\ tmp2' = Op.data
              /\ Goto("patch.xdelta")
              /\ UNCHANGED <<fs, tmp, input, wd, declined>>

PatchDeltaFail == /\ pc = "patch.delta"
                  /\ Op.data = Partial \/ "io" \in Fails
                  /\ tmp2' = Absent
                  /\ Abort
                  /\ UNCHANGED <<tmp, input>>

\* A non-zero exit of xdelta (SPAWN_RETURNBAD) is taken for success, whatever
\* it left in patchtmpfile.
PatchXdelta == /\ pc = "patch.xdelta"
               /\ \/ tmp' = tmp2
                  \/ "xdelta" \in Fails /\ tmp' \in {tmp, Partial}
               /\ tmp2' = Absent
               /\ Goto("patch.check")
               /\ UNCHANGED <<fs, input, wd, declined>>

\* SPAWN_FAILED: no process to run it in.
PatchXdeltaFail == /\ pc = "patch.xdelta"
                   /\ "io" \in Fails
                   /\ Abort
                   /\ UNCHANGED <<temps, input>>

\* Slip: the output of xdelta is only checked to exist.
PatchCheckExists == /\ pc = "patch.check"
                    /\ tmp # Absent
                    /\ Goto("patch.unlink")
                    /\ UNCHANGED <<fs, temps, input, wd, declined>>

PatchCheck == /\ pc = "patch.check"
              /\ tmp = Op.md5_2
              /\ Goto("patch.unlink")
              /\ UNCHANGED <<fs, temps, input, wd, declined>>

PatchCheckFail == /\ pc = "patch.check"
                  /\ tmp # Op.md5_2 \/ "io" \in Fails
                  /\ Abort
                  /\ UNCHANGED <<temps, input>>

\* do_rename: "unlink(to); /* just in case. */"
PatchUnlink == /\ pc = "patch.unlink"
               /\ Put(Target, Absent)
               /\ Goto("patch.rename")
               /\ UNCHANGED <<temps, input, wd, declined>>

PatchRename == /\ pc = "patch.rename"
               /\ ParentIsDir(fs, Target)
               /\ Put(Target, tmp)
               /\ tmp' = Absent
               /\ Advance
               /\ UNCHANGED <<tmp2, input, wd, declined>>

PatchRenameRefused == /\ pc = "patch.rename"
                      /\ "exdev" \in Fails \/ ~ParentIsDir(fs, Target)
                      /\ Goto("patch.copy")
                      /\ UNCHANGED <<fs, temps, input, wd, declined>>

PatchCopyOpen == /\ pc = "patch.copy"
                 /\ ParentIsDir(fs, Target)
                 /\ Put(Target, Partial)
                 /\ Goto("patch.copywrite")
                 /\ UNCHANGED <<temps, input, wd, declined>>

\* do_rename returns PATCHERROR, which is 0, and the caller looks for -1: it
\* carries on as if the file had been replaced.
PatchCopyOpenFail == /\ pc = "patch.copy"
                     /\ "copy" \in Fails \/ ~ParentIsDir(fs, Target)
                     /\ Put(Target, Absent)
                     /\ Advance
                     /\ UNCHANGED <<temps, input, wd, declined>>

PatchCopyWrite == /\ pc = "patch.copywrite"
                  /\ Put(Target, tmp)
                  /\ tmp' = Absent
                  /\ Advance
                  /\ UNCHANGED <<tmp2, input, wd, declined>>

\* A failed write still unlinks the source; a failed fclose leaves it.
PatchCopyWriteFail == /\ pc = "patch.copywrite"
                      /\ "copy" \in Fails
                      /\ tmp' \in {tmp, Absent}
                      /\ Advance
                      /\ UNCHANGED <<fs, tmp2, input, wd, declined>>

----------------------------------------------------------------------------

DeleteStep == \/ HandleDelete \/ DeleteFail
              \/ HandleDelDirGone \/ HandleDelDir \/ DelDirFail
              \/ \E q \in Path : DelTreeRemove(q) \/ DelTreeDescend(q)
              \/ DelTreeRmdir \/ DelTreeFail

AddStep == \/ AddAlreadyThere \/ AddConflict \/ AddMissing \/ ReplaceUnlink
           \/ AddOpen \/ AddOpenFail \/ AddWrite \/ AddWriteFail
           \/ AddVerify \/ AddVerifyFail
           \/ AddDirAlreadyThere \/ HandleAddDir \/ AddDirFail

PatchStep == \/ PatchVerifyOld \/ PatchAlreadyDone \/ PatchUnreadable
             \/ PatchMismatch \/ PatchDelta \/ PatchDeltaFail
             \/ PatchXdelta \/ PatchXdeltaFail \/ PatchCheck \/ PatchCheckFail

RenameStep == \/ PatchUnlink \/ PatchRename \/ PatchRenameRefused
              \/ PatchCopyOpen \/ PatchCopyOpenFail
              \/ PatchCopyWrite \/ PatchCopyWriteFail

LoopStep == FetchOp \/ FetchFail \/ SkipOp \/ HandleDone

OpStep == LoopStep \/ DeleteStep \/ AddStep \/ PatchStep \/ RenameStep

Next == \/ \E ps \in Patches, info \in BOOLEAN : Enter(ps, info)
        \/ OpStep
        \/ Exit
        \/ Crash

Spec == Init /\ [][Next]_vars

----------------------------------------------------------------------------
(* What one run has done so far. *)

\* The operations performed to the end, and the one that may be half done: at
\* "op" nothing of it has been done yet.
Performed == (1..(i - 1)) \ declined
InHand == IF pc \in {"error"} \cup (Working \ {"op"}) THEN {i} \cap DOMAIN ops ELSE {}

\* No operation of S after the m-th names path q.
LastWord(S, m, q) == \A n \in S : n > m => q \notin Footprint(ops[n])

----------------------------------------------------------------------------
(* Types: every variable has its type, the product is a tree at every
   instant (no handler creates an entry in a directory that is not there, or
   removes a directory that is not empty), and delete_dir_tree stays inside
   the directory it was called for. *)
TypeOK ==
    /\ fs \in [Path -> Node]
    /\ IsTree(fs)
    /\ tmp \in File \cup {Absent}
    /\ tmp2 \in File \cup {Absent}
    /\ WellMade(ops)
    /\ i \in 1..(Len(ops) + 1)
    /\ pc \in {"idle"} \cup Program
    /\ wd \in Path \cup {Root}
    /\ infoOnly \in BOOLEAN
    /\ declined \subseteq 1..(i - 1)
    /\ start \in [Path -> Node]
    /\ pc \in Working => i \in DOMAIN ops
    /\ pc = "deltree" => /\ Op.op = "DELETEDIRECTORY"
                         /\ wd \in Footprint(Op)

(* Order and completeness of the operations: whenever the program is between
   system calls, every path named by an operation already performed holds what
   the last such operation says, the one in hand excepted.  So an operation
   reported as done stays done, whatever faults the later ones met
   (do_patch_operations goes on only after a PATCHSUCCESS). *)
OpsSettled ==
    pc # "idle" =>
        \A m \in Performed : \A q \in Footprint(ops[m]) :
            LastWord(Performed \cup InHand, m, q) => fs[q] = Outcome(ops[m])

(* Confinement: a path that no performed operation names is as this run found
   it.  An operation declined at the prompt, on the ignore list or listed by
   --info changes nothing, and delete_dir_tree takes nothing beside the
   directory it was called for. *)
NothingElse ==
    pc # "idle" =>
        \A q \in Path :
            (\A m \in Performed \cup InHand : q \notin Footprint(ops[m]))
                => fs[q] = start[q]

(* A file somebody may still want is overwritten or removed only on purpose:
   by DELETE, DELETEDIRECTORY or REPLACE, or by a PATCH that has found the
   very version it was made from and holds the verified new one.  ADD never
   overwrites, and a file PATCH does not recognise stays. *)
OnlyExpectedReplaced ==
    [][\A q \in Path :
          fs[q] \in Content /\ fs'[q] # fs[q] =>
              \/ Op.op \in {"DELETE", "DELETEDIRECTORY", "REPLACE"}
              \/ Op.op = "PATCH" /\ fs[q] = Op.md5_1 /\ tmp = Op.md5_2]_vars

(* While PATCH works, a whole version of the file exists somewhere: the old
   one in the product or the new one, already verified, in patchtmpfile. *)
PatchKeepsAVersion ==
    pc \in PatchPc \cup RenamePc => fs[Target] = Op.md5_1 \/ tmp = Op.md5_2

\* What an operation may give up at that killed runs have left: a file that is
\* incomplete or gone, and a path whose type the patch had changed already.
TornFile == \/ Op.op = "ADD" /\ fs[Target] = Partial
            \/ Op.op = "PATCH" /\ fs[Target] \in {Absent, Partial}
Retyped == \/ Op.op = "DELETE" /\ fs[Target] = Dir
           \/ Op.op = "DELETEDIRECTORY" /\ fs[Target] \in File

----------------------------------------------------------------------------
(* The contract: the labels inside a handler are one phase of it. *)

Phase == CASE pc = "idle" -> "idle"
           [] pc = "fetch" -> "between"
           [] pc = "success" -> "done"
           [] pc = "error" -> "failed"
           [] OTHER -> "within"

Contract == INSTANCE ApplyContract WITH phase <- Phase

(* The handlers implement ApplyContract: one operation at a time, nothing
   outside its footprint, and the next one only when it is settled. *)
ImplementsContract == Contract!Spec

----------------------------------------------------------------------------
(* What the program says of itself. *)

(* "done PATCH.": after a PATCH that was performed the file is the new
   version. *)
DonePatchIsNew ==
    pc # "idle" =>
        \A m \in Performed :
            /\ ops[m].op = "PATCH"
            /\ LastWord(Performed \cup InHand, m, ops[m].fname)
            => fs[ops[m].fname] = ops[m].md5_2

=============================================================================
