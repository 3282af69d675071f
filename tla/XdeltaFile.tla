----------------------------- MODULE XdeltaFile -----------------------------
(***************************************************************************)
(* The commands of xdelta MojoPatch runs: "delta", which writes what       *)
(* XdeltaGenerate makes into a file, and "patch", which applies such a     *)
(* file.  MojoPatch gives "delta" the option --noverify, and never         *)
(* --pristine.                                                             *)
(*                                                                         *)
(* A gzipped file is its uncompressed body, and gzip or xdelta has         *)
(* compressed it: the same body is not the same bytes then.                *)
(***************************************************************************)
EXTENDS XdeltaGenerate, Edsio

CONSTANTS
    Cases   \* the files and what the commands are run with, see below

Option == [noverify : BOOLEAN,      \* -n
           compress : BOOLEAN,      \* not -0
           to_gz : BOOLEAN,         \* TO is a gzipped file
           maker : Machine,         \* where delta is run
           user : Machine,          \* and where patch is
           may_fail : BOOLEAN]      \* reads and writes may fail

\* The file the delta is applied to is not always the one it was made from.
ASSUME CasesAssumption ==
    \A c \in Cases : {c.from, c.to, c.old} \subseteq Seq(Byte) /\ c.opts \in Option

VARIABLES
    opts,
    delta,      \* the file delta_command writes
    delta_code, \* its exit code
    old,        \* the file the delta is applied to
    patch,      \* what process_patch has read
    done,       \* what xdp_apply_delta has written
    patch_code  \* the exit code of patch_command

fvars == <<opts, delta, delta_code, old, patch, done, patch_code>>
xvars == <<gvars, fvars>>

Running == -1
Absent == [absent |-> TRUE]

FileInit(c) == /\ GenerateInit(c.from, c.to)
               /\ opts = c.opts
               /\ old = c.old
               /\ delta = Absent
               /\ delta_code = Running
               /\ patch = Absent
               /\ done = NothingCopied
               /\ patch_code = Running

\* edsio_md5_final with -n: no byte has been given to edsio_md5_update.
handle_checksum_md5(f, no_verify) == IF no_verify THEN << >> ELSE f

----------------------------------------------------------------------------
(* delta_command *)

Control ==
    [to_md5 |-> handle_checksum_md5(to, opts.noverify),
     to_len |-> Len(to),
     has_data |-> gen.used[DataSource],
     source_info |->
        control_add_info(gen, DataSource, Len(gen.data),
                         handle_checksum_md5(gen.data, opts.noverify))
        \o control_add_info(gen, FromSource, Len(from),
                            handle_checksum_md5(from, opts.noverify)),
     inst |-> control_reindex(gen)]

Written(whole) == [no_verify |-> opts.noverify,
                   to_compressed |-> opts.to_gz,
                   data |-> gen.data,
                   control |-> serialize_xdeltacontrol(pack_instructions(Control), opts.maker),
                   whole |-> whole]

Generate == /\ delta_code = Running
            /\ GenerateStep
            /\ UNCHANGED fvars

\* "return control_offset != header_offset": the two are the same only where
\* nothing at all lies between them, and an empty gzip stream is something.
DeltaExit == /\ delta_code = Running
             /\ at = "made"
             /\ delta' = Written(TRUE)
             /\ delta_code' = IF opts.compress \/ gen.data # << >> THEN 1 ELSE 0
             /\ UNCHANGED <<gvars, opts, old, patch, done, patch_code>>

\* Some call fails; the file is left without its trailer, unless it was the
\* last of all, the closing of the file.
DeltaFails == /\ delta_code = Running
              /\ opts.may_fail
              /\ \/ delta' = [Written(FALSE) EXCEPT !.control = << >>]
                 \/ at = "made" /\ delta' = Written(TRUE)
              /\ delta_code' = 2
              /\ UNCHANGED <<gvars, opts, old, patch, done, patch_code>>

----------------------------------------------------------------------------
(* patch_command, whatever delta's exit code was: spawn_xdelta takes 2 for  *)
(* success as well.                                                         *)

ControlRead == unserialize_generic(delta.control, opts.user)

PatchStart == delta_code # Running /\ patch_code = Running /\ patch = Absent

ReadPatch == /\ PatchStart
             /\ delta.whole
             /\ ControlRead.ok
             /\ IndicesInRange(ControlRead.val)
             /\ patch' = unpack_instructions(ControlRead.val)
             /\ UNCHANGED <<gvars, opts, delta, delta_code, old, done, patch_code>>

\* "bad trailing magic number, delta is corrupt", or a control that cannot be
\* unserialized.
RefusePatch == /\ PatchStart
               /\ ~(delta.whole /\ ControlRead.ok /\ IndicesInRange(ControlRead.val))
               /\ patch_code' = 2
               /\ UNCHANGED <<gvars, opts, delta, delta_code, old, patch, done>>

Copying == patch # Absent /\ patch_code = Running

FromInfo == {k \in DOMAIN patch.source_info : ~patch.source_info[k].isdata}

\* The delta uses a FROM file, and it is not as long as the one given.
LengthDiffers == \E k \in FromInfo : patch.source_info[k].len # Len(old)

\* "expected from file of length": to_out has been truncated by then.
WrongLength == /\ Copying
               /\ done = NothingCopied
               /\ LengthDiffers
               /\ patch_code' = 2
               /\ UNCHANGED <<gvars, opts, delta, delta_code, old, patch, done>>

\* xdp_copy_delta_region, one instruction at a time; patch keeps the others.
CopyRegion ==
    /\ Copying
    /\ ~LengthDiffers
    /\ patch.inst # << >>
    /\ LET inst == Head(patch.inst) IN
       done' = xd_handle_copy(done, inst, InfoOf(patch, inst).isdata, old, delta.data)
    /\ patch' = [patch EXCEPT !.inst = Tail(@)]
    /\ patch_code' = IF done'.ok THEN Running ELSE 2
    /\ UNCHANGED <<gvars, opts, delta, delta_code, old>>

\* check_stream_integrity of what has been written.
Integrity == /\ Len(done.out) = patch.to_len
             /\ handle_checksum_md5(done.out, delta.no_verify) = patch.to_md5

\* Slip: the output is looked at only where bytes are missing.
PatchExitByLength ==
    /\ Copying
    /\ ~LengthDiffers
    /\ patch.inst = << >>
    /\ patch_code' = IF Len(done.out) = patch.to_len THEN 0 ELSE 2
    /\ UNCHANGED <<gvars, opts, delta, delta_code, old, patch, done>>

PatchExit == /\ Copying
             /\ ~LengthDiffers
             /\ patch.inst = << >>
             /\ patch_code' = IF Integrity THEN 0 ELSE 2
             /\ UNCHANGED <<gvars, opts, delta, delta_code, old, patch, done>>

PatchFails == /\ Copying
              /\ opts.may_fail
              /\ patch_code' = 2
              /\ UNCHANGED <<gvars, opts, delta, delta_code, old, patch, done>>

PatchStep == \/ ReadPatch \/ RefusePatch \/ WrongLength \/ CopyRegion \/ PatchExit
             \/ PatchFails

----------------------------------------------------------------------------

\* What is on the disk: with FLAG_TO_COMPRESSED the output is compressed again.
TO == [body |-> to, gzip |-> IF opts.to_gz THEN "gzip's" ELSE "none"]
Output == [body |-> done.out, gzip |-> IF delta.to_compressed THEN "xdelta's" ELSE "none"]

(* A delta rebuilds the file it was made for, to the byte, whatever path it
   took: matches, pages, merged instructions, offsets that are not written,
   integers of several bytes.  What md5sum MojoPatch has noted of a gzipped
   file is another matter: there only the uncompressed bytes are the same. *)
DeltaRebuildsTo ==
    patch_code = 0 /\ old = from =>
        /\ Output.body = TO.body
        /\ Output = TO <=> ~opts.to_gz

(* Nothing applies well that is not a whole delta, although spawn_xdelta takes
   the exit code 2 of "delta" for success.  With md5sums the output is the
   right file, whatever the delta was applied to; without them, as MojoPatch
   has it, only its length is sure. *)
VerifiedOrRefused ==
    patch_code = 0 =>
        /\ Len(done.out) = Len(to)
        /\ ~opts.noverify => done.out = to

Widened == Pointer[opts.maker] < Pointer[opts.user]

(* A delta that came about without incident is applied without incident: the
   block its reader allocates from is large enough for everything in it.  But
   the size of the block is the writer's, and one measured with pointers of 32
   bits is never enough for a reader that has pointers of 64. *)
MadeMeansApplied ==
    /\ patch_code = 2 => \/ delta_code = 2 \/ old # from \/ opts.may_fail
                         \/ Widened /\ patch = Absent
    /\ Widened => patch_code # 0

(* The scan goes on to the end of TO, whatever it finds there, unless a call
   fails before. *)
DeltaGetsMade == <>(at = "made" \/ delta_code = 2)
=============================================================================
