----------------------------- MODULE DoPatching -----------------------------
(***************************************************************************)
(* do_patching: one run of the patcher over an archive that holds several  *)
(* patches one after the other (--append), each with its own header.  The  *)
(* header says which installed versions a patch applies to; the installed  *)
(* version is what Contents/Info.plist says, and update_version writes the *)
(* new one there when the operations are done.  So the version file is     *)
(* what a run that follows a killed one goes by.                           *)
(*                                                                         *)
(* The operations themselves are those of OpHandlers, which runs while     *)
(* stage is "ops"; everywhere else its pc is "idle".  The process may be   *)
(* killed at any point.  The prepatch, postpatch and patchingdone scripts  *)
(* can fail, and are taken not to touch the product.                       *)
(***************************************************************************)
EXTENDS OpHandlers

CONSTANTS
    Archives,       \* sequences of patches; their operations are in Patches
    Version,        \* version strings
    Blank,          \* the empty string, where a header leaves a field out
    Numeric,        \* those strtod finds a number in
    LessThan,       \* "less than " and a number
    Misbuilt,       \* "less than " that no number follows
    VersionOf,      \* find_info_plist_version, by content of the file
    Stamped,        \* the content update_version makes of a content
    Plist,          \* Contents/Info.plist
    DirName,        \* names of the product's directory
    NameLength,     \* the length of its absolute path under each
    MaxPath         \* MAX_PATH

(* version is the set of versions in the header's list ("1 or 2"), empty when
   the field is blank; with a LessThan in it, it is that of the versions below.
   readme is Root when the header names none. *)
PatchHeader ==
    [version : SUBSET (Version \cup {LessThan, Misbuilt}), newversion : Version \cup {Blank},
     readme : {p \in Path : Len(p) = 1} \cup {Root}, readmedata : Content,
     renamedir : DirName \cup {Blank}, ops : Patches]

ASSUME ArchivesAssumption == Archives \subseteq Seq(PatchHeader)

ASSUME VersionAssumption ==
    /\ Blank \notin Version \cup DirName /\ Numeric \subseteq Version
    /\ {LessThan, Misbuilt} \cap (Version \cup {Blank}) = {}
    /\ VersionOf \in [Node -> Version \cup {Blank}]
    /\ \A n \in {Absent, Dir, Partial} : VersionOf[n] = Blank

(* update_version puts the new version over the old one and then adds as many
   blanks as the old one had characters, so the content is never the same. *)
ASSUME StampAssumption ==
    /\ Plist \in Path /\ Len(Plist) = 2
    /\ Stamped \in [Content \X Version -> Content]
    /\ \A c \in Content : \A v \in Version :
          VersionOf[c] # Blank => /\ VersionOf[Stamped[<<c, v>>]] = v
                                  /\ Stamped[<<c, v>>] # c

ASSUME NameAssumption == NameLength \in [DirName -> Nat] /\ MaxPath \in Nat

VARIABLES
    archive,    \* the patches in the file given on the command line
    info,       \* COMMAND_INFO
    k,          \* the patch in hand
    stage,      \* the place in do_patching
    installed,  \* the patches installed_patches has counted
    report,     \* report_error
    dirname,    \* what the product's directory is called
    mem,        \* Contents/Info.plist as update_version read it
    before      \* history: the product at the launch or after the last
                \* patch installed since

job == <<archive, info>>
handler == <<tmp, tmp2, ops, i, pc, wd, infoOnly, declined, start>>
outer == <<archive, info, k, stage, installed, report, dirname, mem, before>>
pvars == <<vars, outer>>

Header == archive[k]

Stage == {"off", "header", "check", "prepatch", "readme", "readme.write",
          "readme.show", "ops", "stamp", "stamp.write", "stamp.torn", "rename",
          "count", "postpatch", "next", "patchingdone", "exit", "failed"}

PInit == /\ Init
         /\ archive \in Archives
         /\ info \in BOOLEAN
         /\ k = 1
         /\ stage = "off"
         /\ installed = {}
         /\ report = FALSE
         /\ dirname \in DirName
         /\ mem = Absent
         /\ before = fs

\* One step of do_patching proper: from one place to another, and what it
\* leaves alone unless the action says otherwise.
Step(from, to) == /\ stage = from
                  /\ stage' = to

Same == UNCHANGED <<handler, job, k, installed, report, dirname, mem, before>>

GiveUp(from) == /\ Step(from, "failed")
                /\ UNCHANGED fs
                /\ Same

----------------------------------------------------------------------------
(* Starting and ending. *)

Launch == /\ Step("off", "header")
          /\ info' \in BOOLEAN
          /\ k' = 1
          /\ installed' = {}
          /\ report' = FALSE
          /\ before' = fs
          /\ \/ tmp' = Absent
             \/ "stale" \in Fails /\ tmp' = tmp
          /\ tmp2' = Absent
          /\ UNCHANGED <<fs, ops, i, pc, wd, infoOnly, declined, start, archive,
                         dirname, mem>>

\* mojopatch_main unlinks the temporary files on the way out.
End == /\ stage \in {"exit", "failed"}
       /\ stage' = "off"
       /\ tmp' = Absent
       /\ tmp2' = Absent
       /\ UNCHANGED <<fs, ops, i, pc, wd, infoOnly, declined, start, job, k,
                      installed, report, dirname, mem, before>>

Kill == /\ stage # "off"
        /\ stage' = "off"
        /\ pc' = "idle"
        /\ i' = 1
        /\ wd' = Root
        /\ declined' = {}
        /\ UNCHANGED <<fs, temps, input, job, k, installed, report, dirname, before>>
        /\ mem' = Absent

----------------------------------------------------------------------------
(* serialize_header and process_patch_header. *)

\* What info_only() is during the operations: --info, or skip_patch.
CallOperations(skip) ==
    /\ stage' = "ops"
    /\ pc' = "fetch"
    /\ i' = 1
    /\ wd' = Root
    /\ ops' = Header.ops
    /\ infoOnly' = (info \/ skip)
    /\ declined' = {}
    /\ start' = fs
    /\ report' = TRUE
    /\ UNCHANGED <<fs, temps, job, k, installed, dirname, mem, before>>

ReadHeader == /\ k <= Len(archive)
              /\ ~info
              /\ Step("header", "check")
              /\ UNCHANGED fs
              /\ Same

\* With --info the product is not even looked for.
ReadHeaderInfo == /\ stage = "header"
                  /\ k <= Len(archive)
                  /\ info
                  /\ CallOperations(FALSE)

ReadHeaderFail == "io" \in Fails /\ GiveUp("header")

\* legitEOF.  The script "patchingdone" is run unless it was --info.
EndOfArchive == /\ k > Len(archive)
                /\ Step("header", IF info THEN "exit" ELSE "patchingdone")
                /\ UNCHANGED fs
                /\ Same

get_product_version == VersionOf[fs[Plist]]

\* In the order of the code: a blank list takes anything, even a version that
\* is patched already.
version_ok(ver, h) ==
    CASE h.version = {} -> "YES"
      [] h.version # {} /\ ver = h.newversion -> "MATCHES"
      [] OTHER -> IF \/ Misbuilt \in h.version
                     \/ LessThan \in h.version /\ ver \notin Numeric
                  THEN "ERROR"
                  ELSE IF ver \in h.version THEN "YES" ELSE "NO"

Checked == version_ok(get_product_version, Header)

CheckVersion == /\ Step("check", "prepatch")
                /\ get_product_version # Blank
                /\ Checked = "YES"
                /\ UNCHANGED fs
                /\ Same

\* Slip: skip_patch is not set.
PerformAnyway == /\ stage = "check"
                 /\ get_product_version # Blank
                 /\ Checked \in {"MATCHES", "NO"}
                 /\ CallOperations(FALSE)

\* skip_patch: the operations are read, to get past them, and not performed.
SkipPatch == /\ stage = "check"
             /\ get_product_version # Blank
             /\ Checked \in {"MATCHES", "NO"}
             /\ CallOperations(TRUE)

\* The product is not found, its version is not, or the patch is misbuilt, as
\* the user is also told when the installed version is not a number.
CheckFail == /\ GiveUp("check")
             /\ get_product_version = Blank \/ Checked = "ERROR" \/ "io" \in Fails

Prepatch == Step("prepatch", "readme") /\ UNCHANGED fs /\ Same

PrepatchFail == "io" \in Fails /\ GiveUp("prepatch")

NoReadme == /\ stage = "readme"
            /\ Header.readme = Root
            /\ CallOperations(FALSE)

\* show_and_install_readme: fopen "wb", over whatever file is there.
OpenReadme == /\ Step("readme", "readme.write")
              /\ Header.readme # Root
              /\ ~file_is_directory(fs, Header.readme)
              /\ Put(Header.readme, Partial)
              /\ Same

OpenReadmeFail == /\ GiveUp("readme")
                  /\ Header.readme # Root
                  /\ file_is_directory(fs, Header.readme) \/ "io" \in Fails

\* fputs and fclose, whose results are not looked at, then ui_show_readme.
WriteReadme == /\ Step("readme.write", "readme.show")
               /\ \/ Put(Header.readme, Header.readmedata)
                  \/ "io" \in Fails /\ UNCHANGED fs
               /\ Same

ShowReadme == stage = "readme.show" /\ CallOperations(FALSE)

ShowReadmeFail == "io" \in Fails /\ GiveUp("readme.show")

----------------------------------------------------------------------------
(* do_patch_operations, step by step, and its return. *)

Perform == /\ stage = "ops"
           /\ OpStep
           /\ UNCHANGED outer

Return == /\ i' = 1
          /\ pc' = "idle"
          /\ wd' = Root
          /\ declined' = {}
          /\ UNCHANGED <<fs, temps, input, job, k, installed, dirname, mem, before>>

\* Slip: report_error is reset when the operations are done.
OperationsReset == /\ pc = "success"
                   /\ Step("ops", IF infoOnly THEN "count" ELSE "stamp")
                   /\ report' = FALSE
                   /\ Return

OperationsDone == /\ pc = "success"
                  /\ Step("ops", IF infoOnly THEN "count" ELSE "stamp")
                  /\ UNCHANGED report
                  /\ Return

\* Slip: the result of do_patch_operations is not looked at.
OperationsCarryOn == /\ pc = "error"
                     /\ Step("ops", IF infoOnly THEN "count" ELSE "stamp")
                     /\ UNCHANGED report
                     /\ Return

OperationsFail == /\ pc = "error"
                  /\ Step("ops", "failed")
                  /\ UNCHANGED report
                  /\ Return

----------------------------------------------------------------------------
(* After the operations: update_version, renamedir, counting, postpatch. *)

NoStamp == /\ Step("stamp", "rename")
           /\ Header.newversion = Blank
           /\ UNCHANGED fs
           /\ Same

\* Slip: the old content is not read.
BeginStampUnread == /\ Step("stamp", "stamp.write")
                    /\ Header.newversion # Blank
                    /\ UNCHANGED fs
                    /\ Same

\* update_version reads the file, and writes it in place from the version on.
BeginStamp == /\ Step("stamp", "stamp.write")
              /\ Header.newversion # Blank
              /\ get_product_version # Blank
              /\ mem' = fs[Plist]
              /\ UNCHANGED <<fs, handler, job, k, installed, report, dirname, before>>

BeginStampFail == /\ GiveUp("stamp")
                  /\ Header.newversion # Blank
                  /\ get_product_version = Blank \/ "io" \in Fails

NewPlist == Stamped[<<mem, Header.newversion>>]

\* A file longer than the stdio buffer takes more than one write: between two
\* of them it may already show the new version, or no version at all.
TearPlist == /\ Step("stamp.write", "stamp.torn")
             /\ \E v \in {NewPlist, Partial} : Put(Plist, v)
             /\ Same

StampDone == /\ stage' = "rename"
             /\ mem' = Absent
             /\ UNCHANGED <<handler, job, k, installed, report, dirname, before>>

WriteStamp == /\ stage \in {"stamp.write", "stamp.torn"}
              /\ Put(Plist, NewPlist)
              /\ StampDone

\* What fclose could not write is not noticed.
LoseStamp == /\ stage \in {"stamp.write", "stamp.torn"}
             /\ "io" \in Fails
             /\ UNCHANGED fs
             /\ StampDone

\* fwrite could not write.
StampFail == /\ stage \in {"stamp.write", "stamp.torn"}
             /\ "io" \in Fails
             /\ stage' = "failed"
             /\ mem' = Absent
             /\ UNCHANGED <<fs, handler, job, k, installed, report, dirname, before>>

\* getcwd needs room for the terminating NUL.
getcwd == NameLength[dirname] + 1 <= MaxPath

\* get_current_dir gives up when the path does fit in the buffer.
get_current_dir == getcwd /\ ~(NameLength[dirname] + 1 <= MaxPath)

RenameDir == /\ Step("rename", "count")
             /\ dirname' = IF Header.renamedir # Blank /\ get_current_dir
                           THEN Header.renamedir ELSE dirname
             /\ UNCHANGED <<fs, handler, job, k, installed, report, mem, before>>

CountSkipped == /\ infoOnly /\ ~info
                /\ Step("count", "next")
                /\ UNCHANGED fs
                /\ Same

CountInstalled == /\ infoOnly => info
                  /\ Step("count", "postpatch")
                  /\ installed' = installed \cup {k}
                  /\ before' = fs
                  /\ UNCHANGED <<fs, handler, job, k, report, dirname, mem>>

\* With --info run_script comes straight back.
Postpatch == Step("postpatch", "next") /\ UNCHANGED fs /\ Same

PostpatchFail == "io" \in Fails /\ ~info /\ GiveUp("postpatch")

\* Slip: the position in the archive is not moved on.
SamePatch == /\ Step("next", "header")
             /\ report' = FALSE
             /\ UNCHANGED <<fs, handler, job, k, installed, dirname, mem, before>>

NextPatch == /\ Step("next", "header")
             /\ k' = k + 1
             /\ report' = FALSE
             /\ UNCHANGED <<fs, handler, job, installed, dirname, mem, before>>

\* The result of the patchingdone script is not looked at.
PatchingDone == Step("patchingdone", "exit") /\ UNCHANGED fs /\ Same

----------------------------------------------------------------------------

HeaderStep == \/ ReadHeader \/ ReadHeaderInfo \/ ReadHeaderFail \/ EndOfArchive
              \/ CheckVersion \/ SkipPatch \/ CheckFail
              \/ Prepatch \/ PrepatchFail
              \/ NoReadme \/ OpenReadme \/ OpenReadmeFail
              \/ WriteReadme \/ ShowReadme \/ ShowReadmeFail

FinishStep == \/ OperationsDone \/ OperationsFail
              \/ NoStamp \/ BeginStamp \/ BeginStampFail \/ TearPlist
              \/ WriteStamp \/ LoseStamp \/ StampFail
              \/ RenameDir \/ CountSkipped \/ CountInstalled
              \/ Postpatch \/ PostpatchFail \/ NextPatch \/ PatchingDone

Progress == HeaderStep \/ Perform \/ FinishStep \/ End

PNext == Launch \/ Progress \/ Kill

PSpec == PInit /\ [][PNext]_pvars

\* As for the operations: a step the program can take it does take.
PFairSpec == PSpec /\ WF_pvars(Progress)

\* Nobody kills it.
PCalmSpec == PInit /\ [][Launch \/ Progress]_pvars

----------------------------------------------------------------------------
(* What is on disk, compared with what the headers say. *)

\* All that installing the n-th patch may write.
Written(n) ==
    LET p == archive[n]
    IN  (UNION {Footprint(p.ops[m]) : m \in DOMAIN p.ops})
            \cup ({p.readme} \ {Root})
            \cup (IF p.newversion = Blank THEN {} ELSE {Plist})

\* Every operation of the n-th patch shows in the product, as far as no
\* later patch of S may have written to the same path.
Shows(n, S) ==
    LET ps == archive[n].ops
        later == UNION {Written(m) : m \in {x \in S : x > n}}
        stamp == IF archive[n].newversion = Blank THEN {} ELSE {Plist}
    IN  \A m \in DOMAIN ps : \A q \in Footprint(ps[m]) \ (later \cup stamp) :
            (\A x \in DOMAIN ps : x > m => q \notin Footprint(ps[x]))
                => fs[q] = Outcome(ps[m])

----------------------------------------------------------------------------
(* Types, and the call of the operations: they run only while do_patching is
   in do_patch_operations, on the operations of the patch in hand. *)
PTypeOK ==
    /\ TypeOK
    /\ archive \in Archives
    /\ info \in BOOLEAN
    /\ k \in 1..(Len(archive) + 1)
    /\ stage \in Stage
    /\ installed \subseteq 1..k
    /\ report \in BOOLEAN
    /\ dirname \in DirName
    /\ mem \in Content \cup {Absent}
    /\ before \in [Path -> Node]
    /\ pc = "idle" <=> stage # "ops"
    /\ stage = "ops" => k \in DOMAIN archive /\ ops = Header.ops
    /\ stage \in {"stamp.write", "stamp.torn"} => mem \in Content

(* What the user is told at the end of the archive is so.  "No patches were
   applied to your installation.": the product is as the run found it.
   "Patching successful!": every operation of every patch installed by this
   run is in the product, later patches of the run excepted. *)
ToldTheTruth ==
    stage = "patchingdone" =>
        /\ installed = {} => fs = before
        /\ \A n \in installed : Shows(n, installed)

(* A run that gives up without "The product is possibly damaged and requires a
   fresh installation." has left it as it was at its start, or after the last
   patch it installed, but for the readme of the patch it gave up. *)
SilentFailureIsClean ==
    stage = "failed" /\ ~report =>
        \A q \in Path :
            fs[q] = before[q] \/ (k \in DOMAIN archive /\ q = Header.readme)

(* A patch that is skipped because of the installed version, and one that
   --info lists, change nothing, whatever their operations say. *)
SkippedUntouched ==
    [][\/ info
       \/ /\ stage \in {"ops", "stamp", "stamp.write", "stamp.torn", "rename", "count"}
          /\ version_ok(VersionOf[start[Plist]], Header) # "YES"
       => fs' = fs]_pvars

(* "You seem to be all patched up already!": when the installed version makes
   do_patching pass over a patch, all of its operations are in the product,
   later patches of the archive excepted.  However often runs were killed or
   failed, the version is written only after the operations. *)
PatchedUpIsTrue ==
    stage = "check" /\ get_product_version = Header.newversion
                    /\ get_product_version # Blank
                    /\ Header.version # {}
        => Shows(k, DOMAIN archive)

\* An archive of REPLACEs.
Resumable == \A n \in DOMAIN archive : \A m \in DOMAIN archive[n].ops :
                archive[n].ops[m].op \notin {"ADD", "PATCH"}

(* Killed runs are made good by running again: for an archive of REPLACEs the
   only thing a run over what they left gives up at is a version file that was
   torn while it was written, and a run that reaches the end leaves the last
   version, complete. *)
ChainHeals == Resumable =>
    /\ stage = "failed" => fs[Plist] = Partial
    /\ stage = "patchingdone" =>
          /\ get_product_version = archive[Len(archive)].newversion
          /\ \A n \in DOMAIN archive : Shows(n, DOMAIN archive)

(* do_patching comes to an end. *)
PTerminates == stage # "off" ~> stage = "off"

----------------------------------------------------------------------------
(* What the program says of itself. *)

(* "--renamedir (What patched dir should be called)": once a patch is
   installed, its directory has the name its header asks for. *)
RenamedAsAsked ==
    stage = "postpatch" /\ ~info /\ Header.renamedir # Blank
        => dirname = Header.renamedir
=============================================================================
