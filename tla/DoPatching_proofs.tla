------------------------- MODULE DoPatching_proofs -------------------------
(***************************************************************************)
(* Proofs about a run over an archive of several patches: its types, what  *)
(* a skipped patch leaves alone, what a run that gives up without a word   *)
(* of damage has changed, and that what the user is told at the end of the *)
(* archive is so.                                                          *)
(*                                                                         *)
(* The operations are reasoned about in OpHandlers_proofs only: a step of  *)
(* theirs is used here through StepInv, which it keeps, and through its    *)
(* shape.                                                                  *)
(***************************************************************************)
EXTENDS DoPatching, OpHandlers_proofs

(* What each place of do_patching knows of the archive and of the two files
   it writes itself: the readme is no directory once it is open, and the
   version file is there, and is a file, while the stamp is written. *)
PlaceShape ==
    /\ stage \notin {"off", "header", "patchingdone", "exit", "failed"} =>
           k \in DOMAIN archive
    /\ stage = "readme.write" =>
           Header.readme # Root /\ fs[Header.readme] # Dir
    /\ stage \in {"stamp.write", "stamp.torn"} =>
           /\ Header.newversion # Blank
           /\ VersionOf[mem] # Blank
           /\ fs[Plist] \in File

PInv == StepInv /\ PTypeOK /\ PlaceShape

(* The patch in hand is a header of the archive, its operations a patch. *)
LEMMA HeaderFacts ==
    ASSUME archive \in Archives, k \in DOMAIN archive
    PROVE  /\ Header \in PatchHeader
           /\ Header.ops \in Patches
           /\ Header.newversion \in Version \cup {Blank}
           /\ Header.readmedata \in Content
           /\ Header.readme # Root => Header.readme \in Path /\ Len(Header.readme) = 1
           /\ k + 1 \in 1..(Len(archive) + 1)
  <1>1. archive \in Seq(PatchHeader) /\ k \in 1..Len(archive)
    BY ArchivesAssumption
  <1>2. Header \in PatchHeader
    BY <1>1 DEF Header
  <1> QED BY <1>1, <1>2 DEF PatchHeader

(* A file at the top of the product needs no directory. *)
LEMMA TopHasParent ==
    ASSUME NEW t, NEW p \in Path, Len(p) = 1
    PROVE  ParentIsDir(t, p)
  <1>1. Parent(p) \in Path \cup {Root} /\ Len(Parent(p)) = Len(p) - 1
    BY ParentIsPath
  <1>2. Parent(p) = Root
    BY <1>1, PathIsSeq
  <1> QED BY <1>2 DEF ParentIsDir

(* What find_info_plist_version can read a version from is a whole file. *)
LEMMA VersionedIsContent ==
    ASSUME NEW n \in Node, VersionOf[n] # Blank
    PROVE  n \in Content
  BY VersionAssumption DEF Node

----------------------------------------------------------------------------
(* PInv is inductive. *)

(* While the operations are at rest, StepInv only asks for a tree. *)
LEMMA RestKeepsInv ==
    ASSUME StepInv, pc = "idle", UNCHANGED handler,
           fs' \in [Path -> Node], IsTree(fs')
    PROVE  StepInv'
  BY DEF StepInv, TypeOK, OpShape, DiskShape, handler, Program, Working, DeletePc,
         AddPc, PatchPc, RenamePc

(* do_patch_operations begins at the first operation. *)
LEMMA CallKeepsInv ==
    ASSUME PInv, k \in DOMAIN archive, NEW skip \in BOOLEAN, CallOperations(skip)
    PROVE  StepInv' /\ PTypeOK' /\ PlaceShape'
  <1>1. Header.ops \in Patches /\ Header' = Header
    BY HeaderFacts DEF PInv, PTypeOK, CallOperations, Header, job
  <1>2. 1 \in 1..(Len(ops') + 1) /\ ops' \in Patches
    BY <1>1, PatchesAssumption DEF CallOperations, WellMade
  <1>3. (info \/ skip) \in BOOLEAN
    OBVIOUS
  <1>4. TypeOK'
    BY <1>1, <1>2, <1>3, PatchesAssumption
       DEF PInv, StepInv, TypeOK, CallOperations, temps, Program, Working, DeletePc,
           AddPc, PatchPc, RenamePc
  <1>5. OpShape' /\ DiskShape'
    BY DEF CallOperations, OpShape, DiskShape, AddPc, PatchPc, RenamePc
  <1>6. PTypeOK'
    BY <1>1, <1>4 DEF PInv, PTypeOK, CallOperations, job, Stage
  <1>7. PlaceShape'
    BY <1>1 DEF PInv, PTypeOK, PlaceShape, CallOperations, job
  <1> QED BY <1>4, <1>5, <1>6, <1>7 DEF StepInv

(* It returns with nothing in hand. *)
LEMMA ReturnKeepsInv ==
    ASSUME PInv, Return
    PROVE  StepInv'
  <1>1. 1 \in 1..(Len(ops) + 1)
    BY DEF WellMade, PInv, StepInv, TypeOK
  <1> QED BY <1>1 DEF PInv, StepInv, TypeOK, OpShape, DiskShape, Return, temps, input,
                      Program, Working, DeletePc, AddPc, PatchPc, RenamePc

(* Most of do_patching only goes from one place to another. *)
LEMMA MoveKeepsInv ==
    ASSUME PInv, UNCHANGED fs, Same, stage # "ops",
           stage' \in Stage \ {"ops", "readme.write", "stamp.write", "stamp.torn"},
           stage' \notin {"off", "header", "patchingdone", "exit", "failed"} =>
               k \in DOMAIN archive
    PROVE  PInv'
  <1>1. StepInv'
    BY RestKeepsInv DEF PInv, PTypeOK, Same, StepInv, TypeOK
  <1>2. PTypeOK' /\ PlaceShape'
    BY <1>1 DEF PInv, StepInv, PTypeOK, PlaceShape, Same, handler, job
  <1> QED BY <1>1, <1>2 DEF PInv

(* serialize_header and process_patch_header. *)
LEMMA HeaderStepKeepsInv ==
    ASSUME PInv, HeaderStep
    PROVE  PInv'
  <1>1. CASE ReadHeader \/ ReadHeaderFail \/ EndOfArchive \/ CheckVersion \/ CheckFail
             \/ Prepatch \/ PrepatchFail \/ OpenReadmeFail \/ ShowReadmeFail
    <2>1. k <= Len(archive) => k \in DOMAIN archive
      BY ArchivesAssumption DEF PInv, PTypeOK
    <2> QED BY <1>1, <2>1, MoveKeepsInv
            DEF PInv, PlaceShape, Step, Stage, ReadHeader, ReadHeaderFail, EndOfArchive,
                CheckVersion, CheckFail, Prepatch, PrepatchFail, OpenReadmeFail,
                ShowReadmeFail, GiveUp
  <1>2. CASE ReadHeaderInfo \/ SkipPatch \/ NoReadme \/ ShowReadme
    <2>1. k \in DOMAIN archive
      <3>1. CASE ReadHeaderInfo
        BY <3>1, ArchivesAssumption DEF PInv, PTypeOK, ReadHeaderInfo
      <3>2. CASE SkipPatch \/ NoReadme \/ ShowReadme
        BY <3>2 DEF PInv, PlaceShape, SkipPatch, NoReadme, ShowReadme
      <3> QED BY <1>2, <3>1, <3>2
    <2>2. CallOperations(FALSE) \/ CallOperations(TRUE)
      BY <1>2 DEF ReadHeaderInfo, SkipPatch, NoReadme, ShowReadme
    <2> QED BY <2>1, <2>2, CallKeepsInv DEF PInv
  <1>3. CASE OpenReadme
    <2>1. k \in DOMAIN archive /\ Header.readme \in Path /\ Len(Header.readme) = 1
      BY <1>3, HeaderFacts DEF PInv, PTypeOK, PlaceShape, OpenReadme, Step
    <2>2. fs' \in [Path -> Node] /\ IsTree(fs') /\ fs'[Header.readme] = Partial
      BY <1>3, <2>1, TopHasParent, PutKeepsTree, NodeFacts
         DEF PInv, StepInv, TypeOK, OpenReadme, Put, file_is_directory
    <2>3. StepInv'
      BY <1>3, <2>2, RestKeepsInv DEF PInv, PTypeOK, OpenReadme, Step, Same
    <2>4. PTypeOK' /\ PlaceShape'
      BY <1>3, <2>1, <2>2, <2>3, NodeFacts
         DEF PInv, StepInv, PTypeOK, PlaceShape, OpenReadme, Step, Stage, Same, handler,
             job, Header
    <2> QED BY <2>3, <2>4 DEF PInv
  <1>4. CASE WriteReadme
    <2>1. k \in DOMAIN archive /\ Header.readme \in Path /\ Len(Header.readme) = 1
      BY <1>4, HeaderFacts DEF PInv, PTypeOK, PlaceShape, WriteReadme, Step
    <2>2. fs[Header.readme] # Dir /\ Header.readmedata \in Node
      BY <1>4, <2>1, HeaderFacts, NodeFacts
         DEF PInv, PTypeOK, PlaceShape, WriteReadme, Step
    <2>3. fs' \in [Path -> Node] /\ IsTree(fs')
      BY <1>4, <2>1, <2>2, TopHasParent, PutKeepsTree
         DEF PInv, StepInv, TypeOK, WriteReadme, Put
    <2>4. StepInv'
      BY <1>4, <2>3, RestKeepsInv DEF PInv, PTypeOK, WriteReadme, Step, Same
    <2>5. PTypeOK' /\ PlaceShape'
      BY <1>4, <2>1, <2>4
         DEF PInv, StepInv, PTypeOK, PlaceShape, WriteReadme, Step, Stage, Same, handler,
             job
    <2> QED BY <2>4, <2>5 DEF PInv
  <1> QED BY <1>1, <1>2, <1>3, <1>4 DEF HeaderStep

(* The operations keep the archive and do_patching's own state. *)
LEMMA PerformKeepsInv ==
    ASSUME PInv, Perform
    PROVE  PInv' /\ Shaped /\ ops' = ops
  <1>1. StepInv'
    BY LoopStepKeepsInv, DeleteStepKeepsInv, AddStepKeepsInv, PatchStepKeepsInv,
       RenameStepKeepsInv DEF PInv, Perform, OpStep
  <1>2. Shaped
    BY StepShape DEF PInv, Perform
  <1>3. ops' = ops /\ pc' # "idle"
    BY <1>2 DEF Shaped, FetchShape, WorkShape, SkipShape, ReturnShape, Working,
                DeletePc, AddPc, PatchPc, RenamePc
  <1>4. PTypeOK' /\ PlaceShape'
    BY <1>1, <1>3 DEF PInv, StepInv, PTypeOK, PlaceShape, Perform, outer, Header
  <1> QED BY <1>1, <1>2, <1>3, <1>4 DEF PInv

(* After the operations: update_version, renamedir, counting, postpatch. *)
LEMMA FinishStepKeepsInv ==
    ASSUME PInv, FinishStep
    PROVE  PInv'
  <1>1. CASE OperationsDone \/ OperationsFail
    <2>1. StepInv'
      BY <1>1, ReturnKeepsInv DEF OperationsDone, OperationsFail
    <2>2. PTypeOK' /\ PlaceShape'
      BY <1>1, <2>1
         DEF PInv, StepInv, PTypeOK, PlaceShape, OperationsDone, OperationsFail, Return,
             Step, Stage, job, temps, input
    <2> QED BY <2>1, <2>2 DEF PInv
  <1>2. CASE NoStamp \/ BeginStampFail \/ CountSkipped \/ Postpatch \/ PostpatchFail
             \/ PatchingDone
    BY <1>2, MoveKeepsInv
       DEF PInv, PlaceShape, Step, Stage, NoStamp, BeginStampFail, CountSkipped,
           Postpatch, PostpatchFail, PatchingDone, GiveUp
  <1>3. CASE BeginStamp
    <2>1. fs[Plist] \in Content /\ fs[Plist] \in File
      BY <1>3, VersionedIsContent, StampAssumption, NodeFacts
         DEF PInv, StepInv, TypeOK, BeginStamp, get_product_version
    <2>2. StepInv'
      BY <1>3, RestKeepsInv DEF PInv, StepInv, TypeOK, PTypeOK, BeginStamp, Step
    <2>3. PTypeOK' /\ PlaceShape'
      BY <1>3, <2>1, <2>2
         DEF PInv, StepInv, PTypeOK, PlaceShape, BeginStamp, Step, Stage, handler, job,
             Header, get_product_version
    <2> QED BY <2>2, <2>3 DEF PInv
  <1>4. CASE TearPlist \/ WriteStamp
    <2>1. k \in DOMAIN archive /\ NewPlist \in Content
      BY <1>4, HeaderFacts, StampAssumption
         DEF PInv, PTypeOK, PlaceShape, TearPlist, WriteStamp, Step, NewPlist
    <2>2. Plist \in Path /\ fs[Plist] # Dir /\ ParentIsDir(fs, Plist)
      <3>1. Plist \in Path /\ fs[Plist] \in File
        BY <1>4, StampAssumption DEF PInv, PlaceShape, TearPlist, WriteStamp, Step
      <3>2. fs[Plist] # Dir /\ fs[Plist] # Absent
        BY <3>1, NodeFacts
      <3> QED BY <3>1, <3>2, PresentHasDirectory DEF PInv, StepInv, TypeOK
    <2>3. PICK v \in File : Put(Plist, v)
      BY <1>4, <2>1, NodeFacts DEF TearPlist, WriteStamp
    <2>4. fs' \in [Path -> Node] /\ IsTree(fs') /\ fs'[Plist] \in File
      BY <2>2, <2>3, PutKeepsTree, NodeFacts DEF PInv, StepInv, TypeOK, Put
    <2>5. StepInv'
      BY <1>4, <2>4, RestKeepsInv
         DEF PInv, PTypeOK, TearPlist, WriteStamp, StampDone, Step, Same
    <2>6. PTypeOK' /\ PlaceShape'
      BY <1>4, <2>1, <2>4, <2>5
         DEF PInv, StepInv, PTypeOK, PlaceShape, TearPlist, WriteStamp, StampDone, Step,
             Stage, Same, handler, job, Header
    <2> QED BY <2>5, <2>6 DEF PInv
  <1>5. CASE LoseStamp \/ StampFail \/ RenameDir \/ CountInstalled \/ NextPatch
    <2>1. StepInv'
      BY <1>5, RestKeepsInv
         DEF PInv, StepInv, TypeOK, PTypeOK, LoseStamp, StampFail, StampDone, RenameDir,
             CountInstalled, NextPatch, Step
    <2>2. k \in DOMAIN archive /\ k + 1 \in 1..(Len(archive) + 1) /\ k \in 1..k
      BY <1>5, HeaderFacts
         DEF PInv, PTypeOK, PlaceShape, LoseStamp, StampFail, RenameDir, CountInstalled,
             NextPatch, Step
    <2>3. Header.renamedir # Blank => Header.renamedir \in DirName
      BY <2>2, HeaderFacts DEF PInv, PTypeOK, PatchHeader
    <2>4. installed \subseteq 1..(k + 1)
      BY <2>2 DEF PInv, PTypeOK
    <2>5. PTypeOK' /\ PlaceShape'
      BY <1>5, <2>1, <2>2, <2>3, <2>4
         DEF PInv, StepInv, TypeOK, PTypeOK, PlaceShape, LoseStamp, StampFail, StampDone,
             RenameDir, CountInstalled, NextPatch, Step, Stage, handler, job, Header
    <2> QED BY <2>1, <2>5 DEF PInv
  <1> QED BY <1>1, <1>2, <1>3, <1>4, <1>5 DEF FinishStep

(* Starting, ending and being killed. *)
LEMMA OuterKeepsInv ==
    ASSUME PInv, Launch \/ End \/ Kill
    PROVE  PInv'
  <1>1. 1 \in 1..(Len(ops) + 1) /\ 1 \in 1..(Len(archive) + 1)
    BY PatchesAssumption, ArchivesAssumption DEF PInv, StepInv, TypeOK, PTypeOK
  <1>2. StepInv'
    BY <1>1
       DEF PInv, StepInv, TypeOK, OpShape, DiskShape, PTypeOK, Launch, End, Kill, Step,
           temps, input, Program, Working, DeletePc, AddPc, PatchPc, RenamePc
  <1>3. PTypeOK' /\ PlaceShape'
    BY <1>1, <1>2
       DEF PInv, StepInv, TypeOK, PTypeOK, PlaceShape, Launch, End, Kill, Step, Stage,
           job, input, temps
  <1> QED BY <1>2, <1>3 DEF PInv

LEMMA InitPInv == PInit => PInv
  <1> SUFFICES ASSUME PInit
               PROVE  PInv
    OBVIOUS
  <1>1. StepInv
    BY InitStepInv DEF PInit
  <1>2. k \in 1..(Len(archive) + 1)
    BY ArchivesAssumption DEF PInit
  <1>3. PTypeOK /\ PlaceShape
    BY <1>1, <1>2 DEF PInit, Init, StepInv, TypeOK, PTypeOK, PlaceShape, Stage
  <1> QED BY <1>1, <1>3 DEF PInv

LEMMA NextPInv == PInv /\ [PNext]_pvars => PInv'
  <1> SUFFICES ASSUME PInv, [PNext]_pvars
               PROVE  PInv'
    OBVIOUS
  <1>1. CASE UNCHANGED pvars
    <2>1. StepInv'
      BY <1>1, NextStepInv DEF pvars, PInv
    <2> QED BY <1>1, <2>1
            DEF PInv, StepInv, PTypeOK, PlaceShape, pvars, vars, outer, Header
  <1> QED BY <1>1, HeaderStepKeepsInv, PerformKeepsInv, FinishStepKeepsInv, OuterKeepsInv
          DEF PNext, Progress

LEMMA AlwaysPInv == PSpec => []PInv
  <1> QED BY InitPInv, NextPInv, PTL DEF PSpec

(* Every variable of a run keeps its type, the operations run only while
   do_patching is in do_patch_operations, and only on those of the patch in
   hand; whatever fails and whenever the run is killed. *)
THEOREM PatchingTypeCorrect == PSpec => []PTypeOK
  <1>1. PInv => PTypeOK
    BY DEF PInv
  <1> QED BY <1>1, AlwaysPInv, PTL

----------------------------------------------------------------------------
(* What is skipped is left alone. *)

Middle == {"ops", "stamp", "stamp.write", "stamp.torn", "rename", "count"}

(* --info goes nowhere near the places that write; the other runs come to
   them only for a patch that the installed version calls for, and without
   skip_patch.  The version judged is still that of the product the
   operations start from: the readme is another file. *)
SkipInv ==
    /\ info => stage \in {"off", "header", "ops", "count", "postpatch", "next", "exit",
                          "failed"}
    /\ info /\ stage \in {"ops", "count"} => infoOnly
    /\ pc \in Working \ {"op"} => ~infoOnly
    /\ stage \in {"prepatch", "readme", "readme.write", "readme.show"} => Checked = "YES"
    /\ stage \in Middle /\ ~infoOnly => version_ok(VersionOf[start[Plist]], Header) = "YES"
    /\ stage \in Middle \ {"ops", "count"} => ~infoOnly

(* The readme lies at the top of the product, the version file below it. *)
LEMMA ReadmeIsNotPlist ==
    ASSUME PInv, k \in DOMAIN archive
    PROVE  Header.readme # Plist
  <1>1. CASE Header.readme = Root
    <2>1. Len(Plist) = 2
      BY StampAssumption
    <2>2. Len(Root) = 0
      BY DEF Root
    <2> QED BY <1>1, <2>1, <2>2
  <1>2. CASE Header.readme # Root
    <2>1. archive \in Archives
      BY Zenon DEF PInv, PTypeOK
    <2>2. Len(Header.readme) = 1
      BY <1>2, <2>1, HeaderFacts
    <2>3. Len(Plist) = 2
      BY StampAssumption
    <2> QED BY <2>2, <2>3
  <1> QED BY <1>1, <1>2

LEMMA SkipInvStep ==
    ASSUME PInv, SkipInv, [PNext]_pvars
    PROVE  SkipInv'
  <1> USE DEF SkipInv, Middle
  <1>1. pc = "idle" <=> stage # "ops"
    BY DEF PInv, PTypeOK
  <1>2. "idle" \notin Working /\ "fetch" \notin Working
    BY DEF Working, DeletePc, AddPc, PatchPc, RenamePc
  <1>3. CASE UNCHANGED pvars
    BY <1>3 DEF pvars, vars, outer, Checked, Header, get_product_version
  <1>4. CASE ReadHeader \/ ReadHeaderFail \/ EndOfArchive \/ CheckVersion \/ CheckFail
             \/ Prepatch \/ PrepatchFail \/ OpenReadmeFail \/ ShowReadmeFail
    BY <1>1, <1>2, <1>4
       DEF ReadHeader, ReadHeaderFail, EndOfArchive, CheckVersion, CheckFail, Prepatch,
           PrepatchFail, OpenReadmeFail, ShowReadmeFail, GiveUp, Step, Same, handler, job,
           Checked, Header, get_product_version
  <1>5. CASE ReadHeaderInfo \/ SkipPatch \/ NoReadme \/ ShowReadme
    <2>1. /\ stage' = "ops" /\ pc' = "fetch" /\ start' = fs /\ UNCHANGED <<info, Header>>
          /\ infoOnly' <=> info \/ SkipPatch
      BY <1>5 DEF ReadHeaderInfo, SkipPatch, NoReadme, ShowReadme, CallOperations, job, Header
    <2>2. info \/ SkipPatch \/ Checked = "YES"
      BY <1>5 DEF ReadHeaderInfo, NoReadme, ShowReadme
    <2>3. version_ok(VersionOf[start[Plist]], Header)' = Checked
      BY <2>1 DEF Checked, get_product_version
    <2> QED BY <1>2, <2>1, <2>2, <2>3
  <1>6. CASE OpenReadme \/ WriteReadme
    <2>1. k \in DOMAIN archive /\ UNCHANGED <<archive, k>>
      BY <1>6 DEF PInv, PlaceShape, OpenReadme, WriteReadme, Step, Same, job
    <2>2. fs'[Plist] = fs[Plist]
      BY <1>6, <2>1, ReadmeIsNotPlist, StampAssumption
         DEF PInv, StepInv, TypeOK, OpenReadme, WriteReadme, Put
    <2> QED BY <1>1, <1>2, <1>6, <2>1, <2>2
            DEF OpenReadme, WriteReadme, Step, Same, handler, job, Checked, Header,
                get_product_version
  <1>7. CASE Perform
    <2>1. OpStep /\ infoOnly' = infoOnly /\ start' = start /\ UNCHANGED outer
      BY <1>7, InfoOnlyIsKept DEF Perform
    <2>2. infoOnly => pc' \notin Working \ {"op"}
      BY <2>1, InfoOnlyReads DEF PInv
    <2> QED BY <1>7, <2>1, <2>2 DEF Perform, outer, Checked, Header, get_product_version
  <1>8. CASE FinishStep
    BY <1>1, <1>2, <1>8
       DEF FinishStep, OperationsDone, OperationsFail, Return, NoStamp, BeginStamp,
           BeginStampFail, TearPlist, WriteStamp, LoseStamp, StampFail, StampDone,
           RenameDir, CountSkipped, CountInstalled, Postpatch, PostpatchFail, NextPatch,
           PatchingDone, GiveUp, Step, Same, handler, job, input, Header
  <1>9. CASE Launch \/ End \/ Kill
    BY <1>1, <1>2, <1>9 DEF Launch, End, Kill, Step, input, job
  <1> QED BY <1>3, <1>4, <1>5, <1>6, <1>7, <1>8, <1>9 DEF PNext, Progress, HeaderStep

LEMMA AlwaysSkipInv == PSpec => []SkipInv
  <1>1. PInit => SkipInv
    BY DEF PInit, Init, SkipInv, Middle, Working, DeletePc, AddPc, PatchPc, RenamePc
  <1> QED BY <1>1, SkipInvStep, AlwaysPInv, PTL DEF PSpec

(* A patch that the installed version does not call for, and everything under
   --info, leaves the product as it is, whatever its operations say. *)
THEOREM SkipsUntouched == PSpec => SkippedUntouched
  <1> DEFINE A == \/ info
                  \/ /\ stage \in {"ops", "stamp", "stamp.write", "stamp.torn", "rename",
                                    "count"}
                     /\ version_ok(VersionOf[start[Plist]], Header) # "YES"
                  => fs' = fs
  <1>1. PInv /\ SkipInv /\ [PNext]_pvars => [A]_pvars
    <2> SUFFICES ASSUME PInv, SkipInv, PNext,
                        \/ info
                        \/ /\ stage \in Middle
                           /\ version_ok(VersionOf[start[Plist]], Header) # "YES"
                 PROVE  fs' = fs
      BY DEF Middle
    <2>1. CASE Perform
      <3>1. OpStep /\ stage = "ops"
        BY <2>1 DEF Perform
      <3>2. infoOnly /\ pc \notin Working \ {"op"}
        BY <3>1 DEF SkipInv, Middle
      <3> QED BY <3>1, <3>2, InfoOnlyReads DEF PInv
    <2>2. CASE OpenReadme \/ WriteReadme \/ TearPlist \/ WriteStamp
      BY <2>2 DEF OpenReadme, WriteReadme, TearPlist, WriteStamp, Step, SkipInv, Middle
    <2> QED
      BY <2>1, <2>2
         DEF PNext, Progress, HeaderStep, FinishStep, ReadHeader, ReadHeaderInfo,
             ReadHeaderFail, EndOfArchive, CheckVersion, SkipPatch, CheckFail, Prepatch,
             PrepatchFail, NoReadme, OpenReadmeFail, ShowReadme, ShowReadmeFail,
             CallOperations, OperationsDone, OperationsFail, Return, NoStamp, BeginStamp,
             BeginStampFail, LoseStamp, StampFail, RenameDir, CountSkipped, CountInstalled,
             Postpatch, PostpatchFail, NextPatch, PatchingDone, GiveUp, Launch, End, Kill
  <1> HIDE DEF A
  <1>2. PSpec => [][A]_pvars
    BY <1>1, AlwaysPInv, AlwaysSkipInv, PTL DEF PSpec
  <1> QED BY <1>2 DEF A, SkippedUntouched

----------------------------------------------------------------------------
(* What a run that gives up has changed. *)

OnlyReadme == \A q \in Path :
    fs[q] = before[q] \/ (k \in DOMAIN archive /\ q = Header.readme)

(* Nothing is written before the readme, nor for a patch that is only read;
   whatever can go wrong from the operations on is reported. *)
CleanInv ==
    /\ stage \in {"header", "check", "prepatch", "readme", "postpatch", "next",
                  "patchingdone"} => fs = before
    /\ stage \in {"ops", "count"} /\ infoOnly => fs = before
    /\ stage \in {"readme.write", "readme.show"} => OnlyReadme
    /\ stage \in Middle \ {"count"} => report
    /\ stage = "failed" /\ ~report => OnlyReadme

LEMMA CleanInvStep ==
    ASSUME PInv, SkipInv, CleanInv, [PNext]_pvars
    PROVE  CleanInv'
  <1> USE DEF CleanInv, Middle
  <1>1. fs = before => OnlyReadme
    BY DEF OnlyReadme
  <1>2. ASSUME UNCHANGED <<fs, before, k, archive>>
        PROVE  OnlyReadme' <=> OnlyReadme
    BY <1>2 DEF OnlyReadme, Header
  <1>3. CASE UNCHANGED pvars
    BY <1>2, <1>3 DEF pvars, vars, outer
  <1>4. CASE ReadHeader \/ ReadHeaderFail \/ EndOfArchive \/ CheckVersion \/ CheckFail
             \/ Prepatch \/ PrepatchFail \/ OpenReadmeFail \/ ShowReadmeFail
    BY <1>1, <1>2, <1>4
       DEF ReadHeader, ReadHeaderFail, EndOfArchive, CheckVersion, CheckFail, Prepatch,
           PrepatchFail, OpenReadmeFail, ShowReadmeFail, GiveUp, Step, Same, handler, job
  <1>5. CASE ReadHeaderInfo \/ SkipPatch \/ NoReadme \/ ShowReadme
    <2>1. /\ stage' = "ops" /\ report' = TRUE /\ UNCHANGED <<fs, before>>
          /\ infoOnly' <=> info \/ SkipPatch
          /\ (stage = "header" /\ info) \/ stage \in {"check", "readme", "readme.show"}
      BY <1>5 DEF ReadHeaderInfo, SkipPatch, NoReadme, ShowReadme, CallOperations
    <2>2. infoOnly' => fs = before
      BY <1>5, <2>1 DEF SkipInv, SkipPatch
    <2> QED BY <2>1, <2>2
  <1>6. CASE OpenReadme \/ WriteReadme
    <2>1. k \in DOMAIN archive /\ UNCHANGED <<archive, k, before>>
      BY <1>6 DEF PInv, PlaceShape, OpenReadme, WriteReadme, Step, Same, job
    <2>2. OnlyReadme
      BY <1>1, <1>6 DEF OpenReadme, WriteReadme, Step
    <2>3. \A q \in Path : q # Header.readme => fs'[q] = fs[q]
      BY <1>6 DEF PInv, StepInv, TypeOK, OpenReadme, WriteReadme, Put
    <2>4. OnlyReadme'
      BY <2>1, <2>2, <2>3 DEF OnlyReadme, Header
    <2> QED BY <1>6, <2>4 DEF OpenReadme, WriteReadme, Step
  <1>7. CASE Perform
    <2>1. OpStep /\ infoOnly' = infoOnly /\ UNCHANGED outer /\ stage = "ops"
      BY <1>7, InfoOnlyIsKept DEF Perform
    <2>2. infoOnly => fs' = fs
      BY <2>1, InfoOnlyReads DEF PInv, SkipInv
    <2> QED BY <2>1, <2>2 DEF outer
  <1>8. CASE FinishStep
    BY <1>1, <1>2, <1>8
       DEF FinishStep, OperationsDone, OperationsFail, Return, NoStamp, BeginStamp,
           BeginStampFail, TearPlist, WriteStamp, LoseStamp, StampFail, StampDone,
           RenameDir, CountSkipped, CountInstalled, Postpatch, PostpatchFail, NextPatch,
           PatchingDone, GiveUp, Step, Same, handler, job, input, SkipInv
  <1>9. CASE Launch \/ End \/ Kill
    BY <1>9 DEF Launch, End, Kill, Step
  <1> QED BY <1>3, <1>4, <1>5, <1>6, <1>7, <1>8, <1>9 DEF PNext, Progress, HeaderStep

LEMMA AlwaysCleanInv == PSpec => []CleanInv
  <1>1. PInit => CleanInv
    BY DEF PInit, CleanInv, Middle
  <1> QED BY <1>1, CleanInvStep, AlwaysPInv, AlwaysSkipInv, PTL DEF PSpec

(* A run that gives up without reporting possible damage has left the product
   as it was at its start, or after the last patch it installed, but for the
   readme of the patch it gave up; with any faults. *)
THEOREM SilentIsClean == PSpec => []SilentFailureIsClean
  <1>1. CleanInv => SilentFailureIsClean
    BY DEF CleanInv, OnlyReadme, SilentFailureIsClean
  <1> QED BY <1>1, AlwaysCleanInv, PTL

----------------------------------------------------------------------------
(* What the operations leave behind, seen from the outside: every operation of
   ps shows in t, the paths of X and what a later one replaced excepted. *)

OpsShow(t, ps, X) ==
    \A m \in DOMAIN ps : \A q \in Footprint(ps[m]) \ X :
        (\A x \in DOMAIN ps : x > m => q \notin Footprint(ps[x]))
            => t[q] = Outcome(ps[m])

Stamp(n) == IF archive[n].newversion = Blank THEN {} ELSE {Plist}

\* The paths Shows leaves open.
Open(n, S) == (UNION {Written(m) : m \in {x \in S : x > n}}) \cup Stamp(n)

LEMMA ShowsIsOpsShow ==
    ASSUME NEW n, NEW S
    PROVE  /\ Shows(n, S) <=> OpsShow(fs, archive[n].ops, Open(n, S))
           /\ Shows(n, S)' <=> OpsShow(fs', archive'[n].ops, Open(n, S)')
  <1>1. Shows(n, S) <=> OpsShow(fs, archive[n].ops, Open(n, S))
    BY Zenon DEF Shows, OpsShow, Open, Stamp
  <1>2. Shows(n, S)' <=> OpsShow(fs', archive'[n].ops, Open(n, S)')
    BY Zenon DEF Shows, OpsShow, Open, Stamp
  <1> QED BY <1>1, <1>2

(* The paths left open grow with the set of patches, and hold all that a later
   one of them writes. *)
LEMMA OpenGrows ==
    ASSUME NEW n, NEW S, NEW T, S \subseteq T
    PROVE  /\ Open(n, S) \subseteq Open(n, T)
           /\ Stamp(n) \subseteq Open(n, T)
           /\ \A x \in T : x > n => Written(x) \subseteq Open(n, T)
  <1>1. \A x \in T : x > n => Written(x) \in {Written(m) : m \in {y \in T : y > n}}
    OBVIOUS
  <1> QED BY <1>1 DEF Open

(* Only paths of the product are spoken of. *)
LEMMA PatchFootprints ==
    ASSUME NEW ps \in Patches, NEW m \in DOMAIN ps
    PROVE  Footprint(ps[m]) \subseteq Path
  <1>1. ps \in Seq(Operation) /\ m \in 1..Len(ps) /\ WellFormed(ps[m])
    BY PatchesAssumption DEF WellMade
  <1> QED BY <1>1 DEF Footprint, WellFormed, Under

(* What shows goes on showing when only the paths left open change, and more
   of them are left open. *)
LEMMA OpsShowKept ==
    ASSUME NEW ps \in Patches, NEW t, NEW u, NEW X, NEW Y, X \subseteq Y,
           OpsShow(t, ps, X), \A q \in Path : u[q] = t[q] \/ q \in Y
    PROVE  OpsShow(u, ps, Y)
  BY PatchFootprints DEF OpsShow

LEMMA ShowsKept ==
    ASSUME PInv, NEW n \in DOMAIN archive, NEW S, NEW T, S \subseteq T, Shows(n, S),
           archive' = archive, \A q \in Path : fs'[q] = fs[q] \/ q \in Open(n, T)
    PROVE  Shows(n, T)'
  <1>1. archive[n].ops \in Patches
    <2>1. archive \in Seq(PatchHeader) /\ n \in 1..Len(archive)
      BY ArchivesAssumption DEF PInv, PTypeOK
    <2>2. archive[n] \in PatchHeader
      BY <2>1
    <2> QED BY <2>2 DEF PatchHeader
  <1>2. OpsShow(fs, archive[n].ops, Open(n, S))
    BY ShowsIsOpsShow
  <1>3. OpsShow(fs', archive[n].ops, Open(n, T))
    BY <1>1, <1>2, OpenGrows, OpsShowKept
  <1>4. Shows(n, T)' <=> OpsShow(fs', archive'[n].ops, Open(n, T)')
    BY ShowsIsOpsShow
  <1>5. Open(n, T)' = Open(n, T)
    BY DEF Open, Stamp, Written
  <1> QED BY <1>3, <1>4, <1>5

----------------------------------------------------------------------------
(* What a patch that is performed to the end leaves. *)

\* Nothing is declined, and no fault goes unreported.
Plain == Honest /\ Ignored = {} /\ ~Interactive

PerformInv ==
    /\ OpsSettled
    /\ stage = "ops" /\ ~infoOnly => declined = {}
    /\ pc = "success" => i = Len(ops) + 1

LEMMA PerformInvStep ==
    ASSUME Plain, PInv, PerformInv, [PNext]_pvars
    PROVE  PerformInv'
  <1>1. CASE UNCHANGED pvars
    BY <1>1 DEF pvars, vars, outer, PerformInv, OpsSettled, LastWord, Performed, InHand,
                Footprint, Outcome
  <1>2. CASE Perform
    <2>1. PInv' /\ Shaped /\ ops' = ops /\ OpStep
      BY <1>2, PerformKeepsInv DEF Perform
    <2>2. OpsSettled'
      BY <2>1, OpsSettledStep DEF Plain, PInv, PerformInv, AnyStep
    <2>3. infoOnly' = infoOnly /\ (~infoOnly => declined' = declined)
      BY <2>1, InfoOnlyIsKept, OnlySkipDeclines DEF Plain, SkipOp
    <2>4. pc' = "success" => i' = Len(ops) + 1
      <3> SUFFICES ASSUME pc' = "success"
                   PROVE  i' = Len(ops) + 1
        OBVIOUS
      <3>1. ReturnShape /\ Op.op = "DONE"
        BY <2>1 DEF Shaped, FetchShape, WorkShape, SkipShape, ReturnShape, Working,
                    DeletePc, AddPc, PatchPc, RenamePc
      <3>2. i \in 1..Len(ops)
        BY <3>1 DEF WellMade, PInv, StepInv, TypeOK, ReturnShape
      <3>3. i = Len(ops)
        BY <3>1, <3>2 DEF WellMade, PInv, StepInv, TypeOK, Op
      <3> QED BY <3>1, <3>3 DEF ReturnShape
    <2> QED BY <1>2, <2>1, <2>2, <2>3, <2>4 DEF PerformInv, Perform, outer
  <1>3. CASE ReadHeaderInfo \/ SkipPatch \/ NoReadme \/ ShowReadme
    <2>1. pc' = "fetch" /\ i' = 1 /\ declined' = {}
      BY <1>3 DEF ReadHeaderInfo, SkipPatch, NoReadme, ShowReadme, CallOperations
    <2>2. Performed' = {}
      BY <2>1 DEF Performed
    <2> QED BY <2>1, <2>2 DEF PerformInv, OpsSettled
  <1>4. CASE ~Perform /\ ~(ReadHeaderInfo \/ SkipPatch \/ NoReadme \/ ShowReadme) /\ PNext
    <2>1. pc' = "idle" /\ stage' # "ops"
      BY <1>4
         DEF PInv, PTypeOK, PNext, Progress, HeaderStep, FinishStep, ReadHeader,
             ReadHeaderFail, EndOfArchive, CheckVersion, CheckFail, Prepatch, PrepatchFail,
             OpenReadme, OpenReadmeFail, WriteReadme, ShowReadmeFail, OperationsDone,
             OperationsFail, Return, NoStamp, BeginStamp, BeginStampFail, TearPlist,
             WriteStamp, LoseStamp, StampFail, StampDone, RenameDir, CountSkipped,
             CountInstalled, Postpatch, PostpatchFail, NextPatch, PatchingDone, GiveUp,
             Step, Same, handler, Launch, End, Kill
    <2> QED BY <2>1 DEF PerformInv, OpsSettled
  <1> QED BY <1>1, <1>2, <1>3, <1>4

LEMMA AlwaysPerformInv ==
    ASSUME Plain
    PROVE  PSpec => []PerformInv
  <1>1. PInit => PerformInv
    BY DEF PInit, Init, PerformInv, OpsSettled
  <1>2. PInv /\ PerformInv /\ [PNext]_pvars => PerformInv'
    BY PerformInvStep
  <1> QED BY <1>1, <1>2, AlwaysPInv, PTL DEF PSpec

(* When the operations return PATCHSUCCESS, all of them show. *)
LEMMA SuccessShows ==
    ASSUME PInv, PerformInv, stage = "ops", pc = "success", ~infoOnly
    PROVE  OpsShow(fs, ops, {})
  <1>1. Performed = DOMAIN ops
    <2>1. DOMAIN ops = 1..Len(ops) /\ Len(ops) \in Nat
      BY DEF WellMade, PInv, StepInv, TypeOK
    <2>2. i - 1 = Len(ops) /\ declined = {}
      BY <2>1 DEF PerformInv
    <2> QED BY <2>1, <2>2 DEF Performed
  <1>2. InHand = {}
    BY DEF InHand, Working, DeletePc, AddPc, PatchPc, RenamePc
  <1>3. \A m \in DOMAIN ops : \A q \in Footprint(ops[m]) :
            LastWord(DOMAIN ops, m, q) => fs[q] = Outcome(ops[m])
    BY <1>1, <1>2 DEF PerformInv, OpsSettled
  <1> QED BY <1>3 DEF OpsShow, LastWord

----------------------------------------------------------------------------
(* What the user is told. *)

\* Patches of this run that have begun to write and have not been counted yet.
UnderWay == IF \/ stage \in {"readme.write", "readme.show"} \cup (Middle \ {"ops", "count"})
               \/ stage \in {"ops", "count"} /\ ~infoOnly
            THEN {k} ELSE {}

(* A run changes nothing but what the patch in hand may write; while it writes
   the stamp, only the version file. *)
LEMMA WritesOnly ==
    ASSUME PInv, SkipInv, PNext
    PROVE  \/ fs' = fs
           \/ /\ k \in DOMAIN archive
              /\ stage \in {"readme", "readme.write", "ops"} /\ ~info
              /\ stage = "ops" => ~infoOnly /\ ops = archive[k].ops
              /\ \A q \in Path : fs'[q] = fs[q] \/ q \in Written(k)
              /\ UnderWay' = {k}
           \/ /\ k \in DOMAIN archive
              /\ stage \in {"stamp.write", "stamp.torn"}
              /\ \A q \in Path : fs'[q] = fs[q] \/ q \in Stamp(k)
  <1>1. CASE Perform
    <2>1. OpStep /\ stage = "ops" /\ PInv' /\ Shaped
      BY <1>1, PerformKeepsInv DEF Perform
    <2>2. k \in DOMAIN archive /\ ops = archive[k].ops
      BY <2>1 DEF PInv, PTypeOK, Header
    <2>3. CASE infoOnly
      BY <2>1, <2>3, InfoOnlyReads DEF PInv, SkipInv
    <2>4. CASE ~infoOnly /\ fs' # fs
      <3>1. ~info /\ infoOnly' = infoOnly /\ stage' = "ops" /\ k' = k
        BY <1>1, <2>1, <2>4, InfoOnlyIsKept DEF SkipInv, Perform, outer
      <3>2. OnlyFootprint /\ pc \in Working
        BY <2>1, <2>4 DEF Shaped, FetchShape, WorkShape, SkipShape, ReturnShape
      <3>3. i \in DOMAIN archive[k].ops /\ Footprint(Op) = Footprint(archive[k].ops[i])
        BY <2>2, <3>2 DEF PInv, StepInv, TypeOK, Op
      <3>4. Footprint(Op) \subseteq Written(k)
        <4>1. Footprint(Op) \in {Footprint(archive[k].ops[m]) : m \in DOMAIN archive[k].ops}
          BY <3>3
        <4> QED BY <4>1 DEF Written
      <3>5. UnderWay' = {k}
        BY <2>4, <3>1 DEF UnderWay
      <3> QED BY <2>1, <2>2, <2>4, <3>1, <3>2, <3>4, <3>5 DEF OnlyFootprint
    <2> QED BY <2>3, <2>4
  <1>2. CASE OpenReadme \/ WriteReadme
    <2>1. k \in DOMAIN archive /\ Header.readme # Root /\ stage \in {"readme", "readme.write"}
      BY <1>2 DEF PInv, PlaceShape, OpenReadme, WriteReadme, Step
    <2>2. \A q \in Path : fs'[q] = fs[q] \/ q = Header.readme
      BY <1>2 DEF PInv, StepInv, TypeOK, OpenReadme, WriteReadme, Put
    <2>3. Header.readme \in Written(k)
      BY <2>1 DEF Written, Header
    <2>4. UnderWay' = {k} /\ ~info
      BY <1>2 DEF UnderWay, SkipInv, OpenReadme, WriteReadme, Step, Same
    <2> QED BY <2>1, <2>2, <2>3, <2>4
  <1>3. CASE TearPlist \/ WriteStamp
    <2>1. /\ k \in DOMAIN archive /\ Header.newversion # Blank
          /\ stage \in {"stamp.write", "stamp.torn"}
      BY <1>3 DEF PInv, PlaceShape, TearPlist, WriteStamp, Step
    <2>2. \A q \in Path : fs'[q] = fs[q] \/ q = Plist
      BY <1>3 DEF PInv, StepInv, TypeOK, TearPlist, WriteStamp, Put
    <2> QED BY <2>1, <2>2 DEF Stamp, Header
  <1> QED
    BY <1>1, <1>2, <1>3
       DEF PNext, Progress, HeaderStep, FinishStep, ReadHeader, ReadHeaderInfo,
           ReadHeaderFail, EndOfArchive, CheckVersion, SkipPatch, CheckFail, Prepatch,
           PrepatchFail, NoReadme, OpenReadmeFail, ShowReadme, ShowReadmeFail,
           CallOperations, OperationsDone, OperationsFail, Return, NoStamp, BeginStamp,
           BeginStampFail, LoseStamp, StampFail, RenameDir, CountSkipped, CountInstalled,
           Postpatch, PostpatchFail, NextPatch, PatchingDone, GiveUp, Launch, End, Kill

Earlier == {"header", "check", "prepatch", "readme", "readme.write", "readme.show"} \cup Middle

(* The patches counted come before the one in hand, each of them shows but for
   what those after it write, and the one in hand shows from the end of its
   operations on. *)
TellInv ==
    /\ stage \in Earlier => installed \subseteq 1..(k - 1)
    /\ ~info /\ stage \notin {"off", "failed"} =>
           /\ installed \subseteq DOMAIN archive
           /\ \A n \in installed : Shows(n, installed \cup UnderWay)
    /\ stage \in Middle \ {"ops"} /\ ~infoOnly => Shows(k, installed)

(* What is under way or counted stays so until the run gives up. *)
LEMMA TellSets ==
    ASSUME PInv, SkipInv, PNext, ~Launch, stage' \notin {"off", "failed"}
    PROVE  /\ info' = info /\ archive' = archive /\ stage \notin {"off", "failed"}
           /\ (stage = "ops" /\ ~infoOnly) => (stage' = "ops" => ~infoOnly')
           /\ \/ installed' = installed /\ ~CountInstalled
              \/ CountInstalled
           /\ ~info => installed \cup UnderWay \subseteq (installed \cup UnderWay)'
  <1>1. CASE Perform
    BY <1>1, InfoOnlyIsKept DEF Perform, outer, UnderWay, CountInstalled, Step, Middle
  <1>2. CASE HeaderStep
    BY <1>2
       DEF HeaderStep, ReadHeader, ReadHeaderInfo, ReadHeaderFail, EndOfArchive,
           CheckVersion, SkipPatch, CheckFail, Prepatch, PrepatchFail, NoReadme, OpenReadme,
           OpenReadmeFail, WriteReadme, ShowReadme, ShowReadmeFail, GiveUp, Step,
           CallOperations, Same, handler, job, UnderWay, Middle, CountInstalled
  <1>3. CASE FinishStep
    <2>1. CASE OperationsDone \/ OperationsFail
      BY <2>1 DEF OperationsDone, OperationsFail, Return, Step, job, input, UnderWay, Middle,
                  CountInstalled
    <2>2. CASE NoStamp \/ BeginStamp \/ BeginStampFail \/ TearPlist \/ WriteStamp
               \/ LoseStamp \/ StampFail
      BY <2>2 DEF NoStamp, BeginStamp, BeginStampFail, TearPlist, WriteStamp, LoseStamp,
                  StampFail, StampDone, GiveUp, Step, Same, handler, job, UnderWay, Middle,
                  CountInstalled
    <2>3. CASE RenameDir \/ CountSkipped \/ Postpatch \/ PostpatchFail \/ NextPatch
               \/ PatchingDone
      BY <2>3
         DEF RenameDir, CountSkipped, Postpatch, PostpatchFail, NextPatch, PatchingDone,
             GiveUp, Step, Same, handler, job, UnderWay, Middle, CountInstalled, SkipInv
    <2>4. CASE CountInstalled
      BY <2>4 DEF CountInstalled, Step, handler, job, UnderWay, Middle
    <2> QED BY <1>3, <2>1, <2>2, <2>3, <2>4 DEF FinishStep
  <1>4. CASE End \/ Kill
    BY <1>4 DEF End, Kill
  <1> QED BY <1>1, <1>2, <1>3, <1>4 DEF PNext, Progress

LEMMA TellInvStep ==
    ASSUME PInv, SkipInv, PerformInv, TellInv, [PNext]_pvars
    PROVE  TellInv'
  <1>1. CASE UNCHANGED pvars
    <2>1. UnderWay' = UnderWay /\ UNCHANGED <<fs, archive, k, stage, info, infoOnly, installed>>
      BY <1>1 DEF pvars, vars, outer, UnderWay
    <2>2. \A n, S : Shows(n, S)' <=> Shows(n, S)
      BY <2>1 DEF Shows, Written
    <2> QED BY <2>1, <2>2 DEF TellInv
  <1>2. CASE Launch
    BY <1>2 DEF Launch, Step, TellInv, Middle
  <1>3. CASE PNext /\ ~Launch
    <2>1. stage' \in Earlier => installed' \subseteq 1..(k' - 1)
      <3>1. CASE NextPatch
        BY <3>1 DEF NextPatch, Step, PInv, PTypeOK
      <3>2. CASE ~NextPatch
        BY <1>3, <3>2
           DEF TellInv, Earlier, Middle, PNext, Progress, HeaderStep, ReadHeader,
               ReadHeaderInfo, ReadHeaderFail, EndOfArchive, CheckVersion, SkipPatch,
               CheckFail, Prepatch, PrepatchFail, NoReadme, OpenReadme, OpenReadmeFail,
               WriteReadme, ShowReadme, ShowReadmeFail, CallOperations, Perform, outer,
               FinishStep, OperationsDone, OperationsFail, Return, NoStamp, BeginStamp,
               BeginStampFail, TearPlist, WriteStamp, LoseStamp, StampFail, StampDone,
               RenameDir, CountSkipped, CountInstalled, Postpatch, PostpatchFail,
               PatchingDone, GiveUp, Step, Same, handler, job, End, Kill
      <3> QED BY <3>1, <3>2
    <2>2. ASSUME ~info', stage' \notin {"off", "failed"}
          PROVE  /\ installed' \subseteq DOMAIN archive'
                 /\ \A n \in installed' : Shows(n, installed \cup UnderWay)'
      <3>1. /\ ~info /\ archive' = archive /\ stage \notin {"off", "failed"}
            /\ installed \cup UnderWay \subseteq (installed \cup UnderWay)'
        BY <1>3, <2>2, TellSets
      <3>2. /\ installed \subseteq DOMAIN archive
            /\ \A n \in installed : Shows(n, installed \cup UnderWay)
        BY <3>1 DEF TellInv
      <3> DEFINE Now == installed \cup UnderWay
      <3>3. PICK S, T : S = Now /\ T = Now'
        OBVIOUS
      <3>4. \A n : (Shows(n, Now) <=> Shows(n, S)) /\ (Shows(n, Now)' <=> Shows(n, T)')
        BY <3>3 DEF Shows
      <3>5. \A n \in installed : \A q \in Path : fs'[q] = fs[q] \/ q \in Open(n, T)
        <4>1. CASE fs' = fs
          BY <4>1
        <4>2. CASE fs' # fs
          <5>1. stage \in Earlier
            BY <1>3, <4>2, WritesOnly DEF Earlier, Middle
          <5>2. \A n \in installed : n < k
            BY <5>1 DEF TellInv, PInv, PTypeOK
          <5>3. k \in T
            BY <1>3, <3>1, <3>3, <4>2, WritesOnly DEF UnderWay, Middle
          <5>4. Stamp(k) \subseteq Written(k)
            BY DEF Stamp, Written
          <5>5. \A q \in Path : fs'[q] = fs[q] \/ q \in Written(k)
            BY <1>3, <4>2, <5>4, WritesOnly
          <5>6. \A n \in installed : Written(k) \subseteq Open(n, T)
            BY <5>2, <5>3, OpenGrows
          <5> QED BY <5>5, <5>6
        <4> QED BY <4>1, <4>2
      <3>6. ASSUME NEW n \in installed
            PROVE  Shows(n, Now)'
        <4>1. n \in DOMAIN archive /\ S \subseteq T /\ Shows(n, S)
          BY <3>1, <3>2, <3>3, <3>4
        <4>2. Shows(n, T)'
          BY <3>1, <3>5, <4>1, ShowsKept
        <4> QED BY <3>4, <4>2
      <3>7. CASE CountInstalled
        <4>1. /\ k \in DOMAIN archive /\ stage = "count" /\ ~infoOnly
              /\ fs' = fs /\ k' = k /\ installed' = installed \cup {k}
          BY <3>1, <3>7 DEF CountInstalled, Step, PInv, PlaceShape
        <4>2. PICK R : R = installed
          OBVIOUS
        <4>3. Shows(k, R)
          BY <4>1, <4>2 DEF TellInv, Middle
        <4>4. R \subseteq T /\ k \in T
          BY <3>3, <4>1, <4>2
        <4>5. PICK n : n = k
          OBVIOUS
        <4>6. Shows(n, T)'
          BY <3>1, <4>1, <4>3, <4>4, <4>5, ShowsKept
        <4> QED BY <3>1, <3>2, <3>4, <3>6, <4>1, <4>5, <4>6
      <3>8. CASE installed' = installed
        BY <3>1, <3>2, <3>6, <3>8
      <3> QED BY <1>3, <2>2, <3>7, <3>8, TellSets
    <2>3. ASSUME stage' \in Middle \ {"ops"}, ~infoOnly'
          PROVE  Shows(k, installed)'
      <3>1. PICK n, S : n = k /\ S = installed
        OBVIOUS
      <3>2. /\ UNCHANGED <<archive, k, installed, infoOnly>>
            /\ OperationsDone \/ stage \in Middle \ {"ops"}
        BY <1>3, <2>3
           DEF Middle, PNext, Progress, HeaderStep, ReadHeader, ReadHeaderInfo,
               ReadHeaderFail, EndOfArchive, CheckVersion, SkipPatch, CheckFail, Prepatch,
               PrepatchFail, NoReadme, OpenReadme, OpenReadmeFail, WriteReadme, ShowReadme,
               ShowReadmeFail, CallOperations, Perform, outer, FinishStep, OperationsDone,
               OperationsFail, Return, NoStamp, BeginStamp, BeginStampFail, TearPlist,
               WriteStamp, LoseStamp, StampFail, StampDone, RenameDir, CountSkipped,
               CountInstalled, Postpatch, PostpatchFail, NextPatch, PatchingDone, GiveUp,
               Step, Same, handler, job, input, End, Kill
      <3>3. n \in DOMAIN archive /\ S \subseteq S
        BY <3>1, <3>2 DEF PInv, PlaceShape, Middle, OperationsDone, Step
      <3>4. Shows(n, S) /\ \A q \in Path : fs'[q] = fs[q] \/ q \in Open(n, S)
        <4>1. CASE OperationsDone
          <5>1. OpsShow(fs, archive[n].ops, {}) /\ fs' = fs
            BY <2>3, <3>1, <3>2, <4>1, SuccessShows
               DEF PInv, PTypeOK, OperationsDone, Step, Return, Header
          <5>2. OpsShow(fs, archive[n].ops, Open(n, S))
            BY <5>1 DEF OpsShow
          <5> QED BY <5>1, <5>2, ShowsIsOpsShow
        <4>2. CASE stage \in Middle \ {"ops"}
          <5>1. Shows(n, S)
            BY <2>3, <3>1, <3>2, <4>2 DEF TellInv
          <5>2. fs' = fs \/ \A q \in Path : fs'[q] = fs[q] \/ q \in Stamp(n)
            BY <1>3, <3>1, <4>2, WritesOnly DEF Middle
          <5> QED BY <5>1, <5>2, OpenGrows
        <4> QED BY <3>2, <4>1, <4>2
      <3>5. Shows(n, S)'
        BY <3>2, <3>3, <3>4, ShowsKept
      <3>6. Shows(n, S)' <=> Shows(k, installed)'
        BY <3>1, <3>2 DEF Shows
      <3> QED BY <3>5, <3>6
    <2> QED BY <2>1, <2>2, <2>3 DEF TellInv
  <1> QED BY <1>1, <1>2, <1>3

LEMMA AlwaysTellInv ==
    ASSUME Plain
    PROVE  PSpec => []TellInv
  <1>1. PInit => TellInv
    BY DEF PInit, TellInv, Earlier, Middle
  <1> QED BY <1>1, TellInvStep, AlwaysPInv, AlwaysSkipInv, AlwaysPerformInv, PTL DEF PSpec

(* When nothing is declined and no fault goes unreported, the run that says
   "No patches were applied" has changed nothing, and after the one that says
   "Patching successful!" every operation of every patch it installed is in
   the product, what later patches of the run wrote excepted. *)
THEOREM TellsTheTruth ==
    ASSUME Plain
    PROVE  PSpec => []ToldTheTruth
  <1>1. SkipInv /\ CleanInv /\ TellInv => ToldTheTruth
    <2> SUFFICES ASSUME SkipInv, CleanInv, TellInv, stage = "patchingdone"
                 PROVE  /\ fs = before
                        /\ \A n \in installed : Shows(n, installed)
      BY DEF ToldTheTruth
    <2>1. fs = before /\ ~info /\ UnderWay = {}
      BY DEF CleanInv, SkipInv, UnderWay, Middle
    <2>2. \A n \in installed : Shows(n, installed \cup UnderWay)
      BY <2>1 DEF TellInv
    <2>3. installed \cup UnderWay = installed
      BY <2>1
    <2> QED BY <2>1, <2>2, <2>3
  <1> QED BY <1>1, AlwaysSkipInv, AlwaysCleanInv, AlwaysTellInv, PTL

----------------------------------------------------------------------------
(* What the version in Contents/Info.plist stands for, over any number of runs,
   killed or not. *)

\* No operation touches the version file.
VersionFileApart == \A ps \in Patches : \A m \in DOMAIN ps : Plist \notin Footprint(ps[m])

\* No patch is made for a version that it or a later one of the archive leads
\* to, and two that lead to the same version do the same.
Chained ==
    \A A \in Archives : \A n, x \in DOMAIN A : A[n].newversion # Blank =>
        /\ version_ok(A[n].newversion, A[x]) = "YES" => x > n
        /\ A[x].newversion = A[n].newversion => A[x].ops = A[n].ops

\* A product with the version a patch leads to has its operations in it.
VersionIsTrue ==
    \A n \in DOMAIN archive :
        VersionOf[fs[Plist]] = archive[n].newversion /\ archive[n].newversion # Blank
            => Shows(n, DOMAIN archive)

\* The version does not change before the operations are done.
SameVersion == stage = "ops" => fs[Plist] = start[Plist]

LEMMA PlistKept ==
    ASSUME VersionFileApart, PInv, PNext, stage \notin {"stamp.write", "stamp.torn"}
    PROVE  fs'[Plist] = fs[Plist]
  <1>1. CASE OpenReadme \/ WriteReadme
    <2>1. k \in DOMAIN archive
      BY <1>1 DEF PInv, PlaceShape, OpenReadme, WriteReadme, Step
    <2> QED BY <1>1, <2>1, ReadmeIsNotPlist, StampAssumption
            DEF PInv, StepInv, TypeOK, OpenReadme, WriteReadme, Put
  <1>2. CASE Perform
    <2>1. Shaped
      BY <1>2, PerformKeepsInv
    <2>2. fs' = fs \/ (pc \in Working /\ OnlyFootprint)
      BY <2>1 DEF Shaped, FetchShape, WorkShape, SkipShape, ReturnShape
    <2>3. pc \in Working => Plist \in Path \ Footprint(Op)
      <3>1. SUFFICES ASSUME pc \in Working
                     PROVE  Plist \in Path \ Footprint(Op)
        OBVIOUS
      <3>2. stage = "ops" /\ i \in DOMAIN ops
        BY <3>1 DEF PInv, PTypeOK, TypeOK, Working, DeletePc, AddPc, PatchPc, RenamePc
      <3>3. ops \in Patches
        BY <3>2, HeaderFacts DEF PInv, PTypeOK
      <3> QED BY <3>2, <3>3, StampAssumption DEF VersionFileApart, Op
    <2> QED BY <2>2, <2>3 DEF OnlyFootprint
  <1> QED
    BY <1>1, <1>2
       DEF PNext, Progress, HeaderStep, FinishStep, ReadHeader, ReadHeaderInfo,
           ReadHeaderFail, EndOfArchive, CheckVersion, SkipPatch, CheckFail, Prepatch,
           PrepatchFail, NoReadme, OpenReadmeFail, ShowReadme, ShowReadmeFail,
           CallOperations, OperationsDone, OperationsFail, Return, NoStamp, BeginStamp,
           BeginStampFail, TearPlist, WriteStamp, LoseStamp, StampFail, StampDone, Step,
           RenameDir, CountSkipped, CountInstalled, Postpatch, PostpatchFail, NextPatch,
           PatchingDone, GiveUp, Launch, End, Kill

LEMMA SameVersionStep ==
    ASSUME VersionFileApart, PInv, SameVersion, [PNext]_pvars
    PROVE  SameVersion'
  <1>1. CASE UNCHANGED pvars
    BY <1>1 DEF pvars, vars, outer, SameVersion
  <1>2. CASE ReadHeaderInfo \/ SkipPatch \/ NoReadme \/ ShowReadme
    BY <1>2 DEF ReadHeaderInfo, SkipPatch, NoReadme, ShowReadme, CallOperations, SameVersion
  <1>3. CASE Perform
    BY <1>3, PlistKept, InfoOnlyIsKept DEF Perform, SameVersion, PNext, Progress
  <1>4. CASE ~Perform /\ ~(ReadHeaderInfo \/ SkipPatch \/ NoReadme \/ ShowReadme) /\ PNext
    BY <1>4
       DEF SameVersion, PNext, Progress, HeaderStep, FinishStep, ReadHeader,
           ReadHeaderFail, EndOfArchive, CheckVersion, CheckFail, Prepatch, PrepatchFail,
           OpenReadme, OpenReadmeFail, WriteReadme, ShowReadmeFail, OperationsDone,
           OperationsFail, NoStamp, BeginStamp, BeginStampFail, TearPlist, WriteStamp,
           LoseStamp, StampFail, StampDone, RenameDir, CountSkipped, CountInstalled,
           Postpatch, PostpatchFail, NextPatch, PatchingDone, GiveUp, Step, Launch, End,
           Kill
  <1> QED BY <1>1, <1>2, <1>3, <1>4

LEMMA VersionIsTrueStep ==
    ASSUME VersionFileApart, Chained, PInv, SkipInv, TellInv, SameVersion, VersionIsTrue,
           [PNext]_pvars
    PROVE  VersionIsTrue'
  <1>1. archive' = archive
    BY InfoOnlyIsKept
       DEF pvars, outer, PNext, Progress, Perform, HeaderStep, FinishStep, ReadHeader,
           ReadHeaderInfo, ReadHeaderFail, EndOfArchive, CheckVersion, SkipPatch, CheckFail,
           Prepatch, PrepatchFail, NoReadme, OpenReadme, OpenReadmeFail, WriteReadme,
           ShowReadme, ShowReadmeFail, CallOperations, OperationsDone, OperationsFail,
           Return, NoStamp, BeginStamp, BeginStampFail, TearPlist, WriteStamp, LoseStamp,
           StampFail, StampDone, RenameDir, CountSkipped, CountInstalled, Postpatch,
           PostpatchFail, NextPatch, PatchingDone, GiveUp, Same, job, Launch, End, Kill
  <1> SUFFICES ASSUME NEW n \in DOMAIN archive, archive[n].newversion # Blank,
                      VersionOf[fs'[Plist]] = archive[n].newversion
               PROVE  Shows(n, DOMAIN archive)'
    BY <1>1 DEF VersionIsTrue
  <1>2. PICK S : S = DOMAIN archive
    OBVIOUS
  <1>3. /\ Shows(n, S) <=> Shows(n, DOMAIN archive)
        /\ Shows(n, S)' <=> Shows(n, DOMAIN archive)'
    BY <1>1, <1>2 DEF Shows
  <1>4. CASE fs' = fs
    <2>1. Shows(n, S)
      BY <1>3, <1>4 DEF VersionIsTrue
    <2> QED BY <1>1, <1>3, <1>4, <2>1, ShowsKept
  <1>5. CASE fs' # fs /\ stage \notin {"stamp.write", "stamp.torn"}
    <2>1. PNext /\ fs'[Plist] = fs[Plist]
      BY <1>5, PlistKept DEF pvars, vars
    <2>2. /\ k \in DOMAIN archive
          /\ stage \in {"readme", "readme.write", "ops"}
          /\ stage = "ops" => ~infoOnly
          /\ \A q \in Path : fs'[q] = fs[q] \/ q \in Written(k)
      BY <1>5, <2>1, WritesOnly
    <2>3. version_ok(archive[n].newversion, archive[k]) = "YES"
      BY <2>1, <2>2
         DEF SkipInv, Middle, SameVersion, Checked, get_product_version, Header
    <2>4. k > n
      BY <2>2, <2>3 DEF Chained, PInv, PTypeOK
    <2>5. Written(k) \subseteq Open(n, S)
      BY <1>2, <2>2, <2>4, OpenGrows
    <2>6. Shows(n, S)
      BY <1>3, <2>1 DEF VersionIsTrue
    <2> QED BY <1>1, <1>3, <2>2, <2>5, <2>6, ShowsKept
  <1>6. CASE fs' # fs /\ stage \in {"stamp.write", "stamp.torn"}
    <2>1. TearPlist \/ WriteStamp
      BY <1>6
         DEF pvars, vars, PNext, Progress, HeaderStep, FinishStep, ReadHeader,
             ReadHeaderInfo, ReadHeaderFail, EndOfArchive, CheckVersion, SkipPatch,
             CheckFail, Prepatch, PrepatchFail, NoReadme, OpenReadme, OpenReadmeFail,
             WriteReadme, ShowReadme, ShowReadmeFail, Perform, OperationsDone,
             OperationsFail, NoStamp, BeginStamp, BeginStampFail, LoseStamp, StampFail,
             RenameDir, CountSkipped, CountInstalled, Postpatch, PostpatchFail, NextPatch,
             PatchingDone, GiveUp, Step, Launch, End, Kill
    <2>2. /\ k \in DOMAIN archive /\ mem \in Content
          /\ VersionOf[mem] # Blank /\ Header.newversion \in Version
      BY <1>6, HeaderFacts DEF PInv, PTypeOK, PlaceShape
    <2>3. VersionOf[NewPlist] = Header.newversion /\ NewPlist \in Content
      BY <2>2, StampAssumption DEF NewPlist
    <2>4. fs'[Plist] = NewPlist \/ fs'[Plist] = Partial
      BY <2>1, StampAssumption DEF TearPlist, WriteStamp, Put, PInv, StepInv, TypeOK
    <2>5. fs'[Plist] = NewPlist
      BY <2>4, VersionAssumption
    <2>6. archive[k].ops = archive[n].ops /\ Stamp(k) = {Plist} /\ Stamp(n) = {Plist}
      BY <2>2, <2>3, <2>5 DEF Chained, PInv, PTypeOK, Header, Stamp
    <2>7. OpsShow(fs, archive[n].ops, {Plist})
      <3>1. PICK x, R : x = k /\ R = installed
        OBVIOUS
      <3>2. Shows(x, R)
        BY <1>6, <3>1 DEF TellInv, SkipInv, Middle
      <3>3. R \subseteq 1..(x - 1) /\ x \in Nat
        BY <1>6, <3>1 DEF TellInv, Earlier, Middle, PInv, PTypeOK
      <3>4. {m \in R : m > x} = {}
        <4>1. \A m \in R : ~(m > x)
          BY <3>3
        <4> QED BY <4>1
      <3>5. Open(x, R) = {Plist}
        BY <2>6, <3>1, <3>4 DEF Open
      <3> QED BY <2>6, <3>1, <3>2, <3>5, ShowsIsOpsShow
    <2>8. OpsShow(fs', archive[n].ops, Open(n, S))
      <3>1. \A q \in Path : fs'[q] = fs[q] \/ q \in Open(n, S)
        BY <1>6, <2>1, <2>6, WritesOnly, OpenGrows DEF PNext, Progress, FinishStep
      <3>2. {Plist} \subseteq Open(n, S)
        BY <2>6, OpenGrows
      <3>3. archive[n].ops \in Patches
        BY <2>2, <2>6, HeaderFacts DEF PInv, PTypeOK, Header
      <3> QED BY <2>7, <3>1, <3>2, <3>3, OpsShowKept
    <2>9. Open(n, S)' = Open(n, S)
      BY <1>1 DEF Open, Stamp, Written
    <2> QED BY <1>1, <1>3, <2>8, <2>9, ShowsIsOpsShow
  <1> QED BY <1>4, <1>5, <1>6

(* When nothing is declined and no fault goes unreported: if the version the
   first run found was true, then whenever a run passes over a patch because
   the product has its version already, all its operations are in the product,
   those of later patches excepted; however many runs failed or were killed. *)
THEOREM PatchedUpIsPatched ==
    ASSUME Plain, VersionFileApart, Chained
    PROVE  PSpec /\ VersionIsTrue => []PatchedUpIsTrue
  <1>1. PInit => SameVersion
    BY DEF PInit, SameVersion
  <1>2. PInv /\ SameVersion /\ [PNext]_pvars => SameVersion'
    BY SameVersionStep
  <1>3. PInv /\ SkipInv /\ TellInv /\ SameVersion /\ VersionIsTrue /\ [PNext]_pvars
            => VersionIsTrue'
    BY VersionIsTrueStep
  <1>4. PInv /\ VersionIsTrue => PatchedUpIsTrue
    BY DEF PInv, PlaceShape, VersionIsTrue, PatchedUpIsTrue, get_product_version, Header
  <1> QED BY <1>1, <1>2, <1>3, <1>4, AlwaysPInv, AlwaysSkipInv, AlwaysTellInv, PTL DEF PSpec
=============================================================================
