------------------------- MODULE OpHandlers_proofs -------------------------
(***************************************************************************)
(* Proofs that the handlers keep the product a tree, touch nothing but the *)
(* paths of the operation in hand, never destroy a file before its         *)
(* replacement is verified, and leave every performed operation settled.   *)
(*                                                                         *)
(* The inductive invariant is StepInv: types, the kind of operation each   *)
(* label belongs to, and what the handler has established on disk when it  *)
(* is there.  From it every step of the program has one of five shapes     *)
(* (StepShape), and the properties of whole runs follow from the shapes    *)
(* alone.                                                                  *)
(***************************************************************************)
EXTENDS OpHandlers, TLAPS

-----------------------------------------------------------------------------
(* Paths and trees. *)


(* A path is a non-empty sequence and all its prefixes are paths: the form in
   which the proofs below use the assumption on Path. *)
LEMMA PathIsSeq ==
    ASSUME NEW p \in Path
    PROVE  /\ p \in Seq(STRING)
           /\ Len(p) \in Nat /\ Len(p) > 0
           /\ \A n \in 1..Len(p) : SubSeq(p, 1, n) \in Path
  BY PathAssumption

(* What SubSeq from the first element on is. *)
LEMMA PrefixFacts ==
    ASSUME NEW s \in Seq(STRING), NEW n \in 0..Len(s)
    PROVE  /\ SubSeq(s, 1, n) \in Seq(STRING)
           /\ Len(SubSeq(s, 1, n)) = n
           /\ \A k \in 1..n : SubSeq(s, 1, n)[k] = s[k]
  OBVIOUS

(* Two sequences of the same length with the same elements are equal. *)
LEMMA SameElements ==
    ASSUME NEW s \in Seq(STRING), NEW t \in Seq(STRING), Len(s) = Len(t),
           \A k \in 1..Len(s) : s[k] = t[k]
    PROVE  s = t
  OBVIOUS

(* The directory of a path is a path, or the top of the product. *)
LEMMA ParentIsPath ==
    ASSUME NEW p \in Path
    PROVE  /\ Parent(p) \in Path \cup {Root}
           /\ Len(Parent(p)) = Len(p) - 1
           /\ \A k \in 1..(Len(p) - 1) : Parent(p)[k] = p[k]
  <1>1. /\ p \in Seq(STRING)
        /\ Len(p) \in Nat /\ Len(p) > 0
        /\ \A n \in 1..Len(p) : SubSeq(p, 1, n) \in Path
    BY PathIsSeq
  <1>2. Len(p) - 1 \in 0..Len(p)
    BY <1>1
  <1>3. /\ Parent(p) \in Seq(STRING)
        /\ Len(Parent(p)) = Len(p) - 1
        /\ \A k \in 1..(Len(p) - 1) : Parent(p)[k] = p[k]
    BY <1>1, <1>2, PrefixFacts DEF Parent
  <1>4. CASE Len(p) = 1
    BY <1>3, <1>4, SameElements DEF Root
  <1>5. CASE Len(p) # 1
    <2>1. Len(p) - 1 \in 1..Len(p)
      <3>1. \A n \in Nat : n > 0 /\ n # 1 => n - 1 \in 1..n
        OBVIOUS
      <3> QED BY <1>1, <1>5, <3>1
    <2> QED BY <1>1, <1>3, <2>1 DEF Parent
  <1> QED BY <1>3, <1>4, <1>5

(* A directory contains its own entries. *)
LEMMA EntryIsUnder ==
    ASSUME NEW c \in Path
    PROVE  c \in Under(Parent(c))
  BY ParentIsPath, PathIsSeq DEF Under

(* What lies under a directory lies there directly or under one of the
   directories in it. *)
LEMMA UnderThroughEntry ==
    ASSUME NEW d \in Path, NEW q \in Under(d)
    PROVE  \E c \in Path : Parent(c) = d /\ (q = c \/ q \in Under(c))
  <1> DEFINE n == Len(d) + 1
             c == SubSeq(q, 1, n)
  <1>1. /\ q \in Path
        /\ Len(d) < Len(q)
        /\ \A k \in 1..Len(d) : q[k] = d[k]
    BY DEF Under
  <1>2. /\ q \in Seq(STRING) /\ d \in Seq(STRING)
        /\ Len(q) \in Nat /\ Len(d) \in Nat /\ Len(q) > 0 /\ Len(d) > 0
        /\ \A k \in 1..Len(q) : SubSeq(q, 1, k) \in Path
    BY <1>1, PathIsSeq
  <1>3. n \in 1..Len(q) /\ n \in 0..Len(q)
    BY <1>1, <1>2
  <1>4. /\ c \in Path
        /\ c \in Seq(STRING)
        /\ Len(c) = n
        /\ \A k \in 1..n : c[k] = q[k]
    BY <1>2, <1>3, PrefixFacts
  <1> HIDE DEF c
  <1>5. /\ Parent(c) \in Seq(STRING)
        /\ Len(Parent(c)) = Len(d)
        /\ \A k \in 1..Len(d) : Parent(c)[k] = c[k]
    <2>1. n - 1 = Len(d) /\ Len(d) \in 0..n
      BY <1>2
    <2> HIDE DEF n
    <2> QED BY <1>4, <2>1, PrefixFacts DEF Parent
  <1>6. Parent(c) = d
    <2>1. \A k \in 1..Len(d) : Parent(c)[k] = d[k]
      BY <1>1, <1>2, <1>4, <1>5
    <2> QED BY <1>2, <1>5, <2>1, SameElements
  <1>7. CASE Len(q) = n
    BY <1>2, <1>4, <1>6, <1>7, SameElements
  <1>8. CASE Len(q) # n
    <2>1. Len(c) < Len(q)
      BY <1>3, <1>4, <1>8, <1>2
    <2>2. q \in Under(c)
      BY <1>1, <1>4, <2>1 DEF Under
    <2> QED BY <1>4, <1>6, <2>2
  <1> QED BY <1>7, <1>8

(* The directory of a path under d is d, or lies under d as well. *)
LEMMA ParentStaysUnder ==
    ASSUME NEW d \in Path, NEW q \in Under(d)
    PROVE  Parent(q) \in Path /\ (Parent(q) = d \/ Parent(q) \in Under(d))
  <1>1. /\ q \in Path
        /\ Len(d) < Len(q)
        /\ \A k \in 1..Len(d) : q[k] = d[k]
    BY DEF Under
  <1>2. /\ q \in Seq(STRING) /\ d \in Seq(STRING)
        /\ Len(q) \in Nat /\ Len(d) \in Nat /\ Len(q) > 0 /\ Len(d) > 0
    BY <1>1, PathIsSeq
  <1>3. /\ Parent(q) \in Path \cup {Root}
        /\ Len(Parent(q)) = Len(q) - 1
        /\ \A k \in 1..(Len(q) - 1) : Parent(q)[k] = q[k]
    BY <1>1, ParentIsPath
  <1>4. Parent(q) \in Path
    BY <1>1, <1>2, <1>3 DEF Root
  <1>5. \A k \in 1..Len(d) : Parent(q)[k] = d[k]
    BY <1>1, <1>2, <1>3
  <1>6. CASE Len(q) - 1 = Len(d)
    <2>1. Parent(q) \in Seq(STRING)
      BY <1>4, PathIsSeq
    <2> QED BY <1>2, <1>3, <1>4, <1>5, <1>6, <2>1, SameElements
  <1>7. CASE Len(q) - 1 # Len(d)
    BY <1>1, <1>2, <1>3, <1>4, <1>5, <1>7 DEF Under
  <1> QED BY <1>6, <1>7

(* Being under is transitive. *)
LEMMA UnderUnder ==
    ASSUME NEW d \in Path, NEW c \in Under(d), NEW q \in Under(c)
    PROVE  q \in Under(d)
  <1>1. c \in Path /\ q \in Path
    BY DEF Under
  <1>2. Len(c) \in Nat /\ Len(d) \in Nat /\ Len(q) \in Nat
    BY <1>1, PathIsSeq
  <1> QED BY <1>1, <1>2 DEF Under

(* Nothing is under itself. *)
LEMMA NotUnderItself ==
    ASSUME NEW q \in Path
    PROVE  q \notin Under(q)
  BY PathIsSeq DEF Under

----------------------------------------------------------------------------
(* What a system call on one path keeps of a tree. *)

(* The three sentinels differ from each other and from every content. *)
LEMMA NodeFacts ==
    /\ Absent # Dir /\ Absent # Partial /\ Dir # Partial
    /\ Dir \notin Content /\ Absent \notin Content /\ Partial \notin Content
    /\ Dir \notin File /\ Absent \notin File /\ Partial \in File
    /\ Content \subseteq File /\ File \subseteq Node /\ Absent \in Node /\ Dir \in Node
  BY NodeAssumption DEF File, Node

(* A path can take any value if nothing is in it and its directory exists:
   creating, truncating or writing a file, and mkdir. *)
LEMMA PutKeepsTree ==
    ASSUME NEW t \in [Path -> Node], IsTree(t), NEW p \in Path, NEW v \in Node,
           t[p] # Dir, ParentIsDir(t, p)
    PROVE  /\ [t EXCEPT ![p] = v] \in [Path -> Node]
           /\ IsTree([t EXCEPT ![p] = v])
  <1> DEFINE u == [t EXCEPT ![p] = v]
  <1>1. u \in [Path -> Node]
    OBVIOUS
  <1>2. ASSUME NEW d \in Path, NEW q \in Under(d), u[q] # Absent
        PROVE  u[d] = Dir
    <2>1. q \in Path
      BY DEF Under
    <2>2. CASE q = p
      <3>1. Parent(p) \in Path /\ (Parent(p) = d \/ Parent(p) \in Under(d))
        BY <2>2, ParentStaysUnder
      <3>2. t[Parent(p)] = Dir
        BY <3>1, PathIsSeq DEF ParentIsDir, Root
      <3>3. t[d] = Dir
        BY <3>1, <3>2, NodeFacts DEF IsTree
      <3>4. d # p
        BY <3>3
      <3> QED BY <3>3, <3>4
    <2>3. CASE q # p
      <3>1. t[q] # Absent
        BY <1>2, <2>1, <2>3
      <3>2. t[d] = Dir
        BY <3>1 DEF IsTree
      <3>3. d # p
        BY <3>2
      <3> QED BY <3>2, <3>3
    <2> QED BY <2>2, <2>3
  <1> QED BY <1>1, <1>2 DEF IsTree

(* What is there is in a directory that is there. *)
LEMMA PresentHasDirectory ==
    ASSUME NEW t \in [Path -> Node], IsTree(t), NEW p \in Path, t[p] # Absent
    PROVE  ParentIsDir(t, p)
  <1>1. Parent(p) \in Path \cup {Root} /\ p \in Under(Parent(p))
    BY ParentIsPath, EntryIsUnder
  <1> QED BY <1>1 DEF IsTree, ParentIsDir

(* unlink() of anything but a directory. *)
LEMMA UnlinkKeepsTree ==
    ASSUME NEW t \in [Path -> Node], IsTree(t), NEW p \in Path, t[p] # Dir
    PROVE  /\ [t EXCEPT ![p] = Absent] \in [Path -> Node]
           /\ IsTree([t EXCEPT ![p] = Absent])
  <1>1. ASSUME NEW d \in Path, NEW q \in Under(d), t[q] # Absent
        PROVE  t[d] = Dir
    BY <1>1 DEF IsTree
  <1> QED BY <1>1, NodeFacts DEF IsTree, Under

(* rmdir() of a directory without entries leaves nothing under it. *)
LEMMA EmptyMeansNothingUnder ==
    ASSUME NEW t \in [Path -> Node], IsTree(t), NEW d \in Path,
           make_filelist(t, d) = {}
    PROVE  \A q \in Under(d) : t[q] = Absent
  <1> SUFFICES ASSUME NEW q \in Under(d), t[q] # Absent
               PROVE  FALSE
    OBVIOUS
  <1>1. PICK c \in Path : Parent(c) = d /\ (q = c \/ q \in Under(c))
    BY UnderThroughEntry
  <1>2. t[c] # Absent
    BY <1>1, NodeFacts DEF IsTree
  <1> QED BY <1>1, <1>2 DEF make_filelist

(* So the product is still a tree after it. *)
LEMMA RmdirKeepsTree ==
    ASSUME NEW t \in [Path -> Node], IsTree(t), NEW d \in Path,
           make_filelist(t, d) = {}
    PROVE  /\ [t EXCEPT ![d] = Absent] \in [Path -> Node]
           /\ IsTree([t EXCEPT ![d] = Absent])
           /\ \A q \in Under(d) : [t EXCEPT ![d] = Absent][q] = Absent
  <1> DEFINE u == [t EXCEPT ![d] = Absent]
  <1>1. \A q \in Under(d) : t[q] = Absent
    BY EmptyMeansNothingUnder
  <1>2. \A q \in Path : u[q] # Absent => u[q] = t[q] /\ q # d
    OBVIOUS
  <1>3. u \in [Path -> Node]
    BY NodeFacts
  <1>4. \A q \in Under(d) : u[q] = Absent
    BY <1>1 DEF Under
  <1>5. ASSUME NEW e \in Path, NEW q \in Under(e), u[q] # Absent
        PROVE  u[e] = Dir
    <2>1. q \in Path
      BY DEF Under
    <2>2. t[q] # Absent
      BY <1>2, <1>5, <2>1
    <2>3. t[e] = Dir
      BY <2>2 DEF IsTree
    <2>4. e # d
      BY <1>1, <2>2
    <2> QED BY <2>3, <2>4
  <1> QED BY <1>3, <1>4, <1>5 DEF IsTree

-----------------------------------------------------------------------------
(* The handlers. *)

(* Each label lies in the handler of one kind of operation. *)
OpShape ==
    /\ pc = "idle" => i = 1
    /\ pc \in AddPc => Op.op \in {"ADD", "REPLACE"}
    /\ pc \in PatchPc \cup RenamePc => Op.op = "PATCH"

(* What the handler knows of the disk at each label: handle_patch_op has
   verified the original until do_rename unlinks it, and holds the verified
   result from then on. *)
DiskShape ==
    /\ pc = "add.open" => fs[Target] \in {Absent, Dir}
    /\ pc = "add.write" => fs[Target] = Partial
    /\ pc \in PatchPc \cup {"patch.unlink"} => fs[Target] = Op.md5_1
    /\ pc \in {"patch.rename", "patch.copy"} =>
           fs[Target] = Absent /\ ParentIsDir(fs, Target)
    /\ pc = "patch.copywrite" => fs[Target] = Partial
    /\ pc \in RenamePc => tmp = Op.md5_2

StepInv == TypeOK /\ OpShape /\ DiskShape

\* Whatever patch is read, one of Patches or not: what follows holds of them all.
Entered(ps, info) == WellMade(ps) /\ info \in BOOLEAN /\ Enter(ps, info)
AnyStep == (\E ps, info : Entered(ps, info)) \/ OpStep \/ Exit \/ Crash

LEMMA NextIsAnyStep == [Next]_vars => [AnyStep]_vars
  BY PatchesAssumption DEF Next, AnyStep, Entered

(* The operation in hand is a well-formed operation of the archive. *)
LEMMA OpFacts ==
    ASSUME TypeOK, pc \in Working
    PROVE  /\ Op \in Operation
           /\ WellFormed(Op)
           /\ Op.op # "DONE" => Target \in Path
           /\ i + 1 \in 1..(Len(ops) + 1)
  <1>1. ops \in Seq(Operation) /\ i \in 1..Len(ops) /\ WellFormed(ops[i])
    BY DEF TypeOK, WellMade
  <1> QED BY <1>1 DEF Op, TypeOK, WellFormed, Target

(* Every operation names paths of the product only. *)
LEMMA FootprintInPath ==
    ASSUME TypeOK, NEW m \in DOMAIN ops
    PROVE  Footprint(ops[m]) \subseteq Path
  <1>1. ops \in Seq(Operation) /\ m \in 1..Len(ops) /\ WellFormed(ops[m])
    BY DEF TypeOK, WellMade
  <1> QED BY <1>1 DEF Footprint, WellFormed, Under

(* delete_dir_tree works on a directory inside the one it was called for. *)
LEMMA DelTreeFacts ==
    ASSUME TypeOK, pc = "deltree"
    PROVE  /\ Target \in Path
           /\ Footprint(Op) = {Target} \cup Under(Target)
           /\ Outcome(Op) = Absent
           /\ wd \in Path
  BY OpFacts DEF TypeOK, Working, DeletePc, Footprint, Outcome, Target, Under

----------------------------------------------------------------------------
(* StepInv is inductive: one lemma per handler, one step per action. *)

(* The loop reads, skips and ends without touching the product. *)
LEMMA LoopStepKeepsInv ==
    ASSUME StepInv, LoopStep
    PROVE  StepInv'
  <1> USE DEF StepInv, TypeOK, OpShape, DiskShape, Goto, Advance, Abort,
              Performing, input, temps, Put, Program, Working, DeletePc,
              AddPc, PatchPc, RenamePc, Op, Target, WellFormed, file_exists,
              file_is_directory
  <1>1. CASE FetchOp
    BY <1>1, OpFacts DEF FetchOp
  <1>2. CASE FetchFail
    BY <1>2, OpFacts DEF FetchFail
  <1>3. CASE SkipOp
    BY <1>3, OpFacts DEF SkipOp
  <1>4. CASE HandleDone
    BY <1>4, OpFacts DEF HandleDone
  <1> QED BY <1>1, <1>2, <1>3, <1>4 DEF LoopStep

(* DELETE and DELETEDIRECTORY. *)
LEMMA DeleteStepKeepsInv ==
    ASSUME StepInv, DeleteStep
    PROVE  StepInv'
  <1> USE DEF StepInv, TypeOK, OpShape, DiskShape, Goto, Advance, Abort,
              Performing, input, temps, Put, Program, Working, DeletePc,
              AddPc, PatchPc, RenamePc, Op, Target, WellFormed, file_exists,
              file_is_directory
  <1>1. CASE DeleteFail
    BY <1>1, OpFacts DEF DeleteFail
  <1>2. CASE HandleDelDirGone
    BY <1>2, OpFacts DEF HandleDelDirGone
  <1>3. CASE HandleDelDir
    BY <1>3, OpFacts DEF HandleDelDir, Footprint
  <1>4. CASE DelDirFail
    BY <1>4, OpFacts DEF DelDirFail
  <1>5. CASE DelTreeFail
    BY <1>5, OpFacts DEF DelTreeFail
  <1>6. CASE HandleDelete
    <2>1. Target \in Path
      BY <1>6, OpFacts DEF HandleDelete
    <2>2. fs' \in [Path -> Node] /\ IsTree(fs')
      BY <1>6, <2>1, UnlinkKeepsTree, NodeFacts DEF HandleDelete
    <2> QED BY <1>6, <2>1, <2>2, OpFacts, NodeFacts DEF HandleDelete
  <1>7. ASSUME NEW q \in Path, DelTreeRemove(q)
        PROVE  StepInv'
    <2>1. fs' \in [Path -> Node] /\ IsTree(fs')
      BY <1>7, UnlinkKeepsTree DEF DelTreeRemove
    <2> QED BY <1>7, <2>1, DelTreeFacts DEF DelTreeRemove
  <1>8. ASSUME NEW q \in Path, DelTreeDescend(q)
        PROVE  StepInv'
    <2>1. q \in Under(wd) /\ wd \in {Target} \cup Under(Target)
      BY <1>8, DelTreeFacts, EntryIsUnder DEF DelTreeDescend, make_filelist
    <2>2. q \in Footprint(Op)
      BY <1>8, <2>1, DelTreeFacts, UnderUnder DEF DelTreeDescend
    <2> QED BY <1>8, <2>2, DelTreeFacts DEF DelTreeDescend
  <1>9. CASE DelTreeRmdir
    <2>1. fs' \in [Path -> Node] /\ IsTree(fs')
      BY <1>9, DelTreeFacts, RmdirKeepsTree DEF DelTreeRmdir
    <2>2. CASE wd = Target
      BY <1>9, <2>1, <2>2, OpFacts DEF DelTreeRmdir
    <2>3. CASE wd # Target
      <3>1. wd \in Under(Target) /\ Target \in Path
        BY <1>9, <2>3, DelTreeFacts DEF DelTreeRmdir
      <3>2. Parent(wd) \in Path /\ Parent(wd) \in Footprint(Op)
        BY <1>9, <3>1, DelTreeFacts, ParentStaysUnder DEF DelTreeRmdir
      <3> QED BY <1>9, <2>1, <2>3, <3>2, DelTreeFacts DEF DelTreeRmdir
    <2> QED BY <2>2, <2>3
  <1> QED BY <1>1, <1>2, <1>3, <1>4, <1>5, <1>6, <1>7, <1>8, <1>9 DEF DeleteStep

(* ADD, REPLACE and ADDDIRECTORY. *)
LEMMA AddStepKeepsInv ==
    ASSUME StepInv, AddStep
    PROVE  StepInv'
  <1> USE DEF StepInv, TypeOK, OpShape, DiskShape, Goto, Advance, Abort,
              Performing, input, temps, Put, Program, Working, DeletePc,
              AddPc, PatchPc, RenamePc, Op, Target, WellFormed, file_exists,
              file_is_directory
  <1>1. CASE AddAlreadyThere
    BY <1>1, OpFacts DEF AddAlreadyThere
  <1>2. CASE AddConflict
    BY <1>2, OpFacts DEF AddConflict
  <1>3. CASE AddMissing
    BY <1>3, OpFacts DEF AddMissing
  <1>4. CASE AddOpenFail
    BY <1>4, OpFacts DEF AddOpenFail
  <1>5. CASE AddWriteFail
    BY <1>5, OpFacts DEF AddWriteFail
  <1>6. CASE AddVerify
    BY <1>6, OpFacts DEF AddVerify
  <1>7. CASE AddVerifyFail
    BY <1>7, OpFacts DEF AddVerifyFail
  <1>8. CASE AddDirAlreadyThere
    BY <1>8, OpFacts DEF AddDirAlreadyThere
  <1>9. CASE AddDirFail
    BY <1>9, OpFacts DEF AddDirFail
  <1>10. CASE ReplaceUnlink
    <2>1. Target \in Path
      BY <1>10, OpFacts DEF ReplaceUnlink
    <2>2. fs' \in [Path -> Node] /\ IsTree(fs')
      <3>1. CASE fs[Target] = Dir
        <4>1. fs' = fs
          BY <1>10, <2>1, <3>1 DEF ReplaceUnlink
        <4> QED BY <4>1
      <3>2. CASE fs[Target] # Dir
        BY <1>10, <2>1, <3>2, UnlinkKeepsTree DEF ReplaceUnlink
      <3> QED BY <3>1, <3>2
    <2> QED BY <1>10, <2>1, <2>2, OpFacts DEF ReplaceUnlink
  <1>11. CASE AddOpen
    <2>1. Target \in Path
      BY <1>11, OpFacts DEF AddOpen
    <2>2. fs' \in [Path -> Node] /\ IsTree(fs')
      BY <1>11, <2>1, PutKeepsTree, NodeFacts DEF AddOpen
    <2> QED BY <1>11, <2>1, <2>2, OpFacts, NodeFacts DEF AddOpen
  <1>12. CASE AddWrite
    <2>1. Target \in Path /\ fs[Target] = Partial /\ Op.data \in Node
      BY <1>12, OpFacts, NodeFacts DEF AddWrite
    <2>2. ParentIsDir(fs, Target)
      BY <2>1, PresentHasDirectory, NodeFacts
    <2>3. fs' \in [Path -> Node] /\ IsTree(fs')
      BY <1>12, <2>1, <2>2, PutKeepsTree, NodeFacts DEF AddWrite
    <2> QED BY <1>12, <2>1, <2>3, OpFacts DEF AddWrite
  <1>13. CASE HandleAddDir
    <2>1. Target \in Path
      BY <1>13, OpFacts DEF HandleAddDir
    <2>2. fs' \in [Path -> Node] /\ IsTree(fs')
      BY <1>13, <2>1, PutKeepsTree, NodeFacts DEF HandleAddDir
    <2> QED BY <1>13, <2>1, <2>2, OpFacts, NodeFacts DEF HandleAddDir
  <1> QED BY <1>1, <1>2, <1>3, <1>4, <1>5, <1>6, <1>7, <1>8, <1>9, <1>10, <1>11, <1>12, <1>13 DEF AddStep

(* PATCH up to the verified result; the product is only read. *)
LEMMA PatchStepKeepsInv ==
    ASSUME StepInv, PatchStep
    PROVE  StepInv'
  <1> USE DEF StepInv, TypeOK, OpShape, DiskShape, Goto, Advance, Abort,
              Performing, input, temps, Put, Program, Working, DeletePc,
              AddPc, PatchPc, RenamePc, Op, Target, WellFormed, file_exists,
              file_is_directory
  <1>1. CASE PatchVerifyOld
    BY <1>1, OpFacts DEF PatchVerifyOld
  <1>2. CASE PatchAlreadyDone
    BY <1>2, OpFacts DEF PatchAlreadyDone
  <1>3. CASE PatchUnreadable
    BY <1>3, OpFacts DEF PatchUnreadable
  <1>4. CASE PatchMismatch
    BY <1>4, OpFacts DEF PatchMismatch
  <1>5. CASE PatchDelta
    BY <1>5, OpFacts DEF PatchDelta
  <1>6. CASE PatchDeltaFail
    BY <1>6, OpFacts DEF PatchDeltaFail
  <1>7. CASE PatchXdelta
    BY <1>7, OpFacts, NodeFacts DEF PatchXdelta
  <1>8. CASE PatchXdeltaFail
    BY <1>8, OpFacts DEF PatchXdeltaFail
  <1>9. CASE PatchCheck
    BY <1>9, OpFacts DEF PatchCheck
  <1>10. CASE PatchCheckFail
    BY <1>10, OpFacts DEF PatchCheckFail
  <1> QED BY <1>1, <1>2, <1>3, <1>4, <1>5, <1>6, <1>7, <1>8, <1>9, <1>10 DEF PatchStep

(* do_rename. *)
LEMMA RenameStepKeepsInv ==
    ASSUME StepInv, RenameStep
    PROVE  StepInv'
  <1> USE DEF StepInv, TypeOK, OpShape, DiskShape, Goto, Advance, Abort,
              Performing, input, temps, Put, Program, Working, DeletePc,
              AddPc, PatchPc, RenamePc, Op, Target, WellFormed, file_exists,
              file_is_directory
  <1>1. CASE PatchRenameRefused
    BY <1>1, OpFacts DEF PatchRenameRefused
  <1>2. CASE PatchCopyWriteFail
    BY <1>2, OpFacts DEF PatchCopyWriteFail
  <1>3. CASE PatchUnlink
    <2>1. Target \in Path /\ fs[Target] \in Content
      BY <1>3, OpFacts DEF PatchUnlink
    <2>2. fs' \in [Path -> Node] /\ IsTree(fs')
      BY <1>3, <2>1, UnlinkKeepsTree, NodeFacts DEF PatchUnlink
    <2>3. ParentIsDir(fs, Target)
      BY <2>1, PresentHasDirectory, NodeFacts
    <2>4. ParentIsDir(fs', Target)
      BY <1>3, <2>1, <2>3, NodeFacts, ParentIsPath DEF PatchUnlink, ParentIsDir
    <2> QED BY <1>3, <2>1, <2>2, <2>4, OpFacts DEF PatchUnlink
  <1>4. CASE PatchRename
    <2>1. Target \in Path
      BY <1>4, OpFacts DEF PatchRename
    <2>2. fs' \in [Path -> Node] /\ IsTree(fs')
      BY <1>4, <2>1, PutKeepsTree, NodeFacts DEF PatchRename
    <2> QED BY <1>4, <2>1, <2>2, OpFacts, NodeFacts DEF PatchRename
  <1>5. CASE PatchCopyOpen
    <2>1. Target \in Path
      BY <1>5, OpFacts DEF PatchCopyOpen
    <2>2. fs' \in [Path -> Node] /\ IsTree(fs')
      BY <1>5, <2>1, PutKeepsTree, NodeFacts DEF PatchCopyOpen
    <2> QED BY <1>5, <2>1, <2>2, OpFacts, NodeFacts DEF PatchCopyOpen
  <1>6. CASE PatchCopyOpenFail
    <2>1. Target \in Path
      BY <1>6, OpFacts DEF PatchCopyOpenFail
    <2>2. fs' \in [Path -> Node] /\ IsTree(fs')
      BY <1>6, <2>1, UnlinkKeepsTree, NodeFacts DEF PatchCopyOpenFail
    <2> QED BY <1>6, <2>1, <2>2, OpFacts, NodeFacts DEF PatchCopyOpenFail
  <1>7. CASE PatchCopyWrite
    <2>1. Target \in Path /\ fs[Target] = Partial /\ tmp \in Node
      BY <1>7, OpFacts, NodeFacts DEF PatchCopyWrite
    <2>2. ParentIsDir(fs, Target)
      BY <2>1, PresentHasDirectory, NodeFacts
    <2>3. fs' \in [Path -> Node] /\ IsTree(fs')
      BY <1>7, <2>1, <2>2, PutKeepsTree, NodeFacts DEF PatchCopyWrite
    <2> QED BY <1>7, <2>1, <2>3, OpFacts, NodeFacts DEF PatchCopyWrite
  <1> QED BY <1>1, <1>2, <1>3, <1>4, <1>5, <1>6, <1>7 DEF RenameStep

(* Starting, ending and being killed leave the product as it is. *)
LEMMA OutsideKeepsInv ==
    ASSUME StepInv,
           (\E ps, info : Entered(ps, info)) \/ Exit \/ Crash
    PROVE  StepInv'
  <1> USE DEF StepInv, TypeOK, OpShape, DiskShape, temps, Program, Working,
              DeletePc, AddPc, PatchPc, RenamePc
  <1>1. ASSUME NEW ps, NEW info, Entered(ps, info)
        PROVE  StepInv'
    <2>1. Len(ps) \in Nat /\ 1 \in 1..(Len(ps) + 1)
      BY <1>1 DEF Entered, WellMade
    <2> QED BY <1>1, <2>1, NodeFacts DEF Entered, Enter
  <1>2. CASE Exit
    <2>1. 1 \in 1..(Len(ops) + 1)
      BY DEF WellMade
    <2> QED BY <1>2, <2>1 DEF Exit
  <1>3. CASE Crash
    <2>1. 1 \in 1..(Len(ops) + 1)
      BY DEF WellMade
    <2> QED BY <1>3, <2>1 DEF Crash
  <1> QED BY <1>1, <1>2, <1>3

(* The types, and with them the tree, hold in every reachable state. *)
LEMMA InitStepInv == Init => StepInv
  <1> SUFFICES ASSUME Init
               PROVE  StepInv
    OBVIOUS
  <1>1. fs \in [Path -> Node] /\ IsTree(fs)
    BY InstallsAssumption DEF Init
  <1>2. pc = "idle" /\ pc \notin Working /\ pc # "deltree"
    BY DEF Init, Working, DeletePc, AddPc, PatchPc, RenamePc
  <1>3. infoOnly \in BOOLEAN /\ wd \in Path \cup {Root}
    BY Zenon DEF Init
  <1>4. i \in 1..(Len(ops) + 1) /\ declined \subseteq 1..(i - 1)
    BY PatchesAssumption DEF Init
  <1>5. TypeOK
    BY <1>1, <1>2, <1>3, <1>4, PatchesAssumption DEF Init, TypeOK
  <1>6. OpShape /\ DiskShape
    BY <1>2 DEF Init, OpShape, DiskShape, AddPc, PatchPc, RenamePc
  <1> QED BY <1>5, <1>6 DEF StepInv

LEMMA NextStepInv == StepInv /\ [AnyStep]_vars => StepInv'
  <1> SUFFICES ASSUME StepInv, [AnyStep]_vars
               PROVE  StepInv'
    OBVIOUS
  <1>1. CASE OpStep
    BY <1>1, LoopStepKeepsInv, DeleteStepKeepsInv, AddStepKeepsInv,
       PatchStepKeepsInv, RenameStepKeepsInv DEF OpStep
  <1>2. CASE (\E ps, info : Entered(ps, info)) \/ Exit \/ Crash
    BY <1>2, OutsideKeepsInv
  <1>3. CASE UNCHANGED vars
    BY <1>3 DEF vars, StepInv, TypeOK, OpShape, DiskShape, Op, Target, Footprint
  <1> QED BY <1>1, <1>2, <1>3 DEF AnyStep

LEMMA AlwaysStepInv == Spec => []StepInv
  <1> QED BY InitStepInv, NextStepInv, NextIsAnyStep, PTL DEF Spec

(* Whatever fails and whenever the run is killed, every variable has its type
   and the product is a tree: no entry without its directory. *)
THEOREM TypeCorrect == Spec => []TypeOK
  <1>1. StepInv => TypeOK
    BY DEF StepInv
  <1> QED BY <1>1, AlwaysStepInv, PTL

(* While PATCH works, the old version is in the product or the new one, whole
   and verified, in patchtmpfile; with any faults. *)
THEOREM VersionKept == Spec => []PatchKeepsAVersion
  <1>1. StepInv => PatchKeepsAVersion
    BY DEF StepInv, DiskShape, PatchKeepsAVersion, PatchPc, RenamePc
  <1> QED BY <1>1, AlwaysStepInv, PTL

----------------------------------------------------------------------------
(* The five shapes of a step of the program. *)

OnlyFootprint == \A q \in Path \ Footprint(Op) : fs'[q] = fs[q]

\* The next operation is read, or cannot be.
FetchShape ==
    /\ pc = "fetch" /\ pc' \in {"op", "error"}
    /\ UNCHANGED <<fs, i, ops, declined, start>>

\* A system call inside a handler, which stays there or gives up.
WorkShape ==
    /\ pc \in Working /\ pc' \in {"error"} \cup (Working \ {"op"})
    /\ OnlyFootprint
    /\ pc' = "error" => fs' = fs
    /\ UNCHANGED <<i, ops, declined, start>>

\* The operation is passed over.
SkipShape ==
    /\ pc = "op" /\ pc' = "fetch" /\ Op.op # "DONE"
    /\ i' = i + 1
    /\ declined' = declined \cup {i}
    /\ UNCHANGED <<fs, ops, start>>

\* The handler returns PATCHSUCCESS.
ReturnShape ==
    /\ pc \in Working
    /\ pc' = IF Op.op = "DONE" THEN "success" ELSE "fetch"
    /\ i' = i + 1
    /\ OnlyFootprint
    /\ UNCHANGED <<ops, declined, start>>

Settled == \A q \in Footprint(Op) : fs'[q] = Outcome(Op)

\* No fault that the code does not report.
Honest == Fails \cap {"copy", "uninit"} = {}

Shaped == \/ FetchShape \/ WorkShape \/ SkipShape
          \/ ReturnShape /\ (Honest => Settled)

(* What the operation in hand may touch, and what it must leave there. *)
LEMMA FootprintFacts ==
    ASSUME TypeOK, pc \in Working
    PROVE  /\ Op.op = "DONE" => Footprint(Op) = {}
           /\ Op.op = "DELETEDIRECTORY" => Footprint(Op) = {Target} \cup Under(Target)
           /\ Op.op \notin {"DONE", "DELETEDIRECTORY"} => Footprint(Op) = {Target}
           /\ Op.op \in {"DELETE", "DELETEDIRECTORY"} => Outcome(Op) = Absent
           /\ Op.op = "ADDDIRECTORY" => Outcome(Op) = Dir
           /\ Op.op \in {"ADD", "REPLACE", "PATCH"} => Outcome(Op) = Op.md5_2
  BY DEF Footprint, Outcome, Target

(* The loop. *)
LEMMA LoopStepShape ==
    ASSUME StepInv, LoopStep
    PROVE  Shaped
  <1> USE DEF StepInv, TypeOK, OpShape, DiskShape, Goto, Advance, Abort,
              Performing, input, temps, Put, Working, DeletePc, AddPc, PatchPc,
              RenamePc, file_exists, file_is_directory, Shaped, FetchShape,
              WorkShape, SkipShape, ReturnShape, OnlyFootprint, Settled, Honest
  <1>1. CASE FetchOp
    BY <1>1, OpFacts, FootprintFacts DEF FetchOp
  <1>2. CASE FetchFail
    BY <1>2, OpFacts, FootprintFacts DEF FetchFail
  <1>3. CASE SkipOp
    BY <1>3, OpFacts, FootprintFacts DEF SkipOp
  <1>4. CASE HandleDone
    BY <1>4, OpFacts, FootprintFacts DEF HandleDone
    <1> QED BY <1>1, <1>2, <1>3, <1>4 DEF LoopStep

(* DELETE and DELETEDIRECTORY. *)
LEMMA DeleteStepShape ==
    ASSUME StepInv, DeleteStep
    PROVE  Shaped
  <1> USE DEF StepInv, TypeOK, OpShape, DiskShape, Goto, Advance, Abort,
              Performing, input, temps, Put, Working, DeletePc, AddPc, PatchPc,
              RenamePc, file_exists, file_is_directory, Shaped, FetchShape,
              WorkShape, SkipShape, ReturnShape, OnlyFootprint, Settled, Honest
  <1>1. CASE HandleDelete
    BY <1>1, OpFacts, FootprintFacts DEF HandleDelete
  <1>2. CASE DeleteFail
    BY <1>2, OpFacts, FootprintFacts DEF DeleteFail
  <1>3. CASE HandleDelDirGone
    <2>1. Target \in Path /\ fs[Target] = Absent
      BY <1>3, OpFacts DEF HandleDelDirGone
    <2>2. \A q \in Under(Target) : fs[q] = Absent
      BY <2>1, NodeFacts DEF IsTree
    <2> QED BY <1>3, <2>1, <2>2, FootprintFacts DEF HandleDelDirGone
  <1>4. CASE HandleDelDir
    BY <1>4, OpFacts, FootprintFacts DEF HandleDelDir
  <1>5. CASE DelDirFail
    BY <1>5, OpFacts, FootprintFacts DEF DelDirFail
  <1>6. CASE DelTreeFail
    BY <1>6, OpFacts, FootprintFacts DEF DelTreeFail
  <1>7. ASSUME NEW q \in Path, DelTreeRemove(q) \/ DelTreeDescend(q)
        PROVE  Shaped
    <2>1. q \in Under(wd) /\ wd \in {Target} \cup Under(Target)
      BY <1>7, DelTreeFacts, EntryIsUnder DEF DelTreeRemove, DelTreeDescend, make_filelist
    <2>2. q \in Footprint(Op)
      BY <1>7, <2>1, DelTreeFacts, UnderUnder DEF DelTreeRemove, DelTreeDescend
    <2> QED BY <1>7, <2>2 DEF DelTreeRemove, DelTreeDescend
  <1>8. CASE DelTreeRmdir
    <2>1. CASE wd = Target
      <3>1. \A q \in {Target} \cup Under(Target) : fs'[q] = Absent
        BY <1>8, <2>1, DelTreeFacts, RmdirKeepsTree DEF DelTreeRmdir
      <3> QED BY <1>8, <2>1, <3>1, DelTreeFacts DEF DelTreeRmdir
    <2>2. CASE wd # Target
      BY <1>8, <2>2, DelTreeFacts DEF DelTreeRmdir
    <2> QED BY <2>1, <2>2
    <1> QED BY <1>1, <1>2, <1>3, <1>4, <1>5, <1>6, <1>7, <1>8 DEF DeleteStep

(* ADD, REPLACE and ADDDIRECTORY. *)
LEMMA AddStepShape ==
    ASSUME StepInv, AddStep
    PROVE  Shaped
  <1> USE DEF StepInv, TypeOK, OpShape, DiskShape, Goto, Advance, Abort,
              Performing, input, temps, Put, Working, DeletePc, AddPc, PatchPc,
              RenamePc, file_exists, file_is_directory, Shaped, FetchShape,
              WorkShape, SkipShape, ReturnShape, OnlyFootprint, Settled, Honest
  <1>1. CASE AddAlreadyThere
    BY <1>1, OpFacts, FootprintFacts DEF AddAlreadyThere
  <1>2. CASE AddConflict
    BY <1>2, OpFacts, FootprintFacts DEF AddConflict
  <1>3. CASE AddMissing
    BY <1>3, OpFacts, FootprintFacts DEF AddMissing
  <1>4. CASE ReplaceUnlink
    BY <1>4, OpFacts, FootprintFacts DEF ReplaceUnlink
  <1>5. CASE AddOpen
    BY <1>5, OpFacts, FootprintFacts DEF AddOpen
  <1>6. CASE AddOpenFail
    BY <1>6, OpFacts, FootprintFacts DEF AddOpenFail
  <1>7. CASE AddWrite
    BY <1>7, OpFacts, FootprintFacts DEF AddWrite
  <1>8. CASE AddWriteFail
    BY <1>8, OpFacts, FootprintFacts DEF AddWriteFail
  <1>9. CASE AddVerify
    BY <1>9, OpFacts, FootprintFacts DEF AddVerify
  <1>10. CASE AddVerifyFail
    BY <1>10, OpFacts, FootprintFacts DEF AddVerifyFail
  <1>11. CASE AddDirAlreadyThere
    BY <1>11, OpFacts, FootprintFacts DEF AddDirAlreadyThere
  <1>12. CASE HandleAddDir
    BY <1>12, OpFacts, FootprintFacts DEF HandleAddDir
  <1>13. CASE AddDirFail
    BY <1>13, OpFacts, FootprintFacts DEF AddDirFail
    <1> QED BY <1>1, <1>2, <1>3, <1>4, <1>5, <1>6, <1>7, <1>8, <1>9, <1>10,
             <1>11, <1>12, <1>13 DEF AddStep

(* PATCH up to the verified result. *)
LEMMA PatchStepShape ==
    ASSUME StepInv, PatchStep
    PROVE  Shaped
  <1> USE DEF StepInv, TypeOK, OpShape, DiskShape, Goto, Advance, Abort,
              Performing, input, temps, Put, Working, DeletePc, AddPc, PatchPc,
              RenamePc, file_exists, file_is_directory, Shaped, FetchShape,
              WorkShape, SkipShape, ReturnShape, OnlyFootprint, Settled, Honest
  <1>1. CASE PatchVerifyOld
    BY <1>1, OpFacts, FootprintFacts DEF PatchVerifyOld
  <1>2. CASE PatchAlreadyDone
    BY <1>2, OpFacts, FootprintFacts DEF PatchAlreadyDone
  <1>3. CASE PatchUnreadable
    BY <1>3, OpFacts, FootprintFacts DEF PatchUnreadable
  <1>4. CASE PatchMismatch
    BY <1>4, OpFacts, FootprintFacts DEF PatchMismatch
  <1>5. CASE PatchDelta
    BY <1>5, OpFacts, FootprintFacts DEF PatchDelta
  <1>6. CASE PatchDeltaFail
    BY <1>6, OpFacts, FootprintFacts DEF PatchDeltaFail
  <1>7. CASE PatchXdelta
    BY <1>7, OpFacts, FootprintFacts DEF PatchXdelta
  <1>8. CASE PatchXdeltaFail
    BY <1>8, OpFacts, FootprintFacts DEF PatchXdeltaFail
  <1>9. CASE PatchCheck
    BY <1>9, OpFacts, FootprintFacts DEF PatchCheck
  <1>10. CASE PatchCheckFail
    BY <1>10, OpFacts, FootprintFacts DEF PatchCheckFail
    <1> QED BY <1>1, <1>2, <1>3, <1>4, <1>5, <1>6, <1>7, <1>8, <1>9, <1>10 DEF
             PatchStep

(* do_rename. *)
LEMMA RenameStepShape ==
    ASSUME StepInv, RenameStep
    PROVE  Shaped
  <1> USE DEF StepInv, TypeOK, OpShape, DiskShape, Goto, Advance, Abort,
              Performing, input, temps, Put, Working, DeletePc, AddPc, PatchPc,
              RenamePc, file_exists, file_is_directory, Shaped, FetchShape,
              WorkShape, SkipShape, ReturnShape, OnlyFootprint, Settled, Honest
  <1>1. CASE PatchUnlink
    BY <1>1, OpFacts, FootprintFacts DEF PatchUnlink
  <1>2. CASE PatchRename
    BY <1>2, OpFacts, FootprintFacts DEF PatchRename
  <1>3. CASE PatchRenameRefused
    BY <1>3, OpFacts, FootprintFacts DEF PatchRenameRefused
  <1>4. CASE PatchCopyOpen
    BY <1>4, OpFacts, FootprintFacts DEF PatchCopyOpen
  <1>5. CASE PatchCopyOpenFail
    BY <1>5, OpFacts, FootprintFacts DEF PatchCopyOpenFail
  <1>6. CASE PatchCopyWrite
    BY <1>6, OpFacts, FootprintFacts DEF PatchCopyWrite
  <1>7. CASE PatchCopyWriteFail
    BY <1>7, OpFacts, FootprintFacts DEF PatchCopyWriteFail
    <1> QED BY <1>1, <1>2, <1>3, <1>4, <1>5, <1>6, <1>7 DEF RenameStep

LEMMA StepShape ==
    ASSUME StepInv, OpStep
    PROVE  Shaped
  BY LoopStepShape, DeleteStepShape, AddStepShape, PatchStepShape,
     RenameStepShape DEF OpStep

----------------------------------------------------------------------------
(* What the shapes say of a whole run. *)

(* The sets the properties speak of, before and after a step. *)
LEMMA RunFacts ==
    ASSUME TypeOK
    PROVE  /\ \A m \in Performed : m \in Nat /\ m < i
           /\ i \notin declined
           /\ pc = "fetch" => InHand = {}
           /\ pc = "op" => InHand = {}
           /\ pc \in Working => InHand \subseteq {i}
           /\ FetchShape => Performed' = Performed
           /\ WorkShape => Performed' = Performed /\ InHand' = {i}
           /\ SkipShape => Performed' = Performed /\ InHand' = {}
           /\ ReturnShape => Performed' = Performed \cup {i} /\ InHand' = {}
  <1> USE DEF TypeOK, Performed, InHand
  <1>1. /\ \A m \in Performed : m \in Nat /\ m < i
        /\ i \notin declined
    OBVIOUS
  <1>2. /\ pc = "fetch" => InHand = {}
        /\ pc = "op" => InHand = {}
        /\ pc \in Working => InHand \subseteq {i}
    BY DEF Working, DeletePc, AddPc, PatchPc, RenamePc
  <1>3. /\ FetchShape => Performed' = Performed
        /\ WorkShape => Performed' = Performed
    BY DEF FetchShape, WorkShape
  <1>4. WorkShape => InHand' = {i}
    BY DEF WorkShape
  <1>5. /\ SkipShape => InHand' = {}
        /\ ReturnShape => InHand' = {}
    BY DEF SkipShape, ReturnShape, Working, DeletePc, AddPc, PatchPc, RenamePc
  <1>6. SkipShape => Performed' = Performed
    BY DEF SkipShape
  <1>7. ReturnShape => Performed' = Performed \cup {i}
    BY <1>1 DEF ReturnShape
  <1> QED BY <1>1, <1>2, <1>3, <1>4, <1>5, <1>6, <1>7

(* Confinement is kept by every step. *)
LEMMA NothingElseStep ==
    ASSUME StepInv, NothingElse, [AnyStep]_vars
    PROVE  NothingElse'
  <1> USE DEF StepInv
  <1>1. CASE UNCHANGED vars
    BY <1>1 DEF vars, NothingElse, Performed, InHand, Footprint
  <1>2. CASE \E ps, info : Entered(ps, info)
    BY <1>2 DEF Entered, Enter, NothingElse
  <1>3. CASE Exit \/ Crash
    BY <1>3 DEF Exit, Crash, NothingElse
  <1>4. CASE OpStep
    <2>1. /\ Shaped
          /\ pc # "idle"
      BY <1>4, StepShape DEF Shaped, FetchShape, WorkShape, SkipShape, ReturnShape,
                             Working, DeletePc, AddPc, PatchPc, RenamePc
    <2>2. ops' = ops /\ start' = start
      BY <2>1 DEF Shaped, FetchShape, WorkShape, SkipShape, ReturnShape
    <2>3. \A m : Footprint(ops[m])' = Footprint(ops[m])
      BY <2>2 DEF Footprint
    <2> SUFFICES ASSUME NEW q \in Path,
                        \A m \in Performed' \cup InHand' : q \notin Footprint(ops[m])
                 PROVE  fs'[q] = start[q]
      BY <2>2, <2>3 DEF NothingElse
    <2>4. CASE FetchShape
      BY <2>1, <2>4, RunFacts DEF NothingElse, FetchShape
    <2>5. CASE WorkShape
      BY <2>1, <2>5, RunFacts DEF NothingElse, WorkShape, OnlyFootprint, Op
    <2>6. CASE SkipShape
      BY <2>1, <2>6, RunFacts DEF NothingElse, SkipShape
    <2>7. CASE ReturnShape
      BY <2>1, <2>7, RunFacts DEF NothingElse, ReturnShape, OnlyFootprint, Op
    <2> QED BY <2>1, <2>4, <2>5, <2>6, <2>7 DEF Shaped
  <1> QED BY <1>1, <1>2, <1>3, <1>4 DEF AnyStep

(* A run changes nothing but the paths of the operations it performs, with any
   faults, kills included; a declined or ignored operation changes nothing. *)
THEOREM Confined == Spec => []NothingElse
  <1>1. Init => NothingElse
    BY DEF Init, NothingElse
  <1> QED BY <1>1, NothingElseStep, NextIsAnyStep, AlwaysStepInv, PTL DEF Spec

(* Settled operations stay settled, and one that returns is settled. *)
LEMMA OpsSettledStep ==
    ASSUME Honest, StepInv, OpsSettled, [AnyStep]_vars
    PROVE  OpsSettled'
  <1> USE DEF StepInv
  <1>1. CASE UNCHANGED vars
    BY <1>1 DEF vars, OpsSettled, LastWord, Performed, InHand, Footprint, Outcome
  <1>2. CASE \E ps, info : Entered(ps, info)
    BY <1>2 DEF Entered, Enter, OpsSettled, Performed
  <1>3. CASE Exit \/ Crash
    BY <1>3 DEF Exit, Crash, OpsSettled
  <1>4. CASE OpStep
    <2>1. /\ Shaped
          /\ pc # "idle"
      BY <1>4, StepShape DEF Shaped, FetchShape, WorkShape, SkipShape, ReturnShape,
                             Working, DeletePc, AddPc, PatchPc, RenamePc
    <2>2. ops' = ops
      BY <2>1 DEF Shaped, FetchShape, WorkShape, SkipShape, ReturnShape
    <2>3. \A m : /\ Footprint(ops[m])' = Footprint(ops[m])
                 /\ Outcome(ops[m])' = Outcome(ops[m])
      BY <2>2 DEF Footprint, Outcome
    <2>4. \A S, m, q : LastWord(S, m, q) <=> \A n \in S : n > m => q \notin Footprint(ops[n])
      BY DEF LastWord
    <2> SUFFICES ASSUME NEW m \in Performed', NEW q \in Footprint(ops[m]),
                        LastWord(Performed' \cup InHand', m, q)
                 PROVE  fs'[q] = Outcome(ops[m])
      BY <2>2, <2>3 DEF OpsSettled, LastWord
    <2>5. \A n \in Performed' \cup InHand' : n > m => q \notin Footprint(ops[n])
      BY <2>4
    <2>6. CASE FetchShape
      BY <2>1, <2>4, <2>5, <2>6, RunFacts DEF OpsSettled, FetchShape
    <2>7. ASSUME m \in Performed, OnlyFootprint, q \notin Footprint(Op),
                 LastWord(Performed \cup InHand, m, q)
          PROVE  fs'[q] = Outcome(ops[m])
      <3>1. m \in DOMAIN ops
        BY <2>7 DEF WellMade, TypeOK, Performed
      <3>2. q \in Path
        BY <3>1, FootprintInPath
      <3>3. fs[q] = Outcome(ops[m])
        BY <2>1, <2>7 DEF OpsSettled
      <3> QED BY <2>7, <3>2, <3>3 DEF OnlyFootprint
    <2>8. CASE WorkShape
      <3>1. m \in Performed /\ i > m /\ q \notin Footprint(Op)
        BY <2>5, <2>8, RunFacts DEF Op
      <3>2. LastWord(Performed \cup InHand, m, q)
        BY <2>4, <2>5, <2>8, RunFacts DEF WorkShape
      <3> QED BY <2>7, <2>8, <3>1, <3>2 DEF WorkShape
    <2>9. CASE SkipShape
      BY <2>1, <2>4, <2>5, <2>9, RunFacts DEF OpsSettled, SkipShape
    <2>10. CASE ReturnShape /\ Settled
      <3>1. CASE m = i
        BY <2>10, <3>1 DEF Settled, Op
      <3>2. CASE m # i
        <4>1. m \in Performed /\ i > m /\ q \notin Footprint(Op)
          BY <2>5, <2>10, <3>2, RunFacts DEF Op
        <4>2. LastWord(Performed \cup InHand, m, q)
          BY <2>4, <2>5, <2>10, RunFacts DEF ReturnShape
        <4> QED BY <2>7, <2>10, <4>1, <4>2 DEF ReturnShape
      <3> QED BY <3>1, <3>2
    <2> QED BY <2>1, <2>6, <2>8, <2>9, <2>10 DEF Shaped
  <1> QED BY <1>1, <1>2, <1>3, <1>4 DEF AnyStep

(* If the machine shows no fault that the code fails to report ("copy" and
   "uninit"), every path named by an operation that was performed holds what
   the last of them says. *)
THEOREM Settles ==
    ASSUME Honest
    PROVE  Spec => []OpsSettled
  <1>1. Init => OpsSettled
    BY DEF Init, OpsSettled
  <1>2. StepInv /\ OpsSettled /\ [Next]_vars => OpsSettled'
    BY OpsSettledStep, NextIsAnyStep
  <1> QED BY <1>1, <1>2, AlwaysStepInv, PTL DEF Spec

(* A run that only reads the operations, because of --info or of skip_patch,
   passes over each of them. *)
LEMMA InfoOnlyReads ==
    ASSUME StepInv, OpStep, infoOnly, pc \notin Working \ {"op"}
    PROVE  fs' = fs /\ pc' \notin Working \ {"op"}
  <1> USE DEF Performing, Goto, Advance, Abort, Working, DeletePc, AddPc, PatchPc, RenamePc
  <1>1. CASE LoopStep
    BY <1>1 DEF LoopStep, FetchOp, FetchFail, SkipOp, HandleDone
  <1>2. CASE DeleteStep
    BY <1>2 DEF DeleteStep, HandleDelete, DeleteFail, HandleDelDirGone, HandleDelDir,
                DelDirFail, DelTreeRemove, DelTreeDescend, DelTreeRmdir, DelTreeFail
  <1>3. CASE AddStep
    BY <1>3 DEF AddStep, AddAlreadyThere, AddConflict, AddMissing, ReplaceUnlink, AddOpen,
                AddOpenFail, AddWrite, AddWriteFail, AddVerify, AddVerifyFail,
                AddDirAlreadyThere, HandleAddDir, AddDirFail
  <1>4. CASE PatchStep
    BY <1>4 DEF PatchStep, PatchVerifyOld, PatchAlreadyDone, PatchUnreadable, PatchMismatch,
                PatchDelta, PatchDeltaFail, PatchXdelta, PatchXdeltaFail, PatchCheck,
                PatchCheckFail
  <1>5. CASE RenameStep
    BY <1>5 DEF RenameStep, PatchUnlink, PatchRename, PatchRenameRefused, PatchCopyOpen,
                PatchCopyOpenFail, PatchCopyWrite, PatchCopyWriteFail
  <1> QED BY <1>1, <1>2, <1>3, <1>4, <1>5 DEF OpStep

(* Whether it is one is settled before the operations are read. *)
LEMMA InfoOnlyIsKept ==
    ASSUME OpStep
    PROVE  infoOnly' = infoOnly /\ start' = start
  <1> USE DEF input
  <1>1. CASE LoopStep
    BY <1>1 DEF LoopStep, FetchOp, FetchFail, SkipOp, HandleDone
  <1>2. CASE DeleteStep
    BY <1>2 DEF DeleteStep, HandleDelete, DeleteFail, HandleDelDirGone, HandleDelDir,
                DelDirFail, DelTreeRemove, DelTreeDescend, DelTreeRmdir, DelTreeFail
  <1>3. CASE AddStep
    BY <1>3 DEF AddStep, AddAlreadyThere, AddConflict, AddMissing, ReplaceUnlink, AddOpen,
                AddOpenFail, AddWrite, AddWriteFail, AddVerify, AddVerifyFail,
                AddDirAlreadyThere, HandleAddDir, AddDirFail
  <1>4. CASE PatchStep
    BY <1>4 DEF PatchStep, PatchVerifyOld, PatchAlreadyDone, PatchUnreadable, PatchMismatch,
                PatchDelta, PatchDeltaFail, PatchXdelta, PatchXdeltaFail, PatchCheck,
                PatchCheckFail
  <1>5. CASE RenameStep
    BY <1>5 DEF RenameStep, PatchUnlink, PatchRename, PatchRenameRefused, PatchCopyOpen,
                PatchCopyOpenFail, PatchCopyWrite, PatchCopyWriteFail
  <1> QED BY <1>1, <1>2, <1>3, <1>4, <1>5 DEF OpStep

(* No other step passes over an operation. *)
LEMMA OnlySkipDeclines ==
    ASSUME OpStep, declined' # declined
    PROVE  SkipOp
  <1> USE DEF Abort
  <1>1. CASE LoopStep
    BY <1>1 DEF LoopStep, FetchOp, FetchFail, HandleDone
  <1>2. CASE DeleteStep
    BY <1>2 DEF DeleteStep, HandleDelete, DeleteFail, HandleDelDirGone, HandleDelDir,
                DelDirFail, DelTreeRemove, DelTreeDescend, DelTreeRmdir, DelTreeFail
  <1>3. CASE AddStep
    BY <1>3 DEF AddStep, AddAlreadyThere, AddConflict, AddMissing, ReplaceUnlink, AddOpen,
                AddOpenFail, AddWrite, AddWriteFail, AddVerify, AddVerifyFail,
                AddDirAlreadyThere, HandleAddDir, AddDirFail
  <1>4. CASE PatchStep
    BY <1>4 DEF PatchStep, PatchVerifyOld, PatchAlreadyDone, PatchUnreadable, PatchMismatch,
                PatchDelta, PatchDeltaFail, PatchXdelta, PatchXdeltaFail, PatchCheck,
                PatchCheckFail
  <1>5. CASE RenameStep
    BY <1>5 DEF RenameStep, PatchUnlink, PatchRename, PatchRenameRefused, PatchCopyOpen,
                PatchCopyOpenFail, PatchCopyWrite, PatchCopyWriteFail
  <1> QED BY <1>1, <1>2, <1>3, <1>4, <1>5 DEF OpStep

----------------------------------------------------------------------------
(* What may happen to a file in one step. *)

LEMMA ReplacedOnPurpose ==
    ASSUME StepInv, [AnyStep]_vars, NEW q \in Path, fs[q] \in Content, fs'[q] # fs[q]
    PROVE  \/ Op.op \in {"DELETE", "DELETEDIRECTORY", "REPLACE"}
           \/ Op.op = "PATCH" /\ fs[q] = Op.md5_1 /\ tmp = Op.md5_2
  <1> USE DEF StepInv
  <1>1. OpStep /\ fs' # fs
    BY DEF AnyStep, Entered, Enter, Exit, Crash, vars
  <1>2. pc \in Working
    BY <1>1, StepShape DEF Shaped, FetchShape, WorkShape, SkipShape, ReturnShape, Working
  <1>3. CASE LoopStep
    BY <1>1, <1>3 DEF LoopStep, FetchOp, FetchFail, SkipOp, HandleDone, Abort
  <1>4. CASE DeleteStep
    <2>1. CASE pc = "deltree"
      BY <2>1 DEF TypeOK
    <2>2. CASE pc # "deltree"
      BY <1>1, <1>4, <2>2
         DEF DeleteStep, HandleDelete, DeleteFail, HandleDelDirGone, HandleDelDir,
             DelDirFail, DelTreeRemove, DelTreeDescend, DelTreeRmdir, DelTreeFail,
             Performing, Abort
    <2> QED BY <2>1, <2>2
  <1>5. CASE AddStep
    <2>1. CASE AddOpen \/ AddWrite
      <3>1. fs[Target] \notin Content /\ Target \in Path
        BY <2>1, OpFacts, NodeFacts DEF AddOpen, AddWrite, OpShape, DiskShape, AddPc, Working
      <3> QED BY <2>1, <3>1 DEF AddOpen, AddWrite, Put, TypeOK
    <2>2. CASE HandleAddDir
      BY <2>2, NodeFacts DEF HandleAddDir, Put, TypeOK, file_exists
    <2>3. CASE ReplaceUnlink
      BY <2>3 DEF ReplaceUnlink, Performing
    <2> QED
      BY <1>1, <1>5, <2>1, <2>2, <2>3
         DEF AddStep, AddAlreadyThere, AddConflict, AddMissing, AddOpenFail,
             AddWriteFail, AddVerify, AddVerifyFail, AddDirAlreadyThere,
             AddDirFail, Abort
  <1>6. CASE PatchStep
    BY <1>1, <1>6
       DEF PatchStep, PatchVerifyOld, PatchAlreadyDone, PatchUnreadable,
           PatchMismatch, PatchDelta, PatchDeltaFail, PatchXdelta,
           PatchXdeltaFail, PatchCheck, PatchCheckFail, Abort
  <1>7. CASE RenameStep
    <2>1. Op.op = "PATCH" /\ tmp = Op.md5_2 /\ Target \in Path
      BY <1>7, OpFacts
         DEF RenameStep, PatchUnlink, PatchRename, PatchRenameRefused,
             PatchCopyOpen, PatchCopyOpenFail, PatchCopyWrite,
             PatchCopyWriteFail, OpShape, DiskShape, RenamePc, Working
    <2>2. q = Target
      BY <1>1, <1>7
         DEF RenameStep, PatchUnlink, PatchRename, PatchRenameRefused,
             PatchCopyOpen, PatchCopyOpenFail, PatchCopyWrite,
             PatchCopyWriteFail, Put, TypeOK
    <2>3. pc = "patch.unlink"
      BY <1>1, <1>7, <2>2, NodeFacts
         DEF RenameStep, PatchUnlink, PatchRename, PatchRenameRefused,
             PatchCopyOpen, PatchCopyOpenFail, PatchCopyWrite,
             PatchCopyWriteFail, DiskShape
    <2> QED BY <2>1, <2>2, <2>3 DEF DiskShape
  <1> QED BY <1>1, <1>3, <1>4, <1>5, <1>6, <1>7 DEF OpStep

(* No whole file is removed or overwritten but by DELETE, DELETEDIRECTORY,
   REPLACE, or a PATCH that found the version it was made from and holds the
   verified new one; with any faults. *)
THEOREM ReplacesOnPurpose == Spec => OnlyExpectedReplaced
  <1> DEFINE A == \A q \in Path :
                    fs[q] \in Content /\ fs'[q] # fs[q] =>
                        \/ Op.op \in {"DELETE", "DELETEDIRECTORY", "REPLACE"}
                        \/ Op.op = "PATCH" /\ fs[q] = Op.md5_1 /\ tmp = Op.md5_2
  <1>1. StepInv /\ [Next]_vars => [A]_vars
    BY ReplacedOnPurpose, NextIsAnyStep
  <1> HIDE DEF A
  <1>2. Spec => [][A]_vars
    BY <1>1, AlwaysStepInv, PTL DEF Spec
  <1> QED BY <1>2 DEF A, OnlyExpectedReplaced

----------------------------------------------------------------------------
(* The handlers implement the contract. *)

(* The labels inside a handler are the phase "within". *)
LEMMA PhaseFacts ==
    /\ pc = "idle" => Phase = "idle"
    /\ pc = "fetch" => Phase = "between"
    /\ pc = "success" => Phase = "done"
    /\ pc = "error" => Phase = "failed"
    /\ pc \in Working => Phase = "within"
  BY DEF Phase, Working, DeletePc, AddPc, PatchPc, RenamePc

(* The contract's instance speaks of the same paths and outcomes. *)
LEMMA SameVocabulary ==
    /\ Contract!Node = Node
    /\ \A o : Contract!Footprint(o) = Footprint(o)
    /\ \A o : Contract!Outcome(o) = Outcome(o)
  <1>1. \A d : Contract!Under(d) = Under(d)
    BY DEF Contract!Under, Under
  <1> QED BY <1>1 DEF Contract!Node, Node, Contract!Footprint, Footprint,
                      Contract!Outcome, Outcome

LEMMA ContractStep ==
    ASSUME Honest, StepInv, StepInv', [Next]_vars
    PROVE  [Contract!Next]_(Contract!cvars)
  <1> USE DEF StepInv
  <1>1. /\ pc' = "idle" => Phase' = "idle"
        /\ pc' = "fetch" => Phase' = "between"
        /\ pc' = "success" => Phase' = "done"
        /\ pc' = "error" => Phase' = "failed"
        /\ pc' \in Working => Phase' = "within"
    BY DEF Phase, Working, DeletePc, AddPc, PatchPc, RenamePc
  <1>2. CASE UNCHANGED vars
    BY <1>2 DEF vars, Contract!cvars, Phase
  <1>3. ASSUME NEW ps \in Patches, NEW info \in BOOLEAN, Enter(ps, info)
        PROVE  Contract!Begin
    BY <1>1, <1>3, PhaseFacts DEF Enter, Contract!Begin
  <1>4. CASE Exit \/ Crash
    <2>1. pc # "idle" => Phase # "idle"
      BY PhaseFacts DEF TypeOK, Program
    <2> QED BY <1>1, <1>4, <2>1 DEF Exit, Crash, Contract!Next, Contract!Stop, Program, Working
  <1>5. CASE OpStep
    <2>1. Shaped
      BY <1>5, StepShape
    <2>2. CASE FetchShape
      <3>1. CASE pc' = "op"
        <4>1. i \in 1..Len(ops)
          BY <2>2, <3>1, PatchesAssumption DEF FetchShape, TypeOK, Working
        <4> QED BY <1>1, <2>2, <3>1, <4>1, PhaseFacts
                DEF FetchShape, Contract!Next, Contract!Take, Working
      <3>2. CASE pc' = "error"
        BY <1>1, <2>2, <3>2, PhaseFacts DEF FetchShape, Contract!Next, Contract!Fail
      <3> QED BY <2>2, <3>1, <3>2 DEF FetchShape
    <2>3. CASE WorkShape
      <3>1. CASE pc' = "error"
        BY <1>1, <2>3, <3>1, PhaseFacts DEF WorkShape, Contract!Next, Contract!Fail
      <3>2. CASE pc' # "error"
        <4>1. Contract!OnlyWithin(Contract!Footprint(ops[i]))
          BY <2>3, SameVocabulary DEF WorkShape, OnlyFootprint, Op, TypeOK, Contract!OnlyWithin
        <4> QED BY <1>1, <2>3, <3>2, <4>1, PhaseFacts
                DEF WorkShape, Contract!Next, Contract!Work
      <3> QED BY <3>1, <3>2
    <2>4. CASE SkipShape
      BY <1>1, <2>4, PhaseFacts DEF SkipShape, Op, Working, Contract!Next, Contract!Skip
    <2>5. CASE ReturnShape /\ Settled
      <3>1. Contract!OnlyWithin(Contract!Footprint(ops[i]))
        BY <2>5, SameVocabulary DEF ReturnShape, OnlyFootprint, Op, TypeOK, Contract!OnlyWithin
      <3>2. \A q \in Contract!Footprint(ops[i]) : fs'[q] = Contract!Outcome(ops[i])
        BY <2>5, SameVocabulary DEF Settled, Op
      <3> QED BY <1>1, <2>5, <3>1, <3>2, PhaseFacts
              DEF ReturnShape, Op, Contract!Next, Contract!Settle
    <2> QED BY <2>1, <2>2, <2>3, <2>4, <2>5 DEF Shaped
  <1> QED BY <1>2, <1>3, <1>4, <1>5 DEF Next, Contract!Next

(* Under the same condition as Settles, every behaviour of the handlers is,
   operation by operation, one the contract allows. *)
THEOREM Implements ==
    ASSUME Honest
    PROVE  Spec => ImplementsContract
  <1>1. Init => Contract!Init
    <2> SUFFICES ASSUME Init
                 PROVE  Contract!Init
      OBVIOUS
    <2>1. fs \in [Path -> Contract!Node]
      BY InstallsAssumption, SameVocabulary DEF Init
    <2> QED BY <2>1, PhaseFacts DEF Init, Contract!Init
  <1>2. StepInv /\ StepInv' /\ [Next]_vars => [Contract!Next]_(Contract!cvars)
    BY ContractStep
  <1> QED BY <1>1, <1>2, AlwaysStepInv, PTL DEF Spec, ImplementsContract, Contract!Spec
=============================================================================
