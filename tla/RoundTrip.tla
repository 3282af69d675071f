------------------------------ MODULE RoundTrip ------------------------------
(***************************************************************************)
(* From the two releases to the patched product: CreatePatch makes the     *)
(* archive, OpHandlers applies it.  The product is a copy of the older     *)
(* release, and the archive may be applied to it more than once.           *)
(***************************************************************************)
EXTENDS CreatePatch, OpHandlers

rvars == <<cvars, vars>>

RTInit == /\ CreateInit
          /\ fs = old
          /\ ops = << >>
          /\ tmp = Absent
          /\ tmp2 = Absent
          /\ i = 1
          /\ pc = "idle"
          /\ wd = Root
          /\ infoOnly = FALSE
          /\ declined = {}
          /\ start = fs

Create == CreateStep /\ UNCHANGED vars

\* The file is there even when its making has failed.
ApplyIt == /\ maker # "run"
           /\ Enter(out, FALSE)
           /\ UNCHANGED cvars

Apply == (OpStep \/ Exit) /\ UNCHANGED cvars

RTNext == Create \/ ApplyIt \/ Apply

\* The process that applies the archive may be killed, in some of the makings.
Killed == making.killed /\ Crash /\ UNCHANGED cvars

RTSpec == RTInit /\ [][RTNext \/ Killed]_rvars

\* create_patchfile and apply_patchfile are loops of their own process: they go
\* on whenever they can.
RTFairSpec == RTSpec /\ WF_rvars(RTNext)

\* Everything that changed is written, and rightly.
Complete == ~making.confirm /\ making.ignored = {} /\ making.fails \subseteq {"io"}

\* The same, and written to the end.
Sound == Complete /\ Finished

\* No md5sum is a made-up one.
TrueSums == "uninit" \notin making.fails

Undisturbed == Complete /\ making.fails = {} /\ ~making.killed

----------------------------------------------------------------------------
(* What the patch is for: an archive that is applied to the end has made the
   product equal to the newer release, .DS_Store files excepted, however many
   applications of it were killed before.  One that create_patchfile left
   incomplete is never applied to the end. *)
MakesTheNewRelease ==
    Complete /\ pc = "success" => \A q \in Path \ DSStore : fs[q] = new[q]

(* An archive made without incident is never refused by a copy of the release
   it was made from, nor by a product it has been applied to already, unless
   a file of one release is a directory of the other. *)
SameKinds == \A q \in Path : {old[q], new[q]} \subseteq File \cup {Absent}
                            \/ {old[q], new[q]} \subseteq {Dir, Absent}

AppliesToItsRelease ==
    Undisturbed /\ pc = "error" => start # old /\ ~SameKinds

(* Applying an archive again undoes nothing: once the product is the newer
   release, no application removes or changes a file of it, not even for a
   moment, whether it succeeds or gives up, and whatever else than an md5sum is
   wrong with the archive.  REPLACE alone writes its file anew. *)
AgainIsHarmless ==
    [][\A q \in Path \ DSStore :
          /\ ~making.replace /\ ~making.alwaysadd /\ SameKinds /\ TrueSums
          /\ pc # "idle" /\ \A p \in Path \ DSStore : start[p] = new[p]
          => fs'[q] = fs[q]]_rvars

(* --confirm and --ignore at creation leave operations out, xdelta may make a
   delta that does not work, a file may be edited while the archive is made,
   and an archive may be left incomplete.  Whatever happened, one that is
   applied to the end is a complete one, and every path has its state in one of
   the two releases, as long as no file became a directory and the md5sums are
   those of the files. *)
OldOrNew ==
    pc = "success" =>
        /\ Finished
        /\ SameKinds /\ TrueSums => \A q \in Path \ DSStore : fs[q] \in {old[q], new[q]}

(* "must ADDORREPLACE, as file will definitely exist": a complete archive made
   with --alwaysadd and --replace is never refused, wherever an earlier
   application of it was killed. *)
ReplaceHeals ==
    Complete /\ making.replace /\ making.alwaysadd /\ pc = "error"
        => maker = "failed" \/ ~SameKinds

(* Running again after a kill.  If no call fails, an application of a complete
   archive to what killed ones left behind gives up only at a file that an ADD or a
   copying PATCH left incomplete, at one that a PATCH had unlinked and not yet
   replaced, or at a path whose type the patch had already changed. *)
RerunBlockedOnlyByTornFile == Sound /\ pc = "error" => TornFile \/ Retyped

(* compare_directories comes to an end, and the archive it makes is written to
   the end and applied to the end. *)
PatchGetsMade == Undisturbed => <>(maker = "done" /\ pc = "success")
=============================================================================
