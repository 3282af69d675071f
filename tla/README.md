# MojoPatch: a TLA+ model

MojoPatch makes a patch archive from two releases of a product (`--create`) and
applies such archives to installed copies (`mojopatch <file>`). It keeps no
journal and makes no backup. A run may be killed at any system call, the user
starts the patcher again on what is left, and what the next run believes about
the product comes from the product: md5sums of files and the version in
`Contents/Info.plist`. The question this project asks of the code is whether
that is enough: what is guaranteed at every instant, after every kill, and
when a run reports success or failure. Around that core it follows the program
from `main` to its end, the archive down to the stdio buffers, and xdelta from
its command line to the file it rebuilds.

The build modelled is the one the Makefile makes by default: macOS, fork,
no zlib. `ArchiveStream` has the other builds too.

## Inventory

| component | code | state | operations | what makes it correct |
|---|---|---|---|---|
| product tree | `platform_unix.c` 29-133 | files and directories on disk | exists, is-directory, list, and the path system calls | stays a tree; nothing is touched that no operation names |
| archive | `mojopatch.c` 158-580, 892-1046 | FILE, position, buffer | serialize in both directions, payloads, seek, append | what is read is what was written; a cut archive is noticed |
| operation handlers | `mojopatch.c` 892-1740, 2084-2114 | disk, two temporary files, position | DELETE, DELETEDIRECTORY, ADD, REPLACE, ADDDIRECTORY, PATCH, DONE | an operation passed as done is on disk; no file is lost; always ends |
| patching run | `mojopatch.c` 2117-2443 | header, `skip_patch`, `report_error`, counters | header, version check, scripts, readme, stamp, renamedir | tells the truth; a half patched product never looks complete; reruns heal |
| version stamp | `platform_unix.c` 182-454, `mojopatch.c` 583-723 | `Contents/Info.plist` | find, get and update the version | only the version changes; what is stamped is read back |
| creation | `mojopatch.c` 1051-1169, 1249-1300, 1420-1630, 1743-2081 | recursion over two trees, archive | `compare_directories`, `put_*` | the archive turns the one release into the other |
| child processes | `platform_unix.c` 473-562 | pid or thread, exit code | xdelta, scripts | a failed child is noticed somewhere; it does not move the archive |
| product location | `mojopatch.c` 2139-2202, `platform_unix.c` 363-400 | working directory | LaunchServices, file dialog, identifier check | a wrong directory is asked about |
| command line | `mojopatch.c` 2446-2700, `platform_unix.c` 580-662 | options, `basedir`, header overrides | two loops over argv, PATH search | what is asked for is done; xdelta is found |
| user interface | `ui.c`, `ui_stdio.c`, `ui_carbon.c` | driver table, input | init, log, prompt, deinit | no call without a driver; a stray answer does no harm |
| md5 | `md5.c`, `libedsio/md5c.c` | context | init, append, finish | the digest is of the bytes, not of the pieces |
| xdelta | `xdelta-1.1.3` | files, page cache, generator, control | `delta`, `patch` | the delta rebuilds the file it was made of, or is refused |
| vcdiff, Windows layer | unfinished, not building | | | |

The parts call one another directly; there is one thread, and apart from the
arguments they share the disk, the archive's position and the globals `header`,
`skip_patch`, `replace`, `command`. The only concurrency is with child
processes, the user (who may edit the product between runs, or a release while
an archive is made), and the kill.

Hard to test, and therefore what the properties are about: kills between any two
system calls and what the following run does; failures after the original file
is gone; damaged or cut archives; results that are not looked at; a global flag
that must hold for exactly one patch; the version file as the resume point; the
order of operations that the recursion of `compare_directories` produces; a
stream shared with a child; input that outlives its question; and, in xdelta,
files whose sizes fall on the edges of blocks, pages and words. `PROJECT.json`
lists the hazards at their lines.

## Modules

| module | models |
|---|---|
| `ProductTree` | paths, trees, what the platform layer answers about them |
| `PatchOps` | operations as they stand in an archive; `Footprint` (the paths one may change) and `Outcome` (what they hold afterwards) |
| `ApplyContract` | abstract specification of applying a patch: one operation at a time, nothing outside its footprint, the next only when it is settled or was skipped |
| `OpHandlers` | `do_patch_operations` and the `handle_*_op` functions |
| `DoPatching` | extends `OpHandlers`: `do_patching` around it |
| `CreatePatch` | `create_patchfile`, `compare_directories`, `put_*` |
| `RoundTrip` | composes `CreatePatch` and `OpHandlers`: the archive made is applied |
| `ArchiveStream` | the bytes of an archive: stdio buffers, seeks, `use_zlib`, `--append`, standard input, and the children that inherit the stream |
| `ProductInfo` | finding the product, its identifier and version in an Info.plist, `version_ok`, and stamping it |
| `Startup` | `main`: `find_basedir`, the driver, the options, headers under overrides, the questions of a run |
| `Md5` | both md5 implementations but for the block function |
| `PageCache` | extends `Md5`: xdelta's file handles, their mapped pages and digest |
| `XdeltaControl` | the control of a delta: collecting, packing and applying instructions |
| `XdeltaGenerate` | extends it: the generator, page by page with its rolling checksum |
| `Edsio` | the serialized form of a control, and the allocation on reading it |
| `XdeltaFile` | composes both: the commands `delta` and `patch` on a file |
| `Getopt` | one call of `getopt_long`, with its permutation and abbreviations |
| `XdeltaMain` | composes `XdeltaFile` and `Getopt`: `main` of xdelta on the command lines MojoPatch writes |
| `MC*` | small instances for TLC |
| `OpHandlers_proofs`, `DoPatching_proofs`, `RoundTrip_proofs`, `ArchiveStream_proofs`, `ProductInfo_proofs`, `Startup_proofs`, `PageCache_proofs` | the proofs about the modules of these names |
| `Rerun_proofs` | extends `RoundTrip_proofs`: the proofs about an archive applied again after kills |

### Correspondence

`fs` is the product, a function from paths to `Absent`, `Dir`, `Partial` or a
content. Contents stand for their md5sum, because the code compares them in no
other way; `Partial` is a file cut short. Paths are sequences of components.
File modes, symbolic links (hidden by `make_filelist`) and hash collisions are
left out.

`OpHandlers`: `pc = "fetch"` is the top of the loop, `"op"` the start of a
handler, and the other labels (`"add.open"`, `"patch.unlink"`, ...) lie between
two system calls of the longer handlers, so that `Crash` can strike between
them. Each error path is an action of its own (`AddWriteFail`). `wd` is the
directory `delete_dir_tree` is in; the entries are taken in any order. A
temporary file survives a kill, and a later run sees it only if it gets the same
process id (`calc_tmp_filenames`; fault `"stale"`). `declined` and `start` are
history variables. `Fails` selects the faults of a run; they are described at
the head of the module.

`DoPatching`: `stage` is the place in `do_patching`. While it is `"ops"` the
actions are those of `OpHandlers`; `CallOperations` and `Return` are call and
return. `VersionOf` says which version a content of Info.plist shows and
`Stamped` what `update_version` makes of it: never the same file, since it
adds blanks. A header's `version` is the set of the words in its list. `LessThan`
among them makes it a "less than", with the versions below; an installed version
that is not in `Numeric` is then the error of `mojopatch.c:668-670`, which ends the
run ("This patch is misbuilt!"), where a plain no skips the patch. `k`, `installed`, `report`, `mem` are the
position, `installed_patches`, `report_error` and the `mem` of `update_version`.
`before` is history.

`CreatePatch`: `todo` is the call stack, its head the innermost call, a listing
being walked or a `put_*` still to come. `out` is the archive. `making` is how
it is made: which releases, `--alwaysadd`, `--replace`, `--confirm`, `--ignore`,
and what may fail: a call (`"io"`), xdelta, a file edited between two looks at it
(`"edit"`), a file that cannot be read (`"uninit"`: `md5sums_match` then leaves the
md5sums it has not come to as they were). `maker` says how creation ended. It is
`"failed"` behind any error, except that closing the archive or looking at its size
may go wrong when DONE is written: the user is told of a failure then, and has
a complete archive (`"unclosed"`).

`ArchiveStream`: the unit is a cell, a piece of the file whose length the code
knows: half a signature, the strings of a header, an operation's code, its
fields, a unit of data, the two sizes of a compressed chunk. `pos`, `off`,
`rbuf` and `wbuf` are where the reader believes it is, the offset of the
descriptor that children share, and the two stdio buffers. Reading a cell of
another kind than expected is losing the place (`mode = "lost"`), after which
anything may be taken for an operation. stdio, fork and exit are external; the
two things a C library may do to the shared offset when a child exits are the
parameter `syncs` of a build. The children are xdelta and the scripts `prepatch`,
`postpatch` and `patchingdone`. The last one is started when the archive is closed,
and nobody looks at how it ended. `waitpid(WNOHANG)` on a child of one's own returns
-1 only when there is no such child any more, because somebody had SIGCHLD
ignored and the kernel reaped it: the child then counts as failed although it may have
done well (`Waited`).

`ProductInfo`: an Info.plist is a sequence of tokens. `parse_xml` works in place
and cuts its copy with NULs: `cuts` are these, and `ptr` and `have_key` the
variables of the loop in `find_info_plist_...`. LaunchServices is external: it
finds any directory, or none. `update_version` writes over the file it has read
and closes it unlooked: a write may fail, may come to nothing (what `fclose` could
not flush), or stop in the middle of the new text (`WritePart`). `Seams` is after
how many tokens of what it writes, and `Tear` what the half token there becomes.

`Startup`: `i` runs over the words twice, in `kickoff_ui` and in
`parse_cmdline`; `Word(j)` is NULL behind the last. `input` is what was typed and
not yet read, every character with the question it was typed at; `getchar` takes
one, `fgets` a line, so that answers can stray. A crash (`strcmp` of a NULL) is a
place of its own. Every word that begins with two dashes is an option
(`IsOption`); one that `parse_cmdline` does not know ends the program. A Mac has both drivers, another system one.

`XdeltaGenerate`: `xpos`, `low` and `high` are the scan position with its mapped
page and the checksum, `table` the hash table of the blocks of FROM, `gen` the
generator. One action is one turn of a loop of `compute_copies`; the extension of
a match, which nothing can interrupt, is one step (`match_backward`,
`match_forward`), and what it may not do while pages change is a property.

`XdeltaFile`: `delta` is the file as tokens, an md5sum being the bytes it is of.
Failing reads and writes leave it short. `PatchExit` is what MojoPatch sees.
`PageCache` is separate: one handle under the call patterns its user has
(`role`), because the pages and the digest do not influence the generator. A failing
`mmap` goes unnoticed, as the code looks for a NULL where it gets `MAP_FAILED`: the
process is killed by its first look at the page, or cannot write it. A failing
`munmap` is noticed, and the callers give up (`MapFails`, `UnmapFails`).

Definitions marked "Slip" are the code with one plausible mistake. They are used
by no specification; the mutants in `PROJECT.json` put them in place of the
right ones to show that each property notices.

## What is checked

| run | instance | states | shows |
|---|---|---|---|
| `ops_faults` | 3 products (as released, edited, of another shape) x 7 archives (an update, file to directory and back, damaged, cut short), prompt and ignore list, every fault | 261,931 | `TypeOK`, `NothingElse`, `PatchKeepsAVersion`, `OnlyExpectedReplaced` |
| `ops_contract` | the same without the faults `"copy"` and `"uninit"` | 245,453 | `OpsSettled`, `ImplementsContract` (refinement of `ApplyContract`) |
| `patching_faults` | archives of two patches (a chain, a cut one, a misbuilt one, one for whatever is "less than" 3, one unguarded by a version, a chain of REPLACEs) on 5 products, run again and again under faults and kills | 80,396 | `PTypeOK`, `ToldTheTruth`, `SilentFailureIsClean`, `PatchedUpIsTrue`, `ChainHeals`, `SkippedUntouched`, `PTerminates` |
| `roundtrip` | all 289 pairs of releases over `d`, `d/x`, `d/s`, `d/s/y`, ordinary and with `--alwaysadd --replace` and kills; 16 pairs with `.DS_Store` files under failing calls, wrong deltas, files edited meanwhile or not readable, `--confirm` and `--ignore` | 209,977 | `CTypeOK`, `MakesTheNewRelease`, `AppliesToItsRelease`, `OldOrNew`, `ReplaceHeals`, `RerunBlockedOnlyByTornFile`, `AgainIsHarmless`, `PatchGetsMade` |
| `archive` | two patches, alone or appended, four builds, a pipe or a file, three processes and their children (xdelta and the three scripts), archives cut anywhere | 841,134 | `InStep`, `CreatedIsWhole`, `ResultIsTrue`, `ProcessesEnd` |
| `product_info` | four directories (one with nested dicts, one without identifier, one empty), six archives, three runs, stamps that fail, come to nothing or are cut short | 162,563 | `StampIsSound`, `RightProduct` |
| `startup` | 25 command lines, and two by the bare name under 21 combinations of PATH and directories, both drivers, seven lines to type at two questions | 257,576 | `DoesAsTold`, `CrashOnlyForMissingValue`, `XdeltaIsBeside`, `StrayAnswerIsDefault`, `RunEnds` |
| `xdelta` | all files of up to 4 and 5 bytes, longer ones of up to three pages, files the delta was not made for, gzipped ones, 32 and 64 bit machines, odd names and options | 65,618 | `GeneratorIsSound`, `DeltaRebuildsTo`, `VerifiedOrRefused`, `MadeMeansApplied`, `NamedFilesAreOpened`, `DeltaGetsMade` |
| `page_cache` | files of 0 to 27 bytes in pages of 8 and blocks of 4, at most two pages mapped, every role, mappings that fail | 2,509 | `PagesAreSound`, `DigestIsOfTheFile` |

Several properties are conjunctions of named parts, each with its comment:
`GeneratorIsSound` of `RebuildsWhatIsWritten`, `RollingIsFresh`,
`PendingIsMapped`, `PagingMeansMatch`, `OffsetsAreImplied`; `PagesAreSound` of
`ListIsSound`, `WithinTheBound`, `HeldStaysMapped`; `HashedInOrder` is part of
`DigestIsOfTheFile`; `ResultIsTrue` of `WholeIsAccepted` and `CutIsNoticed`; `StampIsSound` of
`NotFoundMeansNested`, `OnlyTheVersionChanges`, `VersionReadsBack`;
`RightProduct` of `WrongPlaceNeedsConsent` and `PatchedUpIsLeftAlone`;
`DoesAsTold` of `NoCallWithoutDriver`, `DriverIsTheNamed`,
`CreatesOnlyWhenAsked`, `HeaderNotLeftOver`.

Bounds. Every state space is finite and explored completely; nothing is cut
off by a constraint. The paths cover a file, a directory, a directory in a
directory, two files side by side, and a path that is a file in one release and
a directory in the other: handlers and `compare_directories` look at a path, its
parent and its entries, so a third level or a third sibling meets no new case.
Three contents are what a PATCH can tell apart: old, new, neither. Two patches
make a chain; a third would see of the second what the second sees of the first.
In `archive` the buffer of two cells ends inside every kind of item, three
processes are a creation that ends badly, one that appends, and an application.
In `xdelta` a block has two bytes and a page four; three bits of checksum wrap
several times in a block and a table of four places makes different blocks
collide, both of which are rare in the code; seven bits to the byte become one,
so that every length takes several groups. In `page_cache` the bits of a word
wrap within a file, a length fills, misses and splits the last block of the
padding.

Fairness. `PTerminates` assumes weak fairness of the program's own steps: it is
one sequential process, which waits for nobody but a child. That a child ends is
assumed there. In `ArchiveStream` the children are part of the model, and
`FairSpec` is weak fairness of `Running`, the steps of the program and of its
children together, with what enables it written out. Neither `Crash`/`Kill` nor
a new launch is fair. `PatchGetsMade` assumes the same of creation and
application together, `DeltaGetsMade` of main, generator and commands of xdelta.
`RunEnds` of `Startup` also assumes that a user who is asked answers or goes away
(the end of the input), and does not claim that a question which needs a letter
ends then: `"spins"` is the loop of `ui_prompt_yn_stdio` and of `confirm`.

### Disagreements found

Each of these three runs ends with a counterexample, with the code's own words quoted
in `PROJECT.json`:

- `ops_copy_fails` (`DonePatchIsNew`): `do_rename`'s failure is compared with -1
  instead of `PATCHERROR`; a lost file is reported as "done PATCH."
- `patching_renamedir` (`RenamedAsAsked`): `--renamedir` has no effect, because
  `get_current_dir` compares the wrong way round.
- `startup_override` (`OverridesHold`): what the command line says for a header
  (`--identifier`, `--version`, ...) holds for the first patch of an archive only; the
  `memset` behind it clears the global header with everything in it. The code knows
  ("!!! FIXME: This loses command line overrides!"). The passing run of `Startup`
  claims only what is no matter of opinion, that no header keeps a field of the one
  before it (`HeaderNotLeftOver`).

Two more need an archive that patches `Contents/Info.plist` itself. With such
archives `PatchedUpIsTrue` is violated, as a run killed behind that operation is
followed by one that says "You seem to be all patched up already!"
(`mojopatch.c:708`); and the second patch of a chain is refused, as the blanks
`update_version` adds (`platform_unix.c:431`) make the plist another file than the
one its PATCH is from. The passing runs use archives made with
`--ignore Contents/Info.plist`.

Seen in the code and part of the models, without a run of their own:

- An unreadable file is compared by an uninitialized md5sum (fault `"uninit"`,
  action `PatchUnreadable`).
- The ignore list compares whole names, so a DELETEDIRECTORY takes ignored files
  with it and `compare_directories` descends into ignored directories.
- `patchingdone` runs when every patch was skipped (`EndOfArchive`).
- With `use_zlib`, the payload of an ADD that is there already is skipped by its
  uncompressed size (cause `"raw seek"` of `InStep`). An archive does not say
  which build made it (`"other build"`). A Makefile comment has zlib "compress all
  ADD/ADDORREPLACE/PATCH operations"; a delta is never compressed.
- A child's `exit` can move the archive's shared offset (`"rewound"`).
- From standard input (`-`) the first skipped payload fails.
- Cutting an archive inside a signature looks like its end; only the patches
  before it are then reported, and all of them were applied (`CutIsNoticed`).
- An inner dict in front of the version hides it (`NotFoundMeansNested`).
- `get_product_version` closes its file twice, which the C library may punish
  (`VersionFound`).
- `ui_prompt_ny` of the Carbon driver says yes on Return; its stdio counterpart
  does not.
- "y" and Return at a letter question leave the newline to the next: a file
  picker takes it as a cancelled choice.
- An option without its value, a process serial number with words behind it, and
  a bare name PATH does not lead to end in a NULL
  (`CrashOnlyForMissingValue`).
- A file name that begins with a dash is an option to xdelta. It is then refused,
  never mistaken for another file (`NamedFilesAreOpened`).
- A delta made on a 32 bit machine is refused by a 64 bit one, as the writer
  counts the memory the reader will need (`MadeMeansApplied`).
- A serialized object of any type of xdelta's library passes for a control
  (`generic.c:252` ors what it should compare, `unserialize_generic`). Only deltas
  that xdelta wrote are read, so that nothing comes of it.
- What `fclose` cannot write of a stamp is not noticed (`WriteNothing`,
  `WritePart`), and closing an archive may fail behind its DONE (`"unclosed"`).
- A gzipped TO is compressed again by xdelta, which makes other bytes of it;
  MojoPatch's own md5sum then refuses the file.
- With `-n`, which MojoPatch gives to `delta`, only lengths are verified by
  `patch`; again the md5sum in the archive is what protects the file.

Not a disagreement but worth knowing, and stated by `RerunBlockedOnlyByTornFile`
against `ReplaceHeals`: an ordinary archive cannot be resumed after a kill in
the middle of a file; one made with `--alwaysadd --replace` always can.

## What is proved

The theorems hold for every value of the constants: for sets of paths, contents,
archives, releases, command lines, documents and files of any size, where a run
of TLC has a few of each. Every inductive invariant below was checked by TLC on
the instance of its run before it was proved.

| module | theorem | states |
|---|---|---|
| `OpHandlers_proofs` | `TypeCorrect` | `Spec => []TypeOK` |
| | `VersionKept` | `Spec => []PatchKeepsAVersion` |
| | `Confined` | `Spec => []NothingElse` |
| | `ReplacesOnPurpose` | `Spec => OnlyExpectedReplaced` |
| | `Settles` | `Honest => (Spec => []OpsSettled)` |
| | `Implements` | `Honest => (Spec => ImplementsContract)` |
| `DoPatching_proofs` | `PatchingTypeCorrect` | `PSpec => []PTypeOK` |
| | `SkipsUntouched` | `PSpec => SkippedUntouched` |
| | `SilentIsClean` | `PSpec => []SilentFailureIsClean` |
| | `TellsTheTruth` | `Plain => (PSpec => []ToldTheTruth)` |
| | `PatchedUpIsPatched` | `Plain`, `VersionFileApart`, `Chained` `=> (PSpec /\ VersionIsTrue => []PatchedUpIsTrue)` |
| `RoundTrip_proofs` | `CreatesTypeCorrect` | `RTSpec => []CTypeOK` |
| | `MakesIt` | `AsIs => (RTSpec => []MakesTheNewRelease)` |
| | `OneOfTheTwo` | `AsIs => (RTSpec => []OldOrNew)` |
| | `AgainChangesNothing` | `RTSpec => AgainIsHarmless` |
| `Rerun_proofs` | `NeverRefused` | `Smooth => (RTSpec => []AppliesToItsRelease)` |
| | `Heals` | `Smooth => (RTSpec => []ReplaceHeals)` |
| | `RerunStopsOnlyThere` | `Smooth => (RTSpec => []RerunBlockedOnlyByTornFile)` |
| `ArchiveStream_proofs` | `Invariant` | `Spec => []IndInv` |
| | `NeverLost` | `Spec => []InStep` |
| | `WrittenOnce` | `Spec => []CreatedIsWhole` |
| | `ResultsAreTrue` | `Spec => []ResultIsTrue` |
| `ProductInfo_proofs` | `StampsAreSound` | `Spec => []StampIsSound` |
| | `RightProductIsPatched` | `Spec => []RightProduct` |
| `Startup_proofs` | `ToldIsDone` | `Spec => []DoesAsTold` |
| | `CrashesAreTheCallers` | `Spec => []CrashOnlyForMissingValue` |
| | `XdeltaIsOurs` | `Spec => []XdeltaIsBeside` |
| | `StrayIsHarmless` | `Spec => []StrayAnswerIsDefault` |
| `PageCache_proofs` | `PagesStaySound` | `Spec => []PagesAreSound` |

### Hypotheses, and why they are there

- `Honest`: `Fails` has neither `"copy"` nor `"uninit"`. It cannot be dropped:
  `ops_copy_fails` violates `OpsSettled`'s case for PATCH with the first, and
  `PatchUnreadable` passes over a file of unknown content with the second.
- `Plain`: `Honest`, and the archive is applied without `--confirm` and
  `--ignore`; an operation the user declines is not in the product although the
  run counts the patch. `AsIs` is the same for `RoundTrip`. Neither excludes
  failing calls, a failing xdelta, a temporary file of an earlier run or a kill.
- `Smooth`: nothing is declined or ignored when the archive is applied, and no
  system call fails but `rename` (another file system, `"exdev"`); a temporary
  file of a killed run may be found (`"stale"`). A handler that reports a full
  disk does refuse, and rightly, so without it the three theorems are false. The
  making of the archive may still fail in every way the model has: each
  property says itself which makings it is about. `Sound` is one that went through
  and was written to its end, whatever the user has been told. `TrueSums`: no file
  was unreadable while the archive was made, so that each md5sum in it is a file's.
  A made-up md5sum may be that of anything, and then `OldOrNew` and
  `AgainIsHarmless` have nothing to hold on to.
- A stamp that was cut short (`torn`) may leave anything for an identifier or a version,
  so `StampIsSound` and `RightProduct` speak of the directories where none was;
  `PagesAreSound` speaks of handles until a mapping fails, as no caller
  goes on behind that. These are part of the properties, not hypotheses of the
  theorems.
- `VersionFileApart`: no operation of a patch is about Info.plist (archives made
  with `--ignore Contents/Info.plist`; see below for the others). `Chained`: the
  versions of an archive lead forward, and two patches with the same new version
  are the same patch. `VersionIsTrue`: what the first run finds is true. Without
  any of these a version says nothing about the operations.

The other hypotheses are the assumptions of the modules, each evaluated by TLC:

- `ProductTree`: paths are non-empty sequences of strings, closed under prefixes;
  the special nodes are not contents. Installed products are trees.
- `PatchesAssumption`: a patch is `WellMade`, that is, its operations are well
  formed and DONE is the last if it is there. The code leaves
  `do_patch_operations` at DONE, so what stands behind it is another patch.
- `StampAssumption`: Info.plist lies in a directory of the product, and a stamped
  file is another one than before, as `update_version` adds blanks.
- `MakingsAssumption`: releases are trees of whole files in which no directory is
  called `.DS_Store`.
- `InfoAssumption`: keys have their values behind them (`KeysAreWhole`), and a
  version in front of the first closing dict tag is the product's own
  (`VersionsAtTheTop`). Two dicts nested in a document the code was not written
  for would let it find a version that is none.
- `CallsAssumption`, `LinesAssumption` of `Startup`: no word of argv is NULL, and
  a letter that is an answer is the first of its line. Who types "yy" answers
  two questions and who types "any" a third one, so that `StrayAnswerIsDefault`
  is about the other lines. `CreatesOnlyWhenAsked` leaves out words behind `--ui`,
  which `kickoff_ui` and `parse_cmdline` read differently.
- `PatchesAssumption`, `SizesAssumption` and `CountAssumption` of `ArchiveStream`:
  patches are sequences of operations of any size, buffers hold at least one
  cell. `done`, which counts operations, is a variable of the model alone and stops
  at `MaxDone`; `CountAssumption` says that no archive is longer than that.
- `PagesAssumption`: sizes are positive numbers. There is no bound on the length of a
  file or on the number of pages.

### The arguments

`OpHandlers`. `TypeOK` says that the product is a tree and is not inductive by
itself: that `rmdir` leaves a tree needs the directory to be empty, and that
`wd` stays in `Path` needs it to be at or below the operation's target. So the
invariant is `StepInv == TypeOK /\ OpShape /\ DiskShape`: `OpShape` ties each
label to the kind of operation in hand and to where `wd` is, `DiskShape` says
what is on disk at each label (after the md5 check of PATCH the temporary file
is the new version, before it the target is the old one, and so on). Each group
of handlers preserves it by a lemma of its own. The first part of the module holds
the facts about paths and trees this rests on: putting a node into a present
directory, unlinking a file and removing an empty directory keep a tree a tree,
and walking up from below a directory stays below it. They quantify over prefixes
and need no induction. `StepShape` then says that every step of a handler has one
of a few shapes: it fetches, works inside the footprint of the operation in hand,
skips it, or returns with the outcome settled. `Confined`, `Settles` and
`Implements` follow from the shapes alone, without looking at the handlers again.
These lemmas are about any well-made patch (`AnyStep`), not only those of
`Patches`, so that `DoPatching` and `RoundTrip` build on them.

`DoPatching`. `PInv` adds to `StepInv` where in `do_patching` the operations may
run and on which patch. `SkipInv`: while a patch is skipped or listed, no
handler is past its start. `CleanInv`: up to the operations the product is `before`
but for a readme, and from there on `report_error` is set. `PerformInv`: a patch performed without
a prompt has declined nothing and has come to its DONE. `TellInv` carries what
each installed patch has left through the later ones, less what they write. For
`PatchedUpIsPatched` the version is then followed through the runs: it changes
only in the stamp, which comes when the operations of the patch are on disk, and
by `Chained` nothing that leads back is performed afterwards.

`RoundTrip`. `compare_directories` is a recursion whose order matters, but the
proof is no induction over the trees. `CInv` says of each path (`Owed`) that the
archive so far leaves it as in the newer release, or that one of the calls still
on the stack reaches it (`CoveredBy`), and of each call that the next one puts back
what it takes away (`AllFine`: the DELETE of a file that gets to be a directory is
followed by its ADDDIRECTORY). Replacing a call by those it makes keeps this: who
covered a path is followed by somebody who covers it. With an empty stack nothing
is owed. `RTInv` then joins it to `OpsSettled`: an application that succeeds has
settled every operation, and the last one about a path decides. `CalmInv` is
another invariant for the repetition: each operation says of its path what the
newer release has there (`Meant`), so that in a product that is the newer release
no handler gets past its first tests.

`Rerun_proofs`. That a handler does not refuse needs what it finds, hence the order
of the archive. `OrderInv` says it while the archive is made: an operation that
is written has before it in the archive what it relies on (`Follows`: the
directory of what is added has been added or was there, a directory that becomes a
file or a file that becomes a directory has been deleted), and so will those the
calls on the stack still have to write (`Prepared`). A removal comes before everything else about its path when the newer
release has something there. For the application, `RunState` gives each path a value by the operations that are passed
(`StateOf`): what the past ones have put is still there, and what is to come finds
its path as the older release had it or as an earlier run left it. `Fitting`
limits the latter: the old node, the new one, a torn or missing file that was
being written, or nothing where a kind changes. `Track` is then a matter of
going through the handlers: each refusal is a torn file or a changed kind
(`Blocked`), which `--replace --alwaysadd` and releases of the same kinds exclude.

`ArchiveStream`. The code never checks its place in the archive; it believes the
sizes it has read. `IndInv` says why it may. `WriteInv`: what is in the file and what
the writer still has to write make up the image of the patches
(`disk \o CellsOfTasks(todo) = Image(made)`), and `wbuf` is empty whenever a
child may be started, so that a child has nothing to write twice. `ReadInv`: as long
as none of the four events has happened, the reader stands at the boundary of an
operation, a chunk or a piece, and what lies between it and the end of the image
is what its variables say is left (`Standing`, `Lies`); its buffer holds
the cells behind `pos` (`Coherent`), wherever the buffer ends. A read that gets less than
it asked for is then at the end of a file that is shorter than its image, so
torn (`ReadWhatLies`). The lemmas about the image (`Spread...`, `Image...`) say how it
falls apart at the first operation, chunk or patch. While a script runs, the
reader stands at the first operation, behind the last, or, for `patchingdone`, behind
the archive (`StandsBehind`). `EndInv` is what the
result may say.

`ProductInfo`. The search of `update_version` and that of a later
`get_product_version` are compared turn by turn. A search is a trail; the stamp
keeps the trail that led to it, as it changes only a text; a later search can
only follow it, as each turn is determined by the document. `OnTrail` and
`ReadBack` say this of a state, `NotPassed` that the product's version has not
been passed over by a search that has not found it.

`Startup`. `SInv` has a part for each thing an action must know of earlier ones:
what argv holds (`TheWords`), what the two loops have found so far
(`TheKickoff`, `TheNamed`, `TheCommand`), where the overrides are (`TheHeader`),
and for each character in the input the question at which it was typed
(`TheInput`).

`PageCache`. The mapped pages form a doubly linked list. That it has no ring is
said by ranks that rise along `next`, chosen anew with each change, in place of an
induction along the list. The room for a page is there because only
one page is held at a time, and none is held before everything is hashed (`InTurn`,
`HeldInScan`), so that mapping pages for the digest finds a page to unmap.

Where "the first" or "the last" of something is needed, the proofs take it by
well-foundedness of the numbers, which is a statement about a set and can be
cited; the library's induction theorems, with an operator as parameter, cannot.
What `FlattenSeq` makes of an archive of any length is proved in the same way, by
the shortest sequence that would be a counterexample (`HasLeast`).

### Only model-checked

- Liveness (`PTerminates`, `PatchGetsMade`, `ProcessesEnd`, `RunEnds`,
  `DeltaGetsMade`): fairness and ENABLED are out of the prover's reach.
- What folds and recursive functions compute for every input: packing and applying
  instructions, the generator's extension of a match, absorbing pieces of a
  message, the integers of edsio. With them `GeneratorIsSound`,
  `DeltaRebuildsTo`, `VerifiedOrRefused`, `MadeMeansApplied`,
  `NamedFilesAreOpened` and `DigestIsOfTheFile`.
- `ChainHeals`: it is about a chain of two patches in `DoPatching` under an
  archive of REPLACEs, where the second patch meets what the first one left.
  `Heals` proves the same of one patch.

## Not modelled

- Byte order and the width of integers in the archive; lengths of strings, and
  with them `make_static_string` and the 512 characters of an xdelta command line.
- File modes, symbolic links, directories that cannot be opened; what scripts do.
- LaunchServices, and the windows, text and progress of the drivers.
- In xdelta: `info`, rsync, the file formats before 1.1 and index files, which
  MojoPatch never asks for; most of libedsio's generated serializers, error
  tables, XML and dates (`partime.c`, `maketime.c`).
- The plain Unix build: `get_product_version` and `update_version` say "Not
  implemented!" there.
- vcdiff (unfinished, not compiled) and the Windows layer (does not build).

## Plan

Done: all modules above; the safety proofs of `OpHandlers`, `DoPatching`,
`ProductInfo`, `Startup` and `ArchiveStream`; of `RoundTrip`, that the archive makes
the newer release, never a third thing, is harmless when applied again, is never
refused by its own release and heals after kills; of `PageCache`, the list of
pages.

What could follow:

1. `ChainHeals`, from `Heals` and the invariants of `DoPatching`.
2. That the operations satisfy `ApplyContract` inside a run of `DoPatching`.
3. That the digest of `PageCache` is of the file, by the lemmas on `FlattenSeq`.
