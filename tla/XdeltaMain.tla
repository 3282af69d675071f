----------------------------- MODULE XdeltaMain -----------------------------
(***************************************************************************)
(* main of xdelta, as MojoPatch runs it twice: "delta" where the patch is  *)
(* made, "patch" where it is applied.  The options are taken one by one,   *)
(* and what is left are the names of the files.  MojoPatch gives           *)
(*     delta -n --maxmem=128M "<old>" "<new>" "<tmp>"                      *)
(*     patch --maxmem=128M "<tmp>" "<old>" "<tmp>"                         *)
(***************************************************************************)
EXTENDS XdeltaFile, Getopt

VARIABLES
    words,  \* the command lines: [delta, patch], words behind the command
    cmd,    \* "delta" or "patch"
    scan,   \* how far getopt has come
    set,    \* what the options have set
    main    \* "options", "run" or "refused"

mvars == <<xvars, words, cmd, scan, set, main>>
parsing == <<words, cmd, scan, set>>

Unset == [noverify |-> FALSE, compress |-> TRUE, pristine |-> FALSE]

\* Numbers with a unit; one without is refused, as strtol never gives a NULL end.
LegalSize(arg) == Len(arg) = 1 /\ arg[1] \in {"128M", "640K"}

MainInit == \E c \in Cases :
    /\ FileInit(c)
    /\ words = c.words
    /\ cmd = "delta" /\ scan = getopt_start(words.delta) /\ set = Unset
    /\ main = "options"

Sets(c) == [set EXCEPT !.noverify = @ \/ c = "n",
                       !.pristine = @ \/ c = "p",
                       !.compress = IF c \in Digits THEN c # "0" ELSE @]

others == <<gvars, opts, delta, old, patch, done>>

\* The exit code 2 without a file opened.
Refuse == /\ main' = "refused"
          /\ delta_code' = IF cmd = "delta" THEN 2 ELSE delta_code
          /\ patch_code' = IF cmd = "patch" THEN 2 ELSE patch_code
GoOn(where) == main' = where /\ UNCHANGED <<delta_code, patch_code>>

\* One call of getopt_long that finds an option.  A block size that is not a power
\* of two is only complained about.
MainOption ==
    /\ main = "options"
    /\ LET r == _getopt_internal(scan) IN
       /\ r.c # "EOF"
       /\ scan' = r.g
       /\ set' = Sets(r.c)
       /\ IF r.c \in {"?", "h", "v"} \/ (r.c = "m" /\ ~LegalSize(r.arg))
          THEN Refuse ELSE GoOn("options")
    /\ UNCHANGED <<others, words, cmd>>

\* No option is left: delta_command wants three names, patch_command one to three.
MainFiles ==
    /\ main = "options"
    /\ LET r == _getopt_internal(scan) IN
       /\ r.c = "EOF"
       /\ scan' = r.g
       /\ IF Len(Names(r.g)) \in (IF cmd = "delta" THEN {3} ELSE 1..3)
          THEN GoOn("run") ELSE Refuse
    /\ UNCHANGED <<others, words, cmd, set>>

DeltaRun == /\ main = "run" /\ cmd = "delta"
            /\ Generate \/ DeltaExit \/ DeltaFails
            /\ UNCHANGED <<parsing, main>>

\* The delta is in the archive, and the archive is applied.
NextCommand ==
    /\ cmd = "delta" /\ main = "run"
    /\ delta_code # Running
    /\ cmd' = "patch" /\ scan' = getopt_start(words.patch) /\ set' = Unset
    /\ main' = "options"
    /\ UNCHANGED <<xvars, words>>

PatchRun == /\ main = "run" /\ cmd = "patch"
            /\ PatchStep
            /\ UNCHANGED <<parsing, main>>

MainNext == MainOption \/ MainFiles \/ DeltaRun \/ NextCommand \/ PatchRun

\* A command line that is refused leaves no file, and MojoPatch gives up there.
Over == (main = "refused" \/ patch_code # Running) /\ UNCHANGED mvars

\* The system goes on running a command until it ends.
MainSpec == MainInit /\ [][MainNext \/ Over]_mvars
              /\ WF_mvars(MainOption) /\ WF_mvars(MainFiles)
              /\ WF_mvars(DeltaRun /\ Generate)

----------------------------------------------------------------------------

\* The last three words that MojoPatch writes.
Files(line) == SubSeq(line, Len(line) - 2, Len(line))

(* The files a command works on are those MojoPatch has named, in their order,
   and with the options it gave, although it puts the names into the line as
   they are.  A command line is refused only if its first name looks like an
   option: "+" keeps getopt from looking at those behind it.  The first name is
   in the directory of the old release, or a temporary file. *)
NamedFilesAreOpened ==
    LET line == words[cmd] IN
    /\ main = "run" => /\ Names(scan) = Files(line)
                       /\ cmd = "delta" => /\ set.noverify = opts.noverify
                                           /\ set.compress = opts.compress
                                           /\ ~set.pristine
    /\ main = "refused" => Files(line)[1].dash # ""
=============================================================================
