------------------------------ MODULE Startup ------------------------------
(***************************************************************************)
(* The program from main to its end, as its user meets it: find_basedir    *)
(* and the process serial number, the choice of a user interface, the      *)
(* command line, the headers of an archive under the overrides, and the    *)
(* questions of the stdio driver and of confirm, with the input they share,*)
(* or of the Carbon driver on a Mac, in dialogs.                           *)
(*                                                                         *)
(* The command line is read twice: kickoff_ui looks for --ui, then         *)
(* parse_cmdline for everything.  argv ends in a NULL that both can reach. *)
(* The input is a sequence of characters, each with the number of the      *)
(* question it was typed at; getchar takes one of them and fgets a line.   *)
(***************************************************************************)
EXTENDS Integers, Sequences, FiniteSets, SequencesExt

CONSTANTS
  Calls,         \* how the program is called: [argv, env], see below
  Archives,      \* sequences of versions, one in the header of each patch
  Lines,         \* what the user may type, without the newline
  MaxQuestions,  \* questions that one run asks
  MaxLines       \* lines typed at one question

NULL == "NULL"
Newline == "newline"
None == "none"

VARIABLES
  env,         \* [path, has]: PATH, "" for the current directory, or "unset"; and
               \* the directories that have a mojopatch
  basedir,     \* the directory xdelta is run from, or NULL
  drivers,     \* those that initialise here: "stdio", and on a Mac "carbon"
  argv, argc,  \* the command line
  i,           \* the word being looked at
  at,          \* "basedir", "kickoff", "parse", "header", "work", "question",
               \* "locate", "quit", "over", "crashed", "spins"
  ui,          \* the driver the function pointers belong to, or "null"
  spoke,       \* ghost: drivers that user interface calls have reached
  command,     \* COMMAND_...
  plain,       \* nonoptions
  override,    \* ghost: what the command line said for header.version
  ignorelist,  \* the words after --ignore
  interactive, \* --confirm
  named,       \* ghost: the driver the options name first, or "none"
  archive, n,  \* the archive and the number of the patch in it
  version,     \* header.version
  q,           \* the question: [kind, number]
  line,        \* lines typed at this question
  input, eof,  \* typed and not yet read; whether the input has ended
  answers      \* ghost: [kind, number, says, from]

svars == <<env, basedir, drivers, argv, argc, i, at, ui, spoke, command, plain, override, ignorelist,
           interactive, named, archive, n, version, q, line, input, eof, answers>>
words == <<env, basedir, drivers, argv, argc>>
options == <<command, plain, override, ignorelist, interactive, named>>
headers == <<archive, n, version>>
dialog == <<q, line, input, eof, answers>>

Valued == {"--product", "--identifier", "--version", "--newversion", "--readme",
           "--renamedir", "--titlebar", "--startupmsg", "--zliblevel", "--ignore"}
Switches == {"--confirm", "--debug", "--replace", "--append", "--alwaysadd",
             "--quietonsuccess"}
Options == Valued \cup Switches \cup {"--create", "--info", "--ui"}

\* Whatever begins with "--" is taken for an option, also an unknown one.
IsOption(word) == word \in Options \/ (Len(word) >= 2 /\ SubSeq(word, 1, 2) = "--")

\* A word of the command line is never the NULL behind it; the program is called
\* by its bare name or as "./mojopatch", and no directory is called "unset".
ASSUME CallsAssumption ==
  \A c \in Calls :
    /\ c.argv \in Seq(STRING) /\ c.argv # <<>>
    /\ c.argv[1] \in {"./mojopatch", "mojopatch"}
    /\ \A k \in DOMAIN c.argv : c.argv[k] \notin {NULL, None}
    /\ c.env.path \in Seq(STRING)
    /\ \A k \in DOMAIN c.env.path : c.env.path[k] # NULL
    /\ "unset" \notin c.env.has

ASSUME BoundsAssumption ==
  MaxQuestions \in Nat /\ MaxLines \in Nat /\ Archives \subseteq Seq(STRING)

\* The user answers with a letter, a word or a path: a letter that is an answer is
\* the first of its line.  (Who types "yy" answers two questions, and who types
\* "any" a third one.)
ASSUME LinesAssumption ==
  \A l \in Lines :
    /\ l \in Seq(STRING)
    /\ \A k \in DOMAIN l : l[k] # Newline /\ (k > 1 => l[k] \notin {"y", "n", "/"})

Init ==
  /\ drivers \in {{"stdio"}, {"stdio", "carbon"}}
  /\ \E c \in Calls : argv = c.argv /\ env = c.env
  /\ argc = Len(argv) /\ i = 1 /\ at = "basedir" /\ basedir = NULL
  /\ ui = "null" /\ spoke = {}
  /\ command = None /\ plain = <<>> /\ override = "" /\ ignorelist = {}
  /\ interactive = FALSE /\ named = None
  /\ archive \in Archives /\ n = 1 /\ version = ""
  /\ q = [kind |-> None, number |-> 0] /\ line = 0 /\ input = <<>> /\ eof = FALSE
  /\ answers = <<>>

\* argv[j], counted from 1 as a sequence is: the word behind the last is NULL.
Word(j) == IF j <= Len(argv) THEN argv[j] ELSE NULL
Says == spoke' = spoke \cup {ui}
Quiet == UNCHANGED spoke

-----------------------------------------------------------------------------
(* main, find_basedir and ui_init.                                         *)

\* Slip: argc keeps counting it.
PsnKept == argc' = argc /\ argv' = [argv EXCEPT ![2] = NULL]
\* On a Mac the Finder's -psn_ argument is taken off: argc loses one, and the
\* word is NULL, but the words behind it stay where they were.
PsnDropped == argc' = argc - 1 /\ argv' = [argv EXCEPT ![2] = NULL]

\* The entries of PATH a mojopatch is found in; empty ones are skipped.
Hits == {k \in DOMAIN env.path : env.path[k] # "" /\ env.path[k] \in env.has}

\* Slip: the search goes on behind a hit.
SearchedOn == env.path[CHOOSE k \in Hits : \A j \in Hits : j <= k]
\* The first hit; or, if the last entry was tried in vain, "oh well", the current
\* directory, which loses its last component as if that were the program.
Searched == env.path[CHOOSE k \in Hits : \A j \in Hits : k <= j]

\* With an empty PATH the buffer has never been written to.  A colon at the end
\* ends the loop before the last entry is seen to be the last.
BaseDirs ==
  IF argv[1] = "./mojopatch" THEN {"."}
  ELSE IF env.path = <<"unset">> THEN {NULL}
  ELSE IF env.path = <<>> THEN {NULL, "elsewhere"}
  ELSE IF Hits # {} THEN {Searched}
  ELSE IF env.path[Len(env.path)] = "" THEN {NULL} ELSE {"elsewhere"}

\* What cannot be resolved is given up, and the Finder's argument is left as well.
find_basedir ==
  /\ at = "basedir" /\ at' = "kickoff" /\ i' = 2
  /\ basedir' \in BaseDirs
  /\ IF basedir' # NULL /\ argc >= 2 /\ argv[2] = "-psn_1" /\ "carbon" \in drivers
       THEN PsnDropped ELSE UNCHANGED <<argc, argv>>
  /\ UNCHANGED <<env, drivers, ui, spoke, options, headers, dialog>>

\* Slip: every driver is tried, and the last one stays.
ui_init_last(request) == "stdio"
\* Slip: a driver that is not there is not replaced.
ui_init_strict(request) ==
  IF request \in drivers THEN request
  ELSE IF request = NULL THEN "stdio" ELSE "null"
\* ui_init: the driver that is asked for, or else the first that initialises.
ui_init(request) ==
  IF request \in drivers THEN request
  ELSE IF "carbon" \in drivers THEN "carbon" ELSE "stdio"

kickoff_ui ==
  /\ at = "kickoff"
  /\ \/ /\ i <= argc /\ Word(i) = "--ui"
        /\ ui' = ui_init(Word(i + 1)) /\ at' = "parse" /\ i' = 2
     \/ /\ i <= argc /\ Word(i) \notin {"--ui", NULL}
        /\ i' = i + 1 /\ UNCHANGED <<ui, at>>
     \/ /\ i <= argc /\ Word(i) = NULL
        /\ at' = "crashed" /\ UNCHANGED <<ui, i>>
     \/ /\ i > argc
        /\ ui' = ui_init(NULL) /\ at' = "parse" /\ i' = 2
  /\ UNCHANGED <<words, spoke, options, headers, dialog>>

-----------------------------------------------------------------------------
(* parse_cmdline: one action for each kind of word.                        *)

Parsing == at = "parse" /\ i <= argc
\* Slip: the loop counts a value again.
TakeMore(k) == i' = i + k + 1 /\ UNCHANGED at
TakeWord(k) == i' = i + k /\ UNCHANGED at
\* do_usage, or a second command: the user is told, and the program ends.
Refuse == at' = "quit" /\ Says /\ UNCHANGED i

PlainWord ==
  /\ Parsing /\ Word(i) # NULL /\ ~IsOption(Word(i))
  /\ plain' = Append(plain, Word(i)) /\ TakeWord(1) /\ Quiet
  /\ UNCHANGED <<words, ui, command, override, ignorelist, interactive, named,
                 headers, dialog>>

\* Slip: the last command wins.
set_command(cmd) == command' = cmd /\ TakeWord(1) /\ Quiet
set_command_or_abort(cmd) ==
  \/ command = None /\ command' = cmd /\ TakeWord(1) /\ Quiet
  \/ command # None /\ Refuse /\ UNCHANGED command

CommandWord ==
  /\ Parsing
  /\ \/ Word(i) = "--create" /\ set_command_or_abort("create")
     \/ Word(i) = "--info" /\ set_command_or_abort("info")
  /\ UNCHANGED <<words, ui, plain, override, ignorelist, interactive, named,
                 headers, dialog>>

SwitchWord ==
  /\ Parsing /\ Word(i) \in Switches
  /\ interactive' = (interactive \/ Word(i) = "--confirm")
  /\ TakeWord(1) /\ Quiet
  /\ UNCHANGED <<words, ui, command, plain, override, ignorelist, named,
                 headers, dialog>>

UIWord ==
  /\ Parsing /\ Word(i) = "--ui"
  /\ named' = IF named = None THEN Word(i + 1) ELSE named
  /\ TakeWord(2) /\ Quiet
  /\ UNCHANGED <<words, ui, command, plain, override, ignorelist, interactive,
                 headers, dialog>>

\* strlen or atoi of NULL ends the program; --ignore only keeps it.
ValueWord ==
  /\ Parsing /\ Word(i) \in Valued
  /\ ignorelist' = ignorelist \cup (IF Word(i) = "--ignore" THEN {Word(i + 1)} ELSE {})
  /\ \/ /\ Word(i + 1) = NULL /\ Word(i) # "--ignore"
        /\ at' = "crashed" /\ Quiet /\ UNCHANGED <<i, override>>
     \/ /\ Word(i) = "--zliblevel" /\ Word(i + 1) = "99"
        /\ Refuse /\ UNCHANGED override
     \/ /\ Word(i + 1) # NULL \/ Word(i) = "--ignore"
        /\ ~(Word(i) = "--zliblevel" /\ Word(i + 1) = "99")
        /\ override' = IF Word(i) = "--version" THEN Word(i + 1) ELSE override
        /\ TakeWord(2) /\ Quiet
  /\ version' = override'
  /\ UNCHANGED <<words, ui, command, plain, interactive, named, archive, n, dialog>>

UnknownWord ==
  /\ Parsing /\ IsOption(Word(i)) /\ Word(i) \notin Options /\ Refuse
  /\ UNCHANGED <<words, ui, options, headers, dialog>>

\* The words are all read; with none, a patch of the default name is looked for.
CommandLineEnds ==
  /\ at = "parse" /\ i > argc
  /\ command' = IF command = None THEN "dopatching" ELSE command
  /\ \/ argc <= 1 /\ plain' \in {<<>>, <<"default.mojopatch">>}
     \/ argc > 1 /\ UNCHANGED plain
  /\ at' = IF Len(plain') # (IF command' = "create" THEN 3 ELSE 1) THEN "quit"
           ELSE IF command' = "create" THEN "work" ELSE "header"
  /\ Says
  /\ UNCHANGED <<words, i, ui, override, ignorelist, interactive, named, headers, dialog>>

-----------------------------------------------------------------------------
(* create_patchfile and do_patching, as far as headers and questions go.   *)

\* serialize_static_string_if_empty; the end of the archive ends the loop.
serialize_header ==
  /\ at = "header" /\ Says
  /\ \/ n > Len(archive) /\ at' = "quit" /\ UNCHANGED version
     \/ /\ n <= Len(archive) /\ at' = "work"
        /\ version' = IF version = "" THEN archive[n] ELSE version
  /\ UNCHANGED <<words, i, ui, options, archive, n, dialog>>

\* Slip: the header is not cleared.
KeptHeader == UNCHANGED version
\* memset between two patches: this loses the overrides as well.
ClearedHeader == version' = ""

PatchEnds ==
  /\ at = "work" /\ Says
  /\ IF command = "create"
       THEN at' = "quit" /\ UNCHANGED <<n, version>>
       ELSE at' = "header" /\ n' = n + 1 /\ ClearedHeader
  /\ UNCHANGED <<words, i, ui, options, archive, dialog>>

\* in_ignore_list compares a name with every word it was given.
IgnoresNull ==
  /\ at = "work" /\ command # "info" /\ NULL \in ignorelist /\ at' = "crashed"
  /\ UNCHANGED <<words, i, ui, spoke, options, headers, dialog>>

\* spawn_xdelta measures basedir; what does not run there is taken for a success.
NeedsXdelta ==
  /\ at = "work" /\ command # "info" /\ basedir = NULL /\ at' = "crashed"
  /\ UNCHANGED <<words, i, ui, spoke, options, headers, dialog>>

ByChar == {"yn", "ny", "msgbox", "quit"}
ByLine == {"confirm", "picker"}

\* Only the stdio driver asks on the input; confirm does with every driver.
OnInput == ui = "stdio" \/ q.kind = "confirm"
Kinds == {"yn", "ny", "msgbox"} \cup (IF interactive THEN {"confirm"} ELSE {})

AskAt(kind) ==
  /\ q' = [kind |-> kind, number |-> q.number + 1] /\ line' = 0
  /\ at' = "question" /\ Says

Ask ==
  /\ at = "work" /\ q.number < MaxQuestions
  /\ \E kind \in Kinds : AskAt(kind)
  /\ UNCHANGED <<words, i, ui, options, headers, input, eof, answers>>

\* manually_locate_product: who wants to show where the product is, is asked where.
manually_locate_product ==
  /\ at = "locate" /\ AskAt("picker")
  /\ UNCHANGED <<words, i, ui, options, headers, input, eof, answers>>

\* ui_deinit: the stdio driver waits for one more key.
Quit ==
  /\ at = "quit"
  /\ IF ui = "stdio"
       THEN AskAt("quit") /\ UNCHANGED ui
       ELSE /\ Says /\ at' = "over" /\ ui' = "null" /\ UNCHANGED <<q, line>>
  /\ UNCHANGED <<words, i, options, headers, input, eof, answers>>

-----------------------------------------------------------------------------
(* The user, and the functions that read what he types.                    *)

Typed(l) == [k \in DOMAIN l |-> [c |-> l[k], from |-> q.number]]
              \o << [c |-> Newline, from |-> q.number] >>

Types ==
  /\ at = "question" /\ OnInput /\ input = <<>> /\ ~eof
  /\ \/ \E l \in Lines :
          /\ line < MaxLines \/ l = <<>>
          /\ input' = Typed(l) /\ UNCHANGED eof
     \/ eof' = TRUE /\ UNCHANGED input
  /\ line' = IF line < MaxLines THEN line + 1 ELSE line
  /\ UNCHANGED <<words, i, at, ui, spoke, options, headers, q, answers>>

Answer(says, from) ==
  /\ answers' = Append(answers, [kind |-> q.kind, number |-> q.number,
                                 says |-> says, from |-> from])
  /\ at' = IF q.kind = "quit" THEN "over"
           ELSE IF q.kind = "yn" /\ says = "yes" THEN "locate" ELSE "work"
  /\ ui' = IF q.kind = "quit" THEN "null" ELSE ui
AskAgain == UNCHANGED <<answers, at, ui>>

\* Slip: a bare newline means yes here too.
SaysNYLoose(c) == IF c \in {"y", Newline} THEN "yes" ELSE IF c = "n" THEN "no" ELSE "again"
\* What a character says to ui_prompt_yn and to ui_prompt_ny.
SaysYN(c) == IF c \in {"y", Newline} THEN "yes" ELSE IF c = "n" THEN "no" ELSE "again"
SaysNY(c) == IF c = "y" THEN "yes" ELSE IF c \in {"n", Newline} THEN "no" ELSE "again"

getchar ==
  /\ at = "question" /\ OnInput /\ q.kind \in ByChar /\ input # <<>>
  /\ input' = Tail(input)
  /\ LET c == Head(input).c
         says == IF q.kind = "yn" THEN SaysYN(c)
                 ELSE IF q.kind = "ny" THEN SaysNY(c) ELSE "seen"
     IN IF says = "again" THEN AskAgain ELSE Answer(says, Head(input).from)
  /\ UNCHANGED <<words, i, spoke, options, headers, q, line, eof>>

FirstLine == LET end == CHOOSE k \in DOMAIN input :
                   /\ input[k].c = Newline
                   /\ \A j \in 1..(k - 1) : input[j].c # Newline
             IN [k \in 1..(end - 1) |-> input[k].c]

\* Slip: a blank path is asked for again.
PickerInsists(l) == IF l = <<"/">> THEN "path" ELSE "again"
\* What a line says to ui_file_picker (one path exists), and to confirm.
PickerSays(l) == IF l = <<>> THEN "cancelled" ELSE IF l = <<"/">> THEN "path" ELSE "again"
ConfirmSays(l) == IF l \in {<<>>, <<"y">>} THEN "yes" ELSE IF l = <<"n">> THEN "no" ELSE "again"

fgets ==
  /\ at = "question" /\ OnInput /\ q.kind \in ByLine /\ input # <<>>
  /\ LET l == FirstLine
         says == IF q.kind = "picker" THEN PickerSays(l) ELSE ConfirmSays(l)
     IN /\ input' = SubSeq(input, Len(l) + 2, Len(input))
        /\ IF says = "again" THEN AskAgain
                             ELSE Answer(says, input[Len(l) + 1].from)
  /\ UNCHANGED <<words, i, spoke, options, headers, q, line, eof>>

\* The input is at its end.  A key is not waited for, and no path is a cancelled
\* choice; a question that needs a letter is asked for ever, and confirm looks at
\* what its buffer happens to hold.
AtEOF ==
  /\ at = "question" /\ OnInput /\ input = <<>> /\ eof
  /\ \/ q.kind \in {"msgbox", "quit"} /\ Answer("seen", q.number)
     \/ q.kind = "picker" /\ Answer("cancelled", q.number)
     \/ q.kind = "confirm" /\ \E says \in {"yes", "no"} : Answer(says, q.number)
     \/ /\ q.kind \in {"yn", "ny", "confirm"}
        /\ at' = "spins" /\ UNCHANGED <<answers, ui>>
  /\ UNCHANGED <<words, i, spoke, options, headers, q, line, input, eof>>

-----------------------------------------------------------------------------
(* The Carbon driver: a dialog, and what becomes of it.                    *)

\* Return presses the button that is the default; a dialog that cannot be made
\* is not asked.
Dialogs == {"not made", "return", "Yes", "No"}
ui_prompt_yes_or_no(dlg, yes) ==
  IF dlg = "Yes" \/ (dlg = "return" /\ yes) THEN "yes" ELSE "no"
ui_prompt_yn_carbon(dlg) == ui_prompt_yes_or_no(dlg, TRUE)
\* "FIXME! should be zero": Return is a yes here as well.
ui_prompt_ny_carbon(dlg) == ui_prompt_yes_or_no(dlg, TRUE)
\* A choice that cannot be read is a cancelled one.
ui_file_picker_carbon(dlg) == IF dlg = "Yes" THEN "path" ELSE "cancelled"

CarbonDialog ==
  /\ at = "question" /\ ~OnInput
  /\ \E dlg \in Dialogs :
       LET says == IF q.kind = "yn" THEN ui_prompt_yn_carbon(dlg)
                   ELSE IF q.kind = "ny" THEN ui_prompt_ny_carbon(dlg)
                   ELSE IF q.kind = "picker" THEN ui_file_picker_carbon(dlg) ELSE "seen"
       IN Answer(says, q.number)
  /\ UNCHANGED <<words, i, spoke, options, headers, q, line, input, eof>>

-----------------------------------------------------------------------------
Parse == PlainWord \/ CommandWord \/ SwitchWord \/ UIWord
           \/ ValueWord \/ UnknownWord \/ CommandLineEnds
Next == find_basedir \/ kickoff_ui \/ Parse \/ serialize_header \/ PatchEnds
          \/ IgnoresNull \/ NeedsXdelta \/ Ask \/ manually_locate_product \/ Quit
          \/ Types \/ getchar \/ fgets \/ AtEOF \/ CarbonDialog

Spec == Init /\ [][Next]_svars
\* The system runs the program, and a user who is asked answers or goes away.
FairSpec == Spec /\ WF_svars(Next)

-----------------------------------------------------------------------------
\* The words are never read past the NULL that ends them: no option of the last
\* place takes the index further than that.
TypeOK ==
  /\ i \in 1..(Len(argv) + 2) /\ argc \in 1..Len(argv)
  /\ at \in {"basedir", "kickoff", "parse", "header", "work", "locate", "question",
             "quit", "over", "crashed", "spins"}
  /\ ui \in drivers \cup {"null"} /\ n \in 1..(Len(archive) + 1)
  /\ command \in {None, "create", "info", "dopatching"}
  /\ q.number <= MaxQuestions + 2 /\ line <= MaxLines

\* The assertion in ui.c never fails: whatever the options name, every call finds a
\* driver, from the first message to the last, and none comes after ui_deinit.
NoCallWithoutDriver == "null" \notin spoke

\* What --ui names first is the driver that runs, if it is there, although another
\* loop than the one that reads the options picks it.
DriverIsTheNamed ==
  at \in {"header", "work"}
    /\ (\A j \in 3..Len(argv) : argv[j] = "--ui" => argv[j - 1] \notin Valued \cup {"--ui"})
  => ui = IF named \in drivers THEN named
          ELSE IF "carbon" \in drivers THEN "carbon" ELSE "stdio"

\* The program dies of how it was called only when the last option lacks its value,
\* when the Finder's argument has others behind it, or when it was called by its
\* bare name and PATH does not lead to it.
CrashOnlyForMissingValue ==
  at = "crashed" => \/ argv[Len(argv)] \in Valued
                    \/ Len(argv) > 2 /\ argv[2] = NULL
                    \/ argv[1] = "mojopatch" /\ Hits = {}

\* The xdelta that is run lies beside the program that was called, as the shell
\* finds it.  But an empty entry of PATH is the current directory to the shell,
\* and nothing to find_basedir.
XdeltaIsBeside ==
  at = "work" /\ basedir # NULL =>
    \/ argv[1] = "./mojopatch" /\ basedir = "."
    \/ argv[1] = "mojopatch" /\ Hits = {}
    \/ \E k \in DOMAIN env.path :
         /\ \A j \in 1..(k - 1) : env.path[j] \notin env.has
         /\ env.path[k] \in {"", basedir}

\* An archive is only written when that, and nothing else, was asked for.
CreatesOnlyWhenAsked ==
  at = "work" /\ command = "create" =>
     /\ "--create" \in Range(argv) /\ Len(plain) = 3
     /\ ~\E j \in 2..Len(argv) :
           argv[j] = "--info" /\ argv[j - 1] \notin Valued \cup {"--ui"}

\* Nothing of one header is left over for the next: a patch is processed under what
\* its own header says or what the command line does.
HeaderNotLeftOver ==
  at = "work" /\ command # "create" =>
     version = archive[n] \/ (override # "" /\ version = override)

\* "This lets us optionally override patchfiles from the command line": what is given
\* there holds for every patch of an archive.  It does for the first; then the memset
\* between two patches, which "loses command line overrides", has cleared it.
OverridesHold ==
  at = "work" /\ command # "create" =>
     version = IF override # "" THEN override ELSE archive[n]

\* What the words say is what the program does: the driver they name speaks, what
\* is written or only listed is what they ask for, and a patch comes under its own
\* header or their version.
DoesAsTold ==
  /\ TypeOK
  /\ NoCallWithoutDriver /\ DriverIsTheNamed
  /\ CreatesOnlyWhenAsked
  /\ HeaderNotLeftOver

\* What a question takes for answered when it is given nothing but a newline.
Default(kind) ==
  IF kind \in {"yn", "confirm"} THEN "yes"
  ELSE IF kind = "ny" THEN "no" ELSE IF kind = "picker" THEN "cancelled" ELSE "seen"

\* getchar leaves the rest of a line for the question that follows.  If only the
\* first letter of a line can be an answer, as in "yes", "no" and a path, then one
\* that was typed at another question is always the harmless one: never the yes
\* that ui_prompt_ny wants for a directory that may be wrong.
StrayAnswerIsDefault ==
  \A k \in DOMAIN answers :
    answers[k].from # answers[k].number => answers[k].says = Default(answers[k].kind)

\* A run ends, unless a question that needs an answer meets the end of the input.
RunEnds == (at = "basedir") ~> (at \in {"over", "crashed"} \/ (at = "spins" /\ eof))
=============================================================================
