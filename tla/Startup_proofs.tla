--------------------------- MODULE Startup_proofs ---------------------------
(***************************************************************************)
(* What Startup promises of every command line, PATH, archive and user:    *)
(* that the program does what it was told and ends only as it is said to,  *)
(* that it runs the xdelta beside it, and that what is left in the input   *)
(* answers no later question but harmlessly.                               *)
(*                                                                         *)
(* The inductive invariant has one part for each thing that an action has  *)
(* to know of the earlier ones: what is in argv, how far the two loops     *)
(* over it are and what they have found, where the overrides are, what the *)
(* input holds.                                                            *)
(***************************************************************************)
EXTENDS Startup, WellFoundedInduction, SequenceTheorems, TLAPS

-----------------------------------------------------------------------------
(* The inductive invariant.                                                *)

\* argv is the command line that was given, but for the Finder's argument.
TheWords ==
  /\ argv \in Seq(STRING \cup {NULL}) /\ argv # <<>>
  /\ argv[1] \in {"./mojopatch", "mojopatch"}
  /\ \A k \in 1..Len(argv) : argv[k] # None /\ (argv[k] = NULL => k = 2)
  /\ \/ argc = Len(argv) /\ \A k \in 1..Len(argv) : argv[k] # NULL
     \/ argc = Len(argv) - 1 /\ argc >= 1 /\ argv[2] = NULL /\ at # "basedir"
  /\ drivers \in {{"stdio"}, {"stdio", "carbon"}}

\* PATH is a list of directories, and basedir what find_basedir makes of it.
TheBase ==
  /\ env.path \in Seq(STRING)
  /\ \A k \in DOMAIN env.path : env.path[k] # NULL
  /\ "unset" \notin env.has
  /\ at # "basedir" => basedir \in BaseDirs

\* The places of the program.
Places == {"basedir", "kickoff", "parse", "header", "work", "locate", "question",
           "quit", "over", "crashed", "spins"}
Asked == {"yn", "ny", "msgbox", "confirm"}
InQuestion == at \in {"question", "spins"}
\* Between two patches, or in one: the command line has been read to its end.
Working == at \in {"header", "work", "locate"} \/ (InQuestion /\ q.kind # "quit")

\* How many questions there have been, from the place: the last but one is the
\* picker's, the last is that of ui_deinit.
TheCounts ==
  /\ at \in Places
  /\ i \in 1..(Len(argv) + 2) /\ (at # "basedir" => i >= 2)
  /\ archive \in Seq(STRING) /\ n \in 1..(Len(archive) + 1)
  /\ command \in {None, "create", "info", "dopatching"}
  /\ q.number \in Nat /\ line \in Nat /\ line <= MaxLines
  /\ at \in {"question", "spins"} => q.kind \in Asked \cup {"picker", "quit"}
  /\ q.number <=
       IF at = "locate" \/ (at = "question" /\ q.kind \in Asked) THEN MaxQuestions
       ELSE IF at \in {"over", "crashed", "spins"} \/ (at = "question" /\ q.kind = "quit")
         THEN MaxQuestions + 2
       ELSE MaxQuestions + 1

\* The driver is there from the command line to the end, and only then is it called.
TheDriver ==
  /\ spoke \subseteq drivers
  /\ at \in {"basedir", "kickoff"} => ui = "null"
  /\ Working \/ at \in {"parse", "quit"} \/ InQuestion => ui \in drivers
  /\ ui \in drivers \cup {"null"}

\* The word at f is the first --ui.
FirstUI(f) ==
  /\ f \in 2..argc /\ argv[f] = "--ui"
  /\ \A j \in 2..(f - 1) : argv[j] # "--ui"
NoUI(m) == \A j \in 2..argc : j < m => argv[j] # "--ui"
\* No --ui is the value of another option.
OwnUI == \A j \in 3..Len(argv) : argv[j] = "--ui" => argv[j - 1] \notin Valued \cup {"--ui"}

\* kickoff_ui looks at every word, up to the first --ui.
TheKickoff ==
  /\ at = "kickoff" => NoUI(i) /\ \A j \in 2..(i - 1) : argv[j] # NULL
  /\ at = "parse" \/ Working =>
       /\ argc = Len(argv) \/ Len(argv) = 2
       /\ \/ \E f \in 2..argc : FirstUI(f) /\ ui = ui_init(Word(f + 1))
          \/ NoUI(argc + 1) /\ ui = ui_init(NULL)
\* parse_cmdline sees the same, unless it takes a --ui for a value.
TheNamed ==
  /\ at \in {"basedir", "kickoff"} => named = None
  /\ (at = "parse" \/ Working) /\ OwnUI =>
       \/ \E f \in 2..argc : FirstUI(f) /\ named = Word(f + 1)
       \/ NoUI(i) /\ named = None
  /\ Working => i > argc

\* An --info that is no value has been obeyed, and a creation was asked for.
TheCommand ==
  /\ at \in {"basedir", "kickoff"} => command = None
  /\ at = "parse" => command # "dopatching"
  /\ command = "create" => \E j \in 1..Len(argv) : argv[j] = "--create"
  /\ at = "parse" \/ Working =>
       \A j \in 2..Len(argv) :
         j < i /\ argv[j] = "--info" /\ argv[j - 1] \notin Valued \cup {"--ui"}
           => command = "info"
  /\ Working /\ command = "create" => at # "header" /\ Len(plain) = 3

\* The overrides are in the header until the first patch has ended.
TheHeader ==
  /\ at \in {"basedir", "kickoff", "parse"} => version = override /\ n = 1
  /\ at = "header" => version = IF n = 1 THEN override ELSE ""
  /\ Working /\ at # "header" /\ command # "create" =>
       /\ n <= Len(archive)
       /\ version = IF n = 1 /\ override # "" THEN override ELSE archive[n]

\* Only --ignore can have taken the NULL.
TheIgnored ==
  /\ at \in {"basedir", "kickoff"} => ignorelist = {}
  /\ NULL \in ignorelist => argv[Len(argv)] = "--ignore"

\* One line at most is in the input, and its newline with it.  Its first letter is
\* there only as long as the question it was typed at.
Chars == [c : STRING \cup {Newline}, from : Nat]
TheInput ==
  /\ input \in Seq(Chars)
  /\ \A k \in 1..Len(input) : input[k].c = Newline <=> k = Len(input)
  /\ \A k \in 2..Len(input) : input[k].c \notin {"y", "n", "/"}
  /\ input # <<>> /\ input[1].c \in {"y", "n", "/"} =>
       /\ at = "question" /\ OnInput
       /\ \A k \in 1..Len(input) : input[k].from = q.number

Answers == [kind : Asked \cup {"picker", "quit"}, number : Nat, from : Nat,
            says : {"yes", "no", "seen", "path", "cancelled"}]

SInv == /\ TheWords /\ TheBase /\ TheCounts /\ TheDriver /\ TheKickoff /\ TheNamed
        /\ TheCommand /\ TheHeader /\ TheIgnored /\ TheInput
        /\ answers \in Seq(Answers)
        /\ CrashOnlyForMissingValue /\ StrayAnswerIsDefault

-----------------------------------------------------------------------------
(* Proofs begin with what each action leaves alone.                        *)

LEMMA WordsStay ==
  Next => find_basedir \/ UNCHANGED words
BY DEF Next, Parse, kickoff_ui, PlainWord, CommandWord, SwitchWord, UIWord, ValueWord,
       UnknownWord, CommandLineEnds, serialize_header, PatchEnds, IgnoresNull, NeedsXdelta,
       Ask, manually_locate_product, Quit, Types, getchar, fgets, AtEOF, CarbonDialog

LEMMA OptionsStay ==
  Next => Parse \/ UNCHANGED options
BY DEF Next, find_basedir, kickoff_ui, serialize_header, PatchEnds, IgnoresNull, NeedsXdelta,
       Ask, manually_locate_product, Quit, Types, getchar, fgets, AtEOF, CarbonDialog

LEMMA HeadersStay ==
  Next => ValueWord \/ serialize_header \/ PatchEnds \/ UNCHANGED headers
BY DEF Next, Parse, find_basedir, kickoff_ui, PlainWord, CommandWord, SwitchWord, UIWord,
       UnknownWord, CommandLineEnds, IgnoresNull, NeedsXdelta,
       Ask, manually_locate_product, Quit, Types, getchar, fgets, AtEOF, CarbonDialog

Reads == getchar \/ fgets \/ AtEOF \/ CarbonDialog
LEMMA DialogStays ==
  Next => Ask \/ manually_locate_product \/ Quit \/ Types \/ Reads \/ UNCHANGED dialog
BY DEF Next, Reads, Parse, find_basedir, kickoff_ui, PlainWord, CommandWord, SwitchWord, UIWord,
       ValueWord, UnknownWord, CommandLineEnds, serialize_header, PatchEnds, IgnoresNull,
       NeedsXdelta

\* A question is answered, asked again, or asked for ever.
LEMMA WhatReadsDo ==
  ASSUME Reads
  PROVE  /\ at = "question"
         /\ UNCHANGED <<words, i, spoke, options, headers, q, line, eof>>
         /\ \/ UNCHANGED <<answers, at, ui>>
            \/ at' = "spins" /\ UNCHANGED <<answers, ui>>
            \/ \E says, from : Answer(says, from)
BY Zenon DEF Reads, getchar, fgets, AtEOF, CarbonDialog, AskAgain

-----------------------------------------------------------------------------
(* The invariant holds at the start.                                       *)

LEMMA SInit == Init => SInv
<1> SUFFICES ASSUME Init PROVE SInv
  OBVIOUS
<1>1. PICK c \in Calls : argv = c.argv /\ env = c.env
  BY DEF Init
<1>2. /\ argv \in Seq(STRING) /\ argv # <<>> /\ Len(argv) \in Nat /\ Len(argv) >= 1
      /\ argv[1] \in {"./mojopatch", "mojopatch"}
      /\ \A k \in 1..Len(argv) : argv[k] \notin {NULL, None}
      /\ env.path \in Seq(STRING)
      /\ \A k \in DOMAIN env.path : env.path[k] # NULL
      /\ "unset" \notin env.has
  BY <1>1, CallsAssumption
<1>3. TheWords
  <2>1. argv \in Seq(STRING \cup {NULL})
    BY <1>2, SMT
  <2> QED
    BY <1>2, <2>1 DEF TheWords, Init
<1>4. TheBase
  BY <1>2 DEF TheBase, Init
<1>5. TheCounts
  <2>0. archive \in Archives
    BY DEF Init
  <2>1. archive \in Seq(STRING)
    BY <2>0, BoundsAssumption
  <2>3. Len(archive) \in Nat
    BY <2>1
  <2>2. q.number = 0 /\ q.kind = None
    BY DEF Init
  <2> QED
    <3>1. /\ at = "basedir" /\ i = 1 /\ n = 1 /\ line = 0 /\ command = None
      BY DEF Init
    <3>2. MaxQuestions \in Nat /\ MaxLines \in Nat
      BY BoundsAssumption
    <3> QED
      BY <1>2, <2>1, <2>2, <2>3, <3>1, <3>2 DEF TheCounts, Places
<1>6. TheDriver /\ TheNamed /\ TheKickoff
  BY DEF TheDriver, TheNamed, TheKickoff, Init, Working, InQuestion
<1>7. TheCommand /\ TheHeader /\ TheIgnored
  BY DEF TheCommand, TheHeader, TheIgnored, Init, Working, InQuestion, None
<1>8. TheInput
  <2>1. input = <<>> /\ Len(input) = 0
    BY DEF Init
  <2>2. input \in Seq(Chars)
    BY <2>1
  <2> QED
    BY <2>1, <2>2 DEF TheInput
<1>9. answers \in Seq(Answers) /\ CrashOnlyForMissingValue /\ StrayAnswerIsDefault
  <2>1. answers = <<>> /\ DOMAIN answers = {} /\ at # "crashed"
    <3>1. answers = <<>> /\ at = "basedir"
      BY DEF Init
    <3> QED
      BY <3>1
  <2>2. answers \in Seq(Answers)
    BY <2>1
  <2> QED
    BY <2>1, <2>2 DEF CrashOnlyForMissingValue, StrayAnswerIsDefault
<1> QED
  BY <1>3, <1>4, <1>5, <1>6, <1>7, <1>8, <1>9 DEF SInv

-----------------------------------------------------------------------------
(* Every part is kept by every action.                                     *)

LEMMA AtLeavesBasedir ==
  Next => at' # "basedir" /\ (at = "basedir" => find_basedir)
BY DEF Next, Parse, Parsing, find_basedir, kickoff_ui, PlainWord, CommandWord, SwitchWord, UIWord,
       ValueWord, set_command_or_abort, TakeWord, Refuse, AskAt, Answer, AskAgain,
       UnknownWord, CommandLineEnds, serialize_header, PatchEnds, IgnoresNull, NeedsXdelta,
       Ask, manually_locate_product, Quit, Types, getchar, fgets, AtEOF, CarbonDialog

LEMMA WordsKept == SInv /\ Next => TheWords'
<1> SUFFICES ASSUME SInv, Next PROVE TheWords'
  OBVIOUS
<1> USE DEF TheWords
<1>0. Len(argv) \in Nat /\ Len(argv) >= 1 /\ DOMAIN argv = 1..Len(argv)
  BY DEF SInv
<1>1. CASE find_basedir /\ UNCHANGED <<argc, argv>>
  BY <1>1 DEF find_basedir, SInv
<1>2. CASE find_basedir /\ PsnDropped /\ argc >= 2
  <2>1. argv' \in Seq(STRING \cup {NULL}) /\ Len(argv') = Len(argv)
    BY <1>0, <1>2 DEF SInv, PsnDropped
  <2>2. argv'[2] = NULL /\ \A k \in 1..Len(argv) : k # 2 => argv'[k] = argv[k]
    BY <1>0, <1>2 DEF SInv, PsnDropped, find_basedir
  <2> QED
    BY <1>0, <1>2, <2>1, <2>2 DEF SInv, PsnDropped, find_basedir, NULL, None
<1>3. CASE UNCHANGED words
  BY <1>3, AtLeavesBasedir DEF SInv, words
<1> QED
  BY <1>1, <1>2, <1>3, WordsStay DEF find_basedir

LEMMA BaseKept == SInv /\ Next => TheBase'
<1> SUFFICES ASSUME SInv, Next PROVE TheBase'
  OBVIOUS
<1>1. CASE find_basedir
  <2>1. argv'[1] = argv[1]
    BY <1>1 DEF find_basedir, PsnDropped, SInv, TheWords
  <2>2. UNCHANGED env /\ basedir' \in BaseDirs
    BY <1>1 DEF find_basedir
  <2>3. BaseDirs' = BaseDirs
    BY <2>1, <2>2 DEF BaseDirs, Hits, Searched
  <2> QED
    BY <2>2, <2>3 DEF TheBase, SInv
<1>2. CASE UNCHANGED words
  <2>1. BaseDirs' = BaseDirs
    BY <1>2 DEF BaseDirs, Hits, Searched, words
  <2>2. at # "basedir" \/ find_basedir
    BY AtLeavesBasedir
  <2> QED
    BY <1>1, <1>2, <2>1, <2>2, AtLeavesBasedir DEF TheBase, SInv, words
<1> QED
  BY <1>1, <1>2, WordsStay

\* Of the words, an action that is not find_basedir changes none.
LEMMA WordsSame ==
  Next => Len(argv') = Len(argv) /\ (at # "basedir" => UNCHANGED words)
<1> SUFFICES ASSUME Next PROVE Len(argv') = Len(argv) /\ (at # "basedir" => UNCHANGED words)
  OBVIOUS
<1>1. CASE find_basedir
  BY <1>1 DEF find_basedir, PsnDropped
<1>2. CASE UNCHANGED words
  BY <1>2 DEF words
<1> QED
  BY <1>1, <1>2, WordsStay DEF find_basedir

LEMMA CountsKept == SInv /\ Next => TheCounts'
<1> SUFFICES ASSUME SInv, Next PROVE TheCounts'
  OBVIOUS
<1> USE DEF TheCounts, Places
<1>0. /\ Len(argv) \in Nat /\ Len(argv) >= 1 /\ argc \in 1..Len(argv)
      /\ MaxQuestions \in Nat /\ MaxLines \in Nat /\ TheCounts
      /\ Len(argv') = Len(argv) /\ Len(archive) \in Nat
  BY BoundsAssumption, WordsSame DEF SInv, TheWords
<1> USE <1>0
<1>1. CASE find_basedir
  BY <1>1, SMTT(30) DEF find_basedir, options, headers, dialog
<1>2. CASE kickoff_ui
  BY <1>2, SMTT(30) DEF kickoff_ui, words, options, headers, dialog
<1>3. CASE PlainWord \/ SwitchWord \/ UIWord \/ UnknownWord
  <2>1. at = "parse" /\ i <= argc /\ UNCHANGED <<words, command, headers, dialog>>
    BY <1>3 DEF PlainWord, SwitchWord, UIWord, UnknownWord, Parsing, options
  <2>2. i' \in {i, i + 1, i + 2} /\ at' \in {"parse", "quit"}
    BY <1>3, <2>1 DEF PlainWord, SwitchWord, UIWord, UnknownWord, TakeWord, Refuse
  <2> QED
    BY <2>1, <2>2 DEF words, headers, dialog
<1>4. CASE CommandWord
  BY <1>4, SMTT(30) DEF CommandWord, set_command_or_abort, Parsing, TakeWord, Refuse,
                        words, options, headers, dialog
<1>5. CASE ValueWord
  BY <1>5, SMTT(30) DEF ValueWord, Parsing, TakeWord, Refuse, words, options, dialog
<1>6. CASE CommandLineEnds
  BY <1>6 DEF CommandLineEnds, words, headers, dialog
<1>7. CASE serialize_header \/ PatchEnds
  <2>1. /\ at' \in {"quit", "header", "work"} /\ at \in {"header", "work"}
        /\ n' \in 1..(Len(archive) + 1)
    <3>1. CASE serialize_header
      BY <3>1 DEF serialize_header
    <3>2. CASE PatchEnds
      <4>1. at = "work" /\ (command = "create" \/ n <= Len(archive))
        BY <3>2 DEF PatchEnds, SInv, TheHeader, Working
      <4>2. at' \in {"quit", "header"} /\ (n' = n \/ (command # "create" /\ n' = n + 1))
        BY <3>2 DEF PatchEnds
      <4> QED
        BY <4>1, <4>2
    <3> QED
      BY <1>7, <3>1, <3>2
  <2> QED
    BY <1>7, <2>1 DEF serialize_header, PatchEnds, words, options, dialog
<1>8. CASE IgnoresNull \/ NeedsXdelta
  BY <1>8, SMTT(30) DEF IgnoresNull, NeedsXdelta, words, options, headers, dialog
<1>9. CASE Ask \/ manually_locate_product \/ Quit
  <2>1. UNCHANGED <<words, i, options, headers>>
    BY <1>9 DEF Ask, manually_locate_product, Quit
  <2>2. CASE Ask
    BY <2>1, <2>2 DEF Ask, Kinds, Asked, AskAt, words, options, headers
  <2>3. CASE manually_locate_product
    BY <2>1, <2>3 DEF manually_locate_product, AskAt, words, options, headers, Asked
  <2>4. CASE Quit
    BY <2>1, <2>4, SMTT(30) DEF Quit, AskAt, words, options, headers, Asked
  <2> QED
    BY <1>9, <2>2, <2>3, <2>4
<1>10. CASE Types
  BY <1>10 DEF Types, words, options, headers
<1>11. CASE Reads
  <2>1. /\ at = "question"
        /\ UNCHANGED <<words, i, options, headers, q, line>>
        /\ \/ at' \in {"question", "spins"}
           \/ at' = (IF q.kind = "quit" THEN "over" ELSE "work")
           \/ at' = "locate" /\ q.kind = "yn"
    BY <1>11, WhatReadsDo DEF Answer
  <2> QED
    BY <2>1 DEF words, options, headers, Asked
<1> QED
  BY <1>1, <1>2, <1>3, <1>4, <1>5, <1>6, <1>7, <1>8, <1>9, <1>10, <1>11 DEF Next, Parse, Reads

LEMMA DriverKept == SInv /\ Next => TheDriver'
<1> SUFFICES ASSUME SInv, Next PROVE TheDriver'
  OBVIOUS
<1> USE DEF TheDriver, Working, InQuestion
<1>0. TheDriver /\ drivers \in {{"stdio"}, {"stdio", "carbon"}} /\ UNCHANGED drivers
  BY WordsStay DEF SInv, TheWords, words, find_basedir
<1>1. CASE find_basedir
  BY <1>0, <1>1 DEF find_basedir
<1>2. CASE kickoff_ui
  <2>1. /\ UNCHANGED spoke /\ at = "kickoff"
        /\ \/ at' = "parse" /\ ui' \in drivers
           \/ at' \in {"kickoff", "crashed"} /\ UNCHANGED ui
    <3>1. \A request : ui_init(request) \in drivers
      BY <1>0 DEF ui_init
    <3>2. ui_init(Word(i + 1)) \in drivers /\ ui_init(NULL) \in drivers
      BY <3>1, Zenon
    <3>3. CASE at' = "parse" /\ ui' \in {ui_init(Word(i + 1)), ui_init(NULL)}
      <4>1. UNCHANGED spoke /\ at = "kickoff"
        BY <1>2 DEF kickoff_ui
      <4>2. ui' = ui_init(Word(i + 1)) \/ ui' = ui_init(NULL)
        BY <3>3, Zenon
      <4>3. ui' \in drivers
        BY <3>2, <4>2, Zenon
      <4> QED
        BY <3>3, <4>1, <4>3
    <3>4. CASE at' \in {"kickoff", "crashed"} /\ UNCHANGED ui
      BY <3>4, <1>2 DEF kickoff_ui
    <3> QED
      BY <1>2, <3>3, <3>4 DEF kickoff_ui
  <2> QED
    BY <1>0, <2>1
<1>3. CASE Parse
  <2>1. at = "parse" /\ UNCHANGED ui /\ at' \in {"parse", "quit", "work", "header", "crashed"}
    BY <1>3 DEF Parse, PlainWord, CommandWord, SwitchWord, UIWord, ValueWord, UnknownWord,
                CommandLineEnds, Parsing, set_command_or_abort, TakeWord, Refuse
  <2>2. spoke' \in {spoke, spoke \cup {ui}}
    BY <1>3 DEF Parse, PlainWord, CommandWord, SwitchWord, UIWord, ValueWord, UnknownWord,
                CommandLineEnds, set_command_or_abort, TakeWord, Refuse, Says, Quiet
  <2> QED
    BY <1>0, <2>1, <2>2
<1>4. CASE serialize_header \/ PatchEnds \/ IgnoresNull \/ NeedsXdelta
  BY <1>0, <1>4 DEF serialize_header, PatchEnds, IgnoresNull, NeedsXdelta, Says
<1>5. CASE Ask \/ manually_locate_product
  BY <1>0, <1>5 DEF Ask, manually_locate_product, AskAt, Says
<1>6. CASE Quit
  BY <1>0, <1>6 DEF Quit, AskAt, Says
<1>7. CASE Types
  BY <1>0, <1>7 DEF Types
<1>8. CASE Reads
  <2>1. /\ at = "question" /\ UNCHANGED <<spoke, q>>
        /\ \/ at' \in {"question", "spins", "work", "locate"} /\ UNCHANGED ui
           \/ at' = "over" /\ ui' = "null"
    BY <1>8, WhatReadsDo DEF Answer
  <2> QED
    BY <1>0, <2>1
<1> QED
  BY <1>1, <1>2, <1>3, <1>4, <1>5, <1>6, <1>7, <1>8 DEF Next, Reads

\* From the command line on, the program works, ends, or waits to be told to end;
\* and while it works the command line and the driver are settled.
LEMMA WorkGoesOn ==
  SInv /\ Next /\ Working' =>
    \/ CommandLineEnds
    \/ Working /\ UNCHANGED <<words, options, i, ui, spoke>>
    \/ Working /\ UNCHANGED <<words, options, i, ui>> /\ spoke' = spoke \cup {ui}
<1> SUFFICES ASSUME SInv, Next, Working'
             PROVE  \/ CommandLineEnds
                    \/ Working /\ UNCHANGED <<words, options, i, ui, spoke>>
                    \/ Working /\ UNCHANGED <<words, options, i, ui>> /\ spoke' = spoke \cup {ui}
  OBVIOUS
<1> USE DEF Working, InQuestion
<1>1. CASE find_basedir \/ kickoff_ui \/ IgnoresNull \/ NeedsXdelta
  BY <1>1 DEF find_basedir, kickoff_ui, IgnoresNull, NeedsXdelta
<1>2. CASE Parse /\ ~CommandLineEnds
  BY <1>2 DEF Parse, PlainWord, CommandWord, SwitchWord, UIWord, ValueWord, UnknownWord,
              Parsing, set_command_or_abort, TakeWord, Refuse
<1>3. CASE serialize_header \/ PatchEnds
  BY <1>3 DEF serialize_header, PatchEnds, Says
<1>4. CASE Ask \/ manually_locate_product
  BY <1>4 DEF Ask, manually_locate_product, AskAt, Says
<1>5. CASE Quit
  BY <1>5 DEF Quit, AskAt, Says
<1>6. CASE Types
  BY <1>6 DEF Types
<1>7. CASE Reads
  <2>1. /\ at = "question" /\ UNCHANGED <<words, i, spoke, options, q>>
        /\ UNCHANGED ui \/ at' = "over"
        /\ at' \in {"question", "spins"} \/ q.kind # "quit" \/ at' = "over"
    BY <1>7, WhatReadsDo DEF Answer
  <2> QED
    BY <2>1
<1> QED
  BY <1>1, <1>2, <1>3, <1>4, <1>5, <1>6, <1>7 DEF Next, Parse, Reads

\* What kickoff_ui has found: with the words settled, it does not change.
LEMMA KickoffKept == SInv /\ Next => TheKickoff'
<1> SUFFICES ASSUME SInv, Next PROVE TheKickoff'
  OBVIOUS
<1>0. /\ Len(argv) \in Nat /\ Len(argv) >= 1 /\ argc \in 1..Len(argv) /\ i \in Nat
      /\ TheKickoff /\ TheWords /\ TheCounts
  BY DEF SInv, TheWords, TheCounts
<1> DEFINE Found == \/ \E f \in 2..argc : FirstUI(f) /\ ui = ui_init(Word(f + 1))
                    \/ NoUI(argc + 1) /\ ui = ui_init(NULL)
<1>1. CASE find_basedir
  <2>1. at' = "kickoff" /\ i' = 2
    BY <1>1 DEF find_basedir
  <2> QED
    BY <2>1 DEF TheKickoff, NoUI, Working, InQuestion
<1>2. CASE kickoff_ui
  <2>1. at = "kickoff" /\ UNCHANGED words /\ i >= 2 /\ NoUI(i)
        /\ \A j \in 2..(i - 1) : argv[j] # NULL
    BY <1>0, <1>2 DEF kickoff_ui, TheKickoff, TheCounts
  <2>2. CASE i <= argc /\ Word(i) = "--ui" /\ ui' = ui_init(Word(i + 1)) /\ at' = "parse"
    <3>1. argv[i] = "--ui" /\ FirstUI(i) /\ i \in 2..argc
      BY <1>0, <2>1, <2>2 DEF Word, FirstUI, NoUI
    <3>2. argc = Len(argv) \/ Len(argv) = 2
      BY <1>0, <2>1, <2>2, <3>1 DEF TheWords, NULL
    <3>3. \E f \in 2..argc' : FirstUI(f)' /\ ui' = ui_init(Word(f + 1))'
      BY <2>1, <2>2, <3>1 DEF FirstUI, words, ui_init, Word
    <3> QED
      BY <2>1, <2>2, <3>2, <3>3 DEF TheKickoff, words
  <2>3. CASE i <= argc /\ Word(i) \notin {"--ui", NULL} /\ i' = i + 1 /\ at' = "kickoff"
    BY <1>0, <2>1, <2>3 DEF TheKickoff, NoUI, Word, words, Working, InQuestion
  <2>4. CASE at' = "crashed"
    BY <2>4 DEF TheKickoff, Working, InQuestion
  <2>5. CASE i > argc /\ ui' = ui_init(NULL) /\ at' = "parse"
    <3>1. NoUI(argc + 1)'
      BY <1>0, <2>1, <2>5 DEF NoUI, words
    <3>2. argc = Len(argv) \/ Len(argv) = 2
      <4>1. CASE argc = Len(argv) - 1 /\ argc >= 2 /\ argv[2] = NULL
        BY <1>0, <2>1, <2>5, <4>1
      <4>2. argc = Len(argv) \/ (argc = Len(argv) - 1 /\ argv[2] = NULL)
        BY <1>0 DEF TheWords
      <4>3. Len(argv) \in Nat /\ argc \in 1..Len(argv)
        BY <1>0
      <4> QED
        BY <4>1, <4>2, <4>3
    <3>3. ui' = ui_init(NULL)'
      BY <2>1, <2>5 DEF ui_init, words
    <3> QED
      BY <2>1, <2>5, <3>1, <3>2, <3>3 DEF TheKickoff, words
  <2> QED
    BY <1>2, <2>1, <2>2, <2>3, <2>4, <2>5 DEF kickoff_ui
<1>3. CASE (at = "parse" \/ Working) /\ UNCHANGED <<words, ui>> /\ at' # "kickoff"
  <2>1. (argc = Len(argv) \/ Len(argv) = 2) /\ Found
    BY <1>0, <1>3 DEF TheKickoff
  <2>2. (argc = Len(argv) \/ Len(argv) = 2)' /\ Found'
    BY <1>3, <2>1 DEF FirstUI, NoUI, words, ui_init, Word
  <2> QED
    BY <1>3, <2>2 DEF TheKickoff
<1>4. CASE at' # "kickoff" /\ ~(at' = "parse" \/ Working')
  BY <1>4 DEF TheKickoff
<1>5. CASE Parse
  BY <1>3, <1>5 DEF Parse, PlainWord, CommandWord, SwitchWord, UIWord, ValueWord, UnknownWord,
              CommandLineEnds, Parsing, set_command_or_abort, TakeWord, Refuse
<1>6. at' = "kickoff" => find_basedir \/ kickoff_ui
  BY DEF Next, Parse, PlainWord, CommandWord, SwitchWord, UIWord, ValueWord, UnknownWord,
         CommandLineEnds, Parsing, set_command_or_abort, TakeWord, Refuse, serialize_header,
         PatchEnds, IgnoresNull, NeedsXdelta, Ask, manually_locate_product, Quit, AskAt, Types,
         getchar, fgets, AtEOF, CarbonDialog, Answer, AskAgain
<1>7. at' = "parse" => kickoff_ui \/ Parse
  BY DEF Next, Parse, find_basedir, serialize_header,
         PatchEnds, IgnoresNull, NeedsXdelta, Ask, manually_locate_product, Quit, AskAt, Types,
         getchar, fgets, AtEOF, CarbonDialog, Answer, AskAgain
<1>8. CASE Working' /\ ~Parse
  <2>1. Working /\ UNCHANGED <<words, ui>>
    BY <1>8, WorkGoesOn DEF Parse
  <2> QED
    BY <1>1, <1>2, <1>3, <1>6, <2>1
<1> QED
  BY <1>1, <1>2, <1>4, <1>5, <1>6, <1>7, <1>8

\* A word that does not end the program: it is taken alone, or with its value.
LEMMA WordTaken ==
  ASSUME SInv, Parse, ~CommandLineEnds
  PROVE  /\ at = "parse" /\ i \in 2..argc /\ argc = Len(argv) /\ UNCHANGED words
         /\ Word(i) = argv[i] /\ argv[i] # NULL
         /\ \/ at' \in {"quit", "crashed"} /\ UNCHANGED <<i, named, command>>
            \/ /\ at' = "parse" /\ i' = i + 1 /\ argv[i] \notin Valued \cup {"--ui"}
               /\ UNCHANGED named
               /\ \/ argv[i] \notin {"--create", "--info"} /\ UNCHANGED command
                  \/ argv[i] = "--create" /\ command = None /\ command' = "create"
                  \/ argv[i] = "--info" /\ command = None /\ command' = "info"
            \/ /\ at' = "parse" /\ i' = i + 2 /\ UNCHANGED command
               /\ \/ argv[i] \in Valued /\ UNCHANGED named
                  \/ argv[i] = "--ui" /\ named' = IF named = None THEN Word(i + 1) ELSE named
<1>1. /\ at = "parse" /\ i <= argc /\ i \in Nat /\ i >= 2 /\ UNCHANGED words
      /\ Len(argv) \in Nat /\ argc <= Len(argv) /\ argc \in Nat
  <2>1. Parsing /\ UNCHANGED words
    BY Zenon DEF Parse, PlainWord, CommandWord, SwitchWord, UIWord, ValueWord, UnknownWord
  <2>2. /\ Len(argv) \in Nat /\ i \in 1..(Len(argv) + 2) /\ (at # "basedir" => i >= 2)
        /\ (argc = Len(argv) \/ (argc = Len(argv) - 1 /\ argc >= 1))
    BY DEF SInv, TheWords, TheCounts
  <2> QED
    BY <2>1, <2>2 DEF Parsing
<1>2. argc = Len(argv) /\ Word(i) = argv[i] /\ argv[i] # NULL
  <2>1. argc = Len(argv) \/ Len(argv) = 2
    BY <1>1 DEF SInv, TheKickoff
  <2>2. argc = Len(argv) /\ argv[i] # NULL
    BY <1>1, <2>1 DEF SInv, TheWords
  <2> QED
    BY <1>1, <2>2 DEF Word
<1>3. CASE PlainWord \/ SwitchWord
  BY <1>1, <1>2, <1>3 DEF PlainWord, SwitchWord, TakeWord, Valued, Switches, Options, IsOption
<1>4. CASE CommandWord
  BY <1>1, <1>2, <1>4 DEF CommandWord, set_command_or_abort, TakeWord, Valued, Refuse
<1>5. CASE UIWord
  BY <1>1, <1>2, <1>5 DEF UIWord, TakeWord
<1>6. CASE ValueWord
  BY <1>1, <1>2, <1>6 DEF ValueWord, TakeWord, Refuse
<1>7. CASE UnknownWord
  BY <1>1, <1>2, <1>7 DEF UnknownWord, Refuse, options
<1> QED
  BY <1>1, <1>2, <1>3, <1>4, <1>5, <1>6, <1>7 DEF Parse

\* Where the loop over the words begins and goes on.
LEMMA ParseComesFrom ==
  Next /\ at' = "parse" =>
    \/ kickoff_ui /\ i' = 2 /\ UNCHANGED <<words, options, headers>>
    \/ Parse /\ ~CommandLineEnds
BY DEF Next, Parse, find_basedir, kickoff_ui, CommandLineEnds, serialize_header,
       PatchEnds, IgnoresNull, NeedsXdelta, Ask, manually_locate_product, Quit, AskAt, Types,
       getchar, fgets, AtEOF, CarbonDialog, Answer, AskAgain

LEMMA KickoffComesFrom ==
  Next /\ at' \in {"basedir", "kickoff"} =>
    at \in {"basedir", "kickoff"} /\ UNCHANGED <<options, headers, ui>>
BY DEF Next, Parse, PlainWord, CommandWord, SwitchWord, UIWord, ValueWord, UnknownWord,
       set_command_or_abort, TakeWord, Refuse, Parsing, find_basedir, kickoff_ui,
       CommandLineEnds, serialize_header,
       PatchEnds, IgnoresNull, NeedsXdelta, Ask, manually_locate_product, Quit, AskAt, Types,
       getchar, fgets, AtEOF, CarbonDialog, Answer, AskAgain

LEMMA NamedKept == SInv /\ Next => TheNamed'
<1> SUFFICES ASSUME SInv, Next PROVE TheNamed'
  OBVIOUS
<1>0. TheNamed
  BY DEF SInv
<1>1. at' \in {"basedir", "kickoff"} => named' = None
  BY <1>0, KickoffComesFrom DEF TheNamed, options
<1> DEFINE Known == \/ \E f \in 2..argc : FirstUI(f) /\ named = Word(f + 1)
                    \/ NoUI(i) /\ named = None
<1>2. CASE at' = "parse" /\ OwnUI'
  <2>1. CASE kickoff_ui /\ i' = 2 /\ UNCHANGED options
    <3>1. named' = None
      BY <1>0, <2>1 DEF kickoff_ui, TheNamed, options
    <3> QED
      BY <2>1, <3>1, <1>2 DEF NoUI, TheNamed, Working, InQuestion
  <2>2. CASE Parse /\ ~CommandLineEnds
    <3>1. /\ at = "parse" /\ i \in 2..argc /\ argc = Len(argv) /\ Len(argv) \in Nat
          /\ UNCHANGED words
          /\ \A k \in 1..Len(argv) : argv[k] # None
      BY <2>2, WordTaken DEF SInv, TheWords
    <3>2. OwnUI
      BY <1>2, <3>1 DEF OwnUI, words
    <3>3. Known
      BY <1>0, <3>1, <3>2 DEF TheNamed
    <3>4. \A f \in 2..argc : Word(f + 1) # None
      BY <3>1 DEF Word, NULL, None
    <3>5. Known'
      <4>1. CASE i' = i + 1 /\ argv[i] # "--ui" /\ UNCHANGED named
        BY <3>1, <3>3, <4>1 DEF FirstUI, NoUI, words, Word
      <4>2. CASE i' = i + 2 /\ argv[i] \in Valued /\ UNCHANGED named
        <5>1. argv[i] # "--ui"
          BY <4>2 DEF Valued
        <5>2. i + 1 <= argc => argv[i + 1] # "--ui"
          BY <3>1, <3>2, <4>2 DEF OwnUI
        <5> QED
          BY <3>1, <3>3, <4>2, <5>1, <5>2 DEF FirstUI, NoUI, words, Word
      <4>3. CASE argv[i] = "--ui" /\ named' = IF named = None THEN Word(i + 1) ELSE named
        <5>1. CASE NoUI(i) /\ named = None
          <6>1. FirstUI(i) /\ named' = Word(i + 1)
            BY <3>1, <4>3, <5>1 DEF FirstUI, NoUI
          <6> QED
            BY <3>1, <6>1 DEF FirstUI, words, Word
        <5>2. CASE \E f \in 2..argc : FirstUI(f) /\ named = Word(f + 1)
          BY <3>1, <3>4, <4>3, <5>2 DEF FirstUI, words, Word
        <5> QED
          BY <3>3, <5>1, <5>2
      <4> QED
        BY <1>2, <2>2, <4>1, <4>2, <4>3, WordTaken
    <3> QED
      BY <1>2, <3>5 DEF TheNamed, Working, InQuestion
  <2> QED
    BY <1>2, <2>1, <2>2, ParseComesFrom
<1>3. CASE Working'
  <2>1. UNCHANGED <<words, i, named>> /\ (Working \/ at = "parse") /\ i > argc
    BY <1>0, <1>3, WorkGoesOn DEF TheNamed, CommandLineEnds, options
  <2>2. OwnUI' => Known'
    BY <1>0, <2>1 DEF TheNamed, OwnUI, FirstUI, NoUI, words, Word
  <2> QED
    BY <1>1, <1>3, <2>1, <2>2 DEF TheNamed, words
<1>4. ASSUME at' = "parse" \/ Working', OwnUI' PROVE Known'
  BY <1>2, <1>3, <1>4 DEF TheNamed
<1>5. Working' => (i > argc)'
  BY <1>3 DEF TheNamed
<1> QED
  BY <1>1, <1>4, <1>5 DEF TheNamed

\* PlainWord and the rest: three words are left of a command line that creates.
LEMMA CommandKept == SInv /\ Next => TheCommand'
<1> SUFFICES ASSUME SInv, Next PROVE TheCommand'
  OBVIOUS
<1>0. TheCommand /\ Len(argv) \in Nat
  BY DEF SInv, TheWords
<1>1. at' \in {"basedir", "kickoff"} => command' = None
  BY <1>0, KickoffComesFrom DEF TheCommand, options
<1> DEFINE Obeyed == \A j \in 2..Len(argv) :
                       j < i /\ argv[j] = "--info" /\ argv[j - 1] \notin Valued \cup {"--ui"}
                         => command = "info"
           Wanted == command = "create" => \E j \in 1..Len(argv) : argv[j] = "--create"
<1>2. at' = "parse" => Obeyed' /\ command' # "dopatching"
  <2> SUFFICES ASSUME at' = "parse" PROVE Obeyed' /\ command' # "dopatching"
    OBVIOUS
  <2>1. CASE kickoff_ui /\ i' = 2 /\ UNCHANGED options
    <3>1. command' = None
      BY <1>0, <2>1 DEF TheCommand, kickoff_ui, options
    <3> QED
      BY <2>1, <3>1 DEF None
  <2>2. CASE Parse /\ ~CommandLineEnds
    <3>1. at = "parse" /\ i \in 2..Len(argv) /\ UNCHANGED words
      BY <2>2, WordTaken
    <3>2. Obeyed /\ command # "dopatching"
      BY <1>0, <3>1 DEF TheCommand
    <3>3. CASE i' = i + 1 /\ argv[i] \notin {"--create", "--info"} /\ UNCHANGED command
      BY <1>0, <3>1, <3>2, <3>3 DEF words
    <3>4. CASE i' = i + 1 /\ argv[i] = "--create" /\ command = None /\ command' = "create"
      BY <1>0, <3>1, <3>2, <3>4 DEF words, None
    <3>5. CASE i' = i + 1 /\ command' = "info"
      BY <3>5
    <3>6. CASE i' = i + 2 /\ UNCHANGED command /\ argv[i] \in Valued \cup {"--ui"}
      <4>1. argv[i] # "--info"
        BY <3>6 DEF Valued
      <4> QED
        BY <1>0, <3>1, <3>2, <3>6, <4>1 DEF words
    <3> QED
      BY <2>2, WordTaken, <3>3, <3>4, <3>5, <3>6
  <2> QED
    BY <2>1, <2>2, ParseComesFrom
<1>3. Wanted'
  <2>1. CASE CommandLineEnds
    BY <1>0, <2>1 DEF CommandLineEnds, TheCommand, words
  <2>2. CASE Parse /\ ~CommandLineEnds
    BY <1>0, <2>2, WordTaken DEF TheCommand, words
  <2>3. CASE UNCHANGED command /\ find_basedir
    <3>1. \A j \in 1..Len(argv) : argv[j] = "--create" => argv'[j] = "--create"
      BY <2>3 DEF find_basedir, PsnDropped, SInv, TheWords
    <3>2. Len(argv') = Len(argv)
      BY WordsSame
    <3> QED
      BY <1>0, <2>3, <3>1, <3>2 DEF TheCommand
  <2>4. CASE UNCHANGED <<command, words>>
    BY <1>0, <2>4 DEF TheCommand, words
  <2> QED
    BY <2>1, <2>2, <2>3, <2>4, WordsStay, OptionsStay DEF options
<1>4. CASE Working'
  <2>1. CASE CommandLineEnds
    <3>1. UNCHANGED <<words, i>> /\ at = "parse"
      BY <2>1 DEF CommandLineEnds
    <3>2. Obeyed /\ command # "dopatching"
      BY <1>0, <3>1 DEF TheCommand
    <3>3. command' = (IF command = None THEN "dopatching" ELSE command)
      BY <2>1 DEF CommandLineEnds
    <3>4. Obeyed'
      BY <3>1, <3>2, <3>3 DEF words, None
    <3>5. command' = "create" => at' # "header" /\ Len(plain') = 3
      BY <1>4, <2>1 DEF CommandLineEnds, Working, InQuestion
    <3> QED
      BY <1>1, <1>2, <1>3, <1>4, <3>4, <3>5 DEF TheCommand
  <2>2. CASE Working /\ UNCHANGED <<words, options, i>>
    <3>1. Obeyed'
      BY <1>0, <2>2 DEF TheCommand, words, options
    <3>2. at' = "header" => at = "header" \/ command # "create"
      BY <2>2 DEF Next, Parse, PlainWord, CommandWord, SwitchWord, UIWord, ValueWord, UnknownWord,
         Parsing, find_basedir, kickoff_ui, Working, InQuestion,
         CommandLineEnds, serialize_header, words, options,
         PatchEnds, IgnoresNull, NeedsXdelta, Ask, manually_locate_product, Quit, AskAt, Types,
         getchar, fgets, AtEOF, CarbonDialog, Answer, AskAgain
    <3> QED
      BY <1>0, <1>1, <1>2, <1>3, <1>4, <2>2, <3>1, <3>2 DEF TheCommand, options
  <2> QED
    BY <1>4, <2>1, <2>2, WorkGoesOn
<1>5. CASE ~Working'
  BY <1>1, <1>2, <1>3, <1>5 DEF TheCommand
<1> QED
  BY <1>4, <1>5

LEMMA HeaderKept == SInv /\ Next => TheHeader'
<1> SUFFICES ASSUME SInv, Next PROVE TheHeader'
  OBVIOUS
<1> USE DEF TheHeader
<1>0. /\ TheHeader /\ Len(archive) \in Nat /\ n \in Nat /\ n >= 1
      /\ (Working /\ command = "create" => at # "header")
  <2>1. archive \in Seq(STRING) /\ n \in 1..(Len(archive) + 1)
    BY DEF SInv, TheCounts
  <2>2. Working /\ command = "create" => at # "header"
    BY DEF SInv, TheCommand
  <2>3. Len(archive) \in Nat
    BY <2>1
  <2>4. TheHeader
    BY DEF SInv
  <2>5. n \in Nat /\ n >= 1
    BY <2>1, <2>3
  <2> QED
    BY <2>2, <2>3, <2>4, <2>5
<1>1. CASE at' \in {"basedir", "kickoff"}
  BY <1>0, <1>1, KickoffComesFrom DEF options, headers, Working, InQuestion
<1>2. CASE kickoff_ui
  BY <1>0, <1>2 DEF kickoff_ui, options, headers, Working, InQuestion
<1>3. CASE ValueWord
  BY <1>0, <1>3 DEF ValueWord, Parsing, TakeWord, Refuse, Says, Working, InQuestion
<1>4. CASE Parse /\ ~ValueWord /\ ~CommandLineEnds
  <2>1. at = "parse" /\ at' \in {"parse", "quit", "crashed"} /\ UNCHANGED <<headers, override>>
    BY <1>4 DEF Parse, PlainWord, CommandWord, SwitchWord, UIWord, UnknownWord,
                Parsing, TakeWord, Refuse, set_command_or_abort, options
  <2> QED
    BY <1>0, <2>1 DEF headers, Working, InQuestion
<1>5. CASE CommandLineEnds
  <2>1. at = "parse" /\ UNCHANGED <<headers, override>>
        /\ at' \in {"quit", "header", "work"} /\ (at' = "work" => command' = "create")
    BY <1>5 DEF CommandLineEnds
  <2> QED
    BY <1>0, <2>1 DEF headers, Working, InQuestion
<1>6. CASE serialize_header
  <2>1. /\ at = "header" /\ UNCHANGED <<n, archive, override, command>>
        /\ at' \in {"work", "quit"}
        /\ at' = "work" => /\ n <= Len(archive)
                           /\ version' = IF version = "" THEN archive[n] ELSE version
    BY <1>6 DEF serialize_header, options
  <2> QED
    BY <1>0, <2>1 DEF Working, InQuestion
<1>7. CASE PatchEnds
  <2>1. at = "work" /\ at' \in {"quit", "header"}
        /\ (at' = "header" => n' = n + 1 /\ version' = "")
    BY <1>7 DEF PatchEnds, ClearedHeader
  <2>2. n + 1 # 1
    <3>1. n \in Nat /\ n >= 1
      BY <1>0, Zenon
    <3> QED
      BY <3>1
  <2>3. ~(at' \in {"basedir", "kickoff", "parse"}) /\ ~(Working' /\ at' # "header")
    BY <2>1 DEF Working, InQuestion
  <2> QED
    BY <2>1, <2>2, <2>3
<1>8. CASE Working' /\ ~serialize_header /\ ~PatchEnds /\ ~Parse
  <2>1. Working /\ UNCHANGED <<headers, options>>
    BY <1>8, WorkGoesOn, HeadersStay DEF Parse
  <2>2. at' = "header" => at = "header"
    BY <1>8 DEF Next, find_basedir, kickoff_ui, IgnoresNull, NeedsXdelta, Ask,
         manually_locate_product, Quit, AskAt, Types,
         getchar, fgets, AtEOF, CarbonDialog, Answer, AskAgain
  <2>3. at' # "header" => at # "header"
    BY <1>8 DEF Next, find_basedir, kickoff_ui, IgnoresNull, NeedsXdelta, Ask, Working, InQuestion,
         manually_locate_product, Quit, AskAt, Types,
         getchar, fgets, AtEOF, CarbonDialog, Answer, AskAgain
  <2> QED
    BY <1>0, <1>8, <2>1, <2>2, <2>3 DEF headers, options, Working, InQuestion
<1>9. CASE at' \notin {"basedir", "kickoff", "parse"} /\ ~Working'
  BY <1>9 DEF Working
<1> QED
  BY <1>1, <1>2, <1>3, <1>4, <1>5, <1>6, <1>7, <1>8, <1>9, ParseComesFrom DEF Parse

LEMMA IgnoredKept == SInv /\ Next => TheIgnored'
<1> SUFFICES ASSUME SInv, Next PROVE TheIgnored'
  OBVIOUS
<1>0. TheIgnored
  BY DEF SInv
<1>1. CASE find_basedir
  BY <1>0, <1>1 DEF find_basedir, TheIgnored, options
<1>2. CASE ValueWord
  <2>1. /\ at = "parse" /\ i \in 2..Len(argv) /\ UNCHANGED words /\ Word(i) = argv[i]
        /\ Len(argv) \in Nat /\ \A k \in 1..Len(argv) : argv[k] = NULL => k = 2
    <3>1. Parse /\ ~CommandLineEnds
      BY <1>2 DEF Parse, ValueWord, CommandLineEnds, Parsing, SInv, TheCounts, TheWords
    <3>2. Len(argv) \in Nat /\ \A k \in 1..Len(argv) : argv[k] = NULL => k = 2
      BY DEF SInv, TheWords
    <3> QED
      BY <3>1, <3>2, WordTaken
  <2>2. ignorelist' = ignorelist \cup (IF Word(i) = "--ignore" THEN {Word(i + 1)} ELSE {})
    BY <1>2 DEF ValueWord
  <2>3. Word(i + 1) = NULL => i = Len(argv)
    BY <2>1 DEF Word
  <2>4. at' \notin {"basedir", "kickoff"}
    BY <1>2 DEF ValueWord, TakeWord, Refuse, Parsing
  <2> QED
    BY <1>0, <2>1, <2>2, <2>3, <2>4 DEF TheIgnored, words
<1>3. CASE UNCHANGED <<words, ignorelist>>
  BY <1>0, <1>3, KickoffComesFrom DEF TheIgnored, words
<1>4. CASE Parse /\ ~ValueWord
  BY <1>3, <1>4 DEF Parse, PlainWord, CommandWord, SwitchWord, UIWord, UnknownWord,
                    CommandLineEnds, options
<1> QED
  BY <1>1, <1>2, <1>3, <1>4, WordsStay, OptionsStay DEF options

\* A set of numbers has a least.
LEMMA HasLeast ==
  ASSUME NEW S \in SUBSET Nat, S # {}
  PROVE  \E x \in S : \A y \in S : x <= y
<1> DEFINE R == OpToRel(<, Nat)
<1>1. IsWellFoundedOn(R, Nat)
  BY NatLessThanWellFounded
<1> HIDE DEF R
<1>2. PICK x \in S : \A y \in S : ~(<<y, x>> \in R)
  BY <1>1, WFMin, Zenon
<1>3. ASSUME NEW y \in S
      PROVE  x <= y
  <2>1. ~(<<y, x>> \in R)
    BY <1>2, Zenon
  <2> QED
    BY <2>1 DEF R, OpToRel
<1> QED
  BY <1>3

\* The search of PATH ends at its first hit.
LEMMA SearchedIsFirst ==
  ASSUME SInv, Hits # {}
  PROVE  \E k \in Hits : Searched = env.path[k] /\ \A j \in Hits : k <= j
<1>1. Hits \in SUBSET Nat
  <2>1. env.path \in Seq(STRING)
    BY DEF SInv, TheBase
  <2>2. DOMAIN env.path \subseteq Nat
    BY <2>1
  <2> QED
    BY <2>2 DEF Hits
<1>2. \E k \in Hits : \A j \in Hits : k <= j
  BY <1>1, HasLeast
<1>3. PICK k : k = CHOOSE h \in Hits : \A j \in Hits : h <= j
  OBVIOUS
<1>4. k \in Hits /\ \A j \in Hits : k <= j
  BY <1>2, <1>3, Zenon
<1>5. Searched = env.path[k]
  BY <1>3 DEF Searched
<1> QED
  BY <1>4, <1>5

\* basedir is NULL only if there is nothing in PATH to be found.
LEMMA BaseDirIsThere ==
  ASSUME SInv, at # "basedir", basedir = NULL
  PROVE  argv[1] = "mojopatch" /\ Hits = {}
<1>1. basedir \in BaseDirs /\ argv[1] \in {"./mojopatch", "mojopatch"}
  BY DEF SInv, TheBase, TheWords
<1>2. argv[1] = "mojopatch"
  BY <1>1 DEF BaseDirs, NULL
<1>3. CASE env.path \in {<<"unset">>, <<>>}
  <2>1. "unset" \notin env.has
    BY DEF SInv, TheBase
  <2>2. ASSUME env.path = <<"unset">> PROVE Hits = {}
    <3>1. \A k \in DOMAIN env.path : env.path[k] = "unset"
      BY <2>2
    <3> QED
      BY <2>1, <3>1 DEF Hits
  <2>3. ASSUME env.path = <<>> PROVE Hits = {}
    <3>1. DOMAIN env.path = {}
      BY <2>3
    <3> QED
      BY <3>1 DEF Hits
  <2> QED
    BY <1>2, <1>3, <2>2, <2>3
<1>4. CASE env.path \notin {<<"unset">>, <<>>}
  <2>1. Hits # {} => basedir = Searched
    BY <1>1, <1>2, <1>4 DEF BaseDirs
  <2>2. Hits # {} => Searched # NULL
    BY SearchedIsFirst DEF Hits, SInv, TheBase
  <2> QED
    BY <1>2, <2>1, <2>2
<1> QED
  BY <1>3, <1>4

LEMMA CrashComesFrom ==
  Next /\ at' = "crashed" =>
    at # "crashed" /\ (kickoff_ui \/ ValueWord \/ IgnoresNull \/ NeedsXdelta)
BY DEF Next, Parse, Parsing, find_basedir, kickoff_ui, PlainWord, CommandWord, SwitchWord,
       UIWord, ValueWord, UnknownWord, set_command_or_abort, TakeWord, Refuse,
       CommandLineEnds, serialize_header,
       PatchEnds, IgnoresNull, NeedsXdelta, Ask, manually_locate_product, Quit, AskAt, Types,
       getchar, fgets, AtEOF, CarbonDialog, Answer, AskAgain

LEMMA CrashKept == SInv /\ Next => CrashOnlyForMissingValue'
<1> SUFFICES ASSUME SInv, Next, at' = "crashed" PROVE CrashOnlyForMissingValue'
  BY DEF CrashOnlyForMissingValue
<1> DEFINE Excused == \/ argv[Len(argv)] \in Valued
                      \/ Len(argv) > 2 /\ argv[2] = NULL
                      \/ argv[1] = "mojopatch" /\ Hits = {}
<1>0. at # "basedir" /\ UNCHANGED words /\ Len(argv) \in Nat /\ TheWords
  <2>1. at # "basedir"
    BY CrashComesFrom DEF kickoff_ui, ValueWord, Parsing, IgnoresNull, NeedsXdelta
  <2> QED
    BY <2>1, WordsSame DEF SInv, TheWords
<1>1. ASSUME kickoff_ui PROVE Excused
  <2>1. i <= argc /\ i >= 2 /\ i \in Nat /\ Word(i) = NULL
    BY <1>1, CrashComesFrom DEF kickoff_ui, SInv, TheCounts
  <2>2. argv[i] = NULL /\ i \in 2..Len(argv)
    BY <1>0, <2>1 DEF Word, TheWords
  <2> QED
    BY <1>0, <2>1, <2>2 DEF TheWords
<1>2. ASSUME ValueWord PROVE Excused
  <2>1. Word(i) \in Valued /\ Word(i + 1) = NULL
    BY <1>2 DEF ValueWord, TakeWord, Refuse, Parsing
  <2>2. i \in 2..Len(argv) /\ Word(i) = argv[i]
    <3>1. Parse /\ ~CommandLineEnds
      BY <1>2 DEF Parse, ValueWord, CommandLineEnds, Parsing, SInv, TheCounts, TheWords
    <3> QED
      BY <3>1, WordTaken
  <2>3. i = Len(argv)
    BY <1>0, <2>1, <2>2 DEF Word, TheWords
  <2> QED
    BY <2>1, <2>2, <2>3
<1>3. ASSUME IgnoresNull PROVE Excused
  BY <1>3 DEF IgnoresNull, SInv, TheIgnored, Valued
<1>4. ASSUME NeedsXdelta PROVE Excused
  BY <1>4, BaseDirIsThere DEF NeedsXdelta
<1>5. Excused
  BY <1>1, <1>2, <1>3, <1>4, CrashComesFrom
<1>6. Excused'
  BY <1>0, <1>5 DEF words, Hits
<1> QED
  BY <1>6 DEF CrashOnlyForMissingValue

\* One element behind a sequence.
LEMMA OneBehind ==
  ASSUME NEW S, NEW a \in Seq(S), NEW z \in S
  PROVE  /\ a \o <<z>> \in Seq(S) /\ Len(a \o <<z>>) = Len(a) + 1
         /\ \A k \in 1..Len(a) : (a \o <<z>>)[k] = a[k]
         /\ (a \o <<z>>)[Len(a) + 1] = z
<1>1. <<z>> \in Seq(S) /\ Len(<<z>>) = 1 /\ <<z>>[1] = z
  OBVIOUS
<1> QED
  BY <1>1

\* A line that is typed: a newline ends it, and its other letters answer nothing.
LEMMA TypedLine ==
  ASSUME NEW l \in Lines, q.number \in Nat, NEW typed, typed = Typed(l)
  PROVE  /\ typed \in Seq(Chars) /\ Len(typed) = Len(l) + 1 /\ Len(l) \in Nat
         /\ \A k \in 1..Len(typed) : typed[k].c = Newline <=> k = Len(typed)
         /\ \A k \in 2..Len(typed) : typed[k].c \notin {"y", "n", "/"}
         /\ \A k \in 1..Len(typed) : typed[k].from = q.number
<1>1. /\ l \in Seq(STRING) /\ Len(l) \in Nat /\ DOMAIN l = 1..Len(l)
      /\ \A k \in 1..Len(l) : l[k] # Newline /\ (k > 1 => l[k] \notin {"y", "n", "/"})
  BY LinesAssumption
<1>2. PICK m : m = q.number
  OBVIOUS
<1>3. PICK a : a = [k \in DOMAIN l |-> [c |-> l[k], from |-> m]]
  OBVIOUS
<1>4. PICK z : z = [c |-> Newline, from |-> m]
  OBVIOUS
<1>5. z \in Chars /\ m \in Nat
  BY <1>2, <1>4 DEF Chars
<1>6. a \in Seq(Chars) /\ Len(a) = Len(l)
  <2>1. a \in [1..Len(l) -> Chars]
    BY <1>1, <1>3, <1>5 DEF Chars
  <2> QED
    BY <1>1, <2>1, LenProperties
<1>7. typed = a \o <<z>>
  BY <1>2, <1>3, <1>4 DEF Typed
<1>8. /\ typed \in Seq(Chars) /\ Len(typed) = Len(l) + 1
      /\ \A k \in 1..Len(l) : typed[k] = a[k]
      /\ typed[Len(l) + 1] = z
  BY <1>5, <1>6, <1>7, OneBehind
<1>9. \A k \in 1..Len(l) : a[k].c = l[k] /\ a[k].from = m
  BY <1>1, <1>3
<1> QED
  BY <1>1, <1>2, <1>4, <1>8, <1>9 DEF Newline

\* The first line in the input is all of it.
LEMMA FirstLineIsAll ==
  ASSUME TheInput, input # <<>>
  PROVE  /\ FirstLine = [k \in 1..(Len(input) - 1) |-> input[k].c]
         /\ Len(FirstLine) = Len(input) - 1 /\ Len(input) \in Nat \ {0}
<1>1. Len(input) \in Nat \ {0} /\ DOMAIN input = 1..Len(input)
  BY DEF TheInput
<1>2. PICK end : end = CHOOSE k \in DOMAIN input :
                         /\ input[k].c = Newline
                         /\ \A j \in 1..(k - 1) : input[j].c # Newline
  OBVIOUS
<1>3. input[Len(input)].c = Newline /\ \A j \in 1..(Len(input) - 1) : input[j].c # Newline
  <2>1. \A k \in 1..Len(input) : input[k].c = Newline <=> k = Len(input)
    BY DEF TheInput
  <2>2. Len(input) \in 1..Len(input)
    BY <1>1
  <2>3. \A j \in 1..(Len(input) - 1) : j \in 1..Len(input) /\ j # Len(input)
    <3>1. Len(input) \in Nat
      BY <1>1, Zenon
    <3> QED
      BY <3>1
  <2>4. input[Len(input)].c = Newline
    BY <2>1, <2>2, Zenon
  <2> QED
    BY <2>1, <2>3, <2>4, Zenon
<1>4. end \in DOMAIN input /\ input[end].c = Newline
  BY <1>1, <1>2, <1>3
<1>5. end = Len(input)
  BY <1>1, <1>4 DEF TheInput
<1>6. FirstLine = [k \in 1..(end - 1) |-> input[k].c]
  BY <1>2 DEF FirstLine
<1> QED
  BY <1>1, <1>5, <1>6

LEMMA InputKept == SInv /\ Next => TheInput'
<1> SUFFICES ASSUME SInv, Next PROVE TheInput'
  OBVIOUS
<1>0. TheInput /\ q.number \in Nat /\ Len(input) \in Nat
  <2>1. TheInput /\ q.number \in Nat
    BY DEF SInv, TheCounts
  <2>2. input \in Seq(Chars)
    BY <2>1 DEF TheInput
  <2> QED
    BY <2>1, <2>2
<1> DEFINE Fresh == input # <<>> /\ input[1].c \in {"y", "n", "/"}
<1>1. ASSUME UNCHANGED input, Fresh => UNCHANGED <<at, q, ui>> PROVE TheInput'
  BY <1>0, <1>1 DEF TheInput, OnInput
<1>2. CASE at # "question"
  <2>1. UNCHANGED input
    BY <1>2 DEF Next, Parse, find_basedir, kickoff_ui, PlainWord, CommandWord, SwitchWord,
         UIWord, ValueWord, UnknownWord, CommandLineEnds, serialize_header, dialog,
         PatchEnds, IgnoresNull, NeedsXdelta, Ask, manually_locate_product, Quit, Types,
         getchar, fgets, AtEOF, CarbonDialog
  <2>2. ~Fresh
    BY <1>0, <1>2 DEF TheInput
  <2> QED
    BY <1>1, <2>1, <2>2
<1>3. CASE Types
  <2>1. input = <<>> /\ at = "question" /\ OnInput /\ UNCHANGED <<at, ui, q>>
    BY <1>3 DEF Types
  <2>2. CASE UNCHANGED input
    BY <1>1, <2>1, <2>2
  <2>3. CASE \E l \in Lines : input' = Typed(l)
    <3>1. PICK l \in Lines : input' = Typed(l)
      BY <2>3
    <3>2. PICK typed : typed = Typed(l)
      OBVIOUS
    <3>3. /\ typed \in Seq(Chars) /\ Len(typed) \in Nat
          /\ \A k \in 1..Len(typed) : typed[k].c = Newline <=> k = Len(typed)
          /\ \A k \in 2..Len(typed) : typed[k].c \notin {"y", "n", "/"}
          /\ \A k \in 1..Len(typed) : typed[k].from = q.number
      BY <1>0, <3>2, TypedLine
    <3> QED
      BY <2>1, <3>1, <3>2, <3>3 DEF TheInput, OnInput
  <2> QED
    BY <1>3, <2>2, <2>3 DEF Types
<1>4. CASE getchar
  <2>1. input # <<>> /\ input' = Tail(input)
    BY <1>4 DEF getchar
  <2>2. PICK rest : rest = Tail(input)
    OBVIOUS
  <2>3. rest \in Seq(Chars) /\ Len(rest) = Len(input) - 1 /\ Len(input) >= 1
        /\ \A k \in 1..Len(rest) : rest[k] = input[k + 1]
    BY <1>0, <2>1, <2>2 DEF TheInput
  <2>4. \A k \in 1..Len(rest) : k + 1 \in 2..Len(input)
    BY <1>0, <2>3
  <2>5. /\ \A k \in 1..Len(rest) : rest[k].c = Newline <=> k = Len(rest)
        /\ \A k \in 1..Len(rest) : rest[k].c \notin {"y", "n", "/"}
    BY <1>0, <2>3, <2>4 DEF TheInput
  <2>6. rest # <<>> => rest[1].c \notin {"y", "n", "/"}
    BY <1>0, <2>3, <2>5
  <2> QED
    <3>1. input' = rest /\ Len(rest) \in Nat
      BY <2>1, <2>2, <2>3
    <3>2. \A k \in 2..Len(rest) : rest[k].c \notin {"y", "n", "/"}
      BY <2>5, <3>1
    <3> QED
      BY <2>3, <2>5, <2>6, <3>1, <3>2 DEF TheInput
<1>5. CASE fgets
  <2>1. input # <<>> /\ input' = SubSeq(input, Len(FirstLine) + 2, Len(input))
    BY <1>5 DEF fgets
  <2>2. input' = <<>>
    BY <1>0, <2>1, FirstLineIsAll DEF TheInput
  <2>3. input' \in Seq(Chars) /\ Len(input') = 0
    BY <2>2
  <2> QED
    BY <2>2, <2>3 DEF TheInput
<1>6. CASE AtEOF
  BY <1>1, <1>6 DEF AtEOF
<1>7. CASE CarbonDialog
  BY <1>0, <1>1, <1>7 DEF CarbonDialog, TheInput
<1> QED
  BY <1>2, <1>3, <1>4, <1>5, <1>6, <1>7
     DEF Next, Parse, Parsing, find_basedir, kickoff_ui, PlainWord, CommandWord, SwitchWord,
         UIWord, ValueWord, UnknownWord, CommandLineEnds, serialize_header,
         PatchEnds, IgnoresNull, NeedsXdelta, Ask, manually_locate_product, Quit

\* An answer is recorded with the question; one typed elsewhere is the default.
Recorded(says, from) ==
  /\ says \in {"yes", "no", "seen", "path", "cancelled"} /\ from \in Nat
  /\ from # q.number => says = Default(q.kind)
  /\ answers' = Append(answers, [kind |-> q.kind, number |-> q.number,
                                 says |-> says, from |-> from])

LEMMA CharSays ==
  ASSUME SInv, getchar
  PROVE  UNCHANGED answers \/ \E says, from : Recorded(says, from)
<1> DEFINE c == Head(input).c
           from == Head(input).from
           says == IF q.kind = "yn" THEN SaysYN(c)
                   ELSE IF q.kind = "ny" THEN SaysNY(c) ELSE "seen"
<1>1. /\ input # <<>> /\ input \in Seq(Chars) /\ q.number \in Nat
      /\ q.kind \in ByChar
      /\ input[1].c \in {"y", "n", "/"} =>
           \A k \in 1..Len(input) : input[k].from = q.number
  BY DEF SInv, TheInput, TheCounts, getchar
<1>2. Head(input) = input[1] /\ 1 \in 1..Len(input) /\ input[1] \in Chars
  BY <1>1
<1>3. from \in Nat /\ (c \in {"y", "n", "/"} => from = q.number)
  BY <1>1, <1>2 DEF Chars
<1>4. (says = "again" /\ UNCHANGED answers) \/ (says # "again" /\ Answer(says, from))
  BY DEF getchar, AskAgain
<1>5. says # "again" => says \in {"yes", "no", "seen"}
  BY DEF SaysYN, SaysNY
<1>6. says # "again" /\ c \notin {"y", "n", "/"} => says = Default(q.kind)
  BY <1>1 DEF SaysYN, SaysNY, Default, ByChar, Newline
<1> HIDE DEF c, from, says
<1>7. CASE says # "again" /\ Answer(says, from)
  <2>1. Recorded(says, from)
    BY <1>3, <1>5, <1>6, <1>7 DEF Recorded, Answer
  <2> QED
    BY <2>1
<1> QED
  BY <1>4, <1>7

LEMMA LineSays ==
  ASSUME SInv, fgets
  PROVE  UNCHANGED answers \/ \E says, from : Recorded(says, from)
<1> DEFINE l == FirstLine
           from == input[Len(l) + 1].from
           says == IF q.kind = "picker" THEN PickerSays(l) ELSE ConfirmSays(l)
<1>1. /\ input # <<>> /\ input \in Seq(Chars) /\ q.number \in Nat
      /\ q.kind \in ByLine /\ TheInput
      /\ input[1].c \in {"y", "n", "/"} =>
           \A k \in 1..Len(input) : input[k].from = q.number
  BY DEF SInv, TheInput, TheCounts, fgets
<1>2. Len(input) \in Nat /\ Len(input) >= 1
  BY <1>1
<1>3. /\ l = [k \in 1..(Len(input) - 1) |-> input[k].c] /\ Len(l) = Len(input) - 1
  BY <1>1, FirstLineIsAll
<1>4. Len(l) + 1 \in 1..Len(input) /\ Len(l) + 1 = Len(input)
  BY <1>2, <1>3
<1>5. input[Len(l) + 1] \in Chars
  BY <1>1, <1>4
<1>6. from \in Nat /\ (input[1].c \in {"y", "n", "/"} => from = q.number)
  BY <1>1, <1>4, <1>5 DEF Chars
<1>7. l = <<>> \/ (l[1] = input[1].c)
  <2>1. CASE Len(input) = 1
    <3>1. l = [k \in 1..0 |-> input[k].c]
      BY <1>3, <2>1
    <3> QED
      BY <3>1
  <2>2. CASE Len(input) # 1
    BY <1>2, <1>3, <2>2
  <2> QED
    BY <2>1, <2>2
<1>8. (says = "again" /\ UNCHANGED answers) \/ (says # "again" /\ Answer(says, from))
  BY DEF fgets, AskAgain
<1>9. says # "again" => says \in {"yes", "no", "path", "cancelled"}
  BY DEF PickerSays, ConfirmSays
<1>10. l # <<>> /\ l[1] \notin {"y", "n", "/"} => says = "again"
  BY DEF PickerSays, ConfirmSays
<1>11. l = <<>> => says = Default(q.kind)
  BY <1>1 DEF PickerSays, ConfirmSays, ByLine, Default
<1>12. from # q.number /\ says # "again" => says = Default(q.kind)
  BY <1>6, <1>7, <1>10, <1>11
<1> HIDE DEF l, from, says
<1>13. CASE says # "again" /\ Answer(says, from)
  <2>1. Recorded(says, from)
    BY <1>6, <1>9, <1>12, <1>13 DEF Recorded, Answer
  <2> QED
    BY <2>1
<1> QED
  BY <1>8, <1>13

LEMMA OthersSay ==
  ASSUME SInv, AtEOF \/ CarbonDialog
  PROVE  UNCHANGED answers \/ \E says, from : Recorded(says, from)
<1>1. q.number \in Nat
  BY DEF SInv, TheCounts
<1>2. UNCHANGED answers
        \/ \E says \in {"yes", "no", "seen", "path", "cancelled"} : Answer(says, q.number)
  <2>1. CASE AtEOF
    BY <2>1 DEF AtEOF
  <2>2. CASE CarbonDialog
    <3>1. PICK dlg \in Dialogs :
            LET says == IF q.kind = "yn" THEN ui_prompt_yn_carbon(dlg)
                        ELSE IF q.kind = "ny" THEN ui_prompt_ny_carbon(dlg)
                        ELSE IF q.kind = "picker" THEN ui_file_picker_carbon(dlg) ELSE "seen"
            IN Answer(says, q.number)
      BY <2>2 DEF CarbonDialog
    <3> QED
      BY <3>1 DEF ui_prompt_yn_carbon, ui_prompt_ny_carbon, ui_prompt_yes_or_no,
                  ui_file_picker_carbon
  <2> QED
    BY <2>1, <2>2
<1>3. CASE \E says \in {"yes", "no", "seen", "path", "cancelled"} : Answer(says, q.number)
  <2>1. PICK says \in {"yes", "no", "seen", "path", "cancelled"} : Answer(says, q.number)
    BY <1>3
  <2>2. Recorded(says, q.number)
    BY <1>1, <2>1 DEF Recorded, Answer
  <2> QED
    BY <2>2
<1> QED
  BY <1>2, <1>3

LEMMA AnswersKept ==
  SInv /\ Next => answers' \in Seq(Answers) /\ StrayAnswerIsDefault'
<1> SUFFICES ASSUME SInv, Next PROVE answers' \in Seq(Answers) /\ StrayAnswerIsDefault'
  OBVIOUS
<1>0. answers \in Seq(Answers) /\ StrayAnswerIsDefault
  BY DEF SInv
<1>1. CASE UNCHANGED answers
  BY <1>0, <1>1 DEF StrayAnswerIsDefault
<1>2. CASE Reads /\ \E says, from : Recorded(says, from)
  <2>1. PICK says, from : Recorded(says, from)
    BY <1>2
  <2>2. q.kind \in Asked \cup {"picker", "quit"} /\ q.number \in Nat
    BY <1>2, WhatReadsDo DEF SInv, TheCounts
  <2>3. PICK r : r = [kind |-> q.kind, number |-> q.number, says |-> says, from |-> from]
    OBVIOUS
  <2>4. r \in Answers /\ (r.from # r.number => r.says = Default(r.kind))
    BY <2>1, <2>2, <2>3 DEF Recorded, Answers
  <2>5. answers' = Append(answers, r)
    BY <2>1, <2>3 DEF Recorded
  <2>6. /\ answers' \in Seq(Answers) /\ Len(answers) \in Nat
        /\ DOMAIN answers = 1..Len(answers) /\ DOMAIN answers' = 1..(Len(answers) + 1)
        /\ \A k \in 1..Len(answers) : answers'[k] = answers[k]
        /\ answers'[Len(answers) + 1] = r
    BY <1>0, <2>4, <2>5, AppendProperties
  <2>7. ASSUME NEW k \in DOMAIN answers', answers'[k].from # answers'[k].number
        PROVE  answers'[k].says = Default(answers'[k].kind)
    <3>1. CASE k \in 1..Len(answers)
      BY <1>0, <2>6, <2>7, <3>1 DEF StrayAnswerIsDefault
    <3>2. CASE k = Len(answers) + 1
      BY <2>4, <2>6, <2>7, <3>2
    <3> QED
      BY <2>6, <3>1, <3>2
  <2> QED
    BY <2>6, <2>7 DEF StrayAnswerIsDefault, Default
<1> QED
  BY <1>1, <1>2, DialogStays, CharSays, LineSays, OthersSay
     DEF Reads, Ask, manually_locate_product, Quit, Types, dialog

-----------------------------------------------------------------------------
(* The theorems.                                                           *)

LEMMA SInvKept == SInv /\ [Next]_svars => SInv'
<1> SUFFICES ASSUME SInv, [Next]_svars PROVE SInv'
  OBVIOUS
<1>1. CASE Next
  BY <1>1, WordsKept, BaseKept, CountsKept, DriverKept, KickoffKept, NamedKept, CommandKept,
     HeaderKept, IgnoredKept, CrashKept, InputKept, AnswersKept DEF SInv
<1>2. CASE UNCHANGED svars
  <2>1. SInv /\ UNCHANGED <<words, i, at, ui, spoke, options, headers, dialog>>
    BY <1>2 DEF svars, words, options, headers, dialog
  <2>2. (BaseDirs = BaseDirs' \/ at = "basedir") /\ TheWords' /\ TheBase'
    BY <2>1 DEF SInv, words, TheWords, TheBase, BaseDirs, Hits, Searched
  <2>3. Working' = Working
    BY <2>1 DEF dialog, Working, InQuestion
  <2>4. TheCounts' /\ TheDriver'
    BY <2>1, <2>3 DEF SInv, words, options, headers, dialog, TheCounts, TheDriver, InQuestion
  <2>5. TheKickoff' /\ TheNamed'
    BY <2>1, <2>3 DEF SInv, words, options, TheKickoff, TheNamed, FirstUI, NoUI, OwnUI,
                      ui_init, Word
  <2>6. TheCommand' /\ TheHeader' /\ TheIgnored'
    BY <2>1, <2>3 DEF SInv, words, options, headers, TheCommand, TheHeader, TheIgnored
  <2>7. TheInput'
    BY <2>1 DEF SInv, dialog, TheInput, OnInput
  <2>8. /\ answers' \in Seq(Answers) /\ StrayAnswerIsDefault' /\ CrashOnlyForMissingValue'
    BY <2>1 DEF SInv, words, dialog, Hits, StrayAnswerIsDefault, CrashOnlyForMissingValue
  <2> QED
    BY <2>2, <2>4, <2>5, <2>6, <2>7, <2>8 DEF SInv
<1> QED
  BY <1>1, <1>2

LEMMA SInvHolds == Spec => []SInv
<1>1. Init => SInv
  BY SInit
<1>2. SInv /\ [Next]_svars => SInv'
  BY SInvKept
<1> QED
  BY <1>1, <1>2, PTL DEF Spec

\* Every command line is obeyed as it was meant: no user interface call is made
\* before ui_init has found a driver or after ui_deinit, the driver named first
\* with --ui is the one that runs although two loops read the words, an archive is
\* only written when --create asked for it, and the overrides stand in the first
\* header and in no other.
THEOREM ToldIsDone == Spec => []DoesAsTold
<1>1. ASSUME SInv PROVE DoesAsTold
  <2>0. /\ Len(argv) \in Nat /\ argc \in 1..Len(argv) /\ TheCounts /\ TheWords
        /\ TheDriver /\ TheKickoff /\ TheNamed /\ TheCommand /\ TheHeader
    BY <1>1 DEF SInv, TheWords
  <2>1. TypeOK
    <3>1. q.number <= MaxQuestions + 2
      BY <2>0, BoundsAssumption DEF TheCounts
    <3> QED
      BY <2>0, <3>1 DEF TypeOK, TheCounts, TheDriver, Places
  <2>2. NoCallWithoutDriver
    BY <2>0 DEF NoCallWithoutDriver, TheDriver, TheWords
  <2>3. DriverIsTheNamed
    <3> SUFFICES ASSUME at \in {"header", "work"}, OwnUI
                 PROVE  ui = IF named \in drivers THEN named
                             ELSE IF "carbon" \in drivers THEN "carbon" ELSE "stdio"
      BY DEF DriverIsTheNamed, OwnUI
    <3>1. Working
      BY DEF Working
    <3>2. i > argc /\ i \in Nat /\ argc \in Nat
      BY <2>0, <3>1 DEF TheNamed, TheCounts
    <3>3. ui = ui_init(named) \/ (named = None /\ ui = ui_init(NULL))
      <4>1. CASE NoUI(argc + 1) /\ ui = ui_init(NULL)
        <5>1. ~\E f \in 2..argc : FirstUI(f)
          BY <3>2, <4>1 DEF NoUI, FirstUI
        <5> QED
          BY <2>0, <3>1, <4>1, <5>1 DEF TheNamed
      <4>2. CASE \E f \in 2..argc : FirstUI(f) /\ ui = ui_init(Word(f + 1))
        <5>1. PICK f \in 2..argc : FirstUI(f) /\ ui = ui_init(Word(f + 1))
          BY <4>2
        <5>2. ~NoUI(i)
          BY <3>2, <5>1 DEF NoUI, FirstUI
        <5>3. PICK g \in 2..argc : FirstUI(g) /\ named = Word(g + 1)
          BY <2>0, <3>1, <5>2 DEF TheNamed
        <5>4. f = g
          BY <5>1, <5>3 DEF FirstUI
        <5> QED
          BY <5>1, <5>3, <5>4
      <4> QED
        BY <2>0, <3>1, <4>1, <4>2 DEF TheKickoff
    <3> QED
      BY <2>0, <3>3 DEF ui_init, TheWords, NULL, None
  <2>4. CreatesOnlyWhenAsked
    <3> SUFFICES ASSUME at = "work", command = "create"
                 PROVE  /\ "--create" \in Range(argv) /\ Len(plain) = 3
                        /\ ~\E j \in 2..Len(argv) :
                              argv[j] = "--info" /\ argv[j - 1] \notin Valued \cup {"--ui"}
      BY DEF CreatesOnlyWhenAsked
    <3>1. Working
      BY DEF Working
    <3>2. i > argc /\ i \in Nat /\ (argc = Len(argv) \/ Len(argv) = 2)
      BY <2>0, <3>1 DEF TheNamed, TheCounts, TheKickoff
    <3>3. \E j \in 1..Len(argv) : argv[j] = "--create"
      BY <2>0 DEF TheCommand
    <3>4. "--create" \in Range(argv)
      BY <2>0, <3>3 DEF Range, TheWords
    <3>5. Len(plain) = 3
      BY <2>0, <3>1 DEF TheCommand
    <3>6. ASSUME NEW j \in 2..Len(argv),
                 argv[j] = "--info", argv[j - 1] \notin Valued \cup {"--ui"}
          PROVE  FALSE
      <4>1. argc = Len(argv)
        BY <2>0, <3>2, <3>6 DEF TheWords, NULL
      <4>2. j < i
        BY <2>0, <3>2, <4>1
      <4> QED
        BY <2>0, <3>1, <3>6, <4>2 DEF TheCommand
    <3> QED
      BY <3>4, <3>5, <3>6
  <2>5. HeaderNotLeftOver
    BY <2>0 DEF HeaderNotLeftOver, TheHeader, Working
  <2> QED
    BY <2>1, <2>2, <2>3, <2>4, <2>5 DEF DoesAsTold
<1> QED
  BY <1>1, SInvHolds, PTL

\* The program dies of the way it was called only when the last option lacks its
\* value, when the Finder's argument is followed by others, or when it was called by
\* its bare name and PATH does not lead to it: strcmp and strlen meet no other NULL.
THEOREM CrashesAreTheCallers == Spec => []CrashOnlyForMissingValue
<1>1. SInv => CrashOnlyForMissingValue
  BY DEF SInv
<1> QED
  BY <1>1, SInvHolds, PTL

\* The xdelta that is run lies beside the program that the shell has found, whatever
\* PATH is, but for an empty entry before.
THEOREM XdeltaIsOurs == Spec => []XdeltaIsBeside
<1>1. ASSUME SInv, at = "work", basedir # NULL
      PROVE  \/ argv[1] = "./mojopatch" /\ basedir = "."
             \/ argv[1] = "mojopatch" /\ Hits = {}
             \/ \E k \in DOMAIN env.path :
                  /\ \A j \in 1..(k - 1) : env.path[j] \notin env.has
                  /\ env.path[k] \in {"", basedir}
  <2>1. basedir \in BaseDirs /\ argv[1] \in {"./mojopatch", "mojopatch"}
    BY <1>1 DEF SInv, TheBase, TheWords
  <2>2. CASE argv[1] = "./mojopatch"
    BY <2>1, <2>2 DEF BaseDirs
  <2>3. CASE argv[1] = "mojopatch" /\ Hits # {}
    <3>1. PICK k \in Hits : Searched = env.path[k] /\ \A j \in Hits : k <= j
      BY <1>1, <2>3, SearchedIsFirst
    <3>2. env.path # <<"unset">> /\ env.path # <<>>
      <4>1. env.path[k] \in env.has /\ k \in DOMAIN env.path /\ "unset" \notin env.has
        BY <1>1, <3>1 DEF Hits, SInv, TheBase
      <4>2. ASSUME env.path = <<"unset">> PROVE FALSE
        <5>1. \A m \in DOMAIN env.path : env.path[m] = "unset"
          BY <4>2
        <5> QED
          BY <4>1, <5>1
      <4>3. ASSUME env.path = <<>> PROVE FALSE
        <5>1. DOMAIN env.path = {}
          BY <4>3
        <5> QED
          BY <4>1, <5>1
      <4> QED
        BY <4>2, <4>3
    <3>3. basedir = env.path[k]
      BY <2>1, <2>3, <3>1, <3>2 DEF BaseDirs
    <3> DEFINE Shell == {m \in DOMAIN env.path : env.path[m] \in env.has}
    <3>4. DOMAIN env.path = 1..Len(env.path) /\ Len(env.path) \in Nat
      BY <1>1 DEF SInv, TheBase
    <3>5. Shell \in SUBSET Nat /\ Shell # {}
      <4>1. DOMAIN env.path \subseteq Nat
        BY <3>4
      <4>2. k \in Shell
        BY <3>1 DEF Hits
      <4> QED
        BY <4>1, <4>2
    <3> HIDE DEF Shell
    <3>6. PICK m \in Shell : \A j \in Shell : m <= j
      BY <3>5, HasLeast
    <3>7. m \in DOMAIN env.path /\ \A j \in 1..(m - 1) : env.path[j] \notin env.has
      <4>1. m \in DOMAIN env.path /\ m \in 1..Len(env.path)
        BY <3>4, <3>6 DEF Shell
      <4>2. ASSUME NEW j \in 1..(m - 1) PROVE env.path[j] \notin env.has
        <5>1. j \in 1..Len(env.path) /\ ~(m <= j)
          BY <3>4, <4>1, <4>2
        <5>2. j \notin Shell
          BY <3>6, <5>1, Zenon
        <5> QED
          BY <3>4, <5>1, <5>2 DEF Shell
      <4> QED
        BY <4>1, <4>2
    <3>8. env.path[m] = "" \/ m = k
      <4>1. ASSUME env.path[m] # "" PROVE m = k
        <5>1. m \in Hits
          BY <3>6, <4>1 DEF Shell, Hits
        <5>2. k \in Shell
          BY <3>1 DEF Shell, Hits
        <5>3. m <= k /\ k <= m
          BY <3>1, <3>6, <5>1, <5>2, Zenon
        <5>4. m \in Nat /\ k \in Nat
          BY <3>5, <3>6, <5>2
        <5> QED
          BY <5>3, <5>4
      <4> QED
        BY <4>1
    <3> QED
      BY <3>3, <3>7, <3>8
  <2> QED
    BY <2>1, <2>2, <2>3
<1>2. SInv => XdeltaIsBeside
  BY <1>1 DEF XdeltaIsBeside
<1> QED
  BY <1>2, SInvHolds, PTL

\* Of a user whose lines have an answer only in their first letter, what getchar
\* leaves in the input answers no later question but with its default: never with
\* the yes that ui_prompt_ny waits for.
THEOREM StrayIsHarmless == Spec => []StrayAnswerIsDefault
<1>1. SInv => StrayAnswerIsDefault
  BY DEF SInv
<1> QED
  BY <1>1, SInvHolds, PTL
=============================================================================
