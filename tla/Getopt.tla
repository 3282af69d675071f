------------------------------- MODULE Getopt -------------------------------
(***************************************************************************)
(* getopt.c, with which xdelta reads the command lines MojoPatch makes for *)
(* it: what one call of getopt_long takes from the words, and where it     *)
(* leaves off.  MojoPatch does not look at the names it puts there.        *)
(*                                                                         *)
(* A word is its dashes, the symbols behind them, and for a long option    *)
(* with "=" the value.                                                     *)
(***************************************************************************)
EXTENDS Integers, Sequences, FiniteSets, SequencesExt, TLC

Arg(dash, text) == [dash |-> dash, text |-> text, eq |-> FALSE, value |-> << >>]
Named(file) == Arg("", <<file>>)
Short(letters) == Arg("-", letters)
Long(name) == Arg("--", <<name>>)
LongWith(name, value) == [Long(name) EXCEPT !.eq = TRUE, !.value = value]
EndMark == Arg("--", << >>)

\* What a word is as the argument of an option.
Text(word) == IF word.dash = "" THEN word.text ELSE <<word.dash>> \o word.text

\* The letters of optstring and the long options, each with its letter.
Digits == {"0", "1", "2", "3", "4", "5", "6", "7", "8", "9"}
Letters == {"n", "q", "p", "h", "v", "V", "s", "m"} \cup Digits
long_options == [help |-> "h", version |-> "v", verbose |-> "V", noverify |-> "n",
                 pristine |-> "p", quiet |-> "q", maxmem |-> "m", blocksize |-> "s"]
TakesArg == {"s", "m"}

\* The abbreviations that anybody writes, and what they may stand for.
Abbreviated == "ver" :> {"version", "verbose"} @@ "nov" :> {"noverify"} @@ "max" :> {"maxmem"}
StandsFor(name) ==
    IF name \in DOMAIN long_options THEN {name}     \* an exact match ends the search
    ELSE IF name \in DOMAIN Abbreviated THEN Abbreviated[name] ELSE {}

\* argv without the command; optind counts from 1 in both.  next is what is left
\* of a word of short options.
getopt_start(argv) == [argv |-> argv, optind |-> 1, next |-> << >>, first |-> 1, last |-> 1]
argc(g) == Len(g.argv) + 1

\* Slip: no "+" in optstring, options are looked for behind the names as well.
Permutes == TRUE
\* _getopt_initialize: the "+" means REQUIRE_ORDER.
PERMUTE == FALSE

\* The names that were skipped go behind the options that followed them.
exchange(g) ==
    [g EXCEPT !.argv = SubSeq(@, 1, g.first - 1) \o SubSeq(@, g.last, g.optind - 1)
                         \o SubSeq(@, g.first, g.last - 1) \o SubSeq(@, g.optind, Len(@)),
              !.first = @ + (g.optind - g.last),
              !.last = g.optind]

\* Options have been taken behind the names between first and last.
Parted(g) == g.first # g.last /\ g.last # g.optind

SkipNames(g) ==
    LET e == IF Parted(g) THEN exchange(g)
             ELSE IF g.last # g.optind THEN [g EXCEPT !.first = g.optind] ELSE g
        n == CHOOSE k \in e.optind..argc(e) :
               /\ k = argc(e) \/ e.argv[k].dash # ""
               /\ \A j \in e.optind..(k - 1) : e.argv[j].dash = ""
    IN  [e EXCEPT !.optind = n, !.last = n]

\* "--" ends the options: all that is behind it are names.
SkipEndMark(g) ==
    LET a == [g EXCEPT !.optind = @ + 1]
        b == IF Parted(a) THEN exchange(a)
             ELSE IF a.first = a.last THEN [a EXCEPT !.first = a.optind] ELSE a
    IN  IF g.optind # argc(g) /\ g.argv[g.optind] = EndMark
        THEN [b EXCEPT !.last = argc(b), !.optind = argc(b)] ELSE g

\* The next word, if the last one has been used up.
NextWord(g) == IF g.next # << >> THEN g
               ELSE SkipEndMark(IF PERMUTE THEN SkipNames(g) ELSE g)

Result(g, c, arg) == [g |-> g, c |-> c, arg |-> arg]
NoArg == << >>

\* An option that needs an argument finds it in its word, or else in the next.
FromNextWord(g, c) ==
    IF g.optind < argc(g)
    THEN Result([g EXCEPT !.optind = @ + 1], c, Text(g.argv[g.optind]))
    ELSE Result(g, "?", NoArg)

LongOption(g) ==
    LET word == g.argv[g.optind]
        found == StandsFor(word.text[1])
        c == long_options[CHOOSE name \in found : TRUE]
        taken == [g EXCEPT !.optind = @ + 1]
    IN  IF Cardinality(found) # 1 THEN Result(taken, "?", NoArg)
        ELSE IF word.eq
             THEN Result(taken, IF c \in TakesArg THEN c ELSE "?", word.value)
        ELSE IF c \in TakesArg THEN FromNextWord(taken, c)
        ELSE Result(taken, c, NoArg)

\* optind goes on with the last letter of a word.
ShortOption(g, letters) ==
    LET c == Head(letters)
        rest == Tail(letters)
        taken == [g EXCEPT !.next = rest, !.optind = IF rest = << >> THEN @ + 1 ELSE @]
    IN  IF c \notin Letters THEN Result(taken, "?", NoArg)
        ELSE IF c \notin TakesArg THEN Result(taken, c, NoArg)
        ELSE IF rest # << >>
             THEN Result([g EXCEPT !.next = << >>, !.optind = @ + 1], c, rest)
        ELSE FromNextWord(taken, c)

\* At the end optind is that of the first name.
_getopt_internal(g0) ==
    LET g == NextWord(g0)
        word == g.argv[g.optind]
    IN  IF g.next # << >> THEN ShortOption(g, g.next)
        ELSE IF g.optind = argc(g)
             THEN Result([g EXCEPT !.optind = IF g.first # g.last THEN g.first ELSE @],
                         "EOF", NoArg)
        ELSE IF word.dash = "" THEN Result(g, "EOF", NoArg)
        ELSE IF word.dash = "--" THEN LongOption(g)
        ELSE ShortOption(g, word.text)

Names(g) == SubSeq(g.argv, g.optind, Len(g.argv))
=============================================================================
