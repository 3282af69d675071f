----------------------------- MODULE MCStartup -----------------------------
(* Command lines that meet in every pair of options that interact, the ways   *)
(* of PATH to the program, and the lines somebody types at a question.        *)
EXTENDS Startup

M == <<"./mojopatch">>
Questions == M \o <<"--confirm", "p">>
MCCommandLines ==
  { M, M \o <<"p">>, Questions, M \o <<"--info", "p">>,
    M \o <<"--create", "p", "old", "new">>, M \o <<"--create", "--info", "p">>,
    M \o <<"--info", "--create", "p", "old", "new">>, M \o <<"--create", "p">>,
    M \o <<"--ui", "stdio", "p">>, M \o <<"p", "--ui", "carbon">>,
    M \o <<"--ui", "bogus", "p">>, M \o <<"p", "--ui">>, M \o <<"--ui">>,
    M \o <<"--product", "--ui", "p">>,
    M \o <<"--create", "--ui", "--info", "p", "old", "new">>, M \o <<"--ui", "bogus", "--ui", "stdio", "p">>,
    M \o <<"--version", "9", "p">>, M \o <<"p", "--version">>,
    M \o <<"--zliblevel", "99", "p">>, M \o <<"p", "--zliblevel">>,
    M \o <<"p", "--ignore">>, M \o <<"--ignore", "x", "p">>,
    M \o <<"--replace", "--nonsense", "p">>, M \o <<"--append", "--", "p">>, M \o <<"-", "x">>,
    M \o <<"--newversion", "--create", "p">>, M \o <<"p", "--readme">>,
    M \o <<"-psn_1">>, M \o <<"-psn_1", "p">> }
MCPaths ==
  [path : { <<"unset">>, <<>>, <<"usr">>, <<"usr", "opt">>, <<"opt", "usr">>,
            <<"usr", "">>, <<"", "usr">> },
   has : { {"usr"}, {"opt", "usr"}, {""} }]
MCCalls ==
  [argv : MCCommandLines, env : {[path |-> <<"usr">>, has |-> {}]}]
    \cup [argv : { <<"mojopatch", "p">>, <<"mojopatch", "-psn_1">> }, env : MCPaths]
MCArchives == { <<"1", "2">>, <<"", "3">> }
MCLines == { <<>>, <<"y">>, <<"n">>, <<"y", "e", "s">>, <<"n", "o">>,
             <<"/">>, <<"/", "x">> }
=============================================================================
