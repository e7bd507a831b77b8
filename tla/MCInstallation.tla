--------------------------- MODULE MCInstallation ---------------------------
(* Two agents, one framework, and a team that registers checks of its own,   *)
(* one of them under the id of the framework's.                              *)
EXTENDS Installation

CONSTANTS claude, codex, openspec, plain, team, template, workflow, old, new

MCChecksOf == [o \in {openspec, team} |-> IF o = team THEN {1, 2} ELSE {1}]

Quiet == [fresh |-> FALSE, found |-> {}, saves |-> {}, cmds |-> {}, length |-> 3,
          together |-> FALSE, faulty |-> FALSE, moves |-> FALSE,
          integrations |-> {<<>>}, setups |-> {FALSE}]
Both(n) == {<<"install", n>>, <<"uninstall", n>>}

\* One agent's settings under overlapping commands, then with its user and
\* moves of keepsail; adapters that come and go; commands that are cut short;
\* checks of several providers; GitHub files beside their user
MCAgendas ==
  {[Quiet EXCEPT !.cmds = {<<"install", claude>>},
                 !.together = TRUE, !.faulty = TRUE],
   [Quiet EXCEPT !.cmds = Both(claude) \cup {<<"init", TRUE>>}, !.length = 2,
                 !.found = {claude}, !.saves = {claude}, !.together = TRUE,
                 !.integrations = {<<claude>>}],
   [Quiet EXCEPT !.cmds = Both(claude) \cup {<<"init", TRUE>>}, !.found = {claude},
                 !.moves = TRUE, !.integrations = {<<claude>>}],
   [Quiet EXCEPT !.cmds = {<<"install", codex>>, <<"install", openspec>>,
                           <<"sync", "agents_md">>, <<"sync", "gitignore">>,
                           <<"init", FALSE>>}, !.fresh = TRUE],
   [Quiet EXCEPT !.cmds = Both(claude), !.saves = {claude}, !.moves = TRUE],
   [Quiet EXCEPT !.cmds = Both(claude) \cup Both(codex) \cup Both(openspec)
                            \cup {<<"sync", "full">>, <<"sync", codex>>, <<"init", FALSE>>},
                 !.fresh = TRUE, !.length = 4],
   [Quiet EXCEPT !.cmds = Both(claude) \cup {<<"init", FALSE>>, <<"init", TRUE>>},
                 !.fresh = TRUE, !.found = {codex}, !.faulty = TRUE,
                 !.integrations = {<<claude, codex>>}],
   [Quiet EXCEPT !.cmds = Both(openspec) \cup {<<"provide", team>>,
                             <<"provide", openspec>>, <<"init", TRUE>>},
                 !.faulty = TRUE, !.length = 4],
   [Quiet EXCEPT !.cmds = {<<"init", TRUE>>}, !.setups = {TRUE}, !.length = 2,
                 !.found = {template}, !.saves = {template, workflow}]}
=============================================================================
