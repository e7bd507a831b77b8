---------------------------- MODULE Installation ----------------------------
(***************************************************************************)
(* What the commands that set keepsail up leave behind in a workspace      *)
(* (cli/init.py, cli/adapter.py, cli/sync.py, cli/verification.py): the    *)
(* list of installed adapters, the checks they provide, the hooks in the   *)
(* agents' settings, the section of AGENTS.md, and the GitHub files.       *)
(*                                                                         *)
(* Every command is a list of steps, each of which writes one file; there  *)
(* is no rollback.  A step that adds hooks is a transaction of             *)
(* SettingsMerge.  What sections and blocks say is left out: a block is    *)
(* the name of its adapter.                                                *)
(***************************************************************************)
EXTENDS SettingsMerge, SequencesExt

CONSTANTS
  Frameworks,   \* framework adapters other than plain
  Plain,
  ChecksOf,     \* provider -> ids of the checks it provides
  Template,     \* the pull request template
  Workflow,     \* the workflow
  Agendas       \* what may happen in one run: see agenda

ASSUME AdapterAssumption ==
  /\ Plain \notin Agents \cup Frameworks
  /\ Agents \cap Frameworks = {}
  /\ IsFiniteSet(Agents) /\ IsFiniteSet(Frameworks)
  /\ Frameworks \subseteq DOMAIN ChecksOf
ASSUME BinaryAssumption == Binaries # {}
ASSUME PidAssumption == Pids \subseteq Nat
ASSUME AgendaAssumption ==
  \A g \in Agendas : /\ g.integrations \subseteq Seq(Agents)
                      /\ g.setups \subseteq BOOLEAN

VARIABLES
  agenda,    \* whether the workspace is fresh, the files the user has there
             \* (found) and saves (saves), the commands that may be run (cmds),
             \* how many (length) and whether they may overlap (together),
             \* whether things fail (faulty) and keepsail is moved (moves), and
             \* what init may be asked for (integrations, setups)
  harness,   \* .harness: "absent", "partial" without events.jsonl, "ready"
  registry,  \* adapters.yaml
  checks,    \* verification.yaml: check id -> its provider
  doc,       \* AGENTS.md
  ignored,   \* whether .gitignore has the block
  github,    \* the GitHub files
  binary,    \* where keepsail is on PATH
  job,       \* process -> the command it runs
  cut        \* agents whose hooks are gone with their entry still there

installVars == <<agenda, harness, registry, checks, doc, ignored, github,
                 binary, job, cut>>
vars == <<settingsVars, installVars>>
filesVars == <<harness, registry, checks, doc, ignored, github, cut>>

Adapters == Agents \cup Frameworks \cup {Plain}
GithubFiles == {Template, Workflow}
CheckIds == UNION {ChecksOf[o] : o \in DOMAIN ChecksOf}
Rows == [CheckIds -> DOMAIN ChecksOf \cup {None}]
Docs == [file : BOOLEAN, section : BOOLEAN, slot : BOOLEAN, anchor : BOOLEAN,
         blocks : SUBSET Adapters]
Steps ==
  {<<"scaffold">>, <<"events">>, <<"section">>, <<"reinject">>, <<"gitignore">>}
    \cup ({"skeleton"} \X BOOLEAN) \cup ({"hook", "unhook"} \X Agents)
    \cup ({"register", "unregister", "inject", "evict"} \X Adapters)
    \cup ({"check", "uncheck"} \X DOMAIN ChecksOf)
    \cup ({"github"} \X GithubFiles)
Texts == [text : 0..Saves, block : BOOLEAN]
Bundled == [text |-> 0, block |-> TRUE]
NoDoc == [file |-> FALSE, section |-> FALSE, slot |-> FALSE, anchor |-> FALSE,
          blocks |-> {}]
NoJob == [at |-> "new", cmd |-> None, todo |-> <<>>, buffer |-> <<>>,
          plans |-> None, pinned |-> None, decided |-> None]

TypeOK ==
  /\ SettingsTypeOK
  /\ agenda \in Agendas
  /\ harness \in {"absent", "partial", "ready"}
  /\ registry \subseteq Adapters
  /\ checks \in Rows
  /\ doc \in Docs
  /\ ignored \in BOOLEAN
  /\ github \in [GithubFiles -> Texts \cup {None}]
  /\ binary \in Binaries
  /\ \A p \in Pids : /\ job[p].at \in {"new", "running", "done", "failed"}
                      /\ job[p].todo \in Seq(Steps)
  /\ cut \subseteq Agents

\* A fresh workspace, or one that an init without integrations has set up.
Init ==
  /\ SettingsInit
  /\ agenda \in Agendas
  /\ \A a \in Agents : settings[a] # None <=> a \in agenda.found
  /\ harness = IF agenda.fresh THEN "absent" ELSE "ready"
  /\ registry = {}
  /\ checks = [i \in CheckIds |-> None]
  /\ doc = IF agenda.fresh
             THEN [NoDoc EXCEPT !.file = agenda.found # {}]
             ELSE [file |-> TRUE, section |-> TRUE, slot |-> FALSE,
                   anchor |-> TRUE, blocks |-> {Plain}]
  /\ ignored = ~agenda.fresh
  /\ github = [f \in GithubFiles |->
                 IF f \in agenda.found THEN [text |-> 1, block |-> FALSE]
                                       ELSE None]
  /\ binary = CHOOSE b \in Binaries : TRUE
  /\ job = [p \in Pids |-> NoJob]
  /\ cut = {}

-----------------------------------------------------------------------------
\* AGENTS.md (engineering/agents_md.py)

Kind(n) == IF n \in Agents THEN Agents ELSE Frameworks \cup {Plain}

\* The placeholder of a fresh section is replaced; a block that is there is
\* replaced; otherwise the block goes behind the last one of its kind.  Where
\* there is none, nothing happens.
Injected(d, n) ==
  CASE n \notin Agents /\ d.slot
         -> [d EXCEPT !.slot = FALSE, !.blocks = @ \cup {n}]
    [] n \in Agents /\ d.anchor
         -> [d EXCEPT !.anchor = FALSE, !.blocks = @ \cup {n}]
    [] OTHER
         -> IF d.blocks \cap Kind(n) = {} THEN d
            ELSE [d EXCEPT !.blocks = @ \cup {n}]

\* A bug: the anchor does not come back with the last agent's removal.
EvictedForGood(d, n) == [d EXCEPT !.blocks = @ \ {n}]

\* remove_subsection: the anchor comes back with the last agent's removal.
Evicted(d, n) ==
  [d EXCEPT !.blocks = @ \ {n},
            !.anchor = @ \/ (n \in d.blocks /\ d.blocks \cap Agents = {n})]

\* inject_section replaces the whole section by the template.
Sectioned(d) == [file |-> TRUE, section |-> TRUE, slot |-> TRUE, anchor |-> TRUE,
                 blocks |-> {}]

\* load_adapters: the frameworks listed (plain's block is never left to the
\* list), then the agents.
Loaded == SetToSeq(registry \cap Frameworks) \o SetToSeq(registry \cap Agents)

\* sync --check renders into a copy of AGENTS.md and compares.
InSync ==
  doc = FoldLeft(Injected, Sectioned(doc), <<Plain>> \o Loaded) /\ ignored

-----------------------------------------------------------------------------
\* The steps of each command

Reg(n) == <<"register", n>>
RenderSteps == <<<<"section">>, <<"inject", Plain>>, <<"reinject">>>>

\* A bug: the entry is written before the hooks.
RegisterFirst(n) ==
  CASE n \in Agents -> <<Reg(n), <<"hook", n>>, <<"inject", n>>>>
    [] n \in Frameworks -> <<<<"check", n>>, Reg(n), <<"inject", n>>,
                             <<"evict", Plain>>>>
    [] n = Plain -> <<Reg(n), <<"inject", n>>>>

\* adapter_install: hooks before the entry, so that a failure leaves no entry;
\* the framework's block before plain's is taken away.
InstallSteps(n) ==
  CASE n \in Agents -> <<<<"hook", n>>, Reg(n), <<"inject", n>>>>
    [] n \in Frameworks -> <<<<"check", n>>, Reg(n), <<"inject", n>>,
                             <<"evict", Plain>>>>
    [] n = Plain -> <<Reg(n), <<"inject", n>>>>

\* adapter_uninstall: the entry goes when the hooks are gone.
UninstallSteps(n) ==
  CASE n \in Agents -> <<<<"unhook", n>>, <<"unregister", n>>, <<"evict", n>>>>
    [] n \in Frameworks -> <<<<"unregister", n>>, <<"uncheck", n>>, <<"evict", n>>>>
    [] n = Plain -> <<<<"unregister", n>>, <<"evict", n>>>>

\* sync, by what it is to refresh
SyncSteps ==
  [full |-> RenderSteps \o <<<<"gitignore">>>>,
   agents_md |-> RenderSteps,
   gitignore |-> <<<<"gitignore">>>>]

\* The hooks of each agent asked for, then its entry.
HookSteps(integrations) ==
  [i \in 1..(2 * Len(integrations)) |->
     IF i % 2 = 1 THEN <<"hook", integrations[(i + 1) \div 2]>>
                  ELSE Reg(integrations[i \div 2])]

\* InitOperations.ordered
InitSteps(force, integrations, setup) ==
  <<<<"scaffold">>, <<"events">>, <<"skeleton", force>>>>
    \o HookSteps(integrations)
    \o RenderSteps \o <<<<"gitignore">>>>
    \o (IF setup THEN <<<<"github", Template>>, <<"github", Workflow>>>>
                 ELSE <<>>)

-----------------------------------------------------------------------------
\* Commands begin

Running(p) == job[p].at = "running"

Turn(p) ==
  /\ job[p].at = "new"
  /\ p <= agenda.length
  /\ \A q \in Pids : q < p => /\ job[q].at # "new"
                              /\ agenda.together \/ ~Running(q)

Started(p, cmd, todo) ==
  job' = [job EXCEPT ![p].at = "running", ![p].cmd = cmd, ![p].todo = todo]

Begin(p, cmd, todo) ==
  /\ Turn(p) /\ harness # "absent"
  /\ Started(p, cmd, todo)
  /\ UNCHANGED <<settingsVars, agenda, filesVars, binary>>

InstallCommand(p) ==
  \E n \in Adapters : <<"install", n>> \in agenda.cmds
                      /\ Begin(p, "install", InstallSteps(n))

UninstallCommand(p) ==
  \E n \in registry : <<"uninstall", n>> \in agenda.cmds
                      /\ Begin(p, "uninstall", UninstallSteps(n))

\* verification register, for an adapter or under any other name
RegisterChecks(p) ==
  \E o \in DOMAIN ChecksOf : <<"provide", o>> \in agenda.cmds
                             /\ Begin(p, "provide", <<<<"check", o>>>>)

\* All of what is managed, or one of the two files, or one adapter's block.
SyncCommand(p) ==
  \/ \E scope \in DOMAIN SyncSteps : <<"sync", scope>> \in agenda.cmds
                                     /\ Begin(p, scope, SyncSteps[scope])
  \/ \E n \in registry : <<"sync", n>> \in agenda.cmds
                         /\ Begin(p, "sync one", <<<<"inject", n>>>>)

\* What is to be done about a GitHub file: decided at once when it is missing,
\* as bundled, or (the template) configured; otherwise by the user.
Decisions(f, file) ==
  CASE file = None -> {"create"}
    [] file = Bundled \/ (f = Template /\ file # None /\ file.block) -> {"keep"}
    [] OTHER -> {"keep", IF f = Template THEN "append" ELSE "overwrite"}

\* The plans for the GitHub files that the user's answers can lead to.
GithubPlans ==
  LET answers == {w \in [GithubFiles -> {"create", "keep", "append", "overwrite"}] :
                    \A f \in GithubFiles : w[f] \in Decisions(f, github[f])}
  IN  {[f \in GithubFiles |-> [way |-> w[f], seen |-> github[f]]] : w \in answers}

\* Without force only a workspace without .harness is set up, and settings
\* that cannot be read leave an agent that was asked for without a plan.
Plannable(force, integrations) ==
  /\ harness = "absent" \/ force
  /\ \A i \in DOMAIN integrations : settings[integrations[i]] # Torn

\* init: everything is inspected and decided before the first write.
InitCommand(p) ==
  /\ Turn(p)
  /\ \E force \in BOOLEAN, integrations \in agenda.integrations,
        setup \in agenda.setups :
       /\ <<"init", force>> \in agenda.cmds
       /\ Plannable(force, integrations)
       /\ \E plan \in IF setup THEN GithubPlans ELSE {None} :
            job' = [job EXCEPT ![p] =
              [at |-> "running", cmd |-> "init",
               todo |-> InitSteps(force, integrations, setup), buffer |-> <<>>,
               plans |-> settings, pinned |-> binary, decided |-> plan]]
  /\ UNCHANGED <<settingsVars, agenda, filesVars, binary>>

-----------------------------------------------------------------------------
\* Commands go on

Next1(p) == Head(job[p].todo)
At(p, step) == Running(p) /\ job[p].todo # <<>> /\ Next1(p)[1] = step
Name(p) == Next1(p)[2]
Pop(p) == job' = [job EXCEPT ![p].todo = Tail(@)]
Stop(p, how) == job' = [job EXCEPT ![p] = [NoJob EXCEPT !.at = how]]
Fail(p) == Stop(p, "failed")
Lift == UNCHANGED <<settingsVars, agenda, binary>>

Scaffold(p) ==
  /\ At(p, "scaffold") /\ Pop(p)
  /\ harness' = IF harness = "absent" THEN "partial" ELSE harness
  /\ Lift /\ UNCHANGED <<registry, checks, doc, ignored, github, cut>>

TouchEvents(p) ==
  /\ At(p, "events") /\ Pop(p)
  /\ harness' = "ready"
  /\ Lift /\ UNCHANGED <<registry, checks, doc, ignored, github, cut>>

\* The skeleton of verification.yaml has no adapter's checks; only --force
\* puts it in the place of a file that exists.
Skeleton(p) ==
  /\ At(p, "skeleton") /\ Pop(p)
  /\ checks' = IF Name(p) THEN [i \in CheckIds |-> None] ELSE checks
  /\ Lift /\ UNCHANGED <<harness, registry, doc, ignored, github, cut>>

\* The transaction on the settings begins: init has planned it before.
Hook(p) ==
  LET a == Name(p)
      original == IF job[p].cmd = "init" THEN job[p].plans[a] ELSE settings[a]
  IN  /\ At(p, "hook") /\ proc[p] = Idle
      /\ IF original = Torn \/ (job[p].cmd = "init" /\ job[p].pinned # binary)
           THEN Fail(p) /\ UNCHANGED proc
           ELSE /\ proc' = [proc EXCEPT ![p] = Install(a, original, binary)]
                /\ UNCHANGED job
      /\ UNCHANGED <<settings, backups, lock, raced, touched, agenda, filesVars,
                     binary>>

Unhook(p) ==
  /\ At(p, "unhook") /\ proc[p] = Idle
  /\ proc' = [proc EXCEPT ![p] = Uninstall(Name(p))]
  /\ UNCHANGED <<settings, backups, lock, raced, touched, agenda, filesVars,
                 binary, job>>

Transact(p) ==
  /\ At(p, "hook") \/ At(p, "unhook")
  /\ \/ SettingsStep(p)
     \/ agenda.faulty /\ WriteFails(p)
  /\ cut' = IF proc[p].cmd = "uninstall" /\ settings' # settings
              THEN cut \cup {proc[p].agent}
            ELSE IF proc[p].cmd = "install" /\ settings' # settings
              THEN cut \ {proc[p].agent} ELSE cut
  /\ UNCHANGED <<agenda, harness, registry, checks, doc, ignored, github, binary,
                 job>>

Transacted(p) ==
  /\ At(p, "hook") \/ At(p, "unhook")
  /\ proc[p].at = "idle" /\ proc[p].result # None
  /\ IF proc[p].result = "ok" THEN Pop(p) ELSE Fail(p)
  /\ proc' = [proc EXCEPT ![p] = Idle]
  /\ UNCHANGED <<settings, backups, lock, raced, touched, agenda, filesVars,
                 binary>>

\* A file that is read, changed and written back, without a lock.
RegistryAfter(p) ==
  IF At(p, "register") THEN registry \cup {Name(p)} ELSE registry \ {Name(p)}

\* merge_adapter_provided_list: rows of other providers are refused.
Conflicts(p) ==
  At(p, "check") /\ \E i \in ChecksOf[Name(p)] : checks[i] \notin {None, Name(p)}

\* Merging replaces or adds the provider's rows; removal takes them away.
ChecksAfter(p) ==
  [i \in CheckIds |->
     IF i \in ChecksOf[Name(p)] /\ checks[i] \in {None, Name(p)}
       THEN IF At(p, "check") THEN Name(p) ELSE None
       ELSE checks[i]]

DocAfter(p) ==
  CASE At(p, "section") -> Sectioned(doc)
    [] At(p, "inject") -> IF doc.file THEN Injected(doc, Name(p)) ELSE doc
    [] At(p, "evict") -> Evicted(doc, Name(p))

RegistrySteps == {"register", "unregister"}
CheckSteps == {"check", "uncheck"}
DocSteps == {"section", "inject", "evict"}
Does(p, steps) == \E step \in steps : At(p, step)

Read(p) ==
  LET load(value) == job' = [job EXCEPT ![p].buffer = <<value>>]
  IN  /\ Running(p) /\ job[p].buffer = <<>>
      /\ \/ Does(p, RegistrySteps) /\ load(RegistryAfter(p))
         \/ Does(p, CheckSteps) /\ Conflicts(p) /\ Fail(p)
         \/ Does(p, CheckSteps) /\ ~Conflicts(p) /\ load(ChecksAfter(p))
         \/ Does(p, DocSteps) /\ load(DocAfter(p))
      /\ Lift /\ UNCHANGED filesVars

Write(p) ==
  LET value == job[p].buffer[1]
  IN  /\ Running(p) /\ job[p].buffer # <<>>
      /\ registry' = IF Does(p, RegistrySteps) THEN value ELSE registry
      /\ checks' = IF Does(p, CheckSteps) THEN value ELSE checks
      /\ doc' = IF Does(p, DocSteps) THEN value ELSE doc
      /\ cut' = IF Does(p, RegistrySteps) THEN cut \cap value ELSE cut
      /\ job' = [job EXCEPT ![p].todo = Tail(@), ![p].buffer = <<>>]
      /\ Lift /\ UNCHANGED <<harness, ignored, github>>

\* A bug: only the agents are put back.
ReinjectAgents(p) ==
  /\ At(p, "reinject")
  /\ job' = [job EXCEPT ![p].todo =
               [i \in 1..Cardinality(registry \cap Agents) |->
                  <<"inject", SetToSeq(registry \cap Agents)[i]>>] \o Tail(@)]
  /\ Lift /\ UNCHANGED filesVars

\* _reinject_installed_adapters
Reinject(p) ==
  /\ At(p, "reinject")
  /\ job' = [job EXCEPT ![p].todo =
               [i \in DOMAIN Loaded |-> <<"inject", Loaded[i]>>] \o Tail(@)]
  /\ Lift /\ UNCHANGED filesVars

Ignore(p) ==
  /\ At(p, "gitignore") /\ Pop(p)
  /\ ignored' = TRUE
  /\ Lift /\ UNCHANGED <<harness, registry, checks, doc, github, cut>>

\* apply_github_file: only an append looks at the file again.
ApplyGithub(p) ==
  LET f == Name(p)
      plan == job[p].decided[f]
  IN  /\ At(p, "github")
      /\ CASE plan.way = "keep" -> Pop(p) /\ UNCHANGED github
           [] plan.way = "append" /\ github[f] # plan.seen
                -> Fail(p) /\ UNCHANGED github
           [] plan.way = "append" /\ github[f] = plan.seen
                -> Pop(p) /\ github' = [github EXCEPT ![f].block = TRUE]
           [] OTHER -> Pop(p) /\ github' = [github EXCEPT ![f] = Bundled]
      /\ Lift /\ UNCHANGED <<harness, registry, checks, doc, ignored, cut>>

End(p) ==
  /\ Running(p) /\ job[p].todo = <<>>
  /\ Stop(p, "done")
  /\ Lift /\ UNCHANGED filesVars

\* A file cannot be read or written: the command ends, what it did stays.
StepFails(p) ==
  /\ agenda.faulty
  /\ Running(p) /\ job[p].todo # <<>> /\ proc[p] = Idle
  /\ Fail(p)
  /\ Lift /\ UNCHANGED filesVars

Crash(p) ==
  /\ agenda.faulty /\ Running(p)
  /\ Fail(p)
  /\ IF proc[p].at = "idle" THEN UNCHANGED settingsVars ELSE SettingsCrash(p)
  /\ UNCHANGED <<agenda, filesVars, binary>>

\* Both yaml files are truncated before they are written (write_text).
CrashInWrite(p) ==
  /\ agenda.faulty /\ Running(p) /\ job[p].buffer # <<>>
  /\ Fail(p)
  /\ \/ /\ Does(p, RegistrySteps)
        /\ registry' = {} /\ cut' = {} /\ UNCHANGED checks
     \/ /\ Does(p, CheckSteps)
        /\ checks' = [i \in CheckIds |-> None] /\ UNCHANGED <<registry, cut>>
  /\ Lift /\ UNCHANGED <<harness, doc, ignored, github>>

-----------------------------------------------------------------------------
\* Everyone else

LockAges == (\E a \in Agents : Age(a)) /\ UNCHANGED installVars

SaveSettings ==
  /\ \E a \in agenda.saves \cap Agents : UserSaves(a)
  /\ UNCHANGED installVars

SaveGithub ==
  /\ \E f \in agenda.saves \cap GithubFiles :
       /\ github[f] = None \/ (github[f] # None /\ github[f].text < Saves)
       /\ github' = [github EXCEPT ![f] =
                       IF github[f] = None
                         THEN [text |-> 1, block |-> FALSE]
                         ELSE [github[f] EXCEPT !.text = @ + 1]]
  /\ UNCHANGED <<settingsVars, agenda, harness, registry, checks, doc, ignored,
                 binary, job, cut>>

\* keepsail is installed elsewhere.
MoveBinary ==
  /\ agenda.moves
  /\ binary' \in Binaries \ {binary}
  /\ UNCHANGED <<settingsVars, agenda, filesVars, job>>

Work(p) ==
  \/ Scaffold(p) \/ TouchEvents(p) \/ Skeleton(p) \/ Hook(p) \/ Unhook(p)
  \/ Transact(p) \/ Transacted(p) \/ Read(p) \/ Write(p) \/ Reinject(p)
  \/ Ignore(p) \/ ApplyGithub(p) \/ End(p)

Next ==
  \/ \E p \in Pids : \/ InstallCommand(p) \/ UninstallCommand(p)
                     \/ RegisterChecks(p) \/ SyncCommand(p) \/ InitCommand(p)
                     \/ Work(p) \/ StepFails(p) \/ Crash(p) \/ CrashInWrite(p)
  \/ LockAges \/ SaveSettings \/ SaveGithub \/ MoveBinary

Spec == Init /\ [][Next]_vars

\* A command's process is scheduled; it waits for nobody.
FairSpec == Spec /\ \A p \in Pids : WF_vars(Work(p))

-----------------------------------------------------------------------------
\* An agent that adapters.yaml lists has its hooks, unless its uninstall was
\* cut short between the two: "a failed install_hooks never leaves a stale
\* adapters.yaml entry behind" (adapter_install).  Overlapping commands can
\* lose an update of adapters.yaml.
Hooked(a) == settings[a] \in Contents /\ settings[a].ours # None
RegisteredIsHooked ==
  agenda.together \/ \A a \in registry \cap Agents : a \in cut \/ Hooked(a)

\* A section without an agent's block has the anchor the next one will need,
\* and one with a block has none: in every order of installs, removals and
\* renderings, the overlapping ones included (remove_subsection).
AgentSlotAnchored ==
  doc.section => (doc.anchor <=> doc.blocks \cap Agents = {})

\* A section without a framework's block has a place for the next one
\* (docs/adapters/plain.md: the slot "falls back to the init-time anchor").  It
\* does not hold after the last framework went, and no run checks it (README,
\* Where code and documents disagree).
FrameworkSlotAnchored ==
  doc.section => doc.slot \/ doc.blocks \cap Kind(Plain) # {}

\* A sync, or an init, that succeeds leaves a section with a block for every
\* adapter listed, and for plain, whatever was there before, and `sync --check`
\* then finds nothing to report (render_keepsail_section, run_sync_check).
Rendered ==
  [file |-> TRUE, section |-> TRUE, slot |-> FALSE,
   anchor |-> registry \cap Agents = {}, blocks |-> {Plain} \cup registry]
SyncStep ==
  \A p \in Pids :
    /\ job[p].cmd \in {"init", "full"} /\ job[p].at = "running"
    /\ job'[p].at = "done" /\ ~agenda.together
    => doc = Rendered /\ InSync /\ harness # "absent"
SyncConverges == [][SyncStep]_vars

\* No command waits for a lock for ever: an abandoned one is removed, a held
\* one refuses (_acquire_settings_lock).
CommandsEnd == \A p \in Pids : Running(p) ~> ~Running(p)

=============================================================================
