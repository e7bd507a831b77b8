----------------------------- MODULE Enforcement -----------------------------
(***************************************************************************)
(* The two planes that meet only in events.jsonl and state.yaml: an agent  *)
(* whose edits pass the pre-tool-use gate, and the observer host that      *)
(* turns the documents the agent writes into lifecycle events (daemon/     *)
(* framework_observer.py, adapters/framework), together with the commands  *)
(* people run and the kill switch.                                         *)
(*                                                                         *)
(* The log is represented by what derive_state makes of it (truth) and by  *)
(* the event types recorded (seen).  An append, and a refresh of the       *)
(* cache, are one step each: EventStore has their inside.  Which plan or   *)
(* verdict is legal beyond its state is Lifecycle's subject; here streams  *)
(* are without a recognised review process.                                *)
(***************************************************************************)
EXTENDS Gate, ObserverHost

CONSTANTS
  IntentDocs, \* [Changes -> SUBSET Files]: documents that declare the change
  PlanDocs,   \* [Changes -> SUBSET Files]: documents that are its plan
  Procs,      \* terminals in which lifecycle commands are run
  Agendas     \* what may happen in one run: see agenda

ASSUME AgendaAssumption ==
  \A x \in Agendas : /\ x.asks \subseteq Files \cup {None}
                     /\ x.docs \cup x.edits \subseteq Files
                     /\ x.length \in Nat \ {0}

\* The owner's patterns leave each change a path for its plan that is not
\* scratch, and plans are not recorded from there.
ASSUME PlanAssumption ==
  /\ \A c \in Changes : \E f \in Files : PlanOf[f] = c /\ ScratchOf[f] = None
  /\ \A x \in Agendas : \A f \in x.docs : ScratchOf[f] = None

VARIABLES
  agenda,     \* chosen at the start: observe commands (cmds), event types of
              \* the other commands (types), the terminals for both (clients,
              \* procs), files that commands record as artifacts of a plan
              \* (docs), that people (edits) and the agent (asks) want to
              \* edit, whether the watched directory exists (tree), whether
              \* things fail (faulty) and the gate is switched off (switch),
              \* and how many events are built (length)
  truth,      \* the records derive_state makes of the log
  seen,       \* the event types in the log that a scan looks for
  yaml,       \* the records in state.yaml
  now,        \* the clock events are stamped with
  job,        \* the event a terminal is about to emit, or None
  written,    \* files that exist
  notified,   \* hosts with an unhandled file-system notification
  scan,       \* what a scan under way has left to emit, or None
  agent,      \* the edit the agent wants to make
  disabled,   \* .harness/gate-disabled
  overtaken   \* whether truth has moved on from what the agent was cleared by

vars == <<hostVars, agenda, truth, seen, yaml, now, job, written, notified,
          scan, agent, disabled, overtaken>>
log == <<truth, seen>>

Observed == {"intent_declared", "plan_ready"}
Scanners == Hosts \cup Clients
Docs == UNION {IntentDocs[c] \cup PlanDocs[c] : c \in Changes}
Event(c, type, artifacts) ==
  [change |-> c, type |-> type, at |-> now, artifacts |-> artifacts]
Events(x) ==
  [change : Changes, type : x.types \cup Observed, at : 1..x.length,
   artifacts : SUBSET Files]
Undeclared == [state |-> NoState, at |-> 0, artifacts |-> {}]
NoEdit == [pc |-> "idle", file |-> None, override |-> None, bypassed |-> FALSE]

TypeOK ==
  /\ HostTypeOK
  /\ agenda \in Agendas
  /\ truth \in [Changes -> Records] /\ yaml \in [Changes -> Records]
  /\ seen \in [Changes -> SUBSET Observed]
  /\ now \in 1..agenda.length
  /\ DOMAIN job = Procs
  /\ \A p \in Procs :
       job[p] # None => job[p] \in [pc : {"emit", "refresh"},
                                   event : Events(agenda)]
  /\ written \subseteq Files
  /\ notified \subseteq Hosts
  /\ DOMAIN scan = Scanners
  /\ \A s \in Scanners :
       scan[s] # None =>
         /\ scan[s] \in [pc : {"emit", "refresh"},
                         left : SUBSET Events(agenda)]
         /\ scan[s].pc = "emit" => scan[s].left # {}
  /\ agent \in [pc : {"idle", "asked", "cleared"}, file : Files \cup {None},
                override : Changes \cup {None}, bypassed : BOOLEAN]
  /\ disabled \in BOOLEAN /\ overtaken \in BOOLEAN

Init ==
  /\ HostInit
  /\ agenda \in Agendas
  /\ truth = [c \in Changes |-> Undeclared]
  /\ yaml = truth
  /\ seen = [c \in Changes |-> {}]
  /\ now = 1
  /\ job = [p \in Procs |-> None]
  /\ written = {}
  /\ notified = {}
  /\ scan = [s \in Scanners |-> None]
  /\ agent = NoEdit
  /\ disabled = FALSE
  /\ overtaken = FALSE

-----------------------------------------------------------------------------
\* The log and its cache

Legal(e) ==
  /\ ComputeTargetState(truth[e.change].state, e.type) # INVALID
  /\ e.type = "plan_ready" => "intent_declared" \in seen[e.change]

Folded(r, e) ==
  LET target == ComputeTargetState(r.state, e.type)
  IN  [state |-> IF target = INVALID THEN r.state ELSE target,
       at |-> e.at,
       artifacts |-> CASE e.type = "plan_ready" -> e.artifacts
                       [] e.type = "plan_redeclared" -> {}
                       [] OTHER -> r.artifacts]

Record(e) ==
  /\ truth' = [truth EXCEPT ![e.change] = Folded(truth[e.change], e)]
  /\ seen' = [seen EXCEPT ![e.change] = @ \cup ({e.type} \cap Observed)]
  /\ overtaken' = TRUE

\* Commands stop at the bound; what a scan builds then carries its time.
Tick == now < agenda.length /\ now' = now + 1

-----------------------------------------------------------------------------
\* Lifecycle commands: an event is stamped when it is built and validated
\* when it is appended; a refused command just ends.

Build(p) ==
  /\ p \in agenda.procs
  /\ job[p] = None
  /\ Tick
  /\ \E c \in Changes, type \in agenda.types :
       \E artifacts \in IF type = "plan_ready"
                          THEN SUBSET {f \in agenda.docs : PlanOf[f] = c}
                          ELSE {{}} :
         /\ Legal(Event(c, type, artifacts))
         /\ job' = [job EXCEPT ![p] =
                      [pc |-> "emit", event |-> Event(c, type, artifacts)]]
  /\ UNCHANGED <<hostVars, agenda, log, yaml, written, notified, scan, agent,
                 disabled, overtaken>>

EmitCommand(p) ==
  /\ job[p] # None /\ job[p].pc = "emit"
  /\ IF Legal(job[p].event)
       THEN /\ Record(job[p].event)
            /\ job' = [job EXCEPT ![p].pc = "refresh"]
       ELSE job' = [job EXCEPT ![p] = None] /\ UNCHANGED <<log, overtaken>>
  /\ UNCHANGED <<hostVars, agenda, yaml, now, written, notified, scan, agent,
                 disabled>>

Refresh(p) ==
  /\ job[p] # None /\ job[p].pc = "refresh"
  /\ yaml' = truth
  /\ job' = [job EXCEPT ![p] = None]
  /\ UNCHANGED <<hostVars, agenda, log, now, written, notified, scan, agent,
                 disabled, overtaken>>

CommandDies(p) ==
  /\ agenda.faulty
  /\ job[p] # None
  /\ job' = [job EXCEPT ![p] = None]
  /\ UNCHANGED <<hostVars, agenda, log, yaml, now, written, notified, scan,
                 agent, disabled, overtaken>>

-----------------------------------------------------------------------------
\* Observation.  A scan reads the log once, then emits what it found missing,
\* each event followed by a refresh.

\* What no event says yet of the documents there are.
Unseen(c) ==
  {e \in {Event(c, "intent_declared", {}), Event(c, "plan_ready", {})} :
     /\ e.type \notin seen[c]
     /\ written \cap (IF e.type = "plan_ready" THEN PlanDocs[c]
                                              ELSE IntentDocs[c]) # {}}

AllUnseen == UNION {Unseen(c) : c \in Changes}

\* A bug: the plan is yielded before the intent.
YieldsPlanFirst(d, e) ==
  d.change < e.change \/ (d.change = e.change /\ d.type = "plan_ready")

\* Changes in the order of their names, the intent of each before its plan.
Yields(d, e) ==
  d.change < e.change \/ (d.change = e.change /\ d.type = "intent_declared")

BeginScan(s) ==
  /\ scan[s] = None
  /\ IF AllUnseen = {}
       THEN UNCHANGED <<scan, now>>
       ELSE /\ scan' = [scan EXCEPT ![s] = [pc |-> "emit", left |-> AllUnseen]]
            /\ now' = IF now < agenda.length THEN now + 1 ELSE now

\* A scan goes on while it has something left to emit.
Rest(left) == IF left = {} THEN None ELSE [pc |-> "emit", left |-> left]

\* on_any_event, under the handler's lock.
Notified(h) ==
  /\ host[h] = "watching" /\ h \in notified
  /\ BeginScan(h)
  /\ notified' = notified \ {h}
  /\ UNCHANGED <<hostVars, agenda, log, yaml, job, written, agent, disabled,
                 overtaken>>

\* `adapter scan-once`
ScanOnce(c) ==
  /\ c \in agenda.clients
  /\ "scan" \in agenda.cmds
  /\ client[c].at = "idle"
  /\ BeginScan(c)
  /\ client' = [client EXCEPT ![c] = IF AllUnseen = {}
                                       THEN Answer("done")
                                       ELSE [Resting EXCEPT !.cmd = "scan",
                                                            !.at = "scan"]]
  /\ UNCHANGED <<host, pidfile, probing, agenda, log, yaml, job, written,
                 notified, agent, disabled, overtaken>>

\* A refused event is passed over by the host and ends `scan-once`.
EmitScanned(s) ==
  /\ scan[s] # None /\ scan[s].pc = "emit"
  /\ \E e \in scan[s].left :
       LET left == scan[s].left \ {e} IN
       /\ \A d \in left : Yields(e, d)
       /\ IF Legal(e)
            THEN /\ Record(e)
                 /\ scan' = [scan EXCEPT ![s] = [pc |-> "refresh", left |-> left]]
                 /\ UNCHANGED client
            ELSE /\ scan' = [scan EXCEPT ![s] =
                               IF s \in Hosts THEN Rest(left) ELSE None]
                 /\ client' = IF s \in Hosts THEN client
                              ELSE [client EXCEPT ![s] = Answer("failed")]
                 /\ UNCHANGED <<log, overtaken>>
  /\ UNCHANGED <<host, pidfile, probing, agenda, yaml, now, job, written,
                 notified, agent, disabled>>

RefreshScanned(s) ==
  /\ scan[s] # None /\ scan[s].pc = "refresh"
  /\ yaml' = truth
  /\ scan' = [scan EXCEPT ![s] = Rest(scan[s].left)]
  /\ client' = IF s \in Clients /\ scan[s].left = {}
                 THEN [client EXCEPT ![s] = Answer("done")] ELSE client
  /\ UNCHANGED <<host, pidfile, probing, agenda, log, now, job, written,
                 notified, agent, disabled, overtaken>>

\* Any other exception ends the host's scan but not its watcher.
ScanFails(h) ==
  /\ agenda.faulty
  /\ scan[h] # None
  /\ scan' = [scan EXCEPT ![h] = None]
  /\ UNCHANGED <<hostVars, agenda, log, yaml, now, job, written, notified,
                 agent, disabled, overtaken>>

-----------------------------------------------------------------------------
\* The host and the observe commands

Observe(c, cmd) ==
  /\ c \in agenda.clients
  /\ cmd \in agenda.cmds \ {"scan"}
  /\ cmd = "start" => \E h \in Hosts : host[h] = "unborn"
  /\ Begin(c, cmd)

Supervise(c) == \/ \E cmd \in {"start", "stop", "status"} : Observe(c, cmd)
                \/ Probe(c) \/ Release(c) \/ Spawn(c) \/ ReadPid(c)
                \/ Kill(c) \/ GiveUp(c)

TreeExists == agenda.tree \/ written \cap Docs # {}

\* Only directories that exist at this moment are watched.
ServeTree(h) ==
  /\ Serve(h)
  /\ host'[h] = "watching" => TreeExists
  /\ host'[h] = "idling" => ~TreeExists \/ agenda.faulty

HostStep(h) == \/ OpenPidfile(h) \/ LockPidfile(h) \/ Truncate(h)
               \/ WritePid(h) \/ ServeTree(h) \/ Exit(h)

\* Its threads end with the process.
Reaped ==
  /\ scan' = [s \in Scanners |->
                IF s \in Hosts /\ host'[s] = "gone" THEN None ELSE scan[s]]
  /\ notified' = {h \in notified : host'[h] # "gone"}

Supervision ==
  /\ \/ \E c \in Clients : Supervise(c)
     \/ \E h \in Hosts : HostStep(h)
     \/ agenda.faulty /\ \E h \in Hosts : Die(h)
  /\ Reaped
  /\ UNCHANGED <<agenda, log, yaml, now, job, written, agent, disabled,
                 overtaken>>

-----------------------------------------------------------------------------
\* The agent

Ask ==
  /\ agent.pc = "idle"
  /\ \E f \in agenda.asks,
        override \in {None} \cup {c \in Changes : truth[c].state # NoState} :
       agent' = [NoEdit EXCEPT !.pc = "asked", !.file = f,
                               !.override = override]
  /\ UNCHANGED <<hostVars, agenda, log, yaml, now, job, written, notified,
                 scan, disabled, overtaken>>

\* With the kill switch set, the bypass is recorded on the change it is for.
HookBypassed ==
  /\ agent.pc = "asked"
  /\ disabled
  /\ agent' = [agent EXCEPT !.pc = "cleared", !.bypassed = TRUE]
  /\ LET c == Subject(yaml, agent.override) IN
       IF c = None
         THEN UNCHANGED <<log, now, overtaken>>
         ELSE Tick /\ Record(Event(c, "gate_bypassed", {}))
  /\ UNCHANGED <<hostVars, agenda, yaml, job, written, notified, scan,
                 disabled>>

Hook ==
  /\ agent.pc = "asked"
  /\ ~disabled
  /\ IF Allowed(yaml, agent.override, agent.file)
       THEN /\ agent' = [agent EXCEPT !.pc = "cleared"]
            /\ overtaken' = (yaml # truth)
       ELSE agent' = NoEdit /\ UNCHANGED overtaken
  /\ UNCHANGED <<hostVars, agenda, log, yaml, now, job, written, notified,
                 scan, disabled>>

\* Watchers are told of every change under the directories of the framework.
Touch(f) ==
  /\ written' = written \cup {f}
  /\ notified' = IF f \in Docs
                   THEN notified \cup {h \in Hosts : host[h] = "watching"}
                   ELSE notified

Edit ==
  /\ agent.pc = "cleared"
  /\ agent' = NoEdit
  /\ IF agent.file = None THEN UNCHANGED <<written, notified>>
                          ELSE Touch(agent.file)
  /\ UNCHANGED <<hostVars, agenda, log, yaml, now, job, scan, disabled,
                 overtaken>>

\* People edit without the hook.
EditByHand ==
  /\ \E f \in agenda.edits : Touch(f)
  /\ UNCHANGED <<hostVars, agenda, log, yaml, now, job, scan, agent, disabled,
                 overtaken>>

ToggleSwitch ==
  /\ agenda.switch
  /\ disabled' = ~disabled
  /\ UNCHANGED <<hostVars, agenda, log, yaml, now, job, written, notified,
                 scan, agent, overtaken>>

-----------------------------------------------------------------------------
Next ==
  \/ \E p \in Procs : Build(p) \/ EmitCommand(p) \/ Refresh(p) \/ CommandDies(p)
  \/ \E h \in Hosts : Notified(h) \/ ScanFails(h)
  \/ \E c \in Clients : ScanOnce(c)
  \/ \E s \in Scanners : EmitScanned(s) \/ RefreshScanned(s)
  \/ Supervision
  \/ Ask \/ HookBypassed \/ Hook \/ Edit \/ EditByHand \/ ToggleSwitch

Spec == Init /\ [][Next]_vars

\* A watcher's thread is scheduled, and the event lock it waits for is given
\* back by every holder (EventStore!CommandsEnd).
Fairness ==
  \A h \in Hosts : /\ WF_vars(Notified(h))
                   /\ WF_vars(EmitScanned(h))
                   /\ WF_vars(RefreshScanned(h))

FairSpec == Spec /\ Fairness

-----------------------------------------------------------------------------
\* An edit of a product file that the gate cleared on the latest state, and
\* that nothing overtook, falls in a state in which work may go on: the state
\* of the change named, or of the live change with the latest event
\* (hook_entry._decide, active_change.pick_active_change).
WorkMayGoOn(c) ==
  truth[c].state \in {NoState, "PLAN_APPROVED", "IMPLEMENTATION_IN_PROGRESS",
                      "CODE_REVIEW_REJECTED"}
EditStep ==
  agent.pc = "cleared" /\ agent'.pc = "idle" /\ agent.file \in Product
    /\ ~agent.bypassed /\ ~overtaken
  => \/ agent.override # None /\ WorkMayGoOn(agent.override)
     \/ agent.override = None /\ Live(truth) = {}
     \/ /\ agent.override = None
        /\ \E c \in Live(truth) :
             /\ WorkMayGoOn(c)
             /\ \A d \in Live(truth) : truth[d].at <= truth[c].at
EditsFollowTheGate == [][EditStep]_vars

\* Whenever the next move is the author's, the gate leaves a file to make it
\* with: a plan to write, a recorded plan to revise, or the product itself
\* (gates/decisions.py: each allowance is there so that no state is a dead
\* end).  A rejected plan of which no document was recorded is the exception
\* the documentation admits.
AuthorCanMove ==
  \A c \in Changes :
    \/ truth[c].state \notin {"INTENT_DECLARED", "PLAN_REJECTED",
                              "PLAN_APPROVED", "IMPLEMENTATION_IN_PROGRESS",
                              "CODE_REVIEW_REJECTED"}
    \/ truth[c].state = "PLAN_REJECTED" /\ truth[c].artifacts = {}
    \/ \E f \in Files : ScratchOf[f] = None /\ Allowed(truth, c, f)

\* Scans that hosts make never record the same thing twice, across restarts
\* and losses of the race to be host: re-running a scan "simply yields nothing
\* new" (framework_observer.py).  Only `scan-once` and commands that emit the
\* same events can come in between.
ScanStep ==
  \A h \in Hosts :
    scan[h] # None /\ scan'[h] # scan[h] /\ truth' # truth => seen' # seen
HostsRecordOnce ==
  [][agenda.cmds \cap {"scan"} = {} /\ agenda.types \cap Observed = {}
       => ScanStep]_vars

\* A document written while a host watches is recorded, unless the host ends:
\* its intent always, its plan if the change waits for one (on_any_event
\* rescans everything, for a notification may stand for several writes).
Watched(h) == host[h] = "watching" /\ ~agenda.faulty
Told(h, docs) == Watched(h) /\ h \in notified /\ written \cap docs # {}
DocumentsAreRecorded ==
  \A h \in Hosts, c \in Changes :
    /\ Told(h, IntentDocs[c])
         ~> ~Watched(h) \/ "intent_declared" \in seen[c]
    /\ (Told(h, IntentDocs[c]) /\ Told(h, PlanDocs[c]))
         ~> ~Watched(h) \/ "plan_ready" \in seen[c]

=============================================================================
