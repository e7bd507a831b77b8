------------------------- MODULE Enforcement_proofs -------------------------
(***************************************************************************)
(* Theorems about the observer host as Enforcement composes it with        *)
(* everything else, for every number of hosts, terminals and changes.      *)
(***************************************************************************)
EXTENDS Enforcement, WellFoundedInduction, TLAPS

\* daemon.pid is there from the moment a host has opened it.
FileOpened ==
  \A h \in Hosts : host[h] \in Holding \cup {"locking"} => pidfile.exists

\* The lock is exclusive: one host at most is past it.
OneHolder == \A g, h \in Holders : g = h

HostInv ==
  /\ host \in [Hosts -> Stages]
  /\ pidfile \in [exists : BOOLEAN, pid : Hosts \cup {Absent}]
  /\ FileOpened
  /\ OneHolder
  /\ PidNamesHost

LEMMA InitHost == HostInit => HostInv
  BY DEF HostInit, HostInv, Stages, Holding, FileOpened, OneHolder, Holders,
         PidNamesHost

\* A step that takes one host into another stage, and moves it neither past
\* the lock nor past its own name, keeps the invariant.
LEMMA Retreat ==
  ASSUME HostInv, NEW h \in Hosts, NEW stage \in Stages,
         host' = [host EXCEPT ![h] = stage], UNCHANGED pidfile,
         \/ stage \in {"gone", "lost"}
         \/ /\ stage \in {"watching", "idling", "stopping"}
            /\ host[h] \in {"named", "watching", "idling", "stopping"}
         \/ stage = "opening"
  PROVE  HostInv'
  BY DEF HostInv, Stages, Holding, FileOpened, OneHolder, Holders, PidNamesHost

\* Each step of the host's own.
LEMMA HostAdvances ==
  ASSUME HostInv, NEW h \in Hosts, HostStep(h)
  PROVE  HostInv'
  <1>1. CASE OpenPidfile(h)
    BY <1>1 DEF OpenPidfile, Advance, HostInv, Stages, Holding, FileOpened,
                OneHolder, Holders, PidNamesHost
  <1>2. CASE LockPidfile(h)
    BY <1>2 DEF LockPidfile, Advance, HostInv, Stages, Holding, FileOpened,
                OneHolder, Holders, PidNamesHost
  <1>3. CASE Truncate(h)
    <2>1. \A g \in Hosts : g # h => host[g] \notin Holding
      BY <1>3 DEF Truncate, Advance, HostInv, OneHolder, Holders, Holding
    <2> QED
      BY <1>3, <2>1 DEF Truncate, Advance, HostInv, Stages, Holding,
                        FileOpened, OneHolder, Holders, PidNamesHost
  <1>4. CASE WritePid(h)
    <2>1. \A g \in Hosts : g # h => host[g] \notin Holding
      BY <1>4 DEF WritePid, Advance, HostInv, OneHolder, Holders, Holding
    <2>2. pidfile.exists
      BY <1>4 DEF WritePid, Advance, HostInv, FileOpened, Holding
    <2>3. pidfile' = [exists |-> TRUE, pid |-> h]
      BY <1>4, <2>2 DEF WritePid, HostInv
    <2>4. host' = [host EXCEPT ![h] = "named"] /\ host[h] = "blank"
      BY <1>4 DEF WritePid, Advance
    <2>5. OneHolder'
      BY <2>1, <2>4 DEF HostInv, OneHolder, Holders, Holding
    <2>6. PidNamesHost' /\ FileOpened'
      BY <2>1, <2>3, <2>4 DEF HostInv, PidNamesHost, FileOpened, Holding
    <2>7. host' \in [Hosts -> Stages] /\ pidfile' \in [exists : BOOLEAN, pid : Hosts \cup {Absent}]
      BY <2>3, <2>4 DEF HostInv, Stages, Holding
    <2> QED
      BY <2>5, <2>6, <2>7 DEF HostInv
  <1>5. CASE ServeTree(h)
    <2>1. PICK stage \in {"watching", "idling"} :
            Advance(h, "named", stage) /\ UNCHANGED pidfile
      BY <1>5 DEF ServeTree, Serve
    <2>2. stage \in Stages
      BY DEF Stages, Holding
    <2> QED
      BY <2>1, <2>2, Retreat DEF Advance
  <1>6. CASE Exit(h)
    BY <1>6, Retreat DEF Exit, Advance, Stages
  <1> QED
    BY <1>1, <1>2, <1>3, <1>4, <1>5, <1>6 DEF HostStep

\* Each step of an observe command.
LEMMA CommandAdvances ==
  ASSUME HostInv, NEW c \in Clients, Supervise(c)
  PROVE  HostInv'
  <1>1. CASE Spawn(c)
    <2>1. PICK h \in Hosts : host' = [host EXCEPT ![h] = "opening"]
      BY <1>1 DEF Spawn
    <2> QED
      BY <1>1, <2>1, Retreat DEF Spawn, Stages
  <1>2. CASE Kill(c)
    <2>1. CASE UNCHANGED host
      BY <1>2, <2>1 DEF Kill, HostInv, FileOpened, OneHolder, Holders, PidNamesHost
    <2>2. CASE client[c].pid \notin Hosts /\ host' # host
      BY <1>2, <2>2 DEF Kill, HostInv
    <2>3. CASE client[c].pid \in Hosts /\ host' # host
      <3> DEFINE h == client[c].pid
                 stage == IF host[h] \in {"watching", "idling", "stopping"}
                            THEN "stopping" ELSE "gone"
      <3>1. host' = [host EXCEPT ![h] = stage] /\ UNCHANGED pidfile
        BY <1>2, <2>3 DEF Kill
      <3> QED
        BY <2>3, <3>1, Retreat DEF Stages, Holding
    <2> QED
      BY <2>1, <2>2, <2>3
  <1>3. CASE UNCHANGED <<host, pidfile>>
    BY <1>3 DEF HostInv, FileOpened, OneHolder, Holders, PidNamesHost
  <1> QED
    BY <1>1, <1>2, <1>3 DEF Supervise, Observe, Begin, Probe, Release, ReadPid,
                            GiveUp

\* Every step of the whole keeps the invariant: scans, commands, the gate and
\* the agent leave the host alone.
LEMMA HostStepwise == HostInv /\ [Next]_vars => HostInv'
  <1> SUFFICES ASSUME HostInv, [Next]_vars PROVE HostInv'
    OBVIOUS
  <1>1. CASE Supervision
    <2>1. CASE \E c \in Clients : Supervise(c)
      BY <2>1, CommandAdvances
    <2>2. CASE \E h \in Hosts : HostStep(h)
      BY <2>2, HostAdvances
    <2>3. CASE \E h \in Hosts : Die(h)
      BY <2>3, Retreat DEF Die, Stages
    <2> QED
      BY <1>1, <2>1, <2>2, <2>3 DEF Supervision
  <1>2. CASE UNCHANGED <<host, pidfile>>
    BY <1>2 DEF HostInv, FileOpened, OneHolder, Holders, PidNamesHost
  <1>3. ASSUME NEW p \in Procs,
               Build(p) \/ EmitCommand(p) \/ Refresh(p) \/ CommandDies(p)
        PROVE  UNCHANGED <<host, pidfile>>
    BY <1>3 DEF Build, EmitCommand, Refresh, CommandDies, hostVars
  <1>4. ASSUME NEW h \in Hosts, Notified(h) \/ ScanFails(h)
        PROVE  UNCHANGED <<host, pidfile>>
    BY <1>4 DEF Notified, ScanFails, hostVars
  <1>5. ASSUME NEW s \in Scanners,
               (s \in Clients /\ ScanOnce(s)) \/ EmitScanned(s) \/ RefreshScanned(s)
        PROVE  UNCHANGED <<host, pidfile>>
    BY <1>5 DEF ScanOnce, EmitScanned, RefreshScanned
  <1>6. CASE Ask \/ HookBypassed \/ Hook \/ Edit \/ EditByHand \/ ToggleSwitch
    BY <1>2, <1>6 DEF Ask, HookBypassed, Hook, Edit, EditByHand, ToggleSwitch,
                      hostVars
  <1>7. CASE UNCHANGED vars
    BY <1>2, <1>7 DEF vars, hostVars
  <1> QED
    BY <1>1, <1>2, <1>3, <1>4, <1>5, <1>6, <1>7 DEF Next, Scanners

\* The pid in the file of a host that serves is its own (daemonize), whatever
\* the number of hosts, losers, probes, signals and deaths.
THEOREM PidCorrect == Spec => []PidNamesHost
  <1>1. Init => HostInv
    BY InitHost DEF Init
  <1>2. HostInv => PidNamesHost
    BY DEF HostInv
  <1> QED
    BY <1>1, <1>2, HostStepwise, PTL DEF Spec

\* No two hosts ever hold the lock of daemon.pid together: the lock alone makes
\* the host unique, for `observe start` reads and spawns without one.
THEOREM HostUnique == Spec => []OneHolder
  <1>1. Init => HostInv
    BY InitHost DEF Init
  <1>2. HostInv => OneHolder
    BY DEF HostInv
  <1> QED
    BY <1>1, <1>2, HostStepwise, PTL DEF Spec

-----------------------------------------------------------------------------
(* The agent's clearance.                                                  *)

\* What the hook found in state.yaml holds of the log too, until an event is
\* recorded.
ClearanceStands ==
  agent.pc = "cleared" /\ ~agent.bypassed /\ ~overtaken
    => Allowed(truth, agent.override, agent.file)

AgentInv ==
  /\ agenda \in Agendas
  /\ agent \in [pc : {"idle", "asked", "cleared"}, file : Files \cup {None},
                override : Changes \cup {None}, bypassed : BOOLEAN]
  /\ ClearanceStands

\* An event overtakes a clearance; no other step but the agent's own concerns
\* it.
LEMMA AgentStepwise ==
  ASSUME AgentInv, [Next]_vars
  PROVE  AgentInv'
  <1> DEFINE Still == UNCHANGED <<agenda, agent, truth, overtaken>>
             Overtaken == UNCHANGED <<agenda, agent>> /\ overtaken' = TRUE
  <1>1. ASSUME Still \/ Overtaken PROVE AgentInv'
    BY <1>1 DEF AgentInv, ClearanceStands
  <1>2. ASSUME NEW p \in Procs,
               Build(p) \/ EmitCommand(p) \/ Refresh(p) \/ CommandDies(p)
        PROVE  Still \/ Overtaken
    BY <1>2 DEF Build, EmitCommand, Refresh, CommandDies, log, Record
  <1>3. ASSUME NEW h \in Hosts, Notified(h) \/ ScanFails(h)
        PROVE  Still
    BY <1>3 DEF Notified, ScanFails, log
  <1>4. ASSUME NEW s \in Scanners,
               ScanOnce(s) \/ EmitScanned(s) \/ RefreshScanned(s)
        PROVE  Still \/ Overtaken
    BY <1>4 DEF ScanOnce, EmitScanned, RefreshScanned, log, Record
  <1>5. CASE Supervision
    <2>1. Still
      BY <1>5 DEF Supervision, log
    <2> QED
      BY <1>1, <2>1
  <1>6. CASE Ask
    BY <1>6, AgendaAssumption DEF Ask, NoEdit, AgentInv, ClearanceStands
  <1>7. CASE HookBypassed
    BY <1>7 DEF HookBypassed, AgentInv, ClearanceStands
  <1>8. CASE Hook
    <2>1. CASE Allowed(yaml, agent.override, agent.file)
      BY <1>8, <2>1 DEF Hook, AgentInv, ClearanceStands, log
    <2>2. CASE agent' = NoEdit /\ UNCHANGED agenda
      BY <2>2 DEF NoEdit, AgentInv, ClearanceStands
    <2>3. \/ Allowed(yaml, agent.override, agent.file)
          \/ agent' = NoEdit /\ UNCHANGED agenda
      BY <1>8, Zenon DEF Hook
    <2> QED
      BY <2>1, <2>2, <2>3, Zenon
  <1>9. CASE Edit
    BY <1>9 DEF Edit, NoEdit, AgentInv, ClearanceStands
  <1>10. CASE EditByHand \/ ToggleSwitch
    <2>1. Still
      BY <1>10 DEF EditByHand, ToggleSwitch, log
    <2> QED
      BY <1>1, <2>1
  <1>11. CASE UNCHANGED vars
    BY <1>1, <1>11 DEF vars
  <1> QED
    BY <1>1, <1>2, <1>3, <1>4, <1>5, <1>6, <1>7, <1>8, <1>9, <1>10, <1>11
       DEF Next, Scanners

\* An edit that the hook cleared is one the log itself allows at that moment,
\* unless the gate was switched off or an event was recorded since.
THEOREM ClearanceIsCurrent == Spec => []ClearanceStands
  <1>1. Init => AgentInv
    BY DEF Init, NoEdit, AgentInv, ClearanceStands
  <1>2. AgentInv /\ [Next]_vars => AgentInv'
    BY AgentStepwise
  <1>3. AgentInv => ClearanceStands
    BY DEF AgentInv
  <1> QED
    BY <1>1, <1>2, <1>3, PTL DEF Spec

-----------------------------------------------------------------------------
(* Types.                                                                  *)

LEMMA TargetIsState ==
  ASSUME NEW current, NEW type
  PROVE  ComputeTargetState(current, type) \in STATES \cup {INVALID}
  <1>1. TableTarget(current, type) \in STATES \cup {INVALID}
    BY DEF TableTarget, STATES, TERMINAL_STATES, UnderImplementation
  <1> QED
    BY <1>1 DEF ComputeTargetState, STATES, TERMINAL_STATES

\* A bounded set of numbers has a greatest one.
LEMMA GreatestExists ==
  ASSUME NEW S, S \subseteq Nat, S # {}, NEW m \in Nat, \A s \in S : s <= m
  PROVE  \E x \in S : \A y \in S : y <= x
  <1> DEFINE T == {m - s : s \in S}
  <1>1. T \subseteq Nat /\ T # {}
    <2>1. \A s \in S : m - s \in Nat
      OBVIOUS
    <2>2. T # {}
      <3>1. PICK s \in S : TRUE
        OBVIOUS
      <3>2. m - s \in T
        BY <3>1
      <3> QED
        BY <3>2
    <2> QED
      BY <2>1, <2>2
  <1>2. \E t \in T : \A u \in T : ~ (<<u, t>> \in OpToRel(<, Nat))
    <2> HIDE DEF T
    <2> QED
      BY <1>1, WFMin, NatLessThanWellFounded, Zenon
  <1>3. PICK t \in T : \A u \in T : ~ (u < t)
    BY <1>1, <1>2 DEF OpToRel
  <1>4. PICK x \in S : t = m - x
    BY DEF T
  <1>5. \A y \in S : m - y \in T
    BY DEF T
  <1> HIDE DEF T
  <1> QED
    BY <1>3, <1>4, <1>5

\* The active change is a live one, and none has a later event.
LEMMA ActiveIsLatest ==
  ASSUME NEW records \in [Changes -> Records], NEW n \in Nat,
         \A c \in Changes : records[c].at <= n,
         Live(records) # {}
  PROVE  /\ PickActiveChange(records) \in Live(records)
         /\ \A d \in Live(records) :
              records[d].at <= records[PickActiveChange(records)].at
  <1> DEFINE L == Live(records)
             at(c) == records[c].at
             S == {at(c) : c \in L}
  <1>1. L \subseteq Changes /\ L \subseteq Nat /\ \A c \in L : at(c) \in Nat
    BY FileAssumption DEF Live, Records
  <1>2. PICK t \in S : \A u \in S : u <= t
    <2>1. S \subseteq Nat /\ S # {} /\ \A u \in S : u <= n
      BY <1>1
    <2> QED
      BY <2>1, GreatestExists
  <1> DEFINE T == {c \in L : at(c) = t}
  <1>3. PICK x \in T : \A y \in T : y <= x
    <2>1. PICK last \in Changes : \A c \in Changes : c <= last
      BY FileAssumption
    <2>2. T \subseteq Nat /\ T # {} /\ last \in Nat /\ \A u \in T : u <= last
      BY <1>1, <2>1, FileAssumption
    <2> QED
      BY <2>2, GreatestExists
  <1>4. x \in L /\ \A d \in L \ {x} : Precedes(records, d, x)
    <2>1. x \in L /\ at(x) = t
      BY <1>3
    <2>2. ASSUME NEW d \in L \ {x} PROVE Precedes(records, d, x)
      <3>1. at(d) \in S /\ at(d) <= t
        BY <1>2
      <3>2. CASE at(d) = t
        BY <1>1, <1>3, <2>1, <3>2 DEF Precedes
      <3>3. CASE at(d) # t
        BY <1>1, <2>1, <3>1, <3>3 DEF Precedes
      <3> QED
        BY <3>2, <3>3
    <2> QED
      BY <2>1, <2>2
  <1>5. PickActiveChange(records) =
          CHOOSE c \in L : \A d \in L \ {c} : Precedes(records, d, c)
    BY DEF PickActiveChange
  <1> DEFINE p == PickActiveChange(records)
  <1>6. p \in L /\ \A d \in L \ {p} : Precedes(records, d, p)
    BY <1>4, <1>5, Zenon
  <1> HIDE DEF L, p
  <1>7. \A d \in L : records[d].at <= records[p].at
    BY <1>1, <1>6 DEF Precedes
  <1> QED
    BY <1>6, <1>7 DEF L, p

\* What the commands record of a change is its plan, written where the agenda
\* allows.
RecordsFit(records) ==
  /\ records \in [Changes -> Records]
  /\ \A c \in Changes :
       /\ records[c].at <= agenda.length
       /\ \A f \in records[c].artifacts : f \in agenda.docs /\ PlanOf[f] = c
EventFits(e) ==
  /\ e.change \in Changes
  /\ e.at \in 1..agenda.length
  /\ \A f \in e.artifacts : f \in agenda.docs /\ PlanOf[f] = e.change

JobsFit ==
  /\ DOMAIN job = Procs
  /\ \A p \in Procs :
       job[p] # None => /\ job[p] \in [pc : {"emit", "refresh"},
                                       event : Events(agenda)]
                        /\ EventFits(job[p].event)
ScansFit ==
  /\ DOMAIN scan = Scanners
  /\ \A s \in Scanners :
       scan[s] # None => /\ scan[s] \in [pc : {"emit", "refresh"},
                                         left : SUBSET Events(agenda)]
                         /\ \A e \in scan[s].left : e.artifacts = {}
                         /\ scan[s].pc = "emit" => scan[s].left # {}
LogInv ==
  /\ agenda \in Agendas
  /\ now \in 1..agenda.length
  /\ RecordsFit(truth) /\ RecordsFit(yaml)
  /\ seen \in [Changes -> SUBSET Observed]
  /\ JobsFit /\ ScansFit

LEMMA LogInit == Init => LogInv
  BY AgendaAssumption
     DEF Init, LogInv, RecordsFit, Records, Undeclared, Observed, JobsFit,
         ScansFit

LEMMA RecordKeeps ==
  ASSUME LogInv, NEW e, EventFits(e), Record(e), UNCHANGED agenda
  PROVE  /\ RecordsFit(truth)'
         /\ seen' \in [Changes -> SUBSET Observed]
  <1>1. e.change \in Changes /\ e.at \in Nat /\ e.at <= agenda.length
        /\ e.artifacts \in SUBSET Files
    BY AgendaAssumption DEF EventFits, LogInv
  <1>2. Folded(truth[e.change], e) \in Records
    BY <1>1, TargetIsState DEF Folded, Records, LogInv, RecordsFit
  <1>3. Folded(truth[e.change], e).at = e.at
    BY DEF Folded
  <1>4. \A f \in Folded(truth[e.change], e).artifacts :
          f \in agenda.docs /\ PlanOf[f] = e.change
    BY <1>1 DEF Folded, EventFits, LogInv, RecordsFit
  <1>5. truth' = [truth EXCEPT ![e.change] = Folded(truth[e.change], e)]
    BY DEF Record
  <1> HIDE DEF Record
  <1>6. RecordsFit(truth)'
    BY <1>1, <1>2, <1>3, <1>4, <1>5 DEF RecordsFit, LogInv
  <1>7. seen' \in [Changes -> SUBSET Observed]
    BY <1>1 DEF Record, LogInv
  <1> QED
    BY <1>6, <1>7

\* Steps of a command.
LEMMA CommandLogged ==
  ASSUME LogInv, NEW p \in Procs,
         Build(p) \/ EmitCommand(p) \/ Refresh(p) \/ CommandDies(p)
  PROVE  LogInv'
  <1>1. CASE Build(p)
    <2>1. PICK c \in Changes, type \in agenda.types :
            \E artifacts \in IF type = "plan_ready"
                               THEN SUBSET {f \in agenda.docs : PlanOf[f] = c}
                               ELSE {{}} :
              job' = [job EXCEPT ![p] =
                        [pc |-> "emit", event |-> Event(c, type, artifacts)]]
      BY <1>1 DEF Build
    <2>2. PICK artifacts \in SUBSET {f \in agenda.docs : PlanOf[f] = c} :
            job' = [job EXCEPT ![p] =
                      [pc |-> "emit", event |-> Event(c, type, artifacts)]]
      BY <2>1
    <2>3. artifacts \in SUBSET Files
      BY AgendaAssumption DEF LogInv
    <2>4. /\ EventFits(Event(c, type, artifacts))
          /\ Event(c, type, artifacts) \in Events(agenda)
      BY <2>3 DEF EventFits, Event, Events, LogInv
    <2>5. /\ now' \in 1..agenda.length
          /\ UNCHANGED <<agenda, truth, yaml, seen, scan>>
      BY <1>1, AgendaAssumption DEF Build, Tick, log, LogInv
    <2>6. JobsFit'
      BY <2>2, <2>4, <2>5 DEF JobsFit, EventFits, LogInv
    <2> QED
      BY <2>5, <2>6 DEF LogInv, RecordsFit, ScansFit
  <1>2. CASE EmitCommand(p)
    <2>1. UNCHANGED <<agenda, now, yaml, scan>>
      BY <1>2 DEF EmitCommand
    <2>2. EventFits(job[p].event)
      BY <1>2 DEF EmitCommand, LogInv, JobsFit
    <2>3. RecordsFit(truth)' /\ seen' \in [Changes -> SUBSET Observed]
      <3>1. CASE Record(job[p].event)
        BY <2>1, <2>2, <3>1, RecordKeeps
      <3>2. CASE UNCHANGED log
        BY <2>1, <3>2 DEF log, LogInv, RecordsFit
      <3> QED
        BY <1>2, <3>1, <3>2 DEF EmitCommand
    <2>4. JobsFit'
      BY <1>2, <2>1 DEF EmitCommand, LogInv, JobsFit, EventFits
    <2> QED
      BY <2>1, <2>3, <2>4 DEF LogInv, RecordsFit, ScansFit
  <1>3. CASE Refresh(p)
    BY <1>3 DEF Refresh, log, LogInv, JobsFit, ScansFit, RecordsFit, EventFits
  <1>4. CASE CommandDies(p)
    BY <1>4 DEF CommandDies, log, LogInv, JobsFit, ScansFit, RecordsFit, EventFits
  <1> QED
    BY <1>1, <1>2, <1>3, <1>4

LEMMA UnseenFits ==
  ASSUME LogInv
  PROVE  /\ AllUnseen \subseteq Events(agenda)
         /\ \A e \in AllUnseen :
              /\ e.artifacts = {}
              /\ e.type \in Observed \ seen[e.change]
         /\ \A d, e \in AllUnseen :
              d.change = e.change /\ d.type = e.type => d = e
  <1>1. ASSUME NEW e \in AllUnseen
        PROVE  /\ e.change \in Changes /\ e.type \in Observed
               /\ e = Event(e.change, e.type, {})
               /\ e.type \notin seen[e.change]
    <2>1. PICK c \in Changes, type \in Observed :
            e = Event(c, type, {}) /\ type \notin seen[c]
      BY DEF AllUnseen, Unseen, Observed, Event
    <2>2. e.change = c /\ e.type = type
      BY <2>1 DEF Event
    <2> QED
      BY <2>1, <2>2
  <1>2. ASSUME NEW e \in AllUnseen
        PROVE  e \in Events(agenda) /\ e.artifacts = {}
    BY <1>1 DEF Event, Events, LogInv
  <1> HIDE DEF AllUnseen
  <1>3. ASSUME NEW d \in AllUnseen, NEW e \in AllUnseen,
               d.change = e.change, d.type = e.type
        PROVE  d = e
    BY <1>1, <1>3, Zenon
  <1> QED
    BY <1>1, <1>2, <1>3

LEMMA ScanBegins ==
  ASSUME LogInv, NEW s \in Scanners, BeginScan(s), UNCHANGED agenda
  PROVE  ScansFit' /\ now' \in 1..agenda.length
  <1>1. CASE AllUnseen = {}
    BY <1>1 DEF BeginScan, LogInv, ScansFit
  <1>2. CASE AllUnseen # {}
    <2>1. scan' = [scan EXCEPT ![s] = [pc |-> "emit", left |-> AllUnseen]]
      BY <1>2 DEF BeginScan
    <2>2. ScansFit'
      BY <1>2, <2>1, UnseenFits DEF LogInv, ScansFit
    <2>3. now' \in 1..agenda.length
      BY <1>2, AgendaAssumption DEF BeginScan, LogInv
    <2> QED
      BY <2>2, <2>3
  <1> QED
    BY <1>1, <1>2

\* Steps of a scan.
LEMMA ScanLogged ==
  ASSUME LogInv, NEW s \in Scanners,
         \/ s \in Hosts /\ (Notified(s) \/ ScanFails(s))
         \/ s \in Clients /\ ScanOnce(s)
         \/ EmitScanned(s)
         \/ RefreshScanned(s)
  PROVE  LogInv'
  <1>1. CASE Notified(s) \/ ScanOnce(s)
    <2>1. BeginScan(s) /\ UNCHANGED <<agenda, truth, seen, yaml, job>>
      BY <1>1 DEF Notified, ScanOnce, log
    <2> QED
      BY <2>1, ScanBegins DEF LogInv, RecordsFit, JobsFit, EventFits
  <1>2. CASE ScanFails(s)
    BY <1>2 DEF ScanFails, log, LogInv, RecordsFit, JobsFit, EventFits, ScansFit
  <1>3. CASE EmitScanned(s)
    <2>1. UNCHANGED <<agenda, now, yaml, job>> /\ scan[s] # None
      BY <1>3 DEF EmitScanned
    <2>2. PICK e \in scan[s].left :
            \/ /\ Record(e)
               /\ scan' = [scan EXCEPT ![s] =
                             [pc |-> "refresh", left |-> scan[s].left \ {e}]]
            \/ /\ scan' = [scan EXCEPT ![s] =
                             IF s \in Hosts THEN Rest(scan[s].left \ {e})
                                            ELSE None]
               /\ UNCHANGED log
      BY <1>3 DEF EmitScanned
    <2>3. EventFits(e)
      BY <2>1 DEF LogInv, ScansFit, EventFits, Events
    <2>4. RecordsFit(truth)' /\ seen' \in [Changes -> SUBSET Observed]
      <3>1. CASE Record(e)
        BY <2>1, <2>3, <3>1, RecordKeeps
      <3>2. CASE UNCHANGED log
        BY <2>1, <3>2 DEF log, LogInv, RecordsFit
      <3> QED
        BY <2>2, <3>1, <3>2
    <2>5. ScansFit'
      BY <2>1, <2>2 DEF LogInv, ScansFit, Rest
    <2> QED
      BY <2>1, <2>4, <2>5 DEF LogInv, RecordsFit, JobsFit, EventFits
  <1>4. CASE RefreshScanned(s)
    <2>1. UNCHANGED <<agenda, truth, seen, now, job>> /\ scan[s] # None
      BY <1>4 DEF RefreshScanned, log
    <2>2. ScansFit'
      BY <1>4, <2>1 DEF RefreshScanned, LogInv, ScansFit, Rest
    <2>3. RecordsFit(yaml)'
      BY <1>4, <2>1 DEF RefreshScanned, LogInv, RecordsFit
    <2> QED
      BY <2>1, <2>2, <2>3 DEF LogInv, RecordsFit, JobsFit, EventFits
  <1> QED
    BY <1>1, <1>2, <1>3, <1>4

LEMMA LogStepwise ==
  ASSUME LogInv, AgentInv, [Next]_vars
  PROVE  LogInv'
  <1> DEFINE Still == UNCHANGED <<agenda, truth, seen, yaml, now, job, scan>>
  <1>1. ASSUME Still PROVE LogInv'
    BY <1>1 DEF LogInv, RecordsFit, JobsFit, EventFits, ScansFit
  <1>2. CASE Supervision
    <2>1. UNCHANGED <<agenda, truth, seen, yaml, now, job>>
      BY <1>2 DEF Supervision, log
    <2>2. ScansFit'
      BY <1>2, <2>1 DEF Supervision, Reaped, LogInv, ScansFit
    <2> QED
      BY <2>1, <2>2 DEF LogInv, RecordsFit, JobsFit, EventFits
  <1>3. CASE HookBypassed
    <2>1. UNCHANGED <<agenda, yaml, job, scan>>
      BY <1>3 DEF HookBypassed
    <2> DEFINE c == Subject(yaml, agent.override)
               e == Event(c, "gate_bypassed", {})
    <2>2. CASE c = None
      <3>1. Still
        BY <1>3, <2>1, <2>2 DEF HookBypassed, log
      <3> QED
        BY <1>1, <3>1
    <2>3. CASE c # None
      <3>1. Tick /\ Record(e)
        BY <1>3, <2>3 DEF HookBypassed
      <3>2. c \in Changes
        <4>1. CASE agent.override # None
          BY <4>1 DEF Subject, AgentInv
        <4>2. CASE agent.override = None
          <5>1. c = PickActiveChange(yaml) /\ Live(yaml) # {}
            BY <2>3, <4>2 DEF Subject, PickActiveChange
          <5>2. /\ yaml \in [Changes -> Records] /\ agenda.length \in Nat
                /\ \A d \in Changes : yaml[d].at <= agenda.length
            BY AgendaAssumption DEF LogInv, RecordsFit
          <5>3. c \in Live(yaml)
            BY <5>1, <5>2, ActiveIsLatest
          <5> QED
            BY <5>3 DEF Live
        <4> QED
          BY <4>1, <4>2
      <3> HIDE DEF c
      <3>3. EventFits(e)
        BY <3>2 DEF EventFits, Event, LogInv
      <3>4. RecordsFit(truth)' /\ seen' \in [Changes -> SUBSET Observed]
        BY <2>1, <3>1, <3>3, RecordKeeps
      <3>5. now' \in 1..agenda.length
        BY <3>1, AgendaAssumption DEF Tick, LogInv
      <3> QED
        BY <2>1, <3>4, <3>5 DEF LogInv, RecordsFit, JobsFit, EventFits, ScansFit
    <2> QED
      BY <2>2, <2>3
  <1>4. CASE Ask \/ Hook \/ Edit \/ EditByHand \/ ToggleSwitch
    <2>1. Still
      BY <1>4 DEF Ask, Hook, Edit, EditByHand, ToggleSwitch, log
    <2> QED
      BY <1>1, <2>1
  <1>5. CASE UNCHANGED vars
    BY <1>1, <1>5 DEF vars
  <1> QED
    BY <1>2, <1>3, <1>4, <1>5, CommandLogged, ScanLogged DEF Next, Scanners

LEMMA EnforcementInduction == Spec => [](LogInv /\ AgentInv)
  <1>1. Init => LogInv /\ AgentInv
    BY LogInit DEF Init, NoEdit, AgentInv, ClearanceStands
  <1>2. LogInv /\ AgentInv /\ [Next]_vars => (LogInv /\ AgentInv)'
    BY AgentStepwise, LogStepwise
  <1> QED
    BY <1>1, <1>2, PTL DEF Spec

-----------------------------------------------------------------------------
(* What the gate allows.                                                   *)

LEMMA EditIsAllowed ==
  ASSUME LogInv, AgentInv
  PROVE  EditStep
  <1> SUFFICES ASSUME agent.pc = "cleared", agent.file \in Product,
                      ~agent.bypassed, ~overtaken
               PROVE  \/ agent.override # None /\ WorkMayGoOn(agent.override)
                      \/ agent.override = None /\ Live(truth) = {}
                      \/ /\ agent.override = None
                         /\ \E c \in Live(truth) :
                              /\ WorkMayGoOn(c)
                              /\ \A d \in Live(truth) : truth[d].at <= truth[c].at
    BY DEF EditStep
  <1> DEFINE c == Subject(truth, agent.override)
  <1>1. Allowed(truth, agent.override, agent.file)
    BY DEF AgentInv, ClearanceStands
  <1>2. /\ agent.file \in Files
        /\ PlanOf[agent.file] = None /\ ScratchOf[agent.file] = None
    BY FileAssumption
  <1>3. ASSUME c \in Changes PROVE WorkMayGoOn(c)
    <2>2. c # None
      BY <1>3, FileAssumption
    <2> HIDE DEF c
    <2>1. agent.file \notin truth[c].artifacts
      BY <1>2, <1>3, <2>2 DEF LogInv, RecordsFit
    <2>3. \/ truth[c].state = NoState
          \/ truth[c].state \in ALLOWING_STATES
      BY <1>1, <1>2, <2>1, <2>2
         DEF Allowed, PlanAllowance, ArtifactAllowance, c
    <2> QED
      BY <2>3 DEF WorkMayGoOn, ALLOWING_STATES
  <1>4. CASE agent.override # None
    BY <1>3, <1>4 DEF Subject, AgentInv
  <1>5. CASE agent.override = None /\ Live(truth) # {}
    <2>1. c = PickActiveChange(truth)
      BY <1>5 DEF Subject
    <2>2. /\ truth \in [Changes -> Records] /\ agenda.length \in Nat
          /\ \A d \in Changes : truth[d].at <= agenda.length
      BY AgendaAssumption DEF LogInv, RecordsFit
    <2>3. c \in Live(truth) /\ \A d \in Live(truth) : truth[d].at <= truth[c].at
      BY <1>5, <2>1, <2>2, ActiveIsLatest
    <2>4. c \in Changes
      BY <2>3 DEF Live
    <2> HIDE DEF c
    <2> QED
      BY <1>3, <1>5, <2>3, <2>4
  <1> QED
    BY <1>4, <1>5

\* An edit of the product that the gate cleared on the latest state, and that
\* nothing overtook, falls in a state in which work may go on: of the change
\* named, or of a live change than which none has a later event
\* (hook_entry._decide, active_change.pick_active_change).
THEOREM EditsAlwaysFollowTheGate == Spec => EditsFollowTheGate
  <1>1. LogInv /\ AgentInv => EditStep
    BY EditIsAllowed
  <1> QED
    BY <1>1, EnforcementInduction, PTL DEF EditsFollowTheGate

\* No state in which the author is to move is a dead end (gates/decisions.py).
THEOREM AuthorCanAlwaysMove == Spec => []AuthorCanMove
  <1>1. ASSUME LogInv PROVE AuthorCanMove
    <2>1. SUFFICES ASSUME NEW c \in Changes
                   PROVE  \/ truth[c].state \notin
                               {"INTENT_DECLARED", "PLAN_REJECTED",
                                "PLAN_APPROVED", "IMPLEMENTATION_IN_PROGRESS",
                                "CODE_REVIEW_REJECTED"}
                          \/ truth[c].state = "PLAN_REJECTED"
                             /\ truth[c].artifacts = {}
                          \/ \E f \in Files : /\ ScratchOf[f] = None
                                              /\ Allowed(truth, c, f)
      BY DEF AuthorCanMove
    <2>2. c # None /\ Subject(truth, c) = c
      BY FileAssumption DEF Subject
    <2>3. PICK f \in Files : PlanOf[f] = c /\ ScratchOf[f] = None
      BY PlanAssumption
    <2>4. CASE truth[c].state \in ALLOWING_STATES
      BY <2>2, <2>3, <2>4 DEF Allowed
    <2>5. CASE truth[c].state = "INTENT_DECLARED"
      <3>1. f # None
        BY FileAssumption
      <3> QED
        BY <2>2, <2>3, <2>5, <3>1
           DEF Allowed, PlanAllowance, PLAN_PATH_ALLOW_STATES
    <2>6. CASE truth[c].state = "PLAN_REJECTED" /\ truth[c].artifacts # {}
      <3>1. PICK g \in truth[c].artifacts : TRUE
        BY <2>6
      <3>2. g \in agenda.docs /\ agenda \in Agendas
        BY <1>1, <3>1 DEF LogInv, RecordsFit
      <3>3. g \in Files /\ ScratchOf[g] = None /\ g # None
        BY <3>2, PlanAssumption, AgendaAssumption, FileAssumption
      <3> QED
        BY <2>2, <2>6, <3>1, <3>3
           DEF Allowed, ArtifactAllowance, PLAN_ARTIFACT_ALLOW_STATES
    <2> QED
      BY <2>4, <2>5, <2>6 DEF ALLOWING_STATES
  <1> QED
    BY <1>1, EnforcementInduction, PTL

-----------------------------------------------------------------------------
(* A document is recorded once.                                            *)

\* Nobody but hosts records what a scan looks for.
HostsAlone == agenda.cmds \cap {"scan"} = {} /\ agenda.types \cap Observed = {}

\* What a host's scan has left to emit is still missing from the log, and it
\* emits nothing twice.
StillMissing ==
  HostsAlone =>
    /\ \A c \in Clients : scan[c] = None
    /\ \A h \in Hosts :
         scan[h] # None =>
           /\ host[h] \in Holding
           /\ \A e \in scan[h].left : e.type \in Observed \ seen[e.change]
           /\ \A d, e \in scan[h].left :
                d.change = e.change /\ d.type = e.type => d = e

\* Steps that end a host, or leave a holder a holder.
Persistent ==
  \A h \in Hosts : host[h] \in Holding => host'[h] \in Holding \cup {"gone"}

LEMMA SupervisionPersistent ==
  ASSUME HostInv, Supervision
  PROVE  Persistent
  <1>1. ASSUME NEW h \in Hosts, NEW from, NEW to, Advance(h, from, to),
               from \notin Holding \/ to \in Holding \cup {"gone"}
        PROVE  Persistent
    BY <1>1 DEF Advance, Persistent, HostInv
  <1>2. ASSUME NEW h \in Hosts, HostStep(h) PROVE Persistent
    <2>1. PICK from, to : /\ Advance(h, from, to)
                          /\ from \notin Holding \/ to \in Holding \cup {"gone"}
      <3>1. CASE OpenPidfile(h) \/ LockPidfile(h)
        BY <3>1 DEF OpenPidfile, LockPidfile, Holding
      <3>2. CASE Truncate(h) \/ WritePid(h) \/ Exit(h)
        BY <3>2 DEF Truncate, WritePid, Exit, Holding
      <3>3. CASE ServeTree(h)
        BY <3>3 DEF ServeTree, Serve, Holding
      <3> QED
        BY <1>2, <3>1, <3>2, <3>3 DEF HostStep
    <2> QED
      BY <1>1, <2>1
  <1>3. ASSUME NEW h \in Hosts, Die(h) PROVE Persistent
    BY <1>3 DEF Die, Persistent, HostInv
  <1>4. ASSUME NEW c \in Clients, Supervise(c) PROVE Persistent
    <2>1. CASE Spawn(c)
      BY <2>1 DEF Spawn, Persistent, HostInv, Holding
    <2>2. CASE Kill(c)
      BY <2>2 DEF Kill, Persistent, HostInv, Holding
    <2>3. CASE UNCHANGED host
      BY <2>3 DEF Persistent
    <2> QED
      BY <1>4, <2>1, <2>2, <2>3
         DEF Supervise, Observe, Begin, Probe, Release, ReadPid, GiveUp
  <1> QED
    BY <1>2, <1>3, <1>4 DEF Supervision

\* Under HostsAlone, what a terminal emits is never something a scan looks
\* for.
TerminalsElsewhere ==
  HostsAlone =>
    \A p \in Procs : job[p] # None => job[p].event.type \notin Observed

OnceInv == StillMissing /\ TerminalsElsewhere

\* The one host that scans is the one that holds the lock.
LEMMA OneScanner ==
  ASSUME HostInv, StillMissing, HostsAlone, NEW g \in Hosts, NEW h \in Hosts,
         scan[g] # None, scan[h] # None
  PROVE  g = h
  BY DEF HostInv, OneHolder, Holders, StillMissing

LEMMA ElsewhereStepwise ==
  ASSUME LogInv, TerminalsElsewhere, [Next]_vars
  PROVE  TerminalsElsewhere'
  <1>1. agenda' = agenda
    BY DEF Next, vars, Build, EmitCommand, Refresh, CommandDies, Notified,
           ScanFails, ScanOnce, EmitScanned, RefreshScanned, Supervision, Ask,
           HookBypassed, Hook, Edit, EditByHand, ToggleSwitch
  <1>2. ASSUME UNCHANGED job PROVE TerminalsElsewhere'
    BY <1>1, <1>2 DEF TerminalsElsewhere, HostsAlone
  <1>3. ASSUME NEW p \in Procs, Build(p) PROVE TerminalsElsewhere'
    <2>1. PICK c \in Changes, type \in agenda.types :
            \E artifacts : job' = [job EXCEPT ![p] =
                      [pc |-> "emit", event |-> Event(c, type, artifacts)]]
      BY <1>3 DEF Build
    <2> QED
      BY <1>1, <2>1 DEF TerminalsElsewhere, HostsAlone, Event, LogInv, JobsFit
  <1>4. ASSUME NEW p \in Procs, EmitCommand(p) PROVE TerminalsElsewhere'
    BY <1>1, <1>4
       DEF EmitCommand, TerminalsElsewhere, HostsAlone, LogInv, JobsFit
  <1>5. ASSUME NEW p \in Procs, Refresh(p) \/ CommandDies(p)
        PROVE  TerminalsElsewhere'
    BY <1>1, <1>5
       DEF Refresh, CommandDies, TerminalsElsewhere, HostsAlone, LogInv, JobsFit
  <1>6. ASSUME NEW s \in Scanners,
               Notified(s) \/ ScanFails(s) \/ ScanOnce(s) \/ EmitScanned(s)
                 \/ RefreshScanned(s)
        PROVE  UNCHANGED job
    BY <1>6 DEF Notified, ScanFails, ScanOnce, EmitScanned, RefreshScanned
  <1>7. CASE Supervision \/ Ask \/ HookBypassed \/ Hook \/ Edit \/ EditByHand
               \/ ToggleSwitch \/ UNCHANGED vars
    <2>1. UNCHANGED job
      BY <1>7 DEF Supervision, Ask, HookBypassed, Hook, Edit, EditByHand,
                  ToggleSwitch, vars
    <2> QED
      BY <1>2, <2>1
  <1> QED
    BY <1>2, <1>3, <1>4, <1>5, <1>6, <1>7 DEF Next, Scanners

\* What no scan looks for makes nothing it looks for seen.
LEMMA RecordElsewhere ==
  ASSUME LogInv, NEW e, e.type \notin Observed, Record(e)
  PROVE  seen' = seen
  BY DEF Record, LogInv

LEMMA MissingStepwise ==
  ASSUME LogInv, HostInv, OnceInv, [Next]_vars
  PROVE  StillMissing'
  <1>1. agenda' = agenda
    BY DEF Next, vars, Build, EmitCommand, Refresh, CommandDies, Notified,
           ScanFails, ScanOnce, EmitScanned, RefreshScanned, Supervision, Ask,
           HookBypassed, Hook, Edit, EditByHand, ToggleSwitch
  <1> SUFFICES ASSUME HostsAlone PROVE StillMissing'
    BY <1>1 DEF StillMissing, HostsAlone
  <1>2. \A s \in Scanners : scan[s] # None => s \in Hosts
    BY DEF OnceInv, StillMissing, Scanners
  <1>3. ASSUME UNCHANGED <<host, scan, seen>> PROVE StillMissing'
    BY <1>1, <1>3 DEF OnceInv, StillMissing, HostsAlone
  <1>4. ASSUME NEW p \in Procs,
               Build(p) \/ EmitCommand(p) \/ Refresh(p) \/ CommandDies(p)
        PROVE  UNCHANGED <<host, scan, seen>>
    <2>1. CASE EmitCommand(p)
      <3>1. Record(job[p].event) => seen' = seen
        BY <2>1, RecordElsewhere DEF EmitCommand, OnceInv, TerminalsElsewhere
      <3> QED
        BY <2>1, <3>1 DEF EmitCommand, hostVars, log
    <2>2. CASE Build(p) \/ Refresh(p) \/ CommandDies(p)
      BY <2>2 DEF Build, Refresh, CommandDies, hostVars, log
    <2> QED
      BY <1>4, <2>1, <2>2
  <1>5. ASSUME NEW h \in Hosts, Notified(h) PROVE StillMissing'
    <2>1. BeginScan(h) /\ host[h] = "watching" /\ UNCHANGED <<host, seen>>
      BY <1>5 DEF Notified, hostVars, log
    <2>2. CASE AllUnseen = {}
      BY <1>3, <2>1, <2>2 DEF BeginScan
    <2>3. CASE AllUnseen # {}
      <3>1. scan' = [scan EXCEPT ![h] = [pc |-> "emit", left |-> AllUnseen]]
        BY <2>1, <2>3 DEF BeginScan
      <3>2. \A c \in Clients : c # h
        BY HostAssumption
      <3> HIDE DEF AllUnseen
      <3> QED
        BY <1>1, <2>1, <3>1, <3>2, UnseenFits
           DEF OnceInv, StillMissing, HostsAlone, LogInv, ScansFit, Scanners,
               Holding
    <2> QED
      BY <2>2, <2>3
  <1>6. ASSUME NEW h \in Hosts, ScanFails(h) PROVE StillMissing'
    BY <1>1, <1>6 DEF ScanFails, hostVars, log, OnceInv, StillMissing,
                      HostsAlone, LogInv, ScansFit, Scanners
  <1>7. ASSUME NEW s \in Scanners, EmitScanned(s) PROVE StillMissing'
    <2>1. s \in Hosts /\ scan[s] # None /\ UNCHANGED host
      BY <1>2, <1>7 DEF EmitScanned
    <2>2. PICK e \in scan[s].left :
            \/ /\ Record(e)
               /\ scan' = [scan EXCEPT ![s] =
                             [pc |-> "refresh", left |-> scan[s].left \ {e}]]
            \/ /\ scan' = [scan EXCEPT ![s] = Rest(scan[s].left \ {e})]
               /\ UNCHANGED seen
      BY <1>7, <2>1 DEF EmitScanned, log
    <2>3. \A c \in Clients : c # s
      BY <2>1, HostAssumption
    <2>4. \A h \in Hosts : scan[h] # None => h = s
      BY <2>1, OneScanner DEF OnceInv
    <2>5. \A h \in Hosts : scan'[h] # None => h = s
      BY <2>2, <2>4 DEF LogInv, ScansFit, Scanners
    <2>6. scan'[s] # None => scan'[s].left = scan[s].left \ {e}
      BY <2>2 DEF LogInv, ScansFit, Rest
    <2>7. \A c \in Clients : scan'[c] = None
      BY <2>2, <2>3 DEF LogInv, ScansFit, Scanners, OnceInv, StillMissing
    <2>8. \A d \in scan[s].left \ {e} : d.type \in Observed \ seen'[d.change]
      <3>1. SUFFICES ASSUME NEW d \in scan[s].left \ {e}
                     PROVE  d.type \in Observed \ seen'[d.change]
        OBVIOUS
      <3>2. d.type \in Observed \ seen[d.change]
            /\ ~(d.change = e.change /\ d.type = e.type)
        BY <2>1, <2>2 DEF OnceInv, StillMissing
      <3>3. seen'[d.change] \subseteq
              IF d.change = e.change THEN seen[d.change] \cup {e.type}
                                     ELSE seen[d.change]
        <4>1. d.change \in Changes
          BY <2>1, <2>2 DEF LogInv, ScansFit, Events
        <4> QED
          BY <2>2, <4>1 DEF Record, LogInv
      <3> QED
        BY <3>2, <3>3
    <2> QED
      BY <1>1, <2>1, <2>5, <2>6, <2>7, <2>8
         DEF OnceInv, StillMissing, HostsAlone
  <1>8. ASSUME NEW s \in Scanners, RefreshScanned(s) PROVE StillMissing'
    <2>1. s \in Hosts /\ scan[s] # None /\ UNCHANGED <<host, seen>>
      BY <1>2, <1>8 DEF RefreshScanned, log
    <2>2. scan' = [scan EXCEPT ![s] = Rest(scan[s].left)]
      BY <1>8 DEF RefreshScanned
    <2>3. \A c \in Clients : c # s
      BY <2>1, HostAssumption
    <2> QED
      BY <1>1, <2>1, <2>2, <2>3
         DEF OnceInv, StillMissing, HostsAlone, LogInv, ScansFit, Scanners, Rest
  <1>9. ASSUME NEW c \in Clients PROVE ~ScanOnce(c)
    BY DEF ScanOnce, HostsAlone
  <1>10. CASE Supervision
    <2>1. Persistent /\ UNCHANGED seen
      BY <1>10, SupervisionPersistent DEF Supervision, log
    <2>2. \A s \in Scanners : scan'[s] # None =>
            /\ scan'[s] = scan[s]
            /\ s \in Hosts => host'[s] # "gone"
      BY <1>10 DEF Supervision, Reaped
    <2>3. \A c \in Clients : scan'[c] = None
      BY <1>10, HostAssumption
         DEF Supervision, Reaped, OnceInv, StillMissing, Scanners
    <2> QED
      BY <1>1, <2>1, <2>2, <2>3
         DEF OnceInv, StillMissing, HostsAlone, Persistent, Scanners
  <1>11. CASE HookBypassed
    <2>1. UNCHANGED <<host, scan>>
      BY <1>11 DEF HookBypassed, hostVars
    <2>2. seen' = seen
      <3>1. \A c : Record(Event(c, "gate_bypassed", {})) => seen' = seen
        <4>1. \A c : Event(c, "gate_bypassed", {}).type \notin Observed
          BY DEF Event, Observed
        <4> QED
          BY <4>1, RecordElsewhere
      <3> QED
        BY <1>11, <3>1 DEF HookBypassed, log
    <2> QED
      BY <1>3, <2>1, <2>2
  <1>12. CASE Ask \/ Hook \/ Edit \/ EditByHand \/ ToggleSwitch \/ UNCHANGED vars
    <2>1. UNCHANGED <<host, scan, seen>>
      BY <1>12 DEF Ask, Hook, Edit, EditByHand, ToggleSwitch, vars, hostVars, log
    <2> QED
      BY <1>3, <2>1
  <1> QED
    BY <1>3, <1>4, <1>5, <1>6, <1>7, <1>8, <1>9, <1>10, <1>11, <1>12 DEF Next

\* A step in which a scan goes on and the log grows records something new.
LEMMA ScanRecordsNew ==
  ASSUME LogInv, HostInv, OnceInv, HostsAlone, [Next]_vars
  PROVE  ScanStep
  <1> SUFFICES ASSUME NEW h \in Hosts,
                      scan[h] # None, scan'[h] # scan[h], truth' # truth
               PROVE  seen' # seen
    BY DEF ScanStep
  <1>1. PICK s \in Scanners : EmitScanned(s)
    <2>1. ASSUME NEW p \in Procs,
                 Build(p) \/ EmitCommand(p) \/ Refresh(p) \/ CommandDies(p)
          PROVE  UNCHANGED scan
      BY <2>1 DEF Build, EmitCommand, Refresh, CommandDies
    <2>2. ASSUME NEW g \in Hosts, Notified(g) \/ ScanFails(g)
          PROVE  UNCHANGED truth
      BY <2>2 DEF Notified, ScanFails, log
    <2>3. ASSUME NEW s \in Scanners, ScanOnce(s) \/ RefreshScanned(s)
          PROVE  UNCHANGED truth
      BY <2>3 DEF ScanOnce, RefreshScanned, log
    <2>4. CASE Supervision \/ Ask \/ Hook \/ Edit \/ EditByHand \/ ToggleSwitch
                 \/ UNCHANGED vars
      <3>1. UNCHANGED truth
        BY <2>4 DEF Supervision, Ask, Hook, Edit, EditByHand, ToggleSwitch,
                    log, vars
      <3> QED
        BY <3>1
    <2>5. CASE HookBypassed
      BY <2>5 DEF HookBypassed
    <2> QED
      BY <2>1, <2>2, <2>3, <2>4, <2>5 DEF Next, Scanners
  <1>2. s = h
    BY <1>1 DEF EmitScanned, LogInv, ScansFit, Scanners
  <1>3. PICK e \in scan[h].left : Record(e)
    BY <1>1, <1>2 DEF EmitScanned, log
  <1>4. e.type \in Observed /\ e.type \notin seen[e.change] /\ e.change \in Changes
    BY <1>3 DEF OnceInv, StillMissing, LogInv, ScansFit, Scanners, Events
  <1> QED
    BY <1>3, <1>4 DEF Record, LogInv

\* Where nobody else records what a scan looks for, no scan of a host records
\* the same thing twice, whatever hosts are started, stopped and killed: the
\* lock leaves one of them scanning, and it reads the log before it emits
\* (framework_observer._observe_and_emit).
THEOREM HostsAlwaysRecordOnce == Spec => HostsRecordOnce
  <1>1. Init => HostInv /\ OnceInv
    BY InitHost DEF Init, OnceInv, StillMissing, TerminalsElsewhere, Scanners
  <1>2. LogInv /\ HostInv /\ OnceInv /\ [Next]_vars => HostInv' /\ OnceInv'
    BY HostStepwise, MissingStepwise, ElsewhereStepwise DEF OnceInv
  <1>3. LogInv /\ HostInv /\ OnceInv /\ [Next]_vars
          => (HostsAlone => ScanStep)
    BY ScanRecordsNew
  <1>4. [HostsAlone => ScanStep]_vars
          => [agenda.cmds \cap {"scan"} = {} /\ agenda.types \cap Observed = {}
                => ScanStep]_vars
    BY DEF HostsAlone
  <1> QED
    BY <1>1, <1>2, <1>3, <1>4, EnforcementInduction, PTL
       DEF Spec, HostsRecordOnce

-----------------------------------------------------------------------------
(* The commands, and the rest of the types.                                *)

ClientType ==
  [cmd : {Absent, "start", "stop", "status", "scan"},
   at : ProbePoints \cup {"idle", "spawn", "read", "kill", "scan"},
   pid : Hosts \cup {Absent},
   answer : Hosts \cup {Absent, "failed", "stopped", "not running", "timeout",
                        "done"}]

\* Where a command can be, by its kind; a probe under way is a command's, and
\* so is a scan.
Placed(k) ==
  /\ k \in ClientType
  /\ k.at \in ProbePoints => k.cmd \in {"start", "stop", "status"}
  /\ k.at \in {"spawn", "poll"} => k.cmd = "start"
  /\ k.at \in {"again", "wait", "last"} => k.cmd = "stop"
  /\ k.at = "kill" => k.cmd = "stop" /\ k.pid \in Hosts
ClientInv ==
  /\ client \in [Clients -> ClientType]
  /\ probing \subseteq Clients
  /\ \A c \in Clients :
       /\ Placed(client[c])
       /\ c \in probing => client[c].at \in ProbePoints
       /\ scan[c] # None => client[c].at = "scan"

\* A command that answers is done.
LEMMA AnswerPlaced ==
  ASSUME NEW answer \in Hosts \cup {Absent, "failed", "stopped", "not running",
                                    "timeout", "done"}
  PROVE  Placed(Answer(answer)) /\ Answer(answer).at = "idle"
  BY DEF Placed, ClientType, Answer, Resting, ProbePoints

LEMMA ProbeAnswered ==
  ASSUME NEW c \in Clients, ClientInv, client[c].at \in ProbePoints,
         NEW running \in BOOLEAN
  PROVE  /\ Placed(AfterProbe(c, running))
         /\ AfterProbe(c, running).at # "scan"
  <1>1. Placed(client[c])
    BY DEF ClientInv
  <1>2. \A place \in {"poll", "spawn"} :
          client[c].cmd = "start" => Placed(At(c, place)) /\ At(c, place).at = place
    BY <1>1 DEF Placed, ClientType, At, ProbePoints
  <1>3. \A place \in {"again", "wait"} :
          client[c].cmd = "stop" => Placed(At(c, place)) /\ At(c, place).at = place
    BY <1>1 DEF Placed, ClientType, At, ProbePoints
  <1>4. Placed(At(c, "read")) /\ At(c, "read").at = "read"
    BY <1>1 DEF Placed, ClientType, At, ProbePoints
  <1>5. /\ client[c].cmd \in {"start", "stop", "status"}
        /\ client[c].cmd = "start" => client[c].at \in {"ask", "poll"}
        /\ client[c].cmd = "stop" => client[c].at \in {"ask", "again", "wait", "last"}
    BY <1>1 DEF Placed, ProbePoints
  <1>6. CASE client[c].cmd = "start"
    <2>1. AfterProbe(c, running) \in {At(c, "poll"), At(c, "spawn"), At(c, "read")}
      BY <1>5, <1>6 DEF AfterProbe
    <2> QED
      BY <1>2, <1>4, <1>6, <2>1
  <1>7. CASE client[c].cmd = "status"
    <2>1. AfterProbe(c, running) \in {At(c, "read"), Answer("not running")}
      BY <1>7 DEF AfterProbe
    <2> QED
      BY <1>4, <2>1, AnswerPlaced
  <1>8. CASE client[c].cmd = "stop"
    <2>1. AfterProbe(c, running)
            \in {At(c, "again"), At(c, "wait"), At(c, "read"),
                 Answer("not running"), Answer("stopped"), Answer("timeout")}
      BY <1>5, <1>8 DEF AfterProbe
    <2> QED
      BY <1>3, <1>4, <1>8, <2>1, AnswerPlaced
  <1> QED
    BY <1>5, <1>6, <1>7, <1>8

\* A step that takes one command to another place.
LEMMA CommandMoves ==
  ASSUME ClientInv, NEW c \in Clients, NEW k, Placed(k),
         client' = [client EXCEPT ![c] = k],
         probing' \subseteq probing \cup {c},
         c \in probing' => k.at \in ProbePoints,
         \A d \in Clients \ {c} : scan'[d] # None => scan[d] # None,
         scan'[c] # None => k.at = "scan"
  PROVE  ClientInv'
  <1>1. k \in ClientType
    BY DEF Placed
  <1>2. /\ client'[c] = k
        /\ \A d \in Clients \ {c} : client'[d] = client[d]
        /\ client' \in [Clients -> ClientType]
    BY <1>1 DEF ClientInv
  <1>3. Placed(client'[c])
    BY <1>2
  <1>4. \A d \in Clients \ {c} :
          /\ Placed(client'[d])
          /\ d \in probing' => client'[d].at \in ProbePoints
          /\ scan'[d] # None => client'[d].at = "scan"
    BY <1>2 DEF ClientInv
  <1> QED
    BY <1>2, <1>3, <1>4 DEF ClientInv

LEMMA SupervisePlaced ==
  ASSUME ClientInv, HostInv, NEW c \in Clients, Supervise(c), LogInv,
         \A d \in Clients : scan'[d] # None => scan[d] # None
  PROVE  ClientInv'
  <1>1. Placed(client[c])
    BY DEF ClientInv
  <1>2. CASE \E cmd \in {"start", "stop", "status"} : Observe(c, cmd)
    <2>1. PICK cmd \in {"start", "stop", "status"} : Observe(c, cmd)
      BY <1>2
    <2> DEFINE k == [Resting EXCEPT !.cmd = cmd, !.at = "ask"]
    <2>2. Placed(k) /\ k.at \in ProbePoints
      BY DEF Placed, ClientType, Resting, ProbePoints
    <2>3. client' = [client EXCEPT ![c] = k] /\ UNCHANGED probing
      BY <2>1 DEF Observe, Begin
    <2>4. scan[c] = None
      BY <2>1 DEF Observe, Begin, ClientInv
    <2> HIDE DEF k
    <2> QED
      BY <2>2, <2>3, <2>4, CommandMoves
  <1>3. CASE Probe(c)
    <2>1. client[c].at \in ProbePoints /\ scan[c] = None
      BY <1>3 DEF Probe, ClientInv, ProbePoints
    <2>2. CASE UNCHANGED client /\ probing' = probing \cup {c}
      BY <2>1, <2>2 DEF ClientInv
    <2>3. CASE client' = [client EXCEPT ![c] = AfterProbe(c, Holders # {})]
               /\ UNCHANGED probing /\ c \notin probing
      BY <2>1, <2>3, ProbeAnswered, CommandMoves
    <2> QED
      BY <1>3, <2>2, <2>3 DEF Probe
  <1>4. CASE Release(c)
    <2>1. client[c].at \in ProbePoints /\ scan[c] = None
      BY <1>4 DEF Release, ClientInv, ProbePoints
    <2> QED
      BY <1>4, <2>1, ProbeAnswered, CommandMoves DEF Release
  <1>5. CASE Spawn(c)
    <2>1. Placed(At(c, "poll")) /\ At(c, "poll").at = "poll"
      BY <1>1, <1>5 DEF Spawn, Placed, ClientType, At, ProbePoints
    <2>2. scan[c] = None
      BY <1>5 DEF Spawn, ClientInv
    <2> QED
      BY <1>5, <2>1, <2>2, CommandMoves DEF Spawn, ProbePoints
  <1>6. CASE ReadPid(c)
    <2> DEFINE pid == pidfile.pid
               stopping == [At(c, "kill") EXCEPT !.pid = pid]
    <2>1. pid \in Hosts \cup {Absent}
      BY DEF HostInv
    <2>2. PICK k : /\ client' = [client EXCEPT ![c] = k]
                   /\ \/ k = Answer("stopped")
                      \/ k = stopping /\ client[c].cmd = "stop" /\ pid # Absent
                      \/ k = At(c, "poll") /\ client[c].cmd = "start"
                      \/ k = Answer(pid)
      <3>1. \E k : /\ client' = [client EXCEPT ![c] = k]
                   /\ k = CASE client[c].cmd = "stop" /\ pid = Absent
                                 -> Answer("stopped")
                            [] client[c].cmd = "stop" /\ pid # Absent -> stopping
                            [] client[c].cmd = "start" /\ pid = Absent
                                 -> At(c, "poll")
                            [] OTHER -> Answer(pid)
        BY <1>6 DEF ReadPid
      <3> QED
        BY <3>1
    <2>3. k = stopping /\ client[c].cmd = "stop" /\ pid # Absent
            => Placed(k) /\ k.at = "kill"
      BY <1>1, <2>1 DEF Placed, ClientType, At, ProbePoints
    <2>4. k = At(c, "poll") /\ client[c].cmd = "start"
            => Placed(k) /\ k.at = "poll"
      BY <1>1 DEF Placed, ClientType, At, ProbePoints
    <2>5. Placed(k)
      BY <2>1, <2>2, <2>3, <2>4, AnswerPlaced
    <2>6. scan[c] = None /\ c \notin probing /\ UNCHANGED probing
      BY <1>6 DEF ReadPid, ClientInv, ProbePoints
    <2> QED
      BY <2>2, <2>5, <2>6, CommandMoves
  <1>7. CASE Kill(c)
    <2>1. Placed(At(c, "wait"))
      BY <1>1, <1>7 DEF Kill, Placed, ClientType, At, ProbePoints
    <2>2. scan[c] = None /\ c \notin probing /\ UNCHANGED probing
      BY <1>7 DEF Kill, ClientInv, ProbePoints
    <2>3. \/ client' = [client EXCEPT ![c] = Answer("stopped")]
          \/ client' = [client EXCEPT ![c] = At(c, "wait")]
      BY <1>7 DEF Kill
    <2> QED
      BY <2>1, <2>2, <2>3, AnswerPlaced, CommandMoves
  <1>8. CASE GiveUp(c)
    <2>1. client[c].cmd = "stop" => Placed(At(c, "last"))
      BY <1>1 DEF Placed, ClientType, At, ProbePoints
    <2>2. scan[c] = None /\ c \notin probing /\ UNCHANGED probing
      BY <1>8 DEF GiveUp, ClientInv
    <2>3. \/ client' = [client EXCEPT ![c] = Answer("failed")]
          \/ client[c].cmd = "stop" /\ client' = [client EXCEPT ![c] = At(c, "last")]
      BY <1>8 DEF GiveUp
    <2> QED
      BY <2>1, <2>2, <2>3, AnswerPlaced, CommandMoves
  <1> QED
    BY <1>2, <1>3, <1>4, <1>5, <1>6, <1>7, <1>8 DEF Supervise

LEMMA ClientStepwise ==
  ASSUME ClientInv, HostInv, LogInv, [Next]_vars
  PROVE  ClientInv'
  <1>1. ASSUME UNCHANGED <<client, probing>>,
               \A c \in Clients : scan'[c] # None => scan[c] # None
        PROVE  ClientInv'
    BY <1>1 DEF ClientInv
  <1>2. ASSUME NEW p \in Procs,
               Build(p) \/ EmitCommand(p) \/ Refresh(p) \/ CommandDies(p)
        PROVE  UNCHANGED <<client, probing, scan>>
    BY <1>2 DEF Build, EmitCommand, Refresh, CommandDies, hostVars
  <1>3. ASSUME NEW h \in Hosts, Notified(h) \/ ScanFails(h) PROVE ClientInv'
    <2>1. \A c \in Clients : scan'[c] = scan[c]
      BY <1>3, HostAssumption
         DEF Notified, ScanFails, BeginScan, LogInv, ScansFit, Scanners
    <2> QED
      BY <1>1, <1>3, <2>1 DEF Notified, ScanFails, hostVars
  <1>4. ASSUME NEW c \in Clients, ScanOnce(c) PROVE ClientInv'
    <2> DEFINE k == IF AllUnseen = {} THEN Answer("done")
                    ELSE [Resting EXCEPT !.cmd = "scan", !.at = "scan"]
    <2>1. /\ client' = [client EXCEPT ![c] = k]
          /\ UNCHANGED probing
          /\ client[c].at = "idle"
          /\ BeginScan(c)
      BY <1>4 DEF ScanOnce
    <2>2. scan[c] = None /\ c \notin probing
      BY <2>1 DEF ClientInv, ProbePoints
    <2>3. CASE AllUnseen = {}
      <3>1. UNCHANGED scan
        BY <2>1, <2>3 DEF BeginScan
      <3>2. Placed(k)
        BY <2>3, AnswerPlaced
      <3> QED
        BY <2>1, <2>2, <3>1, <3>2, CommandMoves
    <2>4. CASE AllUnseen # {}
      <3>1. k = [Resting EXCEPT !.cmd = "scan", !.at = "scan"]
        BY <2>4
      <3>2. Placed(k) /\ k.at = "scan"
        BY <3>1 DEF Placed, ClientType, Resting, ProbePoints
      <3>3. \A d \in Clients : d # c => scan'[d] = scan[d]
        BY <2>1, <2>4 DEF BeginScan, LogInv, ScansFit, Scanners
      <3> HIDE DEF k, AllUnseen
      <3> QED
        BY <2>1, <2>2, <3>2, <3>3, CommandMoves
    <2> QED
      BY <2>3, <2>4
  <1>5. ASSUME NEW s \in Scanners, EmitScanned(s) \/ RefreshScanned(s)
        PROVE  ClientInv'
    <2>1. scan[s] # None /\ UNCHANGED probing
      BY <1>5 DEF EmitScanned, RefreshScanned
    <2>2. /\ \A c \in Clients : c # s => scan'[c] = scan[c]
          /\ \A c \in Clients : scan'[c] # None => scan[c] # None
      BY <1>5, <2>1 DEF EmitScanned, RefreshScanned, LogInv, ScansFit, Scanners
    <2>3. CASE UNCHANGED client
      BY <1>1, <2>1, <2>2, <2>3
    <2>4. CASE s \in Clients /\ scan'[s] = None
               /\ \E answer \in {"failed", "done"} :
                    client' = [client EXCEPT ![s] = Answer(answer)]
      <3>1. s \notin probing
        BY <2>1, <2>4 DEF ClientInv, ProbePoints
      <3> QED
        BY <2>1, <2>2, <2>4, <3>1, AnswerPlaced, CommandMoves
    <2>5. CASE EmitScanned(s)
      <3>1. s \notin Hosts => s \in Clients
        BY DEF Scanners
      <3>2. \/ UNCHANGED client
            \/ /\ s \notin Hosts
               /\ scan' = [scan EXCEPT ![s] = None]
               /\ client' = [client EXCEPT ![s] = Answer("failed")]
        BY <2>5 DEF EmitScanned
      <3> QED
        BY <2>3, <2>4, <3>1, <3>2 DEF LogInv, ScansFit
    <2>6. CASE RefreshScanned(s)
      <3>1. \/ UNCHANGED client
            \/ /\ s \in Clients /\ scan[s].left = {}
               /\ client' = [client EXCEPT ![s] = Answer("done")]
        BY <2>6 DEF RefreshScanned
      <3>2. scan' = [scan EXCEPT ![s] = Rest(scan[s].left)]
        BY <2>6 DEF RefreshScanned
      <3>3. scan[s].left = {} => scan'[s] = None
        BY <3>2 DEF Rest, LogInv, ScansFit
      <3> QED
        BY <2>3, <2>4, <3>1, <3>3
    <2> QED
      BY <1>5, <2>5, <2>6
  <1>6. CASE Supervision
    <2>1. \A c \in Clients : scan'[c] # None => scan[c] # None
      BY <1>6 DEF Supervision, Reaped, Scanners
    <2>2. ASSUME NEW h \in Hosts, HostStep(h) \/ Die(h)
          PROVE  UNCHANGED <<client, probing>>
      BY <2>2 DEF HostStep, Die, OpenPidfile, LockPidfile, Truncate, WritePid,
                  ServeTree, Serve, Exit, Advance
    <2> QED
      BY <1>1, <1>6, <2>1, <2>2, SupervisePlaced DEF Supervision
  <1>7. CASE Ask \/ HookBypassed \/ Hook \/ Edit \/ EditByHand \/ ToggleSwitch
               \/ UNCHANGED vars
    <2>1. UNCHANGED <<client, probing, scan>>
      BY <1>7 DEF Ask, HookBypassed, Hook, Edit, EditByHand, ToggleSwitch, vars,
                  hostVars
    <2> QED
      BY <1>1, <2>1
  <1> QED
    BY <1>1, <1>2, <1>3, <1>4, <1>5, <1>6, <1>7 DEF Next

\* What is written, whom the watchers tell, the switch, and whether the
\* clearance is overtaken.
FilesInv ==
  /\ written \subseteq Files /\ notified \subseteq Hosts
  /\ disabled \in BOOLEAN /\ overtaken \in BOOLEAN

LEMMA FilesStepwise ==
  ASSUME FilesInv, LogInv, AgentInv, [Next]_vars
  PROVE  FilesInv'
  <1>1. ASSUME NEW f \in Files, Touch(f)
        PROVE  written' \subseteq Files /\ notified' \subseteq Hosts
    BY <1>1 DEF Touch, FilesInv
  <1>2. ASSUME NEW p \in Procs,
               Build(p) \/ EmitCommand(p) \/ Refresh(p) \/ CommandDies(p)
        PROVE  FilesInv'
    BY <1>2 DEF Build, EmitCommand, Refresh, CommandDies, FilesInv, Record
  <1>3. ASSUME NEW s \in Scanners,
               Notified(s) \/ ScanFails(s) \/ ScanOnce(s) \/ EmitScanned(s)
                 \/ RefreshScanned(s)
        PROVE  FilesInv'
    BY <1>3 DEF Notified, ScanFails, ScanOnce, EmitScanned, RefreshScanned,
                FilesInv, Record
  <1>4. CASE Supervision
    BY <1>4 DEF Supervision, Reaped, FilesInv
  <1>5. CASE Edit \/ EditByHand
    <2>1. CASE Edit
      <3>1. \/ UNCHANGED <<written, notified>>
            \/ agent.file \in Files /\ Touch(agent.file)
        BY <2>1 DEF Edit, AgentInv
      <3> QED
        BY <1>1, <2>1, <3>1 DEF Edit, FilesInv
    <2>2. CASE EditByHand
      <3>1. \E f \in Files : Touch(f)
        BY <2>2, AgendaAssumption DEF EditByHand, LogInv
      <3> QED
        BY <1>1, <2>2, <3>1 DEF EditByHand, FilesInv
    <2> QED
      BY <1>5, <2>1, <2>2
  <1>6. CASE Ask \/ HookBypassed \/ Hook \/ ToggleSwitch \/ UNCHANGED vars
    BY <1>6 DEF Ask, HookBypassed, Hook, ToggleSwitch, vars, FilesInv, Record
  <1> QED
    BY <1>2, <1>3, <1>4, <1>5, <1>6 DEF Next, Scanners

\* Every variable keeps its type: of the clients this needs which command can
\* be where, of the rest that what is read of state.yaml is a change.
THEOREM TypeCorrect == Spec => []TypeOK
  <1>1. Init => HostInv /\ ClientInv /\ FilesInv
    <2>1. Init => HostInv
      BY InitHost DEF Init
    <2>2. Init => ClientInv
      BY DEF Init, HostInit, ClientInv, Placed, ClientType, Resting,
             ProbePoints, Scanners
    <2>3. Init => FilesInv
      BY DEF Init, FilesInv
    <2> QED
      BY <2>1, <2>2, <2>3
  <1>2. LogInv /\ AgentInv /\ HostInv /\ ClientInv /\ FilesInv /\ [Next]_vars
          => HostInv' /\ ClientInv' /\ FilesInv'
    BY HostStepwise, ClientStepwise, FilesStepwise
  <1>3. LogInv /\ AgentInv /\ HostInv /\ ClientInv /\ FilesInv => TypeOK
    <2>1. HostInv /\ ClientInv => HostTypeOK
      <3>1. ClientInv => client \in [Clients -> ClientType]
        BY DEF ClientInv
      <3> QED
        BY <3>1 DEF HostInv, ClientInv, HostTypeOK, ClientType
    <2> QED
      BY <2>1 DEF LogInv, RecordsFit, JobsFit, ScansFit, AgentInv, FilesInv,
                  TypeOK
  <1> QED
    BY <1>1, <1>2, <1>3, EnforcementInduction, PTL DEF Spec
=============================================================================
