---------------------------- MODULE ObserverHost ----------------------------
(***************************************************************************)
(* The observer host, a process that stays behind (daemon/server.py), and  *)
(* the commands that start, stop and inspect it (daemon/supervisor.py,     *)
(* cli/observe.py).  They meet in .harness/daemon.pid: the host holds an   *)
(* exclusive advisory lock on it for life and writes its pid into it; a    *)
(* command probes the lock with a shared one of its own.                   *)
(***************************************************************************)
CONSTANTS
  Hosts,      \* process ids, each used once
  Clients,    \* terminals in which `observe` commands are run
  Absent

ASSUME HostAssumption == Hosts \cap Clients = {}

VARIABLES
  host,       \* how far each host has come
  pidfile,    \* whether daemon.pid exists, and the pid in it
  probing,    \* the commands that hold the shared lock
  client      \* what each terminal runs: command, place, pid read, answer

hostVars == <<host, pidfile, probing, client>>

Holding == {"locked", "blank", "named", "watching", "idling", "stopping"}
Stages == Holding \cup {"unborn", "opening", "locking", "lost", "gone"}
Holders == {h \in Hosts : host[h] \in Holding}

ProbePoints == {"ask", "poll", "again", "wait", "last"}
Resting == [cmd |-> Absent, at |-> "idle", pid |-> Absent, answer |-> Absent]

HostTypeOK ==
  /\ host \in [Hosts -> Stages]
  /\ pidfile \in [exists : BOOLEAN, pid : Hosts \cup {Absent}]
  /\ probing \subseteq Clients
  /\ client \in
       [Clients -> [cmd : {Absent, "start", "stop", "status", "scan"},
                    at : ProbePoints \cup {"idle", "spawn", "read", "kill",
                                           "scan"},
                    pid : Hosts \cup {Absent},
                    answer : Hosts \cup {Absent, "failed", "stopped",
                                         "not running", "timeout", "done"}]]

HostInit ==
  /\ host = [h \in Hosts |-> "unborn"]
  /\ pidfile = [exists |-> FALSE, pid |-> Absent]
  /\ probing = {}
  /\ client = [c \in Clients |-> Resting]

-----------------------------------------------------------------------------
\* The commands

At(c, place) == [client[c] EXCEPT !.at = place]
Answer(answer) == [Resting EXCEPT !.answer = answer]

Begin(c, cmd) ==
  /\ client[c].at = "idle"
  /\ client' = [client EXCEPT ![c] = [Resting EXCEPT !.cmd = cmd, !.at = "ask"]]
  /\ UNCHANGED <<host, pidfile, probing>>

\* What a command does with the answer of is_running.
AfterProbe(c, running) ==
  LET cmd == client[c].cmd
      at == client[c].at
  IN  CASE cmd = "start" /\ at = "ask" -> At(c, IF running THEN "poll" ELSE "spawn")
        [] cmd = "start" /\ at = "poll" -> At(c, IF running THEN "read" ELSE "poll")
        [] cmd = "status" -> IF running THEN At(c, "read") ELSE Answer("not running")
        [] cmd = "stop" /\ at = "ask"
             -> IF running THEN At(c, "again") ELSE Answer("not running")
        [] cmd = "stop" /\ at = "again"
             -> IF running THEN At(c, "read") ELSE Answer("stopped")
        [] cmd = "stop" /\ at = "wait"
             -> IF running THEN At(c, "wait") ELSE Answer("stopped")
        [] cmd = "stop" /\ at = "last"
             -> Answer(IF running THEN "timeout" ELSE "stopped")

Probe(c) ==
  /\ client[c].at \in ProbePoints /\ c \notin probing
  /\ IF pidfile.exists /\ Holders = {}
       THEN probing' = probing \cup {c} /\ UNCHANGED client
       ELSE /\ client' = [client EXCEPT ![c] = AfterProbe(c, Holders # {})]
            /\ UNCHANGED probing
  /\ UNCHANGED <<host, pidfile>>

Release(c) ==
  /\ c \in probing
  /\ probing' = probing \ {c}
  /\ client' = [client EXCEPT ![c] = AfterProbe(c, FALSE)]
  /\ UNCHANGED <<host, pidfile>>

Spawn(c) ==
  /\ client[c].at = "spawn"
  /\ \E h \in Hosts : /\ host[h] = "unborn"
                      /\ host' = [host EXCEPT ![h] = "opening"]
  /\ client' = [client EXCEPT ![c] = At(c, "poll")]
  /\ UNCHANGED <<pidfile, probing>>

\* _read_pid: an empty file reads as no pid.
ReadPid(c) ==
  /\ client[c].at = "read"
  /\ LET pid == pidfile.pid
         next == CASE client[c].cmd = "stop" /\ pid = Absent -> Answer("stopped")
                   [] client[c].cmd = "stop" /\ pid # Absent
                        -> [At(c, "kill") EXCEPT !.pid = pid]
                   [] client[c].cmd = "start" /\ pid = Absent -> At(c, "poll")
                   [] OTHER -> Answer(pid)
     IN  client' = [client EXCEPT ![c] = next]
  /\ UNCHANGED <<host, pidfile, probing>>

\* SIGTERM ends a process that has not installed its handler yet.
Kill(c) ==
  /\ client[c].at = "kill"
  /\ LET h == client[c].pid IN
       IF host[h] = "gone"
         THEN /\ client' = [client EXCEPT ![c] = Answer("stopped")]
              /\ UNCHANGED host
         ELSE /\ client' = [client EXCEPT ![c] = At(c, "wait")]
              /\ host' = [host EXCEPT ![h] =
                            IF host[h] \in {"watching", "idling", "stopping"}
                              THEN "stopping" ELSE "gone"]
  /\ UNCHANGED <<pidfile, probing>>

\* The deadline passes.
GiveUp(c) ==
  /\ c \notin probing
  /\ \/ /\ client[c].cmd = "start" /\ client[c].at = "poll"
        /\ client' = [client EXCEPT ![c] = Answer("failed")]
     \/ /\ client[c].cmd = "stop" /\ client[c].at = "wait"
        /\ client' = [client EXCEPT ![c] = At(c, "last")]
  /\ UNCHANGED <<host, pidfile, probing>>

-----------------------------------------------------------------------------
\* The host

Advance(h, from, to) ==
  /\ host[h] = from
  /\ host' = [host EXCEPT ![h] = to]
  /\ UNCHANGED <<probing, client>>

\* A bug: the file is opened for writing afresh, before the lock is held.
OpenTruncating(h) ==
  Advance(h, "opening", "locking") /\ pidfile' = [exists |-> TRUE, pid |-> Absent]

OpenPidfile(h) ==
  Advance(h, "opening", "locking") /\ pidfile' = [pidfile EXCEPT !.exists = TRUE]

\* A bug: the host goes on without the lock.
LockAnyway(h) == Advance(h, "locking", "locked") /\ UNCHANGED pidfile

\* LOCK_EX | LOCK_NB: refused while anyone holds the lock in any mode.
LockPidfile(h) ==
  /\ Advance(h, "locking",
             IF Holders = {} /\ probing = {} THEN "locked" ELSE "lost")
  /\ UNCHANGED pidfile

Truncate(h) ==
  Advance(h, "locked", "blank") /\ pidfile' = [pidfile EXCEPT !.pid = Absent]
WritePid(h) ==
  Advance(h, "blank", "named") /\ pidfile' = [pidfile EXCEPT !.pid = h]

\* Handlers are installed and the watchers started; without a directory to
\* watch, or without a usable configuration, the host idles.
Serve(h) == \E stage \in {"watching", "idling"} :
              Advance(h, "named", stage) /\ UNCHANGED pidfile

\* Watchers are stopped and joined for a bounded time; the lock goes with the
\* process.
Exit(h) == Advance(h, "stopping", "gone") /\ UNCHANGED pidfile

\* kill -9, at any point of its life.
Die(h) ==
  /\ host[h] \notin {"unborn", "lost", "gone"}
  /\ host' = [host EXCEPT ![h] = "gone"]
  /\ UNCHANGED <<pidfile, probing, client>>

-----------------------------------------------------------------------------
\* The pid in the file of a host that serves is its own: losers of the race
\* and their predecessors left it alone (daemonize).
PidNamesHost ==
  \A h \in Hosts :
    host[h] \in {"named", "watching", "idling", "stopping"}
      => pidfile = [exists |-> TRUE, pid |-> h]

\* A host that finds the lock taken has lost to another host: "another host
\* won the race" (daemonize).  It does not hold, and no run checks it: the
\* probe of a command will do (README, Where code and documents disagree).
LoserStep ==
  \A h \in Hosts : host[h] = "locking" /\ host'[h] = "lost" => Holders # {}
HostsYieldToHosts == [][LoserStep]_hostVars

=============================================================================
