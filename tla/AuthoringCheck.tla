--------------------------- MODULE AuthoringCheck ---------------------------
(***************************************************************************)
(* The checks of the decisions that opted into the authoring loop, run at  *)
(* the end of a turn of the agent: one thread per check, each with what is *)
(* left of one budget, a hook that returns by the end of it.               *)
(*                                                                         *)
(* "now" counts from the entry.  A tick does not pass over a timeout that  *)
(* is due: timers fire on time, while threads are scheduled at any time,   *)
(* or never.                                                               *)
(***************************************************************************)
EXTENDS Naturals, FiniteSets

CONSTANTS
  Decisions,   \* the ids of the decisions, numbered in their order
  Budget,      \* AUTHORING_TOTAL_BUDGET
  Margin,      \* _CLEANUP_MARGIN
  MinSlice,    \* _MIN_SLICE
  Latency,     \* how long a thread may be held up between reading the clock and
               \* starting the command
  Horizon,     \* bound of the model: where its clock stops
  None

Reports == {"satisfied", "violated", "unavailable"}

ASSUME DecisionAssumption == Decisions \subseteq Nat /\ IsFiniteSet(Decisions)
ASSUME TimeAssumption == /\ {Budget, Margin, MinSlice, Latency, Horizon} \subseteq Nat
                         /\ Budget < Horizon
\* What the margin is there to absorb
ASSUME LatencyAssumption == Latency < Margin
ASSUME NoneAssumption == None \notin Nat \cup Reports

VARIABLES
  runnable,  \* the decisions whose check is to run: chosen by load_decisions
  now,       \* the clock
  main,      \* the hook: "load", "spawn", "join", "returned"
  started,   \* the threads started so far
  joined,    \* the threads waited for so far
  worker,    \* what each thread is at
  results,   \* what the threads have recorded, None before
  verdict    \* what the hook returns

vars == <<runnable, now, main, started, joined, worker, results, verdict>>

Deadline == Budget
Waiting == [stage |-> "waiting"]

Init ==
  /\ runnable = {}
  /\ now = 0
  /\ main = "load"
  /\ started = {}
  /\ joined = {}
  /\ worker = [d \in Decisions |-> Waiting]
  /\ results = [d \in Decisions |-> None]
  /\ verdict = None
-----------------------------------------------------------------------------
(* The hook.                                                               *)

Nothing == [violations |-> {}, unavailable |-> {}]

\* The records are read once: opted in, ratified, with a check, and not edited
\* since they were ratified
Load ==
  /\ main = "load"
  /\ \E opted, armed, intact \in SUBSET Decisions :
       runnable' = opted \cap armed \cap intact
  /\ IF runnable' = {}
     THEN main' = "returned" /\ verdict' = Nothing
     ELSE main' = "spawn" /\ UNCHANGED verdict
  /\ UNCHANGED <<now, started, joined, worker, results>>

\* The reading itself failed: nothing is reported but that nothing could be run
FailOpen ==
  /\ main = "load"
  /\ \E ids \in SUBSET Decisions : verdict' = [Nothing EXCEPT !.unavailable = ids]
  /\ main' = "returned"
  /\ UNCHANGED <<runnable, now, started, joined, worker, results>>

First(ds) == CHOOSE d \in ds : \A e \in ds : d <= e

Unstarted == runnable \ started

StartThread ==
  /\ main = "spawn"
  /\ Unstarted # {}
  /\ now < Deadline
  /\ started' = started \cup {First(Unstarted)}
  /\ worker' = [worker EXCEPT ![First(Unstarted)] = [stage |-> "scheduled"]]
  /\ UNCHANGED <<runnable, now, main, joined, results, verdict>>

\* No thread can be had, the time is up, or all are started
StopSpawning ==
  /\ main = "spawn"
  /\ main' = "join"
  /\ UNCHANGED <<runnable, now, started, joined, worker, results, verdict>>

Ended(d) == worker[d].stage = "ended"
Unjoined == started \ joined

\* A bug: the threads are waited for without a limit.
JoinForever ==
  /\ main = "join"
  /\ Unjoined # {}
  /\ Ended(First(Unjoined))
  /\ joined' = joined \cup {First(Unjoined)}
  /\ UNCHANGED <<runnable, now, main, started, worker, results, verdict>>

Join ==
  /\ main = "join"
  /\ Unjoined # {}
  /\ Ended(First(Unjoined)) \/ now >= Deadline
  /\ joined' = joined \cup {First(Unjoined)}
  /\ UNCHANGED <<runnable, now, main, started, worker, results, verdict>>

\* A check without a result, or with one that says it could not run, is no
\* violation
Outcome(d) == IF results[d] = None THEN "unavailable" ELSE results[d]

Collect ==
  /\ main = "join"
  /\ Unjoined = {}
  /\ verdict' = [violations |-> {d \in runnable : Outcome(d) = "violated"},
                 unavailable |-> {d \in runnable : Outcome(d) = "unavailable"}]
  /\ main' = "returned"
  /\ UNCHANGED <<runnable, now, started, joined, worker, results>>
-----------------------------------------------------------------------------
(* The threads.  They outlive the hook for as long as its process takes to *)
(* end.                                                                    *)

Become(d, w) == worker' = [worker EXCEPT ![d] = w]

\* A bug: no time is left to clean up.
SliceToTheEnd(at) ==
  IF at + MinSlice + Margin >= Deadline THEN None ELSE Deadline - at

\* _per_check: what is left for the command, or too little
Slice(at) == IF at + MinSlice + Margin >= Deadline THEN None ELSE Deadline - at - Margin

ReadClock(d) ==
  /\ worker[d].stage = "scheduled"
  /\ Become(d, IF Slice(now) = None THEN [stage |-> "ended"]
               ELSE [stage |-> "starting", timeout |-> Slice(now), since |-> now])
  /\ UNCHANGED <<runnable, now, main, started, joined, results, verdict>>

StartCommand(d) ==
  /\ worker[d].stage = "starting"
  /\ Become(d, [stage |-> "running", until |-> now + worker[d].timeout])
  /\ UNCHANGED <<runnable, now, main, started, joined, results, verdict>>

Finish(d, report) ==
  /\ results' = [results EXCEPT ![d] = report]
  /\ Become(d, [stage |-> "ended"])
  /\ UNCHANGED <<runnable, now, main, started, joined, verdict>>

\* The command could not be started, or the run raised
CannotStart(d) == worker[d].stage = "starting" /\ Finish(d, "unavailable")

CommandEnds(d) == worker[d].stage = "running" /\ \E report \in Reports : Finish(d, report)

\* The process group is killed; reaping it may take a while more
Timeout(d) ==
  /\ worker[d].stage = "running"
  /\ now >= worker[d].until
  /\ Become(d, [stage |-> "reaping"])
  /\ UNCHANGED <<runnable, now, main, started, joined, results, verdict>>

Reaped(d) == worker[d].stage = "reaping" /\ Finish(d, "unavailable")

Overdue(d) ==
  \/ worker[d].stage = "running" /\ now >= worker[d].until
  \/ worker[d].stage = "starting" /\ now >= worker[d].since + Latency

Tick ==
  /\ now < Horizon
  /\ \A d \in Decisions : ~Overdue(d)
  /\ now' = now + 1
  /\ UNCHANGED <<runnable, main, started, joined, worker, results, verdict>>

Hook == Load \/ FailOpen \/ StartThread \/ StopSpawning \/ Join \/ Collect

Thread(d) == \/ ReadClock(d) \/ StartCommand(d) \/ CannotStart(d)
             \/ CommandEnds(d) \/ Timeout(d) \/ Reaped(d)

Next == Hook \/ Tick \/ \E d \in Decisions : Thread(d)

\* Time goes on, the hook is scheduled and timers fire; a thread that has not
\* read the clock may never be scheduled, a command may never end by itself
Fairness ==
  /\ WF_vars(Hook)
  /\ WF_vars(Tick)
  /\ \A d \in Decisions : WF_vars(Timeout(d)) /\ WF_vars(StartCommand(d))

Spec == Init /\ [][Next]_vars /\ Fairness
-----------------------------------------------------------------------------
TypeOK ==
  /\ runnable \subseteq Decisions
  /\ now \in 0 .. Horizon
  /\ main \in {"load", "spawn", "join", "returned"}
  /\ joined \subseteq started /\ started \subseteq runnable
  /\ \A d \in Decisions :
       \/ worker[d].stage \in {"waiting", "scheduled", "reaping", "ended"}
       \/ worker[d].stage = "starting" /\ {worker[d].timeout, worker[d].since} \subseteq Nat
       \/ worker[d].stage = "running" /\ worker[d].until \in Nat
  /\ results \in [Decisions -> Reports \cup {None}]
  /\ verdict # None =>
       verdict \in [violations : SUBSET Decisions, unavailable : SUBSET Decisions]

\* No command of a check outlives the hook, however late the threads were
\* scheduled: each was given what was left when it read the clock less the margin
\* (_per_check, _run_checks_parallel)
NoOrphans ==
  main = "returned" => \A d \in Decisions : worker[d].stage \notin {"starting", "running"}

\* Commands that hang, threads that never run, a load of checks: the hook returns
\* (run_authoring_check)
HookReturns == <>(main = "returned")
=============================================================================
