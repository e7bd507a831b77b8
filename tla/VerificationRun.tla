--------------------------- MODULE VerificationRun ---------------------------
(***************************************************************************)
(* One run of the verification checks: run_checks and the verdict of       *)
(* src/keepsail/sensors/verification_runner.py, the dispatcher that waits  *)
(* for it (sensors/dispatcher.py) and the command that reports it          *)
(* (cli/verify.py, cli/done.py).                                           *)
(*                                                                         *)
(* Four parties run at once: the pool's workers execute checks, the sensor *)
(* collects their results in the order they were submitted, the dispatcher *)
(* may lose patience, the command waits for both.  Lifecycle takes all of  *)
(* this as one choice, FinishChecks; here it is taken apart.               *)
(***************************************************************************)
EXTENDS Naturals, Sequences, FiniteSets

CONSTANTS
  Checks,       \* how many checks were collected from the three layers
  MaxWorkers,   \* the largest execution.max_parallelism considered
  None          \* no verdict yet

ASSUME RunAssumption ==
  /\ Checks \in Nat
  /\ MaxWorkers \in Nat
  /\ None \notin {"passed", "failed"}

VARIABLES
  config,       \* the loaded verification.yaml, unchanged during the run
  check,        \* what became of every check, by its place in the order
  next,         \* the place run_checks has come to
  results,      \* the places whose result it has collected
  sensor,       \* where the sensor's thread is
  unchanged,    \* whether subject, config and tree were found as before
  verdict,      \* what the sensor made of it
  dispatcher,   \* what the dispatcher made of the sensor
  command       \* what `verify' or `done' reports

vars == <<config, check, next, results, sensor, unchanged, verdict,
          dispatcher, command>>

Config ==
  [mode : {"sequential", "parallel"}, max_parallelism : 0 .. MaxWorkers,
   fail_fast : BOOLEAN, must_pass : [1 .. Checks -> BOOLEAN]]

\* "fail" is every status but "pass": a non-zero exit, a failed launch, a
\* timeout.  "raised" is an exception out of a check (its archive cannot be
\* written).
CheckStatus == {"queued", "running", "pass", "fail", "raised", "cancelled"}

\* "closing" and "unwinding" are the exit of the pool's with-block, waiting
\* for its workers, the latter with an exception under way.
SensorStep ==
  {"starting", "running", "cancelling", "closing", "unwinding", "checked",
   "returned", "raised"}
Ended == {"returned", "raised"}

TypeOK ==
  /\ config \in Config
  /\ check \in [1 .. Checks -> CheckStatus]
  /\ next \in 1 .. Checks + 1
  /\ results \in Seq(1 .. Checks)
  /\ sensor \in SensorStep
  /\ unchanged \in BOOLEAN
  /\ verdict \in {"passed", "failed", None}
  /\ dispatcher \in {"waiting", "handled", "crashed", "timed_out"}
  /\ command \in {"waiting", "passed", "failed", "incomplete"}

Init ==
  /\ config \in Config
  /\ check = [k \in 1 .. Checks |-> "queued"]
  /\ next = 1
  /\ results = <<>>
  /\ sensor = "starting"
  /\ unchanged = TRUE
  /\ verdict = None
  /\ dispatcher = "waiting"
  /\ command = "waiting"

Sequential == config.mode = "sequential"
InState(status) == {k \in 1 .. Checks : check[k] = status}

-----------------------------------------------------------------------------
\* The pool, or in sequential mode the sensor itself.

\* run_checks.  The configuration is not held to a positive parallelism, and
\* an empty pool is refused.
RunChecks ==
  /\ sensor = "starting"
  /\ sensor' = IF Checks > 0 /\ ~Sequential /\ config.max_parallelism = 0
                 THEN "raised" ELSE "running"
  /\ UNCHANGED <<config, check, next, results, unchanged, verdict, dispatcher,
                 command>>

\* A free worker takes the oldest check of the queue, also while the sensor
\* is leaving the pool.
WorkerFree ==
  /\ sensor \in {"running", "cancelling", "closing", "unwinding"}
  /\ Cardinality(InState("running")) < config.max_parallelism

StartCheck(k) ==
  /\ check[k] = "queued"
  /\ \A j \in 1 .. k - 1 : check[j] # "queued"
  /\ IF Sequential THEN sensor = "running" /\ k = next ELSE WorkerFree
  /\ check' = [check EXCEPT ![k] = "running"]
  /\ UNCHANGED <<config, next, results, sensor, unchanged, verdict, dispatcher,
                 command>>

\* How the execution of a command can go: whether it was launched, its exit
\* code, and whether all that hold its output ended within the timeout.
Executions == [launched : BOOLEAN, exit : {0, 1}, ended : BOOLEAN]

\* run_command and run_check: a leader that exits with 0 while a descendant
\* keeps its output open is a timeout, and no success.
Status(x) == IF x.launched /\ x.ended /\ x.exit = 0 THEN "pass" ELSE "fail"

EndCheck(k) ==
  /\ check[k] = "running"
  /\ \E x \in Executions : check' = [check EXCEPT ![k] = Status(x)]
  /\ UNCHANGED <<config, next, results, sensor, unchanged, verdict, dispatcher,
                 command>>

RaiseCheck(k) ==
  /\ check[k] = "running"
  /\ check' = [check EXCEPT ![k] = "raised"]
  /\ UNCHANGED <<config, next, results, sensor, unchanged, verdict, dispatcher,
                 command>>

-----------------------------------------------------------------------------
\* The sensor collects results in the order of submission.

\* A must_pass check that did not pass, under fail_fast.
Fatal(k) == config.fail_fast /\ config.must_pass[k] /\ check[k] # "pass"

\* A bug: results taken as they complete, the rest given up at a failure.
CollectCompleted ==
  /\ sensor = "running"
  /\ next <= Checks
  /\ \E k \in 1 .. Checks :
       /\ check[k] \in {"pass", "fail"}
       /\ \A i \in DOMAIN results : results[i] # k
       /\ results' = Append(results, k)
       /\ sensor' = IF Fatal(k) THEN "closing" ELSE "running"
  /\ next' = next + 1
  /\ UNCHANGED <<config, check, unchanged, verdict, dispatcher, command>>

\* future.result() of the next check, or the return of task.run().
Collect ==
  /\ sensor = "running"
  /\ next <= Checks
  /\ check[next] \in {"pass", "fail"}
  /\ results' = Append(results, next)
  /\ next' = next + 1
  /\ sensor' = CASE ~Fatal(next) -> "running"
                 [] Fatal(next) /\ Sequential -> "checked"
                 [] Fatal(next) /\ ~Sequential -> "cancelling"
  /\ UNCHANGED <<config, check, unchanged, verdict, dispatcher, command>>

\* The exception of a check comes out of future.result(), or of task.run().
CollectRaised ==
  /\ sensor = "running"
  /\ next <= Checks
  /\ check[next] = "raised"
  /\ sensor' = IF Sequential THEN "raised" ELSE "unwinding"
  /\ UNCHANGED <<config, check, next, results, unchanged, verdict, dispatcher,
                 command>>

EndOfChecks ==
  /\ sensor = "running"
  /\ next > Checks
  /\ sensor' = IF Sequential THEN "checked" ELSE "closing"
  /\ UNCHANGED <<config, check, next, results, unchanged, verdict, dispatcher,
                 command>>

\* future.cancel(), which only a check still queued obeys.
Cancel ==
  /\ sensor = "cancelling"
  /\ IF next > Checks
       THEN sensor' = "closing" /\ UNCHANGED <<check, next>>
       ELSE /\ check' = [check EXCEPT
                           ![next] = IF @ = "queued" THEN "cancelled" ELSE @]
            /\ next' = next + 1
            /\ UNCHANGED sensor
  /\ UNCHANGED <<config, results, unchanged, verdict, dispatcher, command>>

\* A bug: the pool left without waiting for its workers.
LeavePoolAtOnce ==
  /\ sensor \in {"closing", "unwinding"}
  /\ sensor' = IF sensor = "closing" THEN "checked" ELSE "raised"
  /\ UNCHANGED <<config, check, next, results, unchanged, verdict, dispatcher,
                 command>>

\* The with-block waits for every check that was not cancelled.
LeavePool ==
  /\ sensor \in {"closing", "unwinding"}
  /\ InState("queued") \cup InState("running") = {}
  /\ sensor' = IF sensor = "closing" THEN "checked" ELSE "raised"
  /\ UNCHANGED <<config, check, next, results, unchanged, verdict, dispatcher,
                 command>>

\* A bug: advisory checks count.
AllPassed == \A i \in DOMAIN results : check[results[i]] = "pass"

AllPassMust ==
  \A i \in DOMAIN results :
    config.must_pass[results[i]] => check[results[i]] = "pass"

\* The rest of VerificationRunner.check: compare, archive, judge.  Without an
\* approval nothing is compared, which is as if nothing had changed.
Judge ==
  /\ sensor = "checked"
  /\ \E same, archived \in BOOLEAN :
       IF archived
         THEN /\ sensor' = "returned"
              /\ unchanged' = same
              /\ verdict' = IF AllPassMust /\ same THEN "passed" ELSE "failed"
         ELSE sensor' = "raised" /\ UNCHANGED <<unchanged, verdict>>
  /\ UNCHANGED <<config, check, next, results, dispatcher, command>>

-----------------------------------------------------------------------------
\* The dispatcher's answer to its one sensor.

Handle ==
  /\ dispatcher = "waiting"
  /\ sensor = "returned"
  /\ dispatcher' = "handled"
  /\ UNCHANGED <<config, check, next, results, sensor, unchanged, verdict,
                 command>>

\* A bug: only what the checks raise is caught.
SensorCrashedInCheck ==
  /\ dispatcher = "waiting"
  /\ sensor = "raised"
  /\ InState("raised") # {}
  /\ dispatcher' = "crashed"
  /\ UNCHANGED <<config, check, next, results, sensor, unchanged, verdict,
                 command>>

SensorCrashed ==
  /\ dispatcher = "waiting"
  /\ sensor = "raised"
  /\ dispatcher' = "crashed"
  /\ UNCHANGED <<config, check, next, results, sensor, unchanged, verdict,
                 command>>

\* The batch timeout; a sensor that is running goes on, and one that has just
\* ended may still be counted as late.
SensorTimedOut ==
  /\ dispatcher = "waiting"
  /\ dispatcher' = "timed_out"
  /\ UNCHANGED <<config, check, next, results, sensor, unchanged, verdict,
                 command>>

\* on_activity returns once its pool is empty, and the command reports.
Report ==
  /\ command = "waiting"
  /\ dispatcher # "waiting"
  /\ sensor \in Ended
  /\ command' = IF dispatcher = "handled" THEN verdict ELSE "incomplete"
  /\ UNCHANGED <<config, check, next, results, sensor, unchanged, verdict,
                 dispatcher>>

SensorNext ==
  \/ RunChecks \/ Collect \/ CollectRaised \/ EndOfChecks \/ Cancel
  \/ LeavePool \/ Judge
CheckNext(k) == StartCheck(k) \/ EndCheck(k) \/ RaiseCheck(k)
CommandNext == Handle \/ SensorCrashed \/ SensorTimedOut \/ Report

Next == SensorNext \/ (\E k \in 1 .. Checks : CheckNext(k)) \/ CommandNext

Spec == Init /\ [][Next]_vars

\* Threads are scheduled, and a check ends because run_command bounds it and
\* its clean-up by timeouts.  The dispatcher's own timeout need not fire.
FairSpec ==
  /\ Spec
  /\ WF_vars(SensorNext)
  /\ \A k \in 1 .. Checks : WF_vars(CheckNext(k))
  /\ WF_vars(Handle \/ SensorCrashed \/ Report)

-----------------------------------------------------------------------------
\* The verdict depends on the outcome of the must_pass checks alone: it is
\* "passed" exactly when each of them, collected or dropped, passed and the
\* snapshot is as it was.  Neither the mode, nor the number of workers, nor
\* fail_fast, nor the order in which checks end can change it
\* (write_summary_json: "The verdict is unaffected").
VerdictIsRight ==
  verdict # None =>
    (verdict = "passed" <=>
       /\ unchanged
       /\ \A k \in 1 .. Checks : config.must_pass[k] => check[k] = "pass")

\* What is reported is what a sequential run with the same outcomes would
\* report: the checks in their order, up to the first fatal one.
ReportIsSequential ==
  sensor \in {"checked", "returned"} =>
    \E m \in 0 .. Checks :
      /\ results = [i \in 1 .. m |-> i]
      /\ \A k \in 1 .. m - 1 : ~Fatal(k)
      /\ m < Checks => m > 0 /\ Fatal(m)

\* From the comparison of the working tree on no check is running and none will
\* start: what run_checks started cannot escape the comparison, nor outlive the
\* command.  (Processes that survive their own timeout are outside the model.)
SettledStep ==
  sensor \in {"checked"} \cup Ended => InState("running") = {} /\ check' = check
TreeIsSettled == [][SettledStep]_vars

\* After a fatal failure the checks that were still waiting never start: when
\* the sensor waits for the pool, only what was running remains.
FailFastStops ==
  sensor = "closing" /\ (\E i \in DOMAIN results : Fatal(results[i]))
    => InState("queued") = {}

\* The inductive invariant behind the properties above: how far run_checks has
\* come, in every place its sensor can be.
Collected == Len(results)
Aborted == Collected > 0 /\ Fatal(Collected)

CollectedInOrder ==
  /\ Collected <= Checks
  /\ results = [i \in 1 .. Collected |-> i]
  /\ \A k \in 1 .. Collected : check[k] \in {"pass", "fail"}
  /\ \A k \in 1 .. Collected : Fatal(k) => k = Collected

Progress ==
  /\ sensor = "starting" => InState("queued") = 1 .. Checks
  /\ sensor \in {"starting", "running"} => next = Collected + 1 /\ ~Aborted
  /\ sensor = "cancelling" =>
       Aborted /\ \A k \in 1 .. next - 1 : check[k] # "queued"
  /\ sensor = "closing" => InState("queued") = {}
  /\ sensor \in {"closing", "checked", "returned"} =>
       Aborted \/ Collected = Checks

AtRest ==
  /\ sensor \in {"checked"} \cup Ended => InState("running") = {}
  /\ Sequential => sensor \notin {"cancelling", "closing", "unwinding"}
  /\ Sequential => InState("running") \subseteq {next}
  /\ verdict # None <=> sensor = "returned"
  /\ dispatcher = "handled" => sensor = "returned"

RunInv == TypeOK /\ CollectedInOrder /\ Progress /\ AtRest /\ VerdictIsRight

\* Every run comes to an end, with or without a verdict.
CommandEnds == <>(command # "waiting")

=============================================================================
