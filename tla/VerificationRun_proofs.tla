----------------------- MODULE VerificationRun_proofs -----------------------
(***************************************************************************)
(* Theorems about VerificationRun, for every number of checks and workers. *)
(***************************************************************************)
EXTENDS VerificationRun, TLAPS

\* Collecting the next place keeps the results an initial segment.
LEMMA NextInOrder ==
  ASSUME NEW m \in Nat
  PROVE  /\ Len([i \in 1 .. m |-> i]) = m
         /\ Append([i \in 1 .. m |-> i], m + 1) = [i \in 1 .. m + 1 |-> i]
  OBVIOUS

\* The places collected are those up to their number.
LEMMA ResultsAt ==
  ASSUME NEW m \in Nat, NEW s, s = [i \in 1 .. m |-> i]
  PROVE  DOMAIN s = 1 .. m /\ \A i \in 1 .. m : s[i] = i
  OBVIOUS

\* The invariant holds before any check runs.
LEMMA InitRun == Init => RunInv
  <1> SUFFICES ASSUME Init PROVE RunInv
    OBVIOUS
  <1>1. TypeOK
    BY RunAssumption DEF Init, TypeOK, CheckStatus, SensorStep
  <1>2. Collected = 0
    BY DEF Init, Collected
  <1>3. CollectedInOrder
    BY <1>2, RunAssumption DEF Init, CollectedInOrder
  <1>4. Progress
    BY <1>2, RunAssumption DEF Init, Progress, Aborted, InState
  <1>5. AtRest
    BY RunAssumption DEF Init, AtRest, InState, Ended
  <1>6. VerdictIsRight
    BY DEF Init, VerdictIsRight
  <1> QED
    BY <1>1, <1>3, <1>4, <1>5, <1>6 DEF RunInv

\* A step of one check keeps the invariant.
LEMMA CheckStep ==
  ASSUME RunInv, NEW k \in 1 .. Checks, CheckNext(k)
  PROVE  RunInv'
  <1> USE RunAssumption DEF RunInv
  <1>1. /\ check[k] \in {"queued", "running"}
        /\ \E s \in CheckStatus \ {"queued"} : check' = [check EXCEPT ![k] = s]
        /\ UNCHANGED <<config, next, results, sensor, unchanged, verdict,
                       dispatcher, command>>
    BY DEF CheckNext, StartCheck, EndCheck, RaiseCheck, CheckStatus, Status
  <1>2. Collected' = Collected /\ Collected \in Nat
    BY <1>1 DEF Collected, TypeOK
  <1>3. \A j \in 1 .. Checks : j # k => check'[j] = check[j]
    BY <1>1 DEF TypeOK
  <1>4. check'[k] # "queued"
    BY <1>1 DEF TypeOK
  <1>5. k \notin 1 .. Collected
    BY <1>1 DEF CollectedInOrder
  <1>6. \A j \in 1 .. Collected :
          check'[j] = check[j] /\ (Fatal(j)' <=> Fatal(j))
    BY <1>1, <1>3, <1>5, <1>2 DEF CollectedInOrder, Fatal
  <1>7. Aborted' <=> Aborted
    BY <1>2, <1>6 DEF Aborted
  <1>8. sensor \notin {"starting", "checked"} \cup Ended
    <2>1. CASE StartCheck(k)
      BY <2>1 DEF StartCheck, WorkerFree, Ended
    <2>2. CASE EndCheck(k) \/ RaiseCheck(k)
      BY <2>2 DEF EndCheck, RaiseCheck, AtRest, Progress, InState
    <2> QED
      BY <2>1, <2>2 DEF CheckNext
  <1>9. TypeOK'
    BY <1>1 DEF TypeOK
  <1>10. CollectedInOrder'
    BY <1>1, <1>2, <1>6 DEF CollectedInOrder
  <1>11. Progress'
    <2>1. InState("queued")' \subseteq InState("queued")
      BY <1>3, <1>4 DEF InState
    <2>2. sensor' = sensor /\ next' = next /\ next \in Nat
      BY <1>1 DEF TypeOK
    <2>3. \A j \in 1 .. next - 1 :
            sensor = "cancelling" /\ check[j] # "queued" => check'[j] # "queued"
      BY <1>3, <1>4 DEF TypeOK
    <2> QED
      BY <1>2, <1>7, <1>8, <2>1, <2>2, <2>3 DEF Progress
  <1>12. AtRest'
    <2>1. Sequential' <=> Sequential
      BY <1>1 DEF Sequential
    <2>2. Sequential => InState("running")' \subseteq {next}
      <3>1. CASE StartCheck(k)
        BY <3>1, <1>3 DEF StartCheck, AtRest, InState
      <3>2. CASE EndCheck(k) \/ RaiseCheck(k)
        BY <3>2, <1>3 DEF EndCheck, RaiseCheck, AtRest, InState
      <3> QED
        BY <3>1, <3>2 DEF CheckNext
    <2> QED
      BY <1>1, <1>8, <2>1, <2>2 DEF AtRest
  <1>13. VerdictIsRight'
    BY <1>1, <1>8 DEF VerdictIsRight, AtRest, Ended
  <1> QED
    BY <1>9, <1>10, <1>11, <1>12, <1>13

\* Collecting a result keeps the invariant.
LEMMA CollectStep == RunInv /\ Collect => RunInv'
  <1> SUFFICES ASSUME RunInv, Collect PROVE RunInv'
    OBVIOUS
  <1> USE RunAssumption DEF RunInv
  <1>1. /\ Collected \in Nat /\ next = Collected + 1 /\ next \in 1 .. Checks
        /\ check' = check /\ config' = config /\ next' = next + 1
        /\ check[next] \in {"pass", "fail"} /\ sensor = "running"
    BY DEF Collect, Progress, TypeOK, Collected
  <1>2. Collected' = Collected + 1 /\ results' = [i \in 1 .. Collected + 1 |-> i]
    BY <1>1, NextInOrder DEF Collect, CollectedInOrder, Collected
  <1>3. \A k \in 1 .. Checks : Fatal(k)' <=> Fatal(k)
    BY <1>1 DEF Fatal
  <1>4. Aborted' <=> Fatal(next)
    BY <1>1, <1>2, <1>3 DEF Aborted
  <1>5. TypeOK'
    BY <1>1 DEF Collect, TypeOK, SensorStep
  <1>6. CollectedInOrder'
    <2>1. \A k \in 1 .. Collected : ~Fatal(k)
      BY <1>1 DEF CollectedInOrder, Progress, Aborted
    <2> QED
      BY <1>1, <1>2, <1>3, <2>1 DEF CollectedInOrder
  <1>7. sensor' = IF ~Fatal(next) THEN "running"
                  ELSE IF Sequential THEN "checked" ELSE "cancelling"
    BY DEF Collect
  <1>8. \A k \in 1 .. Collected + 1 : check[k] # "queued"
    BY <1>1, <1>6, <1>2 DEF CollectedInOrder
  <1>9. Progress'
    BY <1>1, <1>2, <1>4, <1>7, <1>8 DEF Progress
  <1>10. AtRest'
    <2>1. Sequential => InState("running") = {}
      BY <1>1 DEF AtRest, InState
    <2>2. InState("running")' = InState("running") /\ (Sequential' <=> Sequential)
      BY <1>1 DEF InState, Sequential
    <2>3. verdict = None /\ verdict' = verdict /\ dispatcher' # "handled"
      BY <1>1 DEF Collect, AtRest
    <2>4. Sequential => sensor' \notin {"cancelling", "closing", "unwinding"}
      BY <1>7
    <2> QED
      BY <1>7, <2>4, <2>1, <2>2, <2>3 DEF AtRest, Ended
  <1>11. VerdictIsRight'
    BY <1>1 DEF Collect, VerdictIsRight, AtRest
  <1> QED
    BY <1>5, <1>6, <1>9, <1>10, <1>11

\* Cancelling keeps the invariant.
LEMMA CancelStep == RunInv /\ Cancel => RunInv'
  <1> SUFFICES ASSUME RunInv, Cancel PROVE RunInv'
    OBVIOUS
  <1> USE RunAssumption DEF RunInv
  <1>1. /\ sensor = "cancelling" /\ Aborted /\ verdict = None /\ ~Sequential
        /\ Collected \in Nat /\ Collected' = Collected
        /\ UNCHANGED <<config, results, unchanged, verdict, dispatcher, command>>
    BY DEF Cancel, Progress, AtRest, Collected, TypeOK
  <1>2. ~Sequential'
    BY <1>1 DEF Sequential
  <1>3. CASE next > Checks
    <2>1. sensor' = "closing" /\ check' = check /\ next' = next
      BY <1>3 DEF Cancel
    <2>2. \A k \in 1 .. Checks : Fatal(k)' <=> Fatal(k)
      BY <1>1, <2>1 DEF Fatal
    <2>3. TypeOK'
      BY <1>1, <2>1 DEF TypeOK, SensorStep
    <2>4. CollectedInOrder' /\ Aborted'
      BY <1>1, <2>1, <2>2 DEF CollectedInOrder, Aborted
    <2>5. InState("queued")' = {}
      BY <1>1, <1>3, <2>1 DEF Progress, InState, TypeOK
    <2>6. Progress' /\ AtRest' /\ VerdictIsRight'
      BY <1>1, <1>2, <2>1, <2>4, <2>5
      DEF Progress, AtRest, VerdictIsRight, Ended
    <2> QED
      BY <2>3, <2>4, <2>6
  <1>4. CASE ~(next > Checks)
    <2>1. /\ sensor' = sensor /\ next' = next + 1 /\ next \in 1 .. Checks
          /\ check' = [check EXCEPT
                         ![next] = IF @ = "queued" THEN "cancelled" ELSE @]
      BY <1>4 DEF Cancel, TypeOK
    <2>2. \A k \in 1 .. Checks :
            /\ check'[k] # "queued" => check[k] = check'[k] \/ check[k] = "queued"
            /\ check[k] # "queued" => check'[k] = check[k]
            /\ check'[k] \in CheckStatus
      BY <2>1 DEF TypeOK, CheckStatus
    <2>3. check'[next] # "queued"
      BY <2>1 DEF TypeOK
    <2>4. \A k \in 1 .. Collected :
            check'[k] = check[k] /\ (Fatal(k)' <=> Fatal(k))
      BY <1>1, <2>2 DEF CollectedInOrder, Fatal
    <2>5. TypeOK'
      BY <1>1, <2>1 DEF TypeOK, CheckStatus
    <2>6. CollectedInOrder' /\ Aborted'
      BY <1>1, <2>4 DEF CollectedInOrder, Aborted
    <2>7. \A k \in 1 .. next : check'[k] # "queued"
      BY <1>1, <2>1, <2>2, <2>3 DEF Progress
    <2>8. Progress' /\ AtRest' /\ VerdictIsRight'
      BY <1>1, <1>2, <2>1, <2>6, <2>7
      DEF Progress, AtRest, VerdictIsRight, Ended
    <2> QED
      BY <2>5, <2>6, <2>8
  <1> QED
    BY <1>3, <1>4

\* The verdict is computed from what was collected, and is right for all.
LEMMA JudgeStep == RunInv /\ Judge => RunInv'
  <1> SUFFICES ASSUME RunInv, Judge PROVE RunInv'
    OBVIOUS
  <1> USE RunAssumption DEF RunInv
  <1>1. /\ sensor = "checked" /\ sensor' \in {"returned", "raised"}
        /\ UNCHANGED <<config, check, next, results, dispatcher, command>>
        /\ Collected \in Nat /\ Collected' = Collected
        /\ unchanged' \in BOOLEAN
    BY DEF Judge, Collected, TypeOK
  <1>2. /\ sensor' = "raised" => verdict' = verdict
        /\ sensor' = "returned" =>
             verdict' = IF AllPassMust /\ unchanged' THEN "passed" ELSE "failed"
    BY DEF Judge
  <1>3. AllPassMust <=>
          \A k \in 1 .. Checks : config.must_pass[k] => check[k] = "pass"
    <2>1. AllPassMust <=>
            \A k \in 1 .. Collected : config.must_pass[k] => check[k] = "pass"
      BY <1>1, ResultsAt DEF AllPassMust, CollectedInOrder
    <2>2. CASE Aborted
      BY <1>1, <2>1, <2>2 DEF Aborted, Fatal, CollectedInOrder
    <2>3. CASE Collected = Checks
      BY <2>1, <2>3
    <2> QED
      BY <1>1, <2>2, <2>3 DEF Progress
  <1>4. verdict = None
    BY <1>1 DEF AtRest
  <1>5. \A k : Fatal(k)' <=> Fatal(k)
    BY <1>1 DEF Fatal
  <1>6. TypeOK'
    BY <1>1, <1>2, <1>4 DEF TypeOK, SensorStep
  <1>7. CollectedInOrder' /\ (Aborted' <=> Aborted)
    BY <1>1, <1>5 DEF CollectedInOrder, Aborted
  <1>8. Progress'
    BY <1>1, <1>7 DEF Progress
  <1>9. AtRest'
    BY <1>1, <1>2, <1>4 DEF AtRest, InState, Sequential, Ended
  <1>10. VerdictIsRight'
    BY <1>1, <1>2, <1>3, <1>4 DEF VerdictIsRight
  <1> QED
    BY <1>6, <1>7, <1>8, <1>9, <1>10

\* Every step keeps the invariant.
LEMMA NextRun == RunInv /\ [Next]_vars => RunInv'
  <1> SUFFICES ASSUME RunInv, [Next]_vars PROVE RunInv'
    OBVIOUS
  <1> USE RunAssumption
  <1> DEFINE Parts == /\ (InState("queued")' = InState("queued"))
                      /\ (InState("running")' = InState("running"))
                      /\ (Sequential' <=> Sequential)
                      /\ (CollectedInOrder' <=> CollectedInOrder)
                      /\ (Collected' = Collected)
                      /\ (Aborted' <=> Aborted)
  <1>1. ASSUME UNCHANGED <<config, check, results>> PROVE Parts
    <2>1. Collected' = Collected /\ \A k : Fatal(k)' <=> Fatal(k)
      BY <1>1 DEF Collected, Fatal
    <2> QED
      BY <1>1, <2>1 DEF InState, Sequential, CollectedInOrder, Aborted
  <1>2. CASE RunChecks
    BY <1>1, <1>2 DEF RunChecks, RunInv, TypeOK, SensorStep, Progress, AtRest,
      VerdictIsRight, Ended, InState
  <1>3. CASE CollectRaised \/ EndOfChecks
    <2>1. /\ sensor = "running" /\ verdict = None /\ verdict' = None
          /\ UNCHANGED <<config, check, next, results, unchanged, dispatcher,
                         command>>
          /\ Collected \in Nat
      BY <1>3 DEF CollectRaised, EndOfChecks, RunInv, AtRest, TypeOK, Collected
    <2>2. /\ CollectRaised => sensor' = IF Sequential THEN "raised" ELSE "unwinding"
          /\ EndOfChecks => sensor' = IF Sequential THEN "checked" ELSE "closing"
      BY DEF CollectRaised, EndOfChecks
    <2>3. EndOfChecks =>
            /\ Collected = Checks
            /\ \A k \in 1 .. Checks : check[k] \in {"pass", "fail"}
      BY <2>1 DEF EndOfChecks, RunInv, Progress, CollectedInOrder, TypeOK
    <2>4. Sequential => InState("running") = {}
      BY <1>3, <2>3, <2>1 DEF CollectRaised, EndOfChecks, RunInv, AtRest, InState
    <2>5. TypeOK'
      BY <1>3, <2>1, <2>2 DEF RunInv, TypeOK, SensorStep
    <2>6. EndOfChecks => InState("queued") = {}
      BY <2>3 DEF InState
    <2>7. Progress'
      BY <1>1, <1>3, <2>1, <2>2, <2>3, <2>6 DEF Progress
    <2>8. dispatcher' # "handled"
      BY <2>1 DEF RunInv, AtRest
    <2>9. AtRest' /\ VerdictIsRight'
      BY <1>1, <1>3, <2>1, <2>2, <2>4, <2>8 DEF AtRest, VerdictIsRight, Ended
    <2> QED
      BY <1>1, <2>1, <2>5, <2>7, <2>9 DEF RunInv
  <1>4. CASE LeavePool
    BY <1>1, <1>4 DEF LeavePool, RunInv, TypeOK, SensorStep, Progress, AtRest,
      VerdictIsRight, Ended
  <1>5. CASE CommandNext \/ UNCHANGED vars
    <2>1. UNCHANGED <<config, check, next, results, sensor, unchanged, verdict>>
      BY <1>5 DEF CommandNext, Handle, SensorCrashed, SensorTimedOut, Report, vars
    <2>2. /\ dispatcher' \in {"waiting", "handled", "crashed", "timed_out"}
          /\ dispatcher' = "handled" => sensor = "returned"
          /\ command' \in {"waiting", "passed", "failed", "incomplete"}
      BY <1>5 DEF CommandNext, Handle, SensorCrashed, SensorTimedOut, Report,
        vars, RunInv, TypeOK, AtRest
    <2>3. TypeOK'
      BY <2>1, <2>2 DEF RunInv, TypeOK
    <2> QED
      BY <1>1, <2>1, <2>2, <2>3 DEF RunInv, Progress, AtRest, VerdictIsRight
  <1> QED
    BY <1>2, <1>3, <1>4, <1>5, CheckStep, CollectStep, CancelStep,
      JudgeStep DEF Next, SensorNext

\* The invariant: what has been collected, where the sensor is and what the
\* checks are doing fit together (run_checks).
THEOREM RunInvariance == Spec => []RunInv
  <1>1. Init => RunInv
    BY InitRun
  <1>2. RunInv /\ [Next]_vars => RunInv'
    BY NextRun
  <1> QED
    BY <1>1, <1>2, PTL DEF Spec

\* Every reachable state has its declared type (run_checks, its dispatcher and
\* the command that reports it).
THEOREM TypeCorrect == Spec => []TypeOK
  <1>1. RunInv => TypeOK
    BY DEF RunInv
  <1> QED
    BY <1>1, RunInvariance, PTL

\* For every number of checks and workers, in both modes and with or without
\* fail_fast, the verdict of VerificationRunner.check says whether all must_pass
\* checks passed on an unchanged tree, the dropped ones included.
THEOREM VerdictAlwaysRight == Spec => []VerdictIsRight
  <1>1. RunInv => VerdictIsRight
    BY DEF RunInv
  <1> QED
    BY <1>1, RunInvariance, PTL

\* The results of a parallel run are those of a sequential one (run_checks).
THEOREM ReportAlwaysSequential == Spec => []ReportIsSequential
  <1>1. RunInv => ReportIsSequential
    <2> SUFFICES ASSUME RunInv, sensor \in {"checked", "returned"}
                 PROVE  /\ Collected \in 0 .. Checks
                        /\ results = [i \in 1 .. Collected |-> i]
                        /\ \A k \in 1 .. Collected - 1 : ~Fatal(k)
                        /\ Collected < Checks => Collected > 0 /\ Fatal(Collected)
      BY DEF ReportIsSequential
    <2>1. Collected \in Nat
      BY DEF RunInv, TypeOK, Collected
    <2> QED
      BY <2>1, RunAssumption DEF RunInv, CollectedInOrder, Progress, Aborted
  <1> QED
    BY <1>1, RunInvariance, PTL

\* After a fatal failure no waiting check starts once the pool is being left
\* (future.cancel() in run_checks).
THEOREM FailFastAlwaysStops == Spec => []FailFastStops
  <1>1. RunInv => FailFastStops
    BY DEF RunInv, Progress, FailFastStops
  <1> QED
    BY <1>1, RunInvariance, PTL

\* The tree that VerificationRunner.check compares is touched by no check of
\* run_checks any more, and none outlives the command.
THEOREM TreeAlwaysSettled == Spec => TreeIsSettled
  <1>1. RunInv /\ [Next]_vars => [SettledStep]_vars
    <2> SUFFICES ASSUME RunInv, Next, sensor \in {"checked"} \cup Ended
                 PROVE  InState("running") = {} /\ check' = check
      BY DEF SettledStep
    <2>1. InState("running") = {}
      BY DEF RunInv, AtRest
    <2>2. ASSUME NEW k \in 1 .. Checks PROVE ~CheckNext(k)
      BY <2>1 DEF CheckNext, StartCheck, WorkerFree, EndCheck, RaiseCheck, Ended,
        InState
    <2>3. sensor # "cancelling"
      BY DEF Ended
    <2> QED
      BY <2>1, <2>2, <2>3 DEF Next, SensorNext, CommandNext, RunChecks, Collect,
        CollectRaised, EndOfChecks, Cancel, LeavePool, Judge, Handle,
        SensorCrashed, SensorTimedOut, Report
  <1> QED
    BY <1>1, RunInvariance, PTL DEF Spec, TreeIsSettled

=============================================================================
