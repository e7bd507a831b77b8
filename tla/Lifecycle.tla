----------------------------- MODULE Lifecycle -----------------------------
(***************************************************************************)
(* One change driven through its life by concurrent keepsail commands.     *)
(*                                                                         *)
(* A command of src/keepsail/cli/ reads the derived change outside any     *)
(* lock, decides, and then hands one or two events to the shared writer,   *)
(* which validates them against the log as it is by then and appends all   *)
(* or none of them under its lock.  The first half is an action that fills *)
(* job[p], the second is the action Commit.  A command that decides        *)
(* nothing from what it read is one action, since only its append can be   *)
(* seen.  `done' and `verify' read several times more: around the checks   *)
(* of the verification runner, and before completing.                      *)
(* `review import' replays the log twice in a row and is given one read.   *)
(*                                                                         *)
(* The log is represented by its folds (ChangeState).  The state.yaml      *)
(* cache every command refreshes after its append is read by none of these *)
(* commands and belongs to EventStore.                                     *)
(***************************************************************************)
EXTENDS EmitValidation

CONSTANTS
  Procs,          \* command invocations that may overlap
  Conclusions,    \* evidence files the external reviewers have produced
  LegacyStreams   \* whether the log may hold a stream begun before evidence

ASSUME LifecycleAssumption ==
  /\ Conclusions \subseteq Evidence
  /\ LegacyStreams \in BOOLEAN

VARIABLES
  cs,             \* the derived record of the change
  job,            \* what each invocation has read and is about to do
  recognition,    \* whether the recognition policy is active (enabled once)
  head,           \* the committed tree
  work            \* the working tree's declared files and check config

vars == <<cs, job, recognition, head, work>>

\* What the verification runner captured before its checks; no tree when git
\* or a file could not be read.
Snapshot == [approval : EvidenceIds, tree : Trees \cup {None}, work : Trees]
ASSUME SnapshotIsNotNone == None \notin Snapshot

\* pc: "dispatch" hands the activity to the runner, "checking" while the
\* checks run, "emit" on the way to the writer, "complete" when `done' is to
\* complete the implementation.
Job ==
  [pc : {"idle", "dispatch", "checking", "emit", "complete"},
   cmd : {"command", "verify", "done", "skip"},
   batch : Seq(Event),
   before : Snapshot \cup {None}]

Idle ==
  [pc |-> "idle", cmd |-> "command", batch |-> <<>>, before |-> None]
Emitting(cmd, batch) ==
  [pc |-> "emit", cmd |-> cmd, batch |-> batch, before |-> None]
At(pc, cmd) == [Idle EXCEPT !.pc = pc, !.cmd = cmd]

TypeOK ==
  /\ cs \in ChangeStateType
  /\ job \in [Procs -> Job]
  /\ recognition \in BOOLEAN
  /\ head \in Trees
  /\ work \in Trees

Init ==
  /\ cs \in {NoChange} \cup (IF LegacyStreams THEN {LegacyApproved} ELSE {})
  /\ job = [p \in Procs |-> Idle]
  /\ recognition \in BOOLEAN
  /\ head \in Trees
  /\ work = head

-----------------------------------------------------------------------------
\* The writer, as its caller sees it: emit and emit_many append all of the
\* batch or raise; the audit events go through with skip_validation.
Written(batch) ==
  IF AcceptsBatch(cs, batch, recognition) THEN ApplyBatch(cs, batch) ELSE cs
WrittenUnvalidated(e) ==
  IF AcceptsUnvalidated(cs, e) THEN Apply(cs, e) ELSE cs

Of(type) == [type |-> type]
\* Move p from idle to a job; nothing shared changes.
Begin(p, j) ==
  /\ job[p].pc = "idle"
  /\ job' = [job EXCEPT ![p] = j]
  /\ UNCHANGED <<cs, recognition, head, work>>

-----------------------------------------------------------------------------
\* Commands whose only decision is the writer's.
Emit(e) ==
  /\ cs' = Written(<<e>>)
  /\ UNCHANGED <<job, recognition, head, work>>

\* `change start', and the framework observer's declaration.
ChangeStart == Emit(Of("intent_declared"))
ChangeAbandon == Emit(Of("intent_abandoned"))
\* `plan redeclare' without --plan.
PlanRedeclare == Emit(Of("plan_redeclared"))
\* A framework adapter's scan declares a plan ready without a subject.
FrameworkPlanReady == Emit([type |-> "plan_ready", subject |-> None])
PrEmitOpened == Emit(Of("pr_opened"))
OnMerge == Emit(Of("merged"))

\* Audit events: the hook's, under the kill switch, and `attest write
\* --disclose-gate-bypass'.  The hook swallows a refusal.
RecordBypass ==
  /\ cs' = WrittenUnvalidated(Of("gate_bypassed"))
  /\ UNCHANGED <<job, recognition, head, work>>
AttestDisclose ==
  /\ cs' = WrittenUnvalidated(Of("gate_bypass_disclosed"))
  /\ UNCHANGED <<job, recognition, head, work>>

-----------------------------------------------------------------------------
\* Commands that read the derived change, and then emit.

\* `plan ready', with --plan or without.
PlanReadyCmd(p) ==
  \E subject \in [plan : Plans, prior : {None}] \cup {None} :
    /\ recognition => subject # None
    /\ Begin(p, Emitting("command",
                         <<[type |-> "plan_ready", subject |-> subject]>>))

\* `plan redeclare --plan': the candidate is bound to the approval just read.
PlanRevise(p) ==
  \E plan \in Plans :
    Begin(p, Emitting("command",
      <<[type |-> "plan_revision_submitted",
         subject |-> [plan |-> plan, prior |-> EffectiveId(cs)],
         prior |-> EffectiveId(cs)]>>))

PlanWithdraw(p) ==
  /\ cs.pending_revision # None
  /\ cs.pending_revision.status \in {"pending", "rejected"}
  /\ cs.effective_approval # None
  /\ Begin(p, Emitting("command",
       <<[type |-> "plan_withdrawn",
          candidate |-> cs.pending_revision.subject,
          approval |-> EffectiveId(cs)]>>))

\* _has_applicable_authority: an old approval counts only while the
\* recognition policy is not active.
HasApplicableAuthority ==
  /\ cs.started
  /\ \/ cs.effective_approval # None
     \/ ~recognition /\ cs.legacy_plan_approval

ImplementationStart(p) ==
  /\ HasApplicableAuthority
  /\ Begin(p, Emitting("command", <<Of("implementation_started")>>))

REOPEN_STATES ==
  {"AWAITING_CODE_REVIEW", "CODE_REVIEW_REJECTED", "READY_TO_MERGE"}

ImplementationReopen(p) ==
  /\ cs.started
  /\ cs.current_state \in REOPEN_STATES
  /\ HasApplicableAuthority
  /\ Begin(p, Emitting("command", <<Of("implementation_invalidated")>>))

\* `implementation record': under a legacy approval the reference is refused
\* by the writer, so it stands as None.
ImplementationRecord(p) ==
  /\ HasApplicableAuthority
  /\ \E coverage \in SUBSET Paths :
       Begin(p, Emitting("command",
         <<[type |-> "implementation_recorded",
            approval |-> EffectiveId(cs), coverage |-> coverage]>>))

\* What a conclusion brings about besides being recorded.
ConclusionEvent(ev, subject) ==
  CASE ev.kind = "plan" /\ ev.decision = "approve" ->
         [type |-> "plan_approved",
          approval |-> [evidence |-> ev, subject |-> subject]]
    [] ev.kind = "plan" /\ ev.decision = "reject" ->
         [type |-> "plan_rejected", evidence |-> ev]
    [] OTHER ->
         [type |-> IF ev.decision = "approve" THEN "code_review_passed"
                                              ELSE "code_review_failed",
          evidence |-> ev, subject |-> subject]

\* The prior conclusion `review import' asks to be superseded is looked up by
\* the current subject, whatever the subject of the evidence.
CanImport(c, ev) ==
  LET subject == CurrentSubject(c, ev.kind)
  IN  /\ c.started
      /\ subject # None
      /\ Imported(c, ev.id) = {}
      /\ LatestConclusion(c, subject) # None
           => ev.supersedes = LatestConclusion(c, subject)

\* `review import': evidence for another subject, or for a candidate already
\* withdrawn, is recorded without its conclusion.
ReviewImport(p) ==
  \E ev \in Conclusions :
    LET subject == CurrentSubject(cs, ev.kind)
        historical == ev.subject # subject
        imported == [type |-> "review_evidence_imported", evidence |-> ev,
                     historical_only |-> historical]
        withdrawn == /\ ev.kind = "plan"
                     /\ cs.pending_revision # None
                     /\ cs.pending_revision.status = "withdrawn"
    IN  /\ recognition
        /\ CanImport(cs, ev)
        /\ Begin(p, Emitting("command",
             IF historical \/ withdrawn
               THEN <<imported>>
               ELSE <<imported, ConclusionEvent(ev, subject)>>))

-----------------------------------------------------------------------------
\* `done' and `verify'.

\* done's preflight, before anything runs or is written.
ReadyForDone ==
  /\ cs.started
  /\ cs.current_state = "IMPLEMENTATION_IN_PROGRESS"
  /\ recognition => cs.effective_approval # None
  /\ ~HasUnresolvedCandidate(cs)
  /\ cs.effective_approval # None =>
       /\ cs.implementation_assessments # {}
       /\ cs.coverage_manifest # {}
       /\ work = head
       /\ MissingCoverage([approval |-> EffectiveId(cs), tree |-> head],
                          cs.coverage_manifest) = {}

Done(p) == ReadyForDone /\ Begin(p, At("dispatch", "done"))

SkippedVerification == [type |-> "verification_passed", verification |-> None]

\* `done --skip-verify', which the evidence-backed contract forbids.
DoneSkipVerify(p) ==
  /\ ReadyForDone
  /\ ~recognition
  /\ cs.effective_approval = None
  /\ Begin(p, Emitting("skip", <<SkippedVerification>>))

\* `verify' has no guard on the state of the change.
Verify(p) == Begin(p, At("dispatch", "verify"))

\* VerificationRunner.check up to the checks: capture what they will test.
BeginChecks(p) ==
  /\ job[p].pc = "dispatch"
  /\ \E tree \in {head, None} :
       job' = [job EXCEPT
         ![p].pc = "checking",
         ![p].before = IF cs.effective_approval = None
                         THEN None
                         ELSE [approval |-> EffectiveId(cs),
                               tree |-> tree, work |-> work]]
  /\ UNCHANGED <<cs, recognition, head, work>>

VerdictEvent(passed, verification) ==
  [type |-> IF passed THEN "verification_passed" ELSE "verification_failed",
   verification |-> verification]

\* The rest of it: the checks pass only if the approval, the subject, the
\* configuration and the working tree are as they were.  Not being able to read
\* them again counts as a change; without a first reading there is no subject.
FinishChecks(p) ==
  /\ job[p].pc = "checking"
  /\ \E checksPass, readable \in BOOLEAN :
       LET before == job[p].before
           unchanged == /\ readable
                        /\ EffectiveId(cs) = before.approval
                        /\ head = before.tree
                        /\ work = before.work
           passed == checksPass /\ (before # None => unchanged)
           verification ==
             IF before = None \/ before.tree = None
               THEN None
               ELSE [subject |-> [approval |-> before.approval,
                                  tree |-> IF readable THEN head ELSE before.tree],
                     outcome |-> IF passed THEN "passed" ELSE "failed"]
       IN  job' = [job EXCEPT
                    ![p] = Emitting(job[p].cmd,
                                    <<VerdictEvent(passed, verification)>>)]
  /\ UNCHANGED <<cs, recognition, head, work>>

\* The runner raised or the dispatcher's timeout fired: the command ends, and
\* an audit event is attempted.
SensorFails(p) ==
  /\ job[p].pc = "checking"
  /\ \E type \in {"sensor_crashed", "sensor_timeout_exceeded"} :
       cs' = WrittenUnvalidated(Of(type))
  /\ job' = [job EXCEPT ![p] = Idle]
  /\ UNCHANGED <<recognition, head, work>>

\* _emit_implementation_complete reads the change and the commit again.
Complete(p) ==
  /\ job[p].pc = "complete"
  /\ job' = [job EXCEPT ![p] =
       Emitting("command",
         <<[type |-> "implementation_complete",
            subject |-> IF cs.effective_approval = None
                          THEN None
                          ELSE [approval |-> EffectiveId(cs),
                                tree |-> head]]>>)]
  /\ UNCHANGED <<cs, recognition, head, work>>

-----------------------------------------------------------------------------
\* The writer's answer.  `done' goes on after a verdict that passed even when
\* the dispatcher could not record it; `done --skip-verify' does not.
Commit(p) ==
  /\ job[p].pc = "emit"
  /\ LET j == job[p]
         accepted == AcceptsBatch(cs, j.batch, recognition)
         passed == j.batch[1].type = "verification_passed"
         goesOn == \/ j.cmd = "done" /\ passed
                   \/ j.cmd = "skip" /\ accepted
     IN  job' = [job EXCEPT ![p] =
                   IF goesOn THEN At("complete", "command") ELSE Idle]
  /\ cs' = Written(job[p].batch)
  /\ UNCHANGED <<recognition, head, work>>

\* An invocation is killed between two of its steps.
Crash(p) ==
  /\ job[p].pc # "idle"
  /\ job' = [job EXCEPT ![p] = Idle]
  /\ UNCHANGED <<cs, recognition, head, work>>

\* The agent edits files, commits them, and the owner enables recognition.
Edit ==
  /\ \E t \in Trees \ {work} : work' = t
  /\ UNCHANGED <<cs, job, recognition, head>>
GitCommit ==
  /\ head # work
  /\ head' = work
  /\ UNCHANGED <<cs, job, recognition, work>>
EnableRecognition ==
  /\ ~recognition
  /\ recognition' = TRUE
  /\ UNCHANGED <<cs, job, head, work>>

Next ==
  \/ ChangeStart \/ ChangeAbandon \/ PlanRedeclare \/ FrameworkPlanReady
  \/ PrEmitOpened \/ OnMerge \/ RecordBypass \/ AttestDisclose
  \/ Edit \/ GitCommit \/ EnableRecognition
  \/ \E p \in Procs :
       \/ PlanReadyCmd(p) \/ PlanRevise(p) \/ PlanWithdraw(p)
       \/ ImplementationStart(p) \/ ImplementationReopen(p)
       \/ ImplementationRecord(p) \/ ReviewImport(p)
       \/ Done(p) \/ DoneSkipVerify(p) \/ Verify(p)
       \/ BeginChecks(p) \/ FinishChecks(p) \/ SensorFails(p)
       \/ Complete(p) \/ Commit(p) \/ Crash(p)

Spec == Init /\ [][Next]_vars

-----------------------------------------------------------------------------
\* States that only a plan approval leads to.
WorkingStates == {"PLAN_APPROVED", "ARCHIVED"} \cup UnderImplementation

\* No interleaving of commands takes a change into implementation, review or
\* the archive without a plan approval standing behind it, old or
\* evidence-backed: validation at the shared writer, not the earlier reads of
\* a command, is what the state rests on (emit_validation.py,
\* _validate_authority: "A state name is not evidence").
AuthorityBacksWork ==
  cs.current_state \in WorkingStates =>
    cs.effective_approval # None \/ cs.legacy_plan_approval

\* The approval in force was concluded for exactly the subject it approves by
\* a recorded approving conclusion, and derives from nothing else
\* (approval_record, and the plan_approved arm of _validate_authority).
ApprovalIsEvidenced ==
  cs.effective_approval # None =>
    LET a == cs.effective_approval
    IN  /\ a.evidence \in Imported(cs, ApprovalId(a))
        /\ a.evidence.decision = "approve"
        /\ a.evidence.subject = a.subject

\* A change is ready to merge, or merged, only as code reviewed and approved
\* for exactly the frozen subject, itself bound to the approval in force: a
\* review of an earlier commit, or under an earlier approval, never counts.
ReadyCodeIsReviewed ==
  cs.current_state \in {"READY_TO_MERGE", "ARCHIVED"} =>
    /\ cs.current_code_subject # None
    /\ cs.current_code_subject.approval = EffectiveId(cs)
    /\ \E i \in DOMAIN cs.evidence_references :
         /\ cs.evidence_references[i].kind = "code"
         /\ cs.evidence_references[i].subject = cs.current_code_subject
         /\ cs.evidence_references[i].decision = "approve"

\* Code is frozen for review only under the approval in force; re-approval
\* sends frozen code back to implementation first.
FrozenCodeFollowsApproval ==
  cs.current_state \in REOPEN_STATES \cup {"ARCHIVED"} =>
    /\ cs.current_code_subject # None
    /\ cs.current_code_subject.approval = EffectiveId(cs)

\* A candidate plan is always the next link after the approval in force: none
\* outlives the approval it was submitted against, so a conclusion about it
\* cannot replace a later approval.
CandidateFollowsApproval ==
  cs.pending_revision # None =>
    cs.pending_revision.subject.prior = EffectiveId(cs)

\* The two left folds over the log, the reducer's and the emit validator's,
\* agree on the state of every change that was properly started: what a
\* command shows and what the writer enforces are one state machine.
FoldsAgree == cs.strict # NoState => cs.strict = cs.current_state

-----------------------------------------------------------------------------
\* The inductive invariant behind those, for logs that begin under the
\* evidence-backed contract.

\* An event a command of this module can have put in its batch.
Emittable(e, active) ==
  /\ e \in Event
  /\ e.type \notin {"intent_redeclared", "implementation_restarted",
                   "implementation_withdrawn"}
  /\ e.type = "plan_ready" /\ e.subject # None => e.subject.prior = None
  /\ e.type = "plan_revision_submitted" => e.subject.prior = e.prior
  /\ e.type = "plan_approved" => e.approval.evidence.subject = e.approval.subject
  /\ e.type \in {"plan_approved", "implementation_invalidated"} => active

\* One derived change: an approval is in force exactly in the working states
\* (and possibly in an abandoned change), and everything gathered under it
\* refers to it.
Sound(c) ==
  /\ c \in ChangeStateType
  /\ ~c.legacy_plan_approval
  /\ IF c.strict = NoState
       THEN c.current_state = "INTENT_DECLARED"
       ELSE c.strict = c.current_state /\ c.started
  /\ c.current_state \in WorkingStates => c.effective_approval # None
  /\ c.effective_approval # None =>
       /\ c.current_state \in WorkingStates \cup {"ABANDONED"}
       /\ c.effective_approval.evidence.decision = "approve"
       /\ c.effective_approval.evidence.subject = c.effective_approval.subject
       /\ \E i \in DOMAIN c.evidence_references :
            c.evidence_references[i] = c.effective_approval.evidence
  /\ c.pending_revision # None =>
       c.pending_revision.subject.prior = EffectiveId(c)
  /\ c.current_state \in REOPEN_STATES \cup {"ARCHIVED"} =>
       /\ c.current_code_subject # None
       /\ c.current_code_subject.approval = EffectiveId(c)
  /\ c.current_state \in {"READY_TO_MERGE", "ARCHIVED"} =>
       \E i \in DOMAIN c.evidence_references :
         /\ c.evidence_references[i].kind = "code"
         /\ c.evidence_references[i].subject = c.current_code_subject
         /\ c.evidence_references[i].decision = "approve"

JobsAreEmittable ==
  \A p \in Procs :
    /\ job[p].pc = "emit" => Len(job[p].batch) \in {1, 2}
    /\ \A i \in DOMAIN job[p].batch : Emittable(job[p].batch[i], recognition)

IInv ==
  /\ TypeOK
  /\ Sound(cs)
  /\ cs.effective_approval # None => recognition
  /\ JobsAreEmittable

-----------------------------------------------------------------------------
\* The approval in force is replaced only by approving the candidate submitted
\* against it and not withdrawn, and is dropped only by a redeclaration, which
\* leaves the working states: a conclusion read before a concurrent revision,
\* withdrawal or approval never lands on what replaced it.
ApprovalStep ==
  cs.effective_approval # None /\ cs'.effective_approval # cs.effective_approval
    => \/ cs'.effective_approval = None /\ cs'.current_state = "INTENT_DECLARED"
       \/ /\ cs.pending_revision # None
          /\ cs.pending_revision.status # "withdrawn"
          /\ cs'.effective_approval # None
          /\ cs'.effective_approval.subject = cs.pending_revision.subject
          /\ cs'.effective_approval.subject.prior = EffectiveId(cs)
ApprovalsAreLinked == [][ApprovalStep]_vars

\* Implementation completes only on a passed verification of the very subject
\* being frozen, recorded since implementation was last started, reopened or
\* re-approved, whatever commits, edits or verdicts land in between.
CompletionStep ==
  cs.current_state # "AWAITING_CODE_REVIEW"
  /\ cs'.current_state = "AWAITING_CODE_REVIEW"
    => /\ cs.current_verification # None
       /\ cs.current_verification.outcome = "passed"
       /\ cs.current_verification.subject = cs'.current_code_subject
CompletionIsVerified == [][CompletionStep]_vars

\* Implementation always (re)starts without verification and without frozen
\* code, so no verdict of an earlier epoch can complete a later one.
EpochStep ==
  cs.current_state # "IMPLEMENTATION_IN_PROGRESS"
  /\ cs'.current_state = "IMPLEMENTATION_IN_PROGRESS"
    => cs'.current_verification = None /\ cs'.current_code_subject = None
EpochStartsClean == [][EpochStep]_vars

\* Completion, a passed review and the merge never happen over an unresolved
\* plan candidate, even one submitted after the command read the change.
DeliveryStep ==
  (/\ cs'.current_state # cs.current_state
   /\ cs'.current_state \in {"AWAITING_CODE_REVIEW", "READY_TO_MERGE", "ARCHIVED"})
    => ~HasUnresolvedCandidate(cs')
DeliveryIsUnambiguous == [][DeliveryStep]_vars

\* A review concludes about the code frozen at that moment: a conclusion read
\* against a subject that was reopened and frozen anew does not move the state.
ReviewStep ==
  (/\ cs'.current_state # cs.current_state
   /\ cs'.current_state \in {"CODE_REVIEW_REJECTED", "READY_TO_MERGE"})
    => cs'.current_code_subject = cs.current_code_subject
ReviewsFrozenCode == [][ReviewStep]_vars

-----------------------------------------------------------------------------
\* Claims the documentation makes that the code does not keep.  The first is
\* the property of the run LateConclusion; the two others are not run, and
\* README, Where code and documents disagree, says how each fails.

\* "A pending B2 candidate must be explicitly withdrawn if it is not adopted;
\* a late conclusion never reactivates it" (docs/getting-started.md): an
\* import never brings a withdrawn candidate back to an unresolved status.
ImportStep ==
  (/\ cs'.evidence_references # cs.evidence_references
   /\ cs.pending_revision # None
   /\ cs.pending_revision.status = "withdrawn")
    => ~HasUnresolvedCandidate(cs')
LateConclusionNeverReactivates == [][ImportStep]_vars

\* "Only a current verified/reviewed B1 subject can merge" and "old code
\* evidence cannot certify a different code subject" (docs/plans/2026-09-11-
\* plan-authority-spec.md): the passed verification a merge is granted on is
\* one of the code that was frozen and reviewed.
MergeUsesItsOwnVerification ==
  cs.current_state = "ARCHIVED" /\ cs.effective_approval # None =>
    cs.current_verification.subject = cs.current_code_subject

\* "A bypass is recorded and surfaced at the merge gate" (docs/
\* getting-started.md) and "a transition violation must never swallow a crash
\* signal" (sensors/dispatcher.py): the log takes the audit events of an
\* active change whatever its contract.
AuditEventsAreRecorded ==
  cs.strict \in STATES \ TERMINAL_STATES =>
    \A type \in {"gate_bypassed", "gate_bypass_disclosed", "sensor_crashed",
                 "sensor_timeout_exceeded"} :
      AcceptsUnvalidated(cs, Of(type))

=============================================================================
