---------------------------- MODULE ChangeState ----------------------------
(***************************************************************************)
(* What one change's slice of events.jsonl derives to: the record folded   *)
(* by src/keepsail/core/reducer.py (derive_state), plus the two other      *)
(* folds the writer runs over the same lines (_current_state and           *)
(* _change_event_types of core/emit_validation.py).  Every reader replays  *)
(* the append-only log from its start with these left folds, so the value  *)
(* carried here is a function of the log and stands for it.                *)
(*                                                                         *)
(* Identifiers that the code computes as digests are modelled by the       *)
(* content they digest: two subjects have one id exactly when they are     *)
(* equal, and an approval's evidence digest is the evidence record.        *)
(***************************************************************************)
EXTENDS Transitions, Sequences

CONSTANTS
  Plans,          \* plan texts (artifact snapshots and commitments) to adopt
  EvidenceIds,    \* ids of review conclusions produced outside the program
  Trees,          \* contents the repository can have at a commit
  Paths,          \* product paths that a commit can change
  ChangedPaths,   \* [Trees -> SUBSET Paths]: changed against the merge base
  None            \* Python's None, an absent record

ASSUME ChangedPathsAssumption == ChangedPaths \in [Trees -> SUBSET Paths]

\* make_plan_subject: a revision also digests the approval it departs from.
PlanSubject == [plan : Plans, prior : EvidenceIds \cup {None}]

\* make_code_subject: the manifest of the committed tree, under an approval.
\* HEAD itself is kept outside the digest, so equal trees are one subject.
CodeSubject == [approval : EvidenceIds, tree : Trees]

\* validate_evidence: a conclusion for one exact subject, which may name the
\* conclusion it replaces.
PlanEvidence ==
  [id : EvidenceIds, kind : {"plan"}, subject : PlanSubject,
   decision : {"approve", "reject"}, supersedes : EvidenceIds \cup {None}]
CodeEvidence ==
  [id : EvidenceIds, kind : {"code"}, subject : CodeSubject,
   decision : {"approve", "reject"}, supersedes : EvidenceIds \cup {None}]
Evidence == PlanEvidence \cup CodeEvidence

\* approval_record: its approval_id is derived from the evidence id.
Approval == [evidence : PlanEvidence, subject : PlanSubject]
ApprovalId(a) == a.evidence.id

Candidate ==
  [subject : PlanSubject, status : {"pending", "rejected", "withdrawn"}]

\* The record of a verification run, filed under the subject checked out.
Verification == [subject : CodeSubject, outcome : {"passed", "failed"}]

NoneAssumptions ==
  /\ None \notin EvidenceIds
  /\ None \notin PlanSubject
  /\ None \notin CodeSubject
  /\ None \notin Approval
  /\ None \notin Candidate
  /\ None \notin Verification
ASSUME NoneIsDistinct == NoneAssumptions

-----------------------------------------------------------------------------
\* The derived record.  `started' is "last_event_id is set", `strict' is what
\* _current_state replays to, `verifiedOnce' is the one fact that
\* _change_event_types is asked for.
ChangeStateType ==
  [current_state : STATES,
   started : BOOLEAN,
   strict : STATES \cup {NoState},
   verifiedOnce : BOOLEAN,
   effective_approval : Approval \cup {None},
   legacy_plan_approval : BOOLEAN,
   pending_revision : Candidate \cup {None},
   evidence_references : Seq(Evidence),
   implementation_assessments : SUBSET EvidenceIds,
   coverage_manifest : SUBSET Paths,
   current_code_subject : CodeSubject \cup {None},
   current_verification : Verification \cup {None}]

\* A change id no line of the log names (derive_state(...).get(id) is None),
\* with the defaults a first line starts from.
NoChange ==
  [current_state |-> "INTENT_DECLARED",
   started |-> FALSE,
   strict |-> NoState,
   verifiedOnce |-> FALSE,
   effective_approval |-> None,
   legacy_plan_approval |-> FALSE,
   pending_revision |-> None,
   evidence_references |-> <<>>,
   implementation_assessments |-> {},
   coverage_manifest |-> {},
   current_code_subject |-> None,
   current_verification |-> None]

\* A stream begun before evidence-backed approvals: its plan_approved carries
\* no approval record and derives to a legacy approval only.
LegacyApproved ==
  [NoChange EXCEPT !.current_state = "PLAN_APPROVED",
                   !.started = TRUE,
                   !.strict = "PLAN_APPROVED",
                   !.legacy_plan_approval = TRUE]

-----------------------------------------------------------------------------
\* The events, by the payload the reducer reads.
PlanReady == [type : {"plan_ready"}, subject : PlanSubject \cup {None}]
RevisionSubmitted ==
  [type : {"plan_revision_submitted"}, subject : PlanSubject,
   prior : EvidenceIds \cup {None}]
PlanWithdrawn ==
  [type : {"plan_withdrawn"}, candidate : PlanSubject, approval : EvidenceIds]
EvidenceImported ==
  [type : {"review_evidence_imported"}, evidence : Evidence,
   historical_only : BOOLEAN]
PlanApproved == [type : {"plan_approved"}, approval : Approval]
PlanRejected == [type : {"plan_rejected"}, evidence : PlanEvidence]
Recorded ==
  [type : {"implementation_recorded"}, approval : EvidenceIds \cup {None},
   coverage : SUBSET Paths]
Verified ==
  [type : {"verification_passed", "verification_failed"},
   verification : Verification \cup {None}]
Completed ==
  [type : {"implementation_complete"}, subject : CodeSubject \cup {None}]
CodeReviewed ==
  [type : {"code_review_passed", "code_review_failed"},
   evidence : CodeEvidence, subject : CodeSubject]
\* Events whose payload derives nothing here.
Bare ==
  [type : {"intent_declared", "intent_abandoned", "intent_redeclared",
           "plan_redeclared", "implementation_started",
           "implementation_restarted", "implementation_invalidated",
           "implementation_withdrawn", "merged", "pr_opened",
           "gate_bypassed", "gate_bypass_disclosed", "sensor_crashed",
           "sensor_timeout_exceeded"}]

Event ==
  UNION {PlanReady, RevisionSubmitted, PlanWithdrawn, EvidenceImported,
         PlanApproved, PlanRejected, Recorded, Verified, Completed,
         CodeReviewed, Bare}

-----------------------------------------------------------------------------
Withdrawn(candidate) == [candidate EXCEPT !.status = "withdrawn"]

Rejected(candidate) == [candidate EXCEPT !.status = "rejected"]

\* The evidence record of an id, if it was imported (_find_evidence).
Imported(c, id) ==
  {c.evidence_references[i] : i \in
     {k \in DOMAIN c.evidence_references : c.evidence_references[k].id = id}}

\* plan_approved: new authority, and a changed commitment set drops the code
\* and verification evidence gathered under the previous one.
DeriveApproval(c, a) ==
  LET sameSubject == /\ c.effective_approval # None
                     /\ c.effective_approval.subject = a.subject
  IN  [c EXCEPT
        !.effective_approval = a,
        !.pending_revision =
           IF @ # None /\ @.subject = a.subject THEN None ELSE @,
        !.current_code_subject = IF sameSubject THEN @ ELSE None,
        !.current_verification = IF sameSubject THEN @ ELSE None]

\* A bug: the missing reset.
DeriveNewEpochInherits(c) == c

\* A new implementation epoch inherits no code or verification evidence.
DeriveNewEpoch(c) ==
  IF c.effective_approval = None
    THEN c
    ELSE [c EXCEPT !.current_code_subject = None,
                   !.current_verification = None]

\* plan_redeclared / intent_redeclared: authority is dropped; only the plan
\* form also drops the code evidence.  Imported evidence, assessments and the
\* coverage manifest are kept by both.
DeriveRedeclared(c, type) ==
  LET dropped == [c EXCEPT !.effective_approval = None,
                           !.legacy_plan_approval = FALSE,
                           !.pending_revision = None]
  IN  IF type = "plan_redeclared"
        THEN [dropped EXCEPT !.current_code_subject = None,
                             !.current_verification = None]
        ELSE dropped

\* The payload accumulation of derive_state for one legal event.
DerivePayload(c, e) ==
  CASE e.type = "plan_ready" /\ e.subject # None ->
         [c EXCEPT !.pending_revision =
            [subject |-> e.subject, status |-> "pending"]]
    [] e.type = "plan_revision_submitted" ->
         [c EXCEPT !.pending_revision =
            [subject |-> e.subject, status |-> "pending"]]
    [] e.type = "plan_withdrawn" ->
         [c EXCEPT !.pending_revision =
            IF @ # None /\ @.subject = e.candidate THEN Withdrawn(@) ELSE @]
    [] e.type = "plan_rejected" ->
         [c EXCEPT !.pending_revision =
            IF @ # None /\ @.subject = e.evidence.subject
              THEN Rejected(@) ELSE @]
    [] e.type = "plan_approved" -> DeriveApproval(c, e.approval)
    [] e.type = "review_evidence_imported" ->
         IF Imported(c, e.evidence.id) = {}
           THEN [c EXCEPT !.evidence_references = Append(@, e.evidence)]
           ELSE c
    [] e.type = "implementation_recorded" ->
         [c EXCEPT !.implementation_assessments = @ \cup ({e.approval} \ {None}),
                   !.coverage_manifest = e.coverage]
    [] e.type \in {"verification_passed", "verification_failed"}
         /\ e.verification # None ->
         [c EXCEPT !.current_verification = e.verification]
    [] e.type = "implementation_complete" /\ e.subject # None ->
         [c EXCEPT !.current_code_subject = e.subject]
    [] e.type = "code_review_passed" ->
         [c EXCEPT !.current_code_subject = e.subject]
    [] e.type \in {"implementation_started", "implementation_restarted",
                   "implementation_invalidated"} ->
         DeriveNewEpoch(c)
    [] e.type \in {"intent_redeclared", "plan_redeclared"} ->
         DeriveRedeclared(c, e.type)
    [] OTHER -> c

\* One iteration of derive_state.  An illegal event keeps the state but is
\* recorded as the last event, so a change whose first event was illegal is
\* from then on taken to be in the default INTENT_DECLARED.
Reduce(c, e) ==
  LET target == ComputeTargetState(
                  IF c.started THEN c.current_state ELSE NoState, e.type)
  IN  IF target = INVALID
        THEN [c EXCEPT !.started = TRUE]
        ELSE [DerivePayload(c, e) EXCEPT !.current_state = target,
                                         !.started = TRUE]

\* A bug: the target of an illegal event taken over unchecked.
StrictStepUnguarded(current, type) == ComputeTargetState(current, type)

\* One iteration of _current_state: the same table from None, where an
\* illegal event leaves no trace.
StrictStep(current, type) ==
  LET target == ComputeTargetState(current, type)
  IN  IF target = INVALID THEN current ELSE target

\* Appending one event: every fold advances by it.
Apply(c, e) ==
  [Reduce(c, e) EXCEPT
     !.strict = StrictStep(c.strict, e.type),
     !.verifiedOnce = c.verifiedOnce \/ e.type = "verification_passed"]

=============================================================================
