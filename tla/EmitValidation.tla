--------------------------- MODULE EmitValidation ---------------------------
(***************************************************************************)
(* What the shared writer demands of a new event before it is appended:    *)
(* src/keepsail/core/emit_validation.py and the predicates of              *)
(* core/approval.py it calls.  Pure operators over the derived change.     *)
(*                                                                         *)
(* Left abstract: the shape checks of payloads (a malformed record is      *)
(* refused and changes nothing), recognition of process and issuer (only   *)
(* recognized evidence is enumerated), the commitments an assessment       *)
(* names, the knowledge ledger, and the re-computation of a code subject   *)
(* from its own commits, which are immutable.                              *)
(***************************************************************************)
EXTENDS ChangeState, Naturals

\* A bug: a reopening not held to need authority.
AuthorizingButReopen ==
  {"plan_approved", "implementation_started", "implementation_restarted",
   "implementation_complete", "code_review_passed", "merged",
   "code_review_failed", "plan_rejected"}

\* _HARD_PREREQ_EVENTS, which skip_validation may not bypass.
Authorizing ==
  {"plan_approved", "implementation_started", "implementation_restarted",
   "implementation_invalidated", "implementation_complete",
   "code_review_passed", "merged", "code_review_failed", "plan_rejected"}

HasUnresolvedCandidate(c) ==
  /\ c.pending_revision # None
  /\ c.pending_revision.status \in {"pending", "rejected"}

EffectiveId(c) ==
  IF c.effective_approval = None THEN None ELSE ApprovalId(c.effective_approval)

MissingCoverage(subject, coverage) == ChangedPaths[subject.tree] \ coverage

\* _current_subject: the subject a conclusion of this kind may be about.
CurrentSubject(c, kind) ==
  CASE kind = "code" -> c.current_code_subject
    [] kind = "plan" /\ c.pending_revision # None -> c.pending_revision.subject
    [] kind = "plan" /\ c.pending_revision = None
         /\ c.effective_approval # None -> c.effective_approval.subject
    [] OTHER -> None

\* The latest imported conclusion for a subject, or None.
LatestConclusion(c, subject) ==
  LET about == {i \in DOMAIN c.evidence_references :
                  c.evidence_references[i].subject = subject}
  IN  IF about = {}
        THEN None
        ELSE c.evidence_references[
               CHOOSE i \in about : \A j \in about : j <= i].id

\* validate_evidence_supersession: a replacement names the latest conclusion
\* for its subject, a first conclusion names none.
SupersedesLatest(c, ev) == ev.supersedes = LatestConclusion(c, ev.subject)

\* A payload key that puts the event under the evidence-backed contract.
CarriesSubject(e) ==
  \/ e.type \in {"plan_revision_submitted", "review_evidence_imported",
                 "plan_approved", "plan_rejected", "code_review_passed",
                 "code_review_failed"}
  \/ e.type \in {"plan_ready", "implementation_complete"} /\ e.subject # None

HasContractState(c) ==
  \/ c.effective_approval # None
  \/ c.pending_revision # None
  \/ c.current_code_subject # None

\* is_new_contract_event, which does not look at the recognition policy.
IsNewContractEvent(c, e) == CarriesSubject(e) \/ HasContractState(c)

-----------------------------------------------------------------------------
\* The arms of _validate_authority.  `active' is recognition_contract_active.

AuthorizesPlanReady(e, active) == e.subject = None => ~active

AuthorizesRevision(c, e) ==
  /\ c.effective_approval # None
  /\ e.prior = ApprovalId(c.effective_approval)
  /\ ~HasUnresolvedCandidate(c)

\* A bug: evidence is not held to the subject current when it lands.
AuthorizesStaleEvidence(c, e, active) ==
  /\ c.started
  /\ active
  /\ Imported(c, e.evidence.id) = {}
  /\ SupersedesLatest(c, e.evidence)

\* load_recognition refuses every import while the policy is not enabled.
AuthorizesEvidence(c, e, active) ==
  /\ c.started
  /\ active
  /\ CurrentSubject(c, e.evidence.kind) # None
  /\ \/ CurrentSubject(c, e.evidence.kind) = e.evidence.subject
     \/ e.historical_only
  /\ Imported(c, e.evidence.id) = {}
  /\ SupersedesLatest(c, e.evidence)

\* A bug: a withdrawn candidate can still be approved.
AuthorizesWithdrawnApproval(c, e) ==
  /\ c.pending_revision # None
  /\ c.pending_revision.subject = e.approval.subject
  /\ e.approval.evidence.decision = "approve"
  /\ e.approval.evidence \in Imported(c, e.approval.evidence.id)

AuthorizesPlanApproved(c, e) ==
  /\ c.pending_revision # None
  /\ c.pending_revision.status # "withdrawn"
  /\ c.pending_revision.subject = e.approval.subject
  /\ e.approval.evidence.decision = "approve"
  /\ e.approval.evidence \in Imported(c, e.approval.evidence.id)

\* The candidate's status is not consulted here.
AuthorizesPlanRejected(c, e) ==
  /\ e.evidence.decision = "reject"
  /\ c.pending_revision # None
  /\ c.pending_revision.subject = e.evidence.subject
  /\ e.evidence \in Imported(c, e.evidence.id)

AuthorizesWithdrawal(c, e) ==
  /\ c.pending_revision # None
  /\ c.pending_revision.subject = e.candidate
  /\ c.pending_revision.status \in {"pending", "rejected"}
  /\ e.approval = EffectiveId(c)

AuthorizesRecord(c, e) ==
  /\ c.effective_approval # None
  /\ e.approval = ApprovalId(c.effective_approval)

AuthorizesVerification(c, e) ==
  /\ e.verification # None
  /\ e.verification.outcome =
       IF e.type = "verification_passed" THEN "passed" ELSE "failed"
  /\ c.effective_approval # None
  /\ e.verification.subject.approval = ApprovalId(c.effective_approval)

UnderApproval(c, subject) ==
  subject # None /\ subject.approval = ApprovalId(c.effective_approval)

\* A bug: any passed verification completes.
AuthorizesUnverifiedCompletion(c, e) ==
  /\ ~HasUnresolvedCandidate(c)
  /\ UnderApproval(c, e.subject)
  /\ MissingCoverage(e.subject, c.coverage_manifest) = {}
  /\ c.current_verification # None
  /\ c.current_verification.outcome = "passed"

AuthorizesCompletion(c, e) ==
  /\ ~HasUnresolvedCandidate(c)
  /\ UnderApproval(c, e.subject)
  /\ c.implementation_assessments # {}
  /\ c.coverage_manifest # {}
  /\ MissingCoverage(e.subject, c.coverage_manifest) = {}
  /\ c.current_verification # None
  /\ c.current_verification.outcome = "passed"
  /\ c.current_verification.subject = e.subject

AuthorizesCodeReview(c, e) ==
  /\ e.type = "code_review_passed" => ~HasUnresolvedCandidate(c)
  /\ UnderApproval(c, e.subject)
  /\ \E ev \in Imported(c, e.evidence.id) :
       /\ ev.kind = "code"
       /\ ev.decision =
            IF e.type = "code_review_passed" THEN "approve" ELSE "reject"
       /\ ev.subject = e.subject

\* Merge does not compare the two subjects it depends on: the verification has
\* to have passed, for whatever commit it ran on.
AuthorizesMerge(c) ==
  /\ ~HasUnresolvedCandidate(c)
  /\ c.current_code_subject # None
  /\ c.current_verification # None
  /\ c.current_verification.outcome = "passed"

\* _validate_authority.  Outside the evidence-backed contract the events of
\* the second group pass unchecked, as streams begun before it must.
ValidateAuthority(c, e, active) ==
  LET newContract == active \/ CarriesSubject(e) \/ HasContractState(c)
  IN  /\ e.type = "plan_ready" => AuthorizesPlanReady(e, active)
      /\ e.type = "plan_revision_submitted" => AuthorizesRevision(c, e)
      /\ e.type = "review_evidence_imported"
           => AuthorizesEvidence(c, e, active)
      /\ e.type = "plan_withdrawn" => AuthorizesWithdrawal(c, e)
      /\ e.type = "implementation_recorded" => AuthorizesRecord(c, e)
      /\ newContract =>
           /\ e.type = "plan_approved" => AuthorizesPlanApproved(c, e)
           /\ e.type = "plan_rejected" => AuthorizesPlanRejected(c, e)
           /\ e.type \in {"verification_passed", "verification_failed"}
                => AuthorizesVerification(c, e)
           /\ e.type \in Authorizing \ {"plan_approved", "plan_rejected"}
                => c.effective_approval # None
           /\ e.type = "implementation_complete" => AuthorizesCompletion(c, e)
           /\ e.type \in {"code_review_passed", "code_review_failed"}
                => AuthorizesCodeReview(c, e)
           /\ e.type = "merged" => AuthorizesMerge(c)

\* validate_preconditions.
Accepts(c, e, active) ==
  /\ ComputeTargetState(c.strict, e.type) # INVALID
  /\ e.type = "implementation_complete" => c.verifiedOnce
  /\ ValidateAuthority(c, e, active)

\* A bug: only the first event of a batch is validated.
AcceptsFirst(c, batch, active) == Accepts(c, batch[1], active)

\* emit_many: each event is validated against the stream with the ones before
\* it staged, and one refusal refuses them all.
AcceptsBatch(c, batch, active) ==
  /\ Accepts(c, batch[1], active)
  /\ Len(batch) = 2 => Accepts(Apply(c, batch[1]), batch[2], active)

\* A bug: only the last event of a batch reaches the log.
ApplyLast(c, batch) == Apply(c, batch[Len(batch)])

ApplyBatch(c, batch) ==
  IF Len(batch) = 1
    THEN Apply(c, batch[1])
    ELSE Apply(Apply(c, batch[1]), batch[2])

\* A system event written with skip_validation: refused, whatever it says, on
\* a stream under the evidence-backed contract.
AcceptsUnvalidated(c, e) ==
  /\ e.type \notin Authorizing
  /\ ~IsNewContractEvent(c, e)

=============================================================================
