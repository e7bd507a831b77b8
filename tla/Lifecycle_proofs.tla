-------------------------- MODULE Lifecycle_proofs --------------------------
(***************************************************************************)
(* Proofs about Lifecycle and Attestation, for every number of             *)
(* invocations, evidence files and trees, in three parts.                  *)
(*                                                                         *)
(* States: a derived change that is Sound stays Sound under every event a  *)
(* command can have prepared, provided the writer accepts it against the   *)
(* log as it is when the event lands; what the command had read does not   *)
(* matter.  That is SoundApply, and the safety invariants follow from it.  *)
(*                                                                         *)
(* Steps: the five action properties hold of one event that the writer     *)
(* accepts (LawfulApply); a conclusion comes as the second event of a      *)
(* batch, after its evidence, which moves nothing they speak of.  That it  *)
(* comes so is what the writer does not check and what the properties      *)
(* need: Riding of the batches under way.                                  *)
(*                                                                         *)
(* Merges: the gate sees a copy that may be old.  What it finds in it was  *)
(* true of the log when the copy was made (Backed), and what was evidence  *)
(* then is evidence now, since the log only grows (Within).  What it reads *)
(* off the lines agrees with what the writer derived from them (Agrees).   *)
(***************************************************************************)
EXTENDS Attestation, TLAPS

-----------------------------------------------------------------------------
(* States.                                                                 *)

LEMMA EventShapes ==
  ASSUME NEW e \in Event
  PROVE  /\ e.type = "plan_ready" => e.subject \in PlanSubject \cup {None}
         /\ e.type = "plan_revision_submitted" => e.subject \in PlanSubject
         /\ e.type = "plan_withdrawn" => e.candidate \in PlanSubject
         /\ e.type = "plan_rejected" => e.evidence \in PlanEvidence
         /\ e.type = "plan_approved" => e.approval \in Approval
         /\ e.type = "review_evidence_imported" => e.evidence \in Evidence
         /\ e.type = "implementation_recorded" =>
              /\ e.approval \in EvidenceIds \cup {None}
              /\ e.coverage \in SUBSET Paths
         /\ e.type \in {"verification_passed", "verification_failed"} =>
              e.verification \in Verification \cup {None}
         /\ e.type = "implementation_complete" =>
              e.subject \in CodeSubject \cup {None}
         /\ e.type \in {"code_review_passed", "code_review_failed"} =>
              e.subject \in CodeSubject
BY DEF Event, PlanReady, RevisionSubmitted, PlanWithdrawn, EvidenceImported,
       PlanApproved, PlanRejected, Recorded, Verified, Completed,
       CodeReviewed, Bare

LEMMA DeriveType ==
  ASSUME NEW c \in ChangeStateType, NEW e \in Event
  PROVE  /\ DerivePayload(c, e) \in ChangeStateType
         /\ DerivePayload(c, e).started = c.started
         /\ DerivePayload(c, e).strict = c.strict
         /\ DerivePayload(c, e).verifiedOnce = c.verifiedOnce
         /\ c.legacy_plan_approval = FALSE
              => DerivePayload(c, e).legacy_plan_approval = FALSE
PROOF
<1> DEFINE Kept(d) == /\ d \in ChangeStateType
                      /\ d.started = c.started
                      /\ d.strict = c.strict
                      /\ d.verifiedOnce = c.verifiedOnce
                      /\ c.legacy_plan_approval = FALSE
                           => d.legacy_plan_approval = FALSE
<1>1. /\ \A x \in Candidate \cup {None} : Kept([c EXCEPT !.pending_revision = x])
      /\ \A x \in CodeSubject \cup {None} :
           Kept([c EXCEPT !.current_code_subject = x])
  BY DEF ChangeStateType
<1>2. /\ \A x \in Verification \cup {None} :
           Kept([c EXCEPT !.current_verification = x])
      /\ \A x \in Seq(Evidence) : Kept([c EXCEPT !.evidence_references = x])
  BY DEF ChangeStateType
<1>3. \A x \in SUBSET EvidenceIds, y \in SUBSET Paths :
        Kept([c EXCEPT !.implementation_assessments = x,
                       !.coverage_manifest = y])
  BY DEF ChangeStateType
<1>4. \A x \in Approval \cup {None}, y \in Candidate \cup {None},
         z \in CodeSubject \cup {None}, v \in Verification \cup {None} :
        Kept([c EXCEPT !.effective_approval = x, !.pending_revision = y,
                       !.current_code_subject = z, !.current_verification = v])
  <2> TAKE x \in Approval \cup {None}, y \in Candidate \cup {None},
           z \in CodeSubject \cup {None}, v \in Verification \cup {None}
  <2> DEFINE d == [c EXCEPT !.effective_approval = x, !.pending_revision = y,
                            !.current_code_subject = z,
                            !.current_verification = v]
  <2>1. d \in ChangeStateType
    BY DEF ChangeStateType
  <2>2. /\ d.started = c.started
        /\ d.strict = c.strict
        /\ d.verifiedOnce = c.verifiedOnce
        /\ d.legacy_plan_approval = c.legacy_plan_approval
    BY DEF ChangeStateType
  <2> QED BY <2>1, <2>2
<1>5. /\ c.pending_revision \in Candidate \cup {None}
      /\ c.effective_approval \in Approval \cup {None}
      /\ c.current_code_subject \in CodeSubject \cup {None}
      /\ c.current_verification \in Verification \cup {None}
      /\ c.evidence_references \in Seq(Evidence)
      /\ c.implementation_assessments \in SUBSET EvidenceIds
      /\ Kept(c)
  BY DEF ChangeStateType
<1>6. CASE e.type = "plan_ready" \/ e.type = "plan_revision_submitted"
  <2>1. e.subject \in PlanSubject =>
          [subject |-> e.subject, status |-> "pending"] \in Candidate
    BY DEF Candidate
  <2>2. DerivePayload(c, e) =
          IF e.type = "plan_ready" /\ e.subject = None
            THEN c
            ELSE [c EXCEPT !.pending_revision =
                    [subject |-> e.subject, status |-> "pending"]]
    BY <1>6 DEF DerivePayload
  <2>3. \/ e.type = "plan_ready" /\ e.subject = None
       \/ e.subject \in PlanSubject
    BY <1>6, EventShapes
  <2> HIDE DEF Kept
  <2> QED BY <1>1, <1>5, <2>1, <2>2, <2>3 DEF Kept
<1>7. CASE e.type = "plan_withdrawn" \/ e.type = "plan_rejected"
  <2>1. \A x \in Candidate :
          Withdrawn(x) \in Candidate /\ Rejected(x) \in Candidate
    BY DEF Candidate, Withdrawn, Rejected
  <2>2. PICK x \in {c.pending_revision, Withdrawn(c.pending_revision),
                    Rejected(c.pending_revision)} :
          /\ DerivePayload(c, e) = [c EXCEPT !.pending_revision = x]
          /\ c.pending_revision = None => x = None
    BY <1>7, Zenon DEF DerivePayload
  <2>3. x \in Candidate \cup {None}
    BY <1>5, <2>1, <2>2
  <2> QED BY <1>1, <2>2, <2>3
<1>8. CASE e.type = "plan_approved"
  <2> DEFINE same == /\ c.effective_approval # None
                     /\ c.effective_approval.subject = e.approval.subject
             y == IF /\ c.pending_revision # None
                     /\ c.pending_revision.subject = e.approval.subject
                    THEN None ELSE c.pending_revision
             z == IF same THEN c.current_code_subject ELSE None
             v == IF same THEN c.current_verification ELSE None
             d == [c EXCEPT !.effective_approval = e.approval,
                            !.pending_revision = y,
                            !.current_code_subject = z,
                            !.current_verification = v]
  <2>1. DerivePayload(c, e) = DeriveApproval(c, e.approval)
    BY <1>8 DEF DerivePayload
  <2>2. DeriveApproval(c, e.approval) = d
    BY Zenon DEF DeriveApproval
  <2>3. e.approval \in Approval \cup {None}
    BY <1>8, EventShapes
  <2>4. /\ y \in Candidate \cup {None}
        /\ z \in CodeSubject \cup {None}
        /\ v \in Verification \cup {None}
    BY <1>5
  <2> HIDE DEF Kept, y, z, v
  <2>5. Kept(d)
    BY <1>4, <2>3, <2>4
  <2>6. Kept(DerivePayload(c, e))
    BY <2>1, <2>2, <2>5
  <2> QED BY <2>6 DEF Kept
<1>9. CASE e.type = "review_evidence_imported"
  <2>1. Append(c.evidence_references, e.evidence) \in Seq(Evidence)
    BY <1>5, <1>9, EventShapes
  <2>2. DerivePayload(c, e) \in
          {c, [c EXCEPT !.evidence_references =
                 Append(c.evidence_references, e.evidence)]}
    BY <1>9 DEF DerivePayload
  <2> QED BY <1>2, <1>5, <2>1, <2>2
<1>10. CASE e.type = "implementation_recorded"
  <2>1. DerivePayload(c, e) =
          [c EXCEPT !.implementation_assessments =
                      c.implementation_assessments \cup ({e.approval} \ {None}),
                    !.coverage_manifest = e.coverage]
    BY <1>10 DEF DerivePayload
  <2>2. /\ c.implementation_assessments \cup ({e.approval} \ {None})
              \in SUBSET EvidenceIds
        /\ e.coverage \in SUBSET Paths
    BY <1>5, <1>10, EventShapes
  <2> HIDE DEF Kept
  <2>3. Kept(DerivePayload(c, e))
    BY <1>3, <2>1, <2>2
  <2> QED BY <2>3 DEF Kept
<1>11. CASE e.type \in {"verification_passed", "verification_failed"}
  <2>1. DerivePayload(c, e) \in {c, [c EXCEPT !.current_verification = e.verification]}
    BY <1>11 DEF DerivePayload
  <2>2. e.verification \in Verification \cup {None}
    BY <1>11, EventShapes
  <2> QED BY <1>2, <1>5, <2>1, <2>2
<1>12. CASE e.type \in {"implementation_complete", "code_review_passed"}
  <2>1. DerivePayload(c, e) \in {c, [c EXCEPT !.current_code_subject = e.subject]}
    BY <1>12 DEF DerivePayload
  <2>2. e.subject \in CodeSubject \cup {None}
    BY <1>12, EventShapes
  <2> QED BY <1>1, <1>5, <2>1, <2>2
<1>13. CASE e.type \in {"implementation_started", "implementation_restarted",
                        "implementation_invalidated"}
  <2> DEFINE d == [c EXCEPT !.current_code_subject = None,
                            !.current_verification = None]
  <2>1. DerivePayload(c, e) = DeriveNewEpoch(c)
    BY <1>13 DEF DerivePayload
  <2>2. DeriveNewEpoch(c) \in {c, d}
    BY Zenon DEF DeriveNewEpoch
  <2>3. Kept(d)
    BY DEF ChangeStateType
  <2> HIDE DEF Kept, d
  <2>4. Kept(DerivePayload(c, e))
    BY <1>5, <2>1, <2>2, <2>3
  <2> QED BY <2>4 DEF Kept
<1>14. CASE e.type \in {"intent_redeclared", "plan_redeclared"}
  <2>1. DerivePayload(c, e) = DeriveRedeclared(c, e.type)
    BY <1>14 DEF DerivePayload
  <2> DEFINE d == [c EXCEPT !.effective_approval = None,
                            !.legacy_plan_approval = FALSE,
                            !.pending_revision = None]
             f == [d EXCEPT !.current_code_subject = None,
                            !.current_verification = None]
  <2>2. DeriveRedeclared(c, e.type) \in {d, f}
    BY Zenon DEF DeriveRedeclared
  <2>3. Kept(d)
    BY DEF ChangeStateType
  <2> HIDE DEF d
  <2>4. Kept(f)
    BY <2>3 DEF ChangeStateType
  <2> HIDE DEF Kept, f
  <2>5. Kept(DerivePayload(c, e))
    BY <2>1, <2>2, <2>3, <2>4
  <2> QED BY <2>5 DEF Kept
<1>15. CASE e.type \notin {"plan_ready", "plan_revision_submitted",
                "plan_withdrawn", "plan_rejected", "plan_approved",
                "review_evidence_imported", "implementation_recorded",
                "verification_passed", "verification_failed",
                "implementation_complete", "code_review_passed",
                "implementation_started", "implementation_restarted",
                "implementation_invalidated", "intent_redeclared",
                "plan_redeclared"}
  BY <1>15 DEF DerivePayload
<1> QED
  BY <1>6, <1>7, <1>8, <1>9, <1>10, <1>11, <1>12, <1>13, <1>14, <1>15

-----------------------------------------------------------------------------
\* Where a legal event leads, from a state of the strict fold.
LEMMA Targets ==
  ASSUME NEW s \in STATES \cup {NoState}, NEW e \in Event,
         ComputeTargetState(s, e.type) # INVALID
  PROVE  LET t == ComputeTargetState(s, e.type)
         IN  /\ t \in STATES
             /\ s \notin TERMINAL_STATES
             /\ s = NoState => e.type = "intent_declared" /\ t = "INTENT_DECLARED"
             /\ e.type = "intent_declared" => t = IF s = NoState THEN "INTENT_DECLARED" ELSE s
             /\ e.type \in Informational => t = s
             /\ e.type = "plan_ready" =>
                  /\ s \in {"INTENT_DECLARED", "PLAN_REJECTED"}
                  /\ t = "AWAITING_PLAN_REVIEW"
             /\ e.type = "plan_approved" =>
                  \/ s = "AWAITING_PLAN_REVIEW" /\ t = "PLAN_APPROVED"
                  \/ s \in UnderImplementation /\ t = "IMPLEMENTATION_IN_PROGRESS"
             /\ e.type = "plan_rejected" =>
                  \/ s = "AWAITING_PLAN_REVIEW" /\ t = "PLAN_REJECTED"
                  \/ s \in UnderImplementation /\ t = s
             /\ e.type \in {"plan_redeclared", "intent_redeclared"} =>
                  t = "INTENT_DECLARED"
             /\ e.type = "intent_abandoned" => t = "ABANDONED"
             /\ e.type = "implementation_started" =>
                  s = "PLAN_APPROVED" /\ t = "IMPLEMENTATION_IN_PROGRESS"
             /\ e.type = "implementation_invalidated" =>
                  t = "IMPLEMENTATION_IN_PROGRESS"
             /\ e.type = "implementation_complete" =>
                  /\ s = "IMPLEMENTATION_IN_PROGRESS"
                  /\ t = "AWAITING_CODE_REVIEW"
             /\ e.type = "code_review_passed" =>
                  /\ s \in {"AWAITING_CODE_REVIEW", "CODE_REVIEW_REJECTED"}
                  /\ t = "READY_TO_MERGE"
             /\ e.type = "code_review_failed" =>
                  /\ s \in {"AWAITING_CODE_REVIEW", "CODE_REVIEW_REJECTED"}
                  /\ t = "CODE_REVIEW_REJECTED"
             /\ e.type = "merged" => s = "READY_TO_MERGE" /\ t = "ARCHIVED"
PROOF
<1> USE DEF STATES, TERMINAL_STATES, NoState, INVALID, Informational,
            UnderImplementation
<1>1. e.type \in {"intent_declared", "plan_ready", "plan_approved",
         "plan_rejected", "plan_redeclared", "intent_redeclared",
         "intent_abandoned", "implementation_started",
         "implementation_restarted", "implementation_invalidated",
         "implementation_complete", "implementation_withdrawn",
         "code_review_passed", "code_review_failed", "merged"}
       \cup Informational
  BY DEF Event, PlanReady, RevisionSubmitted, PlanWithdrawn, EvidenceImported,
       PlanApproved, PlanRejected, Recorded, Verified, Completed,
       CodeReviewed, Bare
<1>2. CASE s = NoState
  BY <1>2 DEF ComputeTargetState
<1>3. CASE s \in TERMINAL_STATES
  BY <1>3 DEF ComputeTargetState
<1>4. CASE s \in STATES \ TERMINAL_STATES /\ e.type \in Informational
  BY <1>4 DEF ComputeTargetState
<1>5. CASE s \in STATES \ TERMINAL_STATES /\ e.type \notin Informational
  <2>1. CASE e.type \in {"intent_declared", "intent_redeclared",
          "plan_redeclared", "intent_abandoned", "implementation_restarted",
          "implementation_invalidated"}
    BY <1>5, <2>1 DEF ComputeTargetState
  <2>2. CASE e.type \in {"plan_ready", "plan_approved", "plan_rejected",
          "implementation_started", "implementation_complete",
          "implementation_withdrawn", "code_review_passed",
          "code_review_failed", "merged"}
    <3>1. ComputeTargetState(s, e.type) = TableTarget(s, e.type)
      BY <1>5, <2>2 DEF ComputeTargetState
    <3> QED BY <1>5, <2>2, <3>1 DEF TableTarget
  <2> QED BY <1>1, <1>5, <2>1, <2>2
<1> QED BY <1>2, <1>3, <1>4, <1>5

\* What Apply makes of an event the strict fold takes as legal.
LEMMA ApplyFields ==
  ASSUME NEW c, Sound(c), NEW e \in Event,
         ComputeTargetState(c.strict, e.type) # INVALID
  PROVE  LET t == ComputeTargetState(c.strict, e.type)
             d == DerivePayload(c, e)
         IN  /\ Apply(c, e) \in ChangeStateType
             /\ Apply(c, e) = [d EXCEPT !.current_state = t, !.started = TRUE,
                               !.strict = t,
                               !.verifiedOnce = c.verifiedOnce
                                 \/ e.type = "verification_passed"]
PROOF
<1> DEFINE t == ComputeTargetState(c.strict, e.type)
           d == DerivePayload(c, e)
           s == IF c.started THEN c.current_state ELSE NoState
<1>1. c \in ChangeStateType /\ d \in ChangeStateType
  BY DeriveType DEF Sound
<1>2. t \in STATES
  BY <1>1, Targets DEF ChangeStateType
<1>3. ComputeTargetState(s, e.type) = t
  <2>1. CASE c.strict = NoState
    <3>1. e.type = "intent_declared" /\ t = "INTENT_DECLARED"
      BY <2>1, <1>1, Targets DEF ChangeStateType
    <3> QED BY <2>1, <3>1 DEF Sound, ComputeTargetState, STATES,
                 TERMINAL_STATES, NoState
  <2>2. CASE c.strict # NoState
    BY <2>2 DEF Sound
  <2> QED BY <2>1, <2>2
<1>4. Reduce(c, e) = [d EXCEPT !.current_state = t, !.started = TRUE]
  <2>1. Reduce(c, e) =
          IF ComputeTargetState(s, e.type) = INVALID
            THEN [c EXCEPT !.started = TRUE]
            ELSE [d EXCEPT !.current_state = ComputeTargetState(s, e.type),
                           !.started = TRUE]
    BY DEF Reduce
  <2> HIDE DEF s, d
  <2> QED BY <1>3, <2>1
<1>5. StrictStep(c.strict, e.type) = t
  BY DEF StrictStep
<1>6. (c.verifiedOnce \/ e.type = "verification_passed") \in BOOLEAN
  OBVIOUS
<1>7. Apply(c, e) = [d EXCEPT !.current_state = t, !.started = TRUE,
                      !.strict = t,
                      !.verifiedOnce = c.verifiedOnce
                        \/ e.type = "verification_passed"]
  BY <1>1, <1>4, <1>5 DEF Apply, ChangeStateType
<1> HIDE DEF t, d
<1>8. Apply(c, e) \in ChangeStateType
  BY <1>1, <1>2, <1>6, <1>7 DEF ChangeStateType
<1> QED BY <1>7, <1>8 DEF t, d

\* The same, field by field.
LEMMA Applied ==
  ASSUME NEW c, Sound(c), NEW e \in Event,
         ComputeTargetState(c.strict, e.type) # INVALID
  PROVE  LET t == ComputeTargetState(c.strict, e.type)
             d == DerivePayload(c, e)
             n == Apply(c, e)
         IN  /\ n \in ChangeStateType
             /\ t \in STATES
             /\ n.current_state = t /\ n.strict = t /\ n.started
             /\ ~n.legacy_plan_approval
             /\ n.effective_approval = d.effective_approval
             /\ n.pending_revision = d.pending_revision
             /\ n.evidence_references = d.evidence_references
             /\ n.current_code_subject = d.current_code_subject
             /\ n.current_verification = d.current_verification
PROOF
<1> DEFINE t == ComputeTargetState(c.strict, e.type)
           d == DerivePayload(c, e)
<1>1. c \in ChangeStateType /\ ~c.legacy_plan_approval
  BY DEF Sound
<1>2. d \in ChangeStateType /\ ~d.legacy_plan_approval
  <2>1. c.legacy_plan_approval = FALSE
    BY <1>1 DEF ChangeStateType
  <2>2. d.legacy_plan_approval = FALSE
    BY <1>1, <2>1, DeriveType
  <2> QED BY <1>1, <2>2, DeriveType
<1>3. t \in STATES
  BY <1>1, Targets DEF ChangeStateType
<1>4. /\ Apply(c, e) \in ChangeStateType
      /\ Apply(c, e) = [d EXCEPT !.current_state = t, !.started = TRUE,
                        !.strict = t,
                        !.verifiedOnce = c.verifiedOnce
                          \/ e.type = "verification_passed"]
  BY ApplyFields
<1> HIDE DEF t, d
<1>5. /\ Apply(c, e).current_state = t
      /\ Apply(c, e).strict = t
      /\ Apply(c, e).started
      /\ ~Apply(c, e).legacy_plan_approval
      /\ Apply(c, e).effective_approval = d.effective_approval
      /\ Apply(c, e).pending_revision = d.pending_revision
      /\ Apply(c, e).evidence_references = d.evidence_references
      /\ Apply(c, e).current_code_subject = d.current_code_subject
      /\ Apply(c, e).current_verification = d.current_verification
  BY <1>2, <1>4 DEF ChangeStateType
<1> QED BY <1>3, <1>4, <1>5 DEF t, d

-----------------------------------------------------------------------------
\* An event the writer accepts, whoever prepared it and whenever, leaves the
\* derived change sound.
LEMMA SoundApply ==
  ASSUME NEW c, Sound(c), NEW active \in BOOLEAN,
         NEW e, Emittable(e, active), Accepts(c, e, active)
  PROVE  Sound(Apply(c, e))
PROOF
<1> DEFINE t == ComputeTargetState(c.strict, e.type)
           d == DerivePayload(c, e)
           n == Apply(c, e)
<1>1. e \in Event /\ c \in ChangeStateType /\ t # INVALID
  BY DEF Emittable, Sound, Accepts
<1>2. /\ n \in ChangeStateType
      /\ t \in STATES
      /\ n.current_state = t /\ n.strict = t /\ n.started
      /\ ~n.legacy_plan_approval
      /\ n.effective_approval = d.effective_approval
      /\ n.pending_revision = d.pending_revision
      /\ n.evidence_references = d.evidence_references
      /\ n.current_code_subject = d.current_code_subject
  BY <1>1, Applied
<1>3. t # NoState
  BY <1>2 DEF STATES, TERMINAL_STATES, NoState
<1>4. c.strict \in STATES \cup {NoState}
  BY <1>1 DEF ChangeStateType
<1>5. c.strict # NoState => c.strict = c.current_state
  BY DEF Sound
<1>6. ValidateAuthority(c, e, active)
  BY DEF Accepts
<1> HIDE DEF t, d, n
<1> DEFINE Kept == /\ d.effective_approval = c.effective_approval
                   /\ d.pending_revision = c.pending_revision
                   /\ d.evidence_references = c.evidence_references
                   /\ d.current_code_subject = c.current_code_subject
<1>10. CASE e.type \in Informational \cup {"intent_declared"}
            /\ e.type \notin {"plan_revision_submitted", "plan_withdrawn",
                              "review_evidence_imported"}
  <2>1. t = c.current_state
    <3>1. CASE e.type = "intent_declared"
      <4>1. t = IF c.strict = NoState THEN "INTENT_DECLARED" ELSE c.strict
        BY <1>1, <1>4, <3>1, Targets DEF t
      <4> QED BY <4>1 DEF Sound
    <3>2. CASE e.type \in Informational
      <4>1. t = c.strict
        BY <1>1, <1>4, <3>2, Targets DEF t
      <4> QED BY <1>3, <1>5, <4>1
    <3> QED BY <1>10, <3>1, <3>2
  <2>2. Kept
    BY <1>1, <1>10 DEF d, DerivePayload, Informational, ChangeStateType
  <2> QED BY <1>2, <1>3, <2>1, <2>2 DEF Sound, EffectiveId, n
<1>11. CASE e.type = "plan_revision_submitted"
  <2>1. t = c.current_state
    BY <1>1, <1>3, <1>4, <1>5, <1>11, Targets DEF t, Informational
  <2>2. /\ c.effective_approval # None
        /\ e.subject.prior = ApprovalId(c.effective_approval)
    BY <1>6, <1>11 DEF ValidateAuthority, AuthorizesRevision, Emittable
  <2>3. /\ d.effective_approval = c.effective_approval
        /\ d.pending_revision.subject = e.subject
        /\ d.evidence_references = c.evidence_references
        /\ d.current_code_subject = c.current_code_subject
    BY <1>1, <1>11 DEF d, DerivePayload, ChangeStateType
  <2> QED BY <1>2, <1>3, <2>1, <2>2, <2>3 DEF Sound, EffectiveId, n
<1>12. CASE e.type \in {"plan_withdrawn", "plan_rejected"}
  <2>1. \/ t = c.current_state
        \/ t = "PLAN_REJECTED" /\ c.current_state = "AWAITING_PLAN_REVIEW"
    BY <1>1, <1>3, <1>4, <1>5, <1>12, Targets DEF t, Informational
  <2>2. /\ d.effective_approval = c.effective_approval
        /\ d.evidence_references = c.evidence_references
        /\ d.current_code_subject = c.current_code_subject
        /\ d.pending_revision # None =>
             /\ c.pending_revision # None
             /\ d.pending_revision.subject = c.pending_revision.subject
    BY <1>1, <1>12
       DEF d, DerivePayload, ChangeStateType, Candidate, Withdrawn, Rejected
  <2>3. c.current_state = "AWAITING_PLAN_REVIEW" => c.effective_approval = None
    BY DEF Sound, WorkingStates, UnderImplementation
  <2> QED
    BY <1>2, <1>3, <2>1, <2>2, <2>3
    DEF Sound, EffectiveId, n, WorkingStates, UnderImplementation, REOPEN_STATES
<1>13. CASE e.type = "review_evidence_imported"
  <2>1. t = c.current_state
    BY <1>1, <1>3, <1>4, <1>5, <1>13, Targets DEF t, Informational
  <2>2. /\ d.effective_approval = c.effective_approval
        /\ d.pending_revision = c.pending_revision
        /\ d.current_code_subject = c.current_code_subject
        /\ d.evidence_references \in
             {c.evidence_references, Append(c.evidence_references, e.evidence)}
    BY <1>1, <1>13 DEF d, DerivePayload, ChangeStateType
  <2>3. \A i \in DOMAIN c.evidence_references :
          /\ i \in DOMAIN d.evidence_references
          /\ d.evidence_references[i] = c.evidence_references[i]
    BY <1>1, <1>13, <2>2, EventShapes DEF ChangeStateType
  <2> QED BY <1>2, <1>3, <2>1, <2>2, <2>3 DEF Sound, EffectiveId, n
<1>14. CASE e.type = "plan_ready"
  <2>1. /\ c.current_state \in {"INTENT_DECLARED", "PLAN_REJECTED"}
        /\ t = "AWAITING_PLAN_REVIEW"
    <3>1. /\ c.strict \in {"INTENT_DECLARED", "PLAN_REJECTED"}
          /\ t = "AWAITING_PLAN_REVIEW"
      BY <1>1, <1>4, <1>14, Targets DEF t
    <3> QED BY <3>1, <1>5 DEF NoState
  <2>2. c.effective_approval = None
    BY <2>1 DEF Sound, WorkingStates, UnderImplementation
  <2>3. /\ d.effective_approval = c.effective_approval
        /\ d.evidence_references = c.evidence_references
        /\ d.current_code_subject = c.current_code_subject
        /\ \/ d.pending_revision = c.pending_revision
           \/ d.pending_revision.subject.prior = None
    BY <1>1, <1>14 DEF d, DerivePayload, ChangeStateType, Emittable
  <2> QED
    BY <1>2, <1>3, <2>1, <2>2, <2>3
    DEF Sound, EffectiveId, n, WorkingStates, UnderImplementation, REOPEN_STATES
<1>15. CASE e.type = "plan_approved"
  <2>1. t \in {"PLAN_APPROVED", "IMPLEMENTATION_IN_PROGRESS"}
    BY <1>1, <1>4, <1>15, Targets DEF t
  <2>2. /\ c.pending_revision # None
        /\ c.pending_revision.subject = e.approval.subject
        /\ e.approval.evidence.decision = "approve"
        /\ e.approval.evidence \in Imported(c, e.approval.evidence.id)
        /\ e.approval.evidence.subject = e.approval.subject
    BY <1>6, <1>15
    DEF ValidateAuthority, CarriesSubject, AuthorizesPlanApproved, Emittable
  <2>3. \E i \in DOMAIN c.evidence_references :
          c.evidence_references[i] = e.approval.evidence
    BY <2>2 DEF Imported
  <2>4. /\ d.effective_approval = e.approval
        /\ d.evidence_references = c.evidence_references
        /\ d.pending_revision = None
    BY <1>1, <1>15, <2>2 DEF d, DerivePayload, DeriveApproval, ChangeStateType
  <2>5. e.approval # None
    BY <1>1, <1>15, EventShapes, NoneIsDistinct DEF NoneAssumptions
  <2> QED
    BY <1>2, <1>3, <2>1, <2>2, <2>3, <2>4, <2>5
    DEF Sound, n, WorkingStates, UnderImplementation, REOPEN_STATES
<1>16. CASE e.type = "plan_redeclared"
  <2>1. t = "INTENT_DECLARED"
    BY <1>1, <1>4, <1>16, Targets DEF t
  <2>2. d.effective_approval = None /\ d.pending_revision = None
    BY <1>1, <1>16 DEF d, DerivePayload, DeriveRedeclared, ChangeStateType
  <2> QED
    BY <1>2, <1>3, <2>1, <2>2
    DEF Sound, n, WorkingStates, UnderImplementation, REOPEN_STATES
<1>17. CASE e.type = "intent_abandoned"
  <2>1. t = "ABANDONED"
    BY <1>1, <1>4, <1>17, Targets DEF t
  <2>2. Kept
    BY <1>17 DEF d, DerivePayload
  <2> QED
    BY <1>2, <1>3, <2>1, <2>2
    DEF Sound, EffectiveId, n, WorkingStates, UnderImplementation, REOPEN_STATES
<1>18. CASE e.type \in {"implementation_started", "implementation_invalidated"}
  <2>1. t = "IMPLEMENTATION_IN_PROGRESS"
    BY <1>1, <1>4, <1>18, Targets DEF t
  <2>2. c.effective_approval # None
    <3>1. CASE e.type = "implementation_started"
      <4>1. c.current_state = "PLAN_APPROVED"
        BY <1>1, <1>4, <1>5, <3>1, Targets DEF t, NoState
      <4> QED BY <4>1 DEF Sound, WorkingStates
    <3>2. CASE e.type = "implementation_invalidated"
      BY <1>6, <3>2 DEF ValidateAuthority, Emittable, Authorizing
    <3> QED BY <1>18, <3>1, <3>2
  <2>3. /\ d.effective_approval = c.effective_approval
        /\ d.pending_revision = c.pending_revision
        /\ d.evidence_references = c.evidence_references
    BY <1>1, <1>18 DEF d, DerivePayload, DeriveNewEpoch, ChangeStateType
  <2> QED
    BY <1>2, <1>3, <2>1, <2>2, <2>3
    DEF Sound, EffectiveId, n, WorkingStates, UnderImplementation, REOPEN_STATES
<1>19. CASE e.type = "implementation_complete"
  <2>1. /\ c.current_state = "IMPLEMENTATION_IN_PROGRESS"
        /\ t = "AWAITING_CODE_REVIEW"
    BY <1>1, <1>4, <1>5, <1>19, Targets DEF t, NoState
  <2>2. c.effective_approval # None
    BY <2>1 DEF Sound, WorkingStates, UnderImplementation
  <2>3. e.subject # None /\ e.subject.approval = ApprovalId(c.effective_approval)
    BY <1>6, <1>19, <2>2
    DEF ValidateAuthority, HasContractState, AuthorizesCompletion, UnderApproval
  <2>4. /\ d.effective_approval = c.effective_approval
        /\ d.pending_revision = c.pending_revision
        /\ d.evidence_references = c.evidence_references
        /\ d.current_code_subject = e.subject
    BY <1>1, <1>19, <2>3 DEF d, DerivePayload, ChangeStateType
  <2> QED
    BY <1>2, <1>3, <2>1, <2>2, <2>3, <2>4
    DEF Sound, EffectiveId, n, WorkingStates, UnderImplementation, REOPEN_STATES
<1>20. CASE e.type = "code_review_passed"
  <2>1. /\ c.current_state \in {"AWAITING_CODE_REVIEW", "CODE_REVIEW_REJECTED"}
        /\ t = "READY_TO_MERGE"
    BY <1>1, <1>4, <1>5, <1>20, Targets DEF t, NoState
  <2>2. c.effective_approval # None
    BY <2>1 DEF Sound, WorkingStates, UnderImplementation
  <2>3. AuthorizesCodeReview(c, e)
    BY <1>6, <1>20 DEF ValidateAuthority, CarriesSubject
  <2>4. /\ e.subject # None
        /\ e.subject.approval = ApprovalId(c.effective_approval)
        /\ \E i \in DOMAIN c.evidence_references :
             /\ c.evidence_references[i].kind = "code"
             /\ c.evidence_references[i].decision = "approve"
             /\ c.evidence_references[i].subject = e.subject
    BY <1>20, <2>3 DEF AuthorizesCodeReview, UnderApproval, Imported
  <2>5. /\ d.effective_approval = c.effective_approval
        /\ d.pending_revision = c.pending_revision
        /\ d.evidence_references = c.evidence_references
        /\ d.current_code_subject = e.subject
    BY <1>1, <1>20 DEF d, DerivePayload, ChangeStateType
  <2> QED
    BY <1>2, <1>3, <2>1, <2>2, <2>4, <2>5
    DEF Sound, EffectiveId, n, WorkingStates, UnderImplementation, REOPEN_STATES
<1>21. CASE e.type \in {"code_review_failed", "merged"}
  <2>1. \/ /\ c.current_state \in {"AWAITING_CODE_REVIEW", "CODE_REVIEW_REJECTED"}
           /\ t = "CODE_REVIEW_REJECTED"
        \/ c.current_state = "READY_TO_MERGE" /\ t = "ARCHIVED"
    BY <1>1, <1>4, <1>5, <1>21, Targets DEF t, NoState
  <2>2. Kept
    BY <1>21 DEF d, DerivePayload
  <2> QED
    BY <1>2, <1>3, <2>1, <2>2
    DEF Sound, EffectiveId, n, WorkingStates, UnderImplementation, REOPEN_STATES
<1>22. e.type \in {"intent_declared", "plan_ready", "plan_approved",
         "plan_rejected", "plan_redeclared", "intent_abandoned",
         "implementation_started", "implementation_invalidated",
         "implementation_complete", "code_review_passed",
         "code_review_failed", "merged"} \cup Informational
  BY DEF Emittable, Event, PlanReady, RevisionSubmitted, PlanWithdrawn,
     EvidenceImported, PlanApproved, PlanRejected, Recorded, Verified,
     Completed, CodeReviewed, Bare, Informational
<1> QED
  BY <1>10, <1>11, <1>12, <1>13, <1>14, <1>15, <1>16, <1>17, <1>18, <1>19,
     <1>20, <1>21, <1>22 DEF n

\* No event but an approval brings authority.
LEMMA ApprovalSource ==
  ASSUME NEW c, Sound(c), NEW active \in BOOLEAN,
         NEW e, Emittable(e, active), Accepts(c, e, active),
         Apply(c, e).effective_approval # None
  PROVE  c.effective_approval # None \/ active
PROOF
<1>1. e \in Event /\ c \in ChangeStateType
  BY DEF Emittable, Sound
<1>2. Apply(c, e).effective_approval = DerivePayload(c, e).effective_approval
  BY <1>1, Applied DEF Accepts
<1>3. CASE e.type = "plan_approved"
  BY <1>3 DEF Emittable
<1>4. CASE e.type # "plan_approved"
  <2>1. DerivePayload(c, e).effective_approval \in {c.effective_approval, None}
    BY <1>1, <1>4 DEF DerivePayload, DeriveNewEpoch, DeriveRedeclared,
                      ChangeStateType
  <2> QED BY <1>2, <2>1
<1> QED BY <1>3, <1>4

\* The writer appends all of a command's batch to a sound change, or nothing.
LEMMA SoundBatch ==
  ASSUME NEW c, Sound(c), NEW active \in BOOLEAN,
         c.effective_approval # None => active,
         NEW batch \in Seq(Event), Len(batch) \in {1, 2},
         \A i \in DOMAIN batch : Emittable(batch[i], active),
         AcceptsBatch(c, batch, active)
  PROVE  /\ Sound(ApplyBatch(c, batch))
         /\ ApplyBatch(c, batch).effective_approval # None => active
PROOF
<1>1. 1 \in DOMAIN batch /\ (Len(batch) = 2 => 2 \in DOMAIN batch)
  OBVIOUS
<1>2. /\ Sound(Apply(c, batch[1]))
      /\ Apply(c, batch[1]).effective_approval # None => active
  BY <1>1, SoundApply, ApprovalSource DEF AcceptsBatch
<1>3. CASE Len(batch) = 1
  BY <1>2, <1>3 DEF ApplyBatch
<1>4. CASE Len(batch) = 2
  <2> DEFINE m == Apply(c, batch[1])
  <2>1. Accepts(m, batch[2], active) /\ Emittable(batch[2], active)
    BY <1>1, <1>4 DEF AcceptsBatch
  <2>2. ApplyBatch(c, batch) = Apply(m, batch[2])
    BY <1>4 DEF ApplyBatch
  <2> HIDE DEF m
  <2>3. Sound(m) /\ (m.effective_approval # None => active)
    BY <1>2 DEF m
  <2>4. Sound(Apply(m, batch[2]))
    BY <2>1, <2>3, SoundApply
  <2>5. Apply(m, batch[2]).effective_approval # None => active
    BY <2>1, <2>3, ApprovalSource
  <2> QED BY <2>2, <2>4, <2>5
<1> QED BY <1>3, <1>4

\* An audit event leaves everything but the mark that the log has a line, even
\* when it is appended without validation to a change no event declared.
LEMMA SoundAudit ==
  ASSUME NEW c, Sound(c),
         NEW type \in {"gate_bypassed", "gate_bypass_disclosed",
                       "sensor_crashed", "sensor_timeout_exceeded"}
  PROVE  /\ Sound(Apply(c, Of(type)))
         /\ Apply(c, Of(type)).effective_approval = c.effective_approval
         /\ Apply(c, Of(type)) = [c EXCEPT !.started = TRUE]
PROOF
<1> DEFINE e == Of(type)
           s == IF c.started THEN c.current_state ELSE NoState
<1>1. c \in ChangeStateType
  BY DEF Sound
<1>2. e.type = type /\ type # "verification_passed" /\ type \in Informational
      /\ type # "intent_declared"
  BY DEF Of, Informational
<1>3. DerivePayload(c, e) = c
  BY <1>2 DEF DerivePayload
<1>10. ASSUME NEW r \in STATES \cup {NoState}
       PROVE  /\ r \in {NoState} \cup TERMINAL_STATES
                   => ComputeTargetState(r, type) = INVALID
              /\ r \in STATES \ TERMINAL_STATES
                   => ComputeTargetState(r, type) = r
  <2>1. CASE r \in {NoState} \cup TERMINAL_STATES
    BY <2>1 DEF ComputeTargetState, STATES, TERMINAL_STATES, NoState
  <2>2. CASE r \in STATES \ TERMINAL_STATES
    BY <1>2, <2>2 DEF ComputeTargetState, NoState, STATES, TERMINAL_STATES
  <2> QED BY <1>10, <2>1, <2>2 DEF STATES, TERMINAL_STATES, NoState
<1>4. \/ ComputeTargetState(s, type) = INVALID
      \/ ComputeTargetState(s, type) = c.current_state /\ c.started
  <2>1. c.current_state \in STATES
    BY <1>1 DEF ChangeStateType
  <2> QED BY <1>10, <2>1
<1>5. StrictStep(c.strict, type) = c.strict
  <2>1. c.strict \in STATES \cup {NoState}
    BY <1>1 DEF ChangeStateType
  <2> QED BY <1>10, <2>1 DEF StrictStep
<1>6. Reduce(c, e) = [c EXCEPT !.started = TRUE]
  <2>1. Reduce(c, e) =
          IF ComputeTargetState(s, e.type) = INVALID
            THEN [c EXCEPT !.started = TRUE]
            ELSE [c EXCEPT !.current_state = ComputeTargetState(s, e.type),
                           !.started = TRUE]
    BY <1>3 DEF Reduce
  <2> HIDE DEF s, e
  <2>2. c.current_state = ComputeTargetState(s, type) =>
          [c EXCEPT !.current_state = ComputeTargetState(s, type),
                    !.started = TRUE] = [c EXCEPT !.started = TRUE]
    BY <1>1 DEF ChangeStateType
  <2> QED BY <1>2, <1>4, <2>1, <2>2
<1> HIDE DEF e
<1>7. Apply(c, e) = [c EXCEPT !.started = TRUE]
  <2>1. c.verifiedOnce = (c.verifiedOnce \/ e.type = "verification_passed")
    BY <1>1, <1>2 DEF ChangeStateType
  <2>2. Apply(c, e) = [[c EXCEPT !.started = TRUE]
                        EXCEPT !.strict = c.strict,
                               !.verifiedOnce = c.verifiedOnce]
    BY <1>2, <1>5, <1>6, <2>1 DEF Apply
  <2> QED BY <1>1, <2>2 DEF ChangeStateType
<1>8. Sound([c EXCEPT !.started = TRUE])
  <2> DEFINE d == [c EXCEPT !.started = TRUE]
  <2>1. d \in ChangeStateType
    BY <1>1 DEF ChangeStateType
  <2>2. /\ d.started
        /\ d.current_state = c.current_state
        /\ d.strict = c.strict
        /\ d.legacy_plan_approval = c.legacy_plan_approval
        /\ d.effective_approval = c.effective_approval
        /\ d.pending_revision = c.pending_revision
        /\ d.evidence_references = c.evidence_references
        /\ d.current_code_subject = c.current_code_subject
    BY <1>1 DEF ChangeStateType
  <2> HIDE DEF d
  <2>3. EffectiveId(d) = EffectiveId(c)
    BY <2>2 DEF EffectiveId
  <2>4. Sound(d)
    BY <2>1, <2>2, <2>3 DEF Sound
  <2> QED BY <2>4 DEF d
<1>9. [c EXCEPT !.started = TRUE].effective_approval = c.effective_approval
  BY <1>1 DEF ChangeStateType
<1> QED BY <1>7, <1>8, <1>9 DEF e

-----------------------------------------------------------------------------
LEMMA InitInvariant ==
  ASSUME LegacyStreams = FALSE, Init
  PROVE  IInv
PROOF
<1>1. cs = NoChange
  BY DEF Init
<1>2. cs \in ChangeStateType
  BY <1>1 DEF NoChange, ChangeStateType, STATES, NoState
<1>3. Sound(cs) /\ cs.effective_approval = None
  BY <1>1, <1>2
  DEF NoChange, Sound, NoState, WorkingStates, UnderImplementation, REOPEN_STATES
<1>4. job = [p \in Procs |-> Idle]
  BY DEF Init
<1>5. Idle \in Job
  BY DEF Idle, Job
<1>6. TypeOK
  BY <1>2, <1>4, <1>5 DEF TypeOK, Init
<1>7. JobsAreEmittable
  BY <1>4 DEF JobsAreEmittable, Idle
<1> QED BY <1>3, <1>6, <1>7 DEF IInv

\* What a command reads of the approval in force.
LEMMA EffectiveIdType ==
  ASSUME NEW c \in ChangeStateType
  PROVE  /\ EffectiveId(c) \in EvidenceIds \cup {None}
         /\ c.effective_approval # None => EffectiveId(c) \in EvidenceIds
BY DEF EffectiveId, ApprovalId, ChangeStateType, Approval, PlanEvidence

LEMMA EmittingOne ==
  ASSUME NEW active \in BOOLEAN, NEW e, Emittable(e, active),
         NEW cmd \in {"command", "verify", "done", "skip"}
  PROVE  LET j == Emitting(cmd, <<e>>)
         IN  /\ j \in Job
             /\ Len(j.batch) \in {1, 2}
             /\ \A i \in DOMAIN j.batch : Emittable(j.batch[i], active)
BY DEF Emitting, Job, Emittable

LEMMA EmittingTwo ==
  ASSUME NEW active \in BOOLEAN,
         NEW e, Emittable(e, active), NEW f, Emittable(f, active)
  PROVE  LET j == Emitting("command", <<e, f>>)
         IN  /\ j \in Job
             /\ Len(j.batch) \in {1, 2}
             /\ \A i \in DOMAIN j.batch : Emittable(j.batch[i], active)
PROOF
<1>1. <<e, f>> \in Seq(Event) /\ Len(<<e, f>>) = 2
  BY DEF Emittable
<1>2. \A i \in DOMAIN <<e, f>> : Emittable(<<e, f>>[i], active)
  BY <1>1
<1> QED BY <1>1, <1>2 DEF Emitting, Job

\* Moving one invocation on keeps the others, and the log, as they are.
LEMMA JobStep ==
  ASSUME IInv, NEW p \in Procs, NEW STATE j, j \in Job,
         j.pc = "emit" => Len(j.batch) \in {1, 2},
         \A i \in DOMAIN j.batch : Emittable(j.batch[i], recognition),
         job' = [job EXCEPT ![p] = j], UNCHANGED recognition
  PROVE  job' \in [Procs -> Job] /\ JobsAreEmittable'
PROOF
<1>1. job' \in [Procs -> Job]
  BY DEF IInv, TypeOK
<1>2. ASSUME NEW q \in Procs
      PROVE  /\ job'[q].pc = "emit" => Len(job'[q].batch) \in {1, 2}
             /\ \A i \in DOMAIN job'[q].batch :
                  Emittable(job'[q].batch[i], recognition')
  <2>1. CASE q = p
    BY <2>1 DEF IInv, TypeOK
  <2>2. CASE q # p
    <3>1. job'[q] = job[q]
      BY <2>2 DEF IInv, TypeOK
    <3> QED BY <3>1 DEF IInv, JobsAreEmittable
  <2> QED BY <2>1, <2>2
<1> QED BY <1>1, <1>2 DEF JobsAreEmittable

LEMMA BeginStep ==
  ASSUME IInv, NEW p \in Procs, NEW STATE j, j \in Job,
         j.pc = "emit" => Len(j.batch) \in {1, 2},
         \A i \in DOMAIN j.batch : Emittable(j.batch[i], recognition),
         Begin(p, j)
  PROVE  IInv'
PROOF
<1>1. job' \in [Procs -> Job] /\ JobsAreEmittable'
  BY JobStep DEF Begin
<1> QED BY <1>1 DEF IInv, TypeOK, Begin

LEMMA BeginEmitting ==
  ASSUME IInv, NEW p \in Procs, NEW STATE e, Emittable(e, recognition),
         NEW cmd \in {"command", "skip"}, Begin(p, Emitting(cmd, <<e>>))
  PROVE  IInv'
PROOF
<1> DEFINE j == Emitting(cmd, <<e>>)
<1>1. recognition \in BOOLEAN
  BY DEF IInv, TypeOK
<1>2. /\ j \in Job
      /\ Len(j.batch) \in {1, 2}
      /\ \A i \in DOMAIN j.batch : Emittable(j.batch[i], recognition)
  BY <1>1, EmittingOne
<1> HIDE DEF j
<1>3. Begin(p, j)
  BY DEF j
<1> QED BY <1>2, <1>3, BeginStep

\* The writer's part of every step.
LEMMA WrittenSound ==
  ASSUME IInv, NEW batch \in Seq(Event), Len(batch) \in {1, 2},
         \A i \in DOMAIN batch : Emittable(batch[i], recognition)
  PROVE  /\ Sound(Written(batch))
         /\ Written(batch).effective_approval # None => recognition
BY SoundBatch DEF Written, IInv, TypeOK

LEMMA EmitStep ==
  ASSUME IInv, NEW e, Emittable(e, recognition), Emit(e)
  PROVE  IInv'
PROOF
<1>1. /\ <<e>> \in Seq(Event) /\ Len(<<e>>) = 1
      /\ \A i \in DOMAIN <<e>> : Emittable(<<e>>[i], recognition)
  BY DEF Emittable
<1>2. /\ Sound(cs)'
      /\ cs'.effective_approval # None => recognition
  BY <1>1, WrittenSound DEF Emit
<1> QED BY <1>2 DEF Emit, IInv, TypeOK, Sound, JobsAreEmittable

LEMMA AuditStep ==
  ASSUME IInv,
         NEW type \in {"gate_bypassed", "gate_bypass_disclosed",
                       "sensor_crashed", "sensor_timeout_exceeded"}
  PROVE  /\ Sound(WrittenUnvalidated(Of(type)))
         /\ WrittenUnvalidated(Of(type)).effective_approval # None => recognition
BY SoundAudit DEF WrittenUnvalidated, IInv

LEMMA AuditOnly ==
  ASSUME IInv,
         NEW type \in {"gate_bypassed", "gate_bypass_disclosed"},
         cs' = WrittenUnvalidated(Of(type)),
         UNCHANGED <<job, recognition, head, work>>
  PROVE  IInv'
PROOF
<1>1. Sound(cs)' /\ (cs'.effective_approval # None => recognition)
  BY AuditStep
<1> QED BY <1>1 DEF IInv, TypeOK, Sound, JobsAreEmittable

\* Commands whose only decision is the writer's prepare emittable events.
LEMMA EmitActions ==
  ASSUME IInv,
         ChangeStart \/ ChangeAbandon \/ PlanRedeclare \/ FrameworkPlanReady
           \/ PrEmitOpened \/ OnMerge
  PROVE  IInv'
PROOF
<1>1. ASSUME NEW type \in {"intent_declared", "intent_abandoned",
                           "plan_redeclared", "pr_opened", "merged"}
      PROVE  Emittable(Of(type), recognition)
  BY DEF Of, Emittable, Event, Bare
<1>2. Emittable([type |-> "plan_ready", subject |-> None], recognition)
  BY DEF Emittable, Event, PlanReady
<1> QED
  BY <1>1, <1>2, EmitStep DEF ChangeStart, ChangeAbandon, PlanRedeclare,
     FrameworkPlanReady, PrEmitOpened, OnMerge

LEMMA ReviewImportStep ==
  ASSUME IInv, NEW p \in Procs, ReviewImport(p)
  PROVE  IInv'
PROOF
<1>1. PICK ev \in Conclusions :
        LET subject == CurrentSubject(cs, ev.kind)
            historical == ev.subject # subject
            imported == [type |-> "review_evidence_imported", evidence |-> ev,
                         historical_only |-> historical]
        IN  /\ recognition
            /\ \/ Begin(p, Emitting("command", <<imported>>))
               \/ /\ ~historical
                  /\ Begin(p, Emitting("command",
                       <<imported, ConclusionEvent(ev, subject)>>))
  BY DEF ReviewImport
<1> DEFINE subject == CurrentSubject(cs, ev.kind)
           imported == [type |-> "review_evidence_imported", evidence |-> ev,
                        historical_only |-> ev.subject # subject]
           two == Emitting("command", <<imported, ConclusionEvent(ev, subject)>>)
<1>2. ev \in Evidence /\ recognition \in BOOLEAN /\ recognition
  BY <1>1, LifecycleAssumption DEF IInv, TypeOK
<1>3. Emittable(imported, recognition)
  BY <1>2 DEF Emittable, Event, EvidenceImported
<1>4. CASE Begin(p, Emitting("command", <<imported>>))
  BY <1>3, <1>4, BeginEmitting
<1>5. CASE ev.subject = subject /\ Begin(p, two)
  <2>1. Emittable(ConclusionEvent(ev, subject), recognition)
    <3>1. CASE ev \in PlanEvidence /\ ev.decision = "approve"
      BY <1>2, <1>5, <3>1 DEF ConclusionEvent, Emittable, Event, PlanApproved,
         Approval, PlanEvidence
    <3>2. CASE ev \in PlanEvidence /\ ev.decision = "reject"
      BY <1>2, <1>5, <3>2 DEF ConclusionEvent, Emittable, Event, PlanRejected,
         PlanEvidence
    <3>3. CASE ev \in CodeEvidence
      BY <1>2, <1>5, <3>3 DEF ConclusionEvent, Emittable, Event, CodeReviewed,
         CodeEvidence
    <3> QED BY <1>2, <3>1, <3>2, <3>3 DEF Evidence, PlanEvidence
  <2>2. /\ two \in Job
        /\ Len(two.batch) \in {1, 2}
        /\ \A i \in DOMAIN two.batch : Emittable(two.batch[i], recognition)
    BY <1>2, <1>3, <2>1, EmittingTwo
  <2> HIDE DEF two
  <2> QED BY <1>5, <2>2, BeginStep
<1> QED BY <1>1, <1>4, <1>5

\* The other commands that read the change and then emit one event.
LEMMA CommandStep ==
  ASSUME IInv, NEW p \in Procs,
         \/ PlanReadyCmd(p) \/ PlanRevise(p) \/ PlanWithdraw(p)
         \/ ImplementationStart(p) \/ ImplementationReopen(p)
         \/ ImplementationRecord(p) \/ DoneSkipVerify(p)
  PROVE  IInv'
PROOF
<1>1. cs \in ChangeStateType /\ Sound(cs) /\ recognition \in BOOLEAN
  BY DEF IInv, TypeOK
<1>2. /\ EffectiveId(cs) \in EvidenceIds \cup {None}
      /\ cs.effective_approval # None => EffectiveId(cs) \in EvidenceIds
  BY <1>1, EffectiveIdType
<1>3. CASE PlanReadyCmd(p)
  <2>1. PICK subject \in [plan : Plans, prior : {None}] \cup {None} :
          Begin(p, Emitting("command",
                            <<[type |-> "plan_ready", subject |-> subject]>>))
    BY <1>3 DEF PlanReadyCmd
  <2>2. Emittable([type |-> "plan_ready", subject |-> subject], recognition)
    BY <2>1 DEF Emittable, Event, PlanReady, PlanSubject
  <2> QED BY <2>1, <2>2, BeginEmitting
<1>4. CASE PlanRevise(p)
  <2>1. PICK plan \in Plans :
          Begin(p, Emitting("command",
            <<[type |-> "plan_revision_submitted",
               subject |-> [plan |-> plan, prior |-> EffectiveId(cs)],
               prior |-> EffectiveId(cs)]>>))
    BY <1>4 DEF PlanRevise
  <2> DEFINE e == [type |-> "plan_revision_submitted",
                   subject |-> [plan |-> plan, prior |-> EffectiveId(cs)],
                   prior |-> EffectiveId(cs)]
  <2>2. Emittable(e, recognition)
    BY <1>2 DEF Emittable, Event, RevisionSubmitted, PlanSubject
  <2> QED BY <2>1, <2>2, BeginEmitting
<1>5. CASE PlanWithdraw(p)
  <2> DEFINE e == [type |-> "plan_withdrawn",
                   candidate |-> cs.pending_revision.subject,
                   approval |-> EffectiveId(cs)]
  <2>1. Emittable(e, recognition)
    BY <1>1, <1>2, <1>5 DEF PlanWithdraw, Emittable, Event, PlanWithdrawn,
       ChangeStateType, Candidate
  <2> QED BY <1>5, <2>1, BeginEmitting DEF PlanWithdraw
<1>6. CASE ImplementationStart(p)
  <2>1. Emittable(Of("implementation_started"), recognition)
    BY DEF Of, Emittable, Event, Bare
  <2> QED BY <1>6, <2>1, BeginEmitting DEF ImplementationStart
<1>7. CASE ImplementationReopen(p)
  <2>1. recognition
    BY <1>1, <1>7 DEF ImplementationReopen, HasApplicableAuthority, Sound, IInv
  <2>2. Emittable(Of("implementation_invalidated"), recognition)
    BY <2>1 DEF Of, Emittable, Event, Bare
  <2> QED BY <1>7, <2>2, BeginEmitting DEF ImplementationReopen
<1>8. CASE ImplementationRecord(p)
  <2>1. PICK coverage \in SUBSET Paths :
          Begin(p, Emitting("command",
            <<[type |-> "implementation_recorded",
               approval |-> EffectiveId(cs), coverage |-> coverage]>>))
    BY <1>8 DEF ImplementationRecord
  <2> DEFINE e == [type |-> "implementation_recorded",
                   approval |-> EffectiveId(cs), coverage |-> coverage]
  <2>2. Emittable(e, recognition)
    BY <1>2 DEF Emittable, Event, Recorded
  <2> QED BY <2>1, <2>2, BeginEmitting
<1>9. CASE DoneSkipVerify(p)
  <2>1. Emittable(SkippedVerification, recognition)
    BY DEF SkippedVerification, Emittable, Event, Verified
  <2> QED BY <1>9, <2>1, BeginEmitting DEF DoneSkipVerify
<1> QED BY <1>3, <1>4, <1>5, <1>6, <1>7, <1>8, <1>9

\* `done' and `verify', up to the writer.
LEMMA RunnerStep ==
  ASSUME IInv, NEW p \in Procs,
         \/ Done(p) \/ Verify(p) \/ BeginChecks(p) \/ FinishChecks(p)
         \/ SensorFails(p) \/ Complete(p) \/ Crash(p)
  PROVE  IInv'
PROOF
<1>1. /\ cs \in ChangeStateType /\ recognition \in BOOLEAN /\ head \in Trees
      /\ work \in Trees /\ job \in [Procs -> Job]
  BY DEF IInv, TypeOK
<1>2. /\ EffectiveId(cs) \in EvidenceIds \cup {None}
      /\ cs.effective_approval # None => EffectiveId(cs) \in EvidenceIds
  BY <1>1, EffectiveIdType
<1>4. Idle \in Job /\ Idle.pc # "emit" /\ Idle.batch = <<>>
      /\ \A i \in DOMAIN Idle.batch : Emittable(Idle.batch[i], recognition)
  BY DEF Idle, Job
<1>3. \A cmd \in {"command", "done", "verify"}, pc \in {"dispatch", "complete"} :
        /\ At(pc, cmd) \in Job
        /\ At(pc, cmd).pc # "emit"
        /\ \A i \in DOMAIN At(pc, cmd).batch :
              Emittable(At(pc, cmd).batch[i], recognition)
  <2> TAKE cmd \in {"command", "done", "verify"}, pc \in {"dispatch", "complete"}
  <2>1. At(pc, cmd) \in Job
    BY <1>4 DEF At, Job
  <2>2. At(pc, cmd).pc = pc /\ At(pc, cmd).batch = Idle.batch
    BY <1>4 DEF At, Job
  <2> QED BY <1>4, <2>1, <2>2
<1>5. CASE Done(p) \/ Verify(p)
  BY <1>3, <1>5, BeginStep DEF Done, Verify
<1>6. CASE BeginChecks(p)
  <2>0. PICK tree \in {head, None} :
          job' = [job EXCEPT
            ![p].pc = "checking",
            ![p].before = IF cs.effective_approval = None
                            THEN None
                            ELSE [approval |-> EffectiveId(cs),
                                  tree |-> tree, work |-> work]]
    BY <1>6 DEF BeginChecks
  <2> DEFINE before == IF cs.effective_approval = None
                         THEN None
                         ELSE [approval |-> EffectiveId(cs),
                               tree |-> tree, work |-> work]
             j == [job[p] EXCEPT !.pc = "checking", !.before = before]
  <2>1. before \in Snapshot \cup {None}
    BY <1>1, <1>2 DEF Snapshot
  <2>2. job' = [job EXCEPT ![p] = j]
    BY <1>1, <2>0
  <2> HIDE DEF before
  <2>3. j \in Job /\ j.pc # "emit" /\ j.batch = job[p].batch
    BY <1>1, <2>1 DEF Job
  <2>4. \A i \in DOMAIN j.batch : Emittable(j.batch[i], recognition)
    BY <2>3 DEF IInv, JobsAreEmittable
  <2> HIDE DEF j
  <2>5. job' \in [Procs -> Job] /\ JobsAreEmittable'
    BY <1>6, <2>2, <2>3, <2>4, JobStep DEF BeginChecks
  <2> QED BY <1>6, <2>5 DEF BeginChecks, IInv, TypeOK
<1>7. CASE FinishChecks(p)
  <2> DEFINE before == job[p].before
             Report(passed, readable) ==
               VerdictEvent(passed,
                 IF before = None \/ before.tree = None
                   THEN None
                   ELSE [subject |->
                           [approval |-> before.approval,
                            tree |-> IF readable THEN head ELSE before.tree],
                         outcome |-> IF passed THEN "passed" ELSE "failed"])
  <2>1. PICK passed, readable \in BOOLEAN :
          job' = [job EXCEPT
                    ![p] = Emitting(job[p].cmd, <<Report(passed, readable)>>)]
    <3>1. PICK checksPass, readable \in BOOLEAN :
            LET unchanged == /\ readable
                             /\ EffectiveId(cs) = before.approval
                             /\ head = before.tree
                             /\ work = before.work
                passed == checksPass /\ (before # None => unchanged)
            IN  job' = [job EXCEPT
                         ![p] = Emitting(job[p].cmd,
                                         <<Report(passed, readable)>>)]
      BY <1>7 DEF FinishChecks
    <3> QED BY <3>1
  <2>2. before \in Snapshot \cup {None}
    BY <1>1 DEF Job
  <2>3. Report(passed, readable).type \in {"verification_passed", "verification_failed"}
        /\ Report(passed, readable) \in Verified
    BY <1>1, <2>2 DEF VerdictEvent, Verified, Verification, CodeSubject, Snapshot
  <2>4. Emittable(Report(passed, readable), recognition)
    BY <2>3 DEF Emittable, Event
  <2> DEFINE j == Emitting(job[p].cmd, <<Report(passed, readable)>>)
  <2>5. job[p].cmd \in {"command", "verify", "done", "skip"}
    BY <1>1 DEF Job
  <2> HIDE DEF Report, before
  <2>6. /\ j \in Job
        /\ Len(j.batch) \in {1, 2}
        /\ \A i \in DOMAIN j.batch : Emittable(j.batch[i], recognition)
    BY <1>1, <2>4, <2>5, EmittingOne
  <2>7. job' = [job EXCEPT ![p] = j]
    BY <2>1
  <2> HIDE DEF j
  <2>9. UNCHANGED <<cs, recognition, head, work>>
    BY <1>7 DEF FinishChecks
  <2>8. job' \in [Procs -> Job] /\ JobsAreEmittable'
    BY <2>6, <2>7, <2>9, JobStep
  <2> QED BY <2>8, <2>9 DEF IInv, TypeOK
<1>8. CASE SensorFails(p)
  <2>1. Sound(cs)' /\ (cs'.effective_approval # None => recognition)
    BY <1>8, AuditStep DEF SensorFails
  <2>2. job' \in [Procs -> Job] /\ JobsAreEmittable'
    BY <1>4, <1>8, JobStep DEF SensorFails
  <2> QED BY <1>8, <2>1, <2>2 DEF SensorFails, IInv, TypeOK, Sound
<1>9. CASE Complete(p)
  <2> DEFINE e == [type |-> "implementation_complete",
                   subject |-> IF cs.effective_approval = None
                                 THEN None
                                 ELSE [approval |-> EffectiveId(cs),
                                       tree |-> head]]
             j == Emitting("command", <<e>>)
  <2>1. Emittable(e, recognition)
    BY <1>1, <1>2 DEF Emittable, Event, Completed, CodeSubject
  <2>2. job' = [job EXCEPT ![p] = j]
    BY <1>9 DEF Complete
  <2> HIDE DEF e
  <2>3. /\ j \in Job
        /\ Len(j.batch) \in {1, 2}
        /\ \A i \in DOMAIN j.batch : Emittable(j.batch[i], recognition)
    BY <1>1, <2>1, EmittingOne
  <2> HIDE DEF j
  <2>9. UNCHANGED <<cs, recognition, head, work>>
    BY <1>9 DEF Complete
  <2>4. job' \in [Procs -> Job] /\ JobsAreEmittable'
    BY <2>2, <2>3, <2>9, JobStep
  <2> QED BY <2>4, <2>9 DEF IInv, TypeOK
<1>10. CASE Crash(p)
  <2>1. job' \in [Procs -> Job] /\ JobsAreEmittable'
    BY <1>4, <1>10, JobStep DEF Crash
  <2> QED BY <1>10, <2>1 DEF Crash, IInv, TypeOK
<1> QED BY <1>5, <1>6, <1>7, <1>8, <1>9, <1>10

LEMMA CommitStep ==
  ASSUME IInv, NEW p \in Procs, Commit(p)
  PROVE  IInv'
PROOF
<1>1. /\ job[p].batch \in Seq(Event)
      /\ Len(job[p].batch) \in {1, 2}
      /\ \A i \in DOMAIN job[p].batch : Emittable(job[p].batch[i], recognition)
  BY DEF IInv, TypeOK, Job, JobsAreEmittable, Commit
<1>2. Sound(cs)' /\ (cs'.effective_approval # None => recognition)
  BY <1>1, WrittenSound DEF Commit
<1> DEFINE complete == At("complete", "command")
<1>3. \A j \in {complete, Idle} :
        /\ j \in Job
        /\ j.pc # "emit"
        /\ \A i \in DOMAIN j.batch : Emittable(j.batch[i], recognition)
  <2>1. Idle \in Job /\ Idle.pc # "emit" /\ Idle.batch = <<>>
        /\ \A i \in DOMAIN Idle.batch : Emittable(Idle.batch[i], recognition)
    BY DEF Idle, Job
  <2>2. complete \in Job /\ complete.pc # "emit" /\ complete.batch = Idle.batch
    BY <2>1 DEF At, Job
  <2> QED BY <2>1, <2>2
<1>4. PICK j \in {complete, Idle} : job' = [job EXCEPT ![p] = j]
  BY DEF Commit
<1>5. UNCHANGED <<recognition, head, work>>
  BY DEF Commit
<1> HIDE DEF complete
<1>6. job' \in [Procs -> Job] /\ JobsAreEmittable'
  BY <1>3, <1>4, <1>5, JobStep
<1> QED BY <1>2, <1>5, <1>6 DEF IInv, TypeOK, Sound

LEMMA EnvironmentStep ==
  ASSUME IInv, Edit \/ GitCommit \/ EnableRecognition
  PROVE  IInv'
PROOF
<1>1. CASE Edit \/ GitCommit
  BY <1>1 DEF Edit, GitCommit, IInv, TypeOK, Sound, JobsAreEmittable
<1>2. CASE EnableRecognition
  <2>1. ASSUME NEW e, Emittable(e, recognition)
        PROVE  Emittable(e, recognition)'
    BY <1>2, <2>1 DEF EnableRecognition, Emittable
  <2>2. JobsAreEmittable'
    BY <1>2, <2>1 DEF EnableRecognition, IInv, JobsAreEmittable
  <2> QED BY <1>2, <2>2 DEF EnableRecognition, IInv, TypeOK, Sound
<1> QED BY <1>1, <1>2

LEMMA Inductive ==
  ASSUME IInv, [Next]_vars
  PROVE  IInv'
PROOF
<1>1. CASE UNCHANGED vars
  BY <1>1 DEF vars, IInv, TypeOK, Sound, JobsAreEmittable
<1>2. CASE ChangeStart \/ ChangeAbandon \/ PlanRedeclare
             \/ FrameworkPlanReady \/ PrEmitOpened \/ OnMerge
  BY <1>2, EmitActions
<1>3. CASE RecordBypass \/ AttestDisclose
  BY <1>3, AuditOnly DEF RecordBypass, AttestDisclose
<1>4. CASE Edit \/ GitCommit \/ EnableRecognition
  BY <1>4, EnvironmentStep
<1>5. ASSUME NEW p \in Procs,
             \/ PlanReadyCmd(p) \/ PlanRevise(p) \/ PlanWithdraw(p)
             \/ ImplementationStart(p) \/ ImplementationReopen(p)
             \/ ImplementationRecord(p) \/ DoneSkipVerify(p)
      PROVE  IInv'
  BY <1>5, CommandStep
<1>6. ASSUME NEW p \in Procs, ReviewImport(p)
      PROVE  IInv'
  BY <1>6, ReviewImportStep
<1>7. ASSUME NEW p \in Procs,
             \/ Done(p) \/ Verify(p) \/ BeginChecks(p) \/ FinishChecks(p)
             \/ SensorFails(p) \/ Complete(p) \/ Crash(p)
      PROVE  IInv'
  BY <1>7, RunnerStep
<1>8. ASSUME NEW p \in Procs, Commit(p)
      PROVE  IInv'
  BY <1>8, CommitStep
<1> QED BY <1>1, <1>2, <1>3, <1>4, <1>5, <1>6, <1>7, <1>8 DEF Next

-----------------------------------------------------------------------------
\* The change stays sound, and every prepared batch emittable, on every log
\* begun under the evidence-backed contract.
THEOREM Invariance ==
  ASSUME LegacyStreams = FALSE
  PROVE  Spec => []IInv
PROOF
<1>1. Init => IInv
  BY InitInvariant
<1>2. IInv /\ [Next]_vars => IInv'
  BY Inductive
<1> QED BY <1>1, <1>2, PTL DEF Spec

\* Every variable stays in its type: no fold over the log reaches a record the
\* commands could not read.
THEOREM TypeCorrect ==
  ASSUME LegacyStreams = FALSE
  PROVE  Spec => []TypeOK
PROOF
<1>1. IInv => TypeOK
  BY DEF IInv
<1> QED BY <1>1, Invariance, PTL

\* No interleaving of commands brings a change into implementation, review or
\* the archive without an approval in force (_validate_authority).
THEOREM AuthorityAlwaysBacksWork ==
  ASSUME LegacyStreams = FALSE
  PROVE  Spec => []AuthorityBacksWork
PROOF
<1>1. IInv => AuthorityBacksWork
  BY DEF IInv, Sound, AuthorityBacksWork
<1> QED BY <1>1, Invariance, PTL

\* The approval in force is always an imported approving conclusion about
\* exactly the subject it approves (approval_record).
THEOREM ApprovalAlwaysEvidenced ==
  ASSUME LegacyStreams = FALSE
  PROVE  Spec => []ApprovalIsEvidenced
PROOF
<1>1. IInv => ApprovalIsEvidenced
  BY DEF IInv, Sound, ApprovalIsEvidenced, Imported, ApprovalId
<1> QED BY <1>1, Invariance, PTL

\* Code that is ready to merge, or merged, was approved for exactly the frozen
\* subject, under the approval in force.
THEOREM ReadyCodeAlwaysReviewed ==
  ASSUME LegacyStreams = FALSE
  PROVE  Spec => []ReadyCodeIsReviewed
PROOF
<1>1. IInv => ReadyCodeIsReviewed
  BY DEF IInv, Sound, ReadyCodeIsReviewed, REOPEN_STATES
<1> QED BY <1>1, Invariance, PTL

\* Code under review, rejected, ready or merged was frozen under the approval
\* in force.
THEOREM FrozenCodeAlwaysFollows ==
  ASSUME LegacyStreams = FALSE
  PROVE  Spec => []FrozenCodeFollowsApproval
PROOF
<1>1. IInv => FrozenCodeFollowsApproval
  BY DEF IInv, Sound, FrozenCodeFollowsApproval
<1> QED BY <1>1, Invariance, PTL

\* A candidate plan never outlives the approval it was submitted against.
THEOREM CandidateAlwaysFollows ==
  ASSUME LegacyStreams = FALSE
  PROVE  Spec => []CandidateFollowsApproval
PROOF
<1>1. IInv => CandidateFollowsApproval
  BY DEF IInv, Sound, CandidateFollowsApproval
<1> QED BY <1>1, Invariance, PTL

\* What a command shows of a declared change and what the writer enforces on
\* it are one state.
THEOREM FoldsAlwaysAgree ==
  ASSUME LegacyStreams = FALSE
  PROVE  Spec => []FoldsAgree
PROOF
<1>1. IInv => FoldsAgree
  BY DEF IInv, Sound, FoldsAgree
<1> QED BY <1>1, Invariance, PTL

-----------------------------------------------------------------------------
(* Steps.                                                                  *)

\* The fields the action properties speak of.
Alike(c, d) ==
  /\ d.current_state = c.current_state
  /\ d.effective_approval = c.effective_approval
  /\ d.pending_revision = c.pending_revision
  /\ d.current_code_subject = c.current_code_subject
  /\ d.current_verification = c.current_verification

\* ApprovalStep, CompletionStep, EpochStep, DeliveryStep and ReviewStep of a
\* step from c to d.
Linked(c, d) ==
  c.effective_approval # None /\ d.effective_approval # c.effective_approval
    => \/ d.effective_approval = None /\ d.current_state = "INTENT_DECLARED"
       \/ /\ c.pending_revision # None
          /\ c.pending_revision.status # "withdrawn"
          /\ d.effective_approval # None
          /\ d.effective_approval.subject = c.pending_revision.subject
          /\ d.effective_approval.subject.prior = EffectiveId(c)
Finished(c, d) ==
  c.current_state # "AWAITING_CODE_REVIEW"
  /\ d.current_state = "AWAITING_CODE_REVIEW"
    => /\ c.current_verification # None
       /\ c.current_verification.outcome = "passed"
       /\ c.current_verification.subject = d.current_code_subject
Restarted(c, d) ==
  c.current_state # "IMPLEMENTATION_IN_PROGRESS"
  /\ d.current_state = "IMPLEMENTATION_IN_PROGRESS"
    => d.current_verification = None /\ d.current_code_subject = None
Delivered(c, d) ==
  (/\ d.current_state # c.current_state
   /\ d.current_state \in {"AWAITING_CODE_REVIEW", "READY_TO_MERGE", "ARCHIVED"})
    => ~HasUnresolvedCandidate(d)
Reviewed(c, d) ==
  (/\ d.current_state # c.current_state
   /\ d.current_state \in {"CODE_REVIEW_REJECTED", "READY_TO_MERGE"})
    => d.current_code_subject = c.current_code_subject
Lawful(c, d) ==
  /\ Linked(c, d) /\ Finished(c, d) /\ Restarted(c, d)
  /\ Delivered(c, d) /\ Reviewed(c, d)

\* No approval departs from itself: the approval of a revision is never for
\* the subject in force, so what was gathered under that one is dropped.
DepartsElsewhere(c) ==
  c.effective_approval # None =>
    c.effective_approval.subject.prior # EffectiveId(c)

\* A conclusion follows, in one batch, the evidence it concludes from, which
\* is then not declared historical.
Concluding == {"plan_approved", "code_review_passed", "code_review_failed"}
Riding(batch) ==
  /\ Len(batch) = 1 => batch[1].type \notin Concluding
  /\ Len(batch) = 2 =>
       /\ batch[1].type = "review_evidence_imported"
       /\ ~batch[1].historical_only
       /\ batch[2].type = "plan_approved" =>
            batch[2].approval.evidence = batch[1].evidence
       /\ batch[2].type \in {"code_review_passed", "code_review_failed"} =>
            /\ batch[1].evidence.kind = "code"
            /\ batch[1].evidence.subject = batch[2].subject

StepInv ==
  /\ IInv
  /\ DepartsElsewhere(cs)
  /\ \A p \in Procs : Riding(job[p].batch)

-----------------------------------------------------------------------------
LEMMA AlikeLawful ==
  ASSUME NEW c, NEW d, Alike(c, d)
  PROVE  /\ Lawful(c, d)
         /\ DepartsElsewhere(c) => DepartsElsewhere(d)
BY DEF Alike, Lawful, Linked, Finished, Restarted, Delivered, Reviewed,
       DepartsElsewhere, EffectiveId

\* Every accepted event makes a lawful step, given the two things the writer
\* does not compare.
LEMMA LawfulApply ==
  ASSUME NEW c, Sound(c), DepartsElsewhere(c), NEW active \in BOOLEAN,
         NEW e, Emittable(e, active), Accepts(c, e, active),
         e.type = "plan_approved" => e.approval.evidence.id # EffectiveId(c),
         e.type = "code_review_passed" => e.subject = c.current_code_subject
  PROVE  Lawful(c, Apply(c, e)) /\ DepartsElsewhere(Apply(c, e))
PROOF
<1> DEFINE t == ComputeTargetState(c.strict, e.type)
           d == DerivePayload(c, e)
           n == Apply(c, e)
<1>1. e \in Event /\ c \in ChangeStateType /\ t # INVALID
  BY DEF Emittable, Sound, Accepts
<1>2. /\ t \in STATES
      /\ n.current_state = t
      /\ n.effective_approval = d.effective_approval
      /\ n.pending_revision = d.pending_revision
      /\ n.current_code_subject = d.current_code_subject
      /\ n.current_verification = d.current_verification
  BY <1>1, Applied
<1>3. c.strict \in STATES \cup {NoState} /\ t # NoState
  BY <1>1, <1>2 DEF ChangeStateType, STATES, TERMINAL_STATES, NoState
<1>4. c.strict # NoState => c.strict = c.current_state
  BY DEF Sound
<1>5. ValidateAuthority(c, e, active)
  BY DEF Accepts
<1> HIDE DEF t, d, n
<1> DEFINE Kept == /\ d.effective_approval = c.effective_approval
                   /\ d.pending_revision = c.pending_revision
                   /\ d.current_code_subject = c.current_code_subject
                   /\ d.current_verification = c.current_verification
<1>10. CASE e.type \in Informational \cup {"intent_declared"}
  <2>1. t = c.current_state
    <3>1. CASE e.type = "intent_declared"
      <4>1. t = IF c.strict = NoState THEN "INTENT_DECLARED" ELSE c.strict
        BY <1>1, <1>3, <3>1, Targets DEF t
      <4> QED BY <4>1 DEF Sound
    <3>2. CASE e.type \in Informational
      <4>1. t = c.strict
        BY <1>1, <1>3, <3>2, Targets DEF t
      <4> QED BY <1>3, <1>4, <4>1
    <3> QED BY <1>10, <3>1, <3>2
  <2>2. d.effective_approval = c.effective_approval
    BY <1>1, <1>10 DEF d, DerivePayload, Informational, ChangeStateType
  <2> QED
    BY <1>2, <2>1, <2>2
    DEF n, Lawful, Linked, Finished, Restarted, Delivered, Reviewed,
        DepartsElsewhere, EffectiveId
<1>11. CASE e.type \in {"plan_ready", "plan_rejected"}
  <2>1. t \in {c.current_state, "AWAITING_PLAN_REVIEW", "PLAN_REJECTED"}
    BY <1>1, <1>3, <1>4, <1>11, Targets DEF t
  <2>2. d.effective_approval = c.effective_approval
    BY <1>1, <1>11 DEF d, DerivePayload, ChangeStateType
  <2> QED
    BY <1>2, <2>1, <2>2
    DEF n, Lawful, Linked, Finished, Restarted, Delivered, Reviewed,
        DepartsElsewhere, EffectiveId
<1>12. CASE e.type = "plan_approved"
  <2>1. \/ t = "PLAN_APPROVED"
        \/ t = "IMPLEMENTATION_IN_PROGRESS"
           /\ c.current_state \in UnderImplementation
    <3>1. \/ t = "PLAN_APPROVED"
          \/ t = "IMPLEMENTATION_IN_PROGRESS" /\ c.strict \in UnderImplementation
      BY <1>1, <1>3, <1>12, Targets DEF t
    <3> QED BY <1>4, <3>1 DEF UnderImplementation, NoState
  <2>2. /\ c.pending_revision # None
        /\ c.pending_revision.status # "withdrawn"
        /\ c.pending_revision.subject = e.approval.subject
    BY <1>5, <1>12
    DEF ValidateAuthority, CarriesSubject, AuthorizesPlanApproved
  <2>3. e.approval.subject.prior = EffectiveId(c)
    BY <2>2 DEF Sound
  <2>4. e.approval # None
    BY <1>1, <1>12, EventShapes, NoneIsDistinct DEF NoneAssumptions
  <2>5. c.effective_approval # None =>
          c.effective_approval.subject # e.approval.subject
    BY <2>3 DEF DepartsElsewhere
  <2>6. /\ d.effective_approval = e.approval
        /\ d.current_code_subject = IF c.effective_approval # None
             THEN None ELSE d.current_code_subject
        /\ d.current_verification = IF c.effective_approval # None
             THEN None ELSE d.current_verification
    BY <1>1, <1>12, <2>5 DEF d, DerivePayload, DeriveApproval, ChangeStateType
  <2>7. t = "IMPLEMENTATION_IN_PROGRESS" => c.effective_approval # None
    BY <2>1 DEF Sound, WorkingStates
  <2>8. DepartsElsewhere(n)
    BY <1>2, <1>12, <2>3, <2>4, <2>6 DEF DepartsElsewhere, EffectiveId, ApprovalId
  <2> QED
    BY <1>2, <2>1, <2>2, <2>3, <2>4, <2>6, <2>7, <2>8
    DEF n, Lawful, Linked, Finished, Restarted, Delivered, Reviewed
<1>13. CASE e.type = "plan_redeclared"
  <2>1. t = "INTENT_DECLARED"
    BY <1>1, <1>3, <1>13, Targets DEF t
  <2>2. d.effective_approval = None
    BY <1>1, <1>13 DEF d, DerivePayload, DeriveRedeclared, ChangeStateType
  <2> QED
    BY <1>2, <2>1, <2>2
    DEF n, Lawful, Linked, Finished, Restarted, Delivered, Reviewed,
        DepartsElsewhere
<1>14. CASE e.type = "intent_abandoned"
  <2>1. t = "ABANDONED"
    BY <1>1, <1>3, <1>14, Targets DEF t
  <2>2. Kept
    BY <1>14 DEF d, DerivePayload
  <2> QED
    BY <1>2, <2>1, <2>2
    DEF n, Lawful, Linked, Finished, Restarted, Delivered, Reviewed,
        DepartsElsewhere, EffectiveId
<1>15. CASE e.type \in {"implementation_started", "implementation_invalidated"}
  <2>1. t = "IMPLEMENTATION_IN_PROGRESS"
    BY <1>1, <1>3, <1>15, Targets DEF t
  <2>2. c.effective_approval # None
    <3>1. CASE e.type = "implementation_started"
      BY <1>1, <1>3, <1>4, <3>1, Targets DEF t, Sound, WorkingStates, NoState
    <3>2. CASE e.type = "implementation_invalidated"
      BY <1>5, <3>2 DEF Emittable, ValidateAuthority, Authorizing
    <3> QED BY <1>15, <3>1, <3>2
  <2>3. /\ d.effective_approval = c.effective_approval
        /\ d.current_code_subject = None
        /\ d.current_verification = None
    BY <1>1, <1>15, <2>2 DEF d, DerivePayload, DeriveNewEpoch, ChangeStateType
  <2> QED
    BY <1>2, <2>1, <2>3
    DEF n, Lawful, Linked, Finished, Restarted, Delivered, Reviewed,
        DepartsElsewhere, EffectiveId
<1>16. CASE e.type \in {"implementation_complete", "code_review_passed",
                        "code_review_failed", "merged"}
  <2>1. \/ /\ e.type = "implementation_complete"
           /\ c.current_state = "IMPLEMENTATION_IN_PROGRESS"
           /\ t = "AWAITING_CODE_REVIEW"
        \/ /\ e.type = "code_review_passed"
           /\ c.current_state \in {"AWAITING_CODE_REVIEW", "CODE_REVIEW_REJECTED"}
           /\ t = "READY_TO_MERGE"
        \/ /\ e.type = "code_review_failed"
           /\ c.current_state \in {"AWAITING_CODE_REVIEW", "CODE_REVIEW_REJECTED"}
           /\ t = "CODE_REVIEW_REJECTED"
        \/ /\ e.type = "merged"
           /\ c.current_state = "READY_TO_MERGE"
           /\ t = "ARCHIVED"
    BY <1>1, <1>3, <1>4, <1>16, Targets DEF t, NoState
  <2>2. c.effective_approval # None
    BY <2>1 DEF Sound, WorkingStates, UnderImplementation
  <2>3. /\ e.type # "code_review_failed" => ~HasUnresolvedCandidate(c)
        /\ e.type = "implementation_complete" =>
             /\ e.subject # None
             /\ c.current_verification # None
             /\ c.current_verification.outcome = "passed"
             /\ c.current_verification.subject = e.subject
    BY <1>5, <1>16, <2>2
    DEF ValidateAuthority, HasContractState, AuthorizesCompletion,
        AuthorizesCodeReview, AuthorizesMerge, UnderApproval
  <2>4. /\ d.effective_approval = c.effective_approval
        /\ d.pending_revision = c.pending_revision
        /\ d.current_code_subject =
             IF e.type \in {"implementation_complete", "code_review_passed"}
               THEN e.subject ELSE c.current_code_subject
    BY <1>1, <1>16, <2>3 DEF d, DerivePayload, ChangeStateType
  <2>5. ~HasUnresolvedCandidate(c) => ~HasUnresolvedCandidate(n)
    BY <1>2, <2>4 DEF HasUnresolvedCandidate
  <2> QED
    BY <1>2, <2>1, <2>3, <2>4, <2>5
    DEF n, Lawful, Linked, Finished, Restarted, Delivered, Reviewed,
        DepartsElsewhere, EffectiveId
<1>17. e.type \in {"intent_declared", "plan_ready", "plan_approved",
         "plan_rejected", "plan_redeclared", "intent_abandoned",
         "implementation_started", "implementation_invalidated",
         "implementation_complete", "code_review_passed",
         "code_review_failed", "merged"} \cup Informational
  BY DEF Emittable, Event, PlanReady, RevisionSubmitted, PlanWithdrawn,
     EvidenceImported, PlanApproved, PlanRejected, Recorded, Verified,
     Completed, CodeReviewed, Bare, Informational
<1> QED
  BY <1>10, <1>11, <1>12, <1>13, <1>14, <1>15, <1>16, <1>17 DEF n

\* Recording evidence moves nothing else, and its id is new, so it is not the
\* one the approval in force rests on.
LEMMA EvidenceApply ==
  ASSUME NEW c, Sound(c), NEW active \in BOOLEAN,
         NEW e, Emittable(e, active), Accepts(c, e, active),
         e.type = "review_evidence_imported"
  PROVE  /\ Alike(c, Apply(c, e))
         /\ e.evidence.id # EffectiveId(c)
         /\ ~e.historical_only =>
              CurrentSubject(c, e.evidence.kind) = e.evidence.subject
PROOF
<1> DEFINE t == ComputeTargetState(c.strict, e.type)
           d == DerivePayload(c, e)
<1>1. e \in Event /\ c \in ChangeStateType /\ t # INVALID
  BY DEF Emittable, Sound, Accepts
<1>2. t = c.current_state
  <2>1. c.strict \in STATES \cup {NoState}
    BY <1>1 DEF ChangeStateType
  <2>2. t = c.strict /\ c.strict # NoState
    BY <1>1, <2>1, Targets DEF Informational
  <2> QED BY <2>2 DEF Sound
<1>3. /\ d.effective_approval = c.effective_approval
      /\ d.pending_revision = c.pending_revision
      /\ d.current_code_subject = c.current_code_subject
      /\ d.current_verification = c.current_verification
  BY <1>1 DEF DerivePayload, ChangeStateType
<1>4. /\ Imported(c, e.evidence.id) = {}
      /\ ~e.historical_only =>
           CurrentSubject(c, e.evidence.kind) = e.evidence.subject
  BY DEF Accepts, ValidateAuthority, AuthorizesEvidence
<1>5. e.evidence.id # EffectiveId(c)
  <2>1. CASE c.effective_approval = None
    <3>1. e.evidence \in Evidence
      BY <1>1, EventShapes
    <3>2. e.evidence.id \in EvidenceIds
      BY <3>1 DEF Evidence, PlanEvidence, CodeEvidence
    <3> QED BY <2>1, <3>2, NoneIsDistinct DEF NoneAssumptions, EffectiveId
  <2>2. CASE c.effective_approval # None
    <3>1. c.effective_approval.evidence
            \in Imported(c, c.effective_approval.evidence.id)
      BY <2>2 DEF Sound, Imported
    <3> QED BY <1>4, <2>2, <3>1 DEF EffectiveId, ApprovalId
  <2> QED BY <2>1, <2>2
<1>6. LET n == Apply(c, e)
      IN  /\ n.current_state = t
          /\ n.effective_approval = d.effective_approval
          /\ n.pending_revision = d.pending_revision
          /\ n.current_code_subject = d.current_code_subject
          /\ n.current_verification = d.current_verification
  BY <1>1, Applied
<1> QED BY <1>2, <1>3, <1>4, <1>5, <1>6 DEF Alike

\* A command's batch, or nothing.
LEMMA LawfulBatch ==
  ASSUME NEW c, Sound(c), DepartsElsewhere(c), NEW active \in BOOLEAN,
         NEW batch \in Seq(Event), Len(batch) \in {1, 2}, Riding(batch),
         \A i \in DOMAIN batch : Emittable(batch[i], active),
         AcceptsBatch(c, batch, active)
  PROVE  /\ Lawful(c, ApplyBatch(c, batch))
         /\ DepartsElsewhere(ApplyBatch(c, batch))
PROOF
<1>1. 1 \in DOMAIN batch /\ (Len(batch) = 2 => 2 \in DOMAIN batch)
  OBVIOUS
<1>2. CASE Len(batch) = 1
  BY <1>1, <1>2, LawfulApply DEF Riding, Concluding, ApplyBatch, AcceptsBatch
<1>3. CASE Len(batch) = 2
  <2> DEFINE e == batch[1]
             f == batch[2]
             m == Apply(c, e)
  <2>1. /\ Emittable(e, active) /\ Accepts(c, e, active)
        /\ Emittable(f, active) /\ Accepts(m, f, active)
        /\ ApplyBatch(c, batch) = Apply(m, f)
    BY <1>1, <1>3 DEF AcceptsBatch, ApplyBatch
  <2>2. /\ e.type = "review_evidence_imported" /\ ~e.historical_only
        /\ f.type = "plan_approved" => f.approval.evidence = e.evidence
        /\ f.type = "code_review_passed" =>
             /\ e.evidence.kind = "code"
             /\ e.evidence.subject = f.subject
    BY <1>3 DEF Riding
  <2> HIDE DEF e, f, m
  <2>3. Sound(m)
    BY <2>1, SoundApply DEF m
  <2>4. /\ Alike(c, m)
        /\ e.evidence.id # EffectiveId(c)
        /\ CurrentSubject(c, e.evidence.kind) = e.evidence.subject
    BY <2>1, <2>2, EvidenceApply DEF m
  <2>5. EffectiveId(m) = EffectiveId(c) /\ DepartsElsewhere(m)
    BY <2>4 DEF Alike, EffectiveId, DepartsElsewhere
  <2>6. f.type = "code_review_passed" => f.subject = m.current_code_subject
    BY <2>2, <2>4 DEF CurrentSubject, Alike
  <2>7. Lawful(m, Apply(m, f)) /\ DepartsElsewhere(Apply(m, f))
    BY <2>1, <2>2, <2>3, <2>4, <2>5, <2>6, LawfulApply
  <2>8. Lawful(c, Apply(m, f))
    BY <2>4, <2>5, <2>7
    DEF Alike, Lawful, Linked, Finished, Restarted, Delivered, Reviewed
  <2> QED BY <2>1, <2>7, <2>8
<1> QED BY <1>2, <1>3

-----------------------------------------------------------------------------
\* The writer's part of every step.
LEMMA WrittenLawful ==
  ASSUME StepInv, NEW batch \in Seq(Event), Len(batch) \in {1, 2},
         Riding(batch),
         \A i \in DOMAIN batch : Emittable(batch[i], recognition)
  PROVE  Lawful(cs, Written(batch)) /\ DepartsElsewhere(Written(batch))
PROOF
<1>1. Sound(cs) /\ DepartsElsewhere(cs) /\ recognition \in BOOLEAN
  BY DEF StepInv, IInv, TypeOK
<1>2. CASE AcceptsBatch(cs, batch, recognition)
  BY <1>1, <1>2, LawfulBatch DEF Written
<1>3. CASE ~AcceptsBatch(cs, batch, recognition)
  BY <1>1, <1>3, AlikeLawful DEF Written, Alike
<1> QED BY <1>2, <1>3

LEMMA AuditLawful ==
  ASSUME StepInv,
         NEW type \in {"gate_bypassed", "gate_bypass_disclosed",
                       "sensor_crashed", "sensor_timeout_exceeded"}
  PROVE  LET d == WrittenUnvalidated(Of(type))
         IN  Lawful(cs, d) /\ DepartsElsewhere(d)
PROOF
<1>1. Sound(cs) /\ cs \in ChangeStateType /\ DepartsElsewhere(cs)
  BY DEF StepInv, IInv, TypeOK
<1>2. WrittenUnvalidated(Of(type)) \in {cs, [cs EXCEPT !.started = TRUE]}
  BY <1>1, SoundAudit DEF WrittenUnvalidated
<1>3. Alike(cs, WrittenUnvalidated(Of(type)))
  BY <1>1, <1>2 DEF Alike, ChangeStateType
<1> QED BY <1>1, <1>3, AlikeLawful

LEMMA EmitLawful ==
  ASSUME StepInv, NEW e, Emittable(e, recognition), e.type \notin Concluding,
         Emit(e)
  PROVE  Lawful(cs, cs') /\ DepartsElsewhere(cs')
PROOF
<1>1. /\ <<e>> \in Seq(Event) /\ Len(<<e>>) = 1
      /\ \A i \in DOMAIN <<e>> : Emittable(<<e>>[i], recognition)
      /\ Riding(<<e>>)
  BY DEF Emittable, Riding
<1> QED BY <1>1, WrittenLawful DEF Emit

\* Every step is lawful.
LEMMA LawfulNext ==
  ASSUME StepInv, [Next]_vars
  PROVE  Lawful(cs, cs') /\ DepartsElsewhere(cs')
PROOF
<1>1. ASSUME UNCHANGED cs
      PROVE  Lawful(cs, cs') /\ DepartsElsewhere(cs')
  BY <1>1, AlikeLawful DEF Alike, StepInv
<1>2. CASE ChangeStart \/ ChangeAbandon \/ PlanRedeclare
             \/ FrameworkPlanReady \/ PrEmitOpened \/ OnMerge
  <2>1. ASSUME NEW type \in {"intent_declared", "intent_abandoned",
                             "plan_redeclared", "pr_opened", "merged"}
        PROVE  /\ Emittable(Of(type), recognition)
               /\ Of(type).type \notin Concluding
    BY DEF Of, Emittable, Event, Bare, Concluding
  <2>2. LET e == [type |-> "plan_ready", subject |-> None]
        IN  Emittable(e, recognition) /\ e.type \notin Concluding
    BY DEF Emittable, Event, PlanReady, Concluding
  <2> QED
    BY <1>2, <2>1, <2>2, EmitLawful DEF ChangeStart, ChangeAbandon,
       PlanRedeclare, FrameworkPlanReady, PrEmitOpened, OnMerge
<1>3. CASE RecordBypass \/ AttestDisclose \/ \E p \in Procs : SensorFails(p)
  <2>1. PICK type \in {"gate_bypassed", "gate_bypass_disclosed",
                       "sensor_crashed", "sensor_timeout_exceeded"} :
          cs' = WrittenUnvalidated(Of(type))
    BY <1>3 DEF RecordBypass, AttestDisclose, SensorFails
  <2> QED BY <2>1, AuditLawful
<1>4. ASSUME NEW p \in Procs, Commit(p)
      PROVE  Lawful(cs, cs') /\ DepartsElsewhere(cs')
  <2>1. /\ job[p].batch \in Seq(Event)
        /\ Len(job[p].batch) \in {1, 2}
        /\ Riding(job[p].batch)
        /\ \A i \in DOMAIN job[p].batch : Emittable(job[p].batch[i], recognition)
    BY <1>4 DEF StepInv, IInv, TypeOK, Job, JobsAreEmittable, Commit
  <2> QED BY <1>4, <2>1, WrittenLawful DEF Commit
<1>5. CASE Edit \/ GitCommit \/ EnableRecognition
  BY <1>1, <1>5 DEF Edit, GitCommit, EnableRecognition
<1>6. ASSUME NEW p \in Procs,
             \/ PlanReadyCmd(p) \/ PlanRevise(p) \/ PlanWithdraw(p)
             \/ ImplementationStart(p) \/ ImplementationReopen(p)
             \/ ImplementationRecord(p) \/ ReviewImport(p)
             \/ Done(p) \/ DoneSkipVerify(p) \/ Verify(p)
             \/ BeginChecks(p) \/ FinishChecks(p) \/ Complete(p) \/ Crash(p)
      PROVE  Lawful(cs, cs') /\ DepartsElsewhere(cs')
  <2>1. UNCHANGED cs
    BY <1>6 DEF PlanReadyCmd, PlanRevise, PlanWithdraw, ImplementationStart,
       ImplementationReopen, ImplementationRecord, ReviewImport, Done,
       DoneSkipVerify, Verify, BeginChecks, FinishChecks, Complete, Crash,
       Begin
  <2> QED BY <1>1, <2>1
<1>7. CASE UNCHANGED vars
  BY <1>1, <1>7 DEF vars
<1> QED BY <1>2, <1>3, <1>4, <1>5, <1>6, <1>7 DEF Next

-----------------------------------------------------------------------------
\* Conclusions ride on their evidence.
LEMMA RidingStep ==
  ASSUME StepInv, NEW p \in Procs, NEW STATE j, Riding(j.batch),
         job' = [job EXCEPT ![p] = j]
  PROVE  \A q \in Procs : Riding(job'[q].batch)
BY DEF StepInv, IInv, TypeOK

LEMMA RidingOne ==
  ASSUME StepInv, NEW p \in Procs, NEW STATE e, e.type \notin Concluding,
         NEW STATE cmd, job' = [job EXCEPT ![p] = Emitting(cmd, <<e>>)]
  PROVE  \A q \in Procs : Riding(job'[q].batch)
PROOF
<1>1. Riding(Emitting(cmd, <<e>>).batch)
  BY DEF Riding, Emitting
<1> QED BY <1>1, RidingStep

LEMMA RidingNone ==
  /\ Riding(Idle.batch)
  /\ \A pc, cmd : Riding(At(pc, cmd).batch)
BY DEF Riding, Idle, At

LEMMA RidingNext ==
  ASSUME StepInv, [Next]_vars
  PROVE  \A q \in Procs : Riding(job'[q].batch)
PROOF
<1>1. ASSUME UNCHANGED job
      PROVE  \A q \in Procs : Riding(job'[q].batch)
  BY <1>1 DEF StepInv
<1>2. CASE \/ ChangeStart \/ ChangeAbandon \/ PlanRedeclare
           \/ FrameworkPlanReady \/ PrEmitOpened \/ OnMerge \/ RecordBypass
           \/ AttestDisclose \/ Edit \/ GitCommit \/ EnableRecognition
           \/ UNCHANGED vars
  BY <1>1, <1>2 DEF ChangeStart, ChangeAbandon, PlanRedeclare,
     FrameworkPlanReady, PrEmitOpened, OnMerge, RecordBypass, AttestDisclose,
     Emit, Edit, GitCommit, EnableRecognition, vars
<1>3. ASSUME NEW p \in Procs,
             \/ PlanReadyCmd(p) \/ PlanRevise(p) \/ PlanWithdraw(p)
             \/ ImplementationStart(p) \/ ImplementationReopen(p)
             \/ ImplementationRecord(p) \/ DoneSkipVerify(p) \/ Complete(p)
      PROVE  \A q \in Procs : Riding(job'[q].batch)
  <2>1. CASE PlanReadyCmd(p)
    <3>1. PICK subject :
            job' = [job EXCEPT ![p] = Emitting("command",
                      <<[type |-> "plan_ready", subject |-> subject]>>)]
      BY <2>1 DEF PlanReadyCmd, Begin
    <3>2. [type |-> "plan_ready", subject |-> subject].type \notin Concluding
      BY DEF Concluding
    <3> QED BY <3>1, <3>2, RidingOne
  <2>2. CASE PlanRevise(p)
    <3>1. PICK plan :
            job' = [job EXCEPT ![p] = Emitting("command",
                      <<[type |-> "plan_revision_submitted",
                         subject |-> [plan |-> plan, prior |-> EffectiveId(cs)],
                         prior |-> EffectiveId(cs)]>>)]
      BY <2>2 DEF PlanRevise, Begin
    <3> DEFINE e == [type |-> "plan_revision_submitted",
                     subject |-> [plan |-> plan, prior |-> EffectiveId(cs)],
                     prior |-> EffectiveId(cs)]
    <3>2. e.type \notin Concluding
      BY DEF Concluding
    <3> QED BY <3>1, <3>2, RidingOne
  <2>3. CASE PlanWithdraw(p)
    <3> DEFINE e == [type |-> "plan_withdrawn",
                     candidate |-> cs.pending_revision.subject,
                     approval |-> EffectiveId(cs)]
    <3>1. job' = [job EXCEPT ![p] = Emitting("command", <<e>>)]
      BY <2>3 DEF PlanWithdraw, Begin
    <3>2. e.type \notin Concluding
      BY DEF Concluding
    <3> QED BY <3>1, <3>2, RidingOne
  <2>4. CASE ImplementationStart(p) \/ ImplementationReopen(p)
    <3>1. PICK type \in {"implementation_started", "implementation_invalidated"} :
            job' = [job EXCEPT ![p] = Emitting("command", <<Of(type)>>)]
      BY <2>4 DEF ImplementationStart, ImplementationReopen, Begin
    <3>2. Of(type).type \notin Concluding
      BY DEF Of, Concluding
    <3> QED BY <3>1, <3>2, RidingOne
  <2>5. CASE ImplementationRecord(p)
    <3>1. PICK coverage :
            job' = [job EXCEPT ![p] = Emitting("command",
                      <<[type |-> "implementation_recorded",
                         approval |-> EffectiveId(cs), coverage |-> coverage]>>)]
      BY <2>5 DEF ImplementationRecord, Begin
    <3> DEFINE e == [type |-> "implementation_recorded",
                     approval |-> EffectiveId(cs), coverage |-> coverage]
    <3>2. e.type \notin Concluding
      BY DEF Concluding
    <3> QED BY <3>1, <3>2, RidingOne
  <2>6. CASE DoneSkipVerify(p)
    <3>1. job' = [job EXCEPT ![p] = Emitting("skip", <<SkippedVerification>>)]
      BY <2>6 DEF DoneSkipVerify, Begin
    <3>2. SkippedVerification.type \notin Concluding
      BY DEF SkippedVerification, Concluding
    <3> QED BY <3>1, <3>2, RidingOne
  <2>7. CASE Complete(p)
    <3> DEFINE e == [type |-> "implementation_complete",
                     subject |-> IF cs.effective_approval = None
                                   THEN None
                                   ELSE [approval |-> EffectiveId(cs),
                                         tree |-> head]]
    <3>1. job' = [job EXCEPT ![p] = Emitting("command", <<e>>)]
      BY <2>7 DEF Complete
    <3>2. e.type \notin Concluding
      BY DEF Concluding
    <3> QED BY <3>1, <3>2, RidingOne
  <2> QED BY <1>3, <2>1, <2>2, <2>3, <2>4, <2>5, <2>6, <2>7
<1>4. ASSUME NEW p \in Procs, Done(p) \/ Verify(p) \/ SensorFails(p) \/ Crash(p)
                              \/ Commit(p)
      PROVE  \A q \in Procs : Riding(job'[q].batch)
  BY <1>4, RidingNone, RidingStep
  DEF Done, Verify, SensorFails, Crash, Commit, Begin
<1>5. ASSUME NEW p \in Procs, BeginChecks(p)
      PROVE  \A q \in Procs : Riding(job'[q].batch)
  <2>1. ASSUME NEW q \in Procs
        PROVE  job'[q].batch = job[q].batch
    BY <1>5 DEF BeginChecks, StepInv, IInv, TypeOK, Job
  <2> QED BY <2>1 DEF StepInv
<1>6. ASSUME NEW p \in Procs, FinishChecks(p)
      PROVE  \A q \in Procs : Riding(job'[q].batch)
  <2>1. PICK passed, verification :
          job' = [job EXCEPT ![p] =
                    Emitting(job[p].cmd, <<VerdictEvent(passed, verification)>>)]
    BY <1>6 DEF FinishChecks
  <2>2. VerdictEvent(passed, verification).type \notin Concluding
    BY DEF VerdictEvent, Concluding
  <2> QED BY <2>1, <2>2, RidingOne
<1>7. ASSUME NEW p \in Procs, ReviewImport(p)
      PROVE  \A q \in Procs : Riding(job'[q].batch)
  <2>1. PICK ev \in Conclusions :
          LET subject == CurrentSubject(cs, ev.kind)
              historical == ev.subject # subject
              imported == [type |-> "review_evidence_imported", evidence |-> ev,
                           historical_only |-> historical]
          IN  \/ Begin(p, Emitting("command", <<imported>>))
              \/ /\ ~historical
                 /\ Begin(p, Emitting("command",
                      <<imported, ConclusionEvent(ev, subject)>>))
    BY <1>7 DEF ReviewImport
  <2> DEFINE subject == CurrentSubject(cs, ev.kind)
             imported == [type |-> "review_evidence_imported", evidence |-> ev,
                          historical_only |-> ev.subject # subject]
             f == ConclusionEvent(ev, subject)
  <2>2. CASE Begin(p, Emitting("command", <<imported>>))
    <3>1. job' = [job EXCEPT ![p] = Emitting("command", <<imported>>)]
      BY <2>2 DEF Begin
    <3>2. imported.type \notin Concluding
      BY DEF Concluding
    <3> HIDE DEF imported
    <3> QED BY <3>1, <3>2, RidingOne
  <2>3. CASE ev.subject = subject /\ Begin(p, Emitting("command", <<imported, f>>))
    <3>1. ev \in Evidence
      BY LifecycleAssumption
    <3>2. /\ f.type = "plan_approved" => f.approval.evidence = ev
          /\ f.type \in {"code_review_passed", "code_review_failed"} =>
               ev.kind = "code" /\ f.subject = ev.subject
      BY <2>3, <3>1 DEF ConclusionEvent, Evidence, PlanEvidence, CodeEvidence
    <3> HIDE DEF f
    <3>5. /\ imported.type = "review_evidence_imported"
          /\ imported.evidence = ev
          /\ imported.historical_only = FALSE
      BY <2>3, Zenon
    <3> HIDE DEF imported
    <3>3. Riding(<<imported, f>>)
      BY <2>3, <3>2, <3>5 DEF Riding
    <3>4. Riding(Emitting("command", <<imported, f>>).batch)
      BY <3>3 DEF Emitting
    <3> QED BY <2>3, <3>4, RidingStep DEF Begin
  <2> QED BY <2>1, <2>2, <2>3
<1> QED BY <1>2, <1>3, <1>4, <1>5, <1>6, <1>7 DEF Next

\* The invariant behind the action properties.
LEMMA StepInvariance ==
  ASSUME LegacyStreams = FALSE
  PROVE  Spec => []StepInv
PROOF
<1>1. Init => StepInv
  <2>1. Init => IInv
    BY InitInvariant
  <2>2. Init => DepartsElsewhere(cs) /\ \A p \in Procs : Riding(job[p].batch)
    BY RidingNone DEF Init, DepartsElsewhere, NoChange
  <2> QED BY <2>1, <2>2 DEF StepInv
<1>2. StepInv /\ [Next]_vars => StepInv'
  BY Inductive, LawfulNext, RidingNext DEF StepInv
<1> QED BY <1>1, <1>2, PTL DEF Spec

-----------------------------------------------------------------------------
\* The approval in force gives way only to the one of the candidate submitted
\* against it and not withdrawn, or to a redeclaration (DeriveApproval).
THEOREM ApprovalsAlwaysLinked ==
  ASSUME LegacyStreams = FALSE
  PROVE  Spec => ApprovalsAreLinked
PROOF
<1>1. StepInv /\ [Next]_vars => [ApprovalStep]_vars
  BY LawfulNext DEF Lawful, Linked, ApprovalStep
<1> QED BY <1>1, StepInvariance, PTL DEF ApprovalsAreLinked, Spec

\* Implementation completes only on a passed verification of the very subject
\* it freezes (the implementation_complete arm of _validate_authority).
THEOREM CompletionAlwaysVerified ==
  ASSUME LegacyStreams = FALSE
  PROVE  Spec => CompletionIsVerified
PROOF
<1>1. StepInv /\ [Next]_vars => [CompletionStep]_vars
  BY LawfulNext DEF Lawful, Finished, CompletionStep
<1> QED BY <1>1, StepInvariance, PTL DEF CompletionIsVerified, Spec

\* Whatever brings implementation about again, a start, a reopening or the
\* approval of a revision, nothing gathered before counts any more.
THEOREM EpochAlwaysStartsClean ==
  ASSUME LegacyStreams = FALSE
  PROVE  Spec => EpochStartsClean
PROOF
<1>1. StepInv /\ [Next]_vars => [EpochStep]_vars
  BY LawfulNext DEF Lawful, Restarted, EpochStep
<1> QED BY <1>1, StepInvariance, PTL DEF EpochStartsClean, Spec

\* Completion, a passed review and the merge never happen over an unresolved
\* candidate, whenever it was submitted (_validate_authority).
THEOREM DeliveryAlwaysUnambiguous ==
  ASSUME LegacyStreams = FALSE
  PROVE  Spec => DeliveryIsUnambiguous
PROOF
<1>1. StepInv /\ [Next]_vars => [DeliveryStep]_vars
  BY LawfulNext DEF Lawful, Delivered, DeliveryStep
<1> QED BY <1>1, StepInvariance, PTL DEF DeliveryIsUnambiguous, Spec

\* A review moves only the code frozen when it lands: the writer compares the
\* evidence with it, not the conclusion, which follows in the same batch.
THEOREM ReviewAlwaysOfFrozenCode ==
  ASSUME LegacyStreams = FALSE
  PROVE  Spec => ReviewsFrozenCode
PROOF
<1>1. StepInv /\ [Next]_vars => [ReviewStep]_vars
  BY LawfulNext DEF Lawful, Reviewed, ReviewStep
<1> QED BY <1>1, StepInvariance, PTL DEF ReviewsFrozenCode, Spec

-----------------------------------------------------------------------------
(* Merges.                                                                 *)

\* The verdict a log derives to, if passed, is the last one on its subject.
Backed(c, t) ==
  c.current_verification # None /\ c.current_verification.outcome = "passed"
    => c.current_verification.subject \in t.vouched

\* Every conclusion of one log is in another.
Within(c, d) ==
  \A i \in DOMAIN c.evidence_references :
    \E k \in DOMAIN d.evidence_references :
      d.evidence_references[k] = c.evidence_references[i]

\* What the gate reads off the lines agrees with what they derive to: the
\* lines of a declared change are in order until it ends, the milestones its
\* state stands for were reached, and the review that made it ready is one of
\* the frozen code.
Agrees(c, t) ==
  /\ ~c.started => t.ordered
  /\ t.declared => c.strict # NoState
  /\ t.declared /\ c.strict \notin TERMINAL_STATES => t.ordered
  /\ c.effective_approval # None => "plan_approved" \in t.reached
  /\ c.current_state \in REOPEN_STATES \cup {"ARCHIVED"} =>
       "implementation_complete" \in t.reached
  /\ c.current_state = "READY_TO_MERGE" =>
       /\ "code_review_passed" \in t.reached
       /\ \E i \in DOMAIN c.evidence_references :
            /\ c.evidence_references[i].id = t.review
            /\ c.evidence_references[i].kind = "code"
            /\ c.evidence_references[i].decision = "approve"
            /\ c.evidence_references[i].subject = c.current_code_subject

TrailInv ==
  trail \in Trail /\ Backed(cs, trail) /\ Agrees(cs, trail)

AttInv ==
  /\ IInv /\ AttestationTypeOK
  /\ TrailInv
  /\ attested # None =>
       Backed(attested.cs, attested.trail) /\ Within(attested.cs, cs)

-----------------------------------------------------------------------------
\* A legal line keeps the two together.
LEMMA TracedApply ==
  ASSUME NEW c, Sound(c), NEW e \in Event, NEW t, NEW scope, Backed(c, t),
         ComputeTargetState(c.strict, e.type) # INVALID
  PROVE  /\ Backed(Apply(c, e), Traced(t, c, e, scope))
         /\ Within(c, Apply(c, e))
PROOF
<1> DEFINE d == DerivePayload(c, e)
           n == Apply(c, e)
           m == Traced(t, c, e, scope)
<1>1. c \in ChangeStateType
  BY DEF Sound
<1>2. /\ n.evidence_references = d.evidence_references
      /\ n.current_verification = d.current_verification
  BY Applied
<1>3. m.vouched = Vouched(t, e)
  BY Zenon DEF Traced
<1> HIDE DEF n, m
<1>4. CASE e.type \in {"verification_passed", "verification_failed"}
           /\ e.verification # None
  <2>1. /\ d.current_verification = e.verification
        /\ d.evidence_references = c.evidence_references
    BY <1>1, <1>4 DEF DerivePayload, ChangeStateType
  <2>2. e.verification.outcome = "passed" =>
          m.vouched = t.vouched \cup {e.verification.subject}
    BY <1>3, <1>4 DEF Vouched
  <2> HIDE DEF d
  <2> QED BY <1>2, <2>1, <2>2 DEF Backed, Within, n, m
<1>5. CASE ~ (/\ e.type \in {"verification_passed", "verification_failed"}
              /\ e.verification # None)
  <2>1. m.vouched = t.vouched
    BY <1>3, <1>5 DEF Vouched
  <2>2. d.current_verification \in {c.current_verification, None}
    BY <1>1, <1>5 DEF DerivePayload, DeriveApproval, DeriveNewEpoch,
                      DeriveRedeclared, ChangeStateType
  <2>3. d.evidence_references = c.evidence_references
        \/ d.evidence_references = Append(c.evidence_references, e.evidence)
    BY <1>1, <1>5 DEF DerivePayload, DeriveApproval, DeriveNewEpoch,
                      DeriveRedeclared, ChangeStateType
  <2>4. \A i \in DOMAIN c.evidence_references :
          /\ i \in DOMAIN d.evidence_references
          /\ d.evidence_references[i] = c.evidence_references[i]
    BY <1>1, <2>3 DEF ChangeStateType
  <2> HIDE DEF d
  <2> QED BY <1>2, <2>1, <2>2, <2>4 DEF Backed, Within, n, m
<1> QED BY <1>4, <1>5

\* The trail of a line has the shape of a trail.
LEMMA TracedType ==
  ASSUME NEW t \in Trail, NEW c \in ChangeStateType, NEW e \in Event,
         NEW scope \in SUBSET Paths
  PROVE  Traced(t, c, e, scope) \in Trail
PROOF
<1>1. InOrder(c, e) \in BOOLEAN /\ (~c.started /\ e.type = "intent_declared") \in BOOLEAN
  BY DEF InOrder, ChangeStateType
<1>2. LastReview(t, e) \in EvidenceIds \cup {None}
  BY DEF LastReview, Trail, Event, PlanReady, RevisionSubmitted, PlanWithdrawn,
         EvidenceImported, PlanApproved, PlanRejected, Recorded, Verified,
         Completed, CodeReviewed, Bare, CodeEvidence
<1>3. Vouched(t, e) \in SUBSET CodeSubject
  <2>1. e.type \in {"verification_passed", "verification_failed"}
          /\ e.verification # None => e.verification.subject \in CodeSubject
    BY EventShapes DEF Verification
  <2> QED BY <2>1 DEF Vouched, Trail
<1>4. (t.reached \cup ({e.type} \cap MILESTONE_EVENTS)) \in SUBSET MILESTONE_EVENTS
  BY DEF Trail
<1>5. (CASE e.type = "gate_bypassed" -> TRUE
         [] e.type = "gate_bypass_disclosed" -> FALSE
         [] OTHER -> t.undisclosed) \in BOOLEAN
  BY DEF Trail
<1>6. /\ t.ordered \in BOOLEAN /\ t.declared \in BOOLEAN
      /\ t.scope \in SUBSET Paths
  BY DEF Trail
<1> HIDE DEF Trail
<1>7. /\ (t.ordered /\ InOrder(c, e)) \in BOOLEAN
      /\ (t.declared \/ (~c.started /\ e.type = "intent_declared")) \in BOOLEAN
      /\ (IF e.type = "plan_ready" THEN scope ELSE t.scope) \in SUBSET Paths
  BY <1>6
<1> QED BY <1>2, <1>3, <1>4, <1>5, <1>7 DEF Traced, Trail

\* An accepted line keeps them in agreement, whoever prepared it.
LEMMA AgreesApply ==
  ASSUME NEW c, Sound(c), NEW active \in BOOLEAN,
         NEW e, Emittable(e, active), Accepts(c, e, active),
         NEW t \in Trail, NEW scope, Agrees(c, t)
  PROVE  Agrees(Apply(c, e), Traced(t, c, e, scope))
PROOF
<1> DEFINE target == ComputeTargetState(c.strict, e.type)
           d == DerivePayload(c, e)
           n == Apply(c, e)
           m == Traced(t, c, e, scope)
<1>1. e \in Event /\ c \in ChangeStateType /\ target # INVALID
  BY DEF Emittable, Sound, Accepts
<1>2. /\ target \in STATES
      /\ n.current_state = target /\ n.strict = target /\ n.started
      /\ n.effective_approval = d.effective_approval
      /\ n.evidence_references = d.evidence_references
      /\ n.current_code_subject = d.current_code_subject
  BY <1>1, Applied
<1>3. target # NoState
  BY <1>2 DEF STATES, TERMINAL_STATES, NoState
<1>4. c.strict \in STATES \cup {NoState}
  BY <1>1 DEF ChangeStateType
<1>5. c.strict # NoState => c.strict = c.current_state /\ c.started
  BY DEF Sound
<1>6. /\ m.ordered = (t.ordered /\ InOrder(c, e))
      /\ m.reached = t.reached \cup ({e.type} \cap MILESTONE_EVENTS)
      /\ m.review = LastReview(t, e)
      /\ m.declared = (t.declared \/ (~c.started /\ e.type = "intent_declared"))
  BY Zenon DEF Traced
<1>7. InOrder(c, e)
  BY DEF InOrder, Accepts
<1>8. c.strict \notin TERMINAL_STATES
  BY <1>1, <1>4, Targets
<1> HIDE DEF target, d, n, m
<1>9. m.declared => m.ordered
  BY <1>5, <1>6, <1>7, <1>8 DEF Agrees, Trail
<1>10. n.effective_approval # None => "plan_approved" \in m.reached
  <2>1. CASE e.type = "plan_approved"
    BY <1>6, <2>1 DEF MILESTONE_EVENTS
  <2>2. CASE e.type # "plan_approved"
    <3>1. d.effective_approval \in {c.effective_approval, None}
      BY <1>1, <2>2 DEF d, DerivePayload, DeriveNewEpoch, DeriveRedeclared,
                        ChangeStateType
    <3> QED BY <1>2, <1>6, <3>1 DEF Agrees
  <2> QED BY <2>1, <2>2
<1>11. \/ e.type = "implementation_complete"
       \/ /\ e.type = "code_review_passed"
          /\ c.current_state \in {"AWAITING_CODE_REVIEW", "CODE_REVIEW_REJECTED"}
       \/ /\ e.type = "code_review_failed"
          /\ c.current_state \in {"AWAITING_CODE_REVIEW", "CODE_REVIEW_REJECTED"}
          /\ target = "CODE_REVIEW_REJECTED"
       \/ /\ e.type = "merged" /\ c.current_state = "READY_TO_MERGE"
          /\ target = "ARCHIVED"
       \/ /\ e.type \in Informational \cup {"intent_declared", "plan_rejected"}
          /\ c.current_state = target
       \/ target \notin REOPEN_STATES \cup {"ARCHIVED"}
  <2>1. e.type \in {"intent_declared", "plan_ready", "plan_approved",
           "plan_rejected", "plan_redeclared", "intent_abandoned",
           "implementation_started", "implementation_invalidated",
           "implementation_complete", "code_review_passed",
           "code_review_failed", "merged"} \cup Informational
    BY DEF Emittable, Event, PlanReady, RevisionSubmitted, PlanWithdrawn,
       EvidenceImported, PlanApproved, PlanRejected, Recorded, Verified,
       Completed, CodeReviewed, Bare, Informational
  <2>2. CASE e.type \in Informational \cup {"intent_declared", "plan_rejected"}
    BY <1>1, <1>3, <1>4, <1>5, <2>2, Targets
       DEF target, REOPEN_STATES, UnderImplementation
  <2>3. CASE e.type \in {"code_review_passed", "code_review_failed", "merged"}
    BY <1>1, <1>4, <1>5, <2>3, Targets DEF target, NoState
  <2>4. CASE e.type \in {"plan_ready", "plan_approved", "plan_redeclared",
           "intent_abandoned", "implementation_started",
           "implementation_invalidated"}
    BY <1>1, <1>4, <2>4, Targets DEF target, REOPEN_STATES
  <2> QED BY <2>1, <2>2, <2>3, <2>4
<1>12. n.current_state \in REOPEN_STATES \cup {"ARCHIVED"} =>
         "implementation_complete" \in m.reached
  BY <1>2, <1>6, <1>11 DEF Agrees, MILESTONE_EVENTS, REOPEN_STATES
<1>13. ASSUME n.current_state = "READY_TO_MERGE"
       PROVE  /\ "code_review_passed" \in m.reached
              /\ \E i \in DOMAIN n.evidence_references :
                   /\ n.evidence_references[i].id = m.review
                   /\ n.evidence_references[i].kind = "code"
                   /\ n.evidence_references[i].decision = "approve"
                   /\ n.evidence_references[i].subject = n.current_code_subject
  <2>1. CASE e.type = "code_review_passed"
    <3>1. AuthorizesCodeReview(c, e)
      BY <2>1 DEF Accepts, ValidateAuthority, CarriesSubject
    <3>2. \E i \in DOMAIN c.evidence_references :
            /\ c.evidence_references[i].id = e.evidence.id
            /\ c.evidence_references[i].kind = "code"
            /\ c.evidence_references[i].decision = "approve"
            /\ c.evidence_references[i].subject = e.subject
      BY <2>1, <3>1 DEF AuthorizesCodeReview, Imported
    <3>3. /\ d.evidence_references = c.evidence_references
          /\ d.current_code_subject = e.subject
      BY <1>1, <2>1 DEF d, DerivePayload, ChangeStateType
    <3>4. m.review = e.evidence.id
      BY <1>6, <2>1 DEF LastReview
    <3>5. "code_review_passed" \in m.reached
      BY <1>6, <2>1 DEF MILESTONE_EVENTS
    <3> QED BY <1>2, <3>2, <3>3, <3>4, <3>5
  <2>2. CASE e.type # "code_review_passed"
    <3>1. /\ e.type \in Informational \cup {"intent_declared", "plan_rejected"}
          /\ c.current_state = "READY_TO_MERGE"
      <4>1. e.type # "implementation_complete"
        BY <1>1, <1>2, <1>4, <1>13, Targets DEF target
      <4> QED BY <1>2, <1>11, <1>13, <2>2, <4>1 DEF REOPEN_STATES
    <3>2. /\ d.current_code_subject = c.current_code_subject
          /\ d.evidence_references \in
               {c.evidence_references, Append(c.evidence_references, e.evidence)}
          /\ e.type # "review_evidence_imported" =>
               d.evidence_references = c.evidence_references
      BY <1>1, <3>1 DEF d, DerivePayload, ChangeStateType, Informational
    <3>3. \A i \in DOMAIN c.evidence_references :
            /\ i \in DOMAIN d.evidence_references
            /\ d.evidence_references[i] = c.evidence_references[i]
      BY <1>1, <3>2, EventShapes DEF ChangeStateType
    <3>4. m.review = t.review
      BY <1>6, <2>2 DEF LastReview
    <3> QED BY <1>2, <1>6, <3>1, <3>2, <3>3, <3>4 DEF Agrees
  <2> QED BY <2>1, <2>2
<1>14. Agrees(n, m)
  BY <1>2, <1>3, <1>9, <1>10, <1>12, <1>13 DEF Agrees
<1> QED BY <1>14 DEF n, m

LEMMA WithinTransitive ==
  ASSUME NEW c, NEW d, NEW f, Within(c, d), Within(d, f)
  PROVE  Within(c, f)
BY DEF Within

\* What the writer appends, or does not, keeps them together.
LEMMA AppendKeeps ==
  ASSUME AttInv, NEW batch \in Seq(Event), Len(batch) \in {1, 2},
         \A i \in DOMAIN batch : Emittable(batch[i], recognition),
         cs' = Written(batch), Appends(batch)
  PROVE  TrailInv' /\ Within(cs, cs')
PROOF
<1>1. /\ Sound(cs) /\ recognition \in BOOLEAN
      /\ trail \in Trail /\ Backed(cs, trail) /\ Agrees(cs, trail)
  BY DEF AttInv, IInv, TypeOK, TrailInv
<1>2. CASE ~AcceptsBatch(cs, batch, recognition)
  BY <1>1, <1>2 DEF Written, Appends, Within, TrailInv
<1>3. CASE AcceptsBatch(cs, batch, recognition)
  <2>1. PICK scope \in SUBSET Paths : trail' = TracedBatch(batch, scope)
    BY <1>3 DEF Appends
  <2> DEFINE e == batch[1]
             m == Apply(cs, e)
             u == Traced(trail, cs, e, scope)
  <2>2. 1 \in DOMAIN batch /\ (Len(batch) = 2 => 2 \in DOMAIN batch)
    OBVIOUS
  <2>3. /\ Emittable(e, recognition) /\ Accepts(cs, e, recognition)
        /\ e \in Event
        /\ ComputeTargetState(cs.strict, e.type) # INVALID
    BY <1>3, <2>2 DEF AcceptsBatch, Accepts, Emittable
  <2>4. /\ Sound(m) /\ Backed(m, u) /\ Within(cs, m)
        /\ u \in Trail /\ Agrees(m, u)
    <3>1. cs \in ChangeStateType
      BY <1>1 DEF Sound
    <3> HIDE DEF e
    <3> QED BY <1>1, <2>3, <3>1, SoundApply, TracedApply, TracedType, AgreesApply
  <2>5. CASE Len(batch) = 1
    BY <1>3, <2>1, <2>4, <2>5 DEF Written, ApplyBatch, TracedBatch, TrailInv
  <2>6. CASE Len(batch) = 2
    <3> DEFINE f == batch[2]
    <3>1. /\ Emittable(f, recognition) /\ Accepts(m, f, recognition)
          /\ f \in Event
          /\ ComputeTargetState(m.strict, f.type) # INVALID
      <4>1. Emittable(f, recognition) /\ Accepts(m, f, recognition)
        BY <1>3, <2>2, <2>6 DEF AcceptsBatch
      <4> HIDE DEF f, m
      <4> QED BY <4>1 DEF Emittable, Accepts
    <3>2. cs' = Apply(m, f) /\ trail' = Traced(u, m, f, scope)
      BY <1>3, <2>1, <2>6 DEF Written, ApplyBatch, TracedBatch
    <3>3. m \in ChangeStateType
      BY <2>4 DEF Sound
    <3> HIDE DEF m, u, f
    <3>4. /\ Backed(Apply(m, f), Traced(u, m, f, scope))
          /\ Within(m, Apply(m, f))
      BY <2>4, <3>1, TracedApply
    <3>5. /\ Traced(u, m, f, scope) \in Trail
          /\ Agrees(Apply(m, f), Traced(u, m, f, scope))
      BY <1>1, <2>4, <3>1, <3>3, TracedType, AgreesApply
    <3> QED BY <2>4, <3>2, <3>4, <3>5, WithinTransitive DEF TrailInv
  <2> QED BY <2>5, <2>6
<1> QED BY <1>2, <1>3

\* Audit lines, validated by nobody.
LEMMA AuditKeeps ==
  ASSUME AttInv,
         NEW type \in {"gate_bypassed", "gate_bypass_disclosed",
                       "sensor_crashed", "sensor_timeout_exceeded"},
         NEW traced \in {"gate_bypassed", "gate_bypass_disclosed",
                         "sensor_crashed"},
         cs' = WrittenUnvalidated(Of(type)), AppendsAudit(traced)
  PROVE  TrailInv' /\ Within(cs, cs')
PROOF
<1>1. /\ Sound(cs) /\ cs \in ChangeStateType /\ trail \in Trail
      /\ Backed(cs, trail) /\ Agrees(cs, trail)
  BY DEF AttInv, IInv, TypeOK, TrailInv
<1>2. AcceptsUnvalidated(cs, Of(type)) <=> AcceptsUnvalidated(cs, Of(traced))
  BY DEF AcceptsUnvalidated, IsNewContractEvent, CarriesSubject, Of, Authorizing
<1>3. CASE ~AcceptsUnvalidated(cs, Of(type))
  <2>1. cs' = cs /\ trail' = trail
    BY <1>2, <1>3 DEF WrittenUnvalidated, AppendsAudit
  <2> QED BY <1>1, <2>1 DEF TrailInv, Within
<1>4. CASE AcceptsUnvalidated(cs, Of(type))
  <2> DEFINE e == Of(traced)
             m == Traced(trail, cs, e, {})
  <2>1. cs' = [cs EXCEPT !.started = TRUE]
    BY <1>1, <1>4, SoundAudit DEF WrittenUnvalidated
  <2>2. /\ cs'.current_state = cs.current_state
        /\ cs'.strict = cs.strict
        /\ cs'.started = TRUE
        /\ cs'.effective_approval = cs.effective_approval
        /\ cs'.current_code_subject = cs.current_code_subject
        /\ cs'.current_verification = cs.current_verification
        /\ cs'.evidence_references = cs.evidence_references
    BY <1>1, <2>1 DEF ChangeStateType
  <2>3. trail' = m
    BY <1>2, <1>4 DEF AppendsAudit
  <2>4. e \in Event /\ e.type = traced
    BY DEF Event, Bare, Of
  <2>5. /\ m.ordered = (trail.ordered /\ InOrder(cs, e))
        /\ m.reached = trail.reached \cup ({e.type} \cap MILESTONE_EVENTS)
        /\ m.review = LastReview(trail, e)
        /\ m.vouched = Vouched(trail, e)
        /\ m.declared = (trail.declared \/ (~cs.started /\ e.type = "intent_declared"))
    BY Zenon DEF Traced
  <2> HIDE DEF e, m
  <2>6. /\ m.review = trail.review /\ m.vouched = trail.vouched
        /\ m.declared => trail.declared
        /\ trail.reached \subseteq m.reached
    BY <2>4, <2>5 DEF LastReview, Vouched
  <2>7. ASSUME cs.strict # NoState, cs.strict \notin TERMINAL_STATES
        PROVE  InOrder(cs, e)
    <3>1. cs.strict \in STATES \ TERMINAL_STATES
      BY <1>1, <2>7 DEF ChangeStateType
    <3>2. ComputeTargetState(cs.strict, e.type) = cs.strict
      BY <2>4, <3>1
         DEF ComputeTargetState, Informational, STATES, TERMINAL_STATES, NoState
    <3> QED BY <2>4, <3>1, <3>2 DEF InOrder, STATES, TERMINAL_STATES, INVALID
  <2>8. m \in Trail
    BY <1>1, <2>4, TracedType DEF m
  <2>9. Agrees(cs', m)
    BY <1>1, <2>2, <2>5, <2>6, <2>7 DEF Agrees, Trail
  <2>10. Backed(cs', m) /\ Within(cs, cs')
    BY <1>1, <2>2, <2>6 DEF Backed, Within
  <2> QED BY <2>3, <2>8, <2>9, <2>10 DEF TrailInv
<1> QED BY <1>3, <1>4

\* Whatever extends the log keeps the copy within it, and so does a new copy.
LEMMA CopyKeeps ==
  ASSUME AttInv, IInv', TrailInv', Within(cs, cs'),
         attested' \in {attested, Copy(cs', trail')},
         merged' \in Trees \cup {None}
  PROVE  AttInv'
PROOF
<1> DEFINE Vouches(a) == a # None =>
             /\ a.cs \in ChangeStateType /\ a.trail \in Trail
             /\ Backed(a.cs, a.trail) /\ Within(a.cs, cs')
<1>1. TypeOK' /\ cs' \in ChangeStateType /\ trail' \in Trail /\ Backed(cs', trail')
  BY DEF IInv, TypeOK, TrailInv
<1>2. Vouches(attested)
  BY WithinTransitive DEF AttInv, AttestationTypeOK
<1>3. Vouches(Copy(cs', trail'))
  BY <1>1 DEF Copy, Within
<1>4. Vouches(attested')
  BY <1>2, <1>3
<1>5. AttestationTypeOK'
  BY <1>1, <1>4 DEF AttestationTypeOK
<1>6. (attested # None =>
         Backed(attested.cs, attested.trail) /\ Within(attested.cs, cs))'
  BY <1>4
<1> QED BY <1>5, <1>6 DEF AttInv

LEMMA ChangingKeeps ==
  ASSUME AttInv, Changing
  PROVE  TrailInv' /\ Within(cs, cs') /\ [Next]_vars
PROOF
<1>1. ASSUME NEW type \in {"intent_declared", "intent_abandoned",
                           "plan_redeclared", "merged"},
             Emit(Of(type)), Appends(<<Of(type)>>)
      PROVE  TrailInv' /\ Within(cs, cs')
  <2>1. Emittable(Of(type), recognition)
    BY DEF Of, Emittable, Event, Bare
  <2> DEFINE e == Of(type)
  <2>2. /\ <<e>> \in Seq(Event) /\ Len(<<e>>) = 1
        /\ \A i \in DOMAIN <<e>> : Emittable(<<e>>[i], recognition)
    BY <2>1 DEF Emittable
  <2> QED BY <1>1, <2>2, AppendKeeps DEF Emit
<1>2. CASE ChangeStart /\ Appends(<<Of("intent_declared")>>)
  BY <1>1, <1>2 DEF ChangeStart, Next
<1>3. CASE ChangeAbandon /\ Appends(<<Of("intent_abandoned")>>)
  BY <1>1, <1>3 DEF ChangeAbandon, Next
<1>4. CASE PlanRedeclare /\ Appends(<<Of("plan_redeclared")>>)
  BY <1>1, <1>4 DEF PlanRedeclare, Next
<1>5. CASE OnMerge /\ Appends(<<Of("merged")>>)
  BY <1>1, <1>5 DEF OnMerge, Next
<1>6. CASE RecordBypass /\ AppendsAudit("gate_bypassed")
  BY <1>6, AuditKeeps DEF RecordBypass, Next
<1>7. ASSUME NEW p \in Procs, Commit(p), Appends(job[p].batch)
      PROVE  TrailInv' /\ Within(cs, cs') /\ [Next]_vars
  <2>1. /\ job[p].batch \in Seq(Event)
        /\ Len(job[p].batch) \in {1, 2}
        /\ \A i \in DOMAIN job[p].batch : Emittable(job[p].batch[i], recognition)
    BY <1>7 DEF AttInv, IInv, TypeOK, Job, JobsAreEmittable, Commit
  <2>2. cs' = Written(job[p].batch)
    BY <1>7 DEF Commit
  <2> QED BY <1>7, <2>1, <2>2, AppendKeeps DEF Next
<1> QED BY <1>2, <1>3, <1>4, <1>5, <1>6, <1>7 DEF Changing

LEMMA AttInductive ==
  ASSUME AttInv, [AttestationNext]_attVars
  PROVE  AttInv'
PROOF
<1>1. /\ Within(cs, cs)
      /\ merged \in Trees \cup {None} /\ head \in Trees /\ TrailInv
  BY DEF Within, AttInv, AttestationTypeOK, TypeOK
<1>2. CASE Changing /\ UNCHANGED <<attested, merged>>
  <2>1. IInv'
    BY <1>2, ChangingKeeps, Inductive DEF AttInv
  <2> QED BY <1>1, <1>2, <2>1, ChangingKeeps, CopyKeeps
<1>3. CASE SensorFailing /\ UNCHANGED <<attested, merged>>
  <2>1. PICK p \in Procs : SensorFails(p) /\ AppendsAudit("sensor_crashed")
    BY <1>3 DEF SensorFailing
  <2>2. IInv'
    BY <2>1, Inductive DEF AttInv, Next
  <2>3. TrailInv' /\ Within(cs, cs')
    BY <2>1, AuditKeeps DEF SensorFails
  <2> QED BY <1>1, <1>3, <2>2, <2>3, CopyKeeps
<1>4. CASE Deciding /\ UNCHANGED <<attested, merged>>
  <2> DEFINE Decision(p) ==
        \/ PlanReadyCmd(p) \/ PlanRevise(p) \/ PlanWithdraw(p)
        \/ ImplementationStart(p) \/ ImplementationReopen(p)
        \/ ImplementationRecord(p) \/ ReviewImport(p)
        \/ Done(p) \/ DoneSkipVerify(p) \/ Verify(p)
        \/ BeginChecks(p) \/ FinishChecks(p) \/ Complete(p)
  <2>3. UNCHANGED trail /\ (Edit \/ GitCommit \/ \E p \in Procs : Decision(p))
    BY <1>4 DEF Deciding
  <2>4. ASSUME NEW p \in Procs, Decision(p)
        PROVE  UNCHANGED cs /\ Next
    <3>1. UNCHANGED cs
      BY <2>4 DEF PlanReadyCmd, PlanRevise, PlanWithdraw, ImplementationStart,
         ImplementationReopen, ImplementationRecord, ReviewImport, Done,
         DoneSkipVerify, Verify, BeginChecks, FinishChecks, Complete, Begin
    <3>2. Next
      BY <2>4 DEF Next
    <3> QED BY <3>1, <3>2
  <2>5. ASSUME Edit \/ GitCommit
        PROVE  UNCHANGED cs /\ Next
    <3>1. UNCHANGED cs
      BY <2>5 DEF Edit, GitCommit
    <3>2. Next
      BY <2>5 DEF Next
    <3> QED BY <3>1, <3>2
  <2> HIDE DEF Decision
  <2>1. UNCHANGED <<cs, trail>> /\ [Next]_vars
    BY <2>3, <2>4, <2>5
  <2>2. IInv'
    BY <2>1, Inductive DEF AttInv
  <2>6. TrailInv' /\ Within(cs, cs')
    BY <1>1, <2>1 DEF TrailInv
  <2> QED BY <1>1, <1>4, <2>2, <2>6, CopyKeeps
<1>5. CASE AttestWrite \/ MergePullRequest \/ UNCHANGED attVars
  <2>1. UNCHANGED vars /\ UNCHANGED trail
    BY <1>5 DEF AttestWrite, MergePullRequest, attVars
  <2>2. UNCHANGED cs
    BY <2>1 DEF vars
  <2>3. IInv'
    BY <2>1, Inductive DEF AttInv
  <2>4. TrailInv' /\ Within(cs, cs')
    BY <1>1, <2>1, <2>2 DEF TrailInv
  <2>5. attested' \in {attested, Copy(cs', trail')}
    BY <1>5, <2>1, <2>2 DEF AttestWrite, MergePullRequest, attVars
  <2>6. merged' \in Trees \cup {None}
    BY <1>1, <1>5 DEF AttestWrite, MergePullRequest, attVars
  <2> QED BY <2>3, <2>4, <2>5, <2>6, CopyKeeps
<1>6. CASE DiscloseAndWrite
  <2>1. /\ AttestDisclose /\ AppendsAudit("gate_bypass_disclosed")
        /\ attested' = Copy(cs', trail') /\ merged' = merged
    BY <1>6 DEF DiscloseAndWrite
  <2>2. IInv'
    BY <2>1, Inductive DEF AttInv, Next
  <2>3. TrailInv' /\ Within(cs, cs')
    BY <2>1, AuditKeeps DEF AttestDisclose
  <2> QED BY <1>1, <2>1, <2>2, <2>3, CopyKeeps
<1> QED BY <1>2, <1>3, <1>4, <1>5, <1>6 DEF AttestationNext

-----------------------------------------------------------------------------
\* What the gate accepts has a verdict and both its conclusions in the copy,
\* hence in the log.
LEMMA MergeIsVouched ==
  ASSUME AttInv, MergePullRequest, recognition
  PROVE  MergeStep
PROOF
<1> DEFINE s == attested
           subject == s.cs.current_code_subject
<1>1. /\ attested # None
      /\ NewContractHolds(s, head)
      /\ merged' = head
  BY DEF MergePullRequest, Verifies
<1>2. Backed(s.cs, s.trail) /\ Within(s.cs, cs)
  BY <1>1 DEF AttInv
<1>3. /\ subject.tree = head
      /\ subject.approval = EffectiveId(s.cs)
  BY <1>1 DEF NewContractHolds, Recomputed
<1>4. subject \in s.trail.vouched
  BY <1>1, <1>2 DEF NewContractHolds, VerificationPassed, Backed
<1>5. PICK j \in DOMAIN cs.evidence_references :
        /\ cs.evidence_references[j].id = EffectiveId(s.cs)
        /\ cs.evidence_references[j].kind = "plan"
        /\ cs.evidence_references[j].decision = "approve"
  <2>1. PICK i \in DOMAIN s.cs.evidence_references :
          /\ s.cs.evidence_references[i].id = EffectiveId(s.cs)
          /\ s.cs.evidence_references[i].kind = "plan"
          /\ s.cs.evidence_references[i].decision = "approve"
    BY <1>1 DEF NewContractHolds, PlanIsApproved, Imported
  <2> QED BY <1>2, <2>1 DEF Within
<1>6. PICK i \in DOMAIN cs.evidence_references :
        /\ cs.evidence_references[i].subject = subject
        /\ cs.evidence_references[i].kind = "code"
        /\ cs.evidence_references[i].decision = "approve"
  <2>1. PICK i \in DOMAIN s.cs.evidence_references :
          /\ s.cs.evidence_references[i].subject = subject
          /\ s.cs.evidence_references[i].kind = "code"
          /\ s.cs.evidence_references[i].decision = "approve"
    BY <1>1 DEF NewContractHolds, CodeIsReviewed, Imported
  <2> QED BY <1>2, <2>1 DEF Within
<1> HIDE DEF subject
<1> QED BY <1>1, <1>3, <1>4, <1>5, <1>6 DEF MergeStep

THEOREM AttInvariance ==
  ASSUME LegacyStreams = FALSE
  PROVE  AttestationSpec => []AttInv
PROOF
<1>1. AttestationInit => AttInv
  <2>1. SUFFICES ASSUME AttestationInit PROVE AttInv
    OBVIOUS
  <2>2. IInv /\ cs = NoChange /\ trail = NoTrail /\ attested = None /\ merged = None
    BY <2>1, InitInvariant DEF AttestationInit, Init
  <2>3. NoTrail \in Trail
    BY DEF NoTrail, Trail
  <2>4. Backed(NoChange, NoTrail) /\ Agrees(NoChange, NoTrail)
    BY DEF Backed, Agrees, NoChange, NoTrail, REOPEN_STATES
  <2>5. TrailInv
    BY <2>2, <2>3, <2>4 DEF TrailInv
  <2>6. AttestationTypeOK
    BY <2>2, <2>3 DEF AttestationTypeOK, IInv
  <2> QED BY <2>2, <2>5, <2>6 DEF AttInv
<1>2. AttInv /\ [AttestationNext]_attVars => AttInv'
  BY AttInductive
<1> QED BY <1>1, <1>2, PTL DEF AttestationSpec

\* Under the evidence-backed contract a pull request merges only a tree that
\* was verified and approved as exactly that tree, whatever commits, verdicts
\* and reviews come between freezing, copying and merging
\* (_new_contract_blockers).
THEOREM MergesAlwaysVouched ==
  ASSUME LegacyStreams = FALSE
  PROVE  AttestationSpec => MergesAreVouched
PROOF
<1>1. AttestationSpec => []AttInv
  BY AttInvariance
<1>2. AttestationSpec => [][AttestationNext]_attVars
  BY PTL DEF AttestationSpec
<1>3. AttInv /\ [AttestationNext]_attVars => [MergeStep]_attVars
  <2>1. SUFFICES ASSUME AttInv, [AttestationNext]_attVars,
                        merged' # merged, recognition
                 PROVE  MergeStep
    BY DEF MergeStep
  <2>2. MergePullRequest
    BY <2>1 DEF AttestationNext, attVars, AttestWrite, DiscloseAndWrite
  <2> QED BY <2>1, <2>2, MergeIsVouched
<1> QED BY <1>1, <1>2, <1>3, PTL DEF AttestationSpec, MergesAreVouched

\* The merge gate never refuses what the writer's own rules brought to
\* READY_TO_MERGE, frozen at head, with a passed verdict about it, no bypass
\* undisclosed, no revision pending, and a change of something, all covered.
THEOREM GateAlwaysTakesReadyCode ==
  ASSUME LegacyStreams = FALSE
  PROVE  AttestationSpec => []GateTakesReadyCode
PROOF
<1>1. AttInv => GateTakesReadyCode
  <2> SUFFICES ASSUME AttInv,
                      cs.current_state = "READY_TO_MERGE", recognition,
                      trail.declared, ~trail.undisclosed,
                      ~HasUnresolvedCandidate(cs),
                      cs.current_code_subject # None,
                      cs.current_code_subject.tree = head,
                      cs.current_verification =
                        [subject |-> cs.current_code_subject,
                         outcome |-> "passed"],
                      ChangedPaths[head] # {},
                      ChangedPaths[head] \subseteq cs.coverage_manifest
               PROVE  Verifies(Copy(cs, trail), head)
    BY DEF GateTakesReadyCode
  <2> DEFINE s == Copy(cs, trail)
  <2>1. /\ s.cs = cs /\ s.trail = trail
        /\ Sound(cs) /\ Agrees(cs, trail) /\ cs \in ChangeStateType
    BY DEF Copy, AttInv, IInv, TypeOK, TrailInv
  <2> HIDE DEF s
  <2>2. /\ cs.effective_approval # None
        /\ cs.current_code_subject.approval = EffectiveId(cs)
    BY <2>1 DEF Sound, WorkingStates, UnderImplementation, REOPEN_STATES
  <2>3. CompletedLifecycle(s)
    <3>1. cs.strict \notin TERMINAL_STATES
      BY <2>1 DEF Sound, Agrees, TERMINAL_STATES
    <3> QED BY <2>1, <2>2, <3>1
            DEF CompletedLifecycle, Agrees, MILESTONE_EVENTS, REOPEN_STATES
  <2>4. PlanIsApproved(cs)
    <3>1. cs.effective_approval.evidence.kind = "plan"
      BY <2>1, <2>2 DEF ChangeStateType, Approval, PlanEvidence
    <3> QED BY <2>1, <2>2, <3>1
            DEF PlanIsApproved, Sound, Imported, EffectiveId, ApprovalId
  <2>5. cs.current_code_subject = Recomputed(cs, head)
    <3>1. cs.current_code_subject \in CodeSubject
      BY <2>1 DEF ChangeStateType
    <3> QED BY <2>2, <3>1 DEF Recomputed, CodeSubject
  <2>6. VerificationPassed(cs, cs.current_code_subject)
    <3>1. [subject |-> cs.current_code_subject, outcome |-> "passed"]
            \in Verification
      BY <2>1 DEF ChangeStateType, Verification
    <3> QED BY <3>1, NoneIsDistinct DEF VerificationPassed, NoneAssumptions
  <2>7. CodeIsReviewed(s, cs.current_code_subject)
    BY <2>1 DEF CodeIsReviewed, Agrees, Imported
  <2>8. MissingCoverage(cs.current_code_subject, cs.coverage_manifest) = {}
    BY DEF MissingCoverage
  <2>9. NewContractHolds(s, head)
    BY <2>1, <2>4, <2>5, <2>6, <2>7, <2>8 DEF NewContractHolds
  <2>10. Covered(s) = cs.coverage_manifest
    BY <2>1 DEF Covered
  <2>11. Verifies(s, head)
    BY <2>1, <2>3, <2>9, <2>10 DEF Verifies
  <2> QED BY <2>11 DEF s
<1> QED BY <1>1, AttInvariance, PTL

\* Every reachable state is of its type, the copies included.
THEOREM AttestationTypeCorrect ==
  ASSUME LegacyStreams = FALSE
  PROVE  AttestationSpec => []AttestationTypeOK
PROOF
<1>1. AttInv => AttestationTypeOK
  BY DEF AttInv
<1> QED BY <1>1, AttInvariance, PTL

=============================================================================
