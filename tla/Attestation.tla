---------------------------- MODULE Attestation ----------------------------
(***************************************************************************)
(* From the local log to the merge: `attest write' copies the lines of a   *)
(* change into a file that is committed with its code, and the merge gate  *)
(* (`attest verify', in CI, engineering/attestation.py) decides on that    *)
(* copy and on the diff alone.  The writer has judged every event once;    *)
(* the gate derives everything again and trusts none of it.                *)
(*                                                                         *)
(* The copy stands for the folds of its lines: the derived change, and     *)
(* what the gate reads off the lines themselves (trail).  A pull request   *)
(* brings the tree at head, and its policy is taken from the base it       *)
(* targets, here the recognition in force.  Attestations are only added,   *)
(* so one change has one of them in a pull request.                        *)
(***************************************************************************)
EXTENDS Lifecycle

VARIABLES
  trail,      \* what the gate reads off the lines of the log
  attested,   \* the last copy: [cs, trail], or None
  merged      \* the tree merged by the last pull request, or None

attVars == <<vars, trail, attested, merged>>

MILESTONE_EVENTS ==
  {"plan_approved", "implementation_complete", "code_review_passed"}

\* ordered: no line is out of order; reached: milestones in the log; review:
\* the conclusion the last passed review names; undisclosed: a bypass was
\* recorded after the last disclosure; scope: the files estimated by the last
\* plan; vouched (history): subjects of which the last recorded verdict is
\* passed; declared (history): the declaration is the first line.
Trail ==
  [ordered : BOOLEAN,
   reached : SUBSET MILESTONE_EVENTS,
   review : EvidenceIds \cup {None},
   undisclosed : BOOLEAN,
   scope : SUBSET Paths,
   vouched : SUBSET CodeSubject,
   declared : BOOLEAN]

NoTrail ==
  [ordered |-> TRUE, reached |-> {}, review |-> None, undisclosed |-> FALSE,
   scope |-> {}, vouched |-> {}, declared |-> FALSE]

AttestationTypeOK ==
  /\ TypeOK
  /\ trail \in Trail
  /\ attested # None =>
       attested.cs \in ChangeStateType /\ attested.trail \in Trail
  /\ merged \in Trees \cup {None}

AttestationInit ==
  /\ Init
  /\ trail = NoTrail
  /\ attested = None
  /\ merged = None

-----------------------------------------------------------------------------
\* What a line adds.  find_ordering_violations walks the copy with the table
\* and the prerequisite that validate_preconditions used.
InOrder(c, e) ==
  /\ ComputeTargetState(c.strict, e.type) # INVALID
  /\ e.type = "implementation_complete" => c.verifiedOnce

LastReview(t, e) ==
  IF e.type = "code_review_passed" THEN e.evidence.id ELSE t.review

Vouched(t, e) ==
  IF e.type \in {"verification_passed", "verification_failed"}
       /\ e.verification # None
    THEN IF e.verification.outcome = "passed"
           THEN t.vouched \cup {e.verification.subject}
           ELSE t.vouched \ {e.verification.subject}
    ELSE t.vouched

\* A plan declared ready by a command estimates its files anew.
Traced(t, c, e, scope) ==
  [ordered |-> t.ordered /\ InOrder(c, e),
   reached |-> t.reached \cup ({e.type} \cap MILESTONE_EVENTS),
   review |-> LastReview(t, e),
   undisclosed |-> CASE e.type = "gate_bypassed" -> TRUE
                     [] e.type = "gate_bypass_disclosed" -> FALSE
                     [] OTHER -> t.undisclosed,
   scope |-> IF e.type = "plan_ready" THEN scope ELSE t.scope,
   vouched |-> Vouched(t, e),
   declared |-> t.declared \/ (~c.started /\ e.type = "intent_declared")]

TracedBatch(batch, scope) ==
  LET first == Traced(trail, cs, batch[1], scope)
  IN  IF Len(batch) = 1
        THEN first
        ELSE Traced(first, Apply(cs, batch[1]), batch[2], scope)

\* The lines a step of Lifecycle appends.
Appends(batch) ==
  \E scope \in SUBSET Paths :
    /\ "plan_ready" \notin {batch[i].type : i \in DOMAIN batch} => scope = {}
    /\ trail' = IF AcceptsBatch(cs, batch, recognition)
                  THEN TracedBatch(batch, scope) ELSE trail
AppendsAudit(type) ==
  trail' = IF AcceptsUnvalidated(cs, Of(type))
             THEN Traced(trail, cs, Of(type), {}) ELSE trail

Changing ==
  \/ ChangeStart /\ Appends(<<Of("intent_declared")>>)
  \/ ChangeAbandon /\ Appends(<<Of("intent_abandoned")>>)
  \/ PlanRedeclare /\ Appends(<<Of("plan_redeclared")>>)
  \/ OnMerge /\ Appends(<<Of("merged")>>)
  \/ RecordBypass /\ AppendsAudit("gate_bypassed")
  \/ \E p \in Procs : Commit(p) /\ Appends(job[p].batch)

\* A timeout and a crash leave the same trail.
SensorFailing ==
  \E p \in Procs : SensorFails(p) /\ AppendsAudit("sensor_crashed")

Deciding ==
  /\ \/ Edit \/ GitCommit
     \/ \E p \in Procs :
          \/ PlanReadyCmd(p) \/ PlanRevise(p) \/ PlanWithdraw(p)
          \/ ImplementationStart(p) \/ ImplementationReopen(p)
          \/ ImplementationRecord(p) \/ ReviewImport(p)
          \/ Done(p) \/ DoneSkipVerify(p) \/ Verify(p)
          \/ BeginChecks(p) \/ FinishChecks(p) \/ Complete(p)
  /\ UNCHANGED trail

-----------------------------------------------------------------------------
\* `attest write', with a disclosure or without.  A disclosure the writer
\* refuses ends the command before it copies anything.
Copy(c, t) == [cs |-> c, trail |-> t]

AttestWrite ==
  /\ cs.started
  /\ attested' = Copy(cs, trail)
  /\ UNCHANGED <<vars, trail, merged>>

DiscloseAndWrite ==
  /\ AcceptsUnvalidated(cs, Of("gate_bypass_disclosed"))
  /\ AttestDisclose
  /\ AppendsAudit("gate_bypass_disclosed")
  /\ attested' = Copy(cs', trail')
  /\ UNCHANGED merged

\* check_attestation: the lines are in order and end ready to merge.
CompletedLifecycle(s) ==
  /\ s.trail.ordered
  /\ s.cs.current_state = "READY_TO_MERGE"
  /\ MILESTONE_EVENTS \subseteq s.trail.reached

\* _new_contract_blockers, one conjunct for each part.
PlanIsApproved(c) ==
  /\ c.effective_approval # None
  /\ \E ev \in Imported(c, EffectiveId(c)) :
       /\ ev = c.effective_approval.evidence
       /\ ev.kind = "plan" /\ ev.decision = "approve"
       /\ ev.subject = c.effective_approval.subject

\* A bug: the outcome is not looked at.
VerificationNamesSubject(c, subject) ==
  /\ c.current_verification # None
  /\ c.current_verification.subject = subject

VerificationPassed(c, subject) ==
  /\ c.current_verification # None
  /\ c.current_verification.subject = subject
  /\ c.current_verification.outcome = "passed"

CodeIsReviewed(s, subject) ==
  \E ev \in Imported(s.cs, s.trail.review) :
    ev.kind = "code" /\ ev.decision = "approve" /\ ev.subject = subject

\* The subject is computed anew from base and head.
Recomputed(c, tree) == [approval |-> EffectiveId(c), tree |-> tree]

NewContractHolds(s, tree) ==
  /\ PlanIsApproved(s.cs)
  /\ ~HasUnresolvedCandidate(s.cs)
  /\ s.cs.current_code_subject = Recomputed(s.cs, tree)
  /\ VerificationPassed(s.cs, s.cs.current_code_subject)
  /\ CodeIsReviewed(s, s.cs.current_code_subject)
  /\ MissingCoverage(s.cs.current_code_subject, s.cs.coverage_manifest) = {}

\* A bug: the estimate stays the scope under the evidence-backed contract.
CoveredByEstimate(s) == s.trail.scope

Covered(s) ==
  IF recognition THEN s.cs.coverage_manifest ELSE s.trail.scope

\* verify_attestations on a pull request that brings this tree and copy.
Verifies(s, tree) ==
  /\ CompletedLifecycle(s)
  /\ recognition => NewContractHolds(s, tree)
  /\ Covered(s) \cap ChangedPaths[tree] # {}
  /\ ~s.trail.undisclosed
  /\ ChangedPaths[tree] \subseteq Covered(s)

\* Merging needs the gate's check to pass; `on-merge' follows in CI.
MergePullRequest ==
  /\ attested # None
  /\ Verifies(attested, head)
  /\ merged # head
  /\ merged' = head
  /\ UNCHANGED <<vars, trail, attested>>

AttestationNext ==
  \/ (Changing \/ SensorFailing \/ Deciding) /\ UNCHANGED <<attested, merged>>
  \/ AttestWrite \/ DiscloseAndWrite \/ MergePullRequest

AttestationSpec == AttestationInit /\ [][AttestationNext]_attVars

-----------------------------------------------------------------------------
\* Under the evidence-backed contract what is merged is a tree that was
\* verified, with no later verdict against it by the time of the copy, and
\* approved as exactly that tree under an approving plan conclusion, both
\* still in the log: commits, verdicts and reviews that come between
\* freezing, copying and merging never let other code through
\* (_new_contract_blockers).
MergeStep ==
  merged' # merged /\ recognition =>
    \E subject \in attested.trail.vouched :
      /\ subject.tree = merged'
      /\ \E i, j \in DOMAIN cs.evidence_references :
           /\ cs.evidence_references[i].subject = subject
           /\ cs.evidence_references[i].kind = "code"
           /\ cs.evidence_references[i].decision = "approve"
           /\ cs.evidence_references[j].id = subject.approval
           /\ cs.evidence_references[j].kind = "plan"
           /\ cs.evidence_references[j].decision = "approve"
MergesAreVouched == [][MergeStep]_attVars

\* The writer and the merge gate judge by the same rules: a change that
\* legal events brought to READY_TO_MERGE, whose frozen tree is the one at
\* head and whose last verdict is about it, is never refused by the gate
\* (attestation.py: "Reuses derive_state + find_ordering_violations
\* unchanged").  The gate's own business are bypasses that were not
\* disclosed, a revision submitted and not yet concluded, a record of coverage
\* replaced after completion, and a change that changes nothing: the writer
\* completes it, and no attestation of it covers anything.
GateTakesReadyCode ==
  (/\ cs.current_state = "READY_TO_MERGE"
   /\ recognition
   /\ trail.declared /\ ~trail.undisclosed
   /\ ~HasUnresolvedCandidate(cs)
   /\ cs.current_code_subject # None
   /\ cs.current_code_subject.tree = head
   /\ cs.current_verification = [subject |-> cs.current_code_subject,
                                 outcome |-> "passed"]
   /\ ChangedPaths[head] # {}
   /\ ChangedPaths[head] \subseteq cs.coverage_manifest)
  => Verifies(Copy(cs, trail), head)

=============================================================================
