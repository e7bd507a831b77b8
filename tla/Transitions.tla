---------------------------- MODULE Transitions ----------------------------
(***************************************************************************)
(* The lifecycle state machine of one change: src/keepsail/core/           *)
(* transitions.py and the state names of core/state.py.  Pure operators,   *)
(* shared by the reducer, the emit validator and the merge gate.           *)
(***************************************************************************)

\* The state of a change that has no event yet (Python's None).
NoState == "NO_STATE"

\* The sentinel compute_target_state returns for an illegal event.
INVALID == "__INVALID__"

TERMINAL_STATES == {"ARCHIVED", "ABANDONED"}

STATES ==
  {"INTENT_DECLARED", "AWAITING_PLAN_REVIEW", "PLAN_REJECTED",
   "PLAN_APPROVED", "IMPLEMENTATION_IN_PROGRESS", "AWAITING_CODE_REVIEW",
   "CODE_REVIEW_REJECTED", "READY_TO_MERGE"} \cup TERMINAL_STATES

\* A bug to be told apart from the code: a redeclaration registered as an
\* informational event.
RedeclareIsInformational ==
  {"verification_passed", "verification_failed", "review_evidence_imported",
   "implementation_recorded", "plan_revision_submitted", "plan_withdrawn",
   "plan_redeclared"}

\* Events that never change the state.  The knowledge_* family stands as one
\* member; the retired review_round_* and review_run_* records as another.
Informational ==
  {"verification_passed", "verification_failed", "scope_drift_detected",
   "merged_reverted", "pr_opened", "sensor_timeout_exceeded",
   "sensor_crashed", "gate_bypassed", "gate_bypass_disclosed",
   "review_round_record", "review_evidence_imported",
   "implementation_recorded", "plan_revision_submitted", "plan_withdrawn",
   "knowledge_record"}

\* States in which implementation work is under way or frozen for review.
UnderImplementation ==
  {"IMPLEMENTATION_IN_PROGRESS", "AWAITING_CODE_REVIEW",
   "CODE_REVIEW_REJECTED", "READY_TO_MERGE"}

\* The explicit reachability table.
TableTarget(current, type) ==
  CASE type = "plan_ready" /\ current \in {"INTENT_DECLARED", "PLAN_REJECTED"}
         -> "AWAITING_PLAN_REVIEW"
    [] type = "plan_approved" /\ current = "AWAITING_PLAN_REVIEW"
         -> "PLAN_APPROVED"
    [] type = "plan_approved" /\ current \in UnderImplementation
         -> "IMPLEMENTATION_IN_PROGRESS"
    [] type = "plan_rejected" /\ current = "AWAITING_PLAN_REVIEW"
         -> "PLAN_REJECTED"
    [] type = "plan_rejected" /\ current \in UnderImplementation
         -> current
    [] type = "review_verdict_recorded"
         /\ current \in {"AWAITING_PLAN_REVIEW", "AWAITING_CODE_REVIEW",
                         "CODE_REVIEW_REJECTED"}
         -> current
    [] type = "implementation_started" /\ current = "PLAN_APPROVED"
         -> "IMPLEMENTATION_IN_PROGRESS"
    [] type = "implementation_complete"
         /\ current = "IMPLEMENTATION_IN_PROGRESS"
         -> "AWAITING_CODE_REVIEW"
    [] type = "code_review_passed"
         /\ current \in {"AWAITING_CODE_REVIEW", "CODE_REVIEW_REJECTED"}
         -> "READY_TO_MERGE"
    [] type = "code_review_failed"
         /\ current \in {"AWAITING_CODE_REVIEW", "CODE_REVIEW_REJECTED"}
         -> "CODE_REVIEW_REJECTED"
    [] type = "merged" /\ current = "READY_TO_MERGE" -> "ARCHIVED"
    [] type = "implementation_withdrawn"
         /\ current \in {"AWAITING_CODE_REVIEW", "READY_TO_MERGE"}
         -> "READY_TO_MERGE"
    [] OTHER -> INVALID

\* compute_target_state: the order of the arms is the order of the code's
\* early returns.
ComputeTargetState(current, type) ==
  CASE type = "intent_declared" /\ current = NoState -> "INTENT_DECLARED"
    [] type = "intent_declared" /\ current \in STATES \ TERMINAL_STATES
         -> current
    [] type = "intent_declared" /\ current \in TERMINAL_STATES -> INVALID
    [] type # "intent_declared" /\ current \in {NoState} \cup TERMINAL_STATES
         -> INVALID
    [] type \in Informational /\ current \in STATES \ TERMINAL_STATES
         -> current
    [] type \in {"intent_redeclared", "plan_redeclared"}
         /\ current \in STATES \ TERMINAL_STATES
         -> "INTENT_DECLARED"
    [] type = "intent_abandoned" /\ current \in STATES \ TERMINAL_STATES
         -> "ABANDONED"
    [] type = "implementation_restarted"
         /\ current \in STATES \ TERMINAL_STATES
         -> "PLAN_APPROVED"
    [] type = "implementation_invalidated"
         /\ current \in STATES \ TERMINAL_STATES
         -> "IMPLEMENTATION_IN_PROGRESS"
    [] OTHER -> TableTarget(current, type)

=============================================================================
