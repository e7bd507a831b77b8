---------------------------- MODULE MCAttestation ----------------------------
(* One plan, approved by First; conclusions about code, all approving, none *)
(* superseding another.                                                      *)
EXTENDS Attestation, TLC

CONSTANTS First, CodeIds

MCChangedPaths == [t \in Trees |-> Paths]
MCConclusions ==
  {ev \in PlanEvidence : /\ ev.id = First /\ ev.subject.prior = None
                         /\ ev.decision = "approve" /\ ev.supersedes = None}
  \cup {ev \in CodeEvidence : /\ ev.id \in CodeIds
                              /\ ev.subject.approval = First
                              /\ ev.decision = "approve"
                              /\ ev.supersedes = None}

\* Left unexplored: what follows in a stream that an audit event began, after
\* the change was abandoned, after a copy that cannot verify, after another
\* commit on a merged tree, and with a revision of the approved plan on file.
Explored ==
  /\ recognition
  /\ trail.ordered \/ trail.declared
  /\ cs.current_state # "ABANDONED"
  /\ attested # None =>
       CompletedLifecycle(attested) /\ ~attested.trail.undisclosed
  /\ merged # None => merged = head
  /\ cs.effective_approval # None => ~HasUnresolvedCandidate(cs)

Symmetry == Permutations(Trees)

=============================================================================
