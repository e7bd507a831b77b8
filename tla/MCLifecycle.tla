---------------------------- MODULE MCLifecycle ----------------------------
(***************************************************************************)
(* Lifecycle on small instances.  An evidence id is fixed to one kind of   *)
(* conclusion; its subject, decision and supersession stay open.           *)
(***************************************************************************)
EXTENDS Lifecycle, Functions, TLC

CONSTANTS PlanIds, CodeIds

\* Every commit changes every product path.
MCChangedPaths == [t \in Trees |-> Paths]

MCConclusions ==
  {ev \in PlanEvidence :
     ev.id \in PlanIds /\ ev.subject.prior \in PlanIds \cup {None}}
  \cup {ev \in CodeEvidence :
          ev.id \in CodeIds /\ ev.subject.approval \in PlanIds}

\* A pool without supersession in which the conclusions about plans form a
\* chain: one for the initial plan, one for a revision of what it approved.
CONSTANTS First, Revision
MCChain ==
  {ev \in MCConclusions :
     /\ ev.supersedes = None
     /\ ev.id = First => ev.subject.prior = None
     /\ ev.id = Revision => ev.subject.prior = First}

\* The pool of first approvals.
MCApprovals ==
  {ev \in MCConclusions : ev.supersedes = None /\ ev.decision = "approve"}

\* The conclusions recorded so far, and those about to be.
Known == Range(cs.evidence_references)
         \cup {job[p].batch[1].evidence : p \in
                {q \in Procs : job[q].batch # <<>>
                              /\ job[q].batch[1].type = "review_evidence_imported"}}

\* Nothing speaks of another tree than the one that is committed.
OneTree ==
  /\ work = head
  /\ cs.current_code_subject # None => cs.current_code_subject.tree = head
  /\ cs.current_verification # None => cs.current_verification.subject.tree = head
  /\ \A ev \in Known : ev.kind = "code" => ev.subject.tree = head
  /\ \A p \in Procs : job[p].before = None \/ job[p].before.work = head

\* Overlapping invocations of which one is importing a conclusion on code.
ImportingCode(p) ==
  /\ job[p].batch # <<>>
  /\ job[p].batch[1].type = "review_evidence_imported"
  /\ job[p].batch[1].evidence.kind = "code"
OverlapsCodeReview ==
  \A p, q \in Procs :
    p # q /\ job[p].pc # "idle" /\ job[q].pc # "idle" =>
      ImportingCode(p) \/ ImportingCode(q)

\* Any conclusions and overlaps as long as there is one tree; with a second tree,
\* approvals, and what overlaps with an import of a code conclusion.
Explored == OneTree \/ (Known \subseteq MCApprovals /\ OverlapsCodeReview)

Symmetry == Permutations(Procs) \cup Permutations(Trees)

=============================================================================
