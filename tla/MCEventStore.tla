---------------------------- MODULE MCEventStore ----------------------------
(***************************************************************************)
(* Instances of EventStore: two rival conclusions on one change, one of    *)
(* them imported together with its evidence.                               *)
(***************************************************************************)
EXTENDS EventStore

CONSTANTS p1, p2, p3, evidence, approval, rejection

\* An import writes the evidence and its conclusion together.
MCBatches == {<<evidence, approval>>, <<evidence>>, <<rejection>>}
\* The same import twice over, for the run with every fault.
MCImports == {<<evidence, approval>>}
MCEvents == {evidence, approval, rejection}

\* An approval needs evidence and a change that was not rejected, a rejection
\* a change that was not approved; nothing is said twice.
MCLegal(l, e) ==
  /\ e \notin Range(l)
  /\ e = approval => evidence \in Range(l) /\ rejection \notin Range(l)
  /\ e = rejection => approval \notin Range(l)

=============================================================================
