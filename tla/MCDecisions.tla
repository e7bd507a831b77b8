---------------------------- MODULE MCDecisions ----------------------------
(* Two decisions, two source files, a body of every kind: a check that      *)
(* bites, one that does not, one without a counterexample, two criteria, a  *)
(* note, a body that does not parse.                                        *)
EXTENDS Decisions, TLC

CONSTANTS d1, d2, f1, f2, good, bad, bites, hollow, bare, crit, crit2, note, broken, ann, ben

Kind(tier, counterexample, bite, holds) ==
  [tier |-> tier, counterexample |-> counterexample, bites |-> bite, holds |-> holds]

MCBody ==
  (bites :> Kind(1, TRUE, TRUE, {good})) @@ (hollow :> Kind(1, TRUE, FALSE, {good})) @@
  (bare :> Kind(1, FALSE, TRUE, {good})) @@ (crit :> Kind(2, FALSE, FALSE, {})) @@
  (crit2 :> Kind(2, FALSE, FALSE, {})) @@ (note :> Kind(3, FALSE, FALSE, {})) @@
  (broken :> Kind(0, FALSE, FALSE, {}))

Proposed(t) == Fresh(t)
InForce(t) == Stamped(Fresh(t))
Legacy(t) == [Fresh(t) EXCEPT !.status = "ratified"]

Records(first, second) == (d1 :> first) @@ (d2 :> second)
Source(content, anchors) == [content |-> content, anchors |-> anchors]
Code(first, second) == (f1 :> first) @@ (f2 :> second)

\* A check is locked while the code moves; a criterion is reconciled, betrayed
\* and reworded while files are anchored; a decision is handed over
Arming == [verbs |-> {"ratify", "check"}, kills |-> FALSE, commands |-> 3, edits |-> 2,
           texts |-> {bites, hollow, bare, broken},
           sources |-> {Source(bad, {d1}), Source(good, {d2}), None},
           records |-> Records(Legacy(bites), None),
           code |-> Code(Source(good, {d1}), None)]
Reviewing == [verbs |-> {"reconcile", "betray", "ratify", "check"}, kills |-> FALSE,
              commands |-> 3, edits |-> 2,
              texts |-> {crit, crit2},
              sources |-> {Source(good, {d1}), Source(bad, {d1}), None},
              records |-> Records(InForce(crit), None),
              code |-> Code(Source(good, {d1}), Source(good, {}))]
Handing == [verbs |-> {"new", "ratify", "retire", "supersede", "check"}, kills |-> TRUE,
            commands |-> 4, edits |-> 1,
            texts |-> {note}, sources |-> {Source(good, {d2})},
            records |-> Records(InForce(note), None),
            code |-> Code(Source(good, {d1}), None)]

MCAgendas == {Arming, Reviewing, Handing}

Symmetry == Permutations(Procs)
=============================================================================
