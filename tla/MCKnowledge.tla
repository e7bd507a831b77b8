---------------------------- MODULE MCKnowledge ----------------------------
(* One constraint with a candidate that narrows it, one change that takes   *)
(* delivery and one that governs the knowledge.                             *)
EXTENDS Knowledge, TLC

CONSTANTS v1, v2, feature, policy, ann, ben, src, docs, text,
          prop, rec, rej, ret, app, excl, del, chal, adj, reap, fix, cont, keep, again, exe

MCKid == [v \in {v1, v2} |-> "k"]
MCPrevious == (v1 :> None) @@ (v2 :> v1)
MCAuthority == [v \in {v1, v2} |-> "constraint"]
MCSelector == (v1 :> {}) @@ (v2 :> {src})

Narrowed == (v1 :> "superseded") @@ (v2 :> "effective")
Earlier(candidate) == (v1 :> "effective") @@ (v2 :> candidate)

\* Two callers race on the ledger, whose governing change may end; one change
\* goes from delivery to merge over a challenge and a reapproval; one is recorded,
\* verified and judged again and again; one is declared anew
ToMerge == {"verification_passed", "implementation_complete", "code_review_passed", "merged"}

MCAgendas ==
  {[ops |-> {prop, rec, ret}, callers |-> {ann, ben}, steered |-> {policy},
    events |-> {"intent_abandoned"},
    states |-> Earlier("none"), delivered |-> {feature}, length |-> 3],
   [ops |-> {rec, rej, ret, app, del}, callers |-> {ann, ben}, steered |-> {}, events |-> {},
    states |-> Earlier("candidate"), delivered |-> {feature}, length |-> 3],
   [ops |-> {rec, ret, app, excl, del, chal, adj}, callers |-> {ann},
    steered |-> {}, events |-> {},
    states |-> Earlier("candidate"), delivered |-> {feature}, length |-> 4],
   [ops |-> {rec, del, reap, exe}, callers |-> {ann},
    steered |-> {feature}, events |-> ToMerge \cup {"plan_approved"},
    states |-> Earlier("candidate"), delivered |-> {feature}, length |-> 9],
   [ops |-> {rec, del, cont}, callers |-> {ann},
    steered |-> {feature},
    events |-> ToMerge \cup {"implementation_invalidated", "implementation_recorded",
                             "verification_failed", "code_review_failed",
                             "knowledge_checkpointed"},
    states |-> Earlier("candidate"), delivered |-> {feature}, length |-> 6],
   [ops |-> {chal, del, fix, exe}, callers |-> {ann},
    steered |-> {feature}, events |-> ToMerge,
    states |-> Earlier("none"), delivered |-> {feature}, length |-> 8],
   [ops |-> {del, again, keep}, callers |-> {ann}, steered |-> {feature},
    events |-> ToMerge \cup {"implementation_recorded"},
    states |-> Narrowed, delivered |-> {feature}, length |-> 9],
   [ops |-> {del}, callers |-> {ann}, steered |-> {feature},
    events |-> ToMerge \cup {"plan_redeclared", "plan_ready", "plan_rejected",
                             "plan_approved", "implementation_started"},
    states |-> Earlier("none"), delivered |-> {}, length |-> 9]}

Conclusion(kind, version, decision, human) ==
  [type |-> "knowledge_imported", change |-> policy, kind |-> kind, version |-> version,
   decision |-> decision, human |-> human, target |-> feature]

MCOperation ==
  (prop :> [type |-> "knowledge_proposed", change |-> policy, version |-> v2]) @@
  (rec :> Conclusion("recognition", v2, "recognize", TRUE)) @@
  (rej :> Conclusion("recognition", v2, "reject", FALSE)) @@
  (ret :> Conclusion("recognition", v1, "retire", TRUE)) @@
  (app :> Conclusion("applicability", v2, "apply", FALSE)) @@
  (excl :> Conclusion("applicability", v1, "not_applicable", TRUE)) @@
  (del :> [type |-> "knowledge_delivered", change |-> feature]) @@
  (again :> [type |-> "knowledge_delivered", change |-> feature]) @@
  (keep :> Conclusion("disposition", v2, "continue", FALSE)) @@
  (chal :> [type |-> "knowledge_recorded", change |-> feature, kind |-> "challenge"]) @@
  (adj :> Conclusion("disposition", v2, "adjust", FALSE)) @@
  (reap :> Conclusion("disposition", v1, "reapprove", FALSE)) @@
  (fix :> Conclusion("disposition", v1, "adjust", FALSE)) @@
  (cont :> Conclusion("disposition", v1, "continue", FALSE)) @@
  (exe :> [type |-> "knowledge_recorded", change |-> feature, kind |-> "execution",
           outcome |-> "verified"])

Implementing ==
  [phase |-> "implementing", approval |-> 0, scope |-> {}, coverage |-> {docs},
   subject |-> None, verification |-> None]
MCInitialChange == [c \in {feature, policy} |-> Implementing]

MCPathSets == {{src}, {docs}}
MCManifest == [code \in {text} |-> {docs}]

\* A file that expects an older revision and is not in the log can only be
\* refused, now and later: TLC does not tell it from no file
Stale(x) == /\ drafts[x] # None
            /\ drafts[x].expected # Revision
            /\ ~Replays(drafts[x])
View == <<agenda, log, ledger, change, prepared, answered,
          [x \in Callers |-> IF Stale(x) THEN None ELSE drafts[x]]>>

Symmetry == Permutations(Callers)
=============================================================================
