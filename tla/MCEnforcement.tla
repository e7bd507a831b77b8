---------------------------- MODULE MCEnforcement ----------------------------
(* Change 1 is driven by a framework that writes a proposal and tasks,       *)
(* change 2 by commands alone.                                               *)
EXTENDS Enforcement, TLC

CONSTANTS h1, h2, a, b, p, q, src, prop, tasks, plan2, note

MCPlanOf == [f \in Files |-> CASE f \in {prop, tasks} -> 1
                               [] f = plan2 -> 2
                               [] OTHER -> None]
MCScratchOf == [f \in Files |-> IF f = note THEN 1 ELSE None]
MCIntentDocs == <<{prop}, {}>>
MCPlanDocs == <<{tasks}, {}>>

Quiet == [cmds |-> {}, types |-> {}, clients |-> {}, procs |-> {}, edits |-> {},
          docs |-> {}, asks |-> {}, tree |-> TRUE, faulty |-> FALSE, switch |-> FALSE,
          length |-> 1]

\* Hosts that come and go; a host that watches while people write and review;
\* a scan by hand beside it; an agent under the gate
MCAgendas ==
  {[Quiet EXCEPT !.cmds = {"start", "stop", "status"}, !.clients = {a, b},
                 !.faulty = TRUE],
   [Quiet EXCEPT !.cmds = {"start", "stop"}, !.clients = {a}, !.procs = {p},
                 !.types = {"plan_rejected"}, !.edits = {prop, tasks},
                 !.tree = FALSE, !.length = 5],
   [Quiet EXCEPT !.cmds = {"start", "scan"}, !.clients = {a}, !.procs = {p},
                 !.types = {"plan_rejected"}, !.edits = {prop, tasks},
                 !.faulty = TRUE, !.length = 3],
   [Quiet EXCEPT !.procs = {p, q},
                 !.types = {"intent_declared", "plan_ready", "plan_approved"},
                 !.asks = {src}, !.length = 5],
   [Quiet EXCEPT !.procs = {p},
                 !.types = {"intent_declared", "plan_ready", "plan_rejected",
                            "plan_approved", "implementation_started",
                            "implementation_complete", "code_review_failed"},
                 !.docs = {tasks}, !.asks = {tasks, None}, !.length = 7],
   [Quiet EXCEPT !.procs = {p}, !.types = {"intent_declared", "plan_ready"},
                 !.asks = {src, note}, !.switch = TRUE, !.length = 4]}
=============================================================================
