----------------------------- MODULE Knowledge -----------------------------
(***************************************************************************)
(* The knowledge ledger: versioned product constraints that live in the    *)
(* event log, the operations that propose, recognise, deliver, challenge   *)
(* and dispose of them, and the lifecycle steps that wait for them.        *)
(*                                                                         *)
(* A digest is modelled by what it digests, the revision of the log by its *)
(* length (the log is append only), the record file of a caller by the     *)
(* request in "drafts".  An operation is prepared without the lock and     *)
(* validated again under it; a command may die in between, and its caller  *)
(* run the same file again.                                                *)
(***************************************************************************)
EXTENDS Naturals, Sequences, FiniteSets

CONSTANTS
  Versions,      \* knowledge versions, by digest
  Kid,           \* [Versions -> knowledge identity]
  Previous,      \* [Versions -> Versions \cup {None}]: previous_version
  Authority,     \* [Versions -> {"constraint", "guidance"}]
  Selector,      \* [Versions -> SUBSET Paths]; the empty set is the global one
  Paths,         \* path prefixes a change can touch
  PathSets,      \* the sets of them that a plan or a coverage can name
  Codes,         \* the change sets a repository can hold
  Manifest,      \* [Codes -> SUBSET Paths]: the paths each of them touches
  Changes,
  Callers,       \* processes that run the commands
  Ops,           \* operation identifiers
  Operation,     \* [Ops -> the fixed part of the request]
  None,
  Agendas,       \* what the parties may set out to do: see agenda
  InitialChange  \* [Changes -> what derive_state reads at the start]

ASSUME VersionAssumption == /\ None \notin Versions \cup Nat
                            /\ Previous \in [Versions -> Versions \cup {None}]
                            /\ \A v \in Versions : Previous[v] # v
ASSUME OperationAssumption ==
  /\ None \notin Ops
  /\ \A op \in Ops : Operation[op].change \in Changes
  /\ \A op \in Ops :
       LET o == Operation[op]
       IN  \/ o.type = "knowledge_proposed" /\ o.version \in Versions
           \/ /\ o.type = "knowledge_imported"
              /\ \/ /\ o.kind = "applicability"
                    /\ o.version \in Versions /\ o.target \in Changes
                    /\ o.decision \in {"apply", "not_applicable"}
                 \/ /\ o.kind = "disposition"
                    /\ \/ /\ o.decision \in {"continue", "adjust", "reapprove"}
                          /\ o.version \in Versions
                       \/ o.decision = "not_applicable"
                 \/ /\ o.kind = "recognition"
                    /\ o.version \in Versions
                    /\ o.decision \in {"recognize", "reject", "retire"}
           \/ o.type = "knowledge_delivered"
           \/ o.type = "knowledge_recorded" /\ o.kind \in {"challenge", "execution"}

\* A recognised version took the place of the very version it was written to
\* replace, and an identity has one version in force
VersionStates == {"none", "candidate", "effective", "superseded", "retired"}
InForce(states) ==
  \A v \in Versions : states[v] \notin {"none", "candidate"} =>
    /\ Previous[v] # None => states[Previous[v]] = "superseded"
    /\ \A w \in Versions \ {v} :
         Kid[w] = Kid[v] /\ states[w] = "effective" => states[v] # "effective"
ASSUME AgendaAssumption ==
  \A x \in Agendas : x.states \in [Versions -> VersionStates] /\ InForce(x.states)

\* The states of a change; "declared" also stands for a rejected plan
Terminal == {"merged", "abandoned"}
Working == {"implementing", "review", "rejected", "ready"}
Phases == {"declared", "awaiting", "approved"} \cup Working \cup Terminal

\* The changes there are, with no code verified or frozen yet
ASSUME ChangeAssumption ==
  /\ PathSets \subseteq SUBSET Paths
  /\ Manifest \in [Codes -> SUBSET Paths]
  /\ InitialChange \in [Changes -> [phase : Phases, approval : {0, None},
                                   scope : SUBSET Paths, coverage : SUBSET Paths,
                                   subject : {None}, verification : {None}]]
ASSUME BoundAssumption == \A x \in Agendas : x.length \in Nat

VARIABLES
  agenda,    \* chosen at the start: the operations (ops), the callers that run
             \* them, the changes that move (steered; the others only govern)
             \* and by which lifecycle events (events), the versions retained
             \* and the changes delivered to before the log of the model begins
             \* (states, delivered), and its bound (length)
  log,       \* the events: the request of a knowledge event, None for another
  ledger,    \* what load_ledger reads from it
  change,    \* what derive_state reads from it, per change
  drafts,    \* the record file of a caller: a request, or None
  prepared,  \* the payload the command of a caller holds, or None
  answered   \* the callers whose command reported success for their file

vars == <<agenda, log, ledger, change, drafts, prepared, answered>>

Kids == {Kid[v] : v \in Versions}
Revision == Len(log)
-----------------------------------------------------------------------------
(* The view of a change: what it must be delivered, what is unresolved.    *)

Current(l, k) ==
  LET vs == {v \in Versions : l.states[v] = "effective" /\ Kid[v] = k}
  IN  IF vs = {} THEN None ELSE CHOOSE v \in vs : TRUE

RuleMatch(v, paths) ==
  CASE Selector[v] = {} -> "matched"
    [] Selector[v] # {} /\ paths = {} -> "unknown"
    [] Selector[v] # {} /\ paths # {} ->
         IF Selector[v] \cap paths # {} THEN "matched" ELSE "non_matching"

\* The conclusion on the applicability of a version to a change, if there is one
Match(l, c, ctx, v) ==
  LET judgment == l.applicability[<<c, v>>] IN
  CASE judgment = None -> RuleMatch(v, ctx.paths)
    [] judgment # None ->
         IF Operation[judgment].decision = "apply" THEN "matched" ELSE "non_matching"

Effective(l) == {v \in Versions : l.states[v] = "effective"}

Matching(l, c, ctx, outcome) ==
  {v \in Effective(l) : Authority[v] = "constraint" /\ Match(l, c, ctx, v) = outcome}

Supplied(l, c) == UNION {d.constraints : d \in {e \in l.deliveries : e.change = c}}

Challenges(l, c) == {h \in l.challenges : h.change = c}

ImpactBasis(l, c, ctx, k) ==
  LET known == {v \in Versions : Kid[v] = k /\ l.states[v] \notin {"none", "candidate"}}
  IN  [paths |-> ctx.paths,
       versions |-> [v \in known |-> l.states[v]],
       applicability |-> [v \in known |-> l.applicability[<<c, v>>]]]

ApprovalInForce(l, c, ctx, k) == ctx.approval

TriggerApproval(l, c, ctx, k) ==
  IF <<c, k>> \in DOMAIN l.captured THEN l.captured[<<c, k>>] ELSE ctx.approval

Impact(l, c, ctx, old, cid) ==
  [change |-> c, kid |-> Kid[old], old |-> old, new |-> Current(l, Kid[old]),
   basis |-> ImpactBasis(l, c, ctx, Kid[old]),
   approval |-> TriggerApproval(l, c, ctx, Kid[old]), challenge |-> cid]

Impacts(l, c, ctx) ==
  {Impact(l, c, ctx, v, None) : v \in Supplied(l, c) \ Matching(l, c, ctx, "matched")}
  \cup {Impact(l, c, ctx, h.version, h.op) : h \in Challenges(l, c)}

Disposed(l, impact) == \E d \in l.dispositions : d.impact = impact
Disposition(l, impact) == CHOOSE d \in l.dispositions : d.impact = impact

Passed(st) == st.verification # None /\ st.verification.outcome = "passed"

\* The subject an execution can be verified for: the one ready to merge
VerifiedSubject(st) == IF st.phase = "ready" /\ Passed(st) THEN st.subject ELSE None

Status(l, st, impact) ==
  IF ~Disposed(l, impact) THEN "pending"
  ELSE LET d == Disposition(l, impact)
           e == l.executions[d.op]
       IN  IF \/ d.decision \in {"continue", "not_applicable"}
              \/ /\ e.outcome = "verified"
                 /\ VerifiedSubject(st) # None
                 /\ e.subject = VerifiedSubject(st)
           THEN "resolved" ELSE "executing"

Unresolved(l, c, st, ctx) ==
  {i \in Impacts(l, c, ctx) : Status(l, st, i) # "resolved"}

\* The dispositions of one identity are applied in digest order: the last one
\* wins, and which that is depends on the digests alone
Winning(l, impacts) == Disposition(l, CHOOSE i \in impacts : TRUE)

Constraints(l, c, ctx) ==
  LET judged == {i \in Impacts(l, c, ctx) : Disposed(l, i)}
      disposed(k) == {i \in judged : i.kid = k}
      chosen(k) ==
        IF disposed(k) = {} THEN {v \in Matching(l, c, ctx, "matched") : Kid[v] = k}
        ELSE LET d == Winning(l, disposed(k))
             IN  IF d.decision = "not_applicable" THEN {} ELSE {d.use}
  IN  UNION {chosen(k) : k \in Kids}

\* _context: the scope of the plan, the coverage and the code that is frozen
FrozenPaths(st) == IF st.subject = None THEN {} ELSE Manifest[st.subject.code]
Context(st) == [paths |-> st.scope \cup st.coverage \cup FrozenPaths(st),
                approval |-> st.approval]

Basis(l, c, ctx) ==
  LET impacts == Impacts(l, c, ctx) IN
  [context |-> ctx,
   evaluated |-> [v \in Effective(l) |-> Match(l, c, ctx, v)],
   challenges |-> Challenges(l, c),
   constraints |-> Constraints(l, c, ctx),
   dispositions |-> {d \in l.dispositions : d.impact \in impacts}]

\* blocking_reasons, for a reader that excuses the impacts in "excused"
Blocked(l, c, st, excused) ==
  LET ctx == Context(st)
  IN  \/ Matching(l, c, ctx, "unknown") # {}
      \/ ~(Unresolved(l, c, st, ctx) \subseteq excused)

ExactlyDelivered(l, c, st) ==
  LET basis == Basis(l, c, Context(st))
  IN  \E d \in l.deliveries :
        d.change = c /\ d.basis = basis /\ d.constraints = basis.constraints

\* The adjustments that are being executed: a review epoch may go on for them
Running(l, c, st) ==
  {i \in Impacts(l, c, Context(st)) :
     /\ Status(l, st, i) = "executing"
     /\ \/ Disposition(l, i).decision # "reapprove"
        \/ i.approval # st.approval}

\* validate_event for the lifecycle events of PREREQUISITES
PrerequisiteMet(l, c, st, type) ==
  LET excused == IF type \in {"implementation_complete", "code_review_passed"}
                 THEN Running(l, c, st) ELSE {}
  IN  ~Blocked(l, c, st, excused) /\ ExactlyDelivered(l, c, st)
-----------------------------------------------------------------------------
(* The operations.  A request is the fixed part of its operation, the      *)
(* revision it expects and the subject its author read from the log.       *)

Request(op, subject) == [op |-> op, expected |-> Revision, subject |-> subject]

Is(op, type) == Operation[op].type = type
IsConclusion(op, kind) == Is(op, "knowledge_imported") /\ Operation[op].kind = kind
IsRecord(op, kind) == Is(op, "knowledge_recorded") /\ Operation[op].kind = kind

\* A conclusion that changes authority or risk needs the owner
OwnerNeeded(l, op) ==
  LET o == Operation[op]
      v == o.version
  IN  CASE o.kind = "recognition" /\ o.decision = "recognize" ->
             LET old == Current(l, Kid[v])
             IN  /\ old # None
                 /\ Authority[old] = "constraint"
                 /\ Authority[v] # "constraint" \/ Selector[v] # Selector[old]
        [] o.kind = "recognition" /\ o.decision = "retire" -> Authority[v] = "constraint"
        [] OTHER -> o.decision = "not_applicable"

Recognized(l, v) == l.states[v] \in {"effective", "superseded", "retired"}

ProposalApplies(l, r) ==
  LET v == Operation[r.op].version
  IN  l.states[v] = "none" /\ Previous[v] = Current(l, Kid[v])

RecognitionOfAnyCandidate(l, r) ==
  LET o == Operation[r.op]
      v == o.version
  IN  /\ l.states[v] # "none"
      /\ \/ o.decision = "reject"
         \/ o.decision = "recognize" /\ l.states[v] = "candidate"
         \/ o.decision = "retire" /\ Current(l, Kid[v]) = v

RecognitionApplies(l, r) ==
  LET o == Operation[r.op]
      v == o.version
  IN  /\ l.states[v] # "none"
      /\ \/ o.decision = "reject"
         \/ /\ o.decision = "recognize"
            /\ l.states[v] = "candidate"
            /\ Previous[v] = Current(l, Kid[v])
         \/ o.decision = "retire" /\ Current(l, Kid[v]) = v

DispositionApplies(l, r) ==
  LET o == Operation[r.op]
  IN  /\ \/ o.decision = "not_applicable"
         \/ Recognized(l, o.version) /\ Authority[o.version] = "constraint"
      /\ ~Disposed(l, r.subject)

ImportApplies(l, r) ==
  LET o == Operation[r.op]
  IN  /\ OwnerNeeded(l, r.op) => o.human
      /\ CASE o.kind = "recognition" -> RecognitionApplies(l, r)
           [] o.kind = "applicability" -> l.states[o.version] # "none"
           [] o.kind = "disposition" -> DispositionApplies(l, r)

DeliveryApplies(l, r) ==
  \A v \in r.subject.constraints : Recognized(l, v)

RecordApplies(l, r) ==
  LET o == Operation[r.op]
  IN  CASE o.kind = "challenge" ->
             \E d \in l.deliveries : /\ d.op = r.subject.delivery
                                     /\ d.change = o.change
                                     /\ r.subject.version \in d.constraints
        [] o.kind = "execution" ->
             \E d \in l.dispositions : /\ d.op = r.subject.disposition
                                       /\ d.impact.change = o.change

Applies(l, r) ==
  /\ r.op \notin l.operations
  /\ CASE Is(r.op, "knowledge_proposed") -> ProposalApplies(l, r)
       [] Is(r.op, "knowledge_imported") -> ImportApplies(l, r)
       [] Is(r.op, "knowledge_delivered") -> DeliveryApplies(l, r)
       [] Is(r.op, "knowledge_recorded") -> RecordApplies(l, r)

\* The approval in force in a linked change when its trigger is recorded
Linked(l, k) == {d.change : d \in {e \in l.deliveries : \E v \in e.constraints : Kid[v] = k}}

Capture(l, k, changes, approvals) ==
  [x \in DOMAIN l.captured \cup {<<c, k>> : c \in changes} |->
     IF x[2] = k /\ x[1] \in changes THEN approvals[x[1]] ELSE l.captured[x]]

ApplyRecognition(l, r, approvals) ==
  LET o == Operation[r.op]
      v == o.version
      k == Kid[v]
      states ==
        CASE o.decision = "recognize" ->
               [w \in Versions |-> IF w = v THEN "effective"
                                   ELSE IF w = Current(l, k) THEN "superseded"
                                   ELSE l.states[w]]
          [] o.decision = "retire" -> [l.states EXCEPT ![v] = "retired"]
          [] o.decision = "reject" -> l.states
      linked == IF o.decision = "reject" THEN {} ELSE Linked(l, k)
  IN  [l EXCEPT !.states = states, !.captured = Capture(l, k, linked, approvals)]

ApplyImport(l, r, approvals) ==
  LET o == Operation[r.op]
      v == o.version
  IN  CASE o.kind = "recognition" -> ApplyRecognition(l, r, approvals)
        [] o.kind = "applicability" ->
             [l EXCEPT !.applicability[<<o.target, v>>] = r.op,
                       !.captured = Capture(l, Kid[v], {o.target}, approvals)]
        [] o.kind = "disposition" ->
             [l EXCEPT !.dispositions = @ \cup
                {[op |-> r.op, impact |-> r.subject, decision |-> o.decision, use |-> v]}]

ApplyRecord(l, r, approvals) ==
  LET o == Operation[r.op]
  IN  CASE o.kind = "challenge" ->
             [l EXCEPT !.challenges = @ \cup
                         {[op |-> r.op, change |-> o.change, version |-> r.subject.version]},
                       !.captured = Capture(l, Kid[r.subject.version], {o.change}, approvals)]
        [] o.kind = "execution" ->
             [l EXCEPT !.executions[r.subject.disposition] =
                [outcome |-> o.outcome, subject |-> r.subject.code]]

\* What the event does to the ledger, in a replay as in a preparation
Apply(l, r, approvals) ==
  LET recorded == [l EXCEPT !.operations = @ \cup {r.op}]
  IN  CASE Is(r.op, "knowledge_proposed") ->
             [recorded EXCEPT !.states[Operation[r.op].version] = "candidate"]
        [] Is(r.op, "knowledge_imported") -> ApplyImport(recorded, r, approvals)
        [] Is(r.op, "knowledge_delivered") ->
             [recorded EXCEPT !.deliveries = @ \cup {r.subject}]
        [] Is(r.op, "knowledge_recorded") -> ApplyRecord(recorded, r, approvals)
-----------------------------------------------------------------------------
(* Preparation and validation.                                             *)

\* What a delivery of the change covers now
Delivery(op) ==
  LET c == Operation[op].change
      ctx == Context(change[c])
      basis == Basis(ledger, c, ctx)
  IN  [op |-> op, change |-> c, constraints |-> basis.constraints, basis |-> basis]

CurrentImpacts(c) == Impacts(ledger, c, Context(change[c]))

\* The record is of the code that is ready to merge, verified and reviewed
OfReadyCode(r) ==
  LET c == Operation[r.op].change
  IN  /\ Passed(change[c]) /\ change[c].subject # None
      /\ change[c].verification.subject = change[c].subject
      /\ change[c].phase = "ready"
      /\ r.subject.code = change[c].subject

\* A bug: a reapproval can be carried out under the approval it replaces
ExecutionUnderAnyApproval(r) == OfReadyCode(r)

\* _validate_execution, of a judgment of an impact that still stands
ExecutionIsVerified(r) ==
  LET c == Operation[r.op].change
      d == CHOOSE e \in ledger.dispositions : e.op = r.subject.disposition
  IN  /\ OfReadyCode(r)
      /\ d.impact \in CurrentImpacts(c)
      /\ d.decision = "reapprove" => change[c].approval # d.impact.approval

SubjectIsCurrent(r) ==
  LET o == Operation[r.op]
  IN  /\ Is(r.op, "knowledge_delivered") => r.subject = Delivery(r.op)
      /\ IsConclusion(r.op, "disposition") =>
           /\ r.subject \in CurrentImpacts(r.subject.change)
           /\ o.version # None => Kid[o.version] = r.subject.kid
      /\ IsRecord(r.op, "execution") /\ o.outcome = "verified" => ExecutionIsVerified(r)

Approvals == [c \in Changes |-> change[c].approval]

\* prepare, of an operation the log does not hold: the revision, then the rules
Prepares(r) ==
  /\ r.expected = Revision
  /\ Applies(ledger, r)
  /\ SubjectIsCurrent(r)

Payload(r) == [request |-> r, approvals |-> Approvals]

ReplaysOperation(r) == r.op \in ledger.operations

\* prepare, of an operation the log holds: the same request returns its result
Replays(r) == \E i \in DOMAIN log : log[i] = r

MayGovern(op) ==
  \/ Operation[op].type \notin {"knowledge_proposed", "knowledge_imported"}
  \/ LET c == change[Operation[op].change] IN c.approval # None /\ c.phase = "implementing"

ValidatesAgainstRules(p) == MayGovern(p.request.op) /\ Applies(ledger, p.request)

\* validate_event under the lock: prepared once more, to the same payload
Validates(p) ==
  /\ MayGovern(p.request.op)
  /\ Prepares(p.request)
  /\ Payload(p.request) = p
-----------------------------------------------------------------------------
(* The commands.                                                           *)

EmptyLedger(states) ==
  [states |-> states,
   applicability |-> [x \in Changes \X Versions |-> None],
   deliveries |-> {}, challenges |-> {}, dispositions |-> {},
   executions |-> [op \in Ops |-> [outcome |-> "none", subject |-> None]],
   captured |-> [x \in {} |-> 0], operations |-> {}]

\* What the log before that of the model leaves behind
EarlierDelivery(l, c) ==
  LET ctx == Context(InitialChange[c])
  IN  [op |-> None, change |-> c, constraints |-> Constraints(l, c, ctx),
       basis |-> Basis(l, c, ctx)]
EarlierLedger(a) ==
  LET l == EmptyLedger(a.states)
  IN  [l EXCEPT !.deliveries = {EarlierDelivery(l, c) : c \in a.delivered}]

Init == /\ agenda \in Agendas
        /\ log = << >>
        /\ ledger = EarlierLedger(agenda)
        /\ change = InitialChange
        /\ drafts = [p \in Callers |-> None]
        /\ prepared = [p \in Callers |-> None]
        /\ answered = {}

\* What the author of a request can read in the log and put in the record file
Subjects(op) ==
  LET o == Operation[op]
  IN  CASE IsConclusion(op, "disposition") -> CurrentImpacts(o.target)
        [] Is(op, "knowledge_delivered") -> {Delivery(op)}
        [] IsRecord(op, "challenge") ->
             UNION {{[delivery |-> d.op, version |-> v] : v \in d.constraints} :
                    d \in {e \in ledger.deliveries : e.change = o.change}}
        [] IsRecord(op, "execution") ->
             {[disposition |-> d.op, code |-> change[o.change].subject] :
                d \in {e \in ledger.dispositions : e.impact.change = o.change}}
        [] OTHER -> {None}

\* "knowledge show" and an editor: a request bound to the revision shown
Draft(p, op) ==
  /\ p \in agenda.callers /\ op \in agenda.ops
  /\ prepared[p] = None
  /\ op \notin ledger.operations
  /\ \E subject \in Subjects(op) :
       /\ drafts[p] # Request(op, subject)
       /\ drafts' = [drafts EXCEPT ![p] = Request(op, subject)]
  /\ answered' = answered \ {p}
  /\ UNCHANGED <<agenda, log, ledger, change, prepared>>

\* _submit, outside the lock: the log already holds the operation
SubmitAgain(p) ==
  /\ prepared[p] = None
  /\ drafts[p] # None
  /\ Replays(drafts[p])
  /\ answered' = answered \cup {p}
  /\ UNCHANGED <<agenda, log, ledger, change, drafts, prepared>>

\* _submit, outside the lock: prepared, not yet handed to the writer
Submit(p) ==
  /\ prepared[p] = None
  /\ drafts[p] # None
  /\ Prepares(drafts[p])
  /\ prepared' = [prepared EXCEPT ![p] = Payload(drafts[p])]
  /\ UNCHANGED <<agenda, log, ledger, change, drafts, answered>>

\* EventWriter.emit under the lock
Emit(p) ==
  /\ prepared[p] # None
  /\ Len(log) < agenda.length
  /\ Validates(prepared[p])
  /\ LET r == prepared[p].request
     IN  /\ log' = Append(log, r)
         /\ ledger' = Apply(ledger, r, prepared[p].approvals)
         /\ \/ answered' = answered \cup {p}  \* the command returns ...
            \/ answered' = answered            \* ... or dies before it does
  /\ prepared' = [prepared EXCEPT ![p] = None]
  /\ UNCHANGED <<agenda, change, drafts>>

\* The writer refuses the event, or the command dies before the append
Refuse(p) ==
  /\ prepared[p] # None
  /\ prepared' = [prepared EXCEPT ![p] = None]
  /\ UNCHANGED <<agenda, log, ledger, change, drafts, answered>>
-----------------------------------------------------------------------------
(* The lifecycle of a steered change, as far as knowledge reads it.        *)

Lifecycle(c, type, st) ==
  /\ c \in agenda.steered /\ type \in agenda.events
  /\ Len(log) < agenda.length
  /\ log' = Append(log, None)
  /\ change' = [change EXCEPT ![c] = st]
  /\ UNCHANGED <<agenda, ledger, drafts, prepared, answered>>

PlanRedeclared(c) ==
  /\ change[c].phase \notin Terminal
  /\ Lifecycle(c, "plan_redeclared",
       [change[c] EXCEPT !.phase = "declared", !.approval = None,
                         !.subject = None, !.verification = None])

\* Only the submission of a plan names a scope, a revision does not
PlanReady(c, scope) ==
  /\ change[c].phase = "declared"
  /\ Lifecycle(c, "plan_ready", [change[c] EXCEPT !.phase = "awaiting", !.scope = scope])

PlanRejected(c) ==
  /\ change[c].phase = "awaiting"
  /\ Lifecycle(c, "plan_rejected", [change[c] EXCEPT !.phase = "declared"])

\* A plan, or a revision of one being carried out.  The approval is named by its
\* place in the log; code and verification are gathered anew, while the scope and
\* the coverage stay what they were.
PlanApproved(c) ==
  /\ change[c].phase \in {"awaiting"} \cup Working
  /\ Lifecycle(c, "plan_approved",
       [change[c] EXCEPT !.phase = IF @ = "awaiting" THEN "approved" ELSE "implementing",
                         !.approval = Revision + 1,
                         !.subject = None, !.verification = None])

ImplementationStarted(c) ==
  /\ change[c].phase = "approved"
  /\ change[c].approval # None
  /\ PrerequisiteMet(ledger, c, change[c], "implementation_started")
  /\ Lifecycle(c, "implementation_started",
       [change[c] EXCEPT !.phase = "implementing", !.subject = None, !.verification = None])

\* The coverage is replaced, in whatever state the change is
ImplementationRecorded(c, coverage) ==
  /\ change[c].phase \notin Terminal
  /\ change[c].approval # None
  /\ Lifecycle(c, "implementation_recorded", [change[c] EXCEPT !.coverage = coverage])

\* make_code_subject: the subject carries the basis of the view it is made under
CodeSubject(c, code) ==
  LET ctx == Context(change[c])
  IN  [code |-> code, approval |-> change[c].approval,
       basis |-> Basis(ledger, c, [ctx EXCEPT !.paths = @ \cup Manifest[code]])]

\* "verify", of the code the repository holds
VerificationRecorded(c, code, outcome) ==
  /\ change[c].phase \notin Terminal
  /\ change[c].approval # None
  /\ Lifecycle(c, IF outcome = "passed" THEN "verification_passed" ELSE "verification_failed",
       [change[c] EXCEPT !.verification =
                           [subject |-> CodeSubject(c, code), outcome |-> outcome]])

\* A coverage comes with the assessment that a completion needs too
ImplementationComplete(c, code) ==
  /\ change[c].phase = "implementing"
  /\ change[c].approval # None
  /\ change[c].coverage # {} /\ Manifest[code] \subseteq change[c].coverage
  /\ Passed(change[c]) /\ change[c].verification.subject = CodeSubject(c, code)
  /\ PrerequisiteMet(ledger, c, change[c], "implementation_complete")
  /\ Lifecycle(c, "implementation_complete",
       [change[c] EXCEPT !.phase = "review", !.subject = CodeSubject(c, code)])

\* The verdict is on the code that was frozen, and on what it would be frozen as now
Reviewed(c) ==
  /\ change[c].phase \in {"review", "rejected"}
  /\ change[c].approval # None
  /\ change[c].subject # None
  /\ change[c].subject = CodeSubject(c, change[c].subject.code)

CodeReviewPassed(c) ==
  /\ Reviewed(c)
  /\ PrerequisiteMet(ledger, c, change[c], "code_review_passed")
  /\ Lifecycle(c, "code_review_passed", [change[c] EXCEPT !.phase = "ready"])

CodeReviewFailed(c) ==
  /\ Reviewed(c)
  /\ Lifecycle(c, "code_review_failed", [change[c] EXCEPT !.phase = "rejected"])

Reopen(c) ==
  /\ change[c].phase \in {"review", "rejected", "ready"}
  /\ change[c].approval # None
  /\ Lifecycle(c, "implementation_invalidated",
       [change[c] EXCEPT !.phase = "implementing", !.subject = None, !.verification = None])

Merged(c) ==
  /\ change[c].phase = "ready"
  /\ change[c].approval # None
  /\ change[c].subject # None /\ Passed(change[c])
  /\ PrerequisiteMet(ledger, c, change[c], "merged")
  /\ Lifecycle(c, "merged", [change[c] EXCEPT !.phase = "merged"])

IntentAbandoned(c) ==
  /\ change[c].phase \notin Terminal
  /\ Lifecycle(c, "intent_abandoned", [change[c] EXCEPT !.phase = "abandoned"])

\* retain_checkpoint, called by the export of an attestation
Checkpointed(c) ==
  /\ change[c].phase \notin Terminal
  /\ ~Blocked(ledger, c, change[c], {})
  /\ Lifecycle(c, "knowledge_checkpointed", change[c])

\* A bug: what was open when the checkpoint was written is not asked again.
CheckpointOfDelivered(c) ==
  LET st == change[c]
  IN  st.subject # None /\ ExactlyDelivered(ledger, c, st)

\* validate_checkpoint of a checkpoint exported now
CheckpointAccepted(c) ==
  LET st == change[c]
      impacts == CurrentImpacts(c)
  IN  /\ ~Blocked(ledger, c, st, {})
      /\ ExactlyDelivered(ledger, c, st)
      /\ st.subject # None
      /\ st.subject.basis = Basis(ledger, c, Context(st))
      /\ \A i \in impacts :
           LET d == Disposition(ledger, i)
           IN  d.decision \in {"adjust", "reapprove"} =>
                 /\ ledger.executions[d.op].outcome = "verified"
                 /\ ledger.executions[d.op].subject = st.subject
                 /\ Passed(st) /\ st.phase = "ready"
                 /\ d.decision = "reapprove" => st.approval # i.approval

\* A step of a change
Step(c) ==
  \/ PlanRedeclared(c)
  \/ \E scope \in PathSets : PlanReady(c, scope)
  \/ PlanRejected(c)
  \/ PlanApproved(c)
  \/ ImplementationStarted(c)
  \/ \E coverage \in PathSets : ImplementationRecorded(c, coverage)
  \/ \E code \in Codes, outcome \in {"passed", "failed"} :
       VerificationRecorded(c, code, outcome)
  \/ \E code \in Codes : ImplementationComplete(c, code)
  \/ CodeReviewPassed(c)
  \/ CodeReviewFailed(c)
  \/ Reopen(c)
  \/ Merged(c)
  \/ IntentAbandoned(c)
  \/ Checkpointed(c)

Next == \/ \E p \in Callers, op \in Ops : Draft(p, op)
        \/ \E p \in Callers : Submit(p) \/ SubmitAgain(p) \/ Emit(p) \/ Refuse(p)
        \/ \E c \in Changes : Step(c)

Spec == Init /\ [][Next]_vars
-----------------------------------------------------------------------------
(* Properties                                                              *)

TypeOK ==
  /\ ledger.states \in [Versions -> VersionStates]
  /\ ledger.operations \subseteq Ops
  /\ \A d \in ledger.deliveries : d.op \in Ops \cup {None} /\ d.constraints \subseteq Versions
  /\ \A c \in Changes : /\ change[c].phase \in Phases
                          /\ change[c].approval \in Nat \cup {None}
                          /\ Context(change[c]).paths \subseteq Paths
  /\ answered \subseteq Callers
  /\ Len(log) <= agenda.length

Logged == {i \in DOMAIN log : log[i] # None}

\* Every knowledge event is bound to the prefix of the log it was prepared on
\* and no operation is in the log twice, or load_ledger calls the log corrupt
LedgerReplays ==
  \A i \in Logged :
    /\ log[i].expected = i - 1
    /\ \A j \in Logged : log[j].op = log[i].op => j = i

\* "Matching operation IDs return the original receipt": a command that
\* reported success, first or again, has exactly its request in the log
AnsweredIsRecorded == \A p \in answered : \E i \in Logged : log[i] = drafts[p]

\* An identity has one version in force, and a recognised version took the
\* place of the very version it was written to replace
OneVersionInForce == InForce(ledger.states)

Judged(c, v) ==
  \E d \in ledger.dispositions : d.impact.change = c /\ d.impact.kid = Kid[v]

\* A judgment that asks for work is carried out by the code that is ready, and
\* one that asks for a reapproval under another approval than the trigger met
CarriedOut(d, c) ==
  d.decision \in {"adjust", "reapprove"} =>
    /\ ledger.executions[d.op].outcome = "verified"
    /\ ledger.executions[d.op].subject = change[c].subject
    /\ d.decision = "reapprove" => change[c].approval # d.impact.approval

\* Each constraint in force that applies to the change was delivered to it or
\* judged, each challenge was answered, and each delivered version that went out
\* of force was judged against what replaced it
Honoured(c) ==
  /\ \A v \in Matching(ledger, c, Context(change[c]), "matched") :
       v \in Supplied(ledger, c) \/ Judged(c, v)
  /\ \A h \in Challenges(ledger, c) :
       \E d \in ledger.dispositions : d.impact.challenge = h.op /\ CarriedOut(d, c)
  /\ \A v \in Supplied(ledger, c) \ Effective(ledger) :
       \E d \in ledger.dispositions :
         /\ d.impact.change = c /\ d.impact.old = v
         /\ d.impact.new = Current(ledger, Kid[v])
         /\ CarriedOut(d, c)

\* A change is merged only when its knowledge is honoured (validate_event)
MergeHonoursKnowledge ==
  [][\A c \in Changes :
       change[c].phase # "merged" /\ change'[c].phase = "merged" => Honoured(c)]_vars

\* The checkpoint that CI validates from an attestation alone, by rules that
\* restate the writer's, is accepted only where knowledge is honoured
GateHonoursKnowledge == \A c \in Changes : CheckpointAccepted(c) => Honoured(c)

\* "A disposition cannot invalidate itself", and reapproval preserves the
\* context of the trigger: while the versions of an identity, their applicability
\* and the coverage stand, an impact of a challenge, or of a version that went out
\* of force after it was delivered, stays the one disposed of.  (A version that
\* was out of force already, which "continue" may choose, had no trigger.)
SameKnowledge(c, k) ==
  /\ \A v \in Versions : Kid[v] = k =>
       /\ ledger'.states[v] = ledger.states[v]
       /\ ledger'.applicability[<<c, v>>] = ledger.applicability[<<c, v>>]
  /\ {h \in Challenges(ledger', c) : Kid[h.version] = k}
       = {h \in Challenges(ledger, c) : Kid[h.version] = k}
  /\ Context(change'[c]).paths = Context(change[c]).paths

DeliveredInForce(c, v) ==
  \E d \in ledger.deliveries :
    d.change = c /\ v \in d.constraints /\ v \in DOMAIN d.basis.evaluated

Triggered(c, i) ==
  i.challenge # None \/ (i.old \notin Effective(ledger) /\ DeliveredInForce(c, i.old))

ImpactsStand ==
  [][\A c \in Changes : \A i \in CurrentImpacts(c) :
       SameKnowledge(c, i.kid) /\ Triggered(c, i) =>
         i \in Impacts(ledger', c, Context(change'[c]))]_vars
=============================================================================
