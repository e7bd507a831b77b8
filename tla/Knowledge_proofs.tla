-------------------------- MODULE Knowledge_proofs --------------------------
(***************************************************************************)
(* Theorems about the knowledge ledger, for every set of versions,         *)
(* operations, changes and callers.                                        *)
(***************************************************************************)
EXTENDS Knowledge, TLAPS

Entries == {log[i] : i \in DOMAIN log}

\* The log is a sequence, and a knowledge event in it an operation the ledger
\* has applied.
LogApplied ==
  /\ log \in Seq(Entries)
  /\ "operations" \in DOMAIN ledger
  /\ \A i \in Logged : log[i].op \in ledger.operations

\* A command holds what its record file asks for.
Faithful ==
  /\ drafts = [p \in Callers |-> drafts[p]]
  /\ prepared = [p \in Callers |-> prepared[p]]
  /\ \A p \in Callers :
       /\ drafts[p] # None => drafts[p].op \in Ops
       /\ prepared[p] # None => /\ drafts[p] # None
                                /\ prepared[p].request = drafts[p]
  /\ answered \subseteq Callers

Versioned ==
  /\ "states" \in DOMAIN ledger
  /\ ledger.states \in [Versions -> VersionStates]

LedgerInv ==
  LogApplied /\ Faithful /\ Versioned
    /\ LedgerReplays /\ AnsweredIsRecorded /\ OneVersionInForce

-----------------------------------------------------------------------------
(* The log.                                                                *)

\* What an append leaves and adds.
LEMMA Appended ==
  ASSUME log \in Seq(Entries), NEW e, log' = Append(log, e)
  PROVE  /\ DOMAIN log = 1 .. Len(log) /\ Len(log) \in Nat
         /\ DOMAIN log' = 1 .. Len(log) + 1
         /\ Len(log') = Len(log) + 1
         /\ \A i \in 1 .. Len(log) : log'[i] = log[i]
         /\ log'[Len(log) + 1] = e
         /\ log' \in Seq(Entries')
  <1> DEFINE n == Len(log)
  <1>1. n \in Nat /\ DOMAIN log = 1 .. n
    OBVIOUS
  <1>2. log \in Seq(Entries \cup {e})
    OBVIOUS
  <1>3. /\ DOMAIN log' = 1 .. n + 1
        /\ Len(log') = n + 1
        /\ \A i \in 1 .. n : log'[i] = log[i]
        /\ log'[n + 1] = e
        /\ log' \in Seq(Entries \cup {e})
    BY <1>2
  <1>4. \A i \in 1 .. Len(log') : log'[i] \in Entries'
    BY <1>3 DEF Entries
  <1>5. log' \in Seq(Entries')
    BY <1>3, <1>4
  <1> QED
    BY <1>1, <1>3, <1>5

-----------------------------------------------------------------------------
(* What an event does to the ledger.                                       *)

\* Whatever it is, its operation is applied; no other is.
LEMMA ApplyOperations ==
  ASSUME NEW l, NEW r, NEW ap, "operations" \in DOMAIN l, r.op \in Ops
  PROVE  /\ "operations" \in DOMAIN Apply(l, r, ap)
         /\ Apply(l, r, ap).operations = l.operations \cup {r.op}
  <1> DEFINE recorded == [l EXCEPT !.operations = @ \cup {r.op}]
  <1>0. /\ "operations" \in DOMAIN recorded
        /\ recorded.operations = l.operations \cup {r.op}
    OBVIOUS
  <1> HIDE DEF recorded
  <1>1. CASE Is(r.op, "knowledge_proposed")
    <2>1. Apply(l, r, ap)
            = [recorded EXCEPT !.states[Operation[r.op].version] = "candidate"]
      BY <1>1 DEF Apply, Is, recorded
    <2> QED
      BY <1>0, <2>1
  <1>2. CASE Is(r.op, "knowledge_imported")
    <2>1. Apply(l, r, ap) = ApplyImport(recorded, r, ap)
      BY <1>2 DEF Apply, Is, recorded
    <2>2. \E states, captured :
            Operation[r.op].kind = "recognition" =>
              ApplyImport(recorded, r, ap)
                = [recorded EXCEPT !.states = states, !.captured = captured]
      BY DEF ApplyImport, ApplyRecognition
    <2>3. CASE Operation[r.op].kind = "recognition"
      BY <1>0, <2>1, <2>2, <2>3
    <2>4. CASE Operation[r.op].kind \in {"applicability", "disposition"}
      BY <1>0, <2>1, <2>4 DEF ApplyImport
    <2> QED
      BY <1>2, <2>3, <2>4, OperationAssumption DEF Is
  <1>3. CASE Is(r.op, "knowledge_delivered")
    <2>1. Apply(l, r, ap) = [recorded EXCEPT !.deliveries = @ \cup {r.subject}]
      BY <1>3 DEF Apply, Is, recorded
    <2> QED
      BY <1>0, <2>1
  <1>4. CASE Is(r.op, "knowledge_recorded")
    <2>1. Apply(l, r, ap) = ApplyRecord(recorded, r, ap)
      BY <1>4 DEF Apply, Is, recorded
    <2> QED
      BY <1>0, <1>4, <2>1, OperationAssumption DEF ApplyRecord, Is
  <1> QED
    BY <1>1, <1>2, <1>3, <1>4, OperationAssumption DEF Is

\* Only a proposal and a conclusion of recognition change a version's state.
Decides(op, decision) ==
  /\ Operation[op].type = "knowledge_imported"
  /\ Operation[op].kind = "recognition"
  /\ Operation[op].decision = decision

NewStates(l, r) ==
  LET v == Operation[r.op].version
  IN  CASE Is(r.op, "knowledge_proposed") -> [l.states EXCEPT ![v] = "candidate"]
        [] Decides(r.op, "recognize") ->
             [w \in Versions |-> IF w = v THEN "effective"
                                 ELSE IF w = Current(l, Kid[v]) THEN "superseded"
                                 ELSE l.states[w]]
        [] Decides(r.op, "retire") -> [l.states EXCEPT ![v] = "retired"]
        [] OTHER -> l.states

LEMMA ApplyStates ==
  ASSUME NEW l, NEW r, NEW ap, "states" \in DOMAIN l, r.op \in Ops
  PROVE  /\ "states" \in DOMAIN Apply(l, r, ap)
         /\ Apply(l, r, ap).states = NewStates(l, r)
  <1> DEFINE recorded == [l EXCEPT !.operations = @ \cup {r.op}]
             o == Operation[r.op]
  <1>0. "states" \in DOMAIN recorded /\ recorded.states = l.states
    OBVIOUS
  <1>c. \A k : Current(recorded, k) = Current(l, k)
    BY <1>0 DEF Current
  <1> HIDE DEF recorded
  <1>1. CASE Is(r.op, "knowledge_proposed")
    <2>1. Apply(l, r, ap) = [recorded EXCEPT !.states[o.version] = "candidate"]
      BY <1>1 DEF Apply, Is, recorded
    <2> QED
      BY <1>0, <1>1, <2>1 DEF NewStates, Is, Decides
  <1>2. CASE Is(r.op, "knowledge_imported")
    <2>1. Apply(l, r, ap) = ApplyImport(recorded, r, ap)
      BY <1>2 DEF Apply, Is, recorded
    <2>2. CASE o.kind = "recognition"
      <3>1. Apply(l, r, ap) = ApplyRecognition(recorded, r, ap)
        BY <2>1, <2>2 DEF ApplyImport
      <3>2. o.decision \in {"recognize", "reject", "retire"}
        BY <1>2, <2>2, OperationAssumption DEF Is
      <3>3. CASE o.decision = "recognize"
        BY <1>0, <1>c, <1>2, <2>2, <3>1, <3>3 DEF ApplyRecognition, NewStates, Is, Decides
      <3>4. CASE o.decision = "reject"
        BY <1>0, <1>2, <2>2, <3>1, <3>4 DEF ApplyRecognition, NewStates, Is, Decides
      <3>5. CASE o.decision = "retire"
        BY <1>0, <1>2, <2>2, <3>1, <3>5 DEF ApplyRecognition, NewStates, Is, Decides
      <3> QED
        BY <3>2, <3>3, <3>4, <3>5
    <2>3. CASE o.kind \in {"applicability", "disposition"}
      <3>1. NewStates(l, r) = l.states
        BY <1>2, <2>3 DEF NewStates, Is, Decides
      <3> QED
        BY <1>0, <2>1, <2>3, <3>1 DEF ApplyImport
    <2> QED
      BY <1>2, <2>2, <2>3, OperationAssumption DEF Is
  <1>3. CASE Is(r.op, "knowledge_delivered")
    <2>1. Apply(l, r, ap) = [recorded EXCEPT !.deliveries = @ \cup {r.subject}]
      BY <1>3 DEF Apply, Is, recorded
    <2> QED
      BY <1>0, <1>3, <2>1 DEF NewStates, Is, Decides
  <1>4. CASE Is(r.op, "knowledge_recorded")
    <2>1. Apply(l, r, ap) = ApplyRecord(recorded, r, ap)
      BY <1>4 DEF Apply, Is, recorded
    <2>2. NewStates(l, r) = l.states
      BY <1>4 DEF NewStates, Is, Decides
    <2> QED
      BY <1>0, <1>4, <2>1, <2>2, OperationAssumption DEF ApplyRecord, Is
  <1> QED
    BY <1>1, <1>2, <1>3, <1>4, OperationAssumption DEF Is

Fields == {"states", "applicability", "deliveries", "challenges", "dispositions",
           "executions", "captured", "operations"}

\* What the other fields become.
NewCaptured(l, r, ap) ==
  LET o == Operation[r.op]
      k == Kid[o.version]
  IN  CASE IsConclusion(r.op, "recognition") ->
             Capture(l, k, IF o.decision = "reject" THEN {} ELSE Linked(l, k), ap)
        [] IsConclusion(r.op, "applicability") -> Capture(l, k, {o.target}, ap)
        [] IsRecord(r.op, "challenge") ->
             Capture(l, Kid[r.subject.version], {o.change}, ap)
        [] OTHER -> l.captured

Applied(l, r, ap, a) ==
  LET o == Operation[r.op] IN
  /\ DOMAIN a = Fields
  /\ a.applicability = IF IsConclusion(r.op, "applicability")
                       THEN [l.applicability EXCEPT ![<<o.target, o.version>>] = r.op]
                       ELSE l.applicability
  /\ a.deliveries = IF Is(r.op, "knowledge_delivered")
                    THEN l.deliveries \cup {r.subject} ELSE l.deliveries
  /\ a.challenges = IF IsRecord(r.op, "challenge")
                    THEN l.challenges \cup
                           {[op |-> r.op, change |-> o.change, version |-> r.subject.version]}
                    ELSE l.challenges
  /\ a.dispositions = IF IsConclusion(r.op, "disposition")
                      THEN l.dispositions \cup
                             {[op |-> r.op, impact |-> r.subject, decision |-> o.decision,
                               use |-> o.version]}
                      ELSE l.dispositions
  /\ a.executions = IF IsRecord(r.op, "execution")
                    THEN [l.executions EXCEPT ![r.subject.disposition] =
                            [outcome |-> o.outcome, subject |-> r.subject.code]]
                    ELSE l.executions
  /\ a.captured = NewCaptured(l, r, ap)

LEMMA ApplyFields ==
  ASSUME NEW l, DOMAIN l = Fields, NEW r, r.op \in Ops, NEW ap
  PROVE  Applied(l, r, ap, Apply(l, r, ap))
  <1> DEFINE recorded == [l EXCEPT !.operations = @ \cup {r.op}]
             o == Operation[r.op]
             k == Kid[o.version]
             a == Apply(l, r, ap)
  <1>0. /\ DOMAIN recorded = Fields
        /\ recorded.states = l.states /\ recorded.applicability = l.applicability
        /\ recorded.deliveries = l.deliveries /\ recorded.challenges = l.challenges
        /\ recorded.dispositions = l.dispositions /\ recorded.captured = l.captured
        /\ recorded.executions = l.executions
    BY DEF Fields
  <1>c. \A x, changes : /\ Linked(recorded, x) = Linked(l, x)
                        /\ Capture(recorded, x, changes, ap) = Capture(l, x, changes, ap)
    BY <1>0 DEF Linked, Capture
  <1> HIDE DEF recorded
  <1>1. CASE Is(r.op, "knowledge_proposed")
    <2>1. a = [recorded EXCEPT !.states[o.version] = "candidate"]
      BY <1>1 DEF Apply, Is, recorded
    <2> HIDE DEF a
    <2>2. /\ ~IsRecord(r.op, "execution")
          /\ ~IsConclusion(r.op, "recognition") /\ ~IsConclusion(r.op, "applicability")
          /\ ~IsConclusion(r.op, "disposition") /\ ~IsRecord(r.op, "challenge")
          /\ ~Is(r.op, "knowledge_delivered")
      BY <1>1 DEF IsConclusion, IsRecord, Is
    <2> QED
      BY <1>0, <2>1, <2>2 DEF Applied, NewCaptured, Fields, a
  <1>2. CASE IsConclusion(r.op, "recognition")
    <2>1. PICK states :
            a = [recorded EXCEPT !.states = states,
                   !.captured = Capture(recorded, k, IF o.decision = "reject" THEN {}
                                                     ELSE Linked(recorded, k), ap)]
      BY <1>2 DEF Apply, ApplyImport, ApplyRecognition, Is, IsConclusion, recorded
    <2> HIDE DEF a
    <2>2. /\ ~IsRecord(r.op, "execution")
          /\ ~IsConclusion(r.op, "applicability") /\ ~IsConclusion(r.op, "disposition")
          /\ ~IsRecord(r.op, "challenge") /\ ~Is(r.op, "knowledge_delivered")
      BY <1>2 DEF IsConclusion, IsRecord, Is
    <2>3. a.captured = Capture(l, k, IF o.decision = "reject" THEN {} ELSE Linked(l, k), ap)
      BY <1>0, <1>c, <2>1 DEF Fields
    <2> QED
      BY <1>0, <1>2, <2>1, <2>2, <2>3 DEF Applied, NewCaptured, Fields, a
  <1>3. CASE IsConclusion(r.op, "applicability")
    <2>1. a = [recorded EXCEPT !.applicability[<<o.target, o.version>>] = r.op,
                               !.captured = Capture(recorded, k, {o.target}, ap)]
      BY <1>3 DEF Apply, ApplyImport, Is, IsConclusion, recorded
    <2> HIDE DEF a
    <2>2. /\ ~IsRecord(r.op, "execution")
          /\ ~IsConclusion(r.op, "recognition") /\ ~IsConclusion(r.op, "disposition")
          /\ ~IsRecord(r.op, "challenge") /\ ~Is(r.op, "knowledge_delivered")
      BY <1>3 DEF IsConclusion, IsRecord, Is
    <2>3. a.captured = Capture(l, k, {o.target}, ap)
      BY <1>0, <1>c, <2>1 DEF Fields
    <2> QED
      BY <1>0, <1>3, <2>1, <2>2, <2>3 DEF Applied, NewCaptured, Fields, a
  <1>4. CASE IsConclusion(r.op, "disposition")
    <2>1. a = [recorded EXCEPT !.dispositions = @ \cup
                 {[op |-> r.op, impact |-> r.subject, decision |-> o.decision,
                   use |-> o.version]}]
      BY <1>4 DEF Apply, ApplyImport, Is, IsConclusion, recorded
    <2> HIDE DEF a
    <2>2. /\ ~IsRecord(r.op, "execution")
          /\ ~IsConclusion(r.op, "recognition") /\ ~IsConclusion(r.op, "applicability")
          /\ ~IsRecord(r.op, "challenge") /\ ~Is(r.op, "knowledge_delivered")
      BY <1>4 DEF IsConclusion, IsRecord, Is
    <2> QED
      BY <1>0, <1>4, <2>1, <2>2 DEF Applied, NewCaptured, Fields, a
  <1>5. CASE Is(r.op, "knowledge_delivered")
    <2>1. a = [recorded EXCEPT !.deliveries = @ \cup {r.subject}]
      BY <1>5 DEF Apply, Is, recorded
    <2> HIDE DEF a
    <2>2. /\ ~IsRecord(r.op, "execution")
          /\ ~IsConclusion(r.op, "recognition") /\ ~IsConclusion(r.op, "applicability")
          /\ ~IsConclusion(r.op, "disposition") /\ ~IsRecord(r.op, "challenge")
      BY <1>5 DEF IsConclusion, IsRecord, Is
    <2> QED
      BY <1>0, <1>5, <2>1, <2>2 DEF Applied, NewCaptured, Fields, a
  <1>6. CASE IsRecord(r.op, "challenge")
    <2>1. a = [recorded EXCEPT !.challenges = @ \cup
                 {[op |-> r.op, change |-> o.change, version |-> r.subject.version]},
                 !.captured = Capture(recorded, Kid[r.subject.version], {o.change}, ap)]
      BY <1>6 DEF Apply, ApplyRecord, Is, IsRecord, recorded
    <2> HIDE DEF a
    <2>2. /\ ~IsRecord(r.op, "execution")
          /\ ~IsConclusion(r.op, "recognition") /\ ~IsConclusion(r.op, "applicability")
          /\ ~IsConclusion(r.op, "disposition") /\ ~Is(r.op, "knowledge_delivered")
      BY <1>6 DEF IsConclusion, IsRecord, Is
    <2>3. a.captured = Capture(l, Kid[r.subject.version], {o.change}, ap)
      BY <1>0, <1>c, <2>1 DEF Fields
    <2> QED
      BY <1>0, <1>6, <2>1, <2>2, <2>3 DEF Applied, NewCaptured, Fields, a
  <1>7. CASE IsRecord(r.op, "execution")
    <2>1. a = [recorded EXCEPT !.executions[r.subject.disposition] =
                 [outcome |-> o.outcome, subject |-> r.subject.code]]
      BY <1>7 DEF Apply, ApplyRecord, Is, IsRecord, recorded
    <2> HIDE DEF a
    <2>2. /\ ~IsConclusion(r.op, "recognition") /\ ~IsConclusion(r.op, "applicability")
          /\ ~IsConclusion(r.op, "disposition") /\ ~IsRecord(r.op, "challenge")
          /\ ~Is(r.op, "knowledge_delivered")
      BY <1>7 DEF IsConclusion, IsRecord, Is
    <2> QED
      BY <1>0, <1>7, <2>1, <2>2 DEF Applied, NewCaptured, Fields, a
  <1> QED
    BY <1>1, <1>2, <1>3, <1>4, <1>5, <1>6, <1>7, OperationAssumption
    DEF Is, IsConclusion, IsRecord

\* Current is the one version in force of its identity.
LEMMA CurrentIsTheOne ==
  ASSUME NEW l, InForce(l.states), NEW k
  PROVE  /\ Current(l, k) # None =>
              /\ Current(l, k) \in Versions
              /\ Kid[Current(l, k)] = k
              /\ l.states[Current(l, k)] = "effective"
         /\ \A w \in Versions :
              Kid[w] = k /\ l.states[w] = "effective" => w = Current(l, k)
  <1> DEFINE vs == {v \in Versions : l.states[v] = "effective" /\ Kid[v] = k}
  <1>1. CASE vs = {}
    BY <1>1 DEF Current
  <1>2. CASE vs # {}
    <2>1. Current(l, k) \in vs
      BY <1>2 DEF Current
    <2>2. \A v, w \in vs : v = w
      BY DEF InForce
    <2> QED
      BY <2>1, <2>2
  <1> QED
    BY <1>1, <1>2

\* An event that applies leaves one version of an identity in force.
LEMMA ApplyInForce ==
  ASSUME NEW l, NEW r, r.op \in Ops, "states" \in DOMAIN l,
         l.states \in [Versions -> VersionStates], InForce(l.states), Applies(l, r)
  PROVE  NewStates(l, r) \in [Versions -> VersionStates] /\ InForce(NewStates(l, r))
  <1> DEFINE o == Operation[r.op]
             v == o.version
             s == NewStates(l, r)
  <1> SUFFICES s \in [Versions -> VersionStates] /\ InForce(s)
    OBVIOUS
  <1>1. CASE Is(r.op, "knowledge_proposed")
    <2>1. v \in Versions /\ s = [l.states EXCEPT ![v] = "candidate"]
      BY <1>1, OperationAssumption DEF Is, NewStates, Decides
    <2>2. l.states[v] = "none"
      BY <1>1 DEF Applies, ProposalApplies, Is
    <2>3. s \in [Versions -> VersionStates]
      BY <2>1 DEF VersionStates
    <2>4. \A w \in Versions : s[w] \notin {"none", "candidate"} => s[w] = l.states[w]
      BY <2>1
    <2>5. \A w \in Versions : l.states[w] \in {"effective", "superseded"} => s[w] = l.states[w]
      BY <2>1, <2>2
    <2> HIDE DEF s, v, o
    <2> QED
      BY <2>3, <2>4, <2>5, VersionAssumption DEF InForce
  <1>2. CASE Decides(r.op, "recognize")
    <2>0. /\ v \in Versions
          /\ s = [w \in Versions |-> IF w = v THEN "effective"
                                     ELSE IF w = Current(l, Kid[v]) THEN "superseded"
                                     ELSE l.states[w]]
      BY <1>2, OperationAssumption DEF Decides, NewStates, Is
    <2>1. l.states[v] = "candidate" /\ Previous[v] = Current(l, Kid[v])
      BY <1>2 DEF Decides, Applies, ImportApplies, RecognitionApplies, Is
    <2>2. /\ Current(l, Kid[v]) # None =>
               /\ Current(l, Kid[v]) \in Versions
               /\ l.states[Current(l, Kid[v])] = "effective"
               /\ Kid[Current(l, Kid[v])] = Kid[v]
          /\ \A w \in Versions :
               Kid[w] = Kid[v] /\ l.states[w] = "effective" => w = Current(l, Kid[v])
      BY CurrentIsTheOne
    <2>3. s \in [Versions -> VersionStates]
      BY <2>0 DEF VersionStates
    <2> DEFINE c == Current(l, Kid[v])
    <2> HIDE DEF s, v, o, c
    <2>4. \A w \in Versions : w # v /\ w # c => s[w] = l.states[w]
      BY <2>0 DEF c
    <2>5. s[v] = "effective" /\ (c # None => c # v /\ s[c] = "superseded")
      BY <2>0, <2>1, <2>2 DEF c
    <2>6. \A w \in Versions : Kid[w] = Kid[v] /\ s[w] = "effective" => w = v
      BY <2>0, <2>2, <2>4, <2>5 DEF c
    <2>7. \A w \in Versions : s[w] \notin {"none", "candidate"} /\ Previous[w] # None
            => s[Previous[w]] = "superseded"
      <3> SUFFICES ASSUME NEW w \in Versions, s[w] \notin {"none", "candidate"},
                          Previous[w] # None
                   PROVE  s[Previous[w]] = "superseded"
        OBVIOUS
      <3>1. CASE w = v
        BY <2>1, <2>5, <3>1 DEF c
      <3>2. CASE w # v
        <4>1. l.states[w] \notin {"none", "candidate"}
          BY <2>2, <2>4, <2>5, <3>2, VersionAssumption DEF c
        <4>2. l.states[Previous[w]] = "superseded" /\ Previous[w] \in Versions
          BY <4>1, VersionAssumption DEF InForce
        <4> QED
          BY <4>2, <2>1, <2>2, <2>4 DEF c
      <3> QED
        BY <3>1, <3>2
    <2>8. \A u, w \in Versions :
            Kid[u] = Kid[w] /\ s[u] = "effective" /\ s[w] = "effective" => u = w
      <3> SUFFICES ASSUME NEW u \in Versions, NEW w \in Versions, Kid[u] = Kid[w],
                          s[u] = "effective", s[w] = "effective"
                   PROVE  u = w
        OBVIOUS
      <3>1. CASE Kid[u] = Kid[v]
        BY <2>6, <3>1
      <3>2. CASE Kid[u] # Kid[v]
        <4>1. l.states[u] = "effective" /\ l.states[w] = "effective"
          BY <2>2, <2>4, <2>5, <3>2, VersionAssumption DEF c
        <4> QED
          BY <4>1 DEF InForce
      <3> QED
        BY <3>1, <3>2
    <2> QED
      BY <2>3, <2>7, <2>8 DEF InForce
  <1>3. CASE Decides(r.op, "retire")
    <2>1. v \in Versions /\ s = [l.states EXCEPT ![v] = "retired"]
      BY <1>3, OperationAssumption DEF Decides, NewStates, Is
    <2>2. Current(l, Kid[v]) = v
      BY <1>3 DEF Decides, Applies, ImportApplies, RecognitionApplies, Is
    <2>3. l.states[v] = "effective"
      BY <2>1, <2>2, CurrentIsTheOne, VersionAssumption
    <2>4. s \in [Versions -> VersionStates]
      BY <2>1 DEF VersionStates
    <2>5. \A w \in Versions : w # v => s[w] = l.states[w]
      BY <2>1
    <2>6. s[v] = "retired"
      BY <2>1
    <2> HIDE DEF s, v, o
    <2> QED
      BY <2>1, <2>3, <2>4, <2>5, <2>6, VersionAssumption DEF InForce
  <1>4. CASE ~Is(r.op, "knowledge_proposed") /\ ~Decides(r.op, "recognize")
               /\ ~Decides(r.op, "retire")
    BY <1>4 DEF NewStates
  <1> QED
    BY <1>1, <1>2, <1>3, <1>4

-----------------------------------------------------------------------------
(* The invariant.                                                          *)

LEMMA InitLedger == Init => LedgerInv
  <1> SUFFICES ASSUME Init PROVE LedgerInv
    OBVIOUS
  <1> DEFINE l == EmptyLedger(agenda.states)
  <1>1. /\ "operations" \in DOMAIN ledger /\ "states" \in DOMAIN ledger
        /\ ledger.states = agenda.states
    <2>1. ledger = [l EXCEPT !.deliveries = {EarlierDelivery(l, c) : c \in agenda.delivered}]
      BY DEF Init, EarlierLedger
    <2>2. DOMAIN l = {"states", "applicability", "deliveries", "challenges",
                      "dispositions", "executions", "captured", "operations"}
          /\ l.states = agenda.states
      BY DEF EmptyLedger
    <2> HIDE DEF l
    <2> QED
      BY <2>1, <2>2
  <1>2. log = << >> /\ Logged = {}
    BY DEF Init, Logged
  <1>3. LogApplied /\ LedgerReplays
    BY <1>1, <1>2 DEF LogApplied, LedgerReplays, Entries
  <1>4. Faithful /\ AnsweredIsRecorded
    BY DEF Init, Faithful, AnsweredIsRecorded
  <1>5. Versioned /\ OneVersionInForce
    BY <1>1, AgendaAssumption DEF Init, Versioned, OneVersionInForce
  <1> QED
    BY <1>3, <1>4, <1>5 DEF LedgerInv

\* What stands while neither log nor ledger moves.
LEMMA LogStill ==
  ASSUME LedgerInv, UNCHANGED <<log, ledger>>
  PROVE  LogApplied' /\ Versioned' /\ LedgerReplays' /\ OneVersionInForce' /\ Logged' = Logged
  BY DEF LedgerInv, LogApplied, Entries, Versioned, LedgerReplays, OneVersionInForce, Logged

LEMMA DraftStep ==
  ASSUME LedgerInv, NEW p \in Callers, NEW op \in Ops, Draft(p, op)
  PROVE  LedgerInv'
  <1>1. /\ UNCHANGED <<log, ledger, prepared>>
        /\ prepared[p] = None
        /\ answered' = answered \ {p}
    BY DEF Draft
  <1>2. PICK subject : drafts' = [drafts EXCEPT ![p] = Request(op, subject)]
    BY DEF Draft
  <1>3. drafts'[p].op = op /\ \A q \in Callers : q # p => drafts'[q] = drafts[q]
    BY <1>2 DEF LedgerInv, Faithful, Request
  <1>4. drafts' = [q \in Callers |-> drafts'[q]]
    BY <1>2 DEF LedgerInv, Faithful
  <1>5. Faithful'
    BY <1>1, <1>3, <1>4 DEF LedgerInv, Faithful
  <1>6. AnsweredIsRecorded'
    BY <1>1, <1>3, LogStill DEF LedgerInv, Faithful, AnsweredIsRecorded
  <1> QED
    BY <1>1, <1>5, <1>6, LogStill DEF LedgerInv

LEMMA SubmitStep ==
  ASSUME LedgerInv, NEW p \in Callers, SubmitAgain(p) \/ Submit(p) \/ Refuse(p)
  PROVE  LedgerInv'
  <1>1. UNCHANGED <<log, ledger, drafts>>
    BY DEF SubmitAgain, Submit, Refuse
  <1>2. CASE SubmitAgain(p)
    <2>1. drafts[p] # None /\ \E i \in Logged : log[i] = drafts[p]
      BY <1>2 DEF SubmitAgain, Replays, Logged
    <2>2. answered' = answered \cup {p} /\ UNCHANGED prepared
      BY <1>2 DEF SubmitAgain
    <2> QED
      BY <1>1, <2>1, <2>2, LogStill DEF LedgerInv, Faithful, AnsweredIsRecorded
  <1>3. CASE Submit(p)
    <2>1. /\ drafts[p] # None
          /\ prepared' = [prepared EXCEPT ![p] = Payload(drafts[p])]
          /\ UNCHANGED answered
      BY <1>3 DEF Submit
    <2>2. Payload(drafts[p]).request = drafts[p]
      BY DEF Payload
    <2> QED
      BY <1>1, <2>1, <2>2, LogStill DEF LedgerInv, Faithful, AnsweredIsRecorded
  <1>4. CASE Refuse(p)
    BY <1>1, <1>4, LogStill DEF Refuse, LedgerInv, Faithful, AnsweredIsRecorded
  <1> QED
    BY <1>2, <1>3, <1>4

\* The append: what was prepared still holds of the log, under the lock.
LEMMA EmitStep ==
  ASSUME LedgerInv, NEW p \in Callers, Emit(p)
  PROVE  LedgerInv'
  <1> DEFINE r == prepared[p].request
             n == Len(log)
  <1>1. /\ prepared[p] # None
        /\ log' = Append(log, r)
        /\ ledger' = Apply(ledger, r, prepared[p].approvals)
        /\ answered' \in {answered, answered \cup {p}}
        /\ prepared' = [prepared EXCEPT ![p] = None]
        /\ UNCHANGED drafts
    BY DEF Emit
  <1>2. r = drafts[p] /\ r # None /\ r.op \in Ops
    BY <1>1 DEF LedgerInv, Faithful
  <1>3. r.expected = n /\ Applies(ledger, r) /\ r.op \notin ledger.operations
    BY DEF Emit, Validates, Prepares, Revision, Applies
  <1> HIDE DEF r
  <1>4. /\ DOMAIN log = 1 .. n /\ n \in Nat
        /\ DOMAIN log' = 1 .. n + 1
        /\ \A i \in 1 .. n : log'[i] = log[i]
        /\ log'[n + 1] = r
        /\ log' \in Seq(Entries')
    BY <1>1, Appended DEF LedgerInv, LogApplied
  <1>5. /\ "operations" \in DOMAIN ledger'
        /\ ledger'.operations = ledger.operations \cup {r.op}
    BY <1>1, <1>2, ApplyOperations DEF LedgerInv, LogApplied
  <1> HIDE DEF n
  <1>6. Logged' = Logged \cup {n + 1}
    BY <1>2, <1>4 DEF Logged
  <1>7. LogApplied'
    BY <1>4, <1>5, <1>6 DEF LedgerInv, LogApplied, Logged
  <1>8. LedgerReplays'
    <2>1. \A i \in Logged : log[i].op # r.op /\ log'[i] = log[i] /\ i # n + 1
      BY <1>3, <1>4 DEF LedgerInv, LogApplied, Logged
    <2> QED
      BY <1>3, <1>4, <1>6, <2>1 DEF LedgerInv, LedgerReplays
  <1>9. Faithful'
    BY <1>1 DEF LedgerInv, Faithful
  <1>10. AnsweredIsRecorded'
    <2>1. \A i \in Logged : i \in 1 .. n
      BY <1>4 DEF Logged
    <2> QED
      BY <1>1, <1>2, <1>4, <1>6, <2>1 DEF LedgerInv, AnsweredIsRecorded
  <1>11. Versioned' /\ OneVersionInForce'
    BY <1>1, <1>2, <1>3, ApplyStates, ApplyInForce
       DEF LedgerInv, Versioned, OneVersionInForce
  <1> QED
    BY <1>7, <1>8, <1>9, <1>10, <1>11 DEF LedgerInv

\* A lifecycle event is in the log, and no business of the ledger.
LEMMA LifecycleStep ==
  ASSUME LedgerInv, log' = Append(log, None),
         UNCHANGED <<ledger, drafts, prepared, answered>>
  PROVE  LedgerInv'
  <1> DEFINE n == Len(log)
  <1>1. /\ DOMAIN log = 1 .. n /\ n \in Nat
        /\ DOMAIN log' = 1 .. n + 1
        /\ \A i \in 1 .. n : log'[i] = log[i]
        /\ log'[n + 1] = None
        /\ log' \in Seq(Entries')
    BY Appended DEF LedgerInv, LogApplied
  <1> HIDE DEF n
  <1>2. Logged' = Logged /\ \A i \in Logged : log'[i] = log[i]
    BY <1>1 DEF Logged
  <1>3. LogApplied' /\ LedgerReplays'
    <2>1. ledger' = ledger
      OBVIOUS
    <2>2. LogApplied'
      BY <1>1, <1>2, <2>1 DEF LedgerInv, LogApplied
    <2>3. LedgerReplays
      BY DEF LedgerInv
    <2>4. ASSUME NEW i \in Logged
          PROVE  log'[i].expected = i - 1
                   /\ \A j \in Logged : log'[j].op = log'[i].op => j = i
      BY <1>2, <2>3 DEF LedgerReplays
    <2>5. LedgerReplays'
      BY <1>2, <2>4 DEF LedgerReplays
    <2> QED
      BY <2>2, <2>5
  <1>4. Faithful' /\ AnsweredIsRecorded'
    <2>1. Faithful /\ AnsweredIsRecorded
      BY DEF LedgerInv
    <2>2. Faithful'
      BY <2>1 DEF Faithful
    <2>3. AnsweredIsRecorded'
      BY <1>2, <2>1 DEF AnsweredIsRecorded
    <2> QED BY <2>2, <2>3
  <1>5. Versioned' /\ OneVersionInForce'
    <2>1. Versioned /\ OneVersionInForce
      BY DEF LedgerInv
    <2> QED
      BY <2>1 DEF Versioned, OneVersionInForce
  <1>6. drafts' = drafts /\ prepared' = prepared /\ answered' = answered
    OBVIOUS
  <1> QED
    BY <1>1, <1>3, <1>4, <1>5, <1>6 DEF LedgerInv

LEMMA LedgerStepwise == LedgerInv /\ [Next]_vars => LedgerInv'
  <1> SUFFICES ASSUME LedgerInv, [Next]_vars PROVE LedgerInv'
    OBVIOUS
  <1>1. ASSUME NEW p \in Callers, NEW op \in Ops, Draft(p, op) PROVE LedgerInv'
    BY <1>1, DraftStep
  <1>2. ASSUME NEW p \in Callers, Submit(p) \/ SubmitAgain(p) \/ Refuse(p)
        PROVE  LedgerInv'
    BY <1>2, SubmitStep
  <1>3. ASSUME NEW p \in Callers, Emit(p) PROVE LedgerInv'
    BY <1>3, EmitStep
  <1>4. ASSUME NEW c, NEW type, NEW st, Lifecycle(c, type, st) PROVE LedgerInv'
    BY <1>4, LifecycleStep DEF Lifecycle
  <1>5. ASSUME NEW c \in Changes, Step(c)
        PROVE  \E type, st : Lifecycle(c, type, st)
    BY <1>5 DEF Step, PlanRedeclared, PlanReady, PlanRejected, PlanApproved,
       ImplementationStarted, ImplementationRecorded, VerificationRecorded,
       ImplementationComplete, CodeReviewPassed, CodeReviewFailed, Reopen, Merged,
       IntentAbandoned, Checkpointed
  <1>6. CASE UNCHANGED vars
    <2>1. UNCHANGED <<log, ledger, drafts, prepared, answered>>
      BY <1>6 DEF vars
    <2> QED
      BY <2>1, LogStill DEF LedgerInv, Faithful, AnsweredIsRecorded
  <1> QED
    BY <1>1, <1>2, <1>3, <1>4, <1>5, <1>6 DEF Next

\* load_ledger never calls the log corrupt: every knowledge event in it is
\* bound to the prefix it was prepared on, and no operation is there twice.
THEOREM LogReplays == Spec => []LedgerReplays
  <1>1. LedgerInv => LedgerReplays
    BY DEF LedgerInv
  <1> QED
    BY <1>1, InitLedger, LedgerStepwise, PTL DEF Spec

\* A command that reported success, first or again, has its request in the log.
THEOREM SuccessIsRecorded == Spec => []AnsweredIsRecorded
  <1>1. LedgerInv => AnsweredIsRecorded
    BY DEF LedgerInv
  <1> QED
    BY <1>1, InitLedger, LedgerStepwise, PTL DEF Spec

\* Whatever is proposed, recognised and retired, an identity has one version in
\* force, and each recognised version superseded the one it was written for.
THEOREM VersionsInForce == Spec => []OneVersionInForce
  <1>1. LedgerInv => OneVersionInForce
    BY DEF LedgerInv
  <1> QED
    BY <1>1, InitLedger, LedgerStepwise, PTL DEF Spec
-----------------------------------------------------------------------------
(* What has a trigger has the approval of it.                              *)

\* Each challenge, and each version that was delivered in force and is so no
\* longer, has the approval captured under which the change then stood.
Traced(l) ==
  /\ DOMAIN l = Fields
  /\ l.applicability \in [Changes \X Versions -> l.operations \cup {None}]
  /\ \A h \in l.challenges : /\ h.op \in l.operations
                             /\ <<h.change, Kid[h.version]>> \in DOMAIN l.captured
  /\ \A d \in l.deliveries :
       /\ DOMAIN d.basis.evaluated \subseteq Versions
       /\ \A v \in d.constraints \cap DOMAIN d.basis.evaluated :
            v \in Effective(l) \/ <<d.change, Kid[v]>> \in DOMAIN l.captured

\* What is captured stays so.
LEMMA CapturedGrows ==
  ASSUME NEW l, NEW r, NEW ap
  PROVE  DOMAIN l.captured \subseteq DOMAIN NewCaptured(l, r, ap)
  BY DEF NewCaptured, Capture

\* A version leaves force by a recognition, which captures for whoever has it.
LEMMA LossIsCaptured ==
  ASSUME NEW l, NEW r, NEW ap, r.op \in Ops, Applies(l, r),
         l.states \in [Versions -> VersionStates], InForce(l.states),
         NEW d \in l.deliveries, NEW v \in d.constraints \cap Effective(l),
         NewStates(l, r)[v] # "effective"
  PROVE  <<d.change, Kid[v]>> \in DOMAIN NewCaptured(l, r, ap)
  <1> DEFINE w == Operation[r.op].version
  <1>1. v \in Versions /\ l.states[v] = "effective"
    BY DEF Effective
  <1>2. ~Is(r.op, "knowledge_proposed")
    <2>1. CASE Is(r.op, "knowledge_proposed")
      <3>1. w \in Versions /\ l.states[w] = "none"
        BY <2>1, OperationAssumption DEF Is, Applies, ProposalApplies
      <3>2. NewStates(l, r) = [l.states EXCEPT ![w] = "candidate"]
        BY <2>1 DEF NewStates, Is, Decides
      <3> QED BY <1>1, <3>1, <3>2
    <2> QED BY <2>1
  <1>3. Decides(r.op, "recognize") \/ Decides(r.op, "retire")
    BY <1>1, <1>2 DEF NewStates
  <1>4. Kid[v] = Kid[w]
    <2>1. CASE Decides(r.op, "recognize")
      <3>1. NewStates(l, r)[v] = IF v = w THEN "effective"
                                 ELSE IF v = Current(l, Kid[w]) THEN "superseded"
                                 ELSE l.states[v]
        BY <1>1, <1>2, <2>1 DEF NewStates, Decides
      <3>2. v = Current(l, Kid[w])
        BY <1>1, <3>1
      <3> QED BY <3>2, CurrentIsTheOne, <1>1, VersionAssumption
    <2>2. CASE Decides(r.op, "retire")
      <3>1. w \in Versions
        BY <2>2, OperationAssumption DEF Decides
      <3>2. NewStates(l, r) = [l.states EXCEPT ![w] = "retired"]
        BY <1>2, <2>2 DEF NewStates, Decides
      <3> QED BY <1>1, <3>1, <3>2
    <2> QED BY <1>3, <2>1, <2>2
  <1>5. NewCaptured(l, r, ap) = Capture(l, Kid[w], Linked(l, Kid[w]), ap)
    <2>1. /\ IsConclusion(r.op, "recognition") /\ Operation[r.op].decision # "reject"
          /\ ~IsConclusion(r.op, "applicability") /\ ~IsRecord(r.op, "challenge")
      BY <1>3 DEF Decides, IsConclusion, IsRecord, Is
    <2> QED BY <2>1 DEF NewCaptured
  <1>6. d.change \in Linked(l, Kid[w])
    BY <1>4 DEF Linked
  <1> QED BY <1>4, <1>5, <1>6 DEF Capture

LEMMA TracedApply ==
  ASSUME NEW l, NEW r, NEW ap, r.op \in Ops, Applies(l, r), Traced(l),
         l.states \in [Versions -> VersionStates], InForce(l.states),
         Is(r.op, "knowledge_delivered") => DOMAIN r.subject.basis.evaluated = Effective(l)
  PROVE  Traced(Apply(l, r, ap))
  <1> DEFINE a == Apply(l, r, ap)
             o == Operation[r.op]
  <1>1. Applied(l, r, ap, a)
    BY ApplyFields DEF Traced
  <1>2. a.operations = l.operations \cup {r.op} /\ a.states = NewStates(l, r)
    BY ApplyOperations, ApplyStates DEF Traced, Fields
  <1> HIDE DEF a
  <1>3. DOMAIN l.captured \subseteq DOMAIN a.captured
    BY <1>1, CapturedGrows DEF Applied
  <1>4. a.applicability \in [Changes \X Versions -> a.operations \cup {None}]
    <2>1. CASE IsConclusion(r.op, "applicability")
      <3>1. o.target \in Changes /\ o.version \in Versions
        BY <2>1, OperationAssumption DEF IsConclusion, Is
      <3> QED BY <1>1, <1>2, <2>1, <3>1 DEF Applied, Traced
    <2>2. CASE ~IsConclusion(r.op, "applicability")
      BY <1>1, <1>2, <2>2 DEF Applied, Traced
    <2> QED BY <2>1, <2>2
  <1>5. ASSUME NEW h \in a.challenges
        PROVE  h.op \in a.operations /\ <<h.change, Kid[h.version]>> \in DOMAIN a.captured
    <2>1. CASE h \in l.challenges
      BY <1>2, <1>3, <2>1 DEF Traced
    <2>2. CASE h \notin l.challenges
      <3>1. /\ IsRecord(r.op, "challenge")
            /\ h = [op |-> r.op, change |-> o.change, version |-> r.subject.version]
        BY <1>1, <2>2 DEF Applied
      <3>2. a.captured = Capture(l, Kid[h.version], {h.change}, ap)
        BY <1>1, <3>1 DEF Applied, NewCaptured, IsRecord, IsConclusion, Is
      <3>3. <<h.change, Kid[h.version]>> \in DOMAIN a.captured
        BY <3>2 DEF Capture
      <3> QED BY <1>2, <3>1, <3>3
    <2> QED BY <2>1, <2>2
  <1>6. ASSUME NEW d \in a.deliveries
        PROVE  /\ DOMAIN d.basis.evaluated \subseteq Versions
               /\ \A v \in d.constraints \cap DOMAIN d.basis.evaluated :
                    v \in Effective(a) \/ <<d.change, Kid[v]>> \in DOMAIN a.captured
    <2>1. CASE d \in l.deliveries
      <3>1. ASSUME NEW v \in d.constraints \cap DOMAIN d.basis.evaluated, v \notin Effective(a)
            PROVE  <<d.change, Kid[v]>> \in DOMAIN a.captured
        <4>1. v \in Versions /\ NewStates(l, r)[v] # "effective"
          BY <1>2, <2>1, <3>1 DEF Traced, Effective
        <4>2. CASE v \in Effective(l)
          BY <1>1, <2>1, <4>1, <4>2, LossIsCaptured DEF Applied
        <4>3. CASE v \notin Effective(l)
          BY <1>3, <2>1, <4>3 DEF Traced
        <4> QED BY <4>2, <4>3
      <3> QED BY <2>1, <3>1 DEF Traced
    <2>2. CASE d \notin l.deliveries
      <3>1. Is(r.op, "knowledge_delivered") /\ d = r.subject
        BY <1>1, <2>2 DEF Applied
      <3>2. DOMAIN d.basis.evaluated = Effective(l) /\ a.states = l.states
        BY <1>2, <3>1 DEF NewStates, Is, Decides
      <3> QED BY <3>2 DEF Effective
    <2> QED BY <2>1, <2>2
  <1> QED BY <1>1, <1>4, <1>5, <1>6 DEF Traced, Applied, a

\* What an identity is to a change, in the ledgers l and a: the versions, their
\* applicability, the challenges.
Alike(l, a, c, k) ==
  /\ \A v \in Versions : Kid[v] = k =>
       a.states[v] = l.states[v] /\ a.applicability[<<c, v>>] = l.applicability[<<c, v>>]
  /\ {h \in Challenges(a, c) : Kid[h.version] = k} = {h \in Challenges(l, c) : Kid[h.version] = k}

\* An approval is captured anew only when something else about it changes.
LEMMA CapturedStands ==
  ASSUME NEW l, NEW r, NEW ap, r.op \in Ops, Applies(l, r), Traced(l),
         l.states \in [Versions -> VersionStates], InForce(l.states),
         NEW c \in Changes, NEW k, <<c, k>> \in DOMAIN l.captured,
         Alike(l, Apply(l, r, ap), c, k)
  PROVE  /\ <<c, k>> \in DOMAIN Apply(l, r, ap).captured
         /\ Apply(l, r, ap).captured[<<c, k>>] = l.captured[<<c, k>>]
  <1> DEFINE a == Apply(l, r, ap)
             o == Operation[r.op]
             v == o.version
  <1>1. Applied(l, r, ap, a) /\ a.states = NewStates(l, r)
    BY ApplyFields, ApplyStates DEF Traced, Fields
  <1>2. /\ r.op \notin l.operations /\ r.op # None
        /\ Alike(l, a, c, k)
    BY OperationAssumption DEF Applies
  <1> HIDE DEF a
  <1>3. a.captured = NewCaptured(l, r, ap) /\ <<c, k>> \in DOMAIN a.captured
    BY <1>1, CapturedGrows DEF Applied
  <1> SUFFICES a.captured[<<c, k>>] = l.captured[<<c, k>>]
    BY <1>3 DEF a
  <1>4. \A x, changes : x # k \/ c \notin changes =>
          Capture(l, x, changes, ap)[<<c, k>>] = l.captured[<<c, k>>]
    BY DEF Capture
  <1>5. CASE IsConclusion(r.op, "recognition") /\ o.decision = "reject"
    <2>1. NewCaptured(l, r, ap) = Capture(l, Kid[v], {}, ap)
      BY <1>5 DEF NewCaptured, IsConclusion, IsRecord, Is
    <2> QED BY <1>3, <1>4, <2>1
  <1>6. CASE IsConclusion(r.op, "recognition") /\ o.decision # "reject"
    <2>1. v \in Versions /\ (Decides(r.op, "recognize") \/ Decides(r.op, "retire"))
      BY <1>6, OperationAssumption DEF IsConclusion, Is, Decides
    <2>2. NewStates(l, r)[v] # l.states[v]
      <3>1. CASE Decides(r.op, "recognize")
        <4>1. l.states[v] = "candidate"
          BY <1>6, <3>1 DEF Applies, ImportApplies, RecognitionApplies, Is, IsConclusion, Decides
        <4>2. NewStates(l, r)[v] = "effective"
          BY <2>1, <3>1 DEF NewStates, Decides, Is
        <4> QED BY <4>1, <4>2
      <3>2. CASE Decides(r.op, "retire")
        <4>1. Current(l, Kid[v]) = v
          BY <1>6, <3>2 DEF Applies, ImportApplies, RecognitionApplies, Is, IsConclusion, Decides
        <4>2. l.states[v] = "effective"
          BY <2>1, <4>1, CurrentIsTheOne, VersionAssumption
        <4>3. NewStates(l, r) = [l.states EXCEPT ![v] = "retired"]
          BY <3>2 DEF NewStates, Decides, Is
        <4> QED BY <2>1, <4>2, <4>3
      <3> QED BY <2>1, <3>1, <3>2
    <2>3. Kid[v] # k
      BY <1>1, <1>2, <2>1, <2>2 DEF Alike
    <2>4. \E changes : NewCaptured(l, r, ap) = Capture(l, Kid[v], changes, ap)
      BY <1>6 DEF NewCaptured, IsConclusion, IsRecord, Is
    <2> QED BY <1>3, <1>4, <2>3, <2>4
  <1>7. CASE IsConclusion(r.op, "applicability")
    <2>1. o.target \in Changes /\ v \in Versions
      BY <1>7, OperationAssumption DEF IsConclusion, Is
    <2>2. a.applicability[<<o.target, v>>] = r.op /\ l.applicability[<<o.target, v>>] # r.op
      BY <1>1, <1>2, <1>7, <2>1 DEF Applied, Traced
    <2>3. Kid[v] # k \/ o.target # c
      BY <1>2, <2>1, <2>2 DEF Alike
    <2>4. NewCaptured(l, r, ap) = Capture(l, Kid[v], {o.target}, ap)
      BY <1>7 DEF NewCaptured, IsConclusion, IsRecord, Is
    <2> QED BY <1>3, <1>4, <2>3, <2>4
  <1>8. CASE IsRecord(r.op, "challenge")
    <2> DEFINE w == r.subject.version
               h == [op |-> r.op, change |-> o.change, version |-> w]
    <2>1. h \in a.challenges /\ h \notin l.challenges
      BY <1>1, <1>2, <1>8 DEF Applied, Traced
    <2>2. Kid[w] # k \/ o.change # c
      BY <1>2, <2>1 DEF Alike, Challenges
    <2>3. NewCaptured(l, r, ap) = Capture(l, Kid[w], {o.change}, ap)
      BY <1>8 DEF NewCaptured, IsConclusion, IsRecord, Is
    <2> QED BY <1>3, <1>4, <2>2, <2>3
  <1>9. CASE ~IsConclusion(r.op, "recognition") /\ ~IsConclusion(r.op, "applicability")
               /\ ~IsRecord(r.op, "challenge")
    <2>1. NewCaptured(l, r, ap) = l.captured
      BY <1>9 DEF NewCaptured
    <2> QED BY <1>3, <2>1
  <1> QED BY <1>5, <1>6, <1>7, <1>8, <1>9

\* An impact that has its trigger is the same in a later ledger, whatever the
\* approval is by then.
LEMMA SameImpact ==
  ASSUME NEW l, NEW a, NEW c, NEW k, NEW x, NEW y, Alike(l, a, c, k), x.paths = y.paths,
         <<c, k>> \in DOMAIN l.captured, <<c, k>> \in DOMAIN a.captured,
         a.captured[<<c, k>>] = l.captured[<<c, k>>],
         NEW old, Kid[old] = k, NEW cid
  PROVE  Impact(a, c, y, old, cid) = Impact(l, c, x, old, cid)
  <1>1. Current(a, k) = Current(l, k)
    <2> DEFINE vs(m) == {v \in Versions : m.states[v] = "effective" /\ Kid[v] = k}
    <2>1. vs(a) = vs(l)
      BY DEF Alike
    <2>2. /\ Current(a, k) = IF vs(a) = {} THEN None ELSE CHOOSE v \in vs(a) : TRUE
          /\ Current(l, k) = IF vs(l) = {} THEN None ELSE CHOOSE v \in vs(l) : TRUE
      BY DEF Current
    <2> HIDE DEF vs
    <2> QED BY <2>1, <2>2
  <1>2. ImpactBasis(a, c, y, k) = ImpactBasis(l, c, x, k)
    <2> DEFINE known(m) == {v \in Versions : Kid[v] = k /\ m.states[v] \notin {"none", "candidate"}}
    <2>1. known(a) = known(l)
      BY DEF Alike
    <2>2. \A v \in known(l) : /\ a.states[v] = l.states[v]
                              /\ a.applicability[<<c, v>>] = l.applicability[<<c, v>>]
      BY DEF Alike
    <2> HIDE DEF known
    <2>3. /\ [v \in known(a) |-> a.states[v]] = [v \in known(l) |-> l.states[v]]
          /\ [v \in known(a) |-> a.applicability[<<c, v>>]]
               = [v \in known(l) |-> l.applicability[<<c, v>>]]
      BY <2>1, <2>2
    <2> QED BY <2>3 DEF ImpactBasis, known
  <1>3. TriggerApproval(a, c, y, k) = TriggerApproval(l, c, x, k)
    BY DEF TriggerApproval
  <1> QED BY <1>1, <1>2, <1>3 DEF Impact

-----------------------------------------------------------------------------
(* Types.                                                                  *)

Typed(l) ==
  /\ l.operations \subseteq Ops
  /\ \A d \in l.dispositions : d.decision # "not_applicable" => d.use \in Versions
  /\ \A d \in l.deliveries : d.op \in Ops \cup {None} /\ d.constraints \subseteq Versions

ChangeTyped(st) ==
  /\ DOMAIN st = {"phase", "approval", "scope", "coverage", "subject", "verification"}
  /\ st.phase \in Phases /\ st.approval \in Nat \cup {None}
  /\ st.scope \subseteq Paths /\ st.coverage \subseteq Paths
  /\ st.subject # None =>
       st.subject.code \in Codes /\ st.subject.approval = st.approval

\* An operation disposes of one impact at most, only a disposition is executed,
\* and what was verified of one that asks for a reapproval is code of another
\* approval than the one its trigger met.
Executed(l) ==
  /\ DOMAIN l.executions = Ops
  /\ \A op \in Ops : l.executions[op].outcome # "none" => op \in l.operations
  /\ \A d \in l.dispositions :
       /\ d.op \in l.operations
       /\ \A e \in l.dispositions : e.op = d.op => e = d
       /\ d.decision = "reapprove" /\ l.executions[d.op].outcome = "verified" =>
            /\ l.executions[d.op].subject # None
            /\ l.executions[d.op].subject.approval # d.impact.approval

KnowInv ==
  /\ LedgerInv
  /\ Traced(ledger) /\ Typed(ledger) /\ Executed(ledger)
  /\ DOMAIN change = Changes /\ \A c \in Changes : ChangeTyped(change[c])
  /\ agenda \in Agendas /\ Len(log) \in Nat /\ Len(log) <= agenda.length

\* What a change is to be delivered are versions.
LEMMA ConstraintsAreVersions ==
  ASSUME NEW l, NEW c, NEW ctx,
         \A d \in l.dispositions : d.decision # "not_applicable" => d.use \in Versions
  PROVE  Constraints(l, c, ctx) \subseteq Versions
  <1> DEFINE judged == {i \in Impacts(l, c, ctx) : Disposed(l, i)}
             disposed(k) == {i \in judged : i.kid = k}
             chosen(k) ==
               IF disposed(k) = {} THEN {v \in Matching(l, c, ctx, "matched") : Kid[v] = k}
               ELSE IF Winning(l, disposed(k)).decision = "not_applicable" THEN {}
               ELSE {Winning(l, disposed(k)).use}
  <1>1. Constraints(l, c, ctx) = UNION {chosen(k) : k \in Kids}
    BY DEF Constraints
  <1>2. ASSUME NEW k PROVE chosen(k) \subseteq Versions
    <2>1. CASE disposed(k) = {}
      BY <2>1 DEF Matching, Effective
    <2>2. CASE disposed(k) # {}
      <3> DEFINE i == CHOOSE i \in disposed(k) : TRUE
      <3>1. i \in disposed(k)
        BY <2>2
      <3>2. Winning(l, disposed(k)) = Disposition(l, i)
        BY DEF Winning
      <3>3. Disposition(l, i) \in l.dispositions
        BY <3>1 DEF Disposed, Disposition
      <3> QED BY <2>2, <3>2, <3>3
    <2> QED BY <2>1, <2>2
  <1> QED BY <1>1, <1>2

\* What an event that applies leaves.
LEMMA TypedApply ==
  ASSUME NEW l, NEW r, NEW ap, r.op \in Ops, DOMAIN l = Fields, Typed(l),
         Is(r.op, "knowledge_delivered") =>
           r.subject.op \in Ops /\ r.subject.constraints \subseteq Versions
  PROVE  Typed(Apply(l, r, ap))
  <1> DEFINE a == Apply(l, r, ap)
             o == Operation[r.op]
  <1>1. Applied(l, r, ap, a) /\ a.operations = l.operations \cup {r.op}
    BY ApplyFields, ApplyOperations DEF Fields
  <1> HIDE DEF a
  <1>2. ASSUME NEW d \in a.dispositions, d.decision # "not_applicable"
        PROVE  d.use \in Versions
    <2>1. CASE d \in l.dispositions
      BY <1>2, <2>1 DEF Typed
    <2>2. CASE d \notin l.dispositions
      <3>1. /\ IsConclusion(r.op, "disposition")
            /\ d.decision = o.decision /\ d.use = o.version
        BY <1>1, <2>2 DEF Applied
      <3> QED BY <1>2, <3>1, OperationAssumption DEF IsConclusion, Is
    <2> QED BY <2>1, <2>2
  <1>3. \A d \in a.deliveries : d.op \in Ops \cup {None} /\ d.constraints \subseteq Versions
    BY <1>1 DEF Applied, Typed
  <1> QED BY <1>1, <1>2, <1>3 DEF Typed, a

\* A delivery that is current names what is in force, and versions.
LEMMA DeliveryIsCurrent ==
  ASSUME Typed(ledger), NEW op \in Ops
  PROVE  /\ Delivery(op).op = op /\ Delivery(op).constraints \subseteq Versions
         /\ DOMAIN Delivery(op).basis.evaluated = Effective(ledger)
  <1> DEFINE c == Operation[op].change
             ctx == Context(change[c])
             basis == Basis(ledger, c, ctx)
  <1>1. /\ basis.constraints = Constraints(ledger, c, ctx)
        /\ DOMAIN basis.evaluated = Effective(ledger)
    BY DEF Basis
  <1>2. /\ Delivery(op).op = op /\ Delivery(op).constraints = basis.constraints
        /\ Delivery(op).basis = basis
    BY DEF Delivery
  <1>3. Constraints(ledger, c, ctx) \subseteq Versions
    BY ConstraintsAreVersions DEF Typed
  <1> QED BY <1>1, <1>2, <1>3

LEMMA InitKnowledge == Init => KnowInv
  <1> SUFFICES ASSUME Init PROVE KnowInv
    OBVIOUS
  <1> DEFINE l == EmptyLedger(agenda.states)
             e(c) == EarlierDelivery(l, c)
  <1>1. ledger = [l EXCEPT !.deliveries = {e(c) : c \in agenda.delivered}]
    BY DEF Init, EarlierLedger
  <1>2. /\ DOMAIN l = Fields /\ l.operations = {} /\ l.dispositions = {} /\ l.challenges = {}
        /\ l.applicability = [x \in Changes \X Versions |-> None]
        /\ l.states = agenda.states
        /\ l.executions = [op \in Ops |-> [outcome |-> "none", subject |-> None]]
    BY DEF EmptyLedger, Fields
  <1>3. ASSUME NEW c
        PROVE  /\ e(c).op = None /\ e(c).constraints \subseteq Versions
               /\ DOMAIN e(c).basis.evaluated = Effective(l)
    <2> DEFINE ctx == Context(InitialChange[c])
    <2>1. /\ e(c).op = None /\ e(c).constraints = Constraints(l, c, ctx)
          /\ e(c).basis = Basis(l, c, ctx)
      BY DEF EarlierDelivery
    <2>2. DOMAIN Basis(l, c, ctx).evaluated = Effective(l)
      BY DEF Basis
    <2> HIDE DEF l
    <2>3. Constraints(l, c, ctx) \subseteq Versions
      BY <1>2, ConstraintsAreVersions
    <2> QED BY <2>1, <2>2, <2>3
  <1> HIDE DEF l, e
  <1>4. /\ DOMAIN ledger = Fields /\ ledger.operations = {} /\ ledger.dispositions = {}
        /\ ledger.challenges = {} /\ ledger.states = l.states
        /\ ledger.executions = l.executions
        /\ ledger.applicability = l.applicability
        /\ ledger.deliveries = {e(c) : c \in agenda.delivered}
    BY <1>1, <1>2 DEF Fields
  <1>5. Effective(ledger) = Effective(l) /\ Effective(l) \subseteq Versions
    BY <1>4 DEF Effective
  <1>6. Traced(ledger)
    BY <1>2, <1>3, <1>4, <1>5 DEF Traced
  <1>7. Typed(ledger) /\ Executed(ledger)
    BY <1>2, <1>3, <1>4 DEF Typed, Executed
  <1>8. DOMAIN change = Changes /\ \A c \in Changes : ChangeTyped(change[c])
    BY ChangeAssumption DEF Init, ChangeTyped
  <1>9. agenda \in Agendas /\ Len(log) = 0 /\ agenda.length \in Nat
    BY BoundAssumption DEF Init
  <1> QED BY <1>6, <1>7, <1>8, <1>9, InitLedger DEF KnowInv

\* What an append applies.
LEMMA EmitApplies ==
  ASSUME KnowInv, NEW p \in Callers, Emit(p)
  PROVE  /\ \E r, ap : /\ r.op \in Ops /\ Applies(ledger, r)
                       /\ ledger' = Apply(ledger, r, ap)
                       /\ Is(r.op, "knowledge_delivered") => r.subject = Delivery(r.op)
                       /\ IsRecord(r.op, "execution")
                          /\ Operation[r.op].outcome = "verified" => ExecutionIsVerified(r)
         /\ \E e : log' = Append(log, e)
         /\ Len(log) < agenda.length
         /\ UNCHANGED <<agenda, change>>
  <1>1. prepared[p].request.op \in Ops
    BY DEF Emit, KnowInv, LedgerInv, Faithful
  <1> QED BY <1>1 DEF Emit, Validates, Prepares, SubjectIsCurrent

\* A verified execution is recorded of the code that is ready, under its approval.
LEMMA ExecutedApply ==
  ASSUME KnowInv, NEW r, NEW ap, r.op \in Ops, Applies(ledger, r),
         IsRecord(r.op, "execution") /\ Operation[r.op].outcome = "verified" =>
           ExecutionIsVerified(r)
  PROVE  Executed(Apply(ledger, r, ap))
  <1> DEFINE a == Apply(ledger, r, ap)
             o == Operation[r.op]
             x == r.subject.disposition
  <1>1. Applied(ledger, r, ap, a) /\ a.operations = ledger.operations \cup {r.op}
    BY ApplyFields, ApplyOperations DEF KnowInv, Traced, Fields
  <1>2. Executed(ledger) /\ ledger.operations \subseteq Ops /\ r.op \notin ledger.operations
    BY DEF KnowInv, Typed, Applies
  <1> HIDE DEF a
  <1>3. CASE IsRecord(r.op, "execution")
    <2>1. /\ a.executions = [ledger.executions EXCEPT ![x] =
                               [outcome |-> o.outcome, subject |-> r.subject.code]]
          /\ a.dispositions = ledger.dispositions
      BY <1>1, <1>3 DEF Applied, IsRecord, IsConclusion, Is
    <2>2. PICK e \in ledger.dispositions : e.op = x
      BY <1>3 DEF Applies, RecordApplies, IsRecord, Is
    <2>3. x \in ledger.operations
      BY <1>2, <2>2 DEF Executed
    <2>4. ASSUME o.outcome = "verified", e.decision = "reapprove"
          PROVE  r.subject.code # None /\ r.subject.code.approval # e.impact.approval
      <3>1. o.change \in Changes
        BY OperationAssumption
      <3>2. e = CHOOSE d \in ledger.dispositions : d.op = x
        BY <1>2, <2>2 DEF Executed
      <3>3. OfReadyCode(r) /\ change[o.change].approval # e.impact.approval
        BY <1>3, <2>4, <3>2 DEF ExecutionIsVerified
      <3>4. ChangeTyped(change[o.change])
        BY <3>1 DEF KnowInv
      <3> QED BY <3>3, <3>4 DEF OfReadyCode, ChangeTyped
    <2>5. /\ DOMAIN a.executions = Ops
          /\ a.executions[x] = [outcome |-> o.outcome, subject |-> r.subject.code]
          /\ \A op \in Ops \ {x} : a.executions[op] = ledger.executions[op]
      BY <1>2, <2>1, <2>3 DEF Executed
    <2>6. ASSUME NEW d \in ledger.dispositions, d.decision = "reapprove",
                 a.executions[d.op].outcome = "verified"
          PROVE  /\ a.executions[d.op].subject # None
                 /\ a.executions[d.op].subject.approval # d.impact.approval
      <3>1. CASE d.op = x
        <4>1. d = e
          BY <1>2, <2>2, <3>1 DEF Executed
        <4> QED BY <2>4, <2>5, <2>6, <3>1, <4>1
      <3>2. CASE d.op # x
        BY <1>2, <2>5, <2>6, <3>2 DEF Executed
      <3> QED BY <3>1, <3>2
    <2> QED BY <1>1, <1>2, <2>1, <2>3, <2>5, <2>6 DEF Executed, a
  <1>4. CASE IsConclusion(r.op, "disposition")
    <2> DEFINE e == [op |-> r.op, impact |-> r.subject, decision |-> o.decision,
                     use |-> o.version]
    <2>1. a.executions = ledger.executions /\ a.dispositions = ledger.dispositions \cup {e}
      BY <1>1, <1>4 DEF Applied, IsRecord, IsConclusion, Is
    <2>2. ledger.executions[r.op].outcome = "none"
      BY <1>2 DEF Executed
    <2>3. e.op = r.op /\ \A d \in ledger.dispositions : d.op # e.op
      BY <1>2 DEF Executed
    <2> HIDE DEF e
    <2> QED BY <1>1, <1>2, <2>1, <2>2, <2>3 DEF Executed, a
  <1>5. CASE ~IsRecord(r.op, "execution") /\ ~IsConclusion(r.op, "disposition")
    <2>1. a.executions = ledger.executions /\ a.dispositions = ledger.dispositions
      BY <1>1, <1>5 DEF Applied
    <2> QED BY <1>1, <1>2, <2>1 DEF Executed, a
  <1> QED BY <1>3, <1>4, <1>5

\* A lifecycle step moves one change, to merged only where the writer lets it.
LEMMA LifecycleMoves ==
  ASSUME KnowInv, NEW c \in Changes, Step(c)
  PROVE  \E type, st : /\ Lifecycle(c, type, st) /\ ChangeTyped(st)
                       /\ st.phase = "merged" =>
                            \/ change[c].phase = "merged"
                            \/ PrerequisiteMet(ledger, c, change[c], "merged")
  <1> DEFINE Moves(type, st) ==
               /\ Lifecycle(c, type, st) /\ ChangeTyped(st)
               /\ st.phase = "merged" => \/ change[c].phase = "merged"
                                         \/ PrerequisiteMet(ledger, c, change[c], "merged")
             now == change[c]
  <1>1. ChangeTyped(now)
    BY DEF KnowInv
  <1> HIDE DEF now
  <1>2. CASE PlanRedeclared(c)
    <2> DEFINE st == [now EXCEPT !.phase = "declared", !.approval = None,
                                 !.subject = None, !.verification = None]
    <2>1. Lifecycle(c, "plan_redeclared", st)
      BY <1>2 DEF PlanRedeclared, now
    <2>2. ChangeTyped(st) /\ st.phase = "declared"
      BY <1>1 DEF ChangeTyped, Phases
    <2> QED BY <2>1, <2>2
  <1>3. ASSUME NEW scope \in PathSets, PlanReady(c, scope) PROVE \E type, st : Moves(type, st)
    <2> DEFINE st == [now EXCEPT !.phase = "awaiting", !.scope = scope]
    <2>1. Lifecycle(c, "plan_ready", st) /\ scope \subseteq Paths
      BY <1>3, ChangeAssumption DEF PlanReady, now
    <2>2. ChangeTyped(st) /\ st.phase = "awaiting"
      BY <1>1, <2>1 DEF ChangeTyped, Phases
    <2> QED BY <2>1, <2>2
  <1>4. CASE PlanRejected(c)
    <2> DEFINE st == [now EXCEPT !.phase = "declared"]
    <2>1. Lifecycle(c, "plan_rejected", st)
      BY <1>4 DEF PlanRejected, now
    <2>2. ChangeTyped(st) /\ st.phase = "declared"
      BY <1>1 DEF ChangeTyped, Phases
    <2> QED BY <2>1, <2>2
  <1>5. CASE PlanApproved(c)
    <2> DEFINE phase == IF now.phase = "awaiting" THEN "approved" ELSE "implementing"
               st == [now EXCEPT !.phase = phase, !.approval = Revision + 1,
                                 !.subject = None, !.verification = None]
    <2>1. Lifecycle(c, "plan_approved", st)
      BY <1>1, <1>5 DEF PlanApproved, ChangeTyped, now
    <2>2. phase \in {"approved", "implementing"} /\ Revision + 1 \in Nat
      BY DEF Revision, KnowInv
    <2> HIDE DEF phase
    <2>3. ChangeTyped(st) /\ st.phase = phase
      BY <1>1, <2>2 DEF ChangeTyped, Phases, Working
    <2> QED BY <2>1, <2>2, <2>3
  <1>6. CASE ImplementationStarted(c)
    <2> DEFINE st == [now EXCEPT !.phase = "implementing", !.subject = None,
                                 !.verification = None]
    <2>1. Lifecycle(c, "implementation_started", st)
      BY <1>6 DEF ImplementationStarted, now
    <2>2. ChangeTyped(st) /\ st.phase = "implementing"
      BY <1>1 DEF ChangeTyped, Phases, Working
    <2> QED BY <2>1, <2>2
  <1>7. ASSUME NEW coverage \in PathSets, ImplementationRecorded(c, coverage)
        PROVE  \E type, st : Moves(type, st)
    <2> DEFINE st == [now EXCEPT !.coverage = coverage]
    <2>1. /\ Lifecycle(c, "implementation_recorded", st)
          /\ now.phase \notin Terminal /\ coverage \subseteq Paths
      BY <1>7, ChangeAssumption DEF ImplementationRecorded, now
    <2>2. ChangeTyped(st) /\ st.phase = now.phase
      BY <1>1, <2>1 DEF ChangeTyped
    <2> QED BY <2>1, <2>2 DEF Terminal
  <1>8. ASSUME NEW code \in Codes, NEW outcome \in {"passed", "failed"},
               VerificationRecorded(c, code, outcome)
        PROVE  \E type, st : Moves(type, st)
    <2> DEFINE v == [subject |-> CodeSubject(c, code), outcome |-> outcome]
               st == [now EXCEPT !.verification = v]
    <2>1. PICK type : Lifecycle(c, type, st) /\ now.phase \notin Terminal
      BY <1>8 DEF VerificationRecorded, now
    <2> HIDE DEF v
    <2>2. ChangeTyped(st) /\ st.phase = now.phase
      BY <1>1 DEF ChangeTyped
    <2> QED BY <2>1, <2>2 DEF Terminal
  <1>9. ASSUME NEW code \in Codes, ImplementationComplete(c, code)
        PROVE  \E type, st : Moves(type, st)
    <2> DEFINE s == CodeSubject(c, code)
               st == [now EXCEPT !.phase = "review", !.subject = s]
    <2>1. Lifecycle(c, "implementation_complete", st)
      BY <1>9 DEF ImplementationComplete, now
    <2>2. s.code = code /\ s.approval = now.approval
      BY DEF CodeSubject, now
    <2> HIDE DEF s
    <2>3. ChangeTyped(st) /\ st.phase = "review"
      BY <1>1, <2>2 DEF ChangeTyped, Phases, Working
    <2> QED BY <2>1, <2>3
  <1>10. CASE CodeReviewPassed(c)
    <2> DEFINE st == [now EXCEPT !.phase = "ready"]
    <2>1. Lifecycle(c, "code_review_passed", st)
      BY <1>10 DEF CodeReviewPassed, now
    <2>2. ChangeTyped(st) /\ st.phase = "ready"
      BY <1>1 DEF ChangeTyped, Phases, Working
    <2> QED BY <2>1, <2>2
  <1>11. CASE CodeReviewFailed(c)
    <2> DEFINE st == [now EXCEPT !.phase = "rejected"]
    <2>1. Lifecycle(c, "code_review_failed", st)
      BY <1>11 DEF CodeReviewFailed, now
    <2>2. ChangeTyped(st) /\ st.phase = "rejected"
      BY <1>1 DEF ChangeTyped, Phases, Working
    <2> QED BY <2>1, <2>2
  <1>12. CASE Reopen(c)
    <2> DEFINE st == [now EXCEPT !.phase = "implementing", !.subject = None,
                                 !.verification = None]
    <2>1. Lifecycle(c, "implementation_invalidated", st)
      BY <1>12 DEF Reopen, now
    <2>2. ChangeTyped(st) /\ st.phase = "implementing"
      BY <1>1 DEF ChangeTyped, Phases, Working
    <2> QED BY <2>1, <2>2
  <1>13. CASE Merged(c)
    <2> DEFINE st == [now EXCEPT !.phase = "merged"]
    <2>1. Lifecycle(c, "merged", st) /\ PrerequisiteMet(ledger, c, change[c], "merged")
      BY <1>13 DEF Merged, now
    <2>2. ChangeTyped(st)
      BY <1>1 DEF ChangeTyped, Phases, Terminal
    <2> QED BY <2>1, <2>2
  <1>14. CASE IntentAbandoned(c)
    <2> DEFINE st == [now EXCEPT !.phase = "abandoned"]
    <2>1. Lifecycle(c, "intent_abandoned", st)
      BY <1>14 DEF IntentAbandoned, now
    <2>2. ChangeTyped(st) /\ st.phase = "abandoned"
      BY <1>1 DEF ChangeTyped, Phases, Terminal
    <2> QED BY <2>1, <2>2
  <1>15. CASE Checkpointed(c)
    BY <1>1, <1>15 DEF Checkpointed, now
  <1> QED
    BY <1>2, <1>3, <1>4, <1>5, <1>6, <1>7, <1>8, <1>9, <1>10, <1>11, <1>12, <1>13, <1>14,
       <1>15 DEF Step

\* The steps there are: the ledger moves by an append, a change by its lifecycle.
LEMMA KnowledgeMoves ==
  ASSUME KnowInv, [Next]_vars
  PROVE  \/ \E p \in Callers : Emit(p)
         \/ \E c \in Changes : \E type, st :
              /\ Lifecycle(c, type, st) /\ ChangeTyped(st)
              /\ st.phase = "merged" => \/ change[c].phase = "merged"
                                        \/ PrerequisiteMet(ledger, c, change[c], "merged")
         \/ UNCHANGED <<agenda, log, ledger, change>>
  <1>1. ASSUME NEW p \in Callers, Submit(p) \/ SubmitAgain(p) \/ Refuse(p)
                                    \/ \E op \in Ops : Draft(p, op)
        PROVE  UNCHANGED <<agenda, log, ledger, change>>
    BY <1>1 DEF Submit, SubmitAgain, Refuse, Draft
  <1>2. CASE UNCHANGED vars
    BY <1>2 DEF vars
  <1> QED BY <1>1, <1>2, LifecycleMoves DEF Next

LEMMA KnowledgeKept == KnowInv /\ [Next]_vars => KnowInv'
  <1> SUFFICES ASSUME KnowInv, [Next]_vars PROVE KnowInv'
    OBVIOUS
  <1>1. LedgerInv'
    BY LedgerStepwise DEF KnowInv
  <1>2. agenda.length \in Nat /\ log \in Seq(Entries) /\ Len(log) \in Nat
    BY BoundAssumption DEF KnowInv, LedgerInv, LogApplied
  <1>3. ASSUME NEW p \in Callers, Emit(p) PROVE KnowInv'
    <2>1. PICK r, ap : /\ r.op \in Ops /\ Applies(ledger, r)
                       /\ ledger' = Apply(ledger, r, ap)
                       /\ Is(r.op, "knowledge_delivered") => r.subject = Delivery(r.op)
                       /\ IsRecord(r.op, "execution")
                          /\ Operation[r.op].outcome = "verified" => ExecutionIsVerified(r)
      BY <1>3, EmitApplies
    <2>2. Is(r.op, "knowledge_delivered") =>
            /\ r.subject.op \in Ops /\ r.subject.constraints \subseteq Versions
            /\ DOMAIN r.subject.basis.evaluated = Effective(ledger)
      BY <2>1, DeliveryIsCurrent DEF KnowInv
    <2>3. Traced(Apply(ledger, r, ap))
      BY <2>1, <2>2, TracedApply DEF KnowInv, LedgerInv, Versioned, OneVersionInForce
    <2>4. Typed(Apply(ledger, r, ap)) /\ Executed(Apply(ledger, r, ap))
      BY <2>1, <2>2, TypedApply, ExecutedApply DEF KnowInv, Traced
    <2>5. Len(log') = Len(log) + 1 /\ Len(log) < agenda.length /\ UNCHANGED <<agenda, change>>
      <3>1. PICK e : log' = Append(log, e)
        BY <1>3, EmitApplies
      <3> QED BY <1>2, <1>3, <3>1, EmitApplies
    <2>6. Traced(ledger)' /\ Typed(ledger)' /\ Executed(ledger)'
      BY <2>1, <2>3, <2>4 DEF Traced, Typed, Executed, Effective
    <2> QED BY <1>1, <1>2, <2>5, <2>6 DEF KnowInv
  <1>4. ASSUME NEW c \in Changes, NEW type, NEW st, Lifecycle(c, type, st), ChangeTyped(st)
        PROVE  KnowInv'
    <2>1. /\ log' = Append(log, None) /\ Len(log) < agenda.length
          /\ change' = [change EXCEPT ![c] = st] /\ UNCHANGED <<agenda, ledger>>
      BY <1>4 DEF Lifecycle
    <2>2. Len(log') = Len(log) + 1
      BY <1>2, <2>1
    <2>3. Traced(ledger)' /\ Typed(ledger)' /\ Executed(ledger)'
      BY <2>1 DEF KnowInv, Traced, Typed, Executed, Effective
    <2>4. DOMAIN change' = Changes /\ \A x \in Changes : ChangeTyped(change'[x])
      BY <1>4, <2>1 DEF KnowInv
    <2> QED BY <1>1, <1>2, <2>1, <2>2, <2>3, <2>4 DEF KnowInv, ChangeTyped
  <1>5. CASE UNCHANGED <<agenda, log, ledger, change>>
    BY <1>1, <1>5 DEF KnowInv, Traced, Typed, Executed, Effective, ChangeTyped
  <1> QED BY <1>3, <1>4, <1>5, KnowledgeMoves

THEOREM KnowledgeStands == Spec => []KnowInv
  BY InitKnowledge, KnowledgeKept, PTL DEF Spec

\* Every reachable state has its declared type.
THEOREM TypeCorrect == Spec => []TypeOK
  <1>1. ASSUME KnowInv PROVE TypeOK
    <2>1. ASSUME NEW c \in Changes
          PROVE  /\ change[c].phase \in Phases /\ change[c].approval \in Nat \cup {None}
                 /\ Context(change[c]).paths \subseteq Paths
      <3>1. ChangeTyped(change[c])
        BY <1>1 DEF KnowInv
      <3>2. FrozenPaths(change[c]) \subseteq Paths
        BY <3>1, ChangeAssumption DEF FrozenPaths, ChangeTyped
      <3> QED BY <3>1, <3>2 DEF ChangeTyped, Context
    <2> QED
      BY <1>1, <2>1 DEF KnowInv, LedgerInv, Versioned, Faithful, Typed, TypeOK
  <1> QED BY <1>1, KnowledgeStands, PTL

-----------------------------------------------------------------------------
(* What is settled is honoured.                                            *)

\* A judgment that leaves no impact open is carried out.
LEMMA ResolvedIsCarriedOut ==
  ASSUME KnowInv, NEW c \in Changes, NEW i, Status(ledger, change[c], i) = "resolved"
  PROVE  /\ Disposition(ledger, i) \in ledger.dispositions
         /\ Disposition(ledger, i).impact = i
         /\ CarriedOut(Disposition(ledger, i), c)
  <1> DEFINE st == change[c]
             d == Disposition(ledger, i)
             e == ledger.executions[d.op]
  <1>1. Disposed(ledger, i)
    BY DEF Status
  <1>2. d \in ledger.dispositions /\ d.impact = i
    BY <1>1 DEF Disposed, Disposition
  <1> HIDE DEF d
  <1>3. d.decision \in {"adjust", "reapprove"} =>
          e.outcome = "verified" /\ VerifiedSubject(st) # None /\ e.subject = VerifiedSubject(st)
    BY <1>1 DEF Status, d
  <1>4. VerifiedSubject(st) # None => VerifiedSubject(st) = st.subject
    BY DEF VerifiedSubject
  <1>5. d.decision = "reapprove" => st.approval # d.impact.approval
    <2>1. SUFFICES ASSUME d.decision = "reapprove" PROVE st.approval # d.impact.approval
      OBVIOUS
    <2>2. e.outcome = "verified" /\ e.subject = st.subject
      BY <1>3, <1>4, <2>1
    <2>3. e.subject # None /\ e.subject.approval # d.impact.approval
      BY <1>2, <2>1, <2>2 DEF KnowInv, Executed
    <2>4. st.subject # None => st.subject.approval = st.approval
      BY DEF KnowInv, ChangeTyped
    <2> QED BY <2>2, <2>3, <2>4
  <1> QED BY <1>2, <1>3, <1>4, <1>5 DEF CarriedOut, d

LEMMA SettledIsHonoured ==
  ASSUME KnowInv, NEW c \in Changes, ~Blocked(ledger, c, change[c], {}),
         ExactlyDelivered(ledger, c, change[c])
  PROVE  Honoured(c)
  <1> DEFINE ctx == Context(change[c])
             impacts == Impacts(ledger, c, ctx)
  <1>1. ASSUME NEW i \in impacts PROVE Status(ledger, change[c], i) = "resolved"
    BY DEF Blocked, Unresolved
  <1>2. ASSUME NEW v \in Matching(ledger, c, ctx, "matched"), v \notin Supplied(ledger, c)
        PROVE  Judged(c, v)
    <2> DEFINE judged == {i \in impacts : Disposed(ledger, i)}
               disposed(k) == {i \in judged : i.kid = k}
               chosen(k) ==
                 IF disposed(k) = {}
                 THEN {w \in Matching(ledger, c, ctx, "matched") : Kid[w] = k}
                 ELSE IF Winning(ledger, disposed(k)).decision = "not_applicable" THEN {}
                 ELSE {Winning(ledger, disposed(k)).use}
    <2>1. Constraints(ledger, c, ctx) = UNION {chosen(k) : k \in Kids}
      BY DEF Constraints
    <2>2. Constraints(ledger, c, ctx) \subseteq Supplied(ledger, c)
      <3>1. PICK d \in ledger.deliveries :
              d.change = c /\ d.constraints = Basis(ledger, c, ctx).constraints
        BY DEF ExactlyDelivered
      <3>2. Basis(ledger, c, ctx).constraints = Constraints(ledger, c, ctx)
        BY DEF Basis
      <3> QED BY <3>1, <3>2 DEF Supplied
    <2>3. Kid[v] \in Kids
      BY DEF Kids, Matching, Effective
    <2>4. disposed(Kid[v]) # {}
      <3>1. CASE disposed(Kid[v]) = {}
        <4>1. v \in chosen(Kid[v])
          BY <3>1
        <4> QED BY <1>2, <2>1, <2>2, <2>3, <4>1
      <3> QED BY <3>1
    <2>5. PICK i \in impacts : Disposed(ledger, i) /\ i.kid = Kid[v]
      BY <2>4
    <2>6. i.change = c
      BY DEF Impacts, Impact
    <2> QED BY <2>5, <2>6 DEF Disposed, Judged
  <1>3. ASSUME NEW h \in Challenges(ledger, c)
        PROVE  \E d \in ledger.dispositions : d.impact.challenge = h.op /\ CarriedOut(d, c)
    <2> DEFINE i == Impact(ledger, c, ctx, h.version, h.op)
    <2>1. i \in impacts /\ i.challenge = h.op
      BY DEF Impacts, Impact
    <2> HIDE DEF i
    <2> QED BY <1>1, <2>1, ResolvedIsCarriedOut
  <1>4. ASSUME NEW v \in Supplied(ledger, c) \ Effective(ledger)
        PROVE  \E d \in ledger.dispositions :
                 /\ d.impact.change = c /\ d.impact.old = v
                 /\ d.impact.new = Current(ledger, Kid[v])
                 /\ CarriedOut(d, c)
    <2> DEFINE i == Impact(ledger, c, ctx, v, None)
    <2>1. v \notin Matching(ledger, c, ctx, "matched")
      BY <1>4 DEF Matching
    <2>2. i \in impacts
      BY <1>4, <2>1 DEF Impacts
    <2>3. i.change = c /\ i.old = v /\ i.new = Current(ledger, Kid[v])
      BY DEF Impact
    <2> HIDE DEF i
    <2>4. Status(ledger, change[c], i) = "resolved"
      BY <1>1, <2>2
    <2> QED BY <2>3, <2>4, ResolvedIsCarriedOut
  <1> QED BY <1>2, <1>3, <1>4 DEF Honoured

\* A change is merged only when its knowledge is honoured: each constraint that
\* applies delivered or judged, each challenge answered, each version that went
\* out of force judged and the judgment carried out (validate_event).
THEOREM MergeAlwaysHonours == Spec => MergeHonoursKnowledge
  <1>1. ASSUME KnowInv, [Next]_vars, NEW c \in Changes, change[c].phase # "merged",
               change'[c].phase = "merged"
        PROVE  Honoured(c)
    <2>1. CASE UNCHANGED change \/ \E p \in Callers : Emit(p)
      BY <1>1, <2>1 DEF Emit
    <2>2. ASSUME NEW x \in Changes, NEW type, NEW st, Lifecycle(x, type, st),
                 st.phase = "merged" => \/ change[x].phase = "merged"
                                        \/ PrerequisiteMet(ledger, x, change[x], "merged")
          PROVE  Honoured(c)
      <3>1. change' = [change EXCEPT ![x] = st]
        BY <2>2 DEF Lifecycle
      <3>2. x = c /\ st.phase = "merged"
        BY <1>1, <3>1 DEF KnowInv
      <3>3. PrerequisiteMet(ledger, c, change[c], "merged")
        BY <1>1, <2>2, <3>2
      <3> QED BY <1>1, <3>3, SettledIsHonoured DEF PrerequisiteMet
    <2> QED BY <1>1, <2>1, <2>2, KnowledgeMoves
  <1>2. KnowInv /\ [Next]_vars =>
          [\A c \in Changes :
             change[c].phase # "merged" /\ change'[c].phase = "merged" => Honoured(c)]_vars
    BY <1>1
  <1> QED BY <1>2, KnowledgeStands, PTL DEF Spec, MergeHonoursKnowledge

\* The gate of CI, from an attestation alone, accepts only where the knowledge of
\* the change is honoured (validate_checkpoint).
THEOREM GateAlwaysHonours == Spec => []GateHonoursKnowledge
  <1>1. KnowInv => GateHonoursKnowledge
    BY SettledIsHonoured DEF GateHonoursKnowledge, CheckpointAccepted
  <1> QED BY <1>1, KnowledgeStands, PTL

-----------------------------------------------------------------------------
(* An impact stays the one disposed of.                                    *)

\* What is delivered and challenged stays so.
LEMMA LedgerGrows ==
  ASSUME KnowInv, [Next]_vars, NEW c \in Changes, NEW k, <<c, k>> \in DOMAIN ledger.captured,
         SameKnowledge(c, k)
  PROVE  /\ ledger.deliveries \subseteq ledger'.deliveries
         /\ ledger.challenges \subseteq ledger'.challenges
         /\ <<c, k>> \in DOMAIN ledger'.captured
         /\ ledger'.captured[<<c, k>>] = ledger.captured[<<c, k>>]
  <1>1. ASSUME NEW p \in Callers, Emit(p)
        PROVE  /\ ledger.deliveries \subseteq ledger'.deliveries
               /\ ledger.challenges \subseteq ledger'.challenges
               /\ <<c, k>> \in DOMAIN ledger'.captured
               /\ ledger'.captured[<<c, k>>] = ledger.captured[<<c, k>>]
    <2>1. PICK r, ap : r.op \in Ops /\ Applies(ledger, r) /\ ledger' = Apply(ledger, r, ap)
      BY <1>1, EmitApplies
    <2>2. Applied(ledger, r, ap, Apply(ledger, r, ap))
      BY <2>1, ApplyFields DEF KnowInv, Traced
    <2>3. Alike(ledger, Apply(ledger, r, ap), c, k)
      BY <2>1 DEF SameKnowledge, Alike, Challenges
    <2>4. /\ <<c, k>> \in DOMAIN Apply(ledger, r, ap).captured
          /\ Apply(ledger, r, ap).captured[<<c, k>>] = ledger.captured[<<c, k>>]
      BY <2>1, <2>3, CapturedStands DEF KnowInv, LedgerInv, Versioned, OneVersionInForce
    <2> QED BY <2>1, <2>2, <2>4 DEF Applied
  <1>2. CASE UNCHANGED ledger
    BY <1>2
  <1> QED BY <1>1, <1>2, KnowledgeMoves DEF Lifecycle

LEMMA ImpactStays ==
  ASSUME KnowInv, [Next]_vars, NEW c \in Changes, NEW i \in CurrentImpacts(c),
         SameKnowledge(c, i.kid), Triggered(c, i)
  PROVE  i \in Impacts(ledger', c, Context(change'[c]))
  <1> DEFINE x == Context(change[c])
             y == Context(change'[c])
             k == i.kid
  <1>1. x.paths = y.paths
    BY DEF SameKnowledge, Context
  <1>2. Alike(ledger, ledger', c, k)
    BY DEF SameKnowledge, Alike, Challenges
  <1>3. CASE \E h \in Challenges(ledger, c) : i = Impact(ledger, c, x, h.version, h.op)
    <2>1. PICK h \in Challenges(ledger, c) : i = Impact(ledger, c, x, h.version, h.op)
      BY <1>3
    <2>2. k = Kid[h.version] /\ <<c, k>> \in DOMAIN ledger.captured
      BY <2>1 DEF Impact, KnowInv, Traced, Challenges
    <2>3. /\ ledger.challenges \subseteq ledger'.challenges
          /\ <<c, k>> \in DOMAIN ledger'.captured
          /\ ledger'.captured[<<c, k>>] = ledger.captured[<<c, k>>]
      BY <2>2, LedgerGrows
    <2>4. i = Impact(ledger', c, y, h.version, h.op)
      BY <1>1, <1>2, <2>1, <2>2, <2>3, SameImpact
    <2> QED BY <2>3, <2>4 DEF Impacts, Challenges
  <1>4. CASE \E v \in Supplied(ledger, c) : i = Impact(ledger, c, x, v, None)
    <2>1. PICK v \in Supplied(ledger, c) : i = Impact(ledger, c, x, v, None)
      BY <1>4
    <2>2. k = Kid[v] /\ i.old = v /\ i.challenge = None
      BY <2>1 DEF Impact
    <2>3. v \notin Effective(ledger) /\ DeliveredInForce(c, v)
      BY <2>2 DEF Triggered
    <2>4. <<c, k>> \in DOMAIN ledger.captured /\ v \in Versions
      BY <2>2, <2>3 DEF DeliveredInForce, KnowInv, Traced
    <2>5. /\ ledger.deliveries \subseteq ledger'.deliveries
          /\ <<c, k>> \in DOMAIN ledger'.captured
          /\ ledger'.captured[<<c, k>>] = ledger.captured[<<c, k>>]
      BY <2>4, LedgerGrows
    <2>6. i = Impact(ledger', c, y, v, None)
      BY <1>1, <1>2, <2>1, <2>2, <2>4, <2>5, SameImpact
    <2>7. v \in Supplied(ledger', c)
      BY <2>5 DEF Supplied
    <2>8. v \notin Matching(ledger', c, y, "matched")
      BY <1>2, <2>2, <2>3, <2>4 DEF Alike, Matching, Effective
    <2> QED BY <2>6, <2>7, <2>8 DEF Impacts
  <1> QED BY <1>3, <1>4 DEF CurrentImpacts, Impacts

\* "A disposition cannot invalidate itself": an impact with a trigger stays the
\* one disposed of, whatever is recorded, approved or delivered meanwhile, as
\* long as its versions, their applicability and the coverage stand (_view).
THEOREM ImpactsAlwaysStand == Spec => ImpactsStand
  <1>1. KnowInv /\ [Next]_vars =>
          [\A c \in Changes : \A i \in CurrentImpacts(c) :
             SameKnowledge(c, i.kid) /\ Triggered(c, i) =>
               i \in Impacts(ledger', c, Context(change'[c]))]_vars
    BY ImpactStays
  <1> QED BY <1>1, KnowledgeStands, PTL DEF Spec, ImpactsStand
=============================================================================
