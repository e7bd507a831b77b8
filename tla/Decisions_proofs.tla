-------------------------- MODULE Decisions_proofs --------------------------
(***************************************************************************)
(* Proofs about the decision records, for every number of decisions,       *)
(* files, bodies and terminals.                                            *)
(*                                                                         *)
(* What is locked was tried: a hash names a body that passed both sides of *)
(* the bite-test, in the records as in whatever a command has read and is  *)
(* about to write back (LockInv).  A clean check conforms: a check whose   *)
(* files nobody touched knows, at each of its stages, what the next ones   *)
(* build on (Seen).                                                        *)
(***************************************************************************)
EXTENDS Decisions, TLAPS

\* The lock of a record, if it is on a check, is on a body that was tried.
Earned(d) ==
  d.ratified_text_hash # None /\ Body[d.ratified_text_hash].tier = 1
    => d.ratified_text_hash \in tried

\* What a command has read, or is about to write.
EarnedBy(c) ==
  /\ c.verb # "check" /\ c.stage \in {"pass", "bite", "scan", "print", "successor"}
       => Earned(c.d)
  /\ c.stage \in {"open", "fill"} => \A i \in DOMAIN c.writes : Earned(c.writes[i][2])

LockInv ==
  /\ TypeOK
  /\ \A id \in Ids : records[id] # None => Earned(records[id])
  /\ \A p \in Procs : EarnedBy(cmd[p])

Commands == {Idle} \cup WritingCommands \cup Checks

-----------------------------------------------------------------------------
\* Every change a command makes to a record leaves a record, under the lock it
\* had or under a new one on what is not a check.
LEMMA RecordsStayRecords ==
  ASSUME TypeOK, NEW d \in Decision
  PROVE  /\ Stamped(d) \in Decision
         /\ [d EXCEPT !.betrayed = TRUE] \in Decision
         /\ [d EXCEPT !.status = "retired"] \in Decision
         /\ \A anchored : Baselined(d, anchored) \in Decision
         /\ \A new \in Ids :
              /\ [d EXCEPT !.status = "superseded", !.superseded_by = new] \in Decision
              /\ [d EXCEPT !.supersedes = new] \in Decision
PROOF
<1>1. code \in [Files -> Sources \cup {None}]
  BY DEF TypeOK, Trees
<1>2. \A anchored : [f \in Files |-> IF f \in anchored THEN code[f] ELSE None]
                      \in [Files -> Sources \cup {None}]
  BY <1>1
<1> QED
  BY <1>2 DEF Decision, Statuses, Stamped, Baselined

LEMMA FreshIsARecord ==
  ASSUME NEW t \in Texts
  PROVE  Fresh(t) \in Decision /\ Earned(Fresh(t))
PROOF
BY DEF Fresh, Decision, Statuses, Earned

LEMMA ChangesStayEarned ==
  ASSUME NEW d \in Decision, Earned(d)
  PROVE  /\ TierOf(d) # 1 => Earned(Stamped(d))
         /\ Earned([d EXCEPT !.betrayed = TRUE])
         /\ Earned([d EXCEPT !.status = "retired"])
         /\ \A anchored : Earned(Baselined(d, anchored))
         /\ \A new : /\ Earned([d EXCEPT !.status = "superseded", !.superseded_by = new])
                     /\ Earned([d EXCEPT !.supersedes = new])
PROOF
BY DEF Decision, Earned, TierOf, Stamped, Baselined

\* One record to write.
LEMMA WritingOne ==
  ASSUME NEW verb \in {"new", "ratify", "reconcile", "betray", "retire"},
         NEW id \in Ids, NEW d \in Decision, Earned(d)
  PROVE  /\ Writing(verb, <<<<id, d>>>>) \in Commands
         /\ EarnedBy(Writing(verb, <<<<id, d>>>>))
PROOF
<1> DEFINE ws == <<<<id, d>>>>
<1>1. ws \in Seq(Ids \X Decision) \ {<<>>} /\ DOMAIN ws = {1} /\ ws[1][2] = d
  OBVIOUS
<1> HIDE DEF ws
<1>2. Writing(verb, ws) \in Commands
  BY <1>1 DEF Writing, Commands, WritingCommands
<1>3. EarnedBy(Writing(verb, ws))
  BY <1>1 DEF Writing, EarnedBy
<1> QED BY <1>2, <1>3 DEF ws

\* A new lock is earned by the body that was tried just before.
LEMMA StampIsEarned ==
  ASSUME TypeOK, NEW id \in Ids, NEW d \in Decision, d.text \in tried'
  PROVE  /\ Writing("ratify", <<<<id, Stamped(d)>>>>) \in Commands
         /\ EarnedBy(Writing("ratify", <<<<id, Stamped(d)>>>>))'
PROOF
<1> DEFINE ws == <<<<id, Stamped(d)>>>>
<1>1. Stamped(d) \in Decision /\ Stamped(d).ratified_text_hash = d.text
  BY RecordsStayRecords DEF Decision, Stamped
<1>2. ws \in Seq(Ids \X Decision) \ {<<>>} /\ DOMAIN ws = {1} /\ ws[1][2] = Stamped(d)
  BY <1>1
<1> HIDE DEF ws
<1>3. \A i \in DOMAIN ws : Earned(ws[i][2])'
  BY <1>1, <1>2 DEF Earned
<1>4. Writing("ratify", ws) \in Commands
  BY <1>2 DEF Writing, Commands, WritingCommands
<1>5. EarnedBy(Writing("ratify", ws))'
  BY <1>3 DEF Writing, EarnedBy
<1> QED BY <1>4, <1>5 DEF ws

\* The rest of what is to be written.
LEMMA WritingRest ==
  ASSUME NEW c \in Commands, c.stage \in {"open", "fill"}, EarnedBy(c)
  PROVE  /\ Head(c.writes) \in Ids \X Decision /\ Earned(Head(c.writes)[2])
         /\ Tail(c.writes) # <<>> =>
              /\ Writing(c.verb, Tail(c.writes)) \in Commands
              /\ EarnedBy(Writing(c.verb, Tail(c.writes)))
PROOF
<1> DEFINE ws == c.writes
           rest == Tail(ws)
<1>1. /\ ws \in Seq(Ids \X Decision) /\ ws # <<>>
      /\ c.verb \in {"new", "ratify", "reconcile", "betray", "retire", "supersede"}
  BY DEF Commands, WritingCommands, Checks, Idle
<1>2. \A i \in DOMAIN ws : Earned(ws[i][2])
  BY DEF EarnedBy
<1> HIDE DEF ws
<1>3. Head(ws) = ws[1] /\ 1 \in DOMAIN ws /\ ws[1] \in Ids \X Decision
  BY <1>1
<1>4. rest \in Seq(Ids \X Decision) /\ \A i \in DOMAIN rest : i + 1 \in DOMAIN ws /\ rest[i] = ws[i + 1]
  BY <1>1
<1>5. \A i \in DOMAIN rest : Earned(rest[i][2])
  BY <1>2, <1>4
<1> HIDE DEF rest
<1>6. rest # <<>> => Writing(c.verb, rest) \in Commands
  BY <1>1, <1>4 DEF Writing, Commands, WritingCommands
<1>7. EarnedBy(Writing(c.verb, rest))
  BY <1>5 DEF Writing, EarnedBy
<1> QED BY <1>2, <1>3, <1>6, <1>7 DEF ws, rest

\* A step of one command that leaves the files as they are.
LEMMA BecomeKeeps ==
  ASSUME LockInv, NEW p \in Procs, NEW c \in Commands, Become(p, c), EarnedBy(c)',
         UNCHANGED <<agenda, records, torn, code, reviewed>>,
         spent' \in [commands : 0 .. agenda.commands, edits : 0 .. agenda.edits],
         moved' \subseteq Procs,
         tried \subseteq tried', tried' \subseteq Texts
  PROVE  LockInv'
PROOF
<1>1. cmd \in [Procs -> Commands]
  BY DEF LockInv, TypeOK, Commands
<1>2. /\ cmd' \in [Procs -> Commands] /\ cmd'[p] = c
      /\ \A q \in Procs \ {p} : cmd'[q] = cmd[q]
  BY <1>1 DEF Become
<1>3. TypeOK'
  BY <1>2 DEF LockInv, TypeOK, Commands
<1>4. \A d : Earned(d) => Earned(d)'
  BY DEF Earned
<1>5. \A id \in Ids : records'[id] # None => Earned(records[id])'
  BY <1>4 DEF LockInv
<1>6. ASSUME NEW q \in Procs \ {p} PROVE EarnedBy(cmd[q])'
  BY <1>2, <1>4 DEF LockInv, EarnedBy
<1> QED BY <1>2, <1>3, <1>5, <1>6 DEF LockInv

\* The agenda bounds what is spent.
LEMMA SpentInBounds ==
  ASSUME TypeOK
  PROVE  /\ agenda.commands \in Nat /\ agenda.edits \in Nat
         /\ agenda.texts \subseteq Texts /\ agenda.sources \subseteq Sources \cup {None}
         /\ \A p \in Procs : \A verb :
              Begin(p, verb) =>
                /\ spent' \in [commands : 0 .. agenda.commands, edits : 0 .. agenda.edits]
                /\ moved' \subseteq Procs
         /\ Edit => /\ spent' \in [commands : 0 .. agenda.commands, edits : 0 .. agenda.edits]
                    /\ moved' \subseteq Procs
PROOF
<1>1. /\ agenda.commands \in Nat /\ agenda.edits \in Nat
      /\ agenda.texts \subseteq Texts /\ agenda.sources \subseteq Sources \cup {None}
  BY AgendaAssumption DEF TypeOK
<1> QED BY <1>1 DEF TypeOK, Begin, Edit

\* A record that is read is one.
LEMMA ReadIsARecord ==
  ASSUME LockInv, NEW id \in Ids, Readable(id)
  PROVE  records[id] \in Decision /\ Earned(records[id])
PROOF
BY DEF LockInv, TypeOK, Readable

LEMMA CommandKeepsLocks ==
  ASSUME LockInv, NEW p \in Procs, Command(p)
  PROVE  LockInv'
PROOF
<1>1. TypeOK
  BY DEF LockInv
<1>2. /\ UNCHANGED <<agenda, records, torn, code, tried, reviewed>>
      /\ spent' \in [commands : 0 .. agenda.commands, edits : 0 .. agenda.edits]
      /\ moved' \subseteq Procs
      /\ tried \subseteq Texts
  BY <1>1, SpentInBounds
  DEF Command, New, Ratify, Reconcile, Betray, Retire, Supersede, Check, history, TypeOK
<1>3. SUFFICES \E c \in Commands : Become(p, c) /\ EarnedBy(c)
  <2>1. \A c : EarnedBy(c) => EarnedBy(c)'
    BY <1>2 DEF EarnedBy, Earned
  <2> QED BY <1>2, <1>3, <2>1, BecomeKeeps
<1>4. ASSUME NEW id \in Ids, NEW t \in agenda.texts, New(p, id, t)
      PROVE  \E c \in Commands : Become(p, c) /\ EarnedBy(c)
  <2>1. t \in Texts
    BY <1>1, SpentInBounds
  <2> QED BY <1>4, <2>1, FreshIsARecord, WritingOne DEF New
<1>5. ASSUME NEW id \in Ids, Ratify(p, id)
      PROVE  \E c \in Commands : Become(p, c) /\ EarnedBy(c)
  <2>1. records[id] \in Decision /\ Earned(records[id])
    BY <1>5, ReadIsARecord DEF Ratify
  <2>2. CASE TierOf(records[id]) = 1
    <3> DEFINE c == [verb |-> "ratify", stage |-> "pass", id |-> id, d |-> records[id]]
    <3>1. Become(p, c)
      BY <1>5, <2>2 DEF Ratify
    <3>2. c \in Commands /\ EarnedBy(c)
      BY <2>1 DEF Commands, WritingCommands, EarnedBy
    <3> QED BY <3>1, <3>2
  <2>3. CASE TierOf(records[id]) # 1
    <3>1. Stamped(records[id]) \in Decision /\ Earned(Stamped(records[id]))
      BY <1>1, <2>1, <2>3, RecordsStayRecords, ChangesStayEarned
    <3>2. Become(p, Writing("ratify", <<<<id, Stamped(records[id])>>>>))
      BY <1>5, <2>3 DEF Ratify
    <3> QED BY <3>1, <3>2, WritingOne
  <2> QED BY <2>2, <2>3
<1>6. ASSUME NEW id \in Ids, Reconcile(p, id)
      PROVE  \E c \in Commands : Become(p, c) /\ EarnedBy(c)
  <2> DEFINE c == [verb |-> "reconcile", stage |-> "scan", id |-> id, d |-> records[id]]
  <2>1. records[id] \in Decision /\ Earned(records[id]) /\ Become(p, c)
    BY <1>6, ReadIsARecord DEF Reconcile
  <2>2. c \in Commands /\ EarnedBy(c)
    BY <2>1 DEF Commands, WritingCommands, EarnedBy
  <2> QED BY <2>1, <2>2
<1>7. ASSUME NEW id \in Ids, Betray(p, id)
      PROVE  \E c \in Commands : Become(p, c) /\ EarnedBy(c)
  <2>1. records[id] \in Decision /\ Earned(records[id])
    BY <1>7, ReadIsARecord DEF Betray
  <2>2. /\ [records[id] EXCEPT !.betrayed = TRUE] \in Decision
        /\ Earned([records[id] EXCEPT !.betrayed = TRUE])
    BY <1>1, <2>1, RecordsStayRecords, ChangesStayEarned
  <2> QED BY <1>7, <2>2, WritingOne DEF Betray
<1>8. ASSUME NEW id \in Ids, Retire(p, id)
      PROVE  \E c \in Commands : Become(p, c) /\ EarnedBy(c)
  <2>1. records[id] \in Decision /\ Earned(records[id])
    BY <1>8, ReadIsARecord DEF Retire
  <2>2. /\ [records[id] EXCEPT !.status = "retired"] \in Decision
        /\ Earned([records[id] EXCEPT !.status = "retired"])
    BY <1>1, <2>1, RecordsStayRecords, ChangesStayEarned
  <2> QED BY <1>8, <2>2, WritingOne DEF Retire
<1>9. ASSUME NEW id \in Ids, NEW new \in Ids, Supersede(p, id, new)
      PROVE  \E c \in Commands : Become(p, c) /\ EarnedBy(c)
  <2> DEFINE c == [verb |-> "supersede", stage |-> "successor", id |-> id, new |-> new,
                   d |-> records[id]]
  <2>1. records[id] \in Decision /\ Earned(records[id]) /\ Become(p, c)
    BY <1>9, ReadIsARecord DEF Supersede
  <2>2. c \in Commands /\ EarnedBy(c)
    BY <2>1 DEF Commands, WritingCommands, EarnedBy
  <2> QED BY <2>1, <2>2
<1>10. ASSUME NEW full \in BOOLEAN, NEW gate \in BOOLEAN, Check(p, full, gate)
       PROVE  \E c \in Commands : Become(p, c) /\ EarnedBy(c)
  <2>1. Loaded \in Readings
    BY ReadIsARecord DEF Loaded, Readings
  <2>2. CASE Malformed # {}
    <3> DEFINE c == [verb |-> "check", stage |-> "end", full |-> full, gate |-> gate,
                     exit |-> "no_config"]
    <3>1. Become(p, c)
      BY <1>10, <2>2 DEF Check
    <3>2. c \in Commands /\ EarnedBy(c)
      BY DEF Commands, Checks, EarnedBy
    <3> QED BY <3>1, <3>2
  <2>3. CASE Malformed = {}
    <3> DEFINE c == [verb |-> "check", stage |-> "scan", full |-> full, gate |-> gate,
                     ds |-> Loaded]
    <3>1. Become(p, c)
      BY <1>10, <2>3 DEF Check
    <3>2. c \in Commands /\ EarnedBy(c)
      BY <2>1 DEF Commands, Checks, EarnedBy
    <3> QED BY <3>1, <3>2
  <2> QED BY <2>2, <2>3
<1> QED
  BY <1>4, <1>5, <1>6, <1>7, <1>8, <1>9, <1>10 DEF Command

\* What a command at some stage is, as a record.
LEMMA StageShapes ==
  ASSUME NEW c \in Commands
  PROVE  /\ c.stage = "pass" \/ c.stage = "bite" =>
              c \in [verb : {"ratify"}, stage : {"pass", "bite"}, id : Ids, d : Decision]
         /\ c.verb = "reconcile" /\ c.stage = "scan" =>
              c \in [verb : {"reconcile"}, stage : {"scan"}, id : Ids, d : Decision]
         /\ c.verb = "reconcile" /\ c.stage = "print" =>
              c \in [verb : {"reconcile"}, stage : {"print"}, id : Ids, d : Decision,
                     anchored : SUBSET Files]
         /\ c.stage = "successor" =>
              c \in [verb : {"supersede"}, stage : {"successor"}, id : Ids, new : Ids,
                     d : Decision]
         /\ c.stage \in {"open", "fill"} =>
              c \in [verb : {"new", "ratify", "reconcile", "betray", "retire", "supersede"},
                     stage : {"open", "fill"}, writes : Seq(Ids \X Decision) \ {<<>>}]
         /\ c.verb = "check" => c \in Checks
         /\ c.stage \in {"reload", "run"} => c \in Checks
PROOF
BY DEF Commands, WritingCommands, Checks, Idle

\* The steps by which a command goes on, without touching a file.
LEMMA ReadingKeepsLocks ==
  ASSUME LockInv, NEW p \in Procs,
         \/ PassSide(p) \/ BiteSide(p) \/ ReconcileScan(p) \/ ReconcilePrint(p)
         \/ SupersedeBy(p) \/ CheckScan(p) \/ CheckPrint(p) \/ CheckReload(p)
         \/ RunCheck(p) \/ Report(p) \/ Kill(p)
  PROVE  LockInv'
PROOF
<1>1. TypeOK /\ cmd[p] \in Commands /\ EarnedBy(cmd[p])
  BY DEF LockInv, TypeOK, Commands
<1>2. /\ UNCHANGED <<agenda, records, torn, code, spent, moved, reviewed>>
      /\ spent' \in [commands : 0 .. agenda.commands, edits : 0 .. agenda.edits]
      /\ moved' \subseteq Procs
  BY <1>1 DEF PassSide, BiteSide, ReconcileScan, ReconcilePrint, SupersedeBy, CheckScan,
              CheckPrint, CheckReload, RunCheck, Report, Kill, history, TypeOK
<1> DEFINE Goal == /\ \E c \in Commands : Become(p, c) /\ EarnedBy(c)'
                   /\ tried \subseteq tried' /\ tried' \subseteq Texts
<1>3. SUFFICES Goal
  BY <1>2, BecomeKeeps
<1>4. tried' = tried => \A c : EarnedBy(c) => EarnedBy(c)'
  BY DEF EarnedBy, Earned
<1>5. Idle \in Commands /\ EarnedBy(Idle) /\ tried \subseteq Texts
  BY <1>1 DEF Commands, Idle, EarnedBy, TypeOK
<1>6. CASE PassSide(p)
  <2>1. cmd[p] \in [verb : {"ratify"}, stage : {"pass", "bite"}, id : Ids, d : Decision]
    BY <1>1, <1>6, StageShapes DEF PassSide
  <2>2. /\ [cmd[p] EXCEPT !.stage = "bite"] \in Commands
        /\ EarnedBy([cmd[p] EXCEPT !.stage = "bite"])
    BY <1>1, <1>6, <2>1 DEF PassSide, Commands, WritingCommands, EarnedBy
  <2>3. tried' = tried /\ (Become(p, [cmd[p] EXCEPT !.stage = "bite"]) \/ Become(p, Idle))
    BY <1>6 DEF PassSide, End, history
  <2> QED BY <1>4, <1>5, <2>2, <2>3
<1>7. CASE BiteSide(p)
  <2> DEFINE id == cmd[p].id
             d == cmd[p].d
             c == Writing("ratify", <<<<id, Stamped(d)>>>>)
  <2>1. id \in Ids /\ d \in Decision /\ Earned(d)
    BY <1>1, <1>7, StageShapes DEF BiteSide, EarnedBy
  <2>2. CASE End(p) /\ tried' = tried
    BY <1>4, <1>5, <2>2 DEF End
  <2>3. CASE Become(p, c) /\ tried' = tried \cup {d.text}
    <3>1. PICK i \in Ids, e \in Decision :
            /\ i = id /\ e = d
            /\ Become(p, Writing("ratify", <<<<i, Stamped(e)>>>>))
            /\ tried' = tried \cup {e.text}
      BY <2>1, <2>3
    <3>2. /\ Writing("ratify", <<<<i, Stamped(e)>>>>) \in Commands
          /\ EarnedBy(Writing("ratify", <<<<i, Stamped(e)>>>>))'
      BY <1>1, <3>1, StampIsEarned
    <3>3. e.text \in Texts
      BY DEF Decision
    <3> QED BY <1>5, <3>1, <3>2, <3>3
  <2> QED BY <1>7, <2>2, <2>3 DEF BiteSide
<1>8. CASE ReconcileScan(p)
  <2> DEFINE c == [verb |-> "reconcile", stage |-> "print", id |-> cmd[p].id,
                   d |-> cmd[p].d, anchored |-> Anchored(code, cmd[p].id)]
  <2>1. cmd[p].id \in Ids /\ cmd[p].d \in Decision /\ Earned(cmd[p].d)
    BY <1>1, <1>8, StageShapes DEF ReconcileScan, EarnedBy
  <2>2. c \in Commands /\ EarnedBy(c)
    BY <2>1 DEF Commands, WritingCommands, EarnedBy, Anchored
  <2>3. tried' = tried /\ (Become(p, c) \/ Become(p, Idle))
    BY <1>8 DEF ReconcileScan, End, history
  <2> QED BY <1>4, <1>5, <2>2, <2>3
<1>9. CASE ReconcilePrint(p)
  <2> DEFINE id == cmd[p].id
             d == Baselined(cmd[p].d, cmd[p].anchored)
  <2>1. id \in Ids /\ cmd[p].d \in Decision /\ Earned(cmd[p].d)
    BY <1>1, <1>9, StageShapes DEF ReconcilePrint, EarnedBy
  <2>2. d \in Decision /\ Earned(d)
    BY <1>1, <2>1, RecordsStayRecords, ChangesStayEarned
  <2>3. /\ tried' = tried
        /\ Become(p, Writing("reconcile", <<<<id, d>>>>)) \/ Become(p, Idle)
    BY <1>9 DEF ReconcilePrint, End, history
  <2> HIDE DEF id, d
  <2>4. /\ Writing("reconcile", <<<<id, d>>>>) \in Commands
        /\ EarnedBy(Writing("reconcile", <<<<id, d>>>>))
    BY <2>1, <2>2, WritingOne DEF id
  <2> QED BY <1>4, <1>5, <2>3, <2>4
<1>10. CASE SupersedeBy(p)
  <2> DEFINE c == cmd[p]
             first == [c.d EXCEPT !.status = "superseded", !.superseded_by = c.new]
             second == [records[c.new] EXCEPT !.supersedes = c.id]
             ws == <<<<c.id, first>>, <<c.new, second>>>>
  <2>1. c.id \in Ids /\ c.new \in Ids /\ c.d \in Decision /\ Earned(c.d)
    BY <1>1, <1>10, StageShapes DEF SupersedeBy, EarnedBy
  <2>2. CASE Become(p, Idle) /\ tried' = tried
    BY <1>4, <1>5, <2>2
  <2>3. CASE Readable(c.new) /\ Become(p, Writing("supersede", ws)) /\ tried' = tried
    <3>1. records[c.new] \in Decision /\ Earned(records[c.new])
      BY <2>1, <2>3, ReadIsARecord
    <3>2. first \in Decision /\ Earned(first) /\ second \in Decision /\ Earned(second)
      BY <1>1, <2>1, <3>1, RecordsStayRecords, ChangesStayEarned
    <3> HIDE DEF first, second, c
    <3>3. /\ ws \in Seq(Ids \X Decision) \ {<<>>}
          /\ DOMAIN ws = {1, 2} /\ ws[1][2] = first /\ ws[2][2] = second
      BY <2>1, <3>2
    <3> HIDE DEF ws
    <3>4. Writing("supersede", ws) \in Commands /\ EarnedBy(Writing("supersede", ws))
      BY <3>2, <3>3 DEF Writing, Commands, WritingCommands, EarnedBy
    <3> QED BY <1>4, <1>5, <2>3, <3>4
  <2> QED BY <1>10, <2>2, <2>3 DEF SupersedeBy, End, Handover, history
<1>11. CASE CheckScan(p)
  <2> DEFINE c == [verb |-> "check", stage |-> "print", full |-> cmd[p].full,
                   gate |-> cmd[p].gate, ds |-> cmd[p].ds, tree |-> code]
  <2>1. cmd[p] \in Checks /\ cmd[p].stage = "scan" /\ code \in Trees
    BY <1>1, <1>11, StageShapes DEF CheckScan, TypeOK
  <2>2. c \in Commands /\ EarnedBy(c)
    BY <2>1 DEF Commands, Checks, EarnedBy
  <2>3. tried' = tried /\ Become(p, c)
    BY <1>11 DEF CheckScan, history
  <2> QED BY <1>4, <1>5, <2>2, <2>3
<1>12. CASE CheckPrint(p)
  <2> DEFINE c == [verb |-> "check", stage |-> "reload", full |-> cmd[p].full,
                   gate |-> cmd[p].gate,
                   violated |-> IntegrityViolations(cmd[p].ds),
                   failed |-> \/ IntegrityViolations(cmd[p].ds) # {}
                              \/ DanglingUp(cmd[p].ds, cmd[p].tree) # {},
                   routed |-> \/ UnreconciledTier2(cmd[p].ds, cmd[p].tree) # {}
                              \/ SuspectTier2(cmd[p].ds, cmd[p].tree, code) # {}]
  <2>1. cmd[p] \in Checks /\ cmd[p].stage = "print"
    BY <1>1, <1>12, StageShapes DEF CheckPrint
  <2>2. c \in Commands /\ EarnedBy(c)
    <3>1. IntegrityViolations(cmd[p].ds) \in SUBSET Ids
      BY DEF IntegrityViolations, Ratified
    <3> QED BY <2>1, <3>1 DEF Commands, Checks, EarnedBy
  <2>3. tried' = tried /\ (Become(p, c) \/ Become(p, Idle))
    BY <1>12 DEF CheckPrint, End, history
  <2> QED BY <1>4, <1>5, <2>2, <2>3
<1>13. CASE CheckReload(p)
  <2> DEFINE bodies == {Loaded[id].text :
                        id \in Selected(Armed(Loaded, cmd[p].violated), cmd[p].full)}
             c == [verb |-> "check", stage |-> "run", full |-> cmd[p].full,
                   gate |-> cmd[p].gate, failed |-> cmd[p].failed,
                   routed |-> cmd[p].routed, pending |-> bodies]
  <2>1. cmd[p] \in Checks /\ cmd[p].stage = "reload"
    BY <1>1, <1>13, StageShapes DEF CheckReload
  <2>2. bodies \subseteq Texts
    <3>1. \A id \in Ids : Loaded[id] # None => Loaded[id] \in Decision
      BY ReadIsARecord DEF Loaded
    <3>2. Selected(Armed(Loaded, cmd[p].violated), cmd[p].full)
            \subseteq {id \in Ids : Loaded[id] # None}
      BY DEF Selected, Armed, Ratified
    <3> QED BY <3>1, <3>2 DEF Decision
  <2> HIDE DEF bodies
  <2>3. c \in Commands /\ EarnedBy(c)
    BY <2>1, <2>2 DEF Commands, Checks, EarnedBy
  <2>4. tried' = tried /\ Become(p, c)
    BY <1>13 DEF CheckReload, history, bodies
  <2> QED BY <1>4, <1>5, <2>3, <2>4
<1>14. CASE RunCheck(p)
  <2>1. cmd[p] \in Checks /\ cmd[p].stage = "run"
    BY <1>1, <1>14, StageShapes DEF RunCheck
  <2>2. PICK t, outcome :
          cmd' = [cmd EXCEPT ![p].pending = @ \ {t}, ![p].failed = @ \/ Failure(outcome)]
    BY <1>14 DEF RunCheck
  <2> DEFINE c == [cmd[p] EXCEPT !.pending = @ \ {t}, !.failed = @ \/ Failure(outcome)]
  <2>3. c \in Commands /\ EarnedBy(c)
    <3>1. (cmd[p].failed \/ Failure(outcome)) \in BOOLEAN
      OBVIOUS
    <3> QED BY <2>1, <3>1 DEF Commands, Checks, EarnedBy
  <2>4. tried' = tried /\ Become(p, c)
    BY <1>14, <2>2 DEF RunCheck, history, Become
  <2> QED BY <1>4, <1>5, <2>3, <2>4
<1>15. CASE Report(p)
  <2> DEFINE c == [verb |-> "check", stage |-> "end", full |-> cmd[p].full,
                   gate |-> cmd[p].gate,
                   exit |-> IF cmd[p].failed \/ (cmd[p].gate /\ cmd[p].routed)
                            THEN "validation" ELSE "ok"]
  <2>1. cmd[p] \in Checks /\ cmd[p].stage = "run"
    BY <1>1, <1>15, StageShapes DEF Report
  <2>2. c \in Commands /\ EarnedBy(c)
    BY <2>1 DEF Commands, Checks, EarnedBy
  <2>3. tried' = tried /\ Become(p, c)
    BY <1>15 DEF Report, history
  <2> QED BY <1>4, <1>5, <2>2, <2>3
<1>16. CASE Kill(p)
  BY <1>4, <1>5, <1>16 DEF Kill, End, history
<1> QED
  BY <1>6, <1>7, <1>8, <1>9, <1>10, <1>11, <1>12, <1>13, <1>14, <1>15, <1>16

\* The two halves of a write.
LEMMA WritingKeepsLocks ==
  ASSUME LockInv, NEW p \in Procs, Truncate(p) \/ Fill(p)
  PROVE  LockInv'
PROOF
<1>1. /\ TypeOK /\ cmd \in [Procs -> Commands] /\ EarnedBy(cmd[p])
      /\ cmd[p].stage \in {"open", "fill"}
  BY DEF LockInv, TypeOK, Commands, Truncate, Fill
<1>2. /\ UNCHANGED <<agenda, code, spent, tried>> /\ moved' \subseteq Procs
  BY <1>1 DEF Truncate, Fill, Others, history, TypeOK
<1>3. /\ \A d : Earned(d) => Earned(d)'
      /\ \A c : EarnedBy(c) => EarnedBy(c)'
  BY <1>2 DEF Earned, EarnedBy
<1> DEFINE w == Head(cmd[p].writes)
<1>4. w \in Ids \X Decision /\ Earned(w[2])
  BY <1>1, WritingRest
<1>5. CASE Truncate(p)
  <2> DEFINE c == [cmd[p] EXCEPT !.stage = "fill"]
  <2>1. cmd[p] \in [verb : {"new", "ratify", "reconcile", "betray", "retire", "supersede"},
                    stage : {"open", "fill"}, writes : Seq(Ids \X Decision) \ {<<>>}]
    BY <1>1, StageShapes
  <2>2. c \in Commands /\ EarnedBy(c)
    BY <1>1, <2>1 DEF Commands, WritingCommands, EarnedBy
  <2>3. /\ cmd' = [cmd EXCEPT ![p] = c] /\ torn' = torn \cup {w[1]}
        /\ UNCHANGED <<records, reviewed>>
    BY <1>5 DEF Truncate, history
  <2>4. cmd' \in [Procs -> Commands] /\ \A q \in Procs : EarnedBy(cmd'[q])
    BY <1>1, <2>2, <2>3 DEF LockInv
  <2>5. TypeOK'
    BY <1>1, <1>2, <1>4, <2>3, <2>4 DEF TypeOK, Commands
  <2>6. \A q \in Procs : EarnedBy(cmd[q])'
    BY <1>3, <2>4 DEF EarnedBy, Earned
  <2> QED BY <1>3, <2>3, <2>5, <2>6 DEF LockInv
<1>6. CASE Fill(p)
  <2> DEFINE c == IF Tail(cmd[p].writes) = <<>> THEN Idle
                  ELSE Writing(cmd[p].verb, Tail(cmd[p].writes))
  <2>1. c \in Commands /\ EarnedBy(c)
    BY <1>1, WritingRest DEF Commands, Idle, EarnedBy
  <2>2. /\ cmd' = [cmd EXCEPT ![p] = c] /\ records' = [records EXCEPT ![w[1]] = w[2]]
        /\ torn' = torn \ {w[1]} \/ torn' = torn \cup {w[1]}
        /\ reviewed' = reviewed \/ reviewed' = [reviewed EXCEPT ![w[1]] = w[2].text]
    BY <1>6 DEF Fill, End, Become
  <2>3. cmd' \in [Procs -> Commands] /\ \A q \in Procs : EarnedBy(cmd'[q])
    BY <1>1, <2>1, <2>2 DEF LockInv
  <2>4. w[1] \in Ids /\ w[2] \in Decision /\ w[2].text \in Texts
    BY <1>4 DEF Decision
  <2> HIDE DEF w, c
  <2>5. /\ records' \in [Ids -> Decision \cup {None}]
        /\ reviewed' \in [Ids -> Texts \cup {None}]
        /\ torn' \subseteq Ids
    BY <1>1, <2>2, <2>4 DEF TypeOK
  <2>6. TypeOK'
    BY <1>1, <1>2, <2>3, <2>5 DEF TypeOK, Commands
  <2>7. \A q \in Procs : EarnedBy(cmd[q])'
    BY <1>3, <2>3 DEF EarnedBy, Earned
  <2>8. \A id \in Ids : records'[id] # None => Earned(records'[id])
    BY <1>1, <1>4, <2>2 DEF LockInv, TypeOK, w
  <2>9. \A id \in Ids : records'[id] # None => Earned(records[id])'
    BY <1>2, <2>8 DEF Earned
  <2> QED BY <2>6, <2>7, <2>9 DEF LockInv
<1> QED BY <1>5, <1>6

\* What the owner and the agent do to the files.
LEMMA EditKeepsLocks ==
  ASSUME LockInv, Environment
  PROVE  LockInv'
PROOF
<1>1. TypeOK /\ code \in [Files -> Sources \cup {None}]
  BY DEF LockInv, TypeOK, Trees
<1>2. /\ UNCHANGED <<agenda, cmd, tried, reviewed>>
      /\ spent' \in [commands : 0 .. agenda.commands, edits : 0 .. agenda.edits]
      /\ moved' \subseteq Procs
  BY <1>1, SpentInBounds DEF Environment, EditCode, EditBody, Restore, Edit, history
<1>3. /\ \A d : Earned(d)' <=> Earned(d)
      /\ \A q \in Procs : EarnedBy(cmd[q])'
  BY <1>2 DEF LockInv, Earned, EarnedBy
<1>4. SUFFICES /\ records' \in [Ids -> Decision \cup {None}] /\ torn' \subseteq Ids
               /\ code' \in [Files -> Sources \cup {None}]
               /\ \A id \in Ids : records'[id] # None => Earned(records'[id])
  <2>1. \A id \in Ids : records'[id] # None => Earned(records[id])'
    BY <1>2, <1>4 DEF Earned
  <2>2. TypeOK'
    BY <1>1, <1>2, <1>4 DEF TypeOK, Trees
  <2> QED BY <1>3, <2>1, <2>2 DEF LockInv
<1>5. ASSUME NEW f \in Files, NEW source \in agenda.sources, EditCode(f, source)
      PROVE  /\ UNCHANGED <<records, torn>> /\ code' \in [Files -> Sources \cup {None}]
  BY <1>1, <1>5, SpentInBounds DEF EditCode
<1>6. ASSUME NEW id \in Ids, Restore(id)
      PROVE  UNCHANGED <<records, code>> /\ torn' \subseteq Ids
  BY <1>1, <1>6 DEF Restore, TypeOK
<1>7. ASSUME NEW id \in Ids, NEW t \in agenda.texts, EditBody(id, t)
      PROVE  /\ UNCHANGED <<torn, code>> /\ records' \in [Ids -> Decision \cup {None}]
             /\ \A i \in Ids : records'[i] # None => Earned(records'[i])
  <2>1. records[id] \in Decision /\ Earned(records[id]) /\ t \in Texts
    BY <1>1, <1>7, SpentInBounds DEF EditBody, TypeOK, LockInv
  <2>2. /\ [records[id] EXCEPT !.text = t] \in Decision
        /\ Earned([records[id] EXCEPT !.text = t])
    BY <2>1 DEF Decision, Earned
  <2>3. /\ records' = [records EXCEPT ![id] = [records[id] EXCEPT !.text = t]]
        /\ UNCHANGED <<torn, code>>
    BY <1>7 DEF EditBody
  <2> QED BY <1>1, <2>2, <2>3 DEF TypeOK, LockInv
<1> QED
  BY <1>1, <1>5, <1>6, <1>7 DEF Environment, LockInv, TypeOK

LEMMA InitLocks == Init => LockInv
PROOF
<1> SUFFICES ASSUME Init PROVE LockInv
  OBVIOUS
<1>1. /\ agenda \in Agendas /\ records \in [Ids -> Decision \cup {None}]
      /\ code \in [Files -> Sources \cup {None}]
      /\ agenda.commands \in Nat /\ agenda.edits \in Nat
  BY AgendaAssumption DEF Init
<1>2. \A id \in Ids : records[id] # None => Earned(records[id])
  BY DEF Init, Earned
<1>3. tried \subseteq Texts
  BY <1>1 DEF Init, Decision
<1>4. TypeOK
  BY <1>1, <1>3 DEF Init, TypeOK, Trees
<1>5. \A p \in Procs : EarnedBy(cmd[p])
  BY DEF Init, Idle, EarnedBy
<1> QED BY <1>2, <1>4, <1>5 DEF LockInv

LEMMA LocksKept == LockInv /\ [Next]_vars => LockInv'
PROOF
<1> SUFFICES ASSUME LockInv, [Next]_vars PROVE LockInv'
  OBVIOUS
<1>1. CASE UNCHANGED vars
  BY <1>1 DEF vars, LockInv, TypeOK, Earned, EarnedBy
<1>2. CASE Environment
  BY <1>2, EditKeepsLocks
<1>3. ASSUME NEW p \in Procs, Command(p) \/ Proceed(p) \/ Kill(p) PROVE LockInv'
  BY <1>3, CommandKeepsLocks, ReadingKeepsLocks, WritingKeepsLocks DEF Proceed
<1> QED BY <1>1, <1>2, <1>3 DEF Next

\* The strengthening holds: whoever writes a record back writes a lock that was
\* earned, however old the reading it goes back to.
THEOREM LocksEarned == Spec => []LockInv
PROOF
BY InitLocks, LocksKept, PTL DEF Spec

\* Every reachable state has its declared type.
THEOREM TypeCorrect == Spec => []TypeOK
PROOF
<1>1. LockInv => TypeOK
  BY DEF LockInv
<1> QED BY <1>1, LocksEarned, PTL

\* No body is locked as a ratified check that was never seen to pass on the code
\* and to fail in the sandbox (ratify, bite_test).
THEOREM LockedAlwaysTried == Spec => []LockedTextWasTried
PROOF
<1>1. LockInv => LockedTextWasTried
  BY NoneAssumption
  DEF LockInv, TypeOK, LockedTextWasTried, Locked, Readable, Earned, TierOf, Decision
<1> QED BY <1>1, LocksEarned, PTL
-----------------------------------------------------------------------------
(* A clean check.                                                          *)

\* What run_check settles with a reading of the records and of the code.
Consistent == IntegrityViolations(Loaded) = {} /\ DanglingUp(Loaded, code) = {}
Reconciled == /\ UnreconciledTier2(Loaded, code) = {}
              /\ SuspectTier2(Loaded, code, code) = {}

\* What a check knows of the files at each stage, if they are as it read them.
Seen(c) ==
  /\ c.stage \in {"scan", "print", "reload", "run"} => Malformed = {}
  /\ c.stage \in {"scan", "print"} => c.ds = Loaded
  /\ c.stage = "print" => c.tree = code
  /\ c.stage = "reload" => c.violated = IntegrityViolations(Loaded)
  /\ c.stage \in {"reload", "run"} => (c.failed \/ Consistent) /\ (c.routed \/ Reconciled)
  /\ c.stage = "run" /\ c.full /\ ~c.failed =>
       \A id \in Armed(Loaded, {}) :
         Loaded[id].text \in c.pending \/ Holds(Loaded[id].text, code)
  /\ c.stage = "end" /\ c.full /\ c.exit = "ok" => Conforms(c.gate)

SeenInv ==
  /\ TypeOK
  /\ \A p \in Procs : cmd[p].verb = "check" /\ p \notin moved => Seen(cmd[p])

\* What is known of files holds as long as they stay the same.
LEMMA SameFiles ==
  ASSUME UNCHANGED <<records, torn, code>>, NEW c, Seen(c)
  PROVE  Seen(c)'
PROOF
<1>1. /\ Malformed' = Malformed /\ Loaded' = Loaded
      /\ IntegrityViolations(Loaded)' = IntegrityViolations(Loaded)
      /\ Armed(Loaded, {})' = Armed(Loaded, {})
  BY DEF Malformed, Loaded, Exists, Readable, IntegrityViolations, Armed, Ratified
<1>2. Consistent' <=> Consistent
  BY DEF Consistent, Loaded, Readable, IntegrityViolations, DanglingUp, AnchorsIn,
         EffectiveRatified, Ratified
<1>3. Reconciled' <=> Reconciled
  BY DEF Reconciled, Loaded, Readable, UnreconciledTier2, SuspectTier2, Reviewable,
         EffectiveRatified, IntegrityViolations, Ratified, Anchored
<1>4. \A t : Holds(t, code)' <=> Holds(t, code)
  BY DEF Holds
<1>5. \A gate : Conforms(gate)' <=> Conforms(gate)
  BY <1>1 DEF Conforms, Holds, Anchored
<1> QED BY <1>1, <1>2, <1>3, <1>4, <1>5 DEF Seen, Holds

\* A step of one command that leaves the files as they are, and what the others
\* have seen of them.
LEMMA OthersStillSee ==
  ASSUME SeenInv, TypeOK', NEW p \in Procs, NEW c, Become(p, c),
         UNCHANGED <<records, torn, code>>,
         moved' = moved \/ moved' = moved \ {p},
         c.verb = "check" /\ p \notin moved' => Seen(c)
  PROVE  SeenInv'
PROOF
<1>1. /\ cmd'[p] = c
      /\ \A q \in Procs \ {p} : cmd'[q] = cmd[q] /\ (q \in moved' <=> q \in moved)
  BY DEF Become, SeenInv, TypeOK
<1>2. SUFFICES ASSUME NEW q \in Procs, cmd'[q].verb = "check", q \notin moved'
               PROVE  Seen(cmd[q])'
  BY DEF SeenInv
<1>3. PICK e : e = cmd'[q] /\ Seen(e)
  BY <1>1, <1>2 DEF SeenInv
<1>4. Seen(e)'
  BY <1>3, SameFiles
<1> QED BY <1>3, <1>4 DEF Seen

\* A file that changes under every other command leaves them nothing to know.
LEMMA NobodySees ==
  ASSUME TypeOK', NEW p \in Procs, cmd'[p].verb # "check", Others(p) \subseteq moved'
  PROVE  SeenInv'
PROOF
BY DEF SeenInv, Others

\* What run_check and the checks settle, taken together, is that all conforms.
LEMMA SettledConforms ==
  ASSUME TypeOK, Malformed = {}, Consistent, NEW gate, gate => Reconciled,
         \A id \in Armed(Loaded, {}) : Holds(Loaded[id].text, code)
  PROVE  Conforms(gate)
PROOF
<1>1. \A id \in Ids : records[id] # None => Loaded[id] = records[id] /\ records[id] \in Decision
  BY DEF Malformed, Exists, Loaded, TypeOK
<1>2. \A id \in Ids : Loaded[id] # None => Loaded[id] = records[id]
  BY DEF Loaded
<1>3. ASSUME NEW f \in Files, code[f] # None, NEW id \in code[f].anchors
      PROVE  /\ records[id] # None /\ records[id].status = "ratified"
             /\ records[id].ratified_text_hash \in {None, records[id].text}
  <2>1. id \in AnchorsIn(code)
    BY <1>3 DEF AnchorsIn
  <2>2. id \in Ratified(Loaded) /\ id \notin IntegrityViolations(Loaded)
    BY <2>1 DEF Consistent, DanglingUp, EffectiveRatified
  <2> QED BY <1>2, <2>2 DEF Ratified, IntegrityViolations
<1>4. ASSUME NEW id \in Ids, records[id] # None, records[id].status = "ratified"
      PROVE  /\ records[id].ratified_text_hash \in {None, records[id].text}
             /\ TierOf(records[id]) = 1 => Holds(records[id].text, code)
             /\ gate /\ TierOf(records[id]) = 2 =>
                  \A f \in Anchored(code, id) : records[id].reconciled_anchors[f] = code[f]
  <2>1. id \in Ratified(Loaded) /\ Loaded[id] = records[id]
    BY <1>1, <1>4 DEF Ratified
  <2>2. id \notin IntegrityViolations(Loaded)
    BY DEF Consistent
  <2>3. records[id].ratified_text_hash \in {None, records[id].text}
    BY <2>1, <2>2 DEF IntegrityViolations
  <2>4. TierOf(records[id]) = 1 => Holds(records[id].text, code)
    BY <2>1 DEF Armed
  <2>5. ASSUME gate, TierOf(records[id]) = 2, NEW f \in Anchored(code, id)
        PROVE  records[id].reconciled_anchors[f] = code[f]
    <3>1. id \in Reviewable(Loaded, code)
      BY <2>1, <2>2, <2>5 DEF Reviewable, EffectiveRatified
    <3>2. HasBaseline(Loaded[id])
      BY <2>5, <3>1 DEF Reconciled, UnreconciledTier2
    <3> QED BY <2>1, <2>5, <3>1, <3>2 DEF Reconciled, SuspectTier2
  <2> QED BY <2>3, <2>4, <2>5
<1> QED BY <1>3, <1>4 DEF Conforms

\* Each stage of a check hands on what it knows.
LEMMA CheckStepsSee ==
  ASSUME SeenInv, TypeOK', NEW p \in Procs,
         CheckScan(p) \/ CheckPrint(p) \/ CheckReload(p) \/ RunCheck(p) \/ Report(p)
  PROVE  SeenInv'
PROOF
<1>1. /\ TypeOK /\ cmd[p] \in Commands
      /\ cmd[p].verb = "check" => cmd[p] \in Checks
      /\ cmd[p].stage \in {"reload", "run"} => cmd[p] \in Checks
  <2>1. TypeOK /\ cmd[p] \in Commands
    BY DEF SeenInv, TypeOK, Commands
  <2> QED BY <2>1, StageShapes
<1>2. /\ UNCHANGED <<records, torn, code, moved>>
      /\ cmd[p] \in Checks /\ cmd[p].verb = "check"
  <2>1. \A c \in Checks : c.verb = "check"
    BY DEF Checks
  <2> QED BY <1>1, <2>1 DEF CheckScan, CheckPrint, CheckReload, RunCheck, Report
<1>3. SUFFICES ASSUME p \notin moved
               PROVE  \E c : Become(p, c) /\ (c.verb = "check" => Seen(c))
  <2>1. CASE p \in moved
    <3>1. PICK c : Become(p, c)
      BY <1>2 DEF CheckScan, CheckPrint, CheckReload, RunCheck, Report, Become, End
    <3> QED BY <1>2, <2>1, <3>1, OthersStillSee
  <2>2. CASE p \notin moved
    BY <1>2, <1>3, <2>2, OthersStillSee
  <2> QED BY <2>1, <2>2
<1>4. Seen(cmd[p])
  BY <1>2, <1>3 DEF SeenInv
<1>5. Idle.verb # "check"
  BY DEF Idle
<1>6. CASE CheckScan(p)
  <2> DEFINE c == [verb |-> "check", stage |-> "print", full |-> cmd[p].full,
                   gate |-> cmd[p].gate, ds |-> cmd[p].ds, tree |-> code]
  <2>1. Become(p, c) /\ cmd[p].stage = "scan"
    BY <1>6 DEF CheckScan
  <2>2. Seen(c)
    BY <1>4, <2>1 DEF Seen
  <2> QED BY <2>1, <2>2
<1>7. CASE CheckPrint(p)
  <2> DEFINE c == [verb |-> "check", stage |-> "reload", full |-> cmd[p].full,
                   gate |-> cmd[p].gate,
                   violated |-> IntegrityViolations(cmd[p].ds),
                   failed |-> \/ IntegrityViolations(cmd[p].ds) # {}
                              \/ DanglingUp(cmd[p].ds, cmd[p].tree) # {},
                   routed |-> \/ UnreconciledTier2(cmd[p].ds, cmd[p].tree) # {}
                              \/ SuspectTier2(cmd[p].ds, cmd[p].tree, code) # {}]
  <2>1. (Become(p, c) \/ Become(p, Idle)) /\ cmd[p].stage = "print"
    BY <1>7 DEF CheckPrint, End
  <2>2. cmd[p].ds = Loaded /\ cmd[p].tree = code /\ Malformed = {}
    BY <1>4, <2>1 DEF Seen
  <2>3. Seen(c)
    BY <2>2 DEF Seen, Consistent, Reconciled
  <2> QED BY <1>5, <2>1, <2>3
<1>8. CASE CheckReload(p)
  <2> DEFINE bodies == {Loaded[id].text :
                        id \in Selected(Armed(Loaded, cmd[p].violated), cmd[p].full)}
             c == [verb |-> "check", stage |-> "run", full |-> cmd[p].full,
                   gate |-> cmd[p].gate, failed |-> cmd[p].failed,
                   routed |-> cmd[p].routed, pending |-> bodies]
  <2>1. Become(p, c) /\ cmd[p].stage = "reload"
    BY <1>8 DEF CheckReload
  <2>2. /\ cmd[p].violated = IntegrityViolations(Loaded) /\ Malformed = {}
        /\ cmd[p].failed \/ Consistent
        /\ cmd[p].routed \/ Reconciled
    BY <1>4, <2>1 DEF Seen
  <2>3. cmd[p].full /\ ~cmd[p].failed =>
          \A id \in Armed(Loaded, {}) : Loaded[id].text \in bodies
    BY <2>2 DEF Consistent, Selected
  <2> HIDE DEF bodies
  <2>4. Seen(c)
    BY <2>2, <2>3 DEF Seen
  <2> QED BY <2>1, <2>4
<1>9. CASE RunCheck(p)
  <2>1. PICK t \in cmd[p].pending : \E outcome \in Outcomes(t, code) :
          cmd' = [cmd EXCEPT ![p].pending = @ \ {t}, ![p].failed = @ \/ Failure(outcome)]
    BY <1>9 DEF RunCheck
  <2>2. PICK outcome \in Outcomes(t, code) :
          cmd' = [cmd EXCEPT ![p].pending = @ \ {t}, ![p].failed = @ \/ Failure(outcome)]
    BY <2>1
  <2> DEFINE c == [cmd[p] EXCEPT !.pending = @ \ {t}, !.failed = @ \/ Failure(outcome)]
  <2>3. Become(p, c) /\ cmd[p].stage = "run"
    BY <1>9, <2>2 DEF RunCheck, Become
  <2>4. ~Failure(outcome) => Holds(t, code)
    BY DEF Failure, Outcomes
  <2>5. /\ c.stage = "run" /\ c.full = cmd[p].full
        /\ c.routed = cmd[p].routed /\ c.pending = cmd[p].pending \ {t}
        /\ c.failed <=> cmd[p].failed \/ Failure(outcome)
    BY <1>2, <2>3 DEF Checks
  <2> HIDE DEF c
  <2>6. Seen(c)
    BY <1>4, <2>3, <2>4, <2>5 DEF Seen
  <2> QED BY <2>3, <2>6
<1>10. CASE Report(p)
  <2> DEFINE c == [verb |-> "check", stage |-> "end", full |-> cmd[p].full,
                   gate |-> cmd[p].gate,
                   exit |-> IF cmd[p].failed \/ (cmd[p].gate /\ cmd[p].routed)
                            THEN "validation" ELSE "ok"]
  <2>1. Become(p, c) /\ cmd[p].stage = "run" /\ cmd[p].pending = {}
    BY <1>10 DEF Report
  <2>2. ASSUME c.full, c.exit = "ok" PROVE Conforms(c.gate)
    <3>1. ~cmd[p].failed /\ (cmd[p].gate => ~cmd[p].routed) /\ cmd[p].full
      BY <2>2
    <3>2. /\ Malformed = {} /\ Consistent /\ (cmd[p].gate => Reconciled)
          /\ \A id \in Armed(Loaded, {}) : Holds(Loaded[id].text, code)
      BY <1>4, <2>1, <3>1 DEF Seen
    <3> QED BY <1>1, <3>2, SettledConforms
  <2>3. Seen(c)
    BY <2>2 DEF Seen
  <2> QED BY <2>1, <2>3
<1> QED BY <1>6, <1>7, <1>8, <1>9, <1>10

LEMMA InitSees == Init => SeenInv
PROOF
<1>1. Init => \A p \in Procs : cmd[p].verb # "check"
  BY DEF Init, Idle
<1> QED BY <1>1, InitLocks DEF LockInv, SeenInv

\* Where a command begins: a check reads the records that parse, or ends there.
LEMMA CommandsSee ==
  ASSUME SeenInv, TypeOK', NEW p \in Procs, Command(p)
  PROVE  SeenInv'
PROOF
<1>1. UNCHANGED <<records, torn, code>> /\ moved' = moved \ {p}
  BY DEF Command, New, Ratify, Reconcile, Betray, Retire, Supersede, Check, Begin
<1>2. SUFFICES \E c : Become(p, c) /\ (c.verb = "check" => Seen(c))
  BY <1>1, <1>2, OthersStillSee
<1>3. ASSUME NEW full \in BOOLEAN, NEW gate \in BOOLEAN, Check(p, full, gate)
      PROVE  \E c : Become(p, c) /\ (c.verb = "check" => Seen(c))
  <2>1. CASE Malformed # {}
    <3> DEFINE c == [verb |-> "check", stage |-> "end", full |-> full, gate |-> gate,
                     exit |-> "no_config"]
    <3>1. Become(p, c) /\ Seen(c)
      BY <1>3, <2>1 DEF Check, Seen
    <3> QED BY <3>1
  <2>2. CASE Malformed = {}
    <3> DEFINE c == [verb |-> "check", stage |-> "scan", full |-> full, gate |-> gate,
                     ds |-> Loaded]
    <3>1. Become(p, c) /\ Seen(c)
      BY <1>3, <2>2 DEF Check, Seen
    <3> QED BY <3>1
  <2> QED BY <2>1, <2>2
<1>4. ASSUME NEW id \in Ids,
             \/ \E t \in agenda.texts : New(p, id, t)
             \/ Ratify(p, id) \/ Reconcile(p, id) \/ Betray(p, id) \/ Retire(p, id)
             \/ \E new \in Ids : Supersede(p, id, new)
      PROVE  \E c : Become(p, c) /\ c.verb # "check"
  <2>1. \A w : Writing("new", w).verb # "check" /\ Writing("ratify", w).verb # "check"
               /\ Writing("betray", w).verb # "check" /\ Writing("retire", w).verb # "check"
    BY DEF Writing
  <2>2. CASE Ratify(p, id)
    BY <2>1, <2>2 DEF Ratify
  <2>3. CASE \E t \in agenda.texts : New(p, id, t)
    BY <2>1, <2>3 DEF New
  <2>4. CASE Betray(p, id) \/ Retire(p, id)
    BY <2>1, <2>4 DEF Betray, Retire
  <2>5. CASE Reconcile(p, id)
    <3> DEFINE c == [verb |-> "reconcile", stage |-> "scan", id |-> id, d |-> records[id]]
    <3>1. Become(p, c) /\ c.verb # "check"
      BY <2>5 DEF Reconcile
    <3> QED BY <3>1
  <2>6. ASSUME NEW new \in Ids, Supersede(p, id, new)
        PROVE  \E c : Become(p, c) /\ c.verb # "check"
    <3> DEFINE c == [verb |-> "supersede", stage |-> "successor", id |-> id, new |-> new,
                     d |-> records[id]]
    <3>1. Become(p, c) /\ c.verb # "check"
      BY <2>6 DEF Supersede
    <3> QED BY <3>1
  <2> QED BY <1>4, <2>2, <2>3, <2>4, <2>5, <2>6
<1> QED BY <1>3, <1>4 DEF Command

\* The steps of the commands that write, up to the write.
LEMMA WritersSee ==
  ASSUME SeenInv, TypeOK', NEW p \in Procs,
         \/ PassSide(p) \/ BiteSide(p) \/ ReconcileScan(p) \/ ReconcilePrint(p)
         \/ SupersedeBy(p) \/ Kill(p)
  PROVE  SeenInv'
PROOF
<1>1. UNCHANGED <<records, torn, code, moved>>
  BY DEF PassSide, BiteSide, ReconcileScan, ReconcilePrint, SupersedeBy, Kill
<1>2. SUFFICES \E c : Become(p, c) /\ c.verb # "check"
  BY <1>1, <1>2, OthersStillSee
<1>3. /\ Idle.verb # "check"
      /\ \A w : /\ Writing("ratify", w).verb # "check"
                /\ Writing("reconcile", w).verb # "check"
                /\ Writing("supersede", w).verb # "check"
  BY DEF Idle, Writing
<1>4. CASE PassSide(p)
  <2>1. cmd[p] \in Commands /\ cmd[p].stage = "pass"
    BY <1>4 DEF SeenInv, TypeOK, Commands, PassSide
  <2>2. cmd[p] \in [verb : {"ratify"}, stage : {"pass", "bite"}, id : Ids, d : Decision]
    BY <2>1, StageShapes
  <2>3. [cmd[p] EXCEPT !.stage = "bite"].verb # "check"
    BY <2>2
  <2> QED BY <1>3, <1>4, <2>3 DEF PassSide, End
<1>5. CASE BiteSide(p) \/ ReconcilePrint(p) \/ SupersedeBy(p) \/ Kill(p)
  BY <1>3, <1>5 DEF BiteSide, ReconcilePrint, SupersedeBy, Kill, End
<1>6. CASE ReconcileScan(p)
  BY <1>3, <1>6 DEF ReconcileScan, End
<1> QED BY <1>4, <1>5, <1>6

LEMMA ChecksSee == LockInv /\ SeenInv /\ [Next]_vars => SeenInv'
PROOF
<1> SUFFICES ASSUME LockInv, SeenInv, [Next]_vars PROVE SeenInv'
  OBVIOUS
<1>1. LockInv' /\ TypeOK /\ TypeOK'
  BY LocksKept DEF LockInv
<1>2. CASE UNCHANGED vars
  <2>1. ASSUME NEW p \in Procs, cmd'[p].verb = "check", p \notin moved'
        PROVE  Seen(cmd[p])'
    <3>1. PICK c : c = cmd[p] /\ Seen(c)
      BY <1>2, <2>1 DEF vars, SeenInv
    <3>2. Seen(c)'
      BY <1>2, <3>1, SameFiles DEF vars
    <3> QED BY <1>2, <3>1, <3>2 DEF vars, Seen
  <2> QED BY <1>1, <2>1 DEF SeenInv
<1>3. CASE Environment
  <2>1. moved' = Procs
    BY <1>3 DEF Environment, EditCode, EditBody, Restore, Edit
  <2> QED BY <1>1, <2>1 DEF SeenInv
<1>4. ASSUME NEW p \in Procs, Command(p) \/ Proceed(p) \/ Kill(p) PROVE SeenInv'
  <2>1. CASE Truncate(p) \/ Fill(p)
    <3>1. cmd[p].verb # "check" /\ Others(p) \subseteq moved'
      <4>1. cmd[p] \in Commands /\ cmd[p].stage \in {"open", "fill"}
        BY <1>1, <2>1 DEF TypeOK, Commands, Truncate, Fill
      <4> QED BY <2>1, <4>1, StageShapes DEF Truncate, Fill
    <3>2. cmd'[p].verb # "check"
      <4>1. CASE Truncate(p)
        <5>1. cmd' = [cmd EXCEPT ![p] = [cmd[p] EXCEPT !.stage = "fill"]]
          BY <4>1 DEF Truncate
        <5>2. cmd[p] \in [verb : {"new", "ratify", "reconcile", "betray", "retire", "supersede"},
                          stage : {"open", "fill"}, writes : Seq(Ids \X Decision) \ {<<>>}]
          <6>1. cmd[p] \in Commands /\ cmd[p].stage = "open"
            BY <1>1, <4>1 DEF TypeOK, Commands, Truncate
          <6> QED BY <6>1, StageShapes
        <5> QED BY <1>1, <5>1, <5>2 DEF TypeOK
      <4>2. CASE Fill(p)
        <5>1. \A w : Writing(cmd[p].verb, w).verb = cmd[p].verb
          BY DEF Writing
        <5>2. \E c : Become(p, c) /\ c.verb # "check"
          BY <3>1, <4>2, <5>1 DEF Fill, End, Idle
        <5> QED BY <1>1, <5>2 DEF Become, TypeOK
      <4> QED BY <2>1, <4>1, <4>2
    <3> QED BY <1>1, <3>1, <3>2, NobodySees
  <2> QED BY <1>1, <1>4, <2>1, CommandsSee, WritersSee, CheckStepsSee DEF Proceed
<1> QED BY <1>2, <1>3, <1>4 DEF Next

\* A full check that ends well, on files that nobody touched while it read them
\* in four passes, found a workspace that conforms (check).
THEOREM CleanChecksConform == Spec => []CleanCheckConforms
PROOF
<1>1. SeenInv => CleanCheckConforms
  BY DEF SeenInv, CleanCheckConforms, Seen
<1>2. Spec => []SeenInv
  BY InitSees, ChecksSee, LocksEarned, PTL DEF Spec
<1> QED BY <1>1, <1>2, PTL
=============================================================================
