----------------------------- MODULE Decisions -----------------------------
(***************************************************************************)
(* The decision records under docs/decisions, the anchors in the code that *)
(* name them, and the commands that write and check them.  No lock guards  *)
(* a record: a command reads the file, works on what it read (running a    *)
(* check may take minutes) and writes the whole file back, in place.       *)
(*                                                                         *)
(* A body is a model value; "Body" says what its fenced blocks do.  The    *)
(* hash of a body is the body, the fingerprint of a file is the file.      *)
(***************************************************************************)
EXTENDS Naturals, Sequences, FiniteSets

CONSTANTS
  Ids,       \* decision ids, written or not
  Files,     \* source files in scope
  Contents,  \* what a source file may say beside its anchors
  Texts,     \* normalized bodies
  Body,      \* [Texts -> [tier, counterexample, bites, holds]]
  Procs,     \* processes that run the commands
  None,
  Agendas    \* what the parties may set out to do: see agenda

\* tier 0 is a body that does not parse; a check is satisfied where every file
\* has a content in "holds", and fails on its counterexample when it "bites"
ASSUME BodyAssumption ==
  Body \in [Texts -> [tier : 0 .. 3, counterexample : BOOLEAN, bites : BOOLEAN,
                      holds : SUBSET Contents]]
ASSUME NoneAssumption == None \notin Ids \cup Texts

Sources == [content : Contents, anchors : SUBSET Ids]
Statuses == {"proposed", "ratified", "superseded", "retired"}
Decision ==
  [status : Statuses, text : Texts, ratified_text_hash : Texts \cup {None},
   superseded_by : Ids \cup {None}, supersedes : Ids \cup {None},
   reconciled_anchors : [Files -> Sources \cup {None}], betrayed : BOOLEAN]

ASSUME AgendaAssumption ==
  \A x \in Agendas : /\ x.records \in [Ids -> Decision \cup {None}]
                     /\ x.code \in [Files -> Sources \cup {None}]
                     /\ x.sources \subseteq Sources \cup {None}
                     /\ x.texts \subseteq Texts
                     /\ {x.commands, x.edits} \subseteq Nat
                     /\ x.kills \in BOOLEAN

VARIABLES
  agenda,    \* chosen at the start: the records and the code there are, the
             \* commands that may be run (verbs) and how many, the bodies and
             \* the sources that the owner and the agent may put in a file
             \* (texts, sources) and how often (edits), whether a command may
             \* be killed
  records,   \* the record files: a decision, or None for no file
  torn,      \* the records whose file is the rest of a write
  code,      \* the source files: content and anchors, or None
  cmd,       \* what each process is doing
  spent,     \* commands begun and edits made
  moved,     \* the processes whose command has seen a file change under it
  tried,     \* bodies whose check passed on the tree and failed in the sandbox,
             \* taken to include those that are locked in the records there are
  reviewed   \* the body a decision had at its last reconcile, or None

vars == <<agenda, records, torn, code, cmd, spent, moved, tried, reviewed>>
history == <<tried, reviewed>>
-----------------------------------------------------------------------------
(* Reading a record; what a check run on the tree reports.                 *)

Fresh(t) == [status |-> "proposed", text |-> t, ratified_text_hash |-> None,
             superseded_by |-> None, supersedes |-> None,
             reconciled_anchors |-> [f \in Files |-> None], betrayed |-> FALSE]

Exists(id) == records[id] # None \/ id \in torn
WellFormed(r) == Body[r.text].tier # 0
Readable(id) == records[id] # None /\ id \notin torn /\ WellFormed(records[id])

Malformed == {id \in Ids : Exists(id) /\ ~Readable(id)}
\* None where there is no record or it does not parse
Loaded == [id \in Ids |-> IF Readable(id) THEN records[id] ELSE None]

TierOf(r) == Body[r.text].tier

Anchored(tree, id) == {f \in Files : tree[f] # None /\ id \in tree[f].anchors}
AnchorsIn(tree) == UNION {tree[f].anchors : f \in {g \in Files : tree[g] # None}}

\* A check may also time out or find its tool missing: exit codes -1, 126, 127
Holds(t, tree) ==
  \A f \in Files : tree[f] # None => tree[f].content \in Body[t].holds
Outcomes(t, tree) == {IF Holds(t, tree) THEN "satisfied" ELSE "violated", "unavailable"}
SandboxOutcomes(t, tree) ==
  {IF Holds(t, tree) /\ ~Body[t].bites THEN "satisfied" ELSE "violated", "unavailable"}
-----------------------------------------------------------------------------
(* run_check: what the records and the anchors say of each other.          *)

Ratified(ds) == {id \in Ids : ds[id] # None /\ ds[id].status = "ratified"}

IntegrityViolations(ds) ==
  {id \in Ratified(ds) : ds[id].ratified_text_hash \notin {None, ds[id].text}}

EffectiveRatified(ds) == Ratified(ds) \ IntegrityViolations(ds)

DanglingUp(ds, tree) == AnchorsIn(tree) \ EffectiveRatified(ds)

Reviewable(ds, tree) ==
  {id \in EffectiveRatified(ds) : TierOf(ds[id]) = 2 /\ Anchored(tree, id) # {}}

HasBaseline(d) == \E f \in Files : d.reconciled_anchors[f] # None

UnreconciledTier2(ds, tree) == {id \in Reviewable(ds, tree) : ~HasBaseline(ds[id])}

\* The anchors come from the scan, the fingerprints from the files as they are
SuspectTier2(ds, scanned, tree) ==
  {id \in Reviewable(ds, scanned) :
     /\ HasBaseline(ds[id])
     /\ \E f \in Anchored(scanned, id) : tree[f] # ds[id].reconciled_anchors[f]}

Fingerprinted(ds, scanned) ==
  UNION {Anchored(scanned, id) :
         id \in {i \in Reviewable(ds, scanned) : HasBaseline(ds[i])}}
-----------------------------------------------------------------------------
(* The commands.  A refused command ends where it is refused.              *)

Idle == [verb |-> "none", stage |-> "end"]
Free(p) == cmd[p].stage = "end"

Init ==
  /\ agenda \in Agendas
  /\ records = agenda.records
  /\ torn = {}
  /\ code = agenda.code
  /\ cmd = [p \in Procs |-> Idle]
  /\ spent = [commands |-> 0, edits |-> 0]
  /\ moved = {}
  /\ tried = {records[id].ratified_text_hash : id \in {i \in Ids : records[i] # None}} \ {None}
  /\ reviewed = [id \in Ids |-> None]

Begin(p, verb) ==
  /\ Free(p)
  /\ verb \in agenda.verbs
  /\ spent.commands < agenda.commands
  /\ spent' = [spent EXCEPT !.commands = @ + 1]
  /\ moved' = moved \ {p}

Become(p, c) == cmd' = [cmd EXCEPT ![p] = c]
End(p) == Become(p, Idle)

\* write_decision of each in turn
Writing(verb, writes) == [verb |-> verb, stage |-> "open", writes |-> writes]

New(p, id, t) ==
  /\ Begin(p, "new")
  /\ ~Exists(id)
  /\ Become(p, Writing("new", <<<<id, Fresh(t)>>>>))
  /\ UNCHANGED <<agenda, records, torn, code, history>>

Stamped(d) == [d EXCEPT !.status = "ratified", !.ratified_text_hash = d.text]

MayRatify(d) ==
  /\ d.status \in {"proposed", "ratified"}
  /\ TierOf(d) = 1 => Body[d.text].counterexample

\* A bug: what is ratified once is ratified again without the bite-test.
RatifyOnce(p, id) ==
  /\ Begin(p, "ratify")
  /\ Readable(id)
  /\ MayRatify(records[id])
  /\ Become(p, IF TierOf(records[id]) = 1 /\ records[id].status = "proposed"
               THEN [verb |-> "ratify", stage |-> "pass", id |-> id, d |-> records[id]]
               ELSE Writing("ratify", <<<<id, Stamped(records[id])>>>>))
  /\ UNCHANGED <<agenda, records, torn, code, history>>

Ratify(p, id) ==
  /\ Begin(p, "ratify")
  /\ Readable(id)
  /\ MayRatify(records[id])
  /\ Become(p, IF TierOf(records[id]) = 1
               THEN [verb |-> "ratify", stage |-> "pass", id |-> id, d |-> records[id]]
               ELSE Writing("ratify", <<<<id, Stamped(records[id])>>>>))
  /\ UNCHANGED <<agenda, records, torn, code, history>>

PassSide(p) ==
  /\ cmd[p].stage = "pass"
  /\ \E outcome \in Outcomes(cmd[p].d.text, code) :
       IF outcome = "satisfied" THEN Become(p, [cmd[p] EXCEPT !.stage = "bite"]) ELSE End(p)
  /\ UNCHANGED <<agenda, records, torn, code, spent, moved, history>>

BiteSide(p) ==
  /\ cmd[p].stage = "bite"
  /\ \E outcome \in SandboxOutcomes(cmd[p].d.text, code) :
       IF outcome = "satisfied"
       THEN End(p) /\ UNCHANGED tried
       ELSE /\ Become(p, Writing("ratify", <<<<cmd[p].id, Stamped(cmd[p].d)>>>>))
            /\ tried' = tried \cup {cmd[p].d.text}
  /\ UNCHANGED <<agenda, records, torn, code, spent, moved, reviewed>>

Reviewed(d) == d.status = "ratified" /\ TierOf(d) = 2

Reconcile(p, id) ==
  /\ Begin(p, "reconcile")
  /\ Readable(id)
  /\ Reviewed(records[id])
  /\ Become(p, [verb |-> "reconcile", stage |-> "scan", id |-> id, d |-> records[id]])
  /\ UNCHANGED <<agenda, records, torn, code, history>>

ReconcileScan(p) ==
  /\ cmd[p].verb = "reconcile" /\ cmd[p].stage = "scan"
  /\ IF Anchored(code, cmd[p].id) = {}
     THEN End(p)
     ELSE Become(p, [verb |-> "reconcile", stage |-> "print", id |-> cmd[p].id,
                     d |-> cmd[p].d, anchored |-> Anchored(code, cmd[p].id)])
  /\ UNCHANGED <<agenda, records, torn, code, spent, moved, history>>

Baselined(d, anchored) ==
  [d EXCEPT !.reconciled_anchors = [f \in Files |-> IF f \in anchored THEN code[f] ELSE None],
            !.betrayed = FALSE]

\* A file that was deleted since the scan cannot be read: the command fails
ReconcilePrint(p) ==
  /\ cmd[p].verb = "reconcile" /\ cmd[p].stage = "print"
  /\ LET c == cmd[p] IN
     IF \E f \in c.anchored : code[f] = None
     THEN End(p)
     ELSE Become(p, Writing("reconcile", <<<<c.id, Baselined(c.d, c.anchored)>>>>))
  /\ UNCHANGED <<agenda, records, torn, code, spent, moved, history>>

Betray(p, id) ==
  /\ Begin(p, "betray")
  /\ Readable(id)
  /\ Reviewed(records[id])
  /\ Become(p, Writing("betray", <<<<id, [records[id] EXCEPT !.betrayed = TRUE]>>>>))
  /\ UNCHANGED <<agenda, records, torn, code, history>>

Retire(p, id) ==
  /\ Begin(p, "retire")
  /\ Readable(id)
  /\ Become(p, Writing("retire", <<<<id, [records[id] EXCEPT !.status = "retired"]>>>>))
  /\ UNCHANGED <<agenda, records, torn, code, history>>

Supersede(p, old, new) ==
  /\ Begin(p, "supersede")
  /\ Readable(old)
  /\ Become(p, [verb |-> "supersede", stage |-> "successor", id |-> old, new |-> new,
                d |-> records[old]])
  /\ UNCHANGED <<agenda, records, torn, code, history>>

\* Old first; with old = new the second write is of what was read before the first
Handover(old, d, new, successor) ==
  <<<<old, [d EXCEPT !.status = "superseded", !.superseded_by = new]>>,
    <<new, [successor EXCEPT !.supersedes = old]>>>>

SupersedeBy(p) ==
  /\ cmd[p].stage = "successor"
  /\ LET c == cmd[p] IN
     IF Readable(c.new) /\ records[c.new].status = "ratified"
     THEN Become(p, Writing("supersede", Handover(c.id, c.d, c.new, records[c.new])))
     ELSE End(p)
  /\ UNCHANGED <<agenda, records, torn, code, spent, moved, history>>
-----------------------------------------------------------------------------
(* write_text: the file is opened, which empties it, then written.  When   *)
(* two commands write the same file at once it may end up a mixture, which *)
(* is taken as unreadable.                                                 *)

Others(p) == Procs \ {p}

Truncate(p) ==
  /\ cmd[p].stage = "open"
  /\ torn' = torn \cup {Head(cmd[p].writes)[1]}
  /\ cmd' = [cmd EXCEPT ![p].stage = "fill"]
  /\ moved' = moved \cup Others(p)
  /\ UNCHANGED <<agenda, records, code, spent, history>>

Fill(p) ==
  /\ cmd[p].stage = "fill"
  /\ LET id == Head(cmd[p].writes)[1]
         d == Head(cmd[p].writes)[2]
         rest == Tail(cmd[p].writes)
     IN  /\ records' = [records EXCEPT ![id] = d]
         /\ \/ torn' = torn \ {id}
            \/ id \notin torn /\ torn' = torn \cup {id}
         /\ reviewed' = IF cmd[p].verb = "reconcile"
                        THEN [reviewed EXCEPT ![id] = d.text] ELSE reviewed
         /\ IF rest = <<>> THEN End(p) ELSE Become(p, Writing(cmd[p].verb, rest))
  /\ moved' = moved \cup Others(p)
  /\ UNCHANGED <<agenda, code, spent, tried>>

Kill(p) ==
  /\ agenda.kills
  /\ ~Free(p)
  /\ End(p)
  /\ UNCHANGED <<agenda, records, torn, code, spent, moved, history>>
-----------------------------------------------------------------------------
(* decision check: run_check over one reading, the checks over another.    *)

Check(p, full, gate) ==
  /\ Begin(p, "check")
  /\ Become(p, IF Malformed # {}
               THEN [verb |-> "check", stage |-> "end", full |-> full, gate |-> gate,
                     exit |-> "no_config"]
               ELSE [verb |-> "check", stage |-> "scan", full |-> full, gate |-> gate,
                     ds |-> Loaded])
  /\ UNCHANGED <<agenda, records, torn, code, history>>

CheckScan(p) ==
  /\ cmd[p].verb = "check" /\ cmd[p].stage = "scan"
  /\ Become(p, [verb |-> "check", stage |-> "print", full |-> cmd[p].full,
                gate |-> cmd[p].gate, ds |-> cmd[p].ds, tree |-> code])
  /\ UNCHANGED <<agenda, records, torn, code, spent, moved, history>>

CheckPrint(p) ==
  /\ cmd[p].verb = "check" /\ cmd[p].stage = "print"
  /\ LET c == cmd[p] IN
     IF \E f \in Fingerprinted(c.ds, c.tree) : code[f] = None
     THEN End(p)
     ELSE Become(p, [verb |-> "check", stage |-> "reload", full |-> c.full, gate |-> c.gate,
                     violated |-> IntegrityViolations(c.ds),
                     failed |-> \/ IntegrityViolations(c.ds) # {}
                                \/ DanglingUp(c.ds, c.tree) # {},
                     routed |-> \/ UnreconciledTier2(c.ds, c.tree) # {}
                                \/ SuspectTier2(c.ds, c.tree, code) # {}])
  /\ UNCHANGED <<agenda, records, torn, code, spent, moved, history>>

Armed(ds, violated) == {id \in Ratified(ds) \ violated : TierOf(ds[id]) = 1}

\* What git reports against the commit the model begins at
ChangedFiles == {f \in Files : code[f] # agenda.code[f]}

Selected(armed, full) ==
  IF full THEN armed ELSE {id \in armed : Anchored(code, id) \cap ChangedFiles # {}}

\* The second reading drops the records that do not parse without a word
CheckReload(p) ==
  /\ cmd[p].verb = "check" /\ cmd[p].stage = "reload"
  /\ LET c == cmd[p] IN
     Become(p, [verb |-> "check", stage |-> "run", full |-> c.full, gate |-> c.gate,
                failed |-> c.failed, routed |-> c.routed,
                pending |-> {Loaded[id].text :
                             id \in Selected(Armed(Loaded, c.violated), c.full)}])
  /\ UNCHANGED <<agenda, records, torn, code, spent, moved, history>>

\* A bug: a check that timed out or could not run is passed over.
FailureOfCode(outcome) == outcome = "violated"

Failure(outcome) == outcome # "satisfied"

RunCheck(p) ==
  /\ cmd[p].stage = "run"
  /\ \E t \in cmd[p].pending : \E outcome \in Outcomes(t, code) :
       cmd' = [cmd EXCEPT ![p].pending = @ \ {t}, ![p].failed = @ \/ Failure(outcome)]
  /\ UNCHANGED <<agenda, records, torn, code, spent, moved, history>>

Report(p) ==
  /\ cmd[p].stage = "run" /\ cmd[p].pending = {}
  /\ LET c == cmd[p] IN
     Become(p, [verb |-> "check", stage |-> "end", full |-> c.full, gate |-> c.gate,
                exit |-> IF c.failed \/ (c.gate /\ c.routed) THEN "validation" ELSE "ok"])
  /\ UNCHANGED <<agenda, records, torn, code, spent, moved, history>>
-----------------------------------------------------------------------------
(* The owner and the agent at work on the files.                           *)

Edit ==
  /\ spent.edits < agenda.edits
  /\ spent' = [spent EXCEPT !.edits = @ + 1]
  /\ moved' = Procs
  /\ UNCHANGED <<agenda, cmd, history>>

EditCode(f, source) ==
  /\ Edit
  /\ source # code[f]
  /\ code' = [code EXCEPT ![f] = source]
  /\ UNCHANGED <<records, torn>>

EditBody(id, t) ==
  /\ Edit
  /\ records[id] # None /\ id \notin torn
  /\ records' = [records EXCEPT ![id].text = t]
  /\ UNCHANGED <<torn, code>>

\* git checkout of the file, as it was before the write that tore it
Restore(id) ==
  /\ Edit
  /\ id \in torn
  /\ torn' = torn \ {id}
  /\ UNCHANGED <<records, code>>

Command(p) ==
  \/ \E id \in Ids, t \in agenda.texts : New(p, id, t)
  \/ \E id \in Ids : \/ Ratify(p, id) \/ Reconcile(p, id) \/ Betray(p, id) \/ Retire(p, id)
                     \/ \E new \in Ids : Supersede(p, id, new)
  \/ \E full, gate \in BOOLEAN : Check(p, full, gate)

Proceed(p) ==
  \/ PassSide(p) \/ BiteSide(p)
  \/ ReconcileScan(p) \/ ReconcilePrint(p)
  \/ SupersedeBy(p)
  \/ Truncate(p) \/ Fill(p)
  \/ CheckScan(p) \/ CheckPrint(p) \/ CheckReload(p) \/ RunCheck(p) \/ Report(p)

Environment ==
  \/ \E f \in Files, source \in agenda.sources : EditCode(f, source)
  \/ \E id \in Ids : Restore(id) \/ \E t \in agenda.texts : EditBody(id, t)

Next ==
  \/ \E p \in Procs : Command(p) \/ Proceed(p) \/ Kill(p)
  \/ Environment

Spec == Init /\ [][Next]_vars
-----------------------------------------------------------------------------
(* Properties.                                                             *)

\* What a process may be doing: a command that writes records, or a check
WritingCommands ==
  [verb : {"ratify"}, stage : {"pass", "bite"}, id : Ids, d : Decision]
  \cup [verb : {"reconcile"}, stage : {"scan"}, id : Ids, d : Decision]
  \cup [verb : {"reconcile"}, stage : {"print"}, id : Ids, d : Decision,
        anchored : SUBSET Files]
  \cup [verb : {"supersede"}, stage : {"successor"}, id : Ids, new : Ids, d : Decision]
  \cup [verb : {"new", "ratify", "reconcile", "betray", "retire", "supersede"},
        stage : {"open", "fill"}, writes : Seq(Ids \X Decision) \ {<<>>}]
Readings == [Ids -> Decision \cup {None}]
Trees == [Files -> Sources \cup {None}]
Checks ==
  [verb : {"check"}, stage : {"scan"}, full : BOOLEAN, gate : BOOLEAN, ds : Readings]
  \cup [verb : {"check"}, stage : {"print"}, full : BOOLEAN, gate : BOOLEAN,
        ds : Readings, tree : Trees]
  \cup [verb : {"check"}, stage : {"reload"}, full : BOOLEAN, gate : BOOLEAN,
        violated : SUBSET Ids, failed : BOOLEAN, routed : BOOLEAN]
  \cup [verb : {"check"}, stage : {"run"}, full : BOOLEAN, gate : BOOLEAN,
        failed : BOOLEAN, routed : BOOLEAN, pending : SUBSET Texts]
  \cup [verb : {"check"}, stage : {"end"}, full : BOOLEAN, gate : BOOLEAN,
        exit : {"no_config", "validation", "ok"}]

TypeOK ==
  /\ agenda \in Agendas
  /\ records \in [Ids -> Decision \cup {None}]
  /\ torn \subseteq Ids
  /\ code \in Trees
  /\ cmd \in [Procs -> {Idle} \cup WritingCommands \cup Checks]
  /\ spent \in [commands : 0 .. agenda.commands, edits : 0 .. agenda.edits]
  /\ moved \subseteq Procs
  /\ tried \subseteq Texts
  /\ reviewed \in [Ids -> Texts \cup {None}]

Locked(id) == /\ Readable(id)
              /\ records[id].status = "ratified"
              /\ records[id].ratified_text_hash = records[id].text

\* However edits, kills and a second command fall between the readings and the
\* write of a ratify: no body whose check was never seen to pass on the code and
\* to fail in the sandbox is locked as ratified (ratify, bite_test)
LockedTextWasTried ==
  \A id \in Ids : Locked(id) /\ TierOf(records[id]) = 1 => records[id].text \in tried

Routed(id) == id \in UnreconciledTier2(Loaded, code) \cup SuspectTier2(Loaded, code, code)

\* What a clean bill of health is taken to mean
Conforms(gate) ==
  /\ Malformed = {}
  /\ \A f \in Files : code[f] # None =>
       \A id \in code[f].anchors :
         /\ records[id] # None /\ records[id].status = "ratified"
         /\ records[id].ratified_text_hash \in {None, records[id].text}
  /\ \A id \in Ids : records[id] # None /\ records[id].status = "ratified" =>
       /\ records[id].ratified_text_hash \in {None, records[id].text}
       /\ TierOf(records[id]) = 1 => Holds(records[id].text, code)
       /\ gate /\ TierOf(records[id]) = 2 =>
            \A f \in Anchored(code, id) : records[id].reconciled_anchors[f] = code[f]

\* A full check that ends well, on files that nobody touched while it read them
\* in four passes, found a workspace that conforms: a check that timed out or
\* could not run, a torn record, a rewritten body never count as fine (check)
CleanCheckConforms ==
  \A p \in Procs :
    /\ cmd[p].verb = "check" /\ cmd[p].stage = "end"
    /\ cmd[p].exit = "ok" /\ cmd[p].full
    /\ p \notin moved
    => Conforms(cmd[p].gate)

-----------------------------------------------------------------------------
(* What the documents say and the code does not do: TLC refutes each of    *)
(* these, and no run checks them (README, Where code and documents         *)
(* disagree).                                                              *)

\* docs/plans/2026-06-08-decision-records-anchors-design.md:132 calls superseded
\* and retired terminal.  retire and supersede take an old record in any status,
\* and supersede takes the record itself as its successor
TerminalStays ==
  [][\A id \in Ids :
       records[id] # None /\ records[id].status \in {"superseded", "retired"} =>
         records'[id].status = records[id].status]_vars

\* docs/plans/2026-06-20-tier-2-reviewable-anchors-design.md:189 has a decision
\* just ratified suspect until the first reconcile.  A criterion that is reworded
\* and ratified again keeps the baseline of the reconcile of the old wording
RatifiedCriterionIsRouted ==
  [][\A id \in Ids :
       LET before == records[id] after == records'[id] IN
       /\ before # None /\ after.ratified_text_hash # before.ratified_text_hash
       /\ Readable(id)' /\ TierOf(after) = 2 /\ Anchored(code, id) # {}
       /\ reviewed[id] # after.text
       => Routed(id)']_vars

\* betray says the decision stays suspect.  It is suspect by its baseline alone:
\* after a reconcile the verdict of the next reviewer is not shown
BetrayedIsRouted ==
  \A id \in Ids :
    Locked(id) /\ records[id].betrayed /\ Anchored(code, id) # {} => Routed(id)

\* bite_test is to show that the check fails on its counterexample.  A check that
\* times out or cannot run in the sandbox counts as failing
LockedCheckBites ==
  \A id \in Ids : Locked(id) /\ TierOf(records[id]) = 1 => Body[records[id].text].bites
=============================================================================
