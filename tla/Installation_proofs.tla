------------------------ MODULE Installation_proofs ------------------------
(***************************************************************************)
(* Theorems about installation, for every number of overlapping commands:  *)
(* the anchors of AGENTS.md, the lock of an agent's settings file, what an *)
(* install keeps of it, and the hooks behind every entry of adapters.yaml. *)
(***************************************************************************)
EXTENDS Installation, FiniteSetTheorems, SequenceTheorems, TLAPS

-----------------------------------------------------------------------------
(* AGENTS.md.                                                              *)

DocFields == {"file", "section", "slot", "anchor", "blocks"}
Anchored(d) ==
  /\ DOMAIN d = DocFields
  /\ d.section \in BOOLEAN /\ d.anchor \in BOOLEAN
  /\ d.section => (d.anchor <=> d.blocks \cap Agents = {})

\* The three editors of the section preserve it.
LEMMA InjectAnchored ==
  ASSUME NEW d, NEW n, Anchored(d)
  PROVE  Anchored(Injected(d, n))
  <1>1. CASE n \notin Agents /\ d.slot
    <2>1. Injected(d, n) = [d EXCEPT !.slot = FALSE, !.blocks = @ \cup {n}]
      BY <1>1 DEF Injected
    <2> QED
      BY <1>1, <2>1 DEF Anchored, DocFields
  <1>2. CASE n \in Agents /\ d.anchor
    <2>1. Injected(d, n) = [d EXCEPT !.anchor = FALSE, !.blocks = @ \cup {n}]
      BY <1>2 DEF Injected
    <2> QED
      BY <1>2, <2>1 DEF Anchored, DocFields
  <1>3. CASE ~(n \notin Agents /\ d.slot) /\ ~(n \in Agents /\ d.anchor)
    <2>1. Injected(d, n) = IF d.blocks \cap Kind(n) = {} THEN d
                           ELSE [d EXCEPT !.blocks = @ \cup {n}]
      BY <1>3 DEF Injected
    <2>2. CASE d.blocks \cap Kind(n) = {}
      BY <2>1, <2>2
    <2>3. CASE d.blocks \cap Kind(n) # {}
      <3> DEFINE e == [d EXCEPT !.blocks = @ \cup {n}]
      <3>1. /\ DOMAIN e = DocFields
            /\ e.section = d.section /\ e.anchor = d.anchor
            /\ e.blocks = d.blocks \cup {n}
        BY DEF Anchored, DocFields
      <3>2. Injected(d, n) = e
        BY <2>1, <2>3
      <3> HIDE DEF e
      <3>3. CASE n \in Agents
        <4>1. ~d.anchor /\ e.blocks \cap Agents # {}
          BY <1>3, <3>1, <3>3
        <4> QED
          BY <3>1, <3>2, <4>1 DEF Anchored
      <3>4. CASE n \notin Agents
        <4>1. e.blocks \cap Agents = d.blocks \cap Agents
          BY <3>1, <3>4
        <4> QED
          BY <3>1, <3>2, <4>1 DEF Anchored
      <3> QED
        BY <3>3, <3>4
    <2> QED
      BY <2>2, <2>3
  <1> QED
    BY <1>1, <1>2, <1>3

\* Removing a block brings the anchor back with the last agent's.
LEMMA EvictAnchored ==
  ASSUME NEW d, NEW n, Anchored(d)
  PROVE  Anchored(Evicted(d, n))
  <1>1. /\ DOMAIN Evicted(d, n) = DocFields
        /\ Evicted(d, n).section = d.section
        /\ Evicted(d, n).blocks = d.blocks \ {n}
        /\ Evicted(d, n).anchor
             = (d.anchor \/ (n \in d.blocks /\ d.blocks \cap Agents = {n}))
    BY DEF Evicted, Anchored, DocFields
  <1>2. d.blocks \cap Agents = {n} => (d.blocks \ {n}) \cap Agents = {} /\ n \in d.blocks
    OBVIOUS
  <1>3. d.blocks \cap Agents # {n} =>
          ((d.blocks \ {n}) \cap Agents = {} <=> d.blocks \cap Agents = {})
    OBVIOUS
  <1> QED
    BY <1>1, <1>2, <1>3 DEF Anchored

\* The template has its anchor and no block.
LEMMA SectionAnchored == ASSUME NEW d PROVE Anchored(Sectioned(d))
  BY DEF Sectioned, Anchored, DocFields

\* A command between reading a file and writing it holds what it will write,
\* however stale: of AGENTS.md, a text that is anchored.
JobFields == {"at", "cmd", "todo", "buffer", "plans", "pinned", "decided"}
FileSteps == RegistrySteps \cup CheckSteps \cup DocSteps
Buffered(j) ==
  /\ DOMAIN j = JobFields
  /\ j.buffer # << >> =>
       /\ j.at = "running" /\ j.todo # << >>
       /\ Head(j.todo)[1] \in FileSteps
       /\ Head(j.todo)[1] \in DocSteps => Anchored(j.buffer[1])

DocInv ==
  /\ Anchored(doc)
  /\ job = [p \in Pids |-> job[p]]
  /\ \A p \in Pids : Buffered(job[p])

\* A job that begins, ends or drops a step that is no file step, is buffered.
LEMMA JobStep ==
  ASSUME DocInv, UNCHANGED doc, NEW p \in Pids,
         NEW j, job' = [job EXCEPT ![p] = j], Buffered(j)
  PROVE  DocInv'
  BY DEF DocInv

\* A command that has ended holds nothing.
LEMMA NoJobBuffered ==
  ASSUME NEW how PROVE Buffered([NoJob EXCEPT !.at = how])
  BY DEF NoJob, Buffered, JobFields

\* Beginning a command.
LEMMA BeginDoc ==
  ASSUME DocInv, NEW p \in Pids,
         InstallCommand(p) \/ UninstallCommand(p) \/ RegisterChecks(p)
           \/ SyncCommand(p) \/ InitCommand(p)
  PROVE  DocInv'
  <1>1. ASSUME NEW cmd, NEW todo, Begin(p, cmd, todo) PROVE DocInv'
    <2> DEFINE j == [job[p] EXCEPT !.at = "running", !.cmd = cmd, !.todo = todo]
    <2>1. job' = [job EXCEPT ![p] = j] /\ UNCHANGED doc /\ job[p].at = "new"
      BY <1>1 DEF Begin, Started, Turn, filesVars
    <2>2. Buffered(j)
      BY <2>1 DEF DocInv, Buffered, JobFields
    <2> QED
      BY <2>1, <2>2, JobStep
  <1>2. ASSUME InitCommand(p) PROVE DocInv'
    <2>1. PICK force, integrations, setup, plan :
            job' = [job EXCEPT ![p] =
              [at |-> "running", cmd |-> "init",
               todo |-> InitSteps(force, integrations, setup), buffer |-> << >>,
               plans |-> settings, pinned |-> binary, decided |-> plan]]
      BY <1>2 DEF InitCommand
    <2> DEFINE j == [at |-> "running", cmd |-> "init",
               todo |-> InitSteps(force, integrations, setup), buffer |-> << >>,
               plans |-> settings, pinned |-> binary, decided |-> plan]
    <2>2. Buffered(j)
      BY DEF Buffered, JobFields
    <2>3. UNCHANGED doc
      BY <1>2 DEF InitCommand, filesVars
    <2> QED
      BY <2>1, <2>2, <2>3, JobStep
  <1> QED
    BY <1>1, <1>2 DEF InstallCommand, UninstallCommand, RegisterChecks, SyncCommand

\* A step that is no file step, and ends or is dropped, loses no buffer.
LEMMA PopDoc ==
  ASSUME DocInv, UNCHANGED doc, NEW p \in Pids, NEW step, step \notin FileSteps,
         At(p, step), Pop(p) \/ Fail(p) \/ UNCHANGED job
  PROVE  DocInv'
  <1>1. CASE Pop(p)
    <2> DEFINE j == [job[p] EXCEPT !.todo = Tail(@)]
    <2>1. job' = [job EXCEPT ![p] = j]
      BY <1>1 DEF Pop
    <2>2. Buffered(j)
      BY DEF DocInv, Buffered, JobFields, At, Next1
    <2> QED
      BY <2>1, <2>2, JobStep
  <1>2. CASE Fail(p)
    BY <1>2, NoJobBuffered, JobStep DEF Fail, Stop
  <1>3. CASE UNCHANGED job
    BY <1>3 DEF DocInv
  <1> QED
    BY <1>1, <1>2, <1>3

\* What a command writes it has read, and edited, before.
LEMMA FileDoc ==
  ASSUME DocInv, NEW p \in Pids, Read(p) \/ Write(p)
  PROVE  DocInv'
  <1> DEFINE j == job[p]
  <1>1. j = job[p] /\ Buffered(j)
    BY DEF DocInv
  <1>2. CASE Read(p)
    <2>0. UNCHANGED doc
      BY <1>2 DEF Read, filesVars
    <2>1. CASE Fail(p)
      BY <2>0, <2>1, NoJobBuffered, JobStep DEF Fail, Stop
    <2>2. ASSUME NEW value, job' = [job EXCEPT ![p].buffer = <<value>>],
                 Does(p, RegistrySteps) \/ Does(p, CheckSteps)
                   \/ (Does(p, DocSteps) /\ value = DocAfter(p))
          PROVE  DocInv'
      <3> DEFINE k == [job[p] EXCEPT !.buffer = <<value>>]
      <3>1. job' = [job EXCEPT ![p] = k]
        BY <2>2
      <3>2. Does(p, DocSteps) => Anchored(DocAfter(p))
        BY InjectAnchored, EvictAnchored, SectionAnchored
           DEF Does, DocSteps, DocAfter, DocInv, At
      <3>3. /\ DOMAIN k = JobFields /\ k.at = "running" /\ k.todo = j.todo
            /\ j.todo # << >> /\ k.buffer[1] = value
        BY <1>1, <2>2 DEF Buffered, JobFields, Does, At, Running
      <3>4. Head(j.todo)[1] \in FileSteps
        BY <2>2 DEF Does, At, Next1, FileSteps
      <3>5. Head(j.todo)[1] \in DocSteps => value = DocAfter(p) /\ Does(p, DocSteps)
        BY <2>2 DEF Does, At, Next1, RegistrySteps, CheckSteps, DocSteps
      <3>6. Buffered(k)
        BY <3>2, <3>3, <3>4, <3>5 DEF Buffered
      <3> QED
        BY <2>0, <3>1, <3>6, JobStep
    <2> QED
      BY <1>2, <2>1, <2>2 DEF Read
  <1>3. CASE Write(p)
    <2> DEFINE k == [job[p] EXCEPT !.todo = Tail(@), !.buffer = << >>]
    <2>1. job' = [job EXCEPT ![p] = k]
      BY <1>3 DEF Write
    <2>2. Buffered(k)
      BY <1>1 DEF Buffered, JobFields
    <2>3. Anchored(doc')
      BY <1>1, <1>3 DEF Write, DocInv, Buffered, Does, At, Next1
    <2> QED
      BY <2>1, <2>2, <2>3 DEF DocInv
  <1> QED
    BY <1>2, <1>3

\* Every step keeps AGENTS.md anchored, and what is held for it.
LEMMA DocStepwise == DocInv /\ [Next]_vars => DocInv'
  <1> SUFFICES ASSUME DocInv, [Next]_vars PROVE DocInv'
    OBVIOUS
  <1>0. ASSUME UNCHANGED <<doc, job>> PROVE DocInv'
    BY <1>0 DEF DocInv
  <1>1. ASSUME NEW p \in Pids,
               InstallCommand(p) \/ UninstallCommand(p) \/ RegisterChecks(p)
                 \/ SyncCommand(p) \/ InitCommand(p)
        PROVE  DocInv'
    BY <1>1, BeginDoc
  <1>2. ASSUME NEW p \in Pids,
               Scaffold(p) \/ TouchEvents(p) \/ Skeleton(p) \/ Ignore(p)
        PROVE  DocInv'
    <2>1. UNCHANGED doc /\ Pop(p)
      BY <1>2 DEF Scaffold, TouchEvents, Skeleton, Ignore
    <2>2. \E step \in {"scaffold", "events", "skeleton", "gitignore"} : At(p, step)
      BY <1>2 DEF Scaffold, TouchEvents, Skeleton, Ignore
    <2> QED
      BY <2>1, <2>2, PopDoc DEF FileSteps, RegistrySteps, CheckSteps, DocSteps
  <1>3. ASSUME NEW p \in Pids, Hook(p) \/ Transacted(p) \/ ApplyGithub(p)
        PROVE  DocInv'
    <2>1. UNCHANGED doc
      BY <1>3 DEF Hook, Transacted, ApplyGithub, filesVars
    <2>2. Pop(p) \/ Fail(p) \/ UNCHANGED job
      BY <1>3 DEF Hook, Transacted, ApplyGithub
    <2>3. \E step \in {"hook", "unhook", "github"} : At(p, step)
      BY <1>3 DEF Hook, Transacted, ApplyGithub
    <2> QED
      BY <2>1, <2>2, <2>3, PopDoc DEF FileSteps, RegistrySteps, CheckSteps, DocSteps
  <1>4. ASSUME NEW p \in Pids, Unhook(p) \/ Transact(p) PROVE DocInv'
    BY <1>0, <1>4 DEF Unhook, Transact, filesVars
  <1>5. ASSUME NEW p \in Pids, Read(p) \/ Write(p) PROVE DocInv'
    BY <1>5, FileDoc
  <1>6. ASSUME NEW p \in Pids, Reinject(p) PROVE DocInv'
    <2> DEFINE todo == [i \in DOMAIN Loaded |-> <<"inject", Loaded[i]>>]
                         \o Tail(job[p].todo)
               k == [job[p] EXCEPT !.todo = todo]
    <2>1. job' = [job EXCEPT ![p] = k] /\ UNCHANGED doc /\ At(p, "reinject")
      BY <1>6 DEF Reinject, filesVars
    <2> HIDE DEF todo
    <2>2. job[p].buffer = << >>
      BY <2>1 DEF DocInv, Buffered, At, Next1, FileSteps, RegistrySteps,
                  CheckSteps, DocSteps
    <2>3. Buffered(k)
      BY <2>2 DEF DocInv, Buffered, JobFields
    <2> QED
      BY <2>1, <2>3, JobStep
  <1>7. ASSUME NEW p \in Pids, End(p) \/ StepFails(p) \/ Crash(p) \/ CrashInWrite(p)
        PROVE  DocInv'
    <2>1. UNCHANGED doc
      BY <1>7 DEF End, StepFails, Crash, CrashInWrite, filesVars
    <2>2. \E how : job' = [job EXCEPT ![p] = [NoJob EXCEPT !.at = how]]
      BY <1>7 DEF End, StepFails, Crash, CrashInWrite, Fail, Stop
    <2> QED
      BY <2>1, <2>2, NoJobBuffered, JobStep
  <1>8. CASE LockAges \/ SaveSettings \/ SaveGithub \/ MoveBinary
    BY <1>0, <1>8 DEF LockAges, SaveSettings, SaveGithub, MoveBinary,
                      installVars, filesVars
  <1>9. CASE UNCHANGED vars
    BY <1>0, <1>9 DEF vars, installVars
  <1> QED
    BY <1>1, <1>2, <1>3, <1>4, <1>5, <1>6, <1>7, <1>8, <1>9 DEF Next, Work

\* Whatever installs, removals and renderings overlap, with AGENTS.md read and
\* written back without a lock, a section has an anchor for the next agent
\* exactly when it has no agent's block (remove_subsection).
THEOREM AnchorKept == Spec => []AgentSlotAnchored
  <1>1. Init => DocInv
    <2> SUFFICES ASSUME Init PROVE DocInv
      OBVIOUS
    <2>1. Anchored(doc)
      BY AdapterAssumption DEF Init, Anchored, DocFields, NoDoc
    <2>2. job = [p \in Pids |-> NoJob] /\ Buffered(NoJob)
      BY DEF Init, Buffered, NoJob, JobFields
    <2> QED
      BY <2>1, <2>2 DEF DocInv
  <1>2. DocInv => AgentSlotAnchored
    BY DEF DocInv, Anchored, AgentSlotAnchored
  <1> QED
    BY <1>1, <1>2, DocStepwise, PTL DEF Spec

-----------------------------------------------------------------------------
(* The lock of a settings file.                                            *)

\* A lock names its creator, if anyone, and is aged only when that is dead.
LockSound(a) ==
  lock[a] # None =>
    /\ lock[a] \in Locks
    /\ lock[a].owner \in {None, lock[a].by}
    /\ lock[a].aged => ~Alive(lock[a].by)

\* Whoever is past the lock has created the one there is, unless a lock has been
\* removed by mistake; whoever is about to remove one has seen its creator dead.
ProcFields ==
  {"at", "cmd", "agent", "original", "desired", "saw", "mark", "result"}
Sound(p, j) ==
  /\ DOMAIN j = ProcFields
  /\ j.agent \in Agents =>
       /\ j.at \in {"judge", "break"} =>
            /\ j.saw \in Locks
            /\ j.saw.owner \in {None, j.saw.by}
       /\ j.at = "break" => ~Alive(j.saw.by)
       /\ j.at \in Critical \cup {"owner"} /\ ~raced =>
            lock[j.agent] # None /\ lock[j.agent].by = p

LockInv ==
  /\ proc = [p \in Pids |-> proc[p]]
  /\ lock = [a \in Agents |-> lock[a]]
  /\ raced \in BOOLEAN
  /\ \A a \in Agents : LockSound(a)
  /\ \A p \in Pids : Sound(p, proc[p])

\* Whoever is in the file holds its lock: two of them are one.
LEMMA OneWriterFromLock == LockInv => OneWriterUnlessRaced
  <1> SUFFICES ASSUME LockInv, ~raced, NEW a \in Agents
               PROVE  Cardinality(Writers(a)) <= 1
    BY DEF OneWriterUnlessRaced, OneWriter
  <1>1. \A p, q \in Writers(a) : p = q
    BY DEF LockInv, Sound, Writers
  <1>2. CASE Writers(a) = {}
    BY <1>2, FS_EmptySet
  <1>3. CASE Writers(a) # {}
    <2>1. PICK p : Writers(a) = {p}
      BY <1>1, <1>3
    <2> QED
      BY <2>1, FS_Singleton
  <1> QED
    BY <1>2, <1>3

\* A live process moves to another sound place, the locks stay.
LEMMA ProcMoves ==
  ASSUME LockInv, NEW p \in Pids, Alive(p), UNCHANGED <<lock, raced>>,
         NEW j, proc' = [proc EXCEPT ![p] = j], Sound(p, j)
  PROVE  LockInv'
  <1>1. \A q \in Pids : ~Alive(q) => ~Alive(q)'
    BY DEF LockInv, Alive
  <1>2. \A a \in Agents : LockSound(a)'
    BY <1>1 DEF LockInv, LockSound, Locks
  <1>3. \A q \in Pids : Sound(q, proc'[q])
    BY DEF LockInv
  <1>4. \A q \in Pids : Sound(q, proc[q])'
    BY <1>1, <1>3 DEF Sound, Locks
  <1> QED
    BY <1>2, <1>4 DEF LockInv

\* Steps under the lock, and steps out of it.
LEMMA UnderLock ==
  ASSUME LockInv, NEW p \in Pids,
         CheckPlan(p) \/ CreateBackup(p) \/ FillBackup(p) \/ PlanRemoval(p)
           \/ Replace(p) \/ WriteFails(p)
  PROVE  LockInv'
  <1>1. /\ UNCHANGED <<lock, raced>>
        /\ proc[p].at \in Critical /\ Alive(p)
    BY DEF CheckPlan, CreateBackup, FillBackup, PlanRemoval, Replace, WriteFails,
           Critical, Alive
  <1>2. PICK j : /\ proc' = [proc EXCEPT ![p] = j]
                 /\ DOMAIN j = ProcFields
                 /\ j.agent = proc[p].agent
                 /\ j.at \in Critical
    <2>0. DOMAIN proc[p] = ProcFields
      BY DEF LockInv, Sound
    <2>1. CASE \E result : Finish(p, result)
      <3>1. PICK result : Finish(p, result)
        BY <2>1
      <3> DEFINE j == [proc[p] EXCEPT !.at = "unlock", !.result = result]
      <3>2. proc' = [proc EXCEPT ![p] = j]
        BY <3>1 DEF Finish, LockInv
      <3>3. DOMAIN j = ProcFields /\ j.agent = proc[p].agent /\ j.at \in Critical
        BY <2>0 DEF ProcFields, Critical
      <3> QED
        BY <3>2, <3>3
    <2>2. CASE \E stage \in Critical : Move(p, stage)
      <3>1. PICK stage \in Critical : Move(p, stage)
        BY <2>2
      <3> DEFINE j == [proc[p] EXCEPT !.at = stage]
      <3>2. proc' = [proc EXCEPT ![p] = j]
        BY <3>1 DEF Move
      <3>3. DOMAIN j = ProcFields /\ j.agent = proc[p].agent /\ j.at \in Critical
        BY <2>0 DEF ProcFields
      <3> QED
        BY <3>2, <3>3
    <2>3. CASE \E mark : proc' = [proc EXCEPT ![p].at = "fill", ![p].mark = mark]
      <3>1. PICK mark : proc' = [proc EXCEPT ![p].at = "fill", ![p].mark = mark]
        BY <2>3
      <3> DEFINE j == [proc[p] EXCEPT !.at = "fill", !.mark = mark]
      <3>2. proc' = [proc EXCEPT ![p] = j]
        BY <3>1 DEF LockInv
      <3>3. DOMAIN j = ProcFields /\ j.agent = proc[p].agent /\ j.at \in Critical
        BY <2>0 DEF ProcFields, Critical
      <3> QED
        BY <3>2, <3>3
    <2>4. CASE \E desired : proc' = [proc EXCEPT ![p].at = "replace", ![p].desired = desired]
      <3>1. PICK desired : proc' = [proc EXCEPT ![p].at = "replace", ![p].desired = desired]
        BY <2>4
      <3> DEFINE j == [proc[p] EXCEPT !.at = "replace", !.desired = desired]
      <3>2. proc' = [proc EXCEPT ![p] = j]
        BY <3>1 DEF LockInv
      <3>3. DOMAIN j = ProcFields /\ j.agent = proc[p].agent /\ j.at \in Critical
        BY <2>0 DEF ProcFields, Critical
      <3> QED
        BY <3>2, <3>3
    <2> QED
      BY <2>1, <2>2, <2>3, <2>4
         DEF CheckPlan, CreateBackup, FillBackup, PlanRemoval, Replace,
             WriteFails, Critical
  <1>3. Sound(p, j)
    BY <1>1, <1>2 DEF LockInv, Sound, Critical
  <1> QED
    BY <1>1, <1>2, <1>3, ProcMoves

\* The lock is created by whoever finds none.
LEMMA TakeLock ==
  ASSUME LockInv, NEW p \in Pids, OpenLock(p)
  PROVE  LockInv'
  <1> DEFINE a == proc[p].agent
  <1>0. Alive(p) /\ DOMAIN proc[p] = ProcFields /\ UNCHANGED raced
    BY DEF OpenLock, Alive, LockInv, Sound
  <1>1. CASE lock[a] # None
    <2> DEFINE j == [proc[p] EXCEPT !.at = "judge", !.saw = lock[a]]
    <2>1. proc' = [proc EXCEPT ![p] = j] /\ UNCHANGED lock
      BY <1>1 DEF OpenLock, LockInv
    <2>2. DOMAIN j = ProcFields /\ j.at = "judge" /\ j.saw = lock[a] /\ j.agent = a
      BY <1>0 DEF ProcFields
    <2> HIDE DEF j
    <2>3. Sound(p, j)
      BY <1>1, <2>2 DEF Sound, LockInv, LockSound, Critical
    <2> QED
      BY <1>0, <2>1, <2>3, ProcMoves
  <1>2. CASE lock[a] = None
    <2> DEFINE j == [proc[p] EXCEPT !.at = "owner"]
               new == [by |-> p, owner |-> None, aged |-> FALSE]
    <2>1. proc' = [proc EXCEPT ![p] = j] /\ lock' = [lock EXCEPT ![a] = new]
      BY <1>2 DEF OpenLock, Move
    <2>2. DOMAIN j = ProcFields /\ j.at = "owner" /\ j.agent = a
      BY <1>0 DEF ProcFields
    <2>3. new \in Locks /\ new # None /\ new.by = p /\ new.owner = None /\ new.aged = FALSE
      <3>1. new \in Locks
        BY DEF Locks
      <3> QED
        BY <3>1, NoneAssumption
    <2> HIDE DEF j, new, a
    <2>4. \A q \in Pids : Alive(q)' <=> Alive(q)
      BY <1>0, <2>1, <2>2 DEF LockInv, Alive
    <2>5. \A b \in Agents : LockSound(b)'
      BY <2>1, <2>3, <2>4 DEF LockInv, LockSound, Locks
    <2>6. Sound(p, proc[p])'
      BY <2>1, <2>2, <2>3 DEF LockInv, Sound, Critical
    <2>7. \A q \in Pids \ {p} : Sound(q, proc[q])'
      <3> SUFFICES ASSUME NEW q \in Pids \ {p} PROVE Sound(q, proc[q])'
        OBVIOUS
      <3>1. proc'[q] = proc[q] /\ Sound(q, proc[q])
        BY <2>1 DEF LockInv
      <3>2. proc[q].at \in Critical \cup {"owner"} /\ proc[q].agent \in Agents /\ ~raced
              => proc[q].agent # a
        BY <1>2, <3>1 DEF Sound, a
      <3> QED
        BY <1>0, <2>1, <2>4, <3>1, <3>2 DEF Sound, LockInv, Locks
    <2> QED
      BY <1>0, <2>1, <2>5, <2>6, <2>7 DEF LockInv
  <1> QED
    BY <1>1, <1>2

\* What is about to be removed has a dead creator.
LEMMA JudgeLock ==
  ASSUME LockInv, NEW p \in Pids, Judge(p)
  PROVE  LockInv'
  <1> DEFINE a == proc[p].agent
             saw == proc[p].saw
             respected == IF saw.owner # None
                            THEN Alive(saw.owner)
                            ELSE lock[a] # None /\ ~lock[a].aged
  <1>0. /\ Alive(p) /\ DOMAIN proc[p] = ProcFields /\ UNCHANGED <<lock, raced>>
        /\ proc[p].at = "judge"
    BY DEF Judge, Alive, LockInv, Sound
  <1>1. CASE Refuse(p)
    <2>1. Sound(p, [Idle EXCEPT !.result = "refused"])
      BY DEF Idle, Sound, ProcFields, Critical
    <2> QED
      BY <1>0, <1>1, <2>1, ProcMoves DEF Refuse
  <1>2. CASE Move(p, "open")
    <2> DEFINE j == [proc[p] EXCEPT !.at = "open"]
    <2>1. Sound(p, j)
      BY <1>0 DEF Sound, ProcFields, Critical
    <2> QED
      BY <1>0, <1>2, <2>1, ProcMoves DEF Move
  <1>3. CASE /\ ~respected
             /\ lock[a] # None /\ lock[a].owner = saw.owner
             /\ proc' = [proc EXCEPT ![p].at = "break", ![p].saw = lock[a]]
    <2> DEFINE j == [proc[p] EXCEPT !.at = "break", !.saw = lock[a]]
    <2>1. proc' = [proc EXCEPT ![p] = j]
      BY <1>3 DEF LockInv
    <2>2. DOMAIN j = ProcFields /\ j.at = "break" /\ j.saw = lock[a] /\ j.agent = a
      BY <1>0 DEF ProcFields
    <2> HIDE DEF j
    <2>3. a \in Agents => ~Alive(lock[a].by) /\ lock[a] \in Locks
                             /\ lock[a].owner \in {None, lock[a].by}
      BY <1>3 DEF LockInv, LockSound
    <2>4. Sound(p, j)
      BY <2>2, <2>3 DEF Sound, Critical
    <2> QED
      BY <1>0, <2>1, <2>4, ProcMoves
  <1> QED
    BY <1>1, <1>2, <1>3 DEF Judge

\* The lock of an agent goes, and with it only what its creator had.
LEMMA DropLock ==
  ASSUME LockInv, NEW p \in Pids, Alive(p), NEW a,
         lock' = [lock EXCEPT ![a] = None], raced' \in BOOLEAN, raced => raced',
         NEW j, proc' = [proc EXCEPT ![p] = j], Sound(p, j),
         j.at \notin Critical \cup {"owner"}, j.at # "dead",
         a \in Agents /\ ~raced' /\ lock[a] # None =>
           lock[a].by = p \/ ~Alive(lock[a].by)
  PROVE  LockInv'
  <1>1. \A q \in Pids : Alive(q)' <=> Alive(q)
    BY DEF LockInv, Alive
  <1>2. \A b \in Agents : LockSound(b)'
    BY <1>1 DEF LockInv, LockSound, Locks
  <1>3. Sound(p, proc[p])'
    <2>1. proc'[p] = j
      BY DEF LockInv
    <2> QED
      BY <1>1, <2>1 DEF Sound, Locks
  <1>4. \A q \in Pids \ {p} : Sound(q, proc[q])'
    <2> SUFFICES ASSUME NEW q \in Pids \ {p} PROVE Sound(q, proc[q])'
      OBVIOUS
    <2>1. proc'[q] = proc[q] /\ Sound(q, proc[q])
      BY DEF LockInv
    <2>2. proc[q].at \in Critical \cup {"owner"} /\ proc[q].agent \in Agents /\ ~raced'
            => proc[q].agent # a
      <3> SUFFICES ASSUME proc[q].at \in Critical \cup {"owner"}, a \in Agents,
                          ~raced', proc[q].agent = a
                   PROVE  FALSE
        OBVIOUS
      <3>1. lock[a] # None /\ lock[a].by = q
        BY <2>1 DEF Sound
      <3>2. Alive(q)
        BY DEF Alive, Critical
      <3> QED
        BY <3>1, <3>2
    <2> QED
      BY <1>1, <2>1, <2>2 DEF Sound, LockInv, Locks
  <1> QED
    BY <1>2, <1>3, <1>4 DEF LockInv

\* A lock is removed, by one who judged it or by the one who had it.
LEMMA RemoveLock ==
  ASSUME LockInv, NEW p \in Pids, Break(p) \/ Unlock(p)
  PROVE  LockInv'
  <1> DEFINE a == proc[p].agent
  <1>0. Alive(p) /\ DOMAIN proc[p] = ProcFields /\ Sound(p, proc[p]) /\ raced \in BOOLEAN
    BY DEF Break, Unlock, Alive, LockInv, Sound
  <1>1. CASE Break(p)
    <2> DEFINE j == [proc[p] EXCEPT !.at = "open"]
    <2>1. /\ lock' = [lock EXCEPT ![a] = None]
          /\ raced' = (raced \/ (lock[a] # None /\ lock[a].by # proc[p].saw.by))
          /\ proc' = [proc EXCEPT ![p] = j]
          /\ proc[p].at = "break"
      BY <1>1 DEF Break, Move
    <2>2. Sound(p, j) /\ j.at = "open"
      BY <1>0 DEF Sound, ProcFields, Critical
    <2>3. a \in Agents => ~Alive(proc[p].saw.by)
      BY <1>0, <2>1 DEF Sound
    <2> HIDE DEF j, a
    <2> QED
      BY <1>0, <2>1, <2>2, <2>3, DropLock DEF Critical
  <1>2. CASE Unlock(p)
    <2> DEFINE j == [Idle EXCEPT !.result = proc[p].result]
    <2>1. /\ lock' = [lock EXCEPT ![a] = None]
          /\ raced' = (raced \/ (lock[a] # None /\ lock[a].by # p))
          /\ proc' = [proc EXCEPT ![p] = j]
      BY <1>2 DEF Unlock
    <2>2. Sound(p, j) /\ j.at = "idle"
      BY DEF Sound, ProcFields, Critical, Idle
    <2> HIDE DEF j, a
    <2> QED
      BY <1>0, <2>1, <2>2, DropLock DEF Critical
  <1> QED
    BY <1>1, <1>2

\* The owner is named in a lock that is still the process's own.
LEMMA NameOwner ==
  ASSUME LockInv, NEW p \in Pids, WriteOwner(p)
  PROVE  LockInv'
  <1> DEFINE a == proc[p].agent
             j == [proc[p] EXCEPT !.at = "check", !.saw = None]
  <1>0. /\ Alive(p) /\ DOMAIN proc[p] = ProcFields /\ UNCHANGED raced
        /\ Sound(p, proc[p]) /\ proc[p].at = "owner"
    BY DEF WriteOwner, Alive, LockInv, Sound
  <1>1. proc' = [proc EXCEPT ![p] = j]
    BY DEF WriteOwner, LockInv
  <1>2. DOMAIN j = ProcFields /\ j.at = "check" /\ j.agent = a
    BY <1>0 DEF ProcFields
  <1>3. Sound(p, j)
    BY <1>0, <1>2 DEF Sound, Critical
  <1>4. CASE UNCHANGED lock
    BY <1>0, <1>1, <1>3, <1>4, ProcMoves
  <1>5. CASE lock[a] # None /\ lock[a].by = p /\ lock' = [lock EXCEPT ![a].owner = p]
    <2> HIDE DEF j
    <2>1. \A q \in Pids : Alive(q)' <=> Alive(q)
      BY <1>0, <1>1, <1>2 DEF LockInv, Alive
    <2>2. \A b \in Agents : /\ lock'[b] = None <=> lock[b] = None
                            /\ lock[b] # None => lock'[b] \in Locks /\ lock'[b].by = lock[b].by
                                  /\ lock'[b].aged = lock[b].aged
                                  /\ lock'[b].owner \in {None, lock[b].by}
      <3> SUFFICES ASSUME NEW b \in Agents
                   PROVE  /\ lock'[b] = None <=> lock[b] = None
                          /\ lock[b] # None => lock'[b] \in Locks /\ lock'[b].by = lock[b].by
                                  /\ lock'[b].aged = lock[b].aged
                                  /\ lock'[b].owner \in {None, lock[b].by}
        OBVIOUS
      <3>1. CASE b # a
        BY <1>5, <3>1 DEF LockInv, LockSound
      <3>2. CASE b = a
        <4>1. lock'[b] = [lock[b] EXCEPT !.owner = p]
          BY <1>5, <3>2 DEF LockInv
        <4>2. lock[b] \in Locks
          BY <1>5, <3>2 DEF LockInv, LockSound
        <4>3. /\ lock'[b] \in Locks /\ lock'[b].by = lock[b].by
              /\ lock'[b].aged = lock[b].aged /\ lock'[b].owner = p
          BY <4>1, <4>2 DEF Locks
        <4> QED
          BY <1>5, <3>2, <4>3, NoneAssumption
      <3> QED
        BY <3>1, <3>2
    <2>3. \A b \in Agents : LockSound(b)'
      BY <2>1, <2>2 DEF LockInv, LockSound, Locks
    <2>4. Sound(p, proc[p])'
      <3>1. proc'[p] = j
        BY <1>1 DEF LockInv
      <3> QED
        BY <1>0, <1>2, <1>5, <2>2, <3>1 DEF Sound, Critical
    <2>5. \A q \in Pids \ {p} : Sound(q, proc[q])'
      BY <1>0, <1>1, <2>1, <2>2 DEF LockInv, Sound, Locks
    <2> QED
      BY <1>0, <1>1, <1>5, <2>3, <2>4, <2>5 DEF LockInv
  <1> QED
    BY <1>4, <1>5 DEF WriteOwner

\* A lock ages when its creator is dead.
LEMMA AgeLock ==
  ASSUME LockInv, NEW a \in Agents, Age(a)
  PROVE  LockInv'
  <1>1. /\ lock[a] # None /\ ~Alive(lock[a].by)
        /\ lock' = [lock EXCEPT ![a].aged = TRUE]
        /\ UNCHANGED <<proc, raced>>
    BY DEF Age
  <1>2. lock[a] \in Locks /\ lock[a].owner \in {None, lock[a].by}
    BY <1>1 DEF LockInv, LockSound
  <1>3. /\ lock'[a] \in Locks /\ lock'[a].by = lock[a].by
        /\ lock'[a].owner = lock[a].owner
        /\ lock'[a] # None
    <2>1. lock'[a] = [lock[a] EXCEPT !.aged = TRUE]
      BY <1>1 DEF LockInv
    <2> QED
      BY <1>2, <2>1, NoneAssumption DEF Locks
  <1>4. \A b \in Agents : b # a => lock'[b] = lock[b]
    BY <1>1 DEF LockInv
  <1>5. \A b \in Agents : LockSound(b)'
    BY <1>1, <1>2, <1>3, <1>4 DEF LockInv, LockSound, Alive
  <1>6. \A q \in Pids : Sound(q, proc[q])'
    BY <1>1, <1>3, <1>4 DEF LockInv, Sound, Alive
  <1> QED
    BY <1>1, <1>5, <1>6 DEF LockInv

\* Every step keeps the lock with those who are in the file.
LEMMA LockStepwise == LockInv /\ [Next]_vars => LockInv'
  <1> SUFFICES ASSUME LockInv, [Next]_vars PROVE LockInv'
    OBVIOUS
  <1>0. ASSUME UNCHANGED <<lock, proc, raced>> PROVE LockInv'
    BY <1>0 DEF LockInv, LockSound, Sound, Alive
  <1>1. ASSUME NEW p \in Pids, Transact(p) PROVE LockInv'
    BY <1>1, UnderLock, TakeLock, JudgeLock, RemoveLock, NameOwner
       DEF Transact, SettingsStep
  <1>2. ASSUME NEW p \in Pids, Hook(p) \/ Unhook(p) \/ Transacted(p) PROVE LockInv'
    <2>1. CASE UNCHANGED proc
      BY <1>0, <1>2, <2>1 DEF Hook, Unhook, Transacted
    <2>2. CASE proc' # proc
      <3>1. /\ proc[p].at = "idle" /\ UNCHANGED <<lock, raced>>
            /\ \/ \E a, original, b : proc' = [proc EXCEPT ![p] = Install(a, original, b)]
               \/ \E a : proc' = [proc EXCEPT ![p] = Uninstall(a)]
               \/ proc' = [proc EXCEPT ![p] = Idle]
        BY <1>2, <2>2 DEF Hook, Unhook, Transacted, Idle
      <3>2. \A a, original, b : Sound(p, Install(a, original, b))
        BY DEF Install, Idle, Sound, ProcFields, Critical
      <3>3. \A a : Sound(p, Uninstall(a))
        BY DEF Uninstall, Idle, Sound, ProcFields, Critical
      <3>4. Sound(p, Idle)
        BY DEF Idle, Sound, ProcFields, Critical
      <3>5. Alive(p)
        BY <3>1 DEF Alive
      <3> QED
        BY <3>1, <3>2, <3>3, <3>4, <3>5, ProcMoves
    <2> QED
      BY <2>1, <2>2
  <1>3. ASSUME NEW p \in Pids, Crash(p) PROVE LockInv'
    <2>1. CASE UNCHANGED settingsVars
      BY <1>0, <2>1 DEF settingsVars
    <2>2. CASE SettingsCrash(p)
      <3>1. Sound(p, [Idle EXCEPT !.at = "dead"])
        BY DEF Idle, Sound, ProcFields, Critical
      <3> QED
        BY <2>2, <3>1, ProcMoves DEF SettingsCrash, Alive
    <2> QED
      BY <1>3, <2>1, <2>2 DEF Crash
  <1>4. CASE LockAges
    BY <1>4, AgeLock DEF LockAges
  <1>5. CASE SaveSettings
    BY <1>0, <1>5 DEF SaveSettings, UserSaves
  <1>6. ASSUME NEW p \in Pids,
               \/ InstallCommand(p) \/ UninstallCommand(p) \/ RegisterChecks(p)
               \/ SyncCommand(p) \/ InitCommand(p)
               \/ Scaffold(p) \/ TouchEvents(p) \/ Skeleton(p) \/ Read(p)
               \/ Write(p) \/ Reinject(p) \/ Ignore(p) \/ ApplyGithub(p)
               \/ End(p) \/ StepFails(p) \/ CrashInWrite(p)
        PROVE  UNCHANGED settingsVars
    BY <1>6 DEF InstallCommand, UninstallCommand, RegisterChecks, SyncCommand, Begin,
       InitCommand, Scaffold, TouchEvents, Skeleton, Read, Write, Reinject, Ignore,
       ApplyGithub, End, StepFails, CrashInWrite, Lift
  <1>7. CASE SaveGithub \/ MoveBinary
    BY <1>0, <1>7 DEF SaveGithub, MoveBinary, settingsVars
  <1>8. CASE UNCHANGED vars
    BY <1>0, <1>8 DEF vars, settingsVars
  <1> QED
    BY <1>0, <1>1, <1>2, <1>3, <1>4, <1>5, <1>6, <1>7, <1>8 DEF Next, Work, settingsVars

\* Two processes are in a settings file at once only after a lock was removed
\* that was not the one inspected (_acquire_settings_lock).
THEOREM WriterAlone == Spec => []OneWriterUnlessRaced
  <1>1. Init => LockInv
    <2> SUFFICES ASSUME Init PROVE LockInv
      OBVIOUS
    <2>1. proc = [p \in Pids |-> Idle] /\ lock = [a \in Agents |-> None] /\ raced = FALSE
      BY DEF Init, SettingsInit
    <2> QED
      BY <2>1 DEF LockInv, LockSound, Sound, Idle, ProcFields, Critical
  <1> QED
    BY <1>1, LockStepwise, OneWriterFromLock, PTL DEF Spec

-----------------------------------------------------------------------------
(* The lists of steps: an agent's entry follows its hooks, in every list.  *)

\* An agent's entry follows its hooks.
Registers == {"register"} \X Agents
Follows(todo) ==
  \A i \in 2..Len(todo) : todo[i] \in Registers => todo[i - 1] = <<"hook", todo[i][2]>>
Ungithub(todo) == \A i \in 1..Len(todo) : todo[i][1] # "github"

\* The list of a finite set's elements is a list of them.
LEMMA Sequenced ==
  ASSUME NEW S, IsFiniteSet(S) PROVE SetToSeq(S) \in Seq(S)
  <1>1. Cardinality(S) \in Nat /\ ExistsBijection(1..Cardinality(S), S)
    BY FS_CardinalityType
  <1>2. PICK f : f \in Bijection(1..Cardinality(S), S)
    BY <1>1 DEF ExistsBijection
  <1>3. f \in [1..Cardinality(S) -> S] /\ IsInjective(f)
    BY <1>2 DEF Bijection, Injection
  <1>4. SetToSeq(S) \in [1..Cardinality(S) -> S]
    BY <1>3 DEF SetToSeq
  <1> QED
    BY <1>1, <1>4

\* A list behind which another begins with no entry.
LEMMA JoinFollows ==
  ASSUME NEW s \in Seq(Steps), NEW t \in Seq(Steps), Follows(s), Follows(t),
         t # << >> => t[1] \notin Registers
  PROVE  /\ s \o t \in Seq(Steps) /\ Follows(s \o t)
         /\ (s[1] \notin Registers \/ s = << >>) /\ s \o t # << >>
              => (s \o t)[1] \notin Registers
  <1>1. /\ s \o t \in Seq(Steps) /\ Len(s \o t) = Len(s) + Len(t)
        /\ \A i \in 1..(Len(s) + Len(t)) :
             (s \o t)[i] = IF i <= Len(s) THEN s[i] ELSE t[i - Len(s)]
    BY ConcatProperties
  <1>2. ASSUME NEW i \in 2..Len(s \o t), (s \o t)[i] \in Registers
        PROVE  (s \o t)[i - 1] = <<"hook", (s \o t)[i][2]>>
    <2>1. CASE i <= Len(s)
      BY <1>1, <1>2, <2>1 DEF Follows
    <2>2. CASE i = Len(s) + 1
      BY <1>1, <1>2, <2>2
    <2>3. CASE i > Len(s) + 1
      <3>1. i - Len(s) \in 2..Len(t) /\ (s \o t)[i] = t[i - Len(s)]
            /\ (s \o t)[i - 1] = t[(i - Len(s)) - 1]
        BY <1>1, <2>3
      <3> QED
        BY <1>2, <3>1 DEF Follows
    <2> QED
      BY <1>1, <2>1, <2>2, <2>3
  <1>3. ASSUME s[1] \notin Registers \/ s = << >>, s \o t # << >>
        PROVE  (s \o t)[1] \notin Registers
    <2>1. Len(s) + Len(t) >= 1
      BY <1>1, <1>3, EmptySeq
    <2>2. CASE Len(s) >= 1
      <3>1. (s \o t)[1] = s[1] /\ s # << >>
        BY <1>1, <2>2
      <3> QED
        BY <1>3, <3>1
    <2>3. CASE Len(s) = 0
      <3>1. (s \o t)[1] = t[1] /\ t # << >>
        BY <1>1, <2>1, <2>3
      <3> QED
        BY <3>1
    <2>4. Len(s) >= 1 \/ Len(s) = 0
      OBVIOUS
    <2> QED
      BY <2>2, <2>3, <2>4
  <1> QED
    BY <1>1, <1>2, <1>3 DEF Follows

\* Two lists without GitHub files, and where a joined list begins.
LEMMA JoinUngithub ==
  ASSUME NEW s \in Seq(Steps), NEW t \in Seq(Steps)
  PROVE  /\ Ungithub(s) /\ Ungithub(t) => Ungithub(s \o t)
         /\ Len(s) >= 1 => Len(s \o t) >= 1 /\ (s \o t)[1] = s[1]
  <1>1. /\ s \o t \in Seq(Steps) /\ Len(s \o t) = Len(s) + Len(t)
        /\ \A i \in 1..(Len(s) + Len(t)) :
             (s \o t)[i] = IF i <= Len(s) THEN s[i] ELSE t[i - Len(s)]
        /\ Len(s) \in Nat /\ Len(t) \in Nat
    BY ConcatProperties
  <1> QED
    BY <1>1 DEF Ungithub

\* What is left of a list, and why its first step may be an entry.
LEMMA TailFollows ==
  ASSUME NEW t \in Seq(Steps), t # << >>, Follows(t)
  PROVE  /\ Tail(t) \in Seq(Steps) /\ Follows(Tail(t))
         /\ Tail(t) # << >> /\ Tail(t)[1] \in Registers
              => t[1] = <<"hook", Tail(t)[1][2]>>
  <1>1. /\ Tail(t) \in Seq(Steps) /\ Len(Tail(t)) = Len(t) - 1
        /\ \A i \in 1..Len(Tail(t)) : Tail(t)[i] = t[i + 1]
        /\ Len(t) \in Nat \ {0}
    BY HeadTailProperties, EmptySeq
  <1>2. Follows(Tail(t))
    <2> SUFFICES ASSUME NEW i \in 2..Len(Tail(t)), Tail(t)[i] \in Registers
                 PROVE  Tail(t)[i - 1] = <<"hook", Tail(t)[i][2]>>
      BY DEF Follows
    <2>1. i + 1 \in 2..Len(t) /\ Tail(t)[i] = t[i + 1] /\ Tail(t)[i - 1] = t[(i + 1) - 1]
      BY <1>1
    <2> QED
      BY <2>1 DEF Follows
  <1>3. ASSUME Tail(t) # << >>, Tail(t)[1] \in Registers
        PROVE  t[1] = <<"hook", Tail(t)[1][2]>>
    <2>1. Len(Tail(t)) >= 1
      BY <1>1, <1>3, EmptySeq
    <2>2. 2 \in 2..Len(t) /\ Tail(t)[1] = t[2]
      BY <1>1, <2>1
    <2> QED
      BY <1>3, <2>2 DEF Follows
  <1> QED
    BY <1>1, <1>2, <1>3

\* adapter_install: hooks, then the entry.
LEMMA InstallList ==
  ASSUME NEW n \in Adapters
  PROVE  LET t == InstallSteps(n)
         IN  t \in Seq(Steps) /\ Follows(t) /\ Ungithub(t) /\ t[1] \notin Registers
  <1>1. CASE n \in Agents
    <2>1. InstallSteps(n) = <<<<"hook", n>>, <<"register", n>>, <<"inject", n>>>>
      BY <1>1, AdapterAssumption DEF InstallSteps, Reg
    <2>2. <<"hook", n>> \in Steps /\ <<"register", n>> \in Steps /\ <<"inject", n>> \in Steps
      BY <1>1 DEF Steps
    <2> QED
      BY <2>1, <2>2 DEF Follows, Ungithub, Registers
  <1>2. CASE n \in Frameworks
    <2>1. InstallSteps(n) = <<<<"check", n>>, <<"register", n>>, <<"inject", n>>, <<"evict", Plain>>>>
      BY <1>2, AdapterAssumption DEF InstallSteps, Reg
    <2>2. /\ <<"check", n>> \in Steps /\ <<"register", n>> \in Steps
          /\ <<"inject", n>> \in Steps /\ <<"evict", Plain>> \in Steps
      BY <1>2, AdapterAssumption DEF Steps, Adapters
    <2> QED
      BY <1>2, <2>1, <2>2, AdapterAssumption DEF Follows, Ungithub, Registers
  <1>3. CASE n = Plain
    <2>1. InstallSteps(n) = <<<<"register", n>>, <<"inject", n>>>>
      BY <1>3, AdapterAssumption DEF InstallSteps, Reg
    <2>2. <<"register", n>> \in Steps /\ <<"inject", n>> \in Steps
      BY DEF Steps
    <2> QED
      BY <1>3, <2>1, <2>2, AdapterAssumption DEF Follows, Ungithub, Registers
  <1> QED
    BY <1>1, <1>2, <1>3 DEF Adapters

\* adapter_uninstall adds no entry.
LEMMA UninstallList ==
  ASSUME NEW n \in Adapters
  PROVE  LET t == UninstallSteps(n)
         IN  t \in Seq(Steps) /\ Follows(t) /\ Ungithub(t) /\ t[1] \notin Registers
  <1>0. /\ n \in Agents => <<"unhook", n>> \in Steps
        /\ n \in Frameworks => <<"uncheck", n>> \in Steps
        /\ <<"unregister", n>> \in Steps /\ <<"evict", n>> \in Steps
    BY AdapterAssumption DEF Steps
  <1>1. CASE n \in Agents
    <2>1. UninstallSteps(n) = <<<<"unhook", n>>, <<"unregister", n>>, <<"evict", n>>>>
      BY <1>1, AdapterAssumption DEF UninstallSteps
    <2> QED
      BY <1>0, <1>1, <2>1 DEF Follows, Ungithub, Registers
  <1>2. CASE n \in Frameworks
    <2>1. UninstallSteps(n) = <<<<"unregister", n>>, <<"uncheck", n>>, <<"evict", n>>>>
      BY <1>2, AdapterAssumption DEF UninstallSteps
    <2> QED
      BY <1>0, <1>2, <2>1 DEF Follows, Ungithub, Registers
  <1>3. CASE n = Plain
    <2>1. UninstallSteps(n) = <<<<"unregister", n>>, <<"evict", n>>>>
      BY <1>3, AdapterAssumption DEF UninstallSteps
    <2> QED
      BY <1>0, <1>3, <2>1 DEF Follows, Ungithub, Registers
  <1> QED
    BY <1>1, <1>2, <1>3 DEF Adapters

\* sync adds no entry.
LEMMA SyncList ==
  ASSUME NEW scope \in DOMAIN SyncSteps
  PROVE  LET t == SyncSteps[scope]
         IN  t \in Seq(Steps) /\ Follows(t) /\ Ungithub(t) /\ t[1] \notin Registers
  <1> DEFINE Good(t) == t \in Seq(Steps) /\ Follows(t) /\ Ungithub(t) /\ t[1] \notin Registers
             last == <<<<"gitignore">>>>
  <1>1. Good(RenderSteps) /\ Len(RenderSteps) = 3
    BY DEF RenderSteps, Steps, Adapters, Follows, Ungithub, Registers
  <1>2. Good(last)
    BY DEF Steps, Follows, Ungithub, Registers
  <1>3. Good(RenderSteps \o last)
    <2> HIDE DEF last
    <2> QED
      BY <1>1, <1>2, JoinFollows, JoinUngithub
  <1>4. \/ scope = "full" /\ SyncSteps[scope] = RenderSteps \o last
        \/ scope = "agents_md" /\ SyncSteps[scope] = RenderSteps
        \/ scope = "gitignore" /\ SyncSteps[scope] = last
    <2> DEFINE full == RenderSteps \o last
    <2>1. SyncSteps = [full |-> full, agents_md |-> RenderSteps, gitignore |-> last]
      BY DEF SyncSteps
    <2> HIDE DEF full, last
    <2>2. \/ scope = "full" /\ SyncSteps[scope] = full
          \/ scope = "agents_md" /\ SyncSteps[scope] = RenderSteps
          \/ scope = "gitignore" /\ SyncSteps[scope] = last
      BY <2>1
    <2> QED
      BY <2>2 DEF full
  <1> HIDE DEF Good, last
  <1>5. Good(SyncSteps[scope])
    BY <1>1, <1>2, <1>3, <1>4
  <1> QED
    BY <1>5 DEF Good

\* init's pairs: the hooks of each agent asked for, then its entry.
LEMMA HookList ==
  ASSUME NEW integrations \in Seq(Agents)
  PROVE  LET t == HookSteps(integrations)
         IN  t \in Seq(Steps) /\ Follows(t) /\ Ungithub(t)
               /\ (t # << >> => t[1] \notin Registers)
  <1> DEFINE n == Len(integrations)
             t == HookSteps(integrations)
  <1>0. n \in Nat
    OBVIOUS
  <1>1. /\ DOMAIN t = 1..(2 * n)
        /\ \A i \in 1..(2 * n) :
             t[i] = IF i % 2 = 1 THEN <<"hook", integrations[(i + 1) \div 2]>>
                                 ELSE <<"register", integrations[i \div 2]>>
    BY DEF HookSteps, Reg
  <1>2. ASSUME NEW i \in 1..(2 * n) PROVE t[i] \in Steps
    <2>1. CASE i % 2 = 1
      <3>1. (i + 1) \div 2 \in 1..n
        BY <1>0, <2>1
      <3>2. integrations[(i + 1) \div 2] \in Agents
        BY <3>1
      <3> HIDE DEF t
      <3>3. t[i] = <<"hook", integrations[(i + 1) \div 2]>>
        BY <1>1, <2>1
      <3> QED
        BY <3>2, <3>3 DEF Steps
    <2>2. CASE i % 2 # 1
      <3>1. i \div 2 \in 1..n
        BY <1>0, <2>2
      <3>2. integrations[i \div 2] \in Agents
        BY <3>1
      <3> HIDE DEF t
      <3>3. t[i] = <<"register", integrations[i \div 2]>>
        BY <1>1, <2>2
      <3> QED
        BY <3>2, <3>3 DEF Steps, Adapters
    <2> QED
      BY <2>1, <2>2
  <1>3. 2 * n \in Nat /\ t \in [1..(2 * n) -> Steps]
    <2>1. t = [i \in 1..(2 * n) |-> t[i]]
      BY <1>1 DEF HookSteps
    <2> QED
      BY <1>0, <1>2, <2>1
  <1>4. t \in Seq(Steps) /\ Len(t) = 2 * n
    BY <1>0, <1>3
  <1> HIDE DEF t
  <1>5. Follows(t)
    <2> SUFFICES ASSUME NEW i \in 2..Len(t), t[i] \in Registers
                 PROVE  t[i - 1] = <<"hook", t[i][2]>>
      BY DEF Follows
    <2>1. i % 2 # 1
      BY <1>1, <1>4 DEF Registers
    <2>2. (i - 1) % 2 = 1 /\ ((i - 1) + 1) \div 2 = i \div 2 /\ i - 1 \in 1..(2 * n)
      BY <1>0, <1>4, <2>1
    <2> QED
      BY <1>1, <1>4, <2>1, <2>2
  <1>6. Ungithub(t)
    BY <1>1, <1>4 DEF Ungithub
  <1>7. t # << >> => t[1] \notin Registers
    <2>1. t # << >> => 1 \in 1..(2 * n)
      BY <1>0, <1>4, EmptySeq
    <2>2. 1 % 2 = 1
      OBVIOUS
    <2> QED
      BY <1>1, <2>1, <2>2 DEF Registers
  <1> QED
    BY <1>4, <1>5, <1>6, <1>7 DEF t

\* init adds entries only behind their hooks.
LEMMA InitList ==
  ASSUME NEW force \in BOOLEAN, NEW integrations \in Seq(Agents), NEW setup \in BOOLEAN
  PROVE  LET t == InitSteps(force, integrations, setup)
         IN  t \in Seq(Steps) /\ Follows(t) /\ t[1] \notin Registers
               /\ (setup \/ Ungithub(t))
  <1> DEFINE a == <<<<"scaffold">>, <<"events">>, <<"skeleton", force>>>>
             b == HookSteps(integrations)
             c == RenderSteps
             d == <<<<"gitignore">>>>
             e == IF setup THEN <<<<"github", Template>>, <<"github", Workflow>>>>
                           ELSE << >>
  <1>0. InitSteps(force, integrations, setup) = (((a \o b) \o c) \o d) \o e
    BY DEF InitSteps
  <1>1. /\ a \in Seq(Steps) /\ Follows(a) /\ Ungithub(a)
        /\ Len(a) = 3 /\ a[1] = <<"scaffold">>
    BY DEF Steps, Follows, Ungithub, Registers
  <1>2. /\ b \in Seq(Steps) /\ Follows(b) /\ Ungithub(b)
        /\ b # << >> => b[1] \notin Registers
    BY HookList
  <1>3. /\ c \in Seq(Steps) /\ Follows(c) /\ Ungithub(c)
        /\ c[1] \notin Registers
    BY DEF Steps, Follows, Ungithub, Registers, RenderSteps, Adapters
  <1>4. d \in Seq(Steps) /\ Follows(d) /\ Ungithub(d) /\ d[1] \notin Registers
    BY DEF Steps, Follows, Ungithub, Registers
  <1>5. /\ e \in Seq(Steps) /\ Follows(e) /\ (setup \/ Ungithub(e))
        /\ e # << >> => e[1] \notin Registers
    <2>1. CASE setup
      BY <2>1 DEF Steps, Follows, Ungithub, Registers, GithubFiles
    <2>2. CASE ~setup
      BY <2>2 DEF Follows, Ungithub
    <2> QED
      BY <2>1, <2>2
  <1> HIDE DEF a, b, c, d, e
  <1>6. a \o b \in Seq(Steps) /\ Follows(a \o b) /\ Ungithub(a \o b)
          /\ Len(a \o b) >= 1 /\ (a \o b)[1] = <<"scaffold">>
    BY <1>1, <1>2, JoinFollows, JoinUngithub
  <1>7. (a \o b) \o c \in Seq(Steps) /\ Follows((a \o b) \o c) /\ Ungithub((a \o b) \o c)
          /\ Len((a \o b) \o c) >= 1 /\ ((a \o b) \o c)[1] = <<"scaffold">>
    BY <1>3, <1>6, JoinFollows, JoinUngithub
  <1>8. ((a \o b) \o c) \o d \in Seq(Steps) /\ Follows(((a \o b) \o c) \o d)
          /\ Ungithub(((a \o b) \o c) \o d)
          /\ Len(((a \o b) \o c) \o d) >= 1 /\ (((a \o b) \o c) \o d)[1] = <<"scaffold">>
    BY <1>4, <1>7, JoinFollows, JoinUngithub
  <1>9. LET t == (((a \o b) \o c) \o d) \o e
        IN  t \in Seq(Steps) /\ Follows(t) /\ (setup \/ Ungithub(t))
              /\ t[1] = <<"scaffold">>
    BY <1>5, <1>8, JoinFollows, JoinUngithub
  <1> QED
    BY <1>0, <1>9 DEF Registers

\* The blocks that are put back come before what is left to do.
LEMMA ReinjectList ==
  ASSUME NEW t \in Seq(Steps), Follows(t), t # << >> => t[1] \notin Registers
  PROVE  LET todo == [i \in DOMAIN Loaded |-> <<"inject", Loaded[i]>>] \o t
         IN  /\ todo \in Seq(Steps) /\ Follows(todo)
             /\ Ungithub(t) => Ungithub(todo)
             /\ todo # << >> => todo[1] \notin Registers
  <1> DEFINE pre == [i \in DOMAIN Loaded |-> <<"inject", Loaded[i]>>]
  <1>1. Loaded \in Seq(Agents \cup Frameworks)
    <2>1. IsFiniteSet(registry \cap Frameworks) /\ IsFiniteSet(registry \cap Agents)
      BY AdapterAssumption, FS_Subset
    <2>2. /\ SetToSeq(registry \cap Frameworks) \in Seq(registry \cap Frameworks)
          /\ SetToSeq(registry \cap Agents) \in Seq(registry \cap Agents)
      BY <2>1, Sequenced
    <2>3. /\ SetToSeq(registry \cap Frameworks) \in Seq(Agents \cup Frameworks)
          /\ SetToSeq(registry \cap Agents) \in Seq(Agents \cup Frameworks)
      BY <2>2
    <2> QED
      BY <2>3, ConcatProperties DEF Loaded
  <1>2. \A i \in 1..Len(Loaded) : <<"inject", Loaded[i]>> \in Steps
    BY <1>1 DEF Steps, Adapters
  <1>3. pre \in [1..Len(Loaded) -> Steps] /\ Len(Loaded) \in Nat
    BY <1>1, <1>2
  <1>4. pre \in Seq(Steps) /\ Len(pre) = Len(Loaded)
    BY <1>3
  <1>5. \A i \in 1..Len(pre) : pre[i] = <<"inject", Loaded[i]>>
    BY <1>1, <1>4
  <1>6. Follows(pre) /\ Ungithub(pre) /\ (pre[1] \notin Registers \/ pre = << >>)
    <2>1. pre # << >> => 1 \in 1..Len(pre)
      BY <1>4, EmptySeq
    <2> HIDE DEF pre
    <2> QED
      BY <1>4, <1>5, <2>1 DEF Follows, Ungithub, Registers
  <1> HIDE DEF pre
  <1>7. LET todo == pre \o t
        IN  /\ todo \in Seq(Steps) /\ Follows(todo)
            /\ Ungithub(t) => Ungithub(todo)
            /\ todo # << >> => todo[1] \notin Registers
    BY <1>4, <1>6, JoinFollows, JoinUngithub
  <1> QED
    BY <1>7 DEF pre

-----------------------------------------------------------------------------
(* What the commands know of the files they change.                        *)

\* An answer about a GitHub file: only a file that is there is appended to.
Answers ==
  {w \in [way : {"create", "keep", "append", "overwrite"}, seen : Texts \cup {None}] :
     w.way = "append" => w.seen # None}

\* A command has its steps, the plans they need, and a value of the right
\* kind for the file it is about to write.
JobOK(j) ==
  /\ j.at \in {"new", "running", "done", "failed"}
  /\ j.todo \in Seq(Steps) /\ Follows(j.todo)
  /\ j.at = "running" /\ j.cmd = "init" => j.plans \in [Agents -> Files]
  /\ Ungithub(j.todo) \/ j.decided \in [GithubFiles -> Answers]
  /\ j.buffer # << >> =>
       /\ Head(j.todo)[1] \in RegistrySteps => j.buffer[1] \subseteq Adapters
       /\ Head(j.todo)[1] \in CheckSteps => j.buffer[1] \in Rows
       /\ Head(j.todo)[1] \in DocSteps => j.buffer[1] \in Docs

\* A transaction under way is that of the step its command is at.
Away == {"idle", "dead"}
Engaged(p, t) ==
  t.at \notin Away =>
    /\ Running(p) /\ job[p].todo # << >>
    /\ t.agent \in Agents
    /\ \/ t.cmd = "install" /\ Next1(p) = <<"hook", t.agent>>
       \/ t.cmd = "uninstall" /\ Next1(p) = <<"unhook", t.agent>>
    /\ t.at \in {"backup", "fill"} => t.cmd = "install"

\* An install writes what its plan read, with other hooks of keepsail's; and
\* past the comparison, under the lock, the file is still what the plan read.
Planned(p, t) ==
  t.at \notin Away /\ t.cmd = "install" =>
    /\ t.original \in Contents \cup {None}
    /\ t.desired \in Contents /\ t.desired.ours # None
    /\ t.desired.user = UserOf(t.original)
    /\ t.at \in {"backup", "fill", "replace"} /\ ~raced /\ p \notin touched
         => settings[t.agent] = t.original

Busy == \A p \in Pids : Engaged(p, proc[p]) /\ Planned(p, proc[p])

Held ==
  /\ agenda \in Agendas
  /\ harness \in {"absent", "partial", "ready"}
  /\ registry \subseteq Adapters
  /\ checks \in Rows
  /\ doc \in Docs
  /\ ignored \in BOOLEAN
  /\ github \in [GithubFiles -> Texts \cup {None}]
  /\ binary \in Binaries
  /\ cut \subseteq Agents
  /\ \A p \in Pids : JobOK(job[p])

InstInv == LockInv /\ DocInv /\ SettingsTypeOK /\ Held /\ Busy

\* A transaction moves on while no settings file changes.
LEMMA TransactionMoves ==
  ASSUME InstInv, NEW p \in Pids, UNCHANGED <<settings, job>>,
         backups' \in [Agents -> Seq(Files)],
         lock' \in [Agents -> Locks \cup {None}],
         raced' \in BOOLEAN, raced => raced',
         touched' \subseteq Pids, touched \subseteq touched' \cup {p},
         NEW t, proc' = [proc EXCEPT ![p] = t], t \in Transactions,
         Engaged(p, t)', Planned(p, t)'
  PROVE  SettingsTypeOK' /\ Busy'
  <1>1. /\ proc' \in [Pids -> Transactions] /\ proc'[p] = t
        /\ \A q \in Pids \ {p} : proc'[q] = proc[q]
    BY DEF InstInv, SettingsTypeOK
  <1>2. SettingsTypeOK'
    BY <1>1 DEF InstInv, SettingsTypeOK
  <1>3. ASSUME NEW q \in Pids \ {p}
        PROVE  Engaged(q, proc[q])' /\ Planned(q, proc[q])'
    <2>1. proc'[q] = proc[q] /\ Engaged(q, proc[q]) /\ Planned(q, proc[q])
      BY <1>1 DEF InstInv, Busy
    <2> QED
      BY <2>1 DEF Engaged, Planned, Running, Next1
  <1>4. Engaged(p, proc[p])' /\ Planned(p, proc[p])'
    BY <1>1 DEF Engaged, Planned, Running, Next1
  <1> QED
    BY <1>2, <1>3, <1>4 DEF Busy

\* The fields of a transaction that takes its next stage.
LEMMA Staged ==
  ASSUME NEW t \in Transactions, NEW stage \in Stages
  PROVE  LET u == [t EXCEPT !.at = stage]
         IN  /\ u \in Transactions /\ u.at = stage /\ u.cmd = t.cmd
             /\ u.agent = t.agent /\ u.original = t.original
             /\ u.desired = t.desired /\ u.saw = t.saw /\ u.result = t.result
             /\ u.mark = t.mark
  BY DEF Transactions

\* The steps at the lock change neither the plan nor the file.
LEMMA LockSteps ==
  ASSUME InstInv, NEW p \in Pids, UNCHANGED job,
         OpenLock(p) \/ Judge(p) \/ Break(p) \/ WriteOwner(p) \/ Unlock(p)
  PROVE  SettingsTypeOK' /\ Busy'
  <1> DEFINE t == proc[p]
  <1>0. /\ t \in Transactions /\ Engaged(p, t) /\ Planned(p, t)
        /\ raced \in BOOLEAN /\ touched \subseteq Pids
        /\ lock \in [Agents -> Locks \cup {None}]
        /\ backups \in [Agents -> Seq(Files)]
    BY DEF InstInv, SettingsTypeOK, Busy
  <1>1. /\ UNCHANGED <<settings, backups>> /\ t.at \notin Away
        /\ raced' \in BOOLEAN /\ (raced => raced')
        /\ touched' \subseteq Pids /\ touched \subseteq touched' \cup {p}
    BY <1>0 DEF OpenLock, Judge, Break, WriteOwner, Unlock, Away
  <1>2. t.agent \in Agents
    BY <1>0, <1>1 DEF Engaged
  <1>3. lock' \in [Agents -> Locks \cup {None}]
    <2>1. [by |-> p, owner |-> None, aged |-> FALSE] \in Locks
      BY DEF Locks
    <2>2. ASSUME lock[t.agent] # None
          PROVE  [lock[t.agent] EXCEPT !.owner = p] \in Locks
      BY <1>0, <1>2, <2>2 DEF Locks
    <2>3. UNCHANGED lock \/ lock' = [lock EXCEPT ![t.agent] = None]
            \/ lock' = [lock EXCEPT ![t.agent] = [by |-> p, owner |-> None, aged |-> FALSE]]
            \/ (lock[t.agent] # None /\ lock' = [lock EXCEPT ![t.agent].owner = p])
      BY DEF OpenLock, Judge, Break, WriteOwner, Unlock
    <2> QED
      BY <1>0, <1>2, <2>1, <2>2, <2>3
  <1>4. ASSUME NEW u \in Transactions, proc' = [proc EXCEPT ![p] = u],
               u.cmd = t.cmd, u.agent = t.agent, u.original = t.original,
               u.desired = t.desired, u.at \notin {"backup", "fill", "replace"}
        PROVE  SettingsTypeOK' /\ Busy'
    <2>1. Engaged(p, u)' /\ Planned(p, u)'
      BY <1>0, <1>1, <1>4 DEF Engaged, Planned, Running, Next1
    <2> QED
      BY <1>0, <1>1, <1>3, <1>4, <2>1, TransactionMoves
  <1>5. ASSUME NEW u \in Transactions, proc' = [proc EXCEPT ![p] = u], u.at \in Away
        PROVE  SettingsTypeOK' /\ Busy'
    <2>1. Engaged(p, u)' /\ Planned(p, u)'
      BY <1>5 DEF Engaged, Planned
    <2> QED
      BY <1>0, <1>1, <1>3, <1>5, <2>1, TransactionMoves
  <1>6. ASSUME NEW stage \in {"open", "owner"}, Move(p, stage)
        PROVE  SettingsTypeOK' /\ Busy'
    <2> DEFINE u == [t EXCEPT !.at = stage]
    <2>1. stage \in Stages /\ proc' = [proc EXCEPT ![p] = u]
      BY <1>6 DEF Move, Stages
    <2> HIDE DEF t
    <2> QED
      BY <1>0, <1>4, <1>6, <2>1, Staged
  <1>7. ASSUME NEW stage \in {"judge", "break", "check"}, NEW saw \in Locks \cup {None},
               proc' = [proc EXCEPT ![p].at = stage, ![p].saw = saw]
        PROVE  SettingsTypeOK' /\ Busy'
    <2> DEFINE u == [t EXCEPT !.at = stage, !.saw = saw]
    <2>1. proc' = [proc EXCEPT ![p] = u]
      BY <1>7 DEF InstInv, SettingsTypeOK
    <2>2. /\ u \in Transactions /\ u.at = stage /\ u.cmd = t.cmd
          /\ u.agent = t.agent /\ u.original = t.original /\ u.desired = t.desired
      BY <1>0, <1>7 DEF Transactions, Stages, Critical
    <2> HIDE DEF t, u
    <2> QED
      BY <1>4, <1>7, <2>1, <2>2
  <1>8. ASSUME NEW result \in {"ok", "refused", None},
               proc' = [proc EXCEPT ![p] = [Idle EXCEPT !.result = result]]
        PROVE  SettingsTypeOK' /\ Busy'
    <2> DEFINE u == [Idle EXCEPT !.result = result]
    <2>1. u \in Transactions /\ u.at = "idle"
      BY DEF Idle, Transactions, Files, Stages
    <2> HIDE DEF u
    <2> QED
      BY <1>5, <1>8, <2>1 DEF u, Away
  <1>9. CASE OpenLock(p)
    BY <1>0, <1>2, <1>6, <1>7, <1>9 DEF OpenLock
  <1>10. CASE Judge(p)
    BY <1>0, <1>2, <1>6, <1>7, <1>8, <1>10 DEF Judge, Refuse
  <1>11. CASE Break(p)
    BY <1>6, <1>11 DEF Break
  <1>12. CASE WriteOwner(p)
    BY <1>7, <1>12 DEF WriteOwner
  <1>13. CASE Unlock(p)
    BY <1>0, <1>8, <1>13 DEF Unlock, Transactions
  <1> QED
    BY <1>9, <1>10, <1>11, <1>12, <1>13

\* The steps under the lock: what an install compares and writes.
LEMMA WriteSteps ==
  ASSUME InstInv, NEW p \in Pids, UNCHANGED job,
         CheckPlan(p) \/ CreateBackup(p) \/ FillBackup(p) \/ PlanRemoval(p)
           \/ WriteFails(p)
  PROVE  SettingsTypeOK' /\ Busy'
  <1> DEFINE t == proc[p]
             a == proc[p].agent
  <1>0. /\ t \in Transactions /\ Engaged(p, t) /\ Planned(p, t)
        /\ raced \in BOOLEAN /\ touched \subseteq Pids
        /\ lock \in [Agents -> Locks \cup {None}]
        /\ backups \in [Agents -> Seq(Files)]
        /\ settings \in [Agents -> Files]
        /\ proc \in [Pids -> Transactions]
    BY DEF InstInv, SettingsTypeOK, Busy
  <1>1. /\ UNCHANGED <<settings, lock, raced>> /\ t.at \notin Away
        /\ touched' \subseteq Pids /\ touched \subseteq touched' \cup {p}
    BY <1>0 DEF CheckPlan, CreateBackup, FillBackup, PlanRemoval, WriteFails, Away
  <1>2. a \in Agents
    BY <1>0, <1>1 DEF Engaged
  <1>3. backups' \in [Agents -> Seq(Files)]
    <2>1. Torn \in Files /\ None \in Files /\ t.original \in Files
      BY <1>0 DEF Files, Transactions
    <2>2. ASSUME NEW file \in Files
          PROVE  [backups[a] EXCEPT ![t.mark] = file] \in Seq(Files)
      <3>1. backups[a] \in [1..Len(backups[a]) -> Files] /\ Len(backups[a]) \in Nat
        BY <1>0, <1>2
      <3> DEFINE s == [backups[a] EXCEPT ![t.mark] = file]
      <3>2. s \in [1..Len(backups[a]) -> Files]
        BY <2>2, <3>1
      <3> QED
        BY <3>1, <3>2, SeqDef
    <2>3. UNCHANGED backups \/ backups' = [backups EXCEPT ![a] = Append(@, Torn)]
            \/ \E file \in Files :
                 backups' = [backups EXCEPT ![a] = [backups[a] EXCEPT ![t.mark] = file]]
      BY <1>0, <2>1 DEF CheckPlan, CreateBackup, FillBackup, PlanRemoval, WriteFails
    <2>4. Append(backups[a], Torn) \in Seq(Files)
      BY <1>0, <1>2, <2>1
    <2> HIDE DEF t, a
    <2> QED
      BY <1>0, <1>2, <2>2, <2>3, <2>4
  <1>4. ASSUME NEW u \in Transactions, proc' = [proc EXCEPT ![p] = u],
               u.cmd = t.cmd, u.agent = a, u.at \in {"unlock", "fill", "replace", "backup"},
               u.original = t.original, u.cmd = "install" => u.desired = t.desired,
               u.at \in {"fill", "backup"} => u.cmd = "install",
               u.cmd = "install" /\ u.at # "unlock" /\ p \notin touched' /\ ~raced
                 => settings[a] = t.original
        PROVE  SettingsTypeOK' /\ Busy'
    <2>1. Engaged(p, u)' /\ Planned(p, u)'
      BY <1>0, <1>1, <1>4 DEF Engaged, Planned, Running, Next1
    <2> QED
      BY <1>0, <1>1, <1>3, <1>4, <2>1, TransactionMoves
  <1>5. ASSUME NEW result \in {"ok", "refused"}, Finish(p, result)
        PROVE  SettingsTypeOK' /\ Busy'
    <2> DEFINE u == [t EXCEPT !.at = "unlock", !.result = result]
    <2>1. proc' = [proc EXCEPT ![p] = u]
      BY <1>0, <1>5 DEF Finish
    <2>2. /\ u \in Transactions /\ u.at = "unlock" /\ u.cmd = t.cmd
          /\ u.agent = a /\ u.original = t.original /\ u.desired = t.desired
      BY <1>0, <1>5 DEF Transactions, Stages, Critical
    <2> HIDE DEF t, u, a
    <2> QED
      BY <1>4, <2>1, <2>2
  <1>6. ASSUME NEW stage \in {"backup", "replace"}, Move(p, stage), t.cmd = "install",
               p \notin touched' /\ ~raced => settings[a] = t.original
        PROVE  SettingsTypeOK' /\ Busy'
    <2> DEFINE u == [t EXCEPT !.at = stage]
    <2>1. proc' = [proc EXCEPT ![p] = u]
      BY <1>6 DEF Move
    <2>2. /\ u \in Transactions /\ u.at = stage /\ u.cmd = t.cmd
          /\ u.agent = a /\ u.original = t.original /\ u.desired = t.desired
      BY <1>0, <1>6 DEF Transactions, Stages, Critical
    <2> HIDE DEF t, u, a
    <2> QED
      BY <1>4, <1>6, <2>1, <2>2
  <1>7. CASE CheckPlan(p)
    BY <1>5, <1>6, <1>7 DEF CheckPlan
  <1>8. CASE CreateBackup(p)
    <2> DEFINE mark == Len(backups[a]) + 1
               u == [t EXCEPT !.at = "fill", !.mark = mark]
    <2>1. proc' = [proc EXCEPT ![p] = u] /\ t.at = "backup" /\ UNCHANGED touched
      BY <1>0, <1>8 DEF CreateBackup
    <2>2. mark \in Nat
      BY <1>0, <1>2
    <2>3. /\ u \in Transactions /\ u.at = "fill" /\ u.cmd = t.cmd
          /\ u.agent = a /\ u.original = t.original /\ u.desired = t.desired
      BY <1>0, <2>2 DEF Transactions, Stages, Critical
    <2>4. t.cmd = "install" /\ (p \notin touched' /\ ~raced => settings[a] = t.original)
      BY <1>0, <1>1, <2>1 DEF Engaged, Planned
    <2> HIDE DEF t, u, a
    <2> QED
      BY <1>4, <2>1, <2>3, <2>4
  <1>9. CASE FillBackup(p)
    <2>1. Move(p, "replace") /\ t.at = "fill" /\ UNCHANGED touched
      BY <1>9 DEF FillBackup
    <2>2. t.cmd = "install" /\ (p \notin touched' /\ ~raced => settings[a] = t.original)
      BY <1>0, <1>1, <2>1 DEF Engaged, Planned
    <2> QED
      BY <1>6, <2>1, <2>2
  <1>10. CASE PlanRemoval(p)
    <2>1. t.cmd = "uninstall"
      BY <1>10 DEF PlanRemoval
    <2>2. ASSUME NEW desired \in Files,
                 proc' = [proc EXCEPT ![p].at = "replace", ![p].desired = desired]
          PROVE  SettingsTypeOK' /\ Busy'
      <3> DEFINE u == [t EXCEPT !.at = "replace", !.desired = desired]
      <3>1. proc' = [proc EXCEPT ![p] = u]
        BY <1>0, <2>2
      <3>2. /\ u \in Transactions /\ u.at = "replace" /\ u.cmd = t.cmd
            /\ u.agent = a /\ u.original = t.original
        BY <1>0, <2>2 DEF Transactions, Stages, Critical
      <3> HIDE DEF t, u, a
      <3> QED
        BY <1>4, <2>1, <3>1, <3>2
    <2>3. \A k \in DOMAIN backups[a] : backups[a][k] \in Files
      BY <1>0, <1>2
    <2>4. settings[a] \in Contents => Stripped(settings[a]) \in Files
      BY DEF Stripped, Contents, Files
    <2>5. settings[a] # Torn /\ settings[a] # None => settings[a] \in Contents
      BY <1>0, <1>2 DEF Files
    <2>6. \/ Finish(p, "refused") \/ Finish(p, "ok")
          \/ \E k \in DOMAIN backups[a] :
               proc' = [proc EXCEPT ![p].at = "replace", ![p].desired = backups[a][k]]
          \/ /\ settings[a] \in Contents
             /\ proc' = [proc EXCEPT ![p].at = "replace",
                                     ![p].desired = Stripped(settings[a])]
      BY <1>10, <2>5, NoneAssumption DEF PlanRemoval
    <2> QED
      BY <1>5, <2>2, <2>3, <2>4, <2>6
  <1>11. CASE WriteFails(p)
    BY <1>5, <1>11 DEF WriteFails
  <1> QED
    BY <1>7, <1>8, <1>9, <1>10, <1>11

\* The file is replaced by whoever holds its lock.
LEMMA ReplaceStep ==
  ASSUME InstInv, NEW p \in Pids, UNCHANGED job, Replace(p)
  PROVE  SettingsTypeOK' /\ Busy'
  <1> DEFINE t == proc[p]
             a == proc[p].agent
             u == [t EXCEPT !.at = "unlock", !.result = "ok"]
  <1>0. /\ t \in Transactions /\ Engaged(p, t) /\ Planned(p, t)
        /\ settings \in [Agents -> Files] /\ proc \in [Pids -> Transactions]
        /\ t.at = "replace" /\ UNCHANGED <<backups, lock, raced, touched>>
        /\ settings' = [settings EXCEPT ![a] = t.desired]
    BY DEF InstInv, SettingsTypeOK, Busy, Replace
  <1>1. proc' = [proc EXCEPT ![p] = u]
    BY <1>0 DEF Replace, Finish
  <1>2. /\ u \in Transactions /\ u.at = "unlock" /\ u.cmd = t.cmd
        /\ u.agent = a /\ u.original = t.original /\ u.desired = t.desired
    BY <1>0 DEF Transactions, Stages, Critical
  <1> HIDE DEF u
  <1>3. SettingsTypeOK'
    <2>1. settings' \in [Agents -> Files] /\ proc' \in [Pids -> Transactions]
      BY <1>0, <1>1, <1>2 DEF Transactions
    <2> QED
      BY <1>0, <2>1 DEF InstInv, SettingsTypeOK
  <1>4. Engaged(p, proc[p])' /\ Planned(p, proc[p])'
    <2>1. proc'[p] = u
      BY <1>0, <1>1
    <2> QED
      BY <1>0, <1>2, <2>1 DEF Engaged, Planned, Running, Next1, Away
  <1>5. ASSUME NEW q \in Pids \ {p}
        PROVE  Engaged(q, proc[q])' /\ Planned(q, proc[q])'
    <2>1. proc'[q] = proc[q] /\ Engaged(q, proc[q]) /\ Planned(q, proc[q])
      BY <1>0, <1>1 DEF InstInv, Busy
    <2>2. a \in Agents
      BY <1>0 DEF Engaged, Away
    <2>3. proc[q].at \in {"backup", "fill", "replace"} /\ ~raced /\ proc[q].agent \in Agents
            => proc[q].agent # a
      BY <1>0, <2>2 DEF InstInv, LockInv, Sound, Critical
    <2>4. proc[q].at \in {"backup", "fill", "replace"} /\ ~raced
            => settings'[proc[q].agent] = settings[proc[q].agent]
      BY <1>0, <2>1, <2>3 DEF Engaged, Away
    <2> QED
      BY <1>0, <2>1, <2>4 DEF Engaged, Planned, Running, Next1
  <1> QED
    BY <1>3, <1>4, <1>5 DEF Busy

\* The user saves a file: whoever is past the comparison is noted.
LEMMA SaveStep ==
  ASSUME InstInv, NEW a \in Agents, UNCHANGED job, UserSaves(a)
  PROVE  SettingsTypeOK' /\ Busy'
  <1>0. /\ settings \in [Agents -> Files] /\ UNCHANGED <<backups, lock, proc, raced>>
        /\ settings' = [settings EXCEPT ![a] = Saved(settings[a])]
        /\ settings[a] \in Contents => settings[a].user < Saves
        /\ touched' = touched \cup {p \in Pids : proc[p].agent = a
                                                  /\ proc[p].at \in Critical}
    BY DEF InstInv, SettingsTypeOK, UserSaves
  <1>1. Saved(settings[a]) \in Contents
    BY <1>0, SavesAssumption DEF Saved, Contents
  <1>2. SettingsTypeOK'
    BY <1>0, <1>1 DEF InstInv, SettingsTypeOK, Files
  <1>3. ASSUME NEW q \in Pids PROVE Engaged(q, proc[q])' /\ Planned(q, proc[q])'
    <2>1. Engaged(q, proc[q]) /\ Planned(q, proc[q])
      BY DEF InstInv, Busy
    <2> QED
      BY <1>0, <2>1 DEF Engaged, Planned, Running, Next1, Critical
  <1> QED
    BY <1>2, <1>3 DEF Busy

-----------------------------------------------------------------------------
(* Commands begin, go on and end: the files stay of their kind.            *)

\* A command that is at no transaction goes on, ends or begins.
LEMMA JobMoves ==
  ASSUME InstInv, UNCHANGED settingsVars, NEW p \in Pids, proc[p].at \in Away,
         NEW j, job' = [job EXCEPT ![p] = j]
  PROVE  SettingsTypeOK' /\ Busy'
  <1>1. SettingsTypeOK'
    BY DEF settingsVars, InstInv, SettingsTypeOK
  <1>2. ASSUME NEW q \in Pids PROVE Engaged(q, proc[q])' /\ Planned(q, proc[q])'
    <2>1. Engaged(q, proc[q]) /\ Planned(q, proc[q])
      BY DEF InstInv, Busy
    <2>2. q # p => job'[q] = job[q]
      BY DEF InstInv, DocInv
    <2> QED
      BY <2>1, <2>2 DEF settingsVars, Engaged, Planned, Running, Next1
  <1> QED
    BY <1>1, <1>2 DEF Busy

\* The other commands are not disturbed.
LEMMA JobsStay ==
  ASSUME InstInv, NEW p \in Pids, NEW j, JobOK(j), job' = [job EXCEPT ![p] = j]
  PROVE  \A q \in Pids : JobOK(job[q])'
  BY DEF InstInv, DocInv, Held, JobOK

\* A command that has ended has no steps left.
LEMMA EndedOK == ASSUME NEW how \in {"done", "failed"}
                 PROVE  JobOK([NoJob EXCEPT !.at = how])
  BY DEF JobOK, NoJob, Follows, Ungithub

\* A step is dropped that was not in the middle of a write.
LEMMA PoppedOK ==
  ASSUME InstInv, NEW p \in Pids, job[p].todo # << >>
  PROVE  /\ JobOK([job[p] EXCEPT !.todo = Tail(@), !.buffer = << >>])
         /\ job[p].buffer = << >> => JobOK([job[p] EXCEPT !.todo = Tail(@)])
  <1> DEFINE t == job[p].todo
             j == [job[p] EXCEPT !.todo = Tail(@), !.buffer = << >>]
             k == [job[p] EXCEPT !.todo = Tail(@)]
  <1>0. JobOK(job[p]) /\ DOMAIN job[p] = JobFields
    BY DEF InstInv, Held, DocInv, Buffered
  <1>1. Tail(t) \in Seq(Steps) /\ Follows(Tail(t))
    BY <1>0, TailFollows DEF JobOK
  <1>2. Ungithub(t) => Ungithub(Tail(t))
    <2>1. t \in Seq(Steps)
      BY <1>0 DEF JobOK
    <2>2. /\ Len(Tail(t)) = Len(t) - 1 /\ Len(t) \in Nat
          /\ \A i \in 1..Len(Tail(t)) : Tail(t)[i] = t[i + 1]
      BY <2>1, HeadTailProperties
    <2> QED
      BY <2>2 DEF Ungithub
  <1>3. /\ j.at = job[p].at /\ j.todo = Tail(t) /\ j.cmd = job[p].cmd
        /\ j.plans = job[p].plans /\ j.decided = job[p].decided /\ j.buffer = << >>
    BY <1>0 DEF JobFields
  <1>4. /\ k.at = job[p].at /\ k.todo = Tail(t) /\ k.cmd = job[p].cmd
        /\ k.plans = job[p].plans /\ k.decided = job[p].decided
        /\ k.buffer = job[p].buffer
    BY <1>0 DEF JobFields
  <1> HIDE DEF j, k, t
  <1> QED
    BY <1>0, <1>1, <1>2, <1>3, <1>4 DEF JobOK, j, k, t

\* At a step that is no transaction, the transaction is at rest.
LEMMA AtRest ==
  ASSUME InstInv, NEW p \in Pids,
         ~Running(p) \/ job[p].todo = << >> \/ Next1(p)[1] \notin {"hook", "unhook"}
  PROVE  proc[p].at \in Away
  BY DEF InstInv, Busy, Engaged

\* A command begins with its steps, and init with its plans for them.
LEMMA BeginSteps ==
  ASSUME InstInv, NEW p \in Pids,
         InstallCommand(p) \/ UninstallCommand(p) \/ RegisterChecks(p)
           \/ SyncCommand(p) \/ InitCommand(p)
  PROVE  SettingsTypeOK' /\ Busy' /\ Held'
  <1>0. /\ UNCHANGED <<settingsVars, agenda, filesVars, binary>>
        /\ job[p].at = "new" /\ JobOK(job[p]) /\ DOMAIN job[p] = JobFields
        /\ job[p].buffer = << >>
    BY DEF InstallCommand, UninstallCommand, RegisterChecks, SyncCommand, InitCommand,
           Begin, Turn, InstInv, Held, DocInv, Buffered
  <1>1. proc[p].at \in Away
    BY <1>0, AtRest DEF Running
  <1>2. ASSUME NEW j, job' = [job EXCEPT ![p] = j], JobOK(j)
        PROVE  SettingsTypeOK' /\ Busy' /\ Held'
    BY <1>0, <1>1, <1>2, JobMoves, JobsStay DEF InstInv, Held, filesVars
  <1>3. ASSUME NEW cmd, cmd # "init", NEW todo \in Seq(Steps), Follows(todo),
               Ungithub(todo), Begin(p, cmd, todo)
        PROVE  SettingsTypeOK' /\ Busy' /\ Held'
    <2> DEFINE j == [job[p] EXCEPT !.at = "running", !.cmd = cmd, !.todo = todo]
    <2>1. job' = [job EXCEPT ![p] = j]
      BY <1>3 DEF Begin, Started, InstInv, DocInv
    <2>2. /\ j.at = "running" /\ j.cmd = cmd /\ j.todo = todo /\ j.buffer = << >>
      BY <1>0 DEF JobFields
    <2>3. JobOK(j)
      BY <1>3, <2>2 DEF JobOK
    <2> HIDE DEF j
    <2> QED
      BY <1>2, <2>1, <2>3
  <1>4. CASE InstallCommand(p)
    BY <1>3, <1>4, InstallList DEF InstallCommand
  <1>5. CASE UninstallCommand(p)
    <2>1. registry \subseteq Adapters
      BY DEF InstInv, Held
    <2> QED
      BY <1>3, <1>5, <2>1, UninstallList DEF UninstallCommand
  <1>6. CASE RegisterChecks(p)
    <2>1. PICK o \in DOMAIN ChecksOf : Begin(p, "provide", <<<<"check", o>>>>)
      BY <1>6 DEF RegisterChecks
    <2> DEFINE t == <<<<"check", o>>>>
    <2>2. t \in Seq(Steps) /\ Follows(t) /\ Ungithub(t)
      BY DEF Steps, Follows, Ungithub
    <2> HIDE DEF t
    <2>3. Begin(p, "provide", t)
      BY <2>1 DEF t
    <2> QED
      BY <1>3, <2>2, <2>3
  <1>7. CASE SyncCommand(p)
    <2>1. CASE \E scope \in DOMAIN SyncSteps : Begin(p, scope, SyncSteps[scope])
      <3>1. \A scope \in DOMAIN SyncSteps : scope # "init"
        BY DEF SyncSteps
      <3> QED
        BY <1>3, <2>1, <3>1, SyncList
    <2>2. ASSUME NEW n \in registry, Begin(p, "sync one", <<<<"inject", n>>>>)
          PROVE  SettingsTypeOK' /\ Busy' /\ Held'
      <3> DEFINE t == <<<<"inject", n>>>>
      <3>1. n \in Adapters
        BY <2>2 DEF InstInv, Held
      <3>2. t \in Seq(Steps) /\ Follows(t) /\ Ungithub(t)
        BY <3>1 DEF Steps, Follows, Ungithub
      <3> HIDE DEF t
      <3>3. Begin(p, "sync one", t)
        BY <2>2 DEF t
      <3> QED
        BY <1>3, <3>2, <3>3
    <2> QED
      BY <1>7, <2>1, <2>2 DEF SyncCommand
  <1>8. CASE InitCommand(p)
    <2>1. PICK force \in BOOLEAN, integrations \in agenda.integrations,
               setup \in agenda.setups :
            \E plan \in IF setup THEN GithubPlans ELSE {None} : job' = [job EXCEPT ![p] =
              [at |-> "running", cmd |-> "init",
               todo |-> InitSteps(force, integrations, setup), buffer |-> << >>,
               plans |-> settings, pinned |-> binary, decided |-> plan]]
      BY <1>8 DEF InitCommand
    <2>9. PICK plan \in IF setup THEN GithubPlans ELSE {None} :
            job' = [job EXCEPT ![p] =
              [at |-> "running", cmd |-> "init",
               todo |-> InitSteps(force, integrations, setup), buffer |-> << >>,
               plans |-> settings, pinned |-> binary, decided |-> plan]]
      BY <2>1
    <2> DEFINE todo == InitSteps(force, integrations, setup)
               j == [at |-> "running", cmd |-> "init", todo |-> todo, buffer |-> << >>,
                     plans |-> settings, pinned |-> binary, decided |-> plan]
    <2>2. integrations \in Seq(Agents) /\ setup \in BOOLEAN
      BY AgendaAssumption DEF InstInv, Held
    <2>3. todo \in Seq(Steps) /\ Follows(todo) /\ (setup \/ Ungithub(todo))
      BY <2>2, InitList
    <2>4. setup => plan \in [GithubFiles -> Answers]
      <3> SUFFICES ASSUME setup PROVE plan \in [GithubFiles -> Answers]
        OBVIOUS
      <3>1. PICK w \in [GithubFiles -> {"create", "keep", "append", "overwrite"}] :
              /\ \A f \in GithubFiles : w[f] \in Decisions(f, github[f])
              /\ plan = [f \in GithubFiles |-> [way |-> w[f], seen |-> github[f]]]
        BY <2>9 DEF GithubPlans
      <3>2. ASSUME NEW f \in GithubFiles PROVE plan[f] \in Answers
        <4>1. github[f] \in Texts \cup {None}
          BY DEF InstInv, Held
        <4>2. w[f] = "append" => github[f] # None
          BY <3>1 DEF Decisions
        <4>3. plan[f] = [way |-> w[f], seen |-> github[f]]
          BY <3>1
        <4> QED
          BY <4>1, <4>2, <4>3 DEF Answers
      <3> QED
        BY <3>1, <3>2
    <2>5. settings \in [Agents -> Files]
      BY DEF InstInv, SettingsTypeOK
    <2> HIDE DEF todo
    <2>6. JobOK(j)
      BY <2>2, <2>3, <2>4, <2>5 DEF JobOK
    <2>7. job' = [job EXCEPT ![p] = j]
      BY <2>9 DEF todo
    <2> QED
      BY <1>2, <2>6, <2>7
  <1> QED
    BY <1>4, <1>5, <1>6, <1>7, <1>8

\* What a command does beside its transactions leaves the files of the right
\* kinds.
Filed ==
  /\ harness \in {"absent", "partial", "ready"}
  /\ registry \subseteq Adapters
  /\ checks \in Rows
  /\ doc \in Docs
  /\ ignored \in BOOLEAN
  /\ github \in [GithubFiles -> Texts \cup {None}]
  /\ cut \subseteq Agents

\* A command at no transaction takes its step.
LEMMA JobGoesOn ==
  ASSUME InstInv, NEW p \in Pids, proc[p].at \in Away, UNCHANGED settingsVars,
         UNCHANGED <<agenda, binary>>, Filed',
         \/ Pop(p) /\ job[p].todo # << >> /\ job[p].buffer = << >>
         \/ Fail(p) \/ Stop(p, "done")
  PROVE  SettingsTypeOK' /\ Busy' /\ Held'
  <1>1. ASSUME NEW j, job' = [job EXCEPT ![p] = j], JobOK(j)
        PROVE  SettingsTypeOK' /\ Busy' /\ Held'
    BY <1>1, JobMoves, JobsStay DEF InstInv, Held, Filed
  <1>2. CASE Pop(p) /\ job[p].todo # << >> /\ job[p].buffer = << >>
    <2> DEFINE j == [job[p] EXCEPT !.todo = Tail(@)]
    <2>1. job' = [job EXCEPT ![p] = j] /\ JobOK(j)
      BY <1>2, PoppedOK DEF Pop
    <2> HIDE DEF j
    <2> QED
      BY <1>1, <2>1
  <1>3. CASE Fail(p) \/ Stop(p, "done")
    <2>1. PICK how \in {"done", "failed"} : job' = [job EXCEPT ![p] = [NoJob EXCEPT !.at = how]]
      BY <1>3 DEF Fail, Stop
    <2> QED
      BY <1>1, <2>1, EndedOK
  <1> QED
    BY <1>2, <1>3

\* The steps that write a file in one go.
LEMMA SimpleSteps ==
  ASSUME InstInv, NEW p \in Pids,
         Scaffold(p) \/ TouchEvents(p) \/ Skeleton(p) \/ Ignore(p) \/ ApplyGithub(p)
  PROVE  SettingsTypeOK' /\ Busy' /\ Held'
  <1>1. \E step \in {"scaffold", "events", "skeleton", "gitignore", "github"} : At(p, step)
    BY DEF Scaffold, TouchEvents, Skeleton, Ignore, ApplyGithub
  <1>2. proc[p].at \in Away
    BY <1>1, AtRest DEF At
  <1>3. job[p].todo # << >> /\ job[p].buffer = << >>
    BY <1>1 DEF At, Next1, InstInv, DocInv, Buffered, FileSteps, RegistrySteps,
                CheckSteps, DocSteps
  <1>4. Filed /\ UNCHANGED <<settingsVars, agenda, binary>>
    BY DEF InstInv, Held, Filed, Lift, Scaffold, TouchEvents, Skeleton, Ignore, ApplyGithub
  <1>5. CASE Scaffold(p) \/ TouchEvents(p) \/ Ignore(p)
    <2>1. Filed' /\ Pop(p)
      BY <1>4, <1>5 DEF Filed, Scaffold, TouchEvents, Ignore
    <2> QED
      BY <1>2, <1>3, <1>4, <2>1, JobGoesOn
  <1>6. CASE Skeleton(p)
    <2>1. [i \in CheckIds |-> None] \in Rows
      BY DEF Rows
    <2>2. Filed' /\ Pop(p)
      BY <1>4, <1>6, <2>1 DEF Filed, Skeleton
    <2> QED
      BY <1>2, <1>3, <1>4, <2>2, JobGoesOn
  <1>7. CASE ApplyGithub(p)
    <2> DEFINE f == Name(p)
               plan == job[p].decided[f]
    <2>1. At(p, "github") /\ f \in GithubFiles
      <3>1. At(p, "github") /\ job[p].todo \in Seq(Steps)
        BY <1>7 DEF ApplyGithub, InstInv, Held, JobOK
      <3>2. Next1(p) \in Steps /\ Next1(p)[1] = "github"
        BY <3>1 DEF At, Next1
      <3> QED
        BY <3>1, <3>2 DEF Steps, Name
    <2>2. plan \in Answers
      <3>1. job[p].todo \in Seq(Steps) /\ JobOK(job[p])
        BY DEF InstInv, Held, JobOK
      <3>2. 1 \in 1..Len(job[p].todo) /\ job[p].todo[1][1] = "github"
        BY <2>1, <3>1, EmptySeq DEF At, Next1
      <3>3. ~Ungithub(job[p].todo)
        BY <3>2 DEF Ungithub
      <3> QED
        BY <2>1, <3>1, <3>3 DEF JobOK
    <2>3. Bundled \in Texts
      BY SavesAssumption DEF Bundled, Texts
    <2>4. github' \in [GithubFiles -> Texts \cup {None}]
      <3>1. github[f] \in Texts \cup {None}
        BY <1>4, <2>1 DEF Filed
      <3>2. CASE UNCHANGED github
        BY <1>4, <3>2 DEF Filed
      <3>3. CASE plan.way = "append" /\ github[f] = plan.seen
                 /\ github' = [github EXCEPT ![f].block = TRUE]
        <4>1. github[f] \in Texts
          BY <2>2, <3>1, <3>3 DEF Answers
        <4>2. [github[f] EXCEPT !.block = TRUE] \in Texts
          BY <4>1 DEF Texts
        <4> QED
          BY <1>4, <2>1, <3>3, <4>2 DEF Filed
      <3>4. CASE github' = [github EXCEPT ![f] = Bundled]
        BY <1>4, <2>3, <3>4 DEF Filed
      <3> QED
        BY <1>7, <3>2, <3>3, <3>4 DEF ApplyGithub
    <2>5. Filed' /\ (Pop(p) \/ Fail(p))
      BY <1>4, <1>7, <2>4 DEF Filed, ApplyGithub
    <2> QED
      BY <1>2, <1>3, <1>4, <2>5, JobGoesOn
  <1> QED
    BY <1>5, <1>6, <1>7

\* Commands end, one way or the other.
LEMMA EndSteps ==
  ASSUME InstInv, NEW p \in Pids, End(p) \/ StepFails(p) \/ Crash(p) \/ CrashInWrite(p)
  PROVE  SettingsTypeOK' /\ Busy' /\ Held'
  <1>1. Filed /\ UNCHANGED <<agenda, binary>>
    BY DEF InstInv, Held, Filed, Lift, End, StepFails, Crash, CrashInWrite
  <1>2. CASE End(p)
    <2>1. proc[p].at \in Away
      BY <1>2, AtRest DEF End
    <2>2. UNCHANGED settingsVars /\ Filed' /\ Stop(p, "done")
      BY <1>1, <1>2 DEF End, Lift, filesVars, Filed
    <2> QED
      BY <1>1, <2>1, <2>2, JobGoesOn
  <1>3. CASE StepFails(p)
    <2>1. proc[p].at \in Away
      BY <1>3 DEF StepFails, Idle, Away
    <2>2. UNCHANGED settingsVars /\ Filed' /\ Fail(p)
      BY <1>1, <1>3 DEF StepFails, Lift, filesVars, Filed
    <2> QED
      BY <1>1, <2>1, <2>2, JobGoesOn
  <1>4. CASE Crash(p) /\ UNCHANGED settingsVars /\ proc[p].at = "idle"
    <2>1. Filed' /\ Fail(p) /\ proc[p].at \in Away
      BY <1>1, <1>4 DEF Crash, filesVars, Filed, Away
    <2> QED
      BY <1>1, <1>4, <2>1, JobGoesOn
  <1>5. CASE Crash(p) /\ SettingsCrash(p)
    <2> DEFINE t == [Idle EXCEPT !.at = "dead"]
               j == [NoJob EXCEPT !.at = "failed"]
    <2>1. /\ job' = [job EXCEPT ![p] = j] /\ proc' = [proc EXCEPT ![p] = t]
          /\ UNCHANGED <<settings, backups, lock, raced, touched, filesVars>>
      BY <1>5 DEF Crash, Fail, Stop, SettingsCrash
    <2>2. t \in Transactions /\ t.at = "dead"
      BY DEF Idle, Transactions, Files, Stages
    <2> HIDE DEF t, j
    <2>3. SettingsTypeOK'
      BY <2>1, <2>2 DEF InstInv, SettingsTypeOK
    <2>4. ASSUME NEW q \in Pids PROVE Engaged(q, proc[q])' /\ Planned(q, proc[q])'
      <3>1. CASE q = p
        <4>1. proc'[q] = t
          BY <2>1, <3>1 DEF InstInv, SettingsTypeOK
        <4> QED
          BY <2>2, <4>1 DEF Engaged, Planned, Away
      <3>2. CASE q # p
        <4>1. proc'[q] = proc[q] /\ job'[q] = job[q]
          BY <2>1, <3>2 DEF InstInv, SettingsTypeOK, DocInv
        <4>2. Engaged(q, proc[q]) /\ Planned(q, proc[q])
          BY DEF InstInv, Busy
        <4> QED
          BY <2>1, <4>1, <4>2 DEF Engaged, Planned, Running, Next1
      <3> QED
        BY <3>1, <3>2
    <2>5. Held'
      <3>1. JobOK(j)
        BY EndedOK DEF j
      <3> QED
        BY <1>1, <2>1, <3>1, JobsStay DEF InstInv, Held, filesVars
    <2> QED
      BY <2>3, <2>4, <2>5 DEF Busy
  <1>6. CASE CrashInWrite(p)
    <2>1. proc[p].at \in Away
      <3>1. Does(p, RegistrySteps) \/ Does(p, CheckSteps)
        BY <1>6 DEF CrashInWrite
      <3> QED
        BY <3>1, AtRest DEF Does, At, RegistrySteps, CheckSteps
    <2>2. [i \in CheckIds |-> None] \in Rows
      BY DEF Rows
    <2>3. UNCHANGED settingsVars /\ Filed' /\ Fail(p)
      BY <1>1, <1>6, <2>2 DEF CrashInWrite, Lift, Filed
    <2> QED
      BY <1>1, <2>1, <2>3, JobGoesOn
  <1> QED
    BY <1>2, <1>3, <1>4, <1>5, <1>6 DEF Crash

\* Files that are read, changed and written back.
LEMMA DocKinds ==
  ASSUME NEW d \in Docs, NEW n \in Adapters
  PROVE  Injected(d, n) \in Docs /\ Evicted(d, n) \in Docs /\ Sectioned(d) \in Docs
  <1>1. Sectioned(d) \in Docs
    BY DEF Sectioned, Docs
  <1>2. Evicted(d, n) \in Docs
    BY DEF Evicted, Docs
  <1>3. Injected(d, n) \in Docs
    <2>1. /\ [d EXCEPT !.slot = FALSE, !.blocks = @ \cup {n}] \in Docs
          /\ [d EXCEPT !.anchor = FALSE, !.blocks = @ \cup {n}] \in Docs
          /\ [d EXCEPT !.blocks = @ \cup {n}] \in Docs
      BY DEF Docs
    <2> QED
      BY <2>1 DEF Injected
  <1> QED
    BY <1>1, <1>2, <1>3

\* What is read and changed is of the file's kind.
LEMMA ReadStep ==
  ASSUME InstInv, NEW p \in Pids, Read(p)
  PROVE  SettingsTypeOK' /\ Busy' /\ Held'
  <1>0. /\ UNCHANGED <<settingsVars, agenda, binary, filesVars>>
        /\ Filed /\ JobOK(job[p]) /\ DOMAIN job[p] = JobFields
        /\ job[p].todo \in Seq(Steps)
    BY DEF Read, Lift, InstInv, Held, Filed, DocInv, Buffered, JobOK
  <1>1. PICK step \in FileSteps : At(p, step)
    BY DEF Read, Does, FileSteps
  <1>2. proc[p].at \in Away
    BY <1>1, AtRest DEF At, FileSteps, RegistrySteps, CheckSteps, DocSteps
  <1>3. Next1(p) \in Steps
    BY <1>0, <1>1 DEF At, Next1
  <1>4. CASE Fail(p)
    BY <1>0, <1>2, <1>4, JobGoesOn DEF Filed, filesVars
  <1>5. ASSUME NEW value, job' = [job EXCEPT ![p].buffer = <<value>>],
               \/ Does(p, RegistrySteps) /\ value = RegistryAfter(p)
               \/ Does(p, CheckSteps) /\ value = ChecksAfter(p)
               \/ Does(p, DocSteps) /\ value = DocAfter(p)
        PROVE  SettingsTypeOK' /\ Busy' /\ Held'
    <2> DEFINE j == [job[p] EXCEPT !.buffer = <<value>>]
    <2>1. job' = [job EXCEPT ![p] = j]
      BY <1>5 DEF InstInv, DocInv
    <2>2. /\ j.at = job[p].at /\ j.todo = job[p].todo /\ j.cmd = job[p].cmd
          /\ j.plans = job[p].plans /\ j.decided = job[p].decided
          /\ j.buffer = <<value>>
      BY <1>0 DEF JobFields
    <2>3. Does(p, RegistrySteps) => RegistryAfter(p) \subseteq Adapters
      BY <1>0, <1>3 DEF Does, At, Name, Steps, RegistryAfter, Filed, RegistrySteps
    <2>4. Does(p, CheckSteps) => ChecksAfter(p) \in Rows
      <3> SUFFICES ASSUME Does(p, CheckSteps) PROVE ChecksAfter(p) \in Rows
        OBVIOUS
      <3>1. Name(p) \in DOMAIN ChecksOf
        BY <1>3 DEF Does, At, Name, Steps, CheckSteps
      <3>2. checks \in [CheckIds -> DOMAIN ChecksOf \cup {None}]
        BY <1>0 DEF Filed, Rows
      <3> QED
        BY <3>1, <3>2 DEF ChecksAfter, Rows
    <2>5. Does(p, DocSteps) => DocAfter(p) \in Docs
      <3>1. doc \in Docs
        BY <1>0 DEF Filed
      <3>2. At(p, "section") => DocAfter(p) \in Docs
        <4>1. Plain \in Adapters
          BY DEF Adapters
        <4> QED
          BY <3>1, <4>1, DocKinds DEF DocAfter, At
      <3>3. At(p, "inject") \/ At(p, "evict") => Name(p) \in Adapters
        BY <1>3 DEF At, Name, Steps
      <3>4. At(p, "inject") => DocAfter(p) \in Docs
        BY <3>1, <3>3, DocKinds DEF DocAfter, At
      <3>5. At(p, "evict") => DocAfter(p) \in Docs
        BY <3>1, <3>3, DocKinds DEF DocAfter, At
      <3> QED
        BY <3>2, <3>4, <3>5 DEF Does, DocSteps
    <2>6. /\ Head(job[p].todo)[1] \in RegistrySteps <=> Does(p, RegistrySteps)
          /\ Head(job[p].todo)[1] \in CheckSteps <=> Does(p, CheckSteps)
          /\ Head(job[p].todo)[1] \in DocSteps <=> Does(p, DocSteps)
      BY <1>1 DEF Does, At, Next1
    <2>7. JobOK(j)
      <3>1. /\ Head(j.todo)[1] \in RegistrySteps => value \subseteq Adapters
            /\ Head(j.todo)[1] \in CheckSteps => value \in Rows
            /\ Head(j.todo)[1] \in DocSteps => value \in Docs
        BY <1>5, <2>2, <2>3, <2>4, <2>5, <2>6
           DEF Does, At, RegistrySteps, CheckSteps, DocSteps
      <3> HIDE DEF j
      <3> QED
        BY <1>0, <2>2, <3>1 DEF JobOK
    <2> HIDE DEF j
    <2> QED
      BY <1>0, <1>2, <2>1, <2>7, JobMoves, JobsStay DEF InstInv, Held, filesVars
  <1> QED
    BY <1>4, <1>5 DEF Read

\* What is written is what was held for that file.
LEMMA WriteStep ==
  ASSUME InstInv, NEW p \in Pids, Write(p)
  PROVE  SettingsTypeOK' /\ Busy' /\ Held'
  <1> DEFINE j == [job[p] EXCEPT !.todo = Tail(@), !.buffer = << >>]
             value == job[p].buffer[1]
  <1>0. /\ UNCHANGED <<settingsVars, agenda, binary, harness, ignored, github>>
        /\ Filed /\ JobOK(job[p]) /\ DOMAIN job[p] = JobFields /\ Running(p)
        /\ job[p].buffer # << >> /\ job[p].todo # << >>
        /\ Head(job[p].todo)[1] \in FileSteps
    BY DEF Write, Lift, InstInv, Held, Filed, DocInv, Buffered
  <1>1. proc[p].at \in Away
    BY <1>0, AtRest DEF Next1, FileSteps, RegistrySteps, CheckSteps, DocSteps
  <1>2. job' = [job EXCEPT ![p] = j]
    BY DEF Write, InstInv, DocInv
  <1>3. JobOK(j)
    BY <1>0, PoppedOK
  <1>4. Filed'
    <2>1. /\ Does(p, RegistrySteps) => value \subseteq Adapters
          /\ Does(p, CheckSteps) => value \in Rows
          /\ Does(p, DocSteps) => value \in Docs
      BY <1>0 DEF JobOK, Does, At, Next1
    <2> QED
      BY <1>0, <2>1 DEF Filed, Write
  <1> HIDE DEF j
  <1> QED
    BY <1>0, <1>1, <1>2, <1>3, <1>4, JobMoves, JobsStay DEF InstInv, Held, Filed

\* A block to put back for every adapter listed.
LEMMA ReinjectStep ==
  ASSUME InstInv, NEW p \in Pids, Reinject(p)
  PROVE  SettingsTypeOK' /\ Busy' /\ Held'
  <1> DEFINE tail == Tail(job[p].todo)
             todo == [i \in DOMAIN Loaded |-> <<"inject", Loaded[i]>>] \o tail
             j == [job[p] EXCEPT !.todo = todo]
  <1>0. /\ UNCHANGED <<settingsVars, agenda, binary, filesVars>>
        /\ Filed /\ JobOK(job[p]) /\ DOMAIN job[p] = JobFields
        /\ At(p, "reinject") /\ job[p].todo \in Seq(Steps)
        /\ job[p].todo # << >> /\ job[p].buffer = << >>
    BY DEF Reinject, Lift, InstInv, Held, Filed, DocInv, Buffered, JobOK, At, Next1,
           FileSteps, RegistrySteps, CheckSteps, DocSteps
  <1>1. proc[p].at \in Away
    BY <1>0, AtRest DEF At
  <1>2. /\ tail \in Seq(Steps) /\ Follows(tail)
        /\ tail # << >> => tail[1] \notin Registers
        /\ Ungithub(job[p].todo) => Ungithub(tail)
    <2> DEFINE t == job[p].todo
    <2>1. /\ Len(Tail(t)) = Len(t) - 1 /\ Len(t) \in Nat
          /\ \A i \in 1..Len(Tail(t)) : Tail(t)[i] = t[i + 1]
      BY <1>0, HeadTailProperties
    <2>2. Ungithub(t) => Ungithub(Tail(t))
      BY <2>1 DEF Ungithub
    <2>3. t[1][1] = "reinject"
      BY <1>0 DEF At, Next1
    <2> QED
      BY <1>0, <2>2, <2>3, TailFollows DEF JobOK
  <1> HIDE DEF tail
  <1>3. /\ todo \in Seq(Steps) /\ Follows(todo)
        /\ Ungithub(job[p].todo) => Ungithub(todo)
    BY <1>2, ReinjectList
  <1> HIDE DEF todo
  <1>4. /\ j.at = job[p].at /\ j.todo = todo /\ j.cmd = job[p].cmd
        /\ j.plans = job[p].plans /\ j.decided = job[p].decided
        /\ j.buffer = << >>
    BY <1>0 DEF JobFields
  <1>5. job' = [job EXCEPT ![p] = j]
    BY DEF Reinject, todo, tail
  <1> HIDE DEF j
  <1>6. JobOK(j)
    BY <1>0, <1>3, <1>4 DEF JobOK
  <1> QED
    BY <1>0, <1>1, <1>5, <1>6, JobMoves, JobsStay DEF InstInv, Held, filesVars

\* A transaction starts, and its command learns how it ended.
LEMMA HandoverSteps ==
  ASSUME InstInv, NEW p \in Pids, Hook(p) \/ Unhook(p) \/ Transacted(p)
  PROVE  SettingsTypeOK' /\ Busy' /\ Held'
  <1>0. /\ UNCHANGED <<settings, backups, lock, raced, touched, agenda, filesVars, binary>>
        /\ Filed /\ JobOK(job[p]) /\ DOMAIN job[p] = JobFields
        /\ At(p, "hook") \/ At(p, "unhook")
        /\ job[p].todo \in Seq(Steps) /\ job[p].todo # << >>
        /\ proc[p].at \in Away
        /\ settings \in [Agents -> Files] /\ binary \in Binaries
    BY DEF Hook, Unhook, Transacted, Lift, InstInv, SettingsTypeOK, Held, Filed, DocInv,
           Buffered, JobOK, At, Away, Idle
  <1>1. Next1(p) \in Steps /\ Name(p) \in Agents /\ Running(p)
        /\ (At(p, "hook") => Next1(p) = <<"hook", Name(p)>>)
        /\ (At(p, "unhook") => Next1(p) = <<"unhook", Name(p)>>)
    <2>1. Next1(p) \in Steps
      BY <1>0 DEF Next1
    <2> QED
      BY <1>0, <2>1 DEF At, Name, Steps
  <1>2. job[p].buffer = << >>
    BY <1>0 DEF At, Next1, InstInv, DocInv, Buffered, FileSteps, RegistrySteps,
                CheckSteps, DocSteps
  <1>3. ASSUME NEW t \in Transactions, proc' = [proc EXCEPT ![p] = t], UNCHANGED job,
               Engaged(p, t)', Planned(p, t)'
        PROVE  SettingsTypeOK' /\ Busy' /\ Held'
    <2>1. SettingsTypeOK' /\ Busy'
      BY <1>0, <1>3, TransactionMoves DEF InstInv, SettingsTypeOK
    <2>2. Held'
      BY <1>0, <1>3 DEF InstInv, Held, filesVars
    <2> QED
      BY <2>1, <2>2
  <1>4. ASSUME proc' = [proc EXCEPT ![p] = Idle] \/ UNCHANGED proc, Pop(p) \/ Fail(p)
        PROVE  SettingsTypeOK' /\ Busy' /\ Held'
    <2>1. PICK j : job' = [job EXCEPT ![p] = j] /\ JobOK(j)
      <3>1. CASE Pop(p)
        BY <1>0, <1>2, <3>1, PoppedOK DEF Pop
      <3>2. CASE Fail(p)
        BY <3>2, EndedOK DEF Fail, Stop
      <3> QED
        BY <1>4, <3>1, <3>2
    <2>2. Held'
      BY <1>0, <2>1, JobsStay DEF InstInv, Held, filesVars
    <2>3. Idle \in Transactions /\ Idle.at = "idle"
      BY DEF Idle, Transactions, Files, Stages
    <2>4. proc' \in [Pids -> Transactions] /\ proc'[p].at \in Away
      BY <1>0, <1>4, <2>3 DEF InstInv, SettingsTypeOK, Away
    <2>5. SettingsTypeOK'
      BY <1>0, <2>4 DEF InstInv, SettingsTypeOK
    <2>6. ASSUME NEW q \in Pids PROVE Engaged(q, proc[q])' /\ Planned(q, proc[q])'
      <3>1. CASE q = p
        BY <2>4, <3>1 DEF Engaged, Planned
      <3>2. CASE q # p
        <4>1. proc'[q] = proc[q] /\ job'[q] = job[q]
          BY <1>4, <2>1, <3>2 DEF InstInv, SettingsTypeOK, DocInv
        <4>2. Engaged(q, proc[q]) /\ Planned(q, proc[q])
          BY DEF InstInv, Busy
        <4> QED
          BY <1>0, <4>1, <4>2 DEF Engaged, Planned, Running, Next1
      <3> QED
        BY <3>1, <3>2
    <2> QED
      BY <2>2, <2>5, <2>6 DEF Busy
  <1>5. CASE Hook(p) /\ ~Fail(p)
    <2>1. PICK a \in Agents : a = Name(p)
      BY <1>1
    <2>2. PICK original : original = IF job[p].cmd = "init" THEN job[p].plans[a]
                                                          ELSE settings[a]
      OBVIOUS
    <2>3. PICK t : t = Install(a, original, binary)
      OBVIOUS
    <2>4. original # Torn /\ proc' = [proc EXCEPT ![p] = t] /\ UNCHANGED job
          /\ At(p, "hook")
      BY <1>5, <2>1, <2>2, <2>3 DEF Hook
    <2>5. original \in Contents \cup {None}
      <3>1. original \in Files
        BY <1>0, <1>1, <2>2 DEF JobOK, Running
      <3> QED
        BY <2>4, <3>1 DEF Files
    <2>6. UserOf(original) \in 0..Saves
      BY <2>5, SavesAssumption DEF UserOf, Contents
    <2>7. /\ t.at = "open" /\ t.cmd = "install" /\ t.agent = a /\ t.original = original
          /\ t.desired = Merged(original, binary)
      BY <2>3 DEF Install, Idle
    <2>8. Merged(original, binary) \in Contents /\ binary # None
      BY <1>0, <2>6, NoneAssumption DEF Contents, Merged
    <2>9. t.desired.ours = binary /\ t.desired.user = UserOf(original)
      BY <2>7 DEF Merged
    <2>10. t \in Transactions
      <3> DEFINE m == Merged(original, binary)
      <3>1. m \in Files /\ original \in Files
        BY <2>5, <2>8 DEF Files
      <3>2. t = [Idle EXCEPT !.at = "open", !.cmd = "install", !.agent = a,
                             !.original = original, !.desired = m]
        BY <2>3 DEF Install
      <3> HIDE DEF m
      <3> QED
        BY <3>1, <3>2 DEF Idle, Transactions, Stages, Files
    <2>11. Engaged(p, t)' /\ Planned(p, t)'
      BY <1>0, <1>1, <2>1, <2>4, <2>5, <2>7, <2>8, <2>9
         DEF Engaged, Planned, Running, Next1
    <2> QED
      BY <1>3, <2>4, <2>10, <2>11
  <1>6. CASE Hook(p) /\ Fail(p)
    <2>1. UNCHANGED proc \/ UNCHANGED job
      BY <1>6 DEF Hook
    <2>2. job' # job
      <3>1. job'[p].at = "failed" /\ job[p].at = "running"
        BY <1>0, <1>1, <1>6 DEF Fail, Stop, NoJob, Running, InstInv, DocInv
      <3> QED
        BY <3>1
    <2> QED
      BY <1>4, <1>6, <2>1, <2>2
  <1>7. CASE Unhook(p)
    <2>1. PICK a \in Agents : a = Name(p)
      BY <1>1
    <2>2. PICK t : t = Uninstall(a)
      OBVIOUS
    <2>3. proc' = [proc EXCEPT ![p] = t] /\ UNCHANGED job /\ At(p, "unhook")
      BY <1>7, <2>1, <2>2 DEF Unhook
    <2>4. t \in Transactions /\ t.at = "open" /\ t.cmd = "uninstall" /\ t.agent = a
      BY <2>2 DEF Uninstall, Idle, Transactions, Stages, Files
    <2>5. Engaged(p, t)' /\ Planned(p, t)'
      BY <1>0, <1>1, <2>1, <2>3, <2>4 DEF Engaged, Planned, Running, Next1
    <2> QED
      BY <1>3, <2>3, <2>4, <2>5
  <1>8. CASE Transacted(p)
    BY <1>4, <1>8 DEF Transacted
  <1> QED
    BY <1>5, <1>6, <1>7, <1>8

\* A step of a transaction.
LEMMA TransactStep ==
  ASSUME InstInv, NEW p \in Pids, Transact(p)
  PROVE  SettingsTypeOK' /\ Busy' /\ Held'
  <1>1. UNCHANGED job
    BY DEF Transact
  <1>2. SettingsTypeOK' /\ Busy'
    BY <1>1, LockSteps, WriteSteps, ReplaceStep DEF Transact, SettingsStep
  <1>3. proc[p].at \notin Away
    BY DEF Transact, SettingsStep, OpenLock, Judge, Break, WriteOwner, Unlock, CheckPlan,
           CreateBackup, FillBackup, PlanRemoval, Replace, WriteFails, Away
  <1>4. proc[p].agent \in Agents
    BY <1>3 DEF InstInv, Busy, Engaged
  <1>5. Held'
    BY <1>1, <1>4 DEF InstInv, Held, Transact
  <1> QED
    BY <1>2, <1>5

\* Every step, of whichever command, keeps the files and plans right.
LEMMA InstStepwise == InstInv /\ [Next]_vars => InstInv'
  <1> SUFFICES ASSUME InstInv, [Next]_vars PROVE SettingsTypeOK' /\ Busy' /\ Held'
    BY LockStepwise, DocStepwise DEF InstInv
  <1>1. ASSUME NEW p \in Pids,
               InstallCommand(p) \/ UninstallCommand(p) \/ RegisterChecks(p)
                 \/ SyncCommand(p) \/ InitCommand(p)
        PROVE  SettingsTypeOK' /\ Busy' /\ Held'
    BY <1>1, BeginSteps
  <1>2. ASSUME NEW p \in Pids, Work(p) \/ StepFails(p) \/ Crash(p) \/ CrashInWrite(p)
        PROVE  SettingsTypeOK' /\ Busy' /\ Held'
    BY <1>2, SimpleSteps, HandoverSteps, TransactStep, ReadStep, WriteStep, ReinjectStep,
       EndSteps DEF Work
  <1>3. CASE LockAges
    <2>1. PICK a \in Agents : Age(a)
      BY <1>3 DEF LockAges
    <2>2. UNCHANGED <<settings, backups, proc, raced, touched, installVars>>
      BY <1>3 DEF LockAges, Age
    <2>3. lock' \in [Agents -> Locks \cup {None}]
      <3>1. lock[a] \in Locks /\ lock \in [Agents -> Locks \cup {None}]
        BY <2>1 DEF Age, InstInv, SettingsTypeOK
      <3>2. [lock[a] EXCEPT !.aged = TRUE] \in Locks
        BY <3>1 DEF Locks
      <3> QED
        BY <2>1, <3>1, <3>2 DEF Age
    <2>4. SettingsTypeOK'
      BY <2>2, <2>3 DEF InstInv, SettingsTypeOK
    <2>5. Busy'
      BY <2>2 DEF InstInv, Busy, Engaged, Planned, Running, Next1, installVars
    <2>6. Held'
      BY <2>2 DEF InstInv, Held, installVars
    <2> QED
      BY <2>4, <2>5, <2>6
  <1>4. CASE SaveSettings
    <2>1. PICK a \in Agents : UserSaves(a)
      BY <1>4 DEF SaveSettings
    <2>2. UNCHANGED installVars
      BY <1>4 DEF SaveSettings
    <2>3. SettingsTypeOK' /\ Busy'
      BY <2>1, <2>2, SaveStep DEF installVars
    <2>4. Held'
      BY <2>2 DEF InstInv, Held, installVars
    <2> QED
      BY <2>3, <2>4
  <1>5. CASE SaveGithub
    <2>1. PICK f \in GithubFiles :
            /\ github[f] = None \/ (github[f] # None /\ github[f].text < Saves)
            /\ github' = [github EXCEPT ![f] =
                            IF github[f] = None
                              THEN [text |-> 1, block |-> FALSE]
                              ELSE [github[f] EXCEPT !.text = @ + 1]]
      BY <1>5 DEF SaveGithub
    <2>2. UNCHANGED <<settingsVars, agenda, harness, registry, checks, doc, ignored,
                      binary, job, cut>>
      BY <1>5 DEF SaveGithub
    <2>3. github' \in [GithubFiles -> Texts \cup {None}]
      <3>1. github \in [GithubFiles -> Texts \cup {None}]
        BY DEF InstInv, Held
      <3>2. [text |-> 1, block |-> FALSE] \in Texts
        BY SavesAssumption DEF Texts
      <3>3. github[f] # None => [github[f] EXCEPT !.text = @ + 1] \in Texts
        BY <2>1, <3>1, SavesAssumption DEF Texts
      <3> DEFINE file == IF github[f] = None THEN [text |-> 1, block |-> FALSE]
                                             ELSE [github[f] EXCEPT !.text = @ + 1]
      <3>4. github' = [github EXCEPT ![f] = file]
        BY <2>1
      <3>5. file \in Texts
        BY <3>2, <3>3
      <3> HIDE DEF file
      <3> QED
        BY <3>1, <3>4, <3>5
    <2>4. SettingsTypeOK' /\ Busy'
      BY <2>2 DEF InstInv, SettingsTypeOK, settingsVars, Busy, Engaged, Planned, Running, Next1
    <2>5. Held'
      BY <2>2, <2>3 DEF InstInv, Held
    <2> QED
      BY <2>4, <2>5
  <1>6. CASE MoveBinary
    <2>1. UNCHANGED <<settingsVars, agenda, filesVars, job>> /\ binary' \in Binaries
      BY <1>6 DEF MoveBinary
    <2>2. SettingsTypeOK' /\ Busy'
      BY <2>1 DEF InstInv, SettingsTypeOK, settingsVars, Busy, Engaged, Planned, Running, Next1
    <2>3. Held'
      BY <2>1 DEF InstInv, Held, filesVars
    <2> QED
      BY <2>2, <2>3
  <1>7. CASE UNCHANGED vars
    <2>1. SettingsTypeOK' /\ Busy'
      BY <1>7 DEF InstInv, SettingsTypeOK, vars, settingsVars, installVars, Busy, Engaged,
                  Planned, Running, Next1
    <2>2. Held'
      BY <1>7 DEF InstInv, Held, vars, installVars
    <2> QED
      BY <2>1, <2>2
  <1> QED
    BY <1>1, <1>2, <1>3, <1>4, <1>5, <1>6, <1>7 DEF Next

\* A fresh workspace, or one that was set up, is right.
LEMMA InstInit == Init => InstInv
  <1> SUFFICES ASSUME Init PROVE InstInv
    OBVIOUS
  <1>1. LockInv
    <2>1. proc = [p \in Pids |-> Idle] /\ lock = [a \in Agents |-> None] /\ raced = FALSE
      BY DEF Init, SettingsInit
    <2> QED
      BY <2>1 DEF LockInv, LockSound, Sound, Idle, ProcFields, Critical
  <1>2. DocInv
    <2>1. Anchored(doc)
      BY AdapterAssumption DEF Init, Anchored, DocFields, NoDoc
    <2>2. job = [p \in Pids |-> NoJob] /\ Buffered(NoJob)
      BY DEF Init, Buffered, NoJob, JobFields
    <2> QED
      BY <2>1, <2>2 DEF DocInv
  <1>3. SettingsTypeOK
    <2>1. Idle \in Transactions
      BY DEF Idle, Transactions, Stages, Files
    <2>2. settings \in [Agents -> Files]
      BY SavesAssumption DEF Init, SettingsInit, Files, Contents
    <2>3. << >> \in Seq(Files) /\ {} \subseteq Pids
      OBVIOUS
    <2>4. backups \in [Agents -> Seq(Files)] /\ lock \in [Agents -> Locks \cup {None}]
      BY <2>3 DEF Init, SettingsInit
    <2>5. proc \in [Pids -> Transactions] /\ raced \in BOOLEAN /\ touched \subseteq Pids
      BY <2>1 DEF Init, SettingsInit
    <2> QED
      BY <2>2, <2>4, <2>5 DEF SettingsTypeOK
  <1>4. Busy
    <2>1. \A p \in Pids : proc[p].at \in Away
      BY DEF Init, SettingsInit, Idle, Away
    <2> QED
      BY <2>1 DEF Busy, Engaged, Planned
  <1>5. Held
    <2>1. JobOK(NoJob)
      BY DEF JobOK, NoJob, Follows, Ungithub
    <2>2. doc \in Docs
      <3>1. [NoDoc EXCEPT !.file = agenda.found # {}] \in Docs
        BY DEF NoDoc, Docs
      <3>2. [file |-> TRUE, section |-> TRUE, slot |-> FALSE, anchor |-> TRUE,
             blocks |-> {Plain}] \in Docs
        BY DEF Docs, Adapters
      <3> QED
        BY <3>1, <3>2 DEF Init
    <2>3. github \in [GithubFiles -> Texts \cup {None}]
      BY SavesAssumption DEF Init, Texts
    <2>4. checks \in Rows /\ binary \in Binaries
      BY BinaryAssumption DEF Init, Rows
    <2> QED
      BY <2>1, <2>2, <2>3, <2>4 DEF Init, Held
  <1> QED
    BY <1>1, <1>2, <1>3, <1>4, <1>5 DEF InstInv

\* Whatever commands overlap, fail or are killed, and whatever the user saves
\* meanwhile: the files stay of their kinds, a transaction is that of the step
\* its command is at, and past the comparison under an unraced lock the file is
\* what the plan was made for (_acquire_settings_lock, apply_settings_merge_plan).
THEOREM InstallationStands == Spec => []InstInv
  BY InstInit, InstStepwise, PTL DEF Spec

\* The files, the commands and their transactions keep their types
\* (cli/init.py, cli/adapter.py, cli/sync.py, _settings_merge.py).
THEOREM TypeCorrect == Spec => []TypeOK
  <1>1. InstInv => TypeOK
    BY DEF InstInv, Held, JobOK, TypeOK
  <1> QED
    BY <1>1, InstallationStands, PTL

\* A step of a transaction moves that transaction only.
LEMMA OneTransactionMoves ==
  ASSUME NEW p \in Pids, Transact(p)
  PROVE  \E t : proc' = [proc EXCEPT ![p] = t]
  <1>1. CASE Refuse(p)
    BY <1>1 DEF Refuse
  <1>2. ASSUME NEW stage, Move(p, stage) PROVE \E t : proc' = [proc EXCEPT ![p] = t]
    BY <1>2 DEF Move
  <1>3. ASSUME NEW result, Finish(p, result) PROVE \E t : proc' = [proc EXCEPT ![p] = t]
    BY <1>3 DEF Finish
  <1>4. CASE OpenLock(p) \/ Judge(p) \/ Break(p) \/ WriteOwner(p) \/ Unlock(p)
    BY <1>1, <1>2, <1>3, <1>4 DEF OpenLock, Judge, Break, WriteOwner, Unlock
  <1>5. CASE CheckPlan(p) \/ CreateBackup(p) \/ FillBackup(p) \/ PlanRemoval(p)
    BY <1>1, <1>2, <1>3, <1>5 DEF CheckPlan, CreateBackup, FillBackup, PlanRemoval
  <1>6. CASE Replace(p) \/ WriteFails(p)
    BY <1>3, <1>6 DEF Replace, WriteFails
  <1> QED
    BY <1>4, <1>5, <1>6 DEF Transact, SettingsStep

\* An install keeps what the user has in the settings file, for every number of
\* commands, agents and saves: the file it replaces is the one its plan was made
\* for, unless the lock was raced or the user saved in between
\* (apply_settings_merge_plan).
THEOREM InstallAlwaysKeeps == Spec => InstallKeepsUserSettings
  <1>1. InstInv /\ [Next]_vars => [InstallStep]_settingsVars
    <2> SUFFICES ASSUME InstInv, [Next]_vars, NEW p \in Pids,
                        proc[p].at = "replace", proc[p].cmd = "install",
                        proc'[p].at = "unlock", proc'[p].result = "ok",
                        ~raced, p \notin touched
                 PROVE  UserOf(settings'[proc[p].agent]) = UserOf(settings[proc[p].agent])
      BY DEF InstallStep
    <2>1. Replace(p)
      <3>1. ASSUME NEW q \in Pids, Transact(q) PROVE Replace(p)
        <4>1. q = p
          <5>1. \E u : proc' = [proc EXCEPT ![q] = u]
            BY <3>1, OneTransactionMoves
          <5> QED
            BY <5>1 DEF InstInv, LockInv
        <4>2. ~WriteFails(p)
          <5>1. proc[p] \in Transactions /\ proc \in [Pids -> Transactions]
            BY DEF InstInv, SettingsTypeOK
          <5>2. Finish(p, "refused") => proc'[p].result = "refused"
            BY <5>1 DEF Finish, Transactions
          <5> QED
            BY <5>2 DEF WriteFails
        <4> QED
          BY <3>1, <4>1, <4>2 DEF Transact, SettingsStep, OpenLock, Judge, Break,
             WriteOwner, Unlock, CheckPlan, CreateBackup, FillBackup, PlanRemoval
      <3>2. ASSUME NEW q \in Pids, Hook(q) \/ Unhook(q) \/ Transacted(q) \/ Crash(q)
            PROVE  FALSE
        <4>1. /\ \A b, original, x : Install(b, original, x).at = "open"
              /\ \A b : Uninstall(b).at = "open"
              /\ Idle.at = "idle" /\ [Idle EXCEPT !.at = "dead"].at = "dead"
          BY DEF Install, Uninstall, Idle
        <4>2. UNCHANGED proc
                \/ \E u : proc' = [proc EXCEPT ![q] = u] /\ u.at \in {"open", "idle", "dead"}
          <5>1. CASE Hook(q)
            BY <4>1, <5>1 DEF Hook
          <5>2. CASE Unhook(q) \/ Transacted(q)
            BY <4>1, <5>2 DEF Unhook, Transacted
          <5>3. CASE Crash(q)
            BY <4>1, <5>3 DEF Crash, SettingsCrash, settingsVars
          <5> QED
            BY <3>2, <5>1, <5>2, <5>3
        <4> QED
          BY <4>2 DEF InstInv, LockInv
      <3>3. proc' # proc
        BY DEF InstInv, LockInv
      <3>4. ASSUME NEW q \in Pids, Work(q)
            PROVE  Transact(q) \/ Hook(q) \/ Unhook(q) \/ Transacted(q) \/ UNCHANGED proc
        BY <3>4 DEF Work, settingsVars, Scaffold, TouchEvents, Skeleton, Read, Write,
           Reinject, Ignore, ApplyGithub, End, Lift
      <3>5. ASSUME NEW q \in Pids,
                   \/ InstallCommand(q) \/ UninstallCommand(q) \/ RegisterChecks(q)
                   \/ SyncCommand(q) \/ InitCommand(q) \/ StepFails(q) \/ CrashInWrite(q)
            PROVE  UNCHANGED proc
        BY <3>5 DEF settingsVars, InstallCommand, UninstallCommand, RegisterChecks,
           SyncCommand, InitCommand, Begin, StepFails, CrashInWrite, Lift
      <3>6. LockAges \/ SaveSettings \/ SaveGithub \/ MoveBinary => UNCHANGED proc
        BY DEF LockAges, Age, SaveSettings, UserSaves, SaveGithub, MoveBinary, settingsVars
      <3> QED
        BY <3>1, <3>2, <3>3, <3>4, <3>5, <3>6 DEF Next, vars, settingsVars
    <2>2. /\ proc[p].agent \in Agents /\ proc[p].desired \in Contents
          /\ proc[p].desired.user = UserOf(proc[p].original)
          /\ settings[proc[p].agent] = proc[p].original
          /\ settings \in [Agents -> Files]
      BY DEF InstInv, SettingsTypeOK, Busy, Engaged, Planned, Away
    <2>3. settings'[proc[p].agent] = proc[p].desired
      BY <2>1, <2>2 DEF Replace
    <2> QED
      BY <2>2, <2>3, NoneAssumption DEF UserOf
  <1> QED
    BY <1>1, InstallationStands, PTL DEF Spec, InstallKeepsUserSettings

-----------------------------------------------------------------------------
(* What a command that runs alone knows of the hooks.                      *)

\* Commands begin in their turn, and none has a transaction before.
Queued ==
  /\ \A p, q \in Pids : q < p /\ job[p].at # "new" => job[q].at # "new"
  /\ \A p \in Pids : job[p].at = "new" => proc[p] = Idle
  /\ ~agenda.together => \A p, q \in Pids : Running(p) /\ Running(q) => p = q

\* Hooks are there, or were taken away by a removal.
Kept(a) == a \in cut \/ Hooked(a)

\* What a command that runs alone knows of the hooks: an entry it is about to
\* add or to write has them, and so has a transaction that went well.
Told(p) ==
  Running(p) =>
    /\ job[p].todo # << >> /\ Next1(p) \in Registers => Kept(Name(p))
    /\ job[p].buffer # << >> /\ Next1(p)[1] \in RegistrySteps
         => \A a \in job[p].buffer[1] \cap Agents : Kept(a)
    /\ proc[p].at = "unlock" /\ proc[p].cmd = "install" /\ proc[p].result = "ok"
         => Hooked(proc[p].agent)
    /\ proc[p].at = "idle" /\ proc[p].result = "ok"
         => /\ At(p, "hook") \/ At(p, "unhook")
            /\ At(p, "hook") => Hooked(Name(p))

HookInv ==
  /\ InstInv
  /\ Queued
  /\ ~agenda.together => /\ \A a \in registry \cap Agents : Kept(a)
                         /\ \A p \in Pids : Told(p)

\* What a step does to the commands and their transactions.
LEMMA JobsMove ==
  ASSUME InstInv, [Next]_vars
  PROVE  /\ agenda' = agenda
         /\ \/ UNCHANGED <<job, proc>>
            \/ \E p \in Pids :
                 /\ \A q \in Pids \ {p} : job'[q] = job[q] /\ proc'[q] = proc[q]
                 /\ \/ Turn(p) /\ job'[p].at = "running" /\ UNCHANGED proc
                    \/ Running(p) /\ job'[p].at # "new"
  <1>0. /\ job = [p \in Pids |-> job[p]] /\ proc = [p \in Pids |-> proc[p]]
        /\ \A p \in Pids : DOMAIN job[p] = JobFields
    BY DEF InstInv, LockInv, DocInv, Buffered
  <1>1. ASSUME NEW p \in Pids, NEW cmd, NEW todo, Begin(p, cmd, todo)
        PROVE  /\ agenda' = agenda /\ UNCHANGED proc
               /\ \A q \in Pids \ {p} : job'[q] = job[q]
               /\ Turn(p) /\ job'[p].at = "running"
    BY <1>0, <1>1 DEF Begin, Started, settingsVars, JobFields
  <1>2. ASSUME NEW p \in Pids, InitCommand(p)
        PROVE  /\ agenda' = agenda /\ UNCHANGED proc
               /\ \A q \in Pids \ {p} : job'[q] = job[q]
               /\ Turn(p) /\ job'[p].at = "running"
    BY <1>0, <1>2 DEF InitCommand, settingsVars
  <1>3. ASSUME NEW p \in Pids, Work(p) \/ StepFails(p) \/ Crash(p) \/ CrashInWrite(p)
        PROVE  /\ agenda' = agenda /\ Running(p)
               /\ UNCHANGED job \/ \E j : job' = [job EXCEPT ![p] = j] /\ j.at # "new"
               /\ UNCHANGED proc \/ \E t : proc' = [proc EXCEPT ![p] = t]
    <2>1. [NoJob EXCEPT !.at = "done"].at # "new" /\ [NoJob EXCEPT !.at = "failed"].at # "new"
      BY DEF NoJob
    <2>2. Running(p) => \A s, b : /\ [job[p] EXCEPT !.todo = s].at # "new"
                                  /\ [job[p] EXCEPT !.buffer = b].at # "new"
                                  /\ [job[p] EXCEPT !.todo = s, !.buffer = b].at # "new"
      BY <1>0 DEF JobFields, Running
    <2>3. CASE Scaffold(p) \/ TouchEvents(p) \/ Skeleton(p) \/ Ignore(p) \/ ApplyGithub(p)
               \/ Reinject(p)
      BY <1>0, <2>1, <2>2, <2>3 DEF Scaffold, TouchEvents, Skeleton, Ignore, ApplyGithub,
         Reinject, Pop, Fail, Stop, Lift, settingsVars, At
    <2>4. CASE Hook(p) \/ Unhook(p) \/ Transacted(p)
      <3>1. Fail(p) => UNCHANGED agenda /\ Running(p)
                       /\ \E j : job' = [job EXCEPT ![p] = j] /\ j.at # "new"
        BY <2>1, <2>4 DEF Fail, Stop, Hook, Unhook, Transacted, At
      <3>2. Running(p) /\ Pop(p) => \E j : job' = [job EXCEPT ![p] = j] /\ j.at # "new"
        BY <1>0, <2>2 DEF Pop
      <3>3. CASE Hook(p)
        BY <3>1, <3>2, <3>3 DEF Hook, At
      <3>4. CASE Unhook(p)
        BY <3>1, <3>2, <3>4 DEF Unhook, At
      <3>5. CASE Transacted(p)
        BY <3>1, <3>2, <3>5 DEF Transacted, At
      <3> QED
        BY <2>4, <3>3, <3>4, <3>5
    <2>5. CASE Transact(p)
      <3>1. \E t : proc' = [proc EXCEPT ![p] = t]
        BY <2>5, OneTransactionMoves
      <3> QED
        BY <2>5, <3>1 DEF Transact, At
    <2>6. CASE Read(p)
      <3>1. Fail(p) \/ \E v : job' = [job EXCEPT ![p].buffer = v]
        BY <2>6 DEF Read
      <3>2. Fail(p) \/ \E v : job' = [job EXCEPT ![p] = [job[p] EXCEPT !.buffer = v]]
        BY <1>0, <3>1
      <3> QED
        BY <2>1, <2>2, <2>6, <3>2 DEF Read, Fail, Stop, Lift, settingsVars
    <2>7. CASE Write(p)
      <3> DEFINE j == [job[p] EXCEPT !.todo = Tail(@), !.buffer = << >>]
      <3>1. job' = [job EXCEPT ![p] = j] /\ Running(p) /\ UNCHANGED <<agenda, proc>>
        BY <1>0, <2>7 DEF Write, Lift, settingsVars
      <3>2. j.at # "new"
        BY <1>0, <3>1 DEF JobFields, Running
      <3> HIDE DEF j
      <3> QED
        BY <3>1, <3>2
    <2>8. CASE End(p) \/ StepFails(p) \/ Crash(p) \/ CrashInWrite(p)
      BY <1>0, <2>1, <2>8 DEF End, StepFails, Crash, CrashInWrite, Fail, Stop, Lift,
         settingsVars, SettingsCrash
    <2> QED
      BY <1>3, <2>3, <2>4, <2>5, <2>6, <2>7, <2>8 DEF Work
  <1>4. ASSUME LockAges \/ SaveSettings \/ SaveGithub \/ MoveBinary \/ UNCHANGED vars
        PROVE  UNCHANGED <<agenda, job, proc>>
    BY <1>4 DEF LockAges, Age, SaveSettings, UserSaves, SaveGithub, MoveBinary, vars,
       installVars, settingsVars
  <1>5. CASE \E p \in Pids : InstallCommand(p) \/ UninstallCommand(p)
               \/ RegisterChecks(p) \/ SyncCommand(p) \/ InitCommand(p)
    <2>1. PICK p \in Pids : InstallCommand(p) \/ UninstallCommand(p)
               \/ RegisterChecks(p) \/ SyncCommand(p) \/ InitCommand(p)
      BY <1>5
    <2>2. InitCommand(p) \/ \E cmd, todo : Begin(p, cmd, todo)
      BY <2>1 DEF InstallCommand, UninstallCommand, RegisterChecks, SyncCommand
    <2> QED
      BY <1>1, <1>2, <2>2
  <1>6. CASE \E p \in Pids : Work(p) \/ StepFails(p) \/ Crash(p) \/ CrashInWrite(p)
    <2>1. PICK p \in Pids : Work(p) \/ StepFails(p) \/ Crash(p) \/ CrashInWrite(p)
      BY <1>6
    <2>2. \A q \in Pids \ {p} : job'[q] = job[q] /\ proc'[q] = proc[q]
      BY <1>0, <1>3, <2>1
    <2>3. Running(p) /\ job'[p].at # "new" /\ agenda' = agenda
      BY <1>0, <1>3, <2>1 DEF Running
    <2> QED
      BY <2>2, <2>3
  <1> QED
    BY <1>4, <1>5, <1>6 DEF Next

\* Every step keeps the commands in their turn.
LEMMA QueuedStep ==
  ASSUME InstInv, Queued, [Next]_vars
  PROVE  Queued'
  <1>1. agenda' = agenda
    BY JobsMove
  <1>2. CASE UNCHANGED <<job, proc>>
    BY <1>1, <1>2 DEF Queued, Running
  <1>3. ASSUME NEW p \in Pids, \A q \in Pids \ {p} : job'[q] = job[q] /\ proc'[q] = proc[q],
               Turn(p), job'[p].at = "running", UNCHANGED proc
        PROVE  Queued'
    <2>1. /\ \A q \in Pids : q < p => job[q].at # "new" /\ (agenda.together \/ ~Running(q))
          /\ job[p].at = "new"
      BY <1>3 DEF Turn
    <2>2. \A q \in Pids : p < q => job[q].at = "new"
      BY <2>1 DEF Queued
    <2>3. \A q \in Pids : q < p \/ q = p \/ p < q
      BY PidAssumption
    <2>4. ~agenda.together => \A q \in Pids \ {p} : ~Running(q)'
      BY <1>3, <2>1, <2>2, <2>3 DEF Running
    <2>5. \A q, r \in Pids : r < q /\ job'[q].at # "new" => job'[r].at # "new"
      BY <1>3, <2>1, <2>2 DEF Queued
    <2> QED
      BY <1>1, <1>3, <2>4, <2>5 DEF Queued
  <1>4. ASSUME NEW p \in Pids, \A q \in Pids \ {p} : job'[q] = job[q] /\ proc'[q] = proc[q],
               Running(p), job'[p].at # "new"
        PROVE  Queued'
    BY <1>1, <1>4 DEF Queued, Running
  <1> QED
    BY <1>2, <1>3, <1>4, JobsMove

\* A step that leaves the hooks and their removals alone.
LEMMA QuietStep ==
  ASSUME HookInv, ~agenda.together, NEW p \in Pids, Running(p),
         UNCHANGED <<settings, cut>>, registry' \subseteq registry,
         \A q \in Pids \ {p} : job'[q] = job[q] /\ proc'[q] = proc[q],
         Told(p)'
  PROVE  /\ \A a \in registry' \cap Agents : Kept(a)'
         /\ \A q \in Pids : Told(q)'
  <1>1. \A a : Kept(a)' <=> Kept(a)
    BY DEF Kept, Hooked
  <1>2. \A q \in Pids \ {p} : ~Running(q)'
    BY DEF HookInv, Queued, Running
  <1> QED
    BY <1>1, <1>2 DEF HookInv, Told

\* A command that has ended knows nothing.
LEMMA NothingTold == ASSUME NEW p, ~Running(p)' PROVE Told(p)'
  BY DEF Told

\* After a step that is no transaction, the one that comes is no entry.
LEMMA PopTold ==
  ASSUME HookInv, NEW p \in Pids, Running(p), job[p].todo # << >>,
         Next1(p)[1] \notin {"hook", "unhook"}, ~agenda.together,
         proc'[p] = proc[p], DOMAIN job'[p] = JobFields,
         job'[p].todo = Tail(job[p].todo), job'[p].buffer = << >>
  PROVE  Told(p)'
  <1>1. job[p].todo \in Seq(Steps) /\ Follows(job[p].todo) /\ Told(p)
    BY DEF HookInv, InstInv, Held, JobOK
  <1>2. Tail(job[p].todo) # << >> => Tail(job[p].todo)[1] \notin Registers
    BY <1>1, TailFollows DEF Next1
  <1>3. Tail(job[p].todo) # << >> => Head(Tail(job[p].todo)) = Tail(job[p].todo)[1]
    BY <1>1
  <1>4. proc[p].at \in Away
    BY AtRest DEF HookInv
  <1>5. ~(proc[p].at = "idle" /\ proc[p].result = "ok")
    BY <1>1 DEF Told, At
  <1> QED
    BY <1>2, <1>3, <1>4, <1>5 DEF Told, Next1, Away

\* No command begins with an entry.
LEMMA BeginTold ==
  ASSUME HookInv, ~agenda.together, NEW p \in Pids,
         InstallCommand(p) \/ UninstallCommand(p) \/ RegisterChecks(p)
           \/ SyncCommand(p) \/ InitCommand(p),
         Queued'
  PROVE  /\ \A a \in registry' \cap Agents : Kept(a)'
         /\ \A q \in Pids : Told(q)'
  <1>1. /\ UNCHANGED <<settingsVars, registry, cut, agenda>> /\ Turn(p)
        /\ job = [q \in Pids |-> job[q]] /\ DOMAIN job[p] = JobFields
        /\ job[p].buffer = << >>
    BY DEF InstallCommand, UninstallCommand, RegisterChecks, SyncCommand, Begin,
           InitCommand, filesVars, HookInv, InstInv, DocInv, Buffered, Turn
  <1>2. \A a \in registry' \cap Agents : Kept(a)'
    BY <1>1 DEF HookInv, Kept, Hooked, settingsVars
  <1>3. proc[p] = Idle /\ UNCHANGED proc
    BY <1>1 DEF HookInv, Queued, Turn, settingsVars
  <1>4. proc[p].at = "idle" /\ proc[p].result # "ok"
    BY <1>3, NoneAssumption DEF Idle
  <1>5. ASSUME NEW todo \in Seq(Steps), todo[1] \notin Registers,
               \A q \in Pids \ {p} : job'[q] = job[q],
               job'[p].at = "running", job'[p].todo = todo, job'[p].buffer = << >>
        PROVE  \A q \in Pids : Told(q)'
    <2>1. Told(p)'
      <3>1. todo # << >> => Head(todo) = todo[1]
        BY <1>5
      <3> QED
        BY <1>3, <1>4, <1>5, <3>1 DEF Told, Next1
    <2>2. \A q \in Pids \ {p} : ~Running(q)'
      BY <1>1, <1>5 DEF Queued, Running
    <2> QED
      BY <2>1, <2>2, NothingTold
  <1>6. ASSUME NEW cmd, NEW todo \in Seq(Steps), todo[1] \notin Registers, Begin(p, cmd, todo)
        PROVE  \A q \in Pids : Told(q)'
    <2>1. /\ \A q \in Pids \ {p} : job'[q] = job[q]
          /\ job'[p].at = "running" /\ job'[p].todo = todo /\ job'[p].buffer = << >>
      BY <1>1, <1>6 DEF Begin, Started, JobFields
    <2> QED
      BY <1>5, <1>6, <2>1
  <1>7. CASE InstallCommand(p)
    BY <1>2, <1>6, <1>7, InstallList DEF InstallCommand
  <1>8. CASE UninstallCommand(p)
    <2>1. registry \subseteq Adapters
      BY DEF HookInv, InstInv, Held
    <2> QED
      BY <1>2, <1>6, <1>8, <2>1, UninstallList DEF UninstallCommand
  <1>9. CASE RegisterChecks(p)
    <2>1. PICK o \in DOMAIN ChecksOf : Begin(p, "provide", <<<<"check", o>>>>)
      BY <1>9 DEF RegisterChecks
    <2> DEFINE t == <<<<"check", o>>>>
    <2>2. t \in Seq(Steps) /\ t[1] \notin Registers
      BY DEF Steps, Registers
    <2> HIDE DEF t
    <2>3. Begin(p, "provide", t)
      BY <2>1 DEF t
    <2> QED
      BY <1>2, <1>6, <2>2, <2>3
  <1>10. CASE SyncCommand(p)
    <2>1. CASE \E scope \in DOMAIN SyncSteps : Begin(p, scope, SyncSteps[scope])
      BY <1>2, <1>6, <2>1, SyncList
    <2>2. ASSUME NEW n \in registry, Begin(p, "sync one", <<<<"inject", n>>>>)
          PROVE  \A q \in Pids : Told(q)'
      <3> DEFINE t == <<<<"inject", n>>>>
      <3>1. n \in Adapters
        BY <2>2 DEF HookInv, InstInv, Held
      <3>2. t \in Seq(Steps) /\ t[1] \notin Registers
        BY <3>1 DEF Steps, Registers
      <3> HIDE DEF t
      <3>3. Begin(p, "sync one", t)
        BY <2>2 DEF t
      <3> QED
        BY <1>6, <3>2, <3>3
    <2> QED
      BY <1>2, <1>10, <2>1, <2>2 DEF SyncCommand
  <1>11. CASE InitCommand(p)
    <2>1. PICK force \in BOOLEAN, integrations \in agenda.integrations,
               setup \in agenda.setups :
            \E plan \in IF setup THEN GithubPlans ELSE {None} : job' = [job EXCEPT ![p] =
              [at |-> "running", cmd |-> "init",
               todo |-> InitSteps(force, integrations, setup), buffer |-> << >>,
               plans |-> settings, pinned |-> binary, decided |-> plan]]
      BY <1>11 DEF InitCommand
    <2> DEFINE todo == InitSteps(force, integrations, setup)
    <2>2. integrations \in Seq(Agents) /\ setup \in BOOLEAN
      BY AgendaAssumption DEF HookInv, InstInv, Held
    <2>3. todo \in Seq(Steps) /\ todo[1] \notin Registers
      BY <2>2, InitList
    <2>4. /\ \A q \in Pids \ {p} : job'[q] = job[q]
          /\ job'[p].at = "running" /\ job'[p].todo = todo /\ job'[p].buffer = << >>
      BY <1>1, <2>1
    <2> HIDE DEF todo
    <2> QED
      BY <1>2, <1>5, <2>3, <2>4
  <1> QED
    BY <1>7, <1>8, <1>9, <1>10, <1>11

\* Every entry, and what every command holds, is hooked.
Certain == /\ \A a \in registry \cap Agents : Kept(a)
           /\ \A p \in Pids : Told(p)

\* The steps that write a file in one go leave the hooks alone.
LEMMA PopCertain ==
  ASSUME HookInv, ~agenda.together, NEW p \in Pids,
         Scaffold(p) \/ TouchEvents(p) \/ Skeleton(p) \/ Ignore(p) \/ ApplyGithub(p)
  PROVE  Certain'
  <1>0. /\ job = [q \in Pids |-> job[q]] /\ DOMAIN job[p] = JobFields
        /\ UNCHANGED <<settingsVars, cut, registry>>
        /\ Pop(p) \/ Fail(p)
    BY DEF HookInv, InstInv, DocInv, Buffered, Lift, Scaffold, TouchEvents, Skeleton,
           Ignore, ApplyGithub
  <1>1. /\ \E step \in {"scaffold", "events", "skeleton", "gitignore", "github"} : At(p, step)
    BY DEF Scaffold, TouchEvents, Skeleton, Ignore, ApplyGithub
  <1>2. job[p].todo # << >> /\ job[p].buffer = << >> /\ Running(p)
        /\ Next1(p)[1] \notin {"hook", "unhook"}
    BY <1>1 DEF At, Next1, HookInv, InstInv, DocInv, Buffered, FileSteps, RegistrySteps,
                CheckSteps, DocSteps
  <1>3. Told(p)'
    <2>1. CASE Pop(p)
      <3>1. DOMAIN job'[p] = JobFields /\ job'[p].todo = Tail(job[p].todo)
            /\ job'[p].buffer = << >>
        BY <1>0, <1>2, <2>1 DEF Pop, JobFields
      <3> QED
        BY <1>0, <1>2, <3>1, PopTold DEF settingsVars
    <2>2. CASE Fail(p)
      BY <1>0, <2>2, NothingTold DEF Fail, Stop, NoJob, Running
    <2> QED
      BY <1>0, <2>1, <2>2
  <1>4. \A q \in Pids \ {p} : job'[q] = job[q] /\ proc'[q] = proc[q]
    BY <1>0 DEF Pop, Fail, Stop, settingsVars
  <1> QED
    BY <1>0, <1>2, <1>3, <1>4, QuietStep DEF Certain, settingsVars

\* A command that ends or is killed, adapters.yaml half written or not.
LEMMA EndCertain ==
  ASSUME HookInv, ~agenda.together, NEW p \in Pids,
         End(p) \/ StepFails(p) \/ Crash(p) \/ CrashInWrite(p)
  PROVE  Certain'
  <1>1. /\ job = [q \in Pids |-> job[q]] /\ proc = [q \in Pids |-> proc[q]]
        /\ Running(p) /\ (Fail(p) \/ Stop(p, "done")) /\ UNCHANGED settings
    BY DEF HookInv, InstInv, DocInv, LockInv, End, StepFails, Crash, CrashInWrite, Lift,
           settingsVars, SettingsCrash
  <1>2. UNCHANGED <<registry, cut>> \/ registry' = {}
    BY DEF End, StepFails, Crash, CrashInWrite, filesVars
  <1>3. ~Running(p)'
    BY <1>1 DEF Fail, Stop, NoJob, Running
  <1>4. \A q \in Pids \ {p} : ~Running(q)'
    BY <1>1 DEF HookInv, Queued, Running, Fail, Stop
  <1>5. \A q \in Pids : Told(q)'
    BY <1>3, <1>4, NothingTold
  <1>6. \A a \in registry' \cap Agents : Kept(a)'
    BY <1>1, <1>2 DEF HookInv, Kept, Hooked
  <1> QED
    BY <1>5, <1>6 DEF Certain

\* What is put back is blocks, never an entry.
LEMMA ReinjectCertain ==
  ASSUME HookInv, ~agenda.together, NEW p \in Pids, Reinject(p)
  PROVE  Certain'
  <1> DEFINE tail == Tail(job[p].todo)
             todo == [i \in DOMAIN Loaded |-> <<"inject", Loaded[i]>>] \o tail
  <1>0. /\ job = [q \in Pids |-> job[q]] /\ DOMAIN job[p] = JobFields
        /\ UNCHANGED <<settingsVars, cut, registry>>
        /\ At(p, "reinject") /\ job[p].todo \in Seq(Steps)
        /\ job[p].todo # << >> /\ job[p].buffer = << >> /\ Running(p)
        /\ Follows(job[p].todo) /\ Told(p)
    BY DEF Reinject, Lift, HookInv, InstInv, Held, DocInv, Buffered, JobOK, At, Next1,
           FileSteps, RegistrySteps, CheckSteps, DocSteps, filesVars
  <1>1. /\ job'[p].todo = todo /\ job'[p].buffer = << >>
        /\ \A q \in Pids \ {p} : job'[q] = job[q]
    BY <1>0 DEF Reinject, JobFields
  <1>2. /\ tail \in Seq(Steps) /\ Follows(tail)
        /\ tail # << >> => tail[1] \notin Registers
    BY <1>0, TailFollows DEF At, Next1
  <1> HIDE DEF tail
  <1>3. todo \in Seq(Steps) /\ (todo # << >> => todo[1] \notin Registers)
    BY <1>2, ReinjectList
  <1> HIDE DEF todo
  <1>4. todo # << >> => Head(todo) \notin Registers
    BY <1>3
  <1>5. proc[p].at \in Away /\ proc' = proc
    BY <1>0, AtRest DEF At, HookInv, settingsVars
  <1>6. ~(proc[p].at = "idle" /\ proc[p].result = "ok")
    BY <1>0 DEF Told, At
  <1>7. Told(p)'
    BY <1>1, <1>4, <1>5, <1>6 DEF Told, Next1, Away
  <1> QED
    BY <1>0, <1>1, <1>5, <1>7, QuietStep DEF Certain, settingsVars

\* A command that runs alone: nobody else comes to know anything.
LEMMA Alone ==
  ASSUME HookInv, ~agenda.together, NEW p \in Pids, Running(p),
         \A q \in Pids \ {p} : job'[q] = job[q], Told(p)'
  PROVE  \A q \in Pids : Told(q)'
  <1>1. \A q \in Pids \ {p} : ~Running(q)'
    BY DEF HookInv, Queued, Running
  <1> QED
    BY <1>1, NothingTold

\* An entry to be written is one that was there, or the one whose
\* hooks came first.
LEMMA ReadCertain ==
  ASSUME HookInv, ~agenda.together, NEW p \in Pids, Read(p)
  PROVE  Certain'
  <1>0. /\ job = [q \in Pids |-> job[q]] /\ DOMAIN job[p] = JobFields
        /\ UNCHANGED <<settings, cut, registry, proc>>
        /\ Running(p) /\ job[p].todo \in Seq(Steps) /\ Told(p)
    BY DEF Read, Lift, settingsVars, filesVars, HookInv, InstInv, Held, DocInv, Buffered,
           JobOK
  <1>1. PICK j : job' = [job EXCEPT ![p] = j]
    BY DEF Read, Fail, Stop
  <1>2. \A q \in Pids \ {p} : job'[q] = job[q] /\ proc'[q] = proc[q]
    BY <1>0, <1>1
  <1>3. ASSUME Fail(p) PROVE Told(p)'
    BY <1>0, <1>3, NothingTold DEF Fail, Stop, NoJob, Running
  <1>4. ASSUME NEW v, job' = [job EXCEPT ![p].buffer = <<v>>], job[p].todo # << >>,
               Next1(p)[1] \in RegistrySteps => \A a \in v \cap Agents : Kept(a)
        PROVE  Told(p)'
    <2>1. /\ job'[p].buffer = <<v>> /\ job'[p].todo = job[p].todo
          /\ job'[p].at = job[p].at
      BY <1>0, <1>4 DEF JobFields
    <2>2. <<v>>[1] = v
      OBVIOUS
    <2>3. \A a : Kept(a)' <=> Kept(a)
      BY <1>0 DEF Kept, Hooked
    <2> QED
      BY <1>0, <1>4, <2>1, <2>2, <2>3 DEF Told, Name, Next1, At, Running, Hooked
  <1>5. ASSUME Does(p, RegistrySteps),
               job' = [job EXCEPT ![p].buffer = <<RegistryAfter(p)>>]
        PROVE  Told(p)'
    <2>1. job[p].todo # << >> /\ Next1(p) \in Steps /\ Next1(p)[1] \in RegistrySteps
      <3>1. job[p].todo # << >> /\ Next1(p)[1] \in RegistrySteps
        BY <1>5 DEF Does, At
      <3> QED
        BY <1>0, <3>1 DEF Next1
    <2>2. ASSUME NEW a \in RegistryAfter(p) \cap Agents, a \notin registry
          PROVE  Next1(p) \in Registers /\ a = Name(p)
      <3>1. At(p, "register") /\ a = Name(p)
        BY <2>2 DEF RegistryAfter
      <3>2. Next1(p) = <<"register", a>>
        BY <2>1, <3>1 DEF At, Name, Steps
      <3> QED
        BY <2>2, <3>1, <3>2 DEF Registers
    <2>3. \A a \in RegistryAfter(p) \cap Agents : Kept(a)
      BY <1>0, <2>1, <2>2 DEF HookInv, Told
    <2> HIDE DEF Kept
    <2> QED
      BY <1>4, <1>5, <2>1, <2>3
  <1>6. ASSUME NEW v, NEW step \in CheckSteps \cup DocSteps, At(p, step),
               job' = [job EXCEPT ![p].buffer = <<v>>]
        PROVE  Told(p)'
    <2>1. job[p].todo # << >> /\ Next1(p)[1] \notin RegistrySteps
      BY <1>6 DEF At, RegistrySteps, CheckSteps, DocSteps
    <2> QED
      BY <1>4, <1>6, <2>1
  <1>7. Told(p)'
    <2>1. \/ Fail(p)
          \/ Does(p, RegistrySteps) /\ job' = [job EXCEPT ![p].buffer = <<RegistryAfter(p)>>]
          \/ Does(p, CheckSteps) /\ job' = [job EXCEPT ![p].buffer = <<ChecksAfter(p)>>]
          \/ Does(p, DocSteps) /\ job' = [job EXCEPT ![p].buffer = <<DocAfter(p)>>]
      BY DEF Read
    <2> QED
      BY <1>3, <1>5, <1>6, <2>1 DEF Does
  <1> QED
    BY <1>0, <1>2, <1>7, QuietStep DEF Certain

\* adapters.yaml becomes what was held for it, every entry hooked.
LEMMA WriteCertain ==
  ASSUME HookInv, ~agenda.together, NEW p \in Pids, Write(p)
  PROVE  Certain'
  <1>0. /\ job = [q \in Pids |-> job[q]] /\ DOMAIN job[p] = JobFields
        /\ UNCHANGED <<settings, proc>>
        /\ Running(p) /\ job[p].todo # << >> /\ job[p].buffer # << >> /\ Told(p)
        /\ Next1(p)[1] \in FileSteps
        /\ job' = [job EXCEPT ![p].todo = Tail(@), ![p].buffer = << >>]
    BY DEF Write, Lift, settingsVars, HookInv, InstInv, DocInv, Buffered, Next1
  <1>1. /\ \A q \in Pids \ {p} : job'[q] = job[q]
        /\ DOMAIN job'[p] = JobFields /\ job'[p].todo = Tail(job[p].todo)
        /\ job'[p].buffer = << >>
    BY <1>0 DEF JobFields
  <1>2. Next1(p)[1] \notin {"hook", "unhook"}
    BY <1>0 DEF FileSteps, RegistrySteps, CheckSteps, DocSteps
  <1>3. Told(p)'
    BY <1>0, <1>1, <1>2, PopTold
  <1>4. \A a \in registry' \cap Agents : Kept(a)'
    <2>1. CASE Does(p, RegistrySteps)
      <3>1. Next1(p)[1] \in RegistrySteps
        BY <2>1 DEF Does, At
      <3>2. registry' = job[p].buffer[1] /\ cut' = cut \cap job[p].buffer[1]
        BY <2>1 DEF Write
      <3> QED
        BY <1>0, <3>1, <3>2 DEF Told, Kept, Hooked
    <2>2. CASE ~Does(p, RegistrySteps)
      <3>1. UNCHANGED <<registry, cut>>
        BY <2>2 DEF Write
      <3> QED
        BY <1>0, <3>1 DEF HookInv, Kept, Hooked
    <2> QED
      BY <2>1, <2>2
  <1> QED
    BY <1>0, <1>1, <1>3, <1>4, Alone DEF Certain

\* An entry comes next only when the hooks before it are there.
LEMMA HandoverCertain ==
  ASSUME HookInv, ~agenda.together, NEW p \in Pids, Hook(p) \/ Unhook(p) \/ Transacted(p)
  PROVE  Certain'
  <1>0. /\ job = [q \in Pids |-> job[q]] /\ DOMAIN job[p] = JobFields
        /\ proc = [q \in Pids |-> proc[q]]
        /\ UNCHANGED <<settings, cut, registry>>
        /\ Running(p)
        /\ At(p, "hook") \/ At(p, "unhook")
        /\ job[p].todo \in Seq(Steps) /\ job[p].todo # << >> /\ Follows(job[p].todo)
        /\ Told(p)
    BY DEF Hook, Unhook, Transacted, At, filesVars, HookInv, InstInv, Held, DocInv,
           LockInv, Buffered, JobOK
  <1>1. job[p].buffer = << >>
    BY <1>0 DEF At, Next1, HookInv, InstInv, DocInv, Buffered, FileSteps, RegistrySteps,
                CheckSteps, DocSteps
  <1>2. \A a : Kept(a)' <=> Kept(a)
    BY <1>0 DEF Kept, Hooked
  <1>3. /\ UNCHANGED job \/ Pop(p) \/ Fail(p)
        /\ UNCHANGED proc \/ \E t : proc' = [proc EXCEPT ![p] = t]
    BY DEF Hook, Unhook, Transacted
  <1>4. \A q \in Pids \ {p} : job'[q] = job[q] /\ proc'[q] = proc[q]
    BY <1>0, <1>3 DEF Pop, Fail, Stop
  <1>5. ASSUME Fail(p) PROVE Told(p)'
    BY <1>0, <1>5, NothingTold DEF Fail, Stop, NoJob, Running
  <1>6. ASSUME NEW t, proc' = [proc EXCEPT ![p] = t], t.at = "open", UNCHANGED job
        PROVE  Told(p)'
    <2>1. proc'[p].at = "open"
      BY <1>0, <1>6
    <2> QED
      BY <1>0, <1>1, <1>2, <1>6, <2>1 DEF Told, Name, Next1, Running
  <1>7. ASSUME Hook(p) /\ ~Fail(p) PROVE Told(p)'
    <2>1. PICK a, original : proc' = [proc EXCEPT ![p] = Install(a, original, binary)]
                             /\ UNCHANGED job
      BY <1>7 DEF Hook
    <2>2. Install(a, original, binary).at = "open"
      BY DEF Install, Idle
    <2> QED
      BY <1>6, <2>1, <2>2
  <1>8. ASSUME Unhook(p) PROVE Told(p)'
    <2>1. Uninstall(Name(p)).at = "open"
      BY DEF Uninstall, Idle
    <2> QED
      BY <1>6, <1>8, <2>1 DEF Unhook
  <1>9. ASSUME Transacted(p) /\ ~Fail(p) PROVE Told(p)'
    <2>1. /\ proc[p].at = "idle" /\ proc[p].result = "ok" /\ Pop(p)
          /\ proc' = [proc EXCEPT ![p] = Idle]
      BY <1>9 DEF Transacted
    <2>2. proc'[p] = Idle /\ Idle.at = "idle" /\ Idle.result # "ok"
      BY <1>0, <2>1, NoneAssumption DEF Idle
    <2>3. job'[p].todo = Tail(job[p].todo) /\ job'[p].buffer = << >>
      BY <1>0, <1>1, <2>1 DEF Pop, JobFields
    <2>4. ASSUME Tail(job[p].todo) # << >>, Head(Tail(job[p].todo)) \in Registers
          PROVE  Kept(Head(Tail(job[p].todo))[2])
      <3>1. Tail(job[p].todo) \in Seq(Steps)
        BY <1>0, TailFollows
      <3> DEFINE next == Tail(job[p].todo)[1]
      <3>2. Head(Tail(job[p].todo)) = next
        BY <2>4, <3>1
      <3>3. job[p].todo[1] = <<"hook", next[2]>>
        BY <1>0, <2>4, <3>2, TailFollows
      <3>4. Next1(p) = job[p].todo[1]
        BY <1>0 DEF Next1
      <3> HIDE DEF next
      <3>5. At(p, "hook") /\ Name(p) = next[2]
        BY <1>0, <3>3, <3>4 DEF At, Name
      <3> QED
        BY <1>0, <2>1, <3>2, <3>5 DEF Told, Kept
    <2> QED
      BY <1>2, <2>2, <2>3, <2>4 DEF Told, Name, Next1
  <1>10. Told(p)'
    BY <1>5, <1>7, <1>8, <1>9
  <1> QED
    BY <1>0, <1>4, <1>10, QuietStep DEF Certain

\* A transaction that does not replace the file: what it ends with.
LEMMA TransactTold ==
  ASSUME HookInv, NEW p \in Pids, Transact(p), Told(p), UNCHANGED settings,
         ~Replace(p)
  PROVE  Told(p)'
  <1> DEFINE t == proc[p]
             a == proc[p].agent
  <1>0. /\ proc \in [Pids -> Transactions] /\ t \in Transactions
        /\ Engaged(p, t) /\ Planned(p, t)
        /\ settings \in [Agents -> Files] /\ UNCHANGED job
        /\ Running(p) /\ job[p].todo # << >>
        /\ Next1(p)[1] \in {"hook", "unhook"}
    BY DEF HookInv, InstInv, SettingsTypeOK, Busy, Transact, At
  <1>1. t.at \notin Away
    BY DEF Transact, SettingsStep, OpenLock, Judge, Break, WriteOwner, Unlock, CheckPlan,
           CreateBackup, FillBackup, PlanRemoval, Replace, WriteFails, Away
  <1>2. Next1(p) \notin Registers /\ Next1(p)[1] \notin RegistrySteps
    BY <1>0 DEF Registers, RegistrySteps
  <1>3. ASSUME proc'[p].at \notin {"idle", "unlock"}
        PROVE  Told(p)'
    BY <1>0, <1>2, <1>3 DEF Told, Next1, Running
  <1>4. ASSUME NEW stage \in {"open", "judge", "break", "owner", "check", "backup", "fill",
                              "replace"}, proc'[p].at = stage
        PROVE  Told(p)'
    BY <1>3, <1>4
  <1>5. ASSUME NEW result \in {"ok", "refused"}, Finish(p, result),
               result = "ok" /\ t.cmd = "install" => Hooked(a)
        PROVE  Told(p)'
    <2> DEFINE u == [t EXCEPT !.at = "unlock", !.result = result]
    <2>1. proc'[p] = u
      BY <1>0, <1>5 DEF Finish
    <2>2. u.at = "unlock" /\ u.result = result /\ u.cmd = t.cmd /\ u.agent = a
      BY <1>0 DEF Transactions
    <2> HIDE DEF u, t, a
    <2> QED
      BY <1>0, <1>2, <1>5, <2>1, <2>2 DEF Told, Next1, Running, Hooked
  <1>6. CASE OpenLock(p) \/ (Judge(p) /\ ~Refuse(p)) \/ Break(p)
    <2>1. \E stage \in {"owner", "judge", "break", "open"} : proc'[p].at = stage
      BY <1>0, <1>6 DEF OpenLock, Judge, Break, Move, Transactions
    <2> QED
      BY <1>4, <2>1
  <1>7. CASE Judge(p) /\ Refuse(p)
    <2>1. proc'[p].at = "idle" /\ proc'[p].result = "refused"
      BY <1>0, <1>7 DEF Refuse, Idle
    <2> QED
      BY <1>0, <1>2, <2>1 DEF Told, Next1, Running
  <1>8. CASE WriteOwner(p) \/ CreateBackup(p)
    <2>1. \E stage \in {"check", "fill"} : proc'[p].at = stage
      BY <1>0, <1>8 DEF WriteOwner, CreateBackup, Transactions
    <2> QED
      BY <1>4, <2>1
  <1>9. CASE FillBackup(p)
    <2>1. proc'[p].at = "replace"
      BY <1>0, <1>9 DEF FillBackup, Move, Transactions
    <2> QED
      BY <1>4, <2>1
  <1>10. CASE CheckPlan(p)
    <2>1. settings[a] = t.original /\ t.desired = t.original => Hooked(a)
      BY <1>0, <1>1, <1>10 DEF CheckPlan, Planned, Hooked
    <2>2. \/ Finish(p, "refused")
          \/ Finish(p, "ok") /\ settings[a] = t.original /\ t.desired = t.original
          \/ \E stage \in {"replace", "backup"} : proc'[p].at = stage
      BY <1>0, <1>10 DEF CheckPlan, Move, Transactions
    <2> QED
      BY <1>4, <1>5, <2>1, <2>2
  <1>11. CASE PlanRemoval(p)
    <2>1. t.cmd = "uninstall"
      BY <1>11 DEF PlanRemoval
    <2>2. \/ Finish(p, "refused") \/ Finish(p, "ok") \/ proc'[p].at = "replace"
      <3>1. \A desired :
              proc' = [proc EXCEPT ![p].at = "replace", ![p].desired = desired]
                => proc'[p].at = "replace"
        BY <1>0 DEF Transactions
      <3> QED
        BY <1>11, <3>1 DEF PlanRemoval
    <2> QED
      BY <1>4, <1>5, <2>1, <2>2
  <1>12. CASE WriteFails(p)
    BY <1>5, <1>12 DEF WriteFails
  <1>13. CASE Unlock(p)
    <2>1. proc'[p].at = "idle" /\ proc'[p].result = t.result /\ t.at = "unlock"
      BY <1>0, <1>13 DEF Unlock, Idle
    <2>2. At(p, "hook") \/ At(p, "unhook")
      BY DEF Transact
    <2>3. At(p, "hook") => t.cmd = "install" /\ Name(p) = a
      BY <1>0, <1>1 DEF Engaged, At, Name
    <2>4. t.result = "ok" /\ At(p, "hook") => Hooked(Name(p))
      BY <1>0, <2>1, <2>3 DEF Told
    <2> HIDE DEF t
    <2> QED
      BY <1>0, <1>2, <2>1, <2>2, <2>4 DEF Told, Name, At, Next1, Running, Hooked
  <1> QED
    BY <1>6, <1>7, <1>8, <1>9, <1>10, <1>11, <1>12, <1>13 DEF Transact, SettingsStep

\* Only a replacement changes the hooks: an install's puts them there, and
\* what an uninstall's takes away counts as cut.
LEMMA TransactCertain ==
  ASSUME HookInv, ~agenda.together, NEW p \in Pids, Transact(p)
  PROVE  Certain'
  <1> DEFINE t == proc[p]
             a == proc[p].agent
  <1>0. /\ proc \in [Pids -> Transactions] /\ t \in Transactions
        /\ Engaged(p, t) /\ Planned(p, t) /\ Told(p)
        /\ settings \in [Agents -> Files] /\ UNCHANGED <<job, registry>>
        /\ Running(p) /\ job[p].todo # << >>
        /\ Next1(p)[1] \in {"hook", "unhook"}
        /\ \A b \in registry \cap Agents : Kept(b)
        /\ cut' = IF t.cmd = "uninstall" /\ settings' # settings THEN cut \cup {a}
                  ELSE IF t.cmd = "install" /\ settings' # settings THEN cut \ {a}
                  ELSE cut
    BY DEF HookInv, InstInv, SettingsTypeOK, Busy, Transact, At
  <1>1. CASE ~Replace(p)
    <2>1. UNCHANGED settings
      BY <1>1 DEF Transact, SettingsStep, OpenLock, Judge, Break, WriteOwner, Unlock,
             CheckPlan, CreateBackup, FillBackup, PlanRemoval, WriteFails
    <2>2. UNCHANGED cut
      BY <1>0, <2>1
    <2>3. Told(p)'
      BY <1>0, <1>1, <2>1, TransactTold
    <2> QED
      BY <1>0, <2>1, <2>2, <2>3, Alone DEF Certain, Kept, Hooked
  <1>2. CASE Replace(p)
    <2>1. /\ settings' = [settings EXCEPT ![a] = t.desired] /\ t.at = "replace"
          /\ Finish(p, "ok") /\ a \in Agents
          /\ t.cmd \in {"install", "uninstall"}
      BY <1>0, <1>2 DEF Replace, Engaged, Away
    <2>2. settings'[a] = t.desired /\ \A b \in Agents \ {a} : settings'[b] = settings[b]
      BY <1>0, <2>1
    <2>3. t.cmd = "install" => t.desired \in Contents /\ t.desired.ours # None
      BY <1>0, <2>1 DEF Planned, Away
    <2>4. \A b \in registry' \cap Agents : Kept(b)'
      <3>1. CASE UNCHANGED settings
        BY <1>0, <3>1 DEF Kept, Hooked
      <3>2. CASE settings' # settings
        <4>1. ASSUME NEW b \in registry \cap Agents PROVE Kept(b)'
          <5>1. CASE b = a
            BY <1>0, <2>1, <2>2, <2>3, <3>2, <5>1 DEF Kept, Hooked
          <5>2. CASE b # a
            BY <1>0, <2>1, <2>2, <3>2, <5>2 DEF Kept, Hooked
          <5> QED
            BY <5>1, <5>2
        <4> QED
          BY <1>0, <4>1
      <3> QED
        BY <3>1, <3>2
    <2>5. Told(p)'
      <3> DEFINE u == [t EXCEPT !.at = "unlock", !.result = "ok"]
      <3>1. proc'[p] = u
        BY <1>0, <2>1 DEF Finish
      <3>2. u.at = "unlock" /\ u.cmd = t.cmd /\ u.agent = a
        BY <1>0 DEF Transactions
      <3>3. Next1(p) \notin Registers /\ Next1(p)[1] \notin RegistrySteps
        BY <1>0 DEF Registers, RegistrySteps
      <3> HIDE DEF u, t, a
      <3> QED
        BY <1>0, <2>2, <2>3, <3>1, <3>2, <3>3 DEF Told, Next1, Running, Hooked
    <2> QED
      BY <1>0, <2>4, <2>5, Alone DEF Certain
  <1> QED
    BY <1>1, <1>2

\* What is not a step of a command takes no hooks away.
LEMMA OthersCertain ==
  ASSUME HookInv, ~agenda.together,
         LockAges \/ SaveSettings \/ SaveGithub \/ MoveBinary \/ UNCHANGED vars
  PROVE  Certain'
  <1>1. UNCHANGED <<job, proc, registry, cut>>
    BY DEF LockAges, Age, SaveSettings, UserSaves, SaveGithub, MoveBinary, vars,
           installVars, settingsVars, filesVars
  <1>2. ASSUME NEW b \in Agents, Hooked(b) PROVE Hooked(b)'
    <2>1. CASE SaveSettings
      <3>1. PICK a \in Agents : UserSaves(a)
        BY <2>1 DEF SaveSettings
      <3>2. /\ settings \in [Agents -> Files]
            /\ settings' = [settings EXCEPT ![a] = Saved(settings[a])]
            /\ settings[a] \in Contents => settings[a].user < Saves
        BY <3>1 DEF UserSaves, HookInv, InstInv, SettingsTypeOK
      <3>3. CASE b = a
        <4>1. settings[a] \in Contents /\ settings[a].ours # None
          BY <1>2, <3>3 DEF Hooked
        <4>2. /\ Saved(settings[a]) = [ours |-> settings[a].ours,
                                       user |-> settings[a].user + 1]
          BY <4>1 DEF Saved
        <4>3. settings[a].user + 1 \in 0..Saves /\ settings[a].ours \in Binaries \cup {None}
          BY <3>2, <4>1, SavesAssumption DEF Contents
        <4> QED
          BY <3>2, <3>3, <4>1, <4>2, <4>3 DEF Hooked, Contents
      <3>4. CASE b # a
        BY <1>2, <3>2, <3>4 DEF Hooked
      <3> QED
        BY <3>3, <3>4
    <2>2. CASE UNCHANGED settings
      BY <1>2, <2>2 DEF Hooked
    <2> QED
      BY <2>1, <2>2 DEF LockAges, Age, SaveGithub, MoveBinary, vars, settingsVars
  <1>3. \A b \in registry' \cap Agents : Kept(b)'
    BY <1>1, <1>2 DEF HookInv, Kept
  <1>4. ASSUME NEW p \in Pids PROVE Told(p)'
    <2> SUFFICES ASSUME Running(p)' PROVE Told(p)'
      BY NothingTold
    <2>1. Running(p) /\ Told(p) /\ job[p].todo \in Seq(Steps) /\ proc[p] \in Transactions
          /\ Engaged(p, proc[p])
      BY <1>1 DEF Running, HookInv, InstInv, SettingsTypeOK, Held, JobOK, Busy
    <2>2. job[p].todo # << >> => Next1(p) \in Steps
      BY <2>1 DEF Next1
    <2>3. \A b \in Agents : Kept(b) => Kept(b)'
      BY <1>1, <1>2 DEF Kept
    <2>4. job[p].todo # << >> /\ Next1(p) \in Registers => Kept(Name(p))'
      BY <1>1, <2>1, <2>3 DEF Told, Registers, Name, Next1
    <2>5. job[p].buffer # << >> /\ Next1(p)[1] \in RegistrySteps
            => \A b \in job[p].buffer[1] \cap Agents : Kept(b)'
      BY <2>1, <2>3 DEF Told
    <2>6. proc[p].at = "unlock" /\ proc[p].cmd = "install" /\ proc[p].result = "ok"
            => Hooked(proc[p].agent)'
      BY <1>1, <1>2, <2>1 DEF Told, Engaged, Away
    <2>7. At(p, "hook") => Name(p) \in Agents
      BY <2>1, <2>2 DEF At, Name, Steps
    <2>8. proc[p].at = "idle" /\ proc[p].result = "ok"
            => /\ At(p, "hook") \/ At(p, "unhook")
               /\ At(p, "hook") => Hooked(Name(p))'
      BY <1>1, <1>2, <2>1, <2>7 DEF Told, Name, Next1
    <2> QED
      BY <1>1, <2>4, <2>5, <2>6, <2>8 DEF Told, Name, Next1, At, Running, Hooked, Kept
  <1> QED
    BY <1>3, <1>4 DEF Certain

\* Every step keeps the entries behind their hooks.
LEMMA HookStepwise == HookInv /\ [Next]_vars => HookInv'
  <1> SUFFICES ASSUME HookInv, [Next]_vars PROVE HookInv'
    OBVIOUS
  <1>1. InstInv' /\ Queued' /\ agenda' = agenda
    BY InstStepwise, QueuedStep, JobsMove DEF HookInv
  <1>2. ASSUME ~agenda.together PROVE Certain'
    <2>1. ASSUME NEW p \in Pids,
                 InstallCommand(p) \/ UninstallCommand(p) \/ RegisterChecks(p)
                   \/ SyncCommand(p) \/ InitCommand(p)
          PROVE  Certain'
      BY <1>1, <1>2, <2>1, BeginTold DEF Certain
    <2>2. ASSUME NEW p \in Pids, Work(p) PROVE Certain'
      BY <1>2, <2>2, PopCertain, HandoverCertain, TransactCertain, ReadCertain,
         WriteCertain, ReinjectCertain, EndCertain DEF Work
    <2>3. ASSUME NEW p \in Pids, StepFails(p) \/ Crash(p) \/ CrashInWrite(p)
          PROVE  Certain'
      BY <1>2, <2>3, EndCertain
    <2>4. CASE LockAges \/ SaveSettings \/ SaveGithub \/ MoveBinary \/ UNCHANGED vars
      BY <1>2, <2>4, OthersCertain
    <2> QED
      BY <2>1, <2>2, <2>3, <2>4 DEF Next
  <1> QED
    BY <1>1, <1>2 DEF HookInv, Certain

\* No entry, no hooks to have.
LEMMA HookInit == Init => HookInv
  <1> SUFFICES ASSUME Init PROVE Queued /\ registry = {} /\ \A p \in Pids : Told(p)
    BY InstInit DEF HookInv
  <1>1. registry = {} /\ \A p \in Pids : proc[p] = Idle /\ job[p].at = "new"
    BY DEF Init, SettingsInit, NoJob
  <1> QED
    BY <1>1 DEF Queued, Running, Told

\* Commands that do not overlap know of the hooks behind every entry they are
\* about to write, also when others fail or are killed in between (adapter_install,
\* InitOperations.ordered).
THEOREM HooksFollow == Spec => []HookInv
  BY HookInit, HookStepwise, PTL DEF Spec

\* An agent that adapters.yaml lists has its hooks, or an uninstall was cut short
\* between the two: for every order of commands, failures and kills
\* (adapter_install, adapter_uninstall, init).
THEOREM RegisteredAlwaysHooked == Spec => []RegisteredIsHooked
  <1>1. HookInv => RegisteredIsHooked
    BY DEF HookInv, RegisteredIsHooked, Kept
  <1> QED
    BY <1>1, HooksFollow, PTL

=============================================================================
