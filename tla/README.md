# Keepsail in TLA+

Keepsail (`src/src/keepsail/`) keeps coding agents inside an agreed lifecycle:
a change is declared, its plan is reviewed, the implementation is verified and
frozen, the frozen code is reviewed, and only then it is merged. Everything the
program knows is derived from one append-only file, `.harness/events.jsonl`.
There is no server: every command is a process of its own, several may run at
once (agents, hooks, CI, a person), each may be killed anywhere, and what keeps
them from harming one another is a lock, a validator and a replay of the log.
Around that core stand a gate that decides on every edit an agent wants to make,
an observer process that turns documents into events, a ledger of product
knowledge in the same log, a merge gate in CI, and the commands that install all
of this into a workspace.

This directory models these parts, checks them with TLC and proves their central
properties with TLAPS.

## Inventory

Paths are relative to `src/src/keepsail/`.

| Part | State it keeps | Operations | Talks to | Module |
| --- | --- | --- | --- | --- |
| Transition table (`core/transitions.py`, `core/state.py`) | none | `compute_target_state` | reducer, validator, attestation | `Transitions` |
| Reducer (`core/reducer.py`) | none; a left fold over the log | `derive_state` | every command and reader | `ChangeState` |
| Approval records (`core/approval.py`) | none; digests bind plan, approval, code, evidence | make and validate subjects, evidence, supersession, coverage | validator, CLI | `ChangeState`, `EmitValidation` |
| Emit validator (`core/emit_validation.py`) | none; reads the log | `validate_preconditions`, `_validate_authority` | called by the writer under its lock | `EmitValidation` |
| Event writer (`core/writer.py`, `core/file_lock.py`) | `events.jsonl`, `.events.lock` | `emit`, `emit_many` | called by all emitters | `EventStore` |
| State cache (`core/post_emit.py`, `core/state_yaml.py`, `cli/state.py`) | `state.yaml`, `state.yaml.tmp`, `.state.lock` | `refresh_state_after_emit`, `state rebuild` | read without a lock by the gate and by status | `EventStore` |
| Commands (`cli/change.py`, `plan.py`, `implementation.py`, `review.py`, `done.py`, `verify.py`, `on_merge.py`, `pr.py`, `attest.py`) | what they read, until they emit | one per subcommand | writer, runner, git | `Lifecycle` |
| Verification runner, dispatcher (`sensors/`) | the subject captured before the checks; a thread pool | `check`, `run_checks`, `on_activity` | git, subprocesses, writer | `Lifecycle`, `VerificationRun` |
| Attestation (`engineering/attestation.py`, `cli/attest.py`) | the committed copy of a change's lines | `attest write`, `attest verify` | the log locally, only the copy in CI | `Attestation` |
| Gate and hook (`gates/`, `daemon/hook_entry.py`, `core/state_snapshot.py`, `core/active_change.py`) | kill switch file | decide, record a bypass | reads the cache, emits a bypass | `Gate`, `Enforcement` |
| Observer host and supervisor (`daemon/server.py`, `daemon/supervisor.py`, `cli/observe.py`) | `daemon.pid` and an advisory lock on it | `observe start`, `stop`, `status`; fork, lock, name, serve, exit | one another, by the pid file and signals | `ObserverHost` |
| Framework adapters and observer (`adapters/framework/`, `daemon/framework_observer.py`) | watcher threads | observe, scan, emit | writer | `Enforcement` |
| Knowledge ledger (`core/knowledge.py`, `cli/knowledge.py`) | a second event family in the same log | propose, import (recognise, apply, dispose), deliver, challenge, execute, checkpoint | writer; lifecycle events wait for it | `Knowledge` |
| Agent settings (`adapters/agent/`) | the agent's settings file, its backups, its owner lock | plan and apply a merge, restore or strip | shared with the user's editor | `SettingsMerge` |
| Installation (`cli/init*.py`, `cli/adapter.py`, `cli/sync.py`, `engineering/agents_md*.py`, ...) | `adapters.yaml`, `verification.yaml`, `AGENTS.md`, `.gitignore`, GitHub files | init, adapter install and uninstall, verification register, sync | one another, by those files | `Installation` |
| Decisions and anchors (`core/decisions.py`, `decision_check.py`, `check_runner.py`, `anchor_scanner.py`, `cli/decision.py`) | one record file per decision, anchors in the source | new, ratify, reconcile, betray, supersede, retire, check | the owner's editor, the code, subprocesses | `Decisions` |
| Authoring checks (`core/authoring_check.py`, `daemon/hook_entry.py`) | threads and a deadline | run the checks at the end of a turn | records, subprocesses | `AuthoringCheck` |
| Document checks, reports, the setup wizard, retired review rounds | none, or files written once | scans, views, prompts | | not modelled |

What is hard here:

* **Read, decide, emit.** Every command reads the derived change outside any
  lock and emits later; the log may have moved on.
* **Two records in one append.** Imported evidence and its conclusion must
  appear together, and the second is validated with the first staged.
* **Subjects.** An approval, a verification and a review each name an exact
  subject; commits, edits, revisions and reopenings change what is current.
* **Long histories.** Redeclare, revise, withdraw, reject, reopen and supersede
  compose in any order, and the reducer must forget the right things.
* **Two files.** The log and its cache have different locks, lock-free readers
  and a rebuild that takes no lock; any process can die in between.
* **Swallowed refusals.** The dispatcher and the hook go on when the writer
  refuses them.
* **Rules stated twice.** The merge gate judges a copy, and the checkpoint in it,
  by rules that restate the writer's; CI has no log to ask.
* **Clearance and edit.** The gate answers from a cache that may lag, and the
  edit comes later still.
* **Lock files that outlive their owner.** The settings' lock is a file; the
  host's is a pid file that everyone reads and others probe.
* **Files without a lock.** `adapters.yaml`, `verification.yaml`, `AGENTS.md` and
  the decision records are read, changed and written back by commands that may
  overlap or be cut short; nothing is rolled back. A ratification runs a check for
  minutes between its reading and its writing.
* **What was checked then.** A lock on a body, a baseline of fingerprints and a
  bite-test each speak of an earlier state of files that people go on editing.
* **A budget shared by threads.** The checks at the end of a turn start late or
  never, hang or are killed, and the hook has to return in time with nothing
  left running.

`PROJECT.json` lists each of these at its lines under `hazards`, with the
property that covers it or the reason why none does.

What makes each part correct: the table and the two folds over it agree; an
approval rests on recorded evidence for its very subject; working states rest
on an approval; frozen code follows the approval in force and what completes is
what was verified; ready code was reviewed; what CI merges is vouched for, and
what is ready CI takes; the log grows by legal batches only; the cache never goes
back and shows a command its own events; nobody waits for a dead process; there
is one host and the pid file names it; documents written become events, once; an
edit the gate lets through falls where work may go on, and whoever has to move
can; knowledge replays, has one version in force and is honoured by every merge;
an install loses nothing of the user's and is found again by its uninstall, its
sync and its successor; a locked check was seen to pass and to fail, a
clean check means that records and code conform; the end of a turn is never held
up and leaves nothing running.

## Modules

| Module | Models |
| --- | --- |
| `Transitions` | states, informational events, `compute_target_state` |
| `ChangeState` | records, events, and the left folds `Reduce` (reducer) and `StrictStep` (validator) |
| `EmitValidation` | what the writer demands of an event or a batch |
| `Lifecycle` | one change driven by concurrent commands: the state machine |
| `Attestation` | extends it by the committed copy, the merge gate and the merge |
| `EventLog` | abstract: an append-only log of batches legal where they are appended |
| `EventStore` | detailed: the two files and two locks, step by step; implements `EventLog` |
| `VerificationRun` | one run of the checks: pool, sensor, dispatcher, command |
| `Gate` | the gate's decision, as operators over the records of the cache |
| `ObserverHost` | hosts, their pid file and lock, and the commands that manage them |
| `Enforcement` | extends both: an agent under the gate, a host that scans, people's commands, the kill switch |
| `Knowledge` | the ledger, its operations and the lifecycle events that wait for it |
| `SettingsMerge` | one transaction on an agent's settings, under its lock file |
| `Installation` | extends it by the commands, as lists of file steps |
| `Decisions` | the records, the anchors and the commands on them, beside editors of both |
| `AuthoringCheck` | one run of the checks at the end of a turn: hook, threads, clock |
| `MC...` | instances: `MCLifecycle`, `MCAttestation`, `MCEventStore`, `MCEnforcement`, `MCKnowledge`, `MCInstallation`, `MCDecisions` |
| `..._proofs` | theorems: `Lifecycle_proofs` (its states, its steps, and `Attestation`), `EventStore_proofs`, `VerificationRun_proofs`, `Enforcement_proofs`, `Knowledge_proofs`, `Installation_proofs`, `Decisions_proofs`, `AuthoringCheck_proofs` |

`Lifecycle` extends `EmitValidation`, which extends `ChangeState`, which extends
`Transitions`. `Lifecycle` takes validate-and-append as one step; that this is
right is what `EventStore` shows: it refines `EventLog`, whose only action does
exactly that. The two meet in the operator `Legal`, a constant of the store and
worked out (`Accepts`) in `EmitValidation`.

`VerificationRun` stands in the same relation to `FinishChecks` of `Lifecycle`,
which takes the outcome of the checks as one choice: it shows where the outcome
comes from and that the comparison of the tree, which `FinishChecks` models,
happens when no check is running any more.

`Enforcement` and `Knowledge` look at the same log from other sides. They keep of
a change what they read of it (its table state, its artifacts, its approval) and
take appends and refreshes as single steps, whose inside `EventStore` has; what
makes a plan or a verdict legal beyond the table is `Lifecycle`'s subject.

Definitions that begin "A bug:" are wrong versions of the definition that follows
them, for the table of `mutants` in `PROJECT.json`: put in its place, each breaks
the property named there. The models do not use them.

### How `Lifecycle` corresponds to the code

The log is represented by its folds: `cs` is the record `derive_state` returns
for the change, plus `strict` (the state the validator's own replay reaches) and
`verifiedOnce` (the one question it asks of all event types). Appending applies
the folds once more, so the value is always the one a replay would give.

A command with a decision of its own has two steps: it reads `cs` and fills
`job[p]` (`PlanWithdraw`, `ReviewImport`, ...), later `Commit(p)` has the writer
validate and append. A command without one is a single action. `done` and
`verify` have more: `BeginChecks` captures the subject, `FinishChecks` compares
it and forms the verdict, `Commit` lets the dispatcher record it, `Complete`
reads everything again before completing. `Commit` of a refused verdict goes on
all the same, because `_handle` only logs the refusal. `Crash` ends an
invocation between any two steps. `Edit`, `GitCommit` and `EnableRecognition`
are the surroundings. Reading the subject may fail: before the checks that
leaves a verdict without a subject, which the writer refuses; after them it
counts as a change.

Digests are modelled by what they digest: two subjects are equal exactly when
their ids are. A code subject is an approval and a committed tree. `work = head`
is a clean working tree. An assessment is the approval it names; coverage is a
set of paths.

Abstractions: payload shape checks (a malformed record is refused and changes
nothing), recognition of process and issuer (only recognized evidence is
enumerated; whether recognition is active is kept), the commitments inside an
assessment, scope, timestamps, and other changes in the same log, on which
nothing here depends. `import` replays the log twice in a row and is given one
read.

### How `EventStore` corresponds to the code

`file` holds the events that parse, and how the last line ends: whole, as an
event without its newline, or as a fragment. Readers skip what does not parse,
so nothing else of the file can be seen. One action per step of `emit_many`
(lock, stage, validate, append, unlock) and of `refresh_state_after_emit` (lock,
derive, open the temporary file, write, rename, unlock). `handle` follows an open
temporary file through renames done by others: that is how a refresh and an
unlocked rebuild can corrupt each other, the second rename raising.

`ShortWrites` lets an append stop early, `Rebuilders` are commands that rebuild
without a lock. Both are real; the runs and theorems that need them absent say
so. Locks are `flock`s: a killed process holds none. The Windows branch of
`file_lock`, which polls, is not modelled apart.

### How `VerificationRun` corresponds to the code

`check[k]` is the k-th task of `collect_checks`, in the order in which
`run_checks` submits them and collects their results. `sensor` is the line of
`run_checks`, or of the rest of `VerificationRunner.check`, that the sensor's
thread has come to: `Collect` is one turn of its loop, `Cancel` one turn after
`aborted` is set, `closing` and `unwinding` are the exit of the `with` block,
left normally or by an exception. `StartCheck` in parallel mode is a worker of
the pool taking the oldest task of the queue, at any moment, also while the
sensor cancels or leaves. In sequential mode the sensor runs the check itself.

`Status` reads a result of `run_command`; everything but a pass is one status,
since nothing in the program asks for more. `RaiseCheck` is an exception, out of
the archive or the interpolation. `Judge` forms the verdict and writes the
summary, which may raise. The dispatcher either handles the result, or records a
crash, or loses patience; the command reports when its pool has emptied, since
`on_activity` does not return earlier.

Left abstract: which checks are collected, what they do, the refusal of the
verdict by the writer (`Lifecycle`), exceptions of the dispatcher itself, and
processes that outlive the killing of their own process tree.

### How `Attestation` corresponds to the code

Every step of `Lifecycle` that appends also updates `trail`, what the gate reads
off the lines themselves: whether any is out of order, milestones, the last
review, undisclosed bypasses, the estimated scope. Two of its fields are history
for the properties only (`vouched`, `declared`). `AttestWrite` and
`DiscloseAndWrite` copy the folds; `Verifies` is `verify_attestations`, one
conjunct per blocker, with the code subject computed anew from the tree at head;
`MergePullRequest` is the merge CI lets through. A copy may be as old as it likes.

Abstracted: rendering, copying and parsing of lines (each line is taken to come
back as it was), policy files (recognition stands for them), the list of
attestations in a pull request (one, its change's), streams without the
evidence-backed contract beyond the estimate they use.

### How `Gate`, `ObserverHost` and `Enforcement` correspond to the code

`Allowed` is the decision: which change (`Subject`, `PickActiveChange`), the
table, then the allowances for scratch files, plans and recorded artifacts. Path
tests are constants that say which change's directories a file is in. The two
shims, for Claude Code and Codex, are one question; Codex names no file.

`ObserverHost` has one stage of `host[h]` per system call of `daemonize`: open,
lock without waiting, truncate, write the pid, serve. A command's probe opens the
file and takes a shared lock, which it then releases (`Probe`, `Release`); in
between a starting host finds the lock taken. Polls and waits end by success or
by `GiveUp`, the deadline.

In `Enforcement`, `truth` is what the log derives to, `yaml` the cache, `now` the
clock that stamps events, which decides the active change. A command builds its
event, emits it and refreshes; a scan reads the log once, then emits what it
found missing (`left`), by name and a change's intent before its plan
(`Yields`), each with its refresh. `notified` merges notifications as the
watcher's handler lock does. The agent asks, the hook answers, the edit lands:
three steps. `overtaken` is history: whether an event was recorded since.

### How `Knowledge` corresponds to the code

A digest is what it digests, the revision of the log is its length. A caller has
a record file (`Draft`), runs the command on it (`Submit` prepares outside the
lock, `Emit` validates and appends under it, perhaps dying before it answers,
`Refuse`), and may run it again (`SubmitAgain`). `ledger` is what `load_ledger`
reads, field by field; `Impacts`, `Constraints`, `Basis`, `Status` and `Blocked`
are the view of a change; `PrerequisiteMet` is what lifecycle events wait for;
`CheckpointAccepted` is what CI checks without the log. `ledger` is folded by the
operator (`Apply`) that a replay uses, so it is always what a replay gives; that
the replay's own checks never fail is `LedgerReplays`. An entry of
`applicability` is the operation that judged, which carries the judgment.

`change` keeps of the lifecycle what knowledge reads: the state, the approval in
force, the scope and the coverage, the code that is frozen and the last
verification, with one action for each event that changes any of them (`Step`).
A revision that is approved while the change is worked on re-enters implementation
directly, past the prerequisite of `ImplementationStarted`, and drops frozen code
and verification but not the coverage; `ImplementationRecorded` replaces the
coverage in any state. A code subject is the change set (`code`, which touches the
paths of its `Manifest`), the approval and the knowledge basis it was made under,
so a subject made again under other knowledge is another one (`CodeSubject`). An
approval is named by the length of the log at its event. What makes a candidate
or a conclusion valid is `Lifecycle`'s: here a plan may be approved, and a review
imported, at any time. Left out are the events that no command emits any more
(`implementation_restarted`, `implementation_withdrawn`, `intent_redeclared`), and
repositories without a knowledge policy, in which no lifecycle event waits.
Governance policy is that the owner is needed where `OwnerNeeded` says so and was
asked as `human` says.

### How `SettingsMerge` and `Installation` correspond to the code

A settings file is the binary its keepsail hooks name and a version of
everything else in it. A transaction is one action per file operation: create
the lock, judge the one that is there, remove it, write the owner into it, check
the plan, create the backup, fill it, replace the file, unlock. A lock file
remembers who created it (`by`), which nobody in the program can see; `raced`
and `touched` are history.

`Installation`'s commands are lists of steps (`InstallSteps`, `UninstallSteps`,
`SyncSteps`, `InitSteps`; `HookSteps` begins with a settings transaction), one
file each; a read-modify-write without a lock is
`Read` then `Write`. `Crash`, `CrashInWrite` (both YAML files are truncated before
they are written) and `StepFails` cut a list short. `doc` is AGENTS.md: whether
there is a section, its blocks, and the two places where the next block goes.
`init` plans everything first (`plans`, `decided`) and applies it afterwards.

### How `Decisions` corresponds to the code

A record is the file as `parse_decision_file` returns it: status, body, hash,
links, baseline. A body is a model value, and `Body` says what its blocks make of
it: which tier, whether there is a counterexample, on which contents the check
holds and whether it fails on the counterexample; tier 0 does not parse. Hash and
fingerprint are the body and the file themselves. A source file is a content and
the ids its anchors name, or None.

A command is a record in `cmd[p]`: what it has read and the stage it is at. `ratify`
reads (`Ratify`), runs the check on the tree (`PassSide`), then in the sandbox
(`BiteSide`), then writes; `reconcile` reads, scans the anchors, fingerprints and
writes; `supersede` reads two records and writes two; `check` loads the records,
scans, fingerprints, loads them again and runs the checks one by one (`CheckScan`
to `Report`). `write_text` is two steps, `Truncate` and `Fill`: in between the
file is in `torn`, as it is for good when the command is killed, until somebody
restores it. `EditCode`, `EditBody` and `Restore` come from outside. A check that
times out or lacks its tool is "unavailable", at any time.

`moved`, `tried` and `reviewed` are history: whose files changed under it, which
bodies were tried on both sides (those that the initial records have locked
were), and which body a reconcile was for. Left out: identities, times and justifications, `list` and
`show`, `--dry-run`, `ratify` of an unreadable counterexample, id collisions by
letter case.

### How `AuthoringCheck` corresponds to the code

The hook is `run_authoring_check` as `_run_stop` calls it: `Load`, one
`StartThread` per check until the deadline (`StopSpawning` is the end of that
loop for any reason, running out of threads included), `Join` one thread after
the other with what is left of the budget, `Collect` under the lock. A thread
reads the clock, asks `Slice` (`_per_check`) what is left for its command less the
margin, starts it, and records the outcome; `Timeout` kills the process group and
`Reaped` ends the wait for it. `FailOpen` is an exception before anything was
started. `Tick` does not pass a timer that is due, so timers are punctual;
scheduling is not, except for `Latency`, the time between reading the clock and
starting the command, which must be less than the margin (`LatencyAssumption`).
The docstring says that commands end before the deadline "regardless of
scheduling delay"; that holds of the delay before the clock is read only.

## Runs

| Run | Shows | Bounds |
| --- | --- | --- |
| `LifecycleReview` | working states have an approval; ready code is reviewed; delivery never over an unresolved candidate; epochs start clean; what completes was verified, a review moves only what it reviewed | 2 invocations, 1 plan text, 1 plan and 1 code conclusion with any decision, subject and supersession on 1 tree, and on 2 trees within `Explored` |
| `LifecyclePlans` | approvals are evidenced and linked, the folds agree | 2 invocations, 2 plan conclusions in a chain, streams begun before evidence too |
| `EventStore` | refinement of `EventLog`; own writes are read; the cache only advances | 3 commands, 3 rival batches, kills |
| `StoreFaults` | every command ends | 2 commands, 1 rebuild, short writes, kills |
| `VerificationRun` | verdict and report do not depend on the schedule; the tree is at rest when compared; every run ends | 3 checks, 0 to 2 workers, both modes, fail-fast on and off, every choice of must_pass |
| `Attestation` | the merge gate takes what the writer brought to readiness, and merges only what is vouched for | 1 invocation, 1 plan and 1 approving code conclusion, 2 trees, audit events, a copy at any moment |
| `Enforcement` | one host, named by its pid file; documents are recorded, once; edits follow the gate; the author can always move | 2 hosts, 2 terminals for each kind of command, 2 changes, 6 agendas |
| `Knowledge` | the ledger replays, answers are true, one version in force; merges honour obligations, impacts stand, CI accepts a checkpoint only where obligations are honoured | 2 versions of one identity, 2 callers, 2 changes, 1 change set, 15 operations in 8 agendas of 3 to 9 events |
| `Installation` | one writer unless a lock was raced; the user's settings survive; adapters listed are hooked; AGENTS.md keeps its anchor; sync restores; every command ends | 2 agents, 1 framework and plain, 2 to 4 commands in a row or overlapping, 9 agendas |
| `Decisions` | what is locked was tried; an undisturbed clean check conforms | 2 decisions, 2 files, 2 terminals, 3 agendas of 3 or 4 commands and 1 or 2 edits |
| `AuthoringCheck` | no command outlives the hook; the hook returns | 3 checks, a budget of 8, margin and least slice of 2, a latency of 1 |
| `LateConclusion` | what the documents say and the code does not keep (below) | as small as the counterexample needs |

Why the bounds are enough. A race needs one command that read and one that wrote
in between; two invocations, each restarting as often as it likes, give every
such pair, and commands that only emit add a third actor at any moment. Two plan
conclusions give an approval, a revision and its own approval or rejection. Two
trees are the code that was tested and the code that was not. Evidence ids are
used up, which bounds every lifecycle run without a counter.
`Explored`, the constraint of `LifecycleReview`, leaves out nothing as long as
nothing speaks of another tree than the committed one; once something does, it
keeps first approvals and those overlaps in which one command imports a code
conclusion. Two invocations that overlap otherwise while there are two trees, and
a second tree beside rejections and supersessions, are left to the proofs. Symmetry over invocations, callers
and trees is used for safety only. `StoreFaults` uses no symmetry, and one batch
submitted twice, since the short writes multiply the log's contents.

For the decisions, one command that is overtaken, the one that overtakes it and
one that looks afterwards are three; a successor made, ratified and handed over
to, and a check, are four. A body of every kind there
is, and two contents that a check tells apart. Three threads on a budget of four
least slices are one that has time, one that has just enough or just too little,
and one that comes when it is over.

Three checks on two workers are one more than run at once: one is in the queue
while one is collected and one runs, which is what fail-fast, cancellation and
the exit of the pool are about; one worker and none are the other two cases.

*Agendas.* The later modules have many actors, and most combinations of them
have nothing to do with one another. An agenda, chosen in the initial state, says
what the parties of one behaviour set out to do: which commands are run, by how
many, which files are edited, whether things fail. Within it every order and
overlap is explored. The modules do not depend on which agendas there are (they
are a constant), the `MC` modules list them, each with what it is about, and the
theorems hold for all of them. The lengths in them bound the events or commands
of a behaviour: two overlapping transactions and a third that finds what they
left; a declaration, a plan, its rejection and its successor.

`Explored`, the constraint of `Attestation`, leaves out what follows in a stream
that an audit event began, after an abandonment, after a copy that cannot verify
and after another commit on a merged tree, and revisions of the approved plan.
`MergesAreVouched` is also proved, without it.

The agendas of `Knowledge` are long enough for what its properties are about: a
reapproval is asked for, the revision approved, the code verified, frozen and
reviewed again, the reapproval recorded as carried out and the change merged, or
its checkpoint accepted; the coverage is replaced after the code is frozen, by one
that a constraint no longer covers ("continue" with a narrowed version) or by one
that brings a constraint in; a challenge is answered by an adjustment and
merged. Each of these was seen to be reached. `Knowledge`'s `VIEW` takes a
record file that expects an older revision, and so can only ever be refused, for
none.

`Lifecycle` and `Attestation` are checked for deadlock; the others are not, as
their commands end, or their agenda does.

Fairness. `Lifecycle`, `Attestation` and `Knowledge` have none: no command has to
be run, and nothing but safety is claimed of them. `EventStore`'s `FairSpec` is
weak fairness of a started process' own steps, of `LockEvents` and `LockState`
too: each command emits once, so a lock is not taken over and over, and an
operating system grants a blocking lock that stays free. `Emit`, `Rebuild` and
`Crash` are not fair. `VerificationRun`'s is weak fairness of the sensor, of each
check and of the dispatcher's answer: threads are scheduled, and `run_command`
bounds a check, its killing and the wait after it by timeouts. The dispatcher's
own timeout is not fair: `CommandEnds` does not rely on it. `Enforcement`'s is
weak fairness of a watching host's own threads, `Notified`, `EmitScanned` and
`RefreshScanned`: a host waits for nothing but the event lock, which every holder
gives back (`CommandsEnd` of `EventStore`). `Installation`'s is weak fairness of
a running command's next step: it never blocks, for the settings' lock is either
free, removed or a refusal, and it may crash at any time. `AuthoringCheck`'s is weak fairness of the hook, of the
clock, and of each thread's timer and start; a thread may never be scheduled and
a command never end, and `HookReturns` does not need either. `Decisions` has none.
Lifecycle liveness ("an
approved change can be merged") depends on people and is not claimed.

## Where code and documents disagree

Shown by a run:

* **A late conclusion reactivates a withdrawn revision** (`LateConclusion`).
  `review import` looks at the candidate's status before it emits; a `plan
  withdraw` in between is not noticed by the validator's `plan_rejected` arm, and
  the candidate is rejected, hence unresolved, again. `plan_approved` is guarded.

Stated as a definition that TLC refutes when it is added to a run's
configuration, but not kept as a run:

* *Audit events are refused* (`AuditEventsAreRecorded`, in `LifecycleReview`).
  `skip_validation` is refused on every stream with an approval, a candidate or
  frozen code, so bypasses, their disclosure, sensor crashes and timeouts leave
  no trace there.
* *A merge may rest on the verification of other code*
  (`MergeUsesItsOwnVerification`, in `LifecycleReview`). The reviewed code was
  verified when it was completed, but a later `verify` of another commit replaces
  that record and the writer's merge asks only whether it passed. The merge gate
  in CI does compare: `MergesAreVouched`.
* *A rebuild can put an older cache back* (`QuietCacheIsCurrent`, in `EventStore`
  with a process in `Rebuilders`).
* *A short write is taken for a whole one* (`ReturnedIsRecorded`, in `EventStore`
  with `ShortWrites = TRUE`), and the unfinished line swallows the next command's
  first event.
* *A host may yield to nobody* (`HostsYieldToHosts`, in `Enforcement`). A probe's
  shared lock makes a starting host exit as if another had won
  (`daemon/server.py`, "another host won the race").
* *Two processes may write the settings at once* (`OneWriter`, in `Installation`).
  A dead owner's lock is inspected and then removed by name, so two that inspected
  it remove each other's new lock (`_settings_merge.py:164`, "under an exclusive
  sibling lock"). `OneWriterUnlessRaced` is what does hold.
* *The last framework's removal leaves no place for another*
  (`FrameworkSlotAnchored`, in `Installation`; docs/adapters/plain.md:110, "falls
  back to the init-time anchor"). `adapter install plain` then adds nothing and
  says nothing, where docs/adapters/openspec.md:45-50 recommends it; `sync` helps.
* *An uninstall can put keepsail's hooks back* (`UninstallUnhooks`, in
  `Installation`). A first install that creates the settings file makes no
  backup; after keepsail has moved, the next one backs up the hooks of the first,
  and that is what the uninstall restores, where docs/adapters/claude-code.md:180
  has "the truly pristine pre-install copy".
* *A superseded or retired decision comes back* (`TerminalStays`, in `Decisions`;
  docs/plans/2026-06-08-decision-records-anchors-design.md:132). `supersede` and
  `retire` look at no status of the old record; a decision superseded by itself is
  written back as it was read, in force. The property also fails when a slow
  `reconcile` overwrites a retirement.
* *A reworded criterion keeps its review* (`RatifiedCriterionIsRouted`, in
  `Decisions`; docs/plans/2026-06-20-tier-2-reviewable-anchors-design.md:188).
  `ratify` leaves the baseline of the old wording, where the design has a ratified
  criterion suspect until it is reconciled.
* *A betrayed decision is not suspect* (`BetrayedIsRouted`, in `Decisions`;
  `cli/decision.py:227`, "D stays suspect"). The betrayal is recorded and never
  read: only drift makes a decision suspect.
* *A check that cannot run bites* (`LockedCheckBites`, in `Decisions`;
  `core/check_runner.py:220`). In the sandbox of the bite-test a timeout or a
  missing tool counts as the failure that is to prove the check.

Noted while modelling, without a definition, because no document decides them or
the models leave the detail out:

* Lifecycle. A rejection of code that is already ready to merge is refused
  together with its evidence; a conclusion recorded as history can never be
  imported again, even if its subject has become current meanwhile; a
  superseding rejection leaves the approval in force; assessments and coverage
  outlive a redeclaration; `verify` on a dirty tree passes for the commit below
  it; a verification of one layer counts like a full one; a race may leave an
  orphan `verification_passed`.
* Attestation. A bypass recorded before the stream came under the evidence-backed
  contract can no longer be disclosed, since the disclosure is refused, and blocks
  the merge gate for good; an audit event recorded before the declaration puts the
  stream out of order for good; a copy made before a reopening goes on verifying;
  a revision submitted when the code is ready blocks the gate until concluded; a
  change that changes no path is completed by the writer and refused by the gate
  for good, hence the premise of `GateTakesReadyCode`.
* Knowledge. "continue" may choose a version that is out of force
  (`core/knowledge.py:688`); such a delivery has no trigger whose approval could
  be kept, and `ImpactsStand` speaks of versions delivered in force. The writer
  merges code whose frozen knowledge basis is out of date, where the coverage was
  replaced after freezing and delivered anew (`core/knowledge.py:1026` compares
  deliveries with the current basis only), while the gate refuses its checkpoint.
* Host. `observe stop` reports "stopped" when the pid file is blank or names a
  process that is gone, though a host may be starting; `observe start` may answer
  with the pid of a predecessor; a new host does not scan what was written before
  it watched.
* Observer. `plan_ready` is emitted once per change, so a revised plan after a
  rejection is not announced, and a scan whose reading of the log is old can
  resubmit a plan that was rejected meanwhile; an OpenSpec plan recorded without
  artifacts cannot be revised through the gate (docs/limitations.md:85-94).
* Settings. A crash between a backup's creation and its writing leaves an empty
  backup, which the next uninstall restores; backups are
  never deleted, so an uninstall drops what the user saved after the first
  install; `adapter uninstall` handles only `OSError`.
* Decisions. A command that writes a record back undoes whatever was done to it
  since it was read, an owner's edit included; `check` loads the records twice, so
  an edit in between has it run a body nobody ratified, where `run_one_check` asks
  for a locked one; a `supersede` killed between its writes leaves the successor
  without its link.
* Installation. `adapters.yaml` and `verification.yaml` are read and written back
  without a lock; `sync` puts plain's block back beside a framework's; `init
  --force` drops the framework's checks while `adapters.yaml` keeps the framework;
  decisions to create or overwrite a GitHub file are applied without reading it
  again, while appending is guarded.

## Proofs

TLAPS checks every theorem for every value of the constants that meets the named
assumptions. These are of four kinds:

* sentinels: `None` (or `Torn`, `Partial`) is none of the values it stands
  beside (`NoneAssumption`, `NoneIsDistinct`, `SnapshotIsNotNone`, `VersionAssumption`), `Plain` is no
  agent (`AdapterAssumption`), hosts are no terminals (`HostAssumption`);
* shapes: conclusions are well-typed, batches are not empty
  (`LifecycleAssumption`, `StoreAssumption`), operations have one of the forms
  there are (`OperationAssumption`), a body has a tier (`BodyAssumption`), an
  agenda asks for files there are, or begins with versions in force that fit
  together (the `AgendaAssumption`s, `ChangeAssumption`);
* bounds are numbers (`TimeAssumption`, `BoundAssumption`, `SavesAssumption`,
  `RunAssumption`);
* two that say something of the surroundings: a thread is held up for less than
  the margin between its clock and its command (`LatencyAssumption`), and the
  owner's scratch patterns leave a change a path for its plan
  (`PlanAssumption`), without which an author could not write it at all.

**Lifecycle.** `Lifecycle_proofs` assumes
`LegacyStreams = FALSE` (streams begun under the evidence-backed contract; older
ones have approvals without evidence and are only model-checked). Proved are
`TypeOK`, `AuthorityBacksWork`, `ApprovalIsEvidenced`, `ReadyCodeIsReviewed`,
`FrozenCodeFollowsApproval`, `CandidateFollowsApproval`, `FoldsAgree`, and the
action properties `ApprovalsAreLinked`, `CompletionIsVerified`,
`EpochStartsClean`, `DeliveryIsUnambiguous` and `ReviewsFrozenCode`. No run checks
`FrozenCodeFollowsApproval` and `CandidateFollowsApproval` by themselves; nor does
one check `FailFastStops` of `VerificationRun`, a theorem as well.

None of the invariants is inductive. That frozen code follows the approval needs
to know that an approval is in force in every working state and in none before;
that ready code is reviewed needs it for the frozen code, and so on; all of them
need to know what batches are under way, because the writer checks only part of
what an event claims. `IInv` collects this:

* `Sound(cs)`: the two folds agree; an approval is in force exactly in the
  working states, or in an abandoned change, and is evidenced; a candidate
  departs from the approval in force; frozen code is bound to it; ready code has
  its approving review in the log;
* `JobsAreEmittable`: whatever a command holds, its batch consists of events a
  command can form (a revision names one approval twice, an approval's evidence
  is about its subject, nobody emits the retired events);
* an approval is only in force once recognition is active.

The argument goes from the table upwards: `Targets` says what a transition can
lead to, `Applied` what applying an event does to each field, `SoundApply` that
an accepted event keeps a sound change sound, `SoundBatch` the same for one or
two events, `SoundAudit` for audit events; `Inductive` has one step per action.
TLC finds no violation of `IInv` when it is added to `LifecycleReview`.

The action properties need two things more, because the writer does not compare
everything: a code conclusion's subject with the frozen one, and the id of an
approval with the one it departs from. `StepInv` adds that a conclusion always
rides in one batch behind the evidence it concludes from (`Riding`), which the
writer does compare, and that no approval departs from itself
(`DepartsElsewhere`), which holds as an evidence id is never used twice.

**Attestation.** `AttInv` adds to `IInv` that a passed verdict in force is vouched
for, in the log as in the copy (`Backed`), and that the copy's conclusions are in
the log (`Within`). From it `MergesAreVouched`, however old the copy. `Agrees`
says that what the gate reads off the lines is what they derive to: they are in
order until the change has ended, the milestones that a state stands for are
among them, and the last review of ready code is the one that approved its frozen
subject. With `IInv` this is every condition of the gate but the ones
`GateTakesReadyCode` has as premises (no undisclosed bypass, the verified code is
at head, no candidate is open, the coverage holds what changed).

**Store.** `LogIsLocked` is mutual exclusion of the writers, with the staged copy
equal to the log until the append, under every fault; from it, with
`ShortWrites = FALSE`, `EventStore` implements `EventLog` for any number of
commands and any `Legal`. `CacheInv` adds who holds the other lock, that the cache
and whatever is about to replace it are ever longer prefixes of the log, and where
a command's own events have come to; from it, with `Rebuilders = {}` too,
`ReadYourWrites` and `CacheOnlyAdvances`. Both assumptions are needed (see above).

**Verification.** The verdict is computed from collected results only; that it is
right for the dropped ones needs to know how collecting can have ended: with all
of them, or with a fatal failure as the last (`Progress` of `RunInv`). That the
tree is settled needs the queue empty when the pool is left, and in sequential
mode that only the check in turn can be running (`AtRest`).

**Enforcement.** `HostInv` (one holder; a file that was opened exists; a named
host is the one the file names) gives `PidNamesHost` and that two hosts never
hold the lock together. `AgentInv` gives `ClearanceStands`: what the gate cleared
is allowed by the log itself, as long as nothing overtook it. `LogInv` types what
log, cache, commands and scans carry: dates within the agenda, artifacts that are
plans of their change. `EditsFollowTheGate` speaks of the step in which the edit
lands, and of the active change as a live one than which none has a later event;
that there is one (`ActiveIsLatest`) takes a minimal element of a well-founded
relation. `AuthorCanMove` follows from `LogInv` and `PlanAssumption`: the table's
own states let product files through, and where they do not, the plan to write or
a recorded artifact to revise is a path the gate allows.
`HostsRecordOnce` rests on `StillMissing`: what a host has left to emit is missing
from the log, because hosts alone record such documents, the one that scans holds
the lock (`OneHolder`), and it emits nothing twice. `ClientInv` places each
command, for `TypeOK`.

**Knowledge.** `LedgerInv` says that the ledger has applied every operation in the
log, that a command holds what its caller's record file asks for, and that the
versions in force fit what they superseded; it gives `LedgerReplays`,
`AnsweredIsRecorded` and `OneVersionInForce`. The first is inductive only
because an append is validated on the revision it was prepared on. `KnowInv` adds
what is traced: each challenge, and each version that was delivered in force and
is so no longer, has the approval under which it was triggered captured (`Traced`).
What is captured once is captured anew only when something else of the identity
changes (`CapturedStands`), so an impact disposed of remains the same impact:
`ImpactsStand`. It also says that an operation disposes of one impact, that what
was verified of a reapproval is code of another approval than the one its trigger
met (`Executed`), and that frozen code is of the approval in force
(`ChangeTyped`): with these an impact that is resolved for the writer, who does not
look at the approval when merging, has been carried out under a new one
(`ResolvedIsCarriedOut`). `MergeHonoursKnowledge` and `GateHonoursKnowledge` have one lemma
in common, `SettledIsHonoured`: where nothing is blocked and the delivery is
exact, each matching version is supplied or judged, each challenge and each
version gone out of force has a disposition that was carried out. The writer and
CI establish its premises by rules of their own, and each proof starts from one
set of them.

**Installation.** `DocInv` says that also a version of AGENTS.md that a command
holds and has not written yet is anchored, which is why overlapping rewrites do no
harm: `AgentSlotAnchored`. `LockInv` says that whoever is past the lock has created
the one there is, unless a lock was removed by mistake, and that whoever is about
to remove one has seen its creator dead: `OneWriterUnlessRaced`. `InstInv` adds
whose step a transaction is (`Engaged`) and that, past the comparison and under
the lock, the file is what the plan read (`Planned`); the replacement then keeps
the user's part: `InstallKeepsUserSettings`. That a command's steps follow upon
one another (`Follows`) has to hold of every rest of every list of steps: hooks
come before the entry that registers them, and with the entry a command is about
to write (`Told`), commands that run alone (`Queued`) leave every registered agent
with its hooks, or one cut short on the way out: `HookInv`, hence
`RegisteredIsHooked`.

**Decisions.** A lock on a check is on a body that was tried on both sides; that
is inductive once it is also said of the records that commands have read and will
write back, since a slow writer may restore an old record (`Earned`, `LockInv`):
`LockedTextWasTried`. For `CleanCheckConforms`, `SeenInv` follows an undisturbed
`check` through its stages: what it loaded is what the files say, what it found
consistent or reconciled is so, and of the armed checks each has passed or is yet
to run (`Seen`). Nothing is said of a check whose files changed while it ran.

**AuthoringCheck.** `CheckInv`: the timeout of what a thread is about to start or
has started is due before the deadline (`DueInTime`, which needs the margin), and
whom the hook has joined has ended or the deadline is there (`Awaited`). When it
returns, it has joined everyone it started: `NoOrphans`. From the deadline on, even
before the hook has returned, no command is about to start or runs
(`NoCommandRunsPastTheDeadline`). How long a killed process takes to be reaped is
bounded by nothing in the code, so neither theorem says that a command has been
reaped: a thread may still be reaping when the hook returns.

In the modules with proofs the type invariants are theorems too, all of them
(`TypeCorrect`, `AttestationTypeCorrect`).

Only model-checked is what is out of the prover's reach. Liveness: `CommandsEnd`
of `EventStore` and of `Installation`, `CommandEnds`, `HookReturns`,
`DocumentsAreRecorded`; and `SyncConverges` of `Installation`, an action property,
which says what the fold over the list of adapters comes to, and so needs
induction over data. What a recursive definition computes for every input cannot
be proved for the same reason; the modules avoid such definitions, or keep them
out of theorems. Streams begun before the evidence-backed contract are
only model-checked, in `LifecyclePlans`.

## Not modelled

`PROJECT.json` has a status and a note for each component. In short:

* *Document checks* (`core/doc_check.py`, `doc_refs.py`): pure scans of files; they
  keep no state between calls, and what they report is the wording of the files.
* *Review runs, rounds and budgets*: retired; their commands only print, their
  events are members of the informational set.
* *Reports, status, formatting, the setup wizard*: read-only views and prompts;
  what the wizard decides is chosen freely in `Installation`.
* *Check selection and configuration*: layers, `--check`, interpolation, the
  baseline checks. The configuration is read by the command, by the runner and
  once more for the digest; a change in between is not modelled.
* *Several sensors in one batch, several attestations in one pull request, policy
  files*: one sensor, one attestation and recognition are modelled.
* *The Windows branches* of the locks and of process control.
* *Shapes*: a malformed record, event or file is refused and changes nothing.

Worth doing next: the configuration's three reads in `VerificationRun`; a
composition of `Knowledge` with `Lifecycle`, which now agree only by what each
keeps of the other; the lifecycle's theorems for streams begun before evidence.
