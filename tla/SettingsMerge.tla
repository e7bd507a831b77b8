---------------------------- MODULE SettingsMerge ----------------------------
(***************************************************************************)
(* An agent's local settings file, which keepsail shares with its user     *)
(* (adapters/agent/_settings_merge.py).  An install computes the merged    *)
(* file first and applies it later, under a sibling lock file that a crash *)
(* may leave behind; an uninstall restores the earliest backup.            *)
(*                                                                         *)
(* Hooks in the file are represented by the binary that keepsail's own     *)
(* entries name (ours) and by a version of everything else (user).         *)
(***************************************************************************)
EXTENDS Naturals, Sequences, FiniteSets

CONSTANTS
  Agents,     \* agents, each with a settings file
  Pids,       \* processes that change settings, each id used once
  Binaries,   \* places keepsail is installed at
  Saves,      \* how often the user saves a settings file
  Torn,       \* a file cut off in the middle: no JSON
  None

VARIABLES
  settings,   \* agent -> contents of the settings file
  backups,    \* agent -> backups in the order they were made, None when removed
  lock,       \* agent -> the lock file: who created it, the pid in it, its age
  proc,       \* process -> its settings transaction
  raced,      \* whether a lock was removed that another process had created
  touched     \* transactions whose file was saved after they checked it

settingsVars == <<settings, backups, lock, proc, raced, touched>>

Contents == [ours : Binaries \cup {None}, user : 0..Saves]
Files == Contents \cup {None, Torn}
Locks == [by : Pids, owner : Pids \cup {None}, aged : BOOLEAN]
ASSUME NoneAssumption ==
  /\ None \notin Locks \cup Contents \cup Binaries \cup {Torn, "ok"}
  /\ Torn \notin Contents
ASSUME SavesAssumption == Saves \in Nat \ {0}

Critical == {"check", "backup", "fill", "replace", "unlock"}
Stages == Critical \cup {"idle", "open", "judge", "break", "owner", "dead"}
Transactions ==
  [at : Stages, cmd : {None, "install", "uninstall"}, agent : Agents \cup {None},
   original : Files, desired : Files, saw : Locks \cup {None}, mark : Nat,
   result : {None, "ok", "refused"}]
Idle == [at |-> "idle", cmd |-> None, agent |-> None, original |-> None,
         desired |-> None, saw |-> None, mark |-> 0, result |-> None]

SettingsTypeOK ==
  /\ settings \in [Agents -> Files]
  /\ backups \in [Agents -> Seq(Files)]
  /\ lock \in [Agents -> Locks \cup {None}]
  /\ proc \in [Pids -> Transactions]
  /\ raced \in BOOLEAN /\ touched \subseteq Pids

SettingsInit ==
  /\ \E found \in SUBSET Agents :
       settings = [a \in Agents |->
                     IF a \in found THEN [ours |-> None, user |-> 1] ELSE None]
  /\ backups = [a \in Agents |-> <<>>]
  /\ lock = [a \in Agents |-> None]
  /\ proc = [p \in Pids |-> Idle]
  /\ raced = FALSE
  /\ touched = {}

-----------------------------------------------------------------------------
UserOf(file) == IF file = None THEN 0 ELSE file.user

\* plan_settings_merge: entries with the marker are replaced.
Merged(file, binary) == [ours |-> binary, user |-> UserOf(file)]

\* What stays when the entries with the marker are taken out.
Stripped(file) == IF file.user = 0 THEN None ELSE [file EXCEPT !.ours = None]

\* The user's editor works on the file as it is.
Saved(file) == [ours |-> IF file \in Contents THEN file.ours ELSE None,
                user |-> IF file \in Contents THEN file.user + 1 ELSE 1]

Move(p, stage) == proc' = [proc EXCEPT ![p].at = stage]
Finish(p, result) ==
  proc' = [proc EXCEPT ![p].at = "unlock", ![p].result = result]
Refuse(p) == proc' = [proc EXCEPT ![p] = [Idle EXCEPT !.result = "refused"]]
Alive(p) == proc[p].at # "dead"

\* A transaction as it starts: an install with the file it was planned on.
Install(a, original, binary) ==
  [Idle EXCEPT !.at = "open", !.cmd = "install", !.agent = a,
               !.original = original, !.desired = Merged(original, binary)]
Uninstall(a) ==
  [Idle EXCEPT !.at = "open", !.cmd = "uninstall", !.agent = a]

-----------------------------------------------------------------------------
\* The lock

\* O_CREAT | O_EXCL; whoever finds the file reads the owner in it.
OpenLock(p) ==
  LET a == proc[p].agent IN
  /\ proc[p].at = "open"
  /\ IF lock[a] = None
       THEN /\ lock' = [lock EXCEPT ![a] =
                          [by |-> p, owner |-> None, aged |-> FALSE]]
            /\ Move(p, "owner")
       ELSE /\ proc' = [proc EXCEPT ![p].at = "judge", ![p].saw = lock[a]]
            /\ UNCHANGED lock
  /\ UNCHANGED <<settings, backups, raced, touched>>

\* A bug: an owner is taken to be gone whatever its pid says.
JudgeAllDead(p) ==
  LET a == proc[p].agent
      saw == proc[p].saw
  IN  /\ proc[p].at = "judge"
      /\ Move(p, IF lock[a] # None /\ lock[a].owner = saw.owner
                   THEN "break" ELSE "open")
      /\ UNCHANGED <<settings, backups, lock, raced, touched>>

\* A lock whose owner lives, or that names none and is fresh, is respected; any
\* other may be removed, if it still reads as it did when it is read again.
Judge(p) ==
  LET a == proc[p].agent
      saw == proc[p].saw
      respected == IF saw.owner # None
                     THEN Alive(saw.owner)
                     ELSE lock[a] # None /\ ~lock[a].aged
  IN  /\ proc[p].at = "judge"
      /\ IF respected
           THEN Refuse(p)
           ELSE IF lock[a] # None /\ lock[a].owner = saw.owner
             THEN proc' = [proc EXCEPT ![p].at = "break", ![p].saw = lock[a]]
             ELSE Move(p, "open")
      /\ UNCHANGED <<settings, backups, lock, raced, touched>>

\* A bug: the lock stays.
BreakNothing(p) ==
  /\ proc[p].at = "break"
  /\ Move(p, "open")
  /\ UNCHANGED <<settings, backups, lock, raced, touched>>

\* The lock that is there now is removed, whosever it is.
Break(p) ==
  LET a == proc[p].agent IN
  /\ proc[p].at = "break"
  /\ lock' = [lock EXCEPT ![a] = None]
  /\ raced' = (raced \/ (lock[a] # None /\ lock[a].by # proc[p].saw.by))
  /\ Move(p, "open")
  /\ UNCHANGED <<settings, backups, touched>>

\* The owner is written into the file the process opened, linked or not.
WriteOwner(p) ==
  LET a == proc[p].agent IN
  /\ proc[p].at = "owner"
  /\ lock' = IF lock[a] # None /\ lock[a].by = p
               THEN [lock EXCEPT ![a].owner = p] ELSE lock
  /\ proc' = [proc EXCEPT ![p].at = "check", ![p].saw = None]
  /\ touched' = touched \ {p}
  /\ UNCHANGED <<settings, backups, raced>>

Unlock(p) ==
  LET a == proc[p].agent IN
  /\ proc[p].at = "unlock"
  /\ lock' = [lock EXCEPT ![a] = None]
  /\ raced' = (raced \/ (lock[a] # None /\ lock[a].by # p))
  /\ proc' = [proc EXCEPT ![p] = [Idle EXCEPT !.result = proc[p].result]]
  /\ UNCHANGED <<settings, backups, touched>>

-----------------------------------------------------------------------------
\* What is done under it

\* A bug: the file is not compared with the one the plan was made for.
ApplyUnchecked(p) ==
  /\ proc[p].at = "check" /\ proc[p].cmd = "install"
  /\ IF proc[p].desired = proc[p].original
       THEN Finish(p, "ok")
       ELSE Move(p, IF proc[p].original = None THEN "replace" ELSE "backup")
  /\ touched' = touched \ {p}
  /\ UNCHANGED <<settings, backups, lock, raced>>

\* apply_settings_merge_plan
CheckPlan(p) ==
  /\ proc[p].at = "check" /\ proc[p].cmd = "install"
  /\ \/ settings[proc[p].agent] # proc[p].original /\ Finish(p, "refused")
     \/ /\ settings[proc[p].agent] = proc[p].original
        /\ IF proc[p].desired = proc[p].original
             THEN Finish(p, "ok")
             ELSE Move(p, IF proc[p].original = None THEN "replace" ELSE "backup")
  /\ touched' = touched \ {p}
  /\ UNCHANGED <<settings, backups, lock, raced>>

\* A backup is there, and empty, before it is written.
CreateBackup(p) ==
  /\ proc[p].at = "backup"
  /\ backups' = [backups EXCEPT ![proc[p].agent] = Append(@, Torn)]
  /\ proc' = [proc EXCEPT ![p].at = "fill",
                          ![p].mark = Len(backups[proc[p].agent]) + 1]
  /\ UNCHANGED <<settings, lock, raced, touched>>

FillBackup(p) ==
  /\ proc[p].at = "fill"
  /\ backups' = [backups EXCEPT ![proc[p].agent][proc[p].mark] = proc[p].original]
  /\ Move(p, "replace")
  /\ UNCHANGED <<settings, lock, raced, touched>>

\* restore_or_remove_managed_hooks, up to what it writes.
PlanRemoval(p) ==
  LET a == proc[p].agent
      file == settings[a]
      kept == {k \in DOMAIN backups[a] : backups[a][k] # None}
      write(desired) == proc' = [proc EXCEPT ![p].at = "replace",
                                             ![p].desired = desired]
  IN  /\ proc[p].at = "check" /\ proc[p].cmd = "uninstall"
      /\ \/ \E k \in kept : (\A i \in kept : k <= i) /\ write(backups[a][k])
         \/ /\ kept = {}
            /\ CASE file = Torn -> Finish(p, "refused")
                 [] file = None -> Finish(p, "ok")
                 [] file \in Contents /\ file.ours = None -> Finish(p, "ok")
                 [] OTHER -> write(Stripped(file))
      /\ touched' = touched \ {p}
      /\ UNCHANGED <<settings, backups, lock, raced>>

\* os.replace of a complete temporary file, or unlink when nothing is left.
Replace(p) ==
  /\ proc[p].at = "replace"
  /\ settings' = [settings EXCEPT ![proc[p].agent] = proc[p].desired]
  /\ Finish(p, "ok")
  /\ UNCHANGED <<backups, lock, raced, touched>>

\* Any write may fail; the lock is given back, a half-made backup removed.
WriteFails(p) ==
  LET a == proc[p].agent IN
  /\ proc[p].at \in {"fill", "replace"}
  /\ backups' = IF proc[p].at = "fill"
                  THEN [backups EXCEPT ![a][proc[p].mark] = None] ELSE backups
  /\ Finish(p, "refused")
  /\ UNCHANGED <<settings, lock, raced, touched>>

-----------------------------------------------------------------------------
\* A process killed at any point leaves its lock and its backup as they are.
SettingsCrash(p) ==
  /\ proc[p].at \notin {"idle", "dead"}
  /\ proc' = [proc EXCEPT ![p] = [Idle EXCEPT !.at = "dead"]]
  /\ UNCHANGED <<settings, backups, lock, raced, touched>>

\* Five minutes pass; no live process takes that long from creating the lock
\* to writing its pid (_CORRUPT_LOCK_STALE_SECONDS).
Age(a) ==
  /\ lock[a] # None /\ lock[a].owner = None /\ ~lock[a].aged
  /\ ~Alive(lock[a].by)
  /\ lock' = [lock EXCEPT ![a].aged = TRUE]
  /\ UNCHANGED <<settings, backups, proc, raced, touched>>

UserSaves(a) ==
  /\ settings[a] \in Contents => settings[a].user < Saves
  /\ settings' = [settings EXCEPT ![a] = Saved(settings[a])]
  /\ touched' = touched \cup {p \in Pids : proc[p].agent = a
                                            /\ proc[p].at \in Critical}
  /\ UNCHANGED <<backups, lock, proc, raced>>

SettingsStep(p) ==
  \/ OpenLock(p) \/ Judge(p) \/ Break(p) \/ WriteOwner(p) \/ Unlock(p)
  \/ CheckPlan(p) \/ CreateBackup(p) \/ FillBackup(p) \/ PlanRemoval(p)
  \/ Replace(p)

-----------------------------------------------------------------------------
Writers(a) == {p \in Pids : proc[p].agent = a /\ proc[p].at \in Critical}

\* "under an exclusive sibling lock" (apply_settings_merge_plan).  By itself it
\* does not hold (README, Where code and documents disagree); what does is next.
OneWriter == \A a \in Agents : Cardinality(Writers(a)) <= 1

\* Two processes are in the file at once only after a lock was removed by one
\* that had inspected its predecessor: owners that live, and fresh locks that
\* name none, are respected (_acquire_settings_lock).
OneWriterUnlessRaced == raced \/ OneWriter

\* An install keeps what the user has in the file, whatever was saved and
\* installed between its plan and its turn at the lock; only a save in the
\* moment between the comparison and the replacement is lost
\* (apply_settings_merge_plan: a plan is "reviewed", then applied).
InstallStep ==
  \A p \in Pids :
    /\ proc[p].at = "replace" /\ proc[p].cmd = "install"
    /\ proc'[p].at = "unlock" /\ proc'[p].result = "ok"
    /\ ~raced /\ p \notin touched
    => UserOf(settings'[proc[p].agent]) = UserOf(settings[proc[p].agent])
InstallKeepsUserSettings == [][InstallStep]_settingsVars

\* An uninstall that succeeds leaves none of keepsail's hooks: the earliest
\* backup is "the truly pristine pre-install copy" (docs/adapters/
\* claude-code.md).  TLC refutes it and no run checks it (README, Where code
\* and documents disagree).
UninstallStep ==
  \A p \in Pids :
    proc[p].at = "unlock" /\ proc[p].cmd = "uninstall" /\ proc[p].result = "ok"
      /\ proc'[p].at = "idle" /\ ~raced /\ p \notin touched
      /\ settings[proc[p].agent] \in Contents
    => settings[proc[p].agent].ours = None
UninstallUnhooks == [][UninstallStep]_settingsVars

=============================================================================
