----------------------------- MODULE EventStore -----------------------------
(***************************************************************************)
(* The two files every keepsail command writes, step by step:              *)
(* .harness/events.jsonl through EventWriter.emit_many (core/writer.py),   *)
(* and the state.yaml cache through refresh_state_after_emit (core/        *)
(* post_emit.py) and write_state_yaml (core/state_yaml.py).  Readers that  *)
(* decide on the cache, such as the pre-tool-use gate, take no lock.       *)
(*                                                                         *)
(* A command emits one batch, refreshes the cache and returns; it can be   *)
(* killed between any two steps.  `keepsail state rebuild` rewrites the    *)
(* cache without the lock.  Events are opaque: which of them may follow a  *)
(* log is the constant Legal, worked out in EmitValidation.  Locks are     *)
(* advisory locks of the operating system: a killed process leaves none    *)
(* behind.                                                                 *)
(***************************************************************************)
EXTENDS Naturals, SequencesExt

CONSTANTS
  Procs,          \* commands, each of which emits once
  Rebuilders,     \* those of them that are `keepsail state rebuild`
  ShortWrites,    \* whether a write may stop early, as on a full disk
  Events,
  Batches,        \* what one command appends together: one or two events
  Legal(_, _),
  Partial,        \* a file that is being written
  None

ASSUME StoreAssumption ==
  /\ Rebuilders \subseteq Procs
  /\ ShortWrites \in BOOLEAN
  /\ Batches \subseteq Seq(Events) \ {<<>>}
  /\ Partial \notin Seq(Events)
  /\ None \notin Procs
  /\ None \notin Seq(Events) \cup {Partial}

VARIABLES
  file,           \* events.jsonl: the events that parse, and how it ends
  eventsLock,     \* .events.lock
  stateLock,      \* .state.lock
  yaml,           \* state.yaml: the log it was derived from
  tmp,            \* state.yaml.tmp, None when there is no such file
  pc,
  batch,          \* what a command is to append
  copy,           \* its staged copy of events.jsonl
  derived,        \* the log its reducer replayed
  handle          \* which file its open temporary file has become

store == <<file, eventsLock, stateLock, yaml, tmp>>
vars == <<file, eventsLock, stateLock, yaml, tmp, pc, batch, copy, derived,
          handle>>

\* events.jsonl, as its readers replay it: lines that do not parse are skipped
\* wherever they stand, so only the last line matters besides the events.  It
\* may have ended in a newline ("whole"), may be an event without one, or a
\* fragment of one.
File == [events : Seq(Events), tail : {"whole", "event", "fragment"}]

EmptyFile == [events |-> <<>>, tail |-> "whole"]

\* The events left when something is glued to the last line.
Glued(f) == IF f.tail = "event" THEN Front(f.events) ELSE f.events

\* Appending whole lines, of which an unfinished last line spoils the first.
Appended(f, lines) ==
  IF lines = <<>>
    THEN f
    ELSE [events |-> IF f.tail = "whole"
                       THEN f.events \o lines
                       ELSE Glued(f) \o Tail(lines),
          tail |-> "whole"]

\* Appending a piece of a line, or a line without its newline.
AppendedFragment(f) == [events |-> Glued(f), tail |-> "fragment"]
AppendedUnended(f, line) ==
  IF f.tail = "whole"
    THEN [events |-> Append(f.events, line), tail |-> "event"]
    ELSE AppendedFragment(f)

TypeOK ==
  /\ file \in File
  /\ eventsLock \in Procs \cup {None}
  /\ stateLock \in Procs \cup {None}
  /\ yaml \in Seq(Events) \cup {Partial}
  /\ tmp \in Seq(Events) \cup {Partial, None}
  /\ pc \in [Procs -> {"idle", "lock", "stage", "validate", "append",
                       "unlock", "lockState", "derive", "open", "flush",
                       "replace", "unlockState", "returned", "refused",
                       "failed", "dead"}]
  /\ batch \in [Procs -> Batches \cup {<<>>}]
  /\ copy \in [Procs -> File]
  /\ derived \in [Procs -> Seq(Events)]
  /\ handle \in [Procs -> {"none", "tmp", "yaml", "gone"}]

Init ==
  /\ file = EmptyFile
  /\ eventsLock = None
  /\ stateLock = None
  /\ yaml = <<>>
  /\ tmp = None
  /\ pc = [p \in Procs |-> "idle"]
  /\ batch = [p \in Procs |-> <<>>]
  /\ copy = [p \in Procs |-> EmptyFile]
  /\ derived = [p \in Procs |-> <<>>]
  /\ handle = [p \in Procs |-> "none"]

Goto(p, from, to) == pc[p] = from /\ pc' = [pc EXCEPT ![p] = to]

-----------------------------------------------------------------------------
\* EventWriter.emit_many

Emit(p) ==
  /\ p \notin Rebuilders
  /\ Goto(p, "idle", "lock")
  /\ \E b \in Batches : batch' = [batch EXCEPT ![p] = b]
  /\ UNCHANGED <<store, copy, derived, handle>>

\* A bug: the lock is not waited for.
LockEventsAnyway(p) ==
  /\ Goto(p, "lock", "stage")
  /\ eventsLock' = p
  /\ UNCHANGED <<file, stateLock, yaml, tmp, batch, copy, derived, handle>>

LockEvents(p) ==
  /\ Goto(p, "lock", "stage")
  /\ eventsLock = None
  /\ eventsLock' = p
  /\ UNCHANGED <<file, stateLock, yaml, tmp, batch, copy, derived, handle>>

\* Copy the log to the file the batch is validated on.
Stage(p) ==
  /\ Goto(p, "stage", "validate")
  /\ copy' = [copy EXCEPT ![p] = file]
  /\ UNCHANGED <<store, batch, derived, handle>>

\* Each event is validated on the copy, with the ones before it appended.
StagedLegal(f, b) ==
  \A i \in DOMAIN b :
    Legal(Appended(f, SubSeq(b, 1, i - 1)).events, b[i])

Validate(p) ==
  /\ \/ StagedLegal(copy[p], batch[p]) /\ Goto(p, "validate", "append")
        /\ UNCHANGED eventsLock
     \/ ~StagedLegal(copy[p], batch[p]) /\ Goto(p, "validate", "refused")
        /\ eventsLock' = None
  /\ UNCHANGED <<file, stateLock, yaml, tmp, batch, copy, derived, handle>>

\* What a write that stops early leaves: some whole lines, and perhaps a piece
\* of the next one.
Torn(f, b) ==
  UNION {LET whole == Appended(f, SubSeq(b, 1, n))
         IN  {whole, AppendedFragment(whole), AppendedUnended(whole, b[n + 1])} :
           n \in 0 .. Len(b) - 1}

\* One os.write of all the lines, whose count nobody looks at, and an fsync.
AppendLines(p) ==
  /\ Goto(p, "append", "unlock")
  /\ \/ file' = Appended(file, batch[p])
     \/ ShortWrites /\ file' \in Torn(file, batch[p])
  /\ UNCHANGED <<eventsLock, stateLock, yaml, tmp, batch, copy, derived, handle>>

UnlockEvents(p) ==
  /\ Goto(p, "unlock", "lockState")
  /\ eventsLock' = None
  /\ UNCHANGED <<file, stateLock, yaml, tmp, batch, copy, derived, handle>>

-----------------------------------------------------------------------------
\* refresh_state_after_emit

\* A bug: the lock is not waited for.
LockStateAnyway(p) ==
  /\ Goto(p, "lockState", "derive")
  /\ stateLock' = p
  /\ UNCHANGED <<file, eventsLock, yaml, tmp, batch, copy, derived, handle>>

LockState(p) ==
  /\ Goto(p, "lockState", "derive")
  /\ stateLock = None
  /\ stateLock' = p
  /\ UNCHANGED <<file, eventsLock, yaml, tmp, batch, copy, derived, handle>>

\* `keepsail state rebuild` does all that follows without the lock.
Rebuild(p) ==
  /\ p \in Rebuilders
  /\ Goto(p, "idle", "derive")
  /\ UNCHANGED <<store, batch, copy, derived, handle>>

\* derive_state, without the lock of the log.
Derive(p) ==
  /\ Goto(p, "derive", "open")
  /\ derived' = [derived EXCEPT ![p] = file.events]
  /\ UNCHANGED <<store, batch, copy, handle>>

\* A bug: the cache is rewritten in place.
OpenInPlace(p) ==
  /\ Goto(p, "open", "flush")
  /\ yaml' = Partial
  /\ tmp' = <<>>
  /\ handle' = [handle EXCEPT ![p] = "tmp"]
  /\ UNCHANGED <<file, eventsLock, stateLock, batch, copy, derived>>

\* write_state_yaml: open and truncate the one temporary name there is,
OpenTmp(p) ==
  /\ Goto(p, "open", "flush")
  /\ tmp' = Partial
  /\ handle' = [handle EXCEPT ![p] = "tmp"]
  /\ UNCHANGED <<file, eventsLock, stateLock, yaml, batch, copy, derived>>

\* write it out, to whatever that file is called by now,
Flush(p) ==
  /\ Goto(p, "flush", "replace")
  /\ tmp' = IF handle[p] = "tmp" THEN derived[p] ELSE tmp
  /\ yaml' = IF handle[p] = "yaml" THEN derived[p] ELSE yaml
  /\ handle' = [handle EXCEPT ![p] = "none"]
  /\ UNCHANGED <<file, eventsLock, stateLock, batch, copy, derived>>

\* and rename it; the rename of a file someone else has renamed raises.
Replace(p) ==
  /\ \/ /\ tmp # None
        /\ Goto(p, "replace", "unlockState")
        /\ yaml' = tmp
        /\ tmp' = None
        /\ handle' = [q \in Procs |->
             CASE handle[q] = "tmp" -> "yaml"
               [] handle[q] = "yaml" -> "gone"
               [] OTHER -> handle[q]]
        /\ UNCHANGED stateLock
     \/ /\ tmp = None
        /\ Goto(p, "replace", "failed")
        /\ stateLock' = IF stateLock = p THEN None ELSE stateLock
        /\ UNCHANGED <<yaml, tmp, handle>>
  /\ UNCHANGED <<file, eventsLock, batch, copy, derived>>

UnlockState(p) ==
  /\ Goto(p, "unlockState", "returned")
  /\ stateLock' = IF stateLock = p THEN None ELSE stateLock
  /\ UNCHANGED <<file, eventsLock, yaml, tmp, batch, copy, derived, handle>>

-----------------------------------------------------------------------------
Terminated == {"idle", "returned", "refused", "failed", "dead"}

\* A bug: lock files that a killed process leaves behind.
CrashKeepingLocks(p) ==
  /\ pc[p] \notin Terminated
  /\ pc' = [pc EXCEPT ![p] = "dead"]
  /\ handle' = [handle EXCEPT ![p] = "none"]
  /\ UNCHANGED <<store, batch, copy, derived>>

\* The process is killed between two steps; its locks go with it.
Crash(p) ==
  /\ pc[p] \notin Terminated
  /\ pc' = [pc EXCEPT ![p] = "dead"]
  /\ eventsLock' = IF eventsLock = p THEN None ELSE eventsLock
  /\ stateLock' = IF stateLock = p THEN None ELSE stateLock
  /\ handle' = [handle EXCEPT ![p] = "none"]
  /\ UNCHANGED <<file, yaml, tmp, batch, copy, derived>>

\* What a command goes on to do by itself once it has begun.
Step(p) ==
  \/ LockEvents(p) \/ Stage(p) \/ Validate(p) \/ AppendLines(p)
  \/ UnlockEvents(p) \/ LockState(p) \/ Derive(p) \/ OpenTmp(p) \/ Flush(p)
  \/ Replace(p) \/ UnlockState(p)

Next == \E p \in Procs : Emit(p) \/ Rebuild(p) \/ Step(p) \/ Crash(p)

Spec == Init /\ [][Next]_vars

\* A process that was started and not killed is scheduled, and a blocking lock
\* that stays free is granted.
FairSpec == Spec /\ \A p \in Procs : WF_vars(Step(p))

-----------------------------------------------------------------------------
\* The log every reader sees grows by whole batches that were legal at that
\* very point: staging, validation and append are one atomic step, whoever
\* else runs and whoever is killed (EventWriter.emit_many).
EL == INSTANCE EventLog WITH log <- file.events
ImplementsEventLog == EL!Spec

\* A command that returned finds its own events, and all before them, in the
\* cache, now and after whatever others do (refresh_state_after_emit).
ReadYourWrites ==
  \A p \in Procs \ Rebuilders :
    pc[p] = "returned" => /\ yaml # Partial
                          /\ IsPrefix(copy[p].events \o batch[p], yaml)

\* A reader that takes no lock never sees the cache go back to an older log,
\* nor half written (write_state_yaml).
CacheOnlyAdvances == [][yaml' # Partial /\ IsPrefix(yaml, yaml')]_yaml

\* Whatever a killed process leaves, every other command comes to an end: no
\* lock outlives its holder (exclusive_file_lock).
CommandsEnd ==
  \A p \in Procs : pc[p] # "idle" ~> pc[p] \in Terminated

-----------------------------------------------------------------------------
\* Claims that do not hold and that no run checks; README, Where code and
\* documents disagree, says how each fails.

\* Once every command has returned, the cache is that of the whole log:
\* state.yaml "never lags the event stream" (core/post_emit.py).
QuietCacheIsCurrent ==
  (\A p \in Procs : pc[p] \in {"idle", "returned", "refused"})
    => yaml = file.events

\* What a command emitted stays in the log: "fsync after each write - durable
\* on power loss" (core/writer.py).
ReturnedIsRecorded ==
  \A p \in Procs :
    pc[p] = "returned" => Range(batch[p]) \subseteq Range(file.events)

=============================================================================
