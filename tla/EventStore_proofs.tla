-------------------------- MODULE EventStore_proofs --------------------------
(***************************************************************************)
(* What holds of EventStore for every number of commands, every batch and  *)
(* every notion of a legal event: the lock makes staging, validation and   *)
(* append one step, so the log grows by legal batches only.                *)
(***************************************************************************)
EXTENDS EventStore, TLAPS

\* Steps a command takes while it holds the lock of the log.
Holding == {"stage", "validate", "append", "unlock"}

\* The lock of the log is held by exactly the command inside the critical
\* section, and its staged copy is still the log.
LogIsLocked ==
  /\ TypeOK
  /\ \A p \in Procs :
       /\ pc[p] \in Holding <=> eventsLock = p
       /\ pc[p] \in {"validate", "append"} => copy[p] = file
       /\ pc[p] # "idle" /\ p \notin Rebuilders => batch[p] \in Batches
       /\ pc[p] \in Holding \cup {"lock"} => p \notin Rebuilders
       /\ pc[p] = "append" => StagedLegal(file, batch[p])

\* With whole writes only, the log ends in a newline.
LogIsWhole == file.tail = "whole"

-----------------------------------------------------------------------------
LEMMA BatchType ==
  ASSUME NEW b \in Batches
  PROVE  b \in Seq(Events) /\ b # <<>>
BY StoreAssumption

LEMMA GluedType ==
  ASSUME NEW f \in File
  PROVE  Glued(f) \in Seq(Events)
BY DEF Glued, File, Front

LEMMA AppendedType ==
  ASSUME NEW f \in File, NEW lines \in Seq(Events)
  PROVE  Appended(f, lines) \in File
<1>1. CASE lines = <<>>
  BY <1>1 DEF Appended
<1>2. CASE lines # <<>>
  <2>1. Tail(lines) \in Seq(Events)
    BY <1>2
  <2>2. /\ Glued(f) \o Tail(lines) \in Seq(Events)
        /\ f.events \o lines \in Seq(Events)
    BY <2>1, GluedType DEF File
  <2> QED
    BY <1>2, <2>2 DEF Appended, File
<1> QED
  BY <1>1, <1>2

\* However little of a batch is written, the log stays one.
LEMMA TornType ==
  ASSUME NEW f \in File, NEW b \in Seq(Events), NEW g \in Torn(f, b)
  PROVE  g \in File
<1>1. PICK n \in 0 .. Len(b) - 1 :
        g \in {Appended(f, SubSeq(b, 1, n)),
               AppendedFragment(Appended(f, SubSeq(b, 1, n))),
               AppendedUnended(Appended(f, SubSeq(b, 1, n)), b[n + 1])}
  BY DEF Torn
<1> DEFINE whole == Appended(f, SubSeq(b, 1, n))
<1>2. SubSeq(b, 1, n) \in Seq(Events)
  OBVIOUS
<1>3. whole \in File
  BY <1>2, AppendedType
<1>4. b[n + 1] \in Events
  OBVIOUS
<1>5. AppendedFragment(whole) \in File
  BY <1>3, GluedType DEF AppendedFragment, File
<1>6. AppendedUnended(whole, b[n + 1]) \in File
  <2>1. whole.tail = "whole" =>
          /\ Append(whole.events, b[n + 1]) \in Seq(Events)
          /\ AppendedUnended(whole, b[n + 1])
               = [events |-> Append(whole.events, b[n + 1]), tail |-> "event"]
    BY <1>3, <1>4 DEF AppendedUnended, File
  <2>2. whole.tail # "whole" =>
          AppendedUnended(whole, b[n + 1]) = AppendedFragment(whole)
    BY DEF AppendedUnended
  <2>3. CASE whole.tail = "whole"
    <3>1. [events |-> Append(whole.events, b[n + 1]), tail |-> "event"] \in File
      BY <2>1, <2>3 DEF File
    <3> QED
      BY <2>1, <2>3, <3>1
  <2>4. CASE whole.tail # "whole"
    BY <2>2, <2>4, <1>5
  <2> QED
    BY <2>3, <2>4
<1> QED
  BY <1>1, <1>3, <1>5, <1>6

-----------------------------------------------------------------------------
LEMMA InitLocked == Init => LogIsLocked
<1> SUFFICES ASSUME Init PROVE LogIsLocked
  OBVIOUS
<1>1. EmptyFile \in File
  BY DEF EmptyFile, File
<1>2. TypeOK
  BY <1>1 DEF Init, TypeOK
<1> QED
  BY <1>2, StoreAssumption DEF Init, LogIsLocked, Holding

\* Mutual exclusion, and with it the staged copy, survives every step.
LEMMA StepLocked ==
  LogIsLocked /\ [Next]_vars => LogIsLocked'
<1> SUFFICES ASSUME LogIsLocked, [Next]_vars PROVE LogIsLocked'
  OBVIOUS
<1> USE StoreAssumption
<1>1. ASSUME NEW p \in Procs, Emit(p) PROVE LogIsLocked'
  BY <1>1 DEF LogIsLocked, TypeOK, Holding, Goto, store, Terminated, Emit
<1>2. ASSUME NEW p \in Procs, Rebuild(p) PROVE LogIsLocked'
  BY <1>2 DEF LogIsLocked, TypeOK, Holding, Goto, store, Terminated, Rebuild
<1>3. ASSUME NEW p \in Procs, LockEvents(p) PROVE LogIsLocked'
  BY <1>3 DEF LogIsLocked, TypeOK, Holding, Goto, store, Terminated, LockEvents
<1>4. ASSUME NEW p \in Procs, Stage(p) PROVE LogIsLocked'
  BY <1>4 DEF LogIsLocked, TypeOK, Holding, Goto, store, Terminated, Stage
<1>5. ASSUME NEW p \in Procs, Validate(p) PROVE LogIsLocked'
  <2>1. copy[p] = file /\ eventsLock = p
    BY <1>5 DEF LogIsLocked, Validate, Goto, Holding
  <2>2. CASE StagedLegal(file, batch[p])
    <3>1. /\ pc[p] = "validate" /\ pc' = [pc EXCEPT ![p] = "append"]
          /\ UNCHANGED <<store, batch, copy, derived, handle>>
      BY <1>5, <2>1, <2>2 DEF Validate, Goto, store
    <3>2. TypeOK'
      BY <3>1 DEF LogIsLocked, TypeOK, store
    <3> QED
      BY <2>1, <2>2, <3>1, <3>2 DEF LogIsLocked, TypeOK, Holding, store
  <2>3. CASE ~StagedLegal(file, batch[p])
    BY <1>5, <2>1, <2>3 DEF LogIsLocked, TypeOK, Holding, Goto, Validate
  <2> QED
    BY <2>2, <2>3
<1>6. ASSUME NEW p \in Procs, AppendLines(p) PROVE LogIsLocked'
  <2>1. file \in File /\ batch[p] \in Seq(Events)
    BY <1>6, BatchType DEF LogIsLocked, TypeOK, Holding, Goto, AppendLines
  <2>2. file' \in File
    BY <1>6, <2>1, AppendedType, TornType DEF AppendLines
  <2>3. \A q \in Procs \ {p} : pc[q] \notin Holding
    BY <1>6 DEF LogIsLocked, Goto, AppendLines, Holding
  <2> QED
    BY <1>6, <2>2, <2>3 DEF LogIsLocked, TypeOK, Holding, Goto, AppendLines
<1>7. ASSUME NEW p \in Procs, UnlockEvents(p) PROVE LogIsLocked'
  BY <1>7 DEF LogIsLocked, TypeOK, Holding, Goto, store, Terminated, UnlockEvents
<1>8. ASSUME NEW p \in Procs, LockState(p) PROVE LogIsLocked'
  BY <1>8 DEF LogIsLocked, TypeOK, Holding, Goto, store, Terminated, LockState
<1>9. ASSUME NEW p \in Procs, Derive(p) PROVE LogIsLocked'
  BY <1>9 DEF LogIsLocked, TypeOK, Holding, Goto, store, Terminated, Derive,
        File
<1>10. ASSUME NEW p \in Procs, OpenTmp(p) PROVE LogIsLocked'
  BY <1>10 DEF LogIsLocked, TypeOK, Holding, Goto, store, Terminated, OpenTmp
<1>11. ASSUME NEW p \in Procs, Flush(p) PROVE LogIsLocked'
  BY <1>11 DEF LogIsLocked, TypeOK, Holding, Goto, store, Terminated, Flush
<1>12. ASSUME NEW p \in Procs, Replace(p) PROVE LogIsLocked'
  <2>1. handle' \in [Procs -> {"none", "tmp", "yaml", "gone"}]
    BY <1>12 DEF LogIsLocked, TypeOK, Replace
  <2>2. yaml' \in Seq(Events) \cup {Partial}
    BY <1>12 DEF LogIsLocked, TypeOK, Replace
  <2>3. tmp' \in Seq(Events) \cup {Partial, None}
    BY <1>12 DEF LogIsLocked, TypeOK, Replace
  <2>4. /\ UNCHANGED <<file, eventsLock, batch, copy, derived>>
        /\ stateLock' \in {stateLock, None}
        /\ pc[p] = "replace"
        /\ \E to \in {"unlockState", "failed"} : pc' = [pc EXCEPT ![p] = to]
    BY <1>12 DEF Replace, Goto
  <2> QED
    BY <2>1, <2>2, <2>3, <2>4 DEF LogIsLocked, TypeOK, Holding
<1>13. ASSUME NEW p \in Procs, UnlockState(p) PROVE LogIsLocked'
  BY <1>13 DEF LogIsLocked, TypeOK, Holding, Goto, store, Terminated, UnlockState
<1>14. ASSUME NEW p \in Procs, Crash(p) PROVE LogIsLocked'
  BY <1>14 DEF LogIsLocked, TypeOK, Holding, Goto, store, Terminated, Crash
<1>15. CASE UNCHANGED vars
  BY <1>15 DEF LogIsLocked, TypeOK, vars, StagedLegal
<1> QED
  BY <1>1, <1>2, <1>3, <1>4, <1>5, <1>6, <1>7, <1>8, <1>9, <1>10, <1>11, <1>12, <1>13, <1>14, <1>15 DEF Next, Step

\* The lock of the log excludes: one command at most stages, validates and
\* appends, and it appends what it validated on the log as it still is
\* (EventWriter.emit_many).
THEOREM LogAlwaysLocked == Spec => []LogIsLocked
<1>1. Init => LogIsLocked
  BY InitLocked
<1>2. LogIsLocked /\ [Next]_vars => LogIsLocked'
  BY StepLocked
<1> QED
  BY <1>1, <1>2, PTL DEF Spec

\* The types of the store's state.
THEOREM TypeCorrect == Spec => []TypeOK
<1>1. LogIsLocked => TypeOK
  BY DEF LogIsLocked
<1> QED
  BY <1>1, LogAlwaysLocked, PTL

-----------------------------------------------------------------------------
\* Only one step writes the log.
LEMMA OnlyAppendsWrite ==
  ASSUME [Next]_vars
  PROVE  UNCHANGED file \/ \E p \in Procs : AppendLines(p)
<1>1. CASE Next
  BY <1>1
  DEF Next, Step, store, Emit, Rebuild, LockEvents, Stage, Validate,
      UnlockEvents, LockState, Derive, OpenTmp, Flush, Replace, UnlockState,
      Crash
<1>2. CASE UNCHANGED vars
  BY <1>2 DEF vars
<1> QED
  BY <1>1, <1>2

\* On a log that ends in a newline, staging a batch line by line judges it as
\* the abstract log does.
LEMMA StagedIsLegal ==
  ASSUME NEW f \in File, f.tail = "whole",
         NEW b \in Seq(Events), b # <<>>
  PROVE  /\ Appended(f, b) = [events |-> f.events \o b, tail |-> "whole"]
         /\ StagedLegal(f, b) => EL!LegalBatch(f.events, b)
<1>1. ASSUME NEW s \in Seq(Events)
      PROVE  Appended(f, s).events = f.events \o s
  <2>1. CASE s = <<>>
    BY <2>1 DEF Appended, File
  <2>2. CASE s # <<>>
    BY <2>2 DEF Appended
  <2> QED
    BY <2>1, <2>2
<1>2. \A i \in DOMAIN b : SubSeq(b, 1, i - 1) \in Seq(Events)
  OBVIOUS
<1>3. \A i \in DOMAIN b :
        Appended(f, SubSeq(b, 1, i - 1)).events = f.events \o SubSeq(b, 1, i - 1)
  BY <1>1, <1>2
<1>4. StagedLegal(f, b) => EL!LegalBatch(f.events, b)
  BY <1>3 DEF StagedLegal, EL!LegalBatch
<1> QED
  BY <1>4 DEF Appended

\* With whole writes, every step of the store is a step of the abstract log or
\* leaves it alone.
LEMMA StepRefines ==
  ASSUME ShortWrites = FALSE, LogIsLocked, LogIsWhole, [Next]_vars
  PROVE  LogIsWhole' /\ [EL!Next]_(file.events)
<1>1. CASE UNCHANGED file
  BY <1>1 DEF LogIsWhole
<1>2. ASSUME NEW p \in Procs, AppendLines(p)
      PROVE  LogIsWhole' /\ EL!Next
  <2>1. /\ batch[p] \in Batches
        /\ StagedLegal(file, batch[p])
        /\ file \in File
    BY <1>2 DEF LogIsLocked, TypeOK, AppendLines, Goto, Holding
  <2>2. batch[p] \in Seq(Events) /\ batch[p] # <<>>
    BY <2>1, BatchType
  <2>3. file' = Appended(file, batch[p])
    BY <1>2 DEF AppendLines
  <2>4. /\ Appended(file, batch[p])
             = [events |-> file.events \o batch[p], tail |-> "whole"]
        /\ EL!LegalBatch(file.events, batch[p])
    BY <2>1, <2>2, StagedIsLegal DEF LogIsWhole
  <2>5. file'.tail = "whole" /\ file'.events = file.events \o batch[p]
    <3>1. file' = [events |-> file.events \o batch[p], tail |-> "whole"]
      BY <2>3, <2>4
    <3> QED
      BY <3>1, Zenon
  <2>6. EL!AppendBatch(batch[p])
    BY <2>4, <2>5 DEF EL!AppendBatch
  <2> QED
    BY <2>1, <2>5, <2>6 DEF LogIsWhole, EL!Next
<1> QED
  BY <1>1, <1>2, OnlyAppendsWrite

\* The store implements the abstract log: for every number of commands, and
\* whoever is killed where, the log grows by whole batches that are legal at
\* the very point where they are appended - unless a write stops early.
THEOREM StoreImplementsLog ==
  ASSUME ShortWrites = FALSE
  PROVE  Spec => ImplementsEventLog
<1>1. Init => LogIsWhole /\ EL!Init
  BY DEF Init, LogIsWhole, EmptyFile, EL!Init
<1>2. LogIsLocked /\ LogIsWhole /\ [Next]_vars
        => LogIsWhole' /\ [EL!Next]_(file.events)
  BY StepRefines
<1>3. Spec => []LogIsLocked
  BY LogAlwaysLocked
<1> QED
  BY <1>1, <1>2, <1>3, PTL DEF Spec, ImplementsEventLog, EL!Spec

-----------------------------------------------------------------------------
\* The cache.
LEMMA PrefixMeans ==
  ASSUME NEW s \in Seq(Events), NEW t \in Seq(Events)
  PROVE  IsPrefix(s, t) <=> /\ Len(s) <= Len(t)
                            /\ \A i \in 1 .. Len(s) : s[i] = t[i]
<1>1. CASE Len(s) <= Len(t)
  <2> DEFINE u == SubSeq(s, 1, Len(s))
             v == SubSeq(t, 1, Len(s))
  <2>1. /\ u \in Seq(Events) /\ v \in Seq(Events)
        /\ Len(u) = Len(s) /\ Len(v) = Len(s)
        /\ \A i \in 1 .. Len(s) : u[i] = s[i] /\ v[i] = t[i]
    BY <1>1
  <2>2. u = v <=> \A i \in 1 .. Len(s) : s[i] = t[i]
    <3> HIDE DEF u, v
    <3>1. /\ u \in [1 .. Len(s) -> Events]
          /\ v \in [1 .. Len(s) -> Events]
      BY <2>1
    <3>2. u = v <=> \A i \in 1 .. Len(s) : u[i] = v[i]
      BY <3>1
    <3> QED BY <2>1, <3>2
  <2> QED BY <1>1, <2>2 DEF IsPrefix
<1>2. CASE ~(Len(s) <= Len(t))
  BY <1>2 DEF IsPrefix
<1> QED BY <1>1, <1>2

LEMMA PrefixReflexive ==
  ASSUME NEW s \in Seq(Events)
  PROVE  IsPrefix(s, s)
BY PrefixMeans

LEMMA PrefixTransitive ==
  ASSUME NEW s \in Seq(Events), NEW t \in Seq(Events), NEW u \in Seq(Events),
         IsPrefix(s, t), IsPrefix(t, u)
  PROVE  IsPrefix(s, u)
<1>1. /\ Len(s) <= Len(t) /\ \A i \in 1 .. Len(s) : s[i] = t[i]
      /\ Len(t) <= Len(u) /\ \A i \in 1 .. Len(t) : t[i] = u[i]
  BY PrefixMeans
<1>2. Len(s) <= Len(u) /\ \A i \in 1 .. Len(s) : s[i] = u[i]
  BY <1>1
<1> QED BY <1>2, PrefixMeans

LEMMA PrefixOfConcat ==
  ASSUME NEW s \in Seq(Events), NEW t \in Seq(Events)
  PROVE  IsPrefix(s, s \o t)
<1>1. /\ s \o t \in Seq(Events)
      /\ Len(s) <= Len(s \o t)
      /\ \A i \in 1 .. Len(s) : s[i] = (s \o t)[i]
  OBVIOUS
<1> QED BY <1>1, PrefixMeans

\* Steps a command takes while it holds the lock of the cache.
Refreshing == {"derive", "open", "flush", "replace", "unlockState"}
Written == {"unlock", "lockState", "derive", "open", "flush", "replace",
            "unlockState", "returned"}

\* Who holds that lock, and what the two files of the cache are meanwhile.
CacheIsLocked ==
  \A p \in Procs :
    /\ pc[p] \in Refreshing <=> stateLock = p
    /\ handle[p] = IF pc[p] = "flush" THEN "tmp" ELSE "none"
    /\ pc[p] = "replace" => tmp = derived[p]

\* The cache is that of an earlier log, earlier than the one about to take its
\* place.
CacheIsOld ==
  /\ yaml \in Seq(Events)
  /\ IsPrefix(yaml, file.events)
  /\ \A p \in Procs :
       pc[p] \in {"open", "flush", "replace"} =>
         IsPrefix(yaml, derived[p]) /\ IsPrefix(derived[p], file.events)

\* What a command appended, on the log it staged: it is in the log, then in
\* what the command derived, then in the cache.
Own(p) == copy[p].events \o batch[p]
OwnIsRead ==
  \A p \in Procs :
    /\ pc[p] \in Written => IsPrefix(Own(p), file.events)
    /\ pc[p] \in {"open", "flush", "replace"} => IsPrefix(Own(p), derived[p])
    /\ pc[p] \in {"unlockState", "returned"} => IsPrefix(Own(p), yaml)

CacheInv ==
  /\ LogIsLocked /\ LogIsWhole
  /\ CacheIsLocked /\ CacheIsOld /\ OwnIsRead

LEMMA OwnType ==
  ASSUME TypeOK, NEW p \in Procs
  PROVE  Own(p) \in Seq(Events)
<1>1. copy[p].events \in Seq(Events)
  BY DEF TypeOK, File
<1>2. batch[p] \in Seq(Events)
  <2>1. batch[p] \in Batches \/ batch[p] = <<>>
    BY DEF TypeOK
  <2>2. <<>> \in Seq(Events)
    OBVIOUS
  <2> QED BY <2>1, <2>2, BatchType
<1> QED BY <1>1, <1>2 DEF Own

LEMMA InitCache == Init => CacheInv
<1> SUFFICES ASSUME Init PROVE CacheInv
  OBVIOUS
<1>1. LogIsLocked
  BY InitLocked
<1>2. IsPrefix(<<>>, <<>>)
  <2>1. <<>> \in Seq(Events)
    OBVIOUS
  <2> QED BY <2>1, PrefixReflexive
<1>3. LogIsWhole /\ file.events = <<>>
  BY DEF Init, LogIsWhole, EmptyFile
<1>4. CacheIsLocked /\ OwnIsRead
  BY StoreAssumption DEF Init, CacheIsLocked, OwnIsRead, Refreshing, Written
<1>5. CacheIsOld
  BY <1>2, <1>3 DEF Init, CacheIsOld
<1> QED
  BY <1>1, <1>3, <1>4, <1>5 DEF CacheInv

\* Steps that leave the files of the cache, the log and what was derived alone.
LEMMA ElsewhereKeeps ==
  ASSUME CacheInv, LogIsLocked',
         UNCHANGED <<file, yaml, tmp, handle, derived>>,
         NEW p \in Procs, NEW to,
         pc' = [pc EXCEPT ![p] = to],
         pc[p] \notin {"open", "flush"}, to \notin {"open", "flush", "replace"},
         to \in Refreshing <=> stateLock' = p,
         \A q \in Procs \ {p} : stateLock' = q <=> stateLock = q,
         \A q \in Procs \ {p} : UNCHANGED <<copy[q], batch[q]>>,
         to \in Written =>
           /\ UNCHANGED <<copy[p], batch[p]>>
           /\ pc[p] \in Written
           /\ to \in {"unlockState", "returned"}
                => pc[p] \in {"unlockState", "returned"}
  PROVE  CacheIsLocked' /\ CacheIsOld' /\ OwnIsRead'
<1>1. DOMAIN pc = Procs
  BY DEF CacheInv, LogIsLocked, TypeOK
<1>2. /\ pc'[p] = to
      /\ \A q \in Procs \ {p} : pc'[q] = pc[q]
  BY <1>1
<1>3. CacheIsLocked'
  BY <1>2 DEF CacheInv, CacheIsLocked
<1>4. CacheIsOld'
  BY <1>2 DEF CacheInv, CacheIsOld
<1>5. OwnIsRead'
  <2>1. \A q \in Procs \ {p} : Own(q)' = Own(q)
    BY DEF Own
  <2>2. to \in Written => Own(p)' = Own(p)
    BY DEF Own
  <2>3. to \in {"unlockState", "returned"} => to \in Written
    BY DEF Written
  <2> QED BY <1>2, <2>1, <2>2, <2>3 DEF CacheInv, OwnIsRead
<1> QED BY <1>3, <1>4, <1>5

\* What one step of a store with whole writes and no unlocked rebuild does to
\* the cache.
LEMMA StepCache ==
  ASSUME ShortWrites = FALSE, Rebuilders = {}, CacheInv, [Next]_vars
  PROVE  /\ CacheInv'
         /\ yaml' \in Seq(Events) /\ IsPrefix(yaml, yaml')
<1>1. LogIsLocked' /\ LogIsWhole'
  BY StepLocked, StepRefines DEF CacheInv
<1>2. TypeOK /\ TypeOK' /\ yaml \in Seq(Events) /\ IsPrefix(yaml, yaml)
  BY <1>1, PrefixReflexive DEF CacheInv, LogIsLocked, CacheIsOld
<1> DEFINE Goal == /\ CacheIsLocked' /\ CacheIsOld' /\ OwnIsRead'
                   /\ yaml' \in Seq(Events) /\ IsPrefix(yaml, yaml')
<1>3. ASSUME NEW p \in Procs,
             \/ Emit(p) \/ LockEvents(p) \/ Stage(p) \/ Validate(p)
             \/ UnlockEvents(p) \/ LockState(p) \/ UnlockState(p)
      PROVE  Goal
  <2> DEFINE Moves(to) ==
          /\ pc' = [pc EXCEPT ![p] = to]
          /\ UNCHANGED <<file, yaml, tmp, handle, derived>>
          /\ pc[p] \notin {"open", "flush"}
          /\ to \notin {"open", "flush", "replace"}
          /\ to \in Refreshing <=> stateLock' = p
          /\ \A q \in Procs \ {p} : stateLock' = q <=> stateLock = q
          /\ \A q \in Procs \ {p} : UNCHANGED <<copy[q], batch[q]>>
          /\ to \in Written =>
               /\ UNCHANGED <<copy[p], batch[p]>>
               /\ pc[p] \in Written
               /\ to \in {"unlockState", "returned"}
                    => pc[p] \in {"unlockState", "returned"}
  <2>0. pc[p] \in Refreshing <=> stateLock = p
    BY DEF CacheInv, CacheIsLocked
  <2>1. ASSUME Emit(p) PROVE \E to : Moves(to)
    BY <1>2, <2>0, <2>1
    DEF Emit, TypeOK, Goto, store, Refreshing, Written
  <2>2. ASSUME LockEvents(p) PROVE \E to : Moves(to)
    BY <1>2, <2>0, <2>2
    DEF LockEvents, TypeOK, Goto, store, Refreshing, Written
  <2>3. ASSUME Stage(p) PROVE \E to : Moves(to)
    BY <1>2, <2>0, <2>3
    DEF Stage, TypeOK, Goto, store, Refreshing, Written
  <2>4. ASSUME Validate(p) PROVE \E to : Moves(to)
    BY <1>2, <2>0, <2>4
    DEF Validate, TypeOK, Goto, store, Refreshing, Written
  <2>5. ASSUME UnlockEvents(p) PROVE \E to : Moves(to)
    BY <1>2, <2>0, <2>5
    DEF UnlockEvents, TypeOK, Goto, store, Refreshing, Written
  <2>6. ASSUME LockState(p) PROVE \E to : Moves(to)
    <3>1. /\ pc[p] = "lockState" /\ pc' = [pc EXCEPT ![p] = "derive"]
          /\ stateLock = None /\ stateLock' = p
          /\ UNCHANGED <<file, yaml, tmp, handle, derived, copy, batch>>
      BY <2>6 DEF LockState, Goto
    <3>2. \A q \in Procs \ {p} : stateLock' # q /\ stateLock # q
      BY <3>1, StoreAssumption
    <3>3. Moves("derive")
      BY <3>1, <3>2 DEF Refreshing, Written
    <3> QED BY <3>3
  <2>7. ASSUME UnlockState(p) PROVE \E to : Moves(to)
    <3>1. /\ pc[p] = "unlockState" /\ pc' = [pc EXCEPT ![p] = "returned"]
          /\ stateLock' = IF stateLock = p THEN None ELSE stateLock
          /\ UNCHANGED <<file, yaml, tmp, handle, derived, copy, batch>>
      BY <2>7 DEF UnlockState, Goto
    <3>2. /\ stateLock' # p
          /\ \A q \in Procs \ {p} : stateLock' = q <=> stateLock = q
      BY <3>1, StoreAssumption
    <3>3. Moves("returned")
      BY <3>1, <3>2 DEF Refreshing, Written
    <3> QED BY <3>3
  <2> HIDE DEF Moves
  <2>8. PICK to : Moves(to)
    BY <1>3, <2>1, <2>2, <2>3, <2>4, <2>5, <2>6, <2>7
  <2> QED BY <1>1, <1>2, <2>8, ElsewhereKeeps DEF Moves
<1>4. ASSUME NEW p \in Procs, Crash(p) PROVE Goal
  <2>1. /\ pc' = [pc EXCEPT ![p] = "dead"]
        /\ handle' = [handle EXCEPT ![p] = "none"]
        /\ stateLock' = IF stateLock = p THEN None ELSE stateLock
        /\ UNCHANGED <<file, yaml, tmp, batch, copy, derived>>
    BY <1>4 DEF Crash
  <2>2. CacheIsLocked'
    BY <1>2, <2>1, StoreAssumption DEF CacheInv, CacheIsLocked, TypeOK, Refreshing
  <2>3. CacheIsOld'
    BY <1>2, <2>1 DEF CacheInv, CacheIsOld, TypeOK
  <2>4. OwnIsRead'
    BY <1>2, <2>1 DEF CacheInv, OwnIsRead, Own, TypeOK, Written
  <2> QED BY <1>2, <2>1, <2>2, <2>3, <2>4
<1>5. ASSUME NEW p \in Procs, AppendLines(p) PROVE Goal
  <2>1. /\ pc[p] = "append" /\ pc' = [pc EXCEPT ![p] = "unlock"]
        /\ file' = Appended(file, batch[p])
        /\ UNCHANGED <<eventsLock, stateLock, yaml, tmp, batch, copy, derived,
                       handle>>
    BY <1>5 DEF AppendLines, Goto
  <2>2. /\ batch[p] \in Batches /\ copy[p] = file
        /\ file \in File /\ file.tail = "whole"
    BY <2>1 DEF CacheInv, LogIsLocked, LogIsWhole, TypeOK
  <2>3. batch[p] \in Seq(Events) /\ batch[p] # <<>>
    BY <2>2, BatchType
  <2>4. file'.events = file.events \o batch[p]
    <3>1. file' = [events |-> file.events \o batch[p], tail |-> "whole"]
      BY <2>1, <2>2, <2>3, StagedIsLegal
    <3> QED BY <3>1, Zenon
  <2>5. /\ file.events \in Seq(Events) /\ file'.events \in Seq(Events)
        /\ IsPrefix(file.events, file'.events)
        /\ IsPrefix(file'.events, file'.events)
    <3>1. file.events \in Seq(Events)
      BY <2>2 DEF File
    <3>2. file'.events \in Seq(Events)
      BY <2>3, <2>4, <3>1
    <3> QED BY <2>3, <2>4, <3>1, <3>2, PrefixOfConcat, PrefixReflexive
  <2>6. ASSUME NEW s \in Seq(Events), IsPrefix(s, file.events)
        PROVE  IsPrefix(s, file'.events)
    BY <2>5, <2>6, PrefixTransitive
  <2>7. CacheIsLocked'
    BY <1>2, <2>1 DEF CacheInv, CacheIsLocked, TypeOK, Refreshing
  <2>8. CacheIsOld'
    <3>1. \A q \in Procs : derived[q] \in Seq(Events)
      BY <1>2 DEF TypeOK
    <3> QED BY <1>2, <2>1, <2>6, <3>1 DEF CacheInv, CacheIsOld, TypeOK
  <2>9. OwnIsRead'
    <3>1. \A q \in Procs : Own(q) \in Seq(Events) /\ Own(q)' = Own(q)
      BY <1>2, <2>1, OwnType DEF Own
    <3>2. Own(p) = file'.events
      BY <2>2, <2>4 DEF Own
    <3> QED BY <1>2, <2>1, <2>5, <2>6, <3>1, <3>2
            DEF CacheInv, OwnIsRead, TypeOK, Written
  <2> QED BY <1>2, <2>1, <2>7, <2>8, <2>9
<1>6. ASSUME NEW p \in Procs, Derive(p) PROVE Goal
  <2>1. /\ pc[p] = "derive" /\ pc' = [pc EXCEPT ![p] = "open"]
        /\ derived' = [derived EXCEPT ![p] = file.events]
        /\ UNCHANGED <<file, stateLock, yaml, tmp, batch, copy, handle>>
    BY <1>6 DEF Derive, Goto, store
  <2>2. file.events \in Seq(Events) /\ IsPrefix(file.events, file.events)
    BY <1>2, PrefixReflexive DEF TypeOK, File
  <2>3. CacheIsLocked'
    BY <1>2, <2>1 DEF CacheInv, CacheIsLocked, TypeOK, Refreshing
  <2>4. CacheIsOld'
    BY <1>2, <2>1, <2>2 DEF CacheInv, CacheIsOld, TypeOK
  <2>5. OwnIsRead'
    BY <1>2, <2>1 DEF CacheInv, OwnIsRead, Own, TypeOK, Written
  <2> QED BY <1>2, <2>1, <2>3, <2>4, <2>5
<1>7. ASSUME NEW p \in Procs, OpenTmp(p) PROVE Goal
  <2>1. /\ pc[p] = "open" /\ pc' = [pc EXCEPT ![p] = "flush"]
        /\ handle' = [handle EXCEPT ![p] = "tmp"]
        /\ UNCHANGED <<file, stateLock, yaml, batch, copy, derived>>
    BY <1>7 DEF OpenTmp, Goto
  <2>2. \A q \in Procs \ {p} : pc[q] \notin Refreshing
    BY <2>1 DEF CacheInv, CacheIsLocked, Refreshing
  <2>3. CacheIsLocked'
    BY <1>2, <2>1, <2>2 DEF CacheInv, CacheIsLocked, TypeOK, Refreshing
  <2>4. CacheIsOld'
    BY <1>2, <2>1 DEF CacheInv, CacheIsOld, TypeOK
  <2>5. OwnIsRead'
    BY <1>2, <2>1 DEF CacheInv, OwnIsRead, Own, TypeOK, Written
  <2> QED BY <1>2, <2>1, <2>3, <2>4, <2>5
<1>8. ASSUME NEW p \in Procs, Flush(p) PROVE Goal
  <2>1. /\ pc[p] = "flush" /\ pc' = [pc EXCEPT ![p] = "replace"]
        /\ handle' = [handle EXCEPT ![p] = "none"]
        /\ tmp' = derived[p]
        /\ UNCHANGED <<file, stateLock, yaml, batch, copy, derived>>
    BY <1>8 DEF Flush, Goto, CacheInv, CacheIsLocked
  <2>2. \A q \in Procs \ {p} : pc[q] \notin Refreshing
    BY <2>1 DEF CacheInv, CacheIsLocked, Refreshing
  <2>3. CacheIsLocked'
    BY <1>2, <2>1, <2>2 DEF CacheInv, CacheIsLocked, TypeOK, Refreshing
  <2>4. CacheIsOld'
    BY <1>2, <2>1 DEF CacheInv, CacheIsOld, TypeOK
  <2>5. OwnIsRead'
    BY <1>2, <2>1 DEF CacheInv, OwnIsRead, Own, TypeOK, Written
  <2> QED BY <1>2, <2>1, <2>3, <2>4, <2>5
<1>9. ASSUME NEW p \in Procs, Replace(p) PROVE Goal
  <2>1. pc[p] = "replace" /\ tmp = derived[p] /\ derived[p] \in Seq(Events)
    BY <1>2, <1>9 DEF Replace, Goto, CacheInv, CacheIsLocked, TypeOK
  <2>2. tmp # None
    BY <2>1, StoreAssumption
  <2>3. \A q \in Procs \ {p} : pc[q] \notin Refreshing
    BY <2>1 DEF CacheInv, CacheIsLocked, Refreshing
  <2>4. \A q \in Procs : handle[q] = "none"
    BY <2>1, <2>3 DEF CacheInv, CacheIsLocked, Refreshing
  <2>5. /\ pc' = [pc EXCEPT ![p] = "unlockState"]
        /\ yaml' = derived[p]
        /\ \A q \in Procs : handle'[q] = "none"
        /\ UNCHANGED <<file, stateLock, batch, copy, derived>>
    BY <1>9, <2>1, <2>2, <2>4 DEF Replace, Goto
  <2>6. /\ IsPrefix(yaml, yaml') /\ IsPrefix(yaml', file.events)
        /\ IsPrefix(Own(p), yaml')
        /\ \A q \in Procs : Own(q) \in Seq(Events) /\ Own(q)' = Own(q)
    BY <1>2, <2>1, <2>5, OwnType DEF CacheInv, CacheIsOld, OwnIsRead, Own
  <2>7. CacheIsLocked'
    BY <1>2, <2>1, <2>3, <2>5 DEF CacheInv, CacheIsLocked, TypeOK, Refreshing
  <2>8. CacheIsOld'
    BY <1>2, <2>1, <2>3, <2>5, <2>6 DEF CacheInv, CacheIsOld, TypeOK, Refreshing
  <2>9. OwnIsRead'
    <3>1. \A q \in Procs : IsPrefix(Own(q), yaml) => IsPrefix(Own(q), yaml')
      BY <1>2, <2>1, <2>5, <2>6, PrefixTransitive
    <3> QED BY <1>2, <2>1, <2>3, <2>5, <2>6, <3>1
            DEF CacheInv, OwnIsRead, TypeOK, Written, Refreshing
  <2> QED BY <2>1, <2>5, <2>6, <2>7, <2>8, <2>9
<1>10. ASSUME UNCHANGED vars PROVE Goal
  <2>1. CacheIsLocked' /\ CacheIsOld'
    BY <1>10 DEF vars, CacheInv, CacheIsLocked, CacheIsOld
  <2>2. OwnIsRead'
    BY <1>10 DEF vars, CacheInv, OwnIsRead, Own
  <2> QED BY <1>2, <1>10, <2>1, <2>2 DEF vars
<1>11. ASSUME NEW p \in Procs, Rebuild(p) PROVE Goal
  BY <1>11 DEF Rebuild
<1> HIDE DEF Goal
<1>12. Goal
  BY <1>3, <1>4, <1>5, <1>6, <1>7, <1>8, <1>9, <1>10, <1>11 DEF Next, Step
<1> QED BY <1>1, <1>12 DEF Goal, CacheInv

LEMMA CacheInvariance ==
  ASSUME ShortWrites = FALSE, Rebuilders = {}
  PROVE  Spec => []CacheInv
<1>1. CacheInv /\ [Next]_vars => CacheInv'
  BY StepCache
<1> QED
  BY <1>1, InitCache, PTL DEF Spec

\* A command that returned finds its own events in the cache for good, however
\* many others refresh it meanwhile or are killed doing so
\* (refresh_state_after_emit).
THEOREM WritesAlwaysRead ==
  ASSUME ShortWrites = FALSE, Rebuilders = {}
  PROVE  Spec => []ReadYourWrites
<1>1. CacheInv => ReadYourWrites
  BY StoreAssumption DEF CacheInv, CacheIsOld, OwnIsRead, Own, ReadYourWrites
<1> QED
  BY <1>1, CacheInvariance, PTL

\* A reader without a lock never finds the cache half written or older than it
\* was (write_state_yaml).
THEOREM CacheAlwaysAdvances ==
  ASSUME ShortWrites = FALSE, Rebuilders = {}
  PROVE  Spec => CacheOnlyAdvances
<1>1. CacheInv /\ [Next]_vars => [yaml' # Partial /\ IsPrefix(yaml, yaml')]_yaml
  BY StepCache, StoreAssumption
<1> QED
  BY <1>1, CacheInvariance, PTL DEF Spec, CacheOnlyAdvances

=============================================================================
