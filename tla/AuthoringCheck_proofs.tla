----------------------- MODULE AuthoringCheck_proofs -----------------------
(***************************************************************************)
(* Proof that no command of a check outlives the hook, for every number of *)
(* decisions and every budget.  The timeout of a command that is being     *)
(* started or runs is due before the deadline, since its thread was held   *)
(* up for less than the margin it left (DueInTime); a thread was waited    *)
(* for until it ended or the deadline was there (Awaited); once the hook   *)
(* has returned, every thread it started was waited for.  How long a       *)
(* killed process takes to be reaped is bounded by nothing in the code.    *)
(***************************************************************************)
EXTENDS AuthoringCheck, WellFoundedInduction, TLAPS

\* The timeout of what a thread is about to start, or has started, is due
\* before the deadline.
DueInTime(d) ==
  /\ worker[d].stage = "starting" =>
       /\ worker[d].since \in Nat /\ worker[d].timeout \in Nat
       /\ worker[d].since <= now /\ now <= worker[d].since + Latency
       /\ worker[d].timeout = Deadline - worker[d].since - Margin
       /\ worker[d].since + Margin < Deadline
  /\ worker[d].stage = "running" =>
       /\ worker[d].until \in Nat
       /\ now <= worker[d].until /\ worker[d].until < Deadline

\* Whom the hook has waited for.
Awaited(d) == d \in joined => Ended(d) \/ now >= Deadline

CheckInv ==
  /\ now \in Nat
  /\ DOMAIN worker = Decisions
  /\ \A d \in Decisions : DueInTime(d) /\ Awaited(d)
  /\ \A d \in Decisions \ started : worker[d].stage = "waiting"
  /\ runnable \subseteq Decisions /\ started \subseteq runnable
  /\ joined \subseteq started
  /\ main = "load" => started = {}
  /\ main = "returned" => started \subseteq joined

-----------------------------------------------------------------------------
\* The hook takes its threads in order: there is a first.
LEMMA FirstIsOneOfThem ==
  ASSUME NEW ds, ds \subseteq Nat, ds # {}
  PROVE  First(ds) \in ds
PROOF
<1> DEFINE R == {ss \in Nat \X Nat : ss[1] < ss[2]}
<1>1. R = OpToRel(<, Nat)
  BY DEF OpToRel
<1>2. IsWellFoundedOn(R, Nat)
  BY <1>1, NatLessThanWellFounded
<1>3. PICK d \in ds : \A e \in ds : <<e, d>> \notin R
  <2> HIDE DEF R
  <2> QED BY <1>2, WFMin
<1>4. ASSUME NEW e \in ds PROVE d <= e
  <2>1. <<e, d>> \in Nat \X Nat /\ <<e, d>>[1] = e /\ <<e, d>>[2] = d
    OBVIOUS
  <2>2. <<e, d>>[1] < <<e, d>>[2] => <<e, d>> \in R
    BY <2>1, Zenon
  <2> QED BY <1>3, <2>1, <2>2
<1> QED BY <1>4 DEF First

LEMMA InitCheck == Init => CheckInv
PROOF
BY DEF Init, CheckInv, DueInTime, Awaited, Waiting

\* What a thread gives its command, if anything.
LEMMA SliceFits ==
  ASSUME NEW at \in Nat, Slice(at) # None
  PROVE  /\ Slice(at) = Deadline - at - Margin
         /\ Slice(at) \in Nat
         /\ at + Margin < Deadline
PROOF
BY TimeAssumption DEF Slice, Deadline

\* A thread that goes on, and nothing else with it.
LEMMA ThreadKeeps ==
  ASSUME CheckInv, NEW d \in Decisions, NEW w, Become(d, w),
         UNCHANGED <<runnable, now, main, started, joined>>,
         worker[d].stage \notin {"waiting", "ended"},
         DueInTime(d)',
         w.stage = "ended" \/ worker[d].stage # "ended"
  PROVE  CheckInv'
PROOF
<1>1. /\ worker'[d] = w /\ DOMAIN worker' = Decisions
      /\ \A x \in Decisions \ {d} : worker'[x] = worker[x]
  BY DEF Become, CheckInv
<1>2. \A x \in Decisions : DueInTime(x)'
  BY <1>1 DEF CheckInv, DueInTime
<1>3. \A x \in Decisions : Awaited(x)'
  BY <1>1 DEF CheckInv, Awaited, Ended
<1>4. \A x \in Decisions \ started : worker'[x].stage = "waiting"
  BY <1>1 DEF CheckInv
<1> QED BY <1>1, <1>2, <1>3, <1>4 DEF CheckInv

LEMMA HookKeeps == CheckInv /\ Hook => CheckInv'
PROOF
<1> SUFFICES ASSUME CheckInv, Hook PROVE CheckInv'
  OBVIOUS
<1>1. CASE Load
  BY <1>1 DEF CheckInv, Load, DueInTime, Awaited, Ended
<1>2. CASE FailOpen
  BY <1>2 DEF CheckInv, FailOpen, DueInTime, Awaited, Ended
<1>3. CASE StartThread
  <2> DEFINE f == First(Unstarted)
  <2>1. f \in runnable \ started
    BY <1>3, FirstIsOneOfThem, DecisionAssumption
    DEF CheckInv, StartThread, Unstarted
  <2> HIDE DEF f
  <2>2. /\ worker' = [worker EXCEPT ![f] = [stage |-> "scheduled"]]
        /\ started' = started \cup {f} /\ main = "spawn"
        /\ UNCHANGED <<runnable, now, main, joined>>
    BY <1>3 DEF StartThread, f
  <2> QED BY <2>1, <2>2 DEF CheckInv, DueInTime, Awaited, Ended
<1>4. CASE StopSpawning
  BY <1>4 DEF CheckInv, StopSpawning, DueInTime, Awaited, Ended
<1>5. CASE Join
  <2>1. First(Unjoined) \in Unjoined
    BY <1>5, FirstIsOneOfThem, DecisionAssumption DEF CheckInv, Join, Unjoined
  <2> QED
    BY <1>5, <2>1 DEF CheckInv, Join, DueInTime, Awaited, Ended, Unjoined
<1>6. CASE Collect
  BY <1>6 DEF CheckInv, Collect, DueInTime, Awaited, Ended, Unjoined
<1> QED
  BY <1>1, <1>2, <1>3, <1>4, <1>5, <1>6 DEF Hook

LEMMA ThreadStep ==
  ASSUME CheckInv, NEW d \in Decisions, Thread(d)
  PROVE  CheckInv'
PROOF
<1> USE DEF Become, CheckInv, DueInTime
<1>1. CASE ReadClock(d)
  <2> DEFINE w == IF Slice(now) = None THEN [stage |-> "ended"]
                  ELSE [stage |-> "starting", timeout |-> Slice(now), since |-> now]
  <2>1. /\ worker[d].stage = "scheduled" /\ Become(d, w)
        /\ UNCHANGED <<now, main, started, joined, runnable>>
    BY <1>1 DEF ReadClock
  <2>2. DueInTime(d)'
    BY <2>1, SliceFits, TimeAssumption
  <2> QED BY <2>1, <2>2, ThreadKeeps
<1>2. CASE StartCommand(d)
  <2> DEFINE w == [stage |-> "running", until |-> now + worker[d].timeout]
  <2>1. /\ worker[d].stage = "starting" /\ Become(d, w)
        /\ UNCHANGED <<now, main, started, joined, runnable>>
    BY <1>2 DEF StartCommand
  <2>2. DueInTime(d)'
    BY <2>1, TimeAssumption, LatencyAssumption DEF Deadline
  <2> QED BY <2>1, <2>2, ThreadKeeps
<1>3. CASE Timeout(d)
  <2>1. /\ worker[d].stage = "running" /\ Become(d, [stage |-> "reaping"])
        /\ UNCHANGED <<now, main, started, joined, runnable>>
    BY <1>3 DEF Timeout
  <2> QED BY <2>1, ThreadKeeps
<1>4. CASE CannotStart(d) \/ CommandEnds(d) \/ Reaped(d)
  <2>1. /\ worker[d].stage \in {"starting", "running", "reaping"}
        /\ Become(d, [stage |-> "ended"])
        /\ UNCHANGED <<now, main, started, joined, runnable>>
    BY <1>4 DEF CannotStart, CommandEnds, Reaped, Finish
  <2> QED BY <2>1, ThreadKeeps
<1> QED BY <1>1, <1>2, <1>3, <1>4 DEF Thread

\* Time does not pass a timer that is due.
LEMMA TickKeeps == CheckInv /\ Tick => CheckInv'
PROOF
<1> SUFFICES ASSUME CheckInv, Tick PROVE CheckInv'
  OBVIOUS
<1>1. /\ now' = now + 1
      /\ UNCHANGED <<runnable, main, started, joined, worker>>
      /\ \A d \in Decisions : ~Overdue(d)
  BY DEF Tick
<1>2. \A d \in Decisions : DueInTime(d)'
  BY <1>1, TimeAssumption DEF CheckInv, DueInTime, Overdue, Deadline
<1>3. \A d \in Decisions : Awaited(d)'
  BY <1>1, TimeAssumption DEF CheckInv, Awaited, Ended, Deadline
<1> QED BY <1>1, <1>2, <1>3 DEF CheckInv

\* The strengthening holds: the timeout of a command under way is due before the
\* deadline, a thread waited for has ended or the deadline is there.
THEOREM CheckInvariance == Spec => []CheckInv
PROOF
<1>1. CheckInv /\ [Next]_vars => CheckInv'
  <2> SUFFICES ASSUME CheckInv, [Next]_vars PROVE CheckInv'
    OBVIOUS
  <2>1. CASE UNCHANGED vars
    BY <2>1 DEF vars, CheckInv, DueInTime, Awaited, Ended
  <2> QED BY <2>1, HookKeeps, TickKeeps, ThreadStep DEF Next
<1> QED BY <1>1, InitCheck, PTL DEF Spec

NoneRunsLate ==
  now >= Deadline => \A d \in Decisions : worker[d].stage \notin {"starting", "running"}

\* From the deadline on no command is about to start or runs, whether the hook has
\* returned or not: it has ended, or its process group has been killed and may
\* only have to be reaped (_per_check, run_check).
THEOREM NoCommandRunsPastTheDeadline == Spec => []NoneRunsLate
PROOF
<1>1. CheckInv => NoneRunsLate
  BY TimeAssumption, LatencyAssumption DEF CheckInv, DueInTime, NoneRunsLate, Deadline
<1> QED BY <1>1, CheckInvariance, PTL

\* When the hook has returned, no command it started is about to start or runs
\* (_run_checks_parallel waits for the threads, _per_check leaves the margin).
THEOREM NoCommandOutlivesTheHook == Spec => []NoOrphans
PROOF
<1>1. CheckInv => NoOrphans
  <2> SUFFICES ASSUME CheckInv, main = "returned", NEW d \in Decisions
               PROVE  worker[d].stage \notin {"starting", "running"}
    BY DEF NoOrphans
  <2>1. CASE d \notin started
    BY <2>1 DEF CheckInv
  <2>2. CASE Ended(d)
    BY <2>2 DEF Ended
  <2>3. CASE now >= Deadline
    BY <2>3, TimeAssumption, LatencyAssumption DEF CheckInv, DueInTime, Deadline
  <2> QED BY <2>1, <2>2, <2>3 DEF CheckInv, Awaited
<1> QED BY <1>1, CheckInvariance, PTL

\* Every reachable state has its declared type.
THEOREM TypeCorrect == Spec => []TypeOK
PROOF
<1>1. Init => TypeOK
  BY TimeAssumption DEF Init, TypeOK, Waiting
<1>2. CheckInv /\ TypeOK /\ [Next]_vars => TypeOK'
  <2> SUFFICES ASSUME CheckInv, TypeOK, [Next]_vars PROVE TypeOK'
    OBVIOUS
  <2>1. CASE Load \/ FailOpen \/ Collect
    <3>2. /\ runnable' \subseteq Decisions /\ started \subseteq runnable'
          /\ main' \in {"spawn", "returned"}
          /\ UNCHANGED <<now, started, joined, worker, results>>
      BY <2>1 DEF TypeOK, CheckInv, Load, FailOpen, Collect
    <3>3. CASE Load
      BY <3>2, <3>3 DEF TypeOK, Load, Nothing
    <3>4. CASE FailOpen
      <4>1. PICK ids \in SUBSET Decisions :
              verdict' = [Nothing EXCEPT !.unavailable = ids]
        BY <3>4 DEF FailOpen
      <4>2. verdict' = [violations |-> {}, unavailable |-> ids]
        BY <4>1 DEF Nothing
      <4> QED BY <3>2, <4>2 DEF TypeOK
    <3>5. CASE Collect
      BY <3>2, <3>5 DEF TypeOK, Collect
    <3> QED BY <2>1, <3>3, <3>4, <3>5
  <2>2. CASE StartThread
    <3> DEFINE f == First(Unstarted)
    <3>1. f \in runnable
      BY <2>2, FirstIsOneOfThem, DecisionAssumption
      DEF CheckInv, StartThread, Unstarted
    <3> HIDE DEF f
    <3>2. /\ worker' = [worker EXCEPT ![f] = [stage |-> "scheduled"]]
          /\ started' = started \cup {f}
          /\ UNCHANGED <<runnable, now, main, joined, results, verdict>>
      BY <2>2 DEF StartThread, f
    <3> QED BY <3>1, <3>2 DEF TypeOK, CheckInv
  <2>3. CASE Join
    <3>1. First(Unjoined) \in started
      BY <2>3, FirstIsOneOfThem, DecisionAssumption DEF CheckInv, Join, Unjoined
    <3> QED BY <2>3, <3>1 DEF TypeOK, Join
  <2>4. CASE StopSpawning \/ Tick
    BY <2>4, TimeAssumption DEF TypeOK, StopSpawning, Tick
  <2>5. ASSUME NEW d \in Decisions, ReadClock(d) \/ StartCommand(d) \/ Timeout(d)
        PROVE  TypeOK'
    BY <2>5, SliceFits, TimeAssumption
    DEF TypeOK, CheckInv, DueInTime, ReadClock, StartCommand, Timeout, Become
  <2>6. ASSUME NEW d \in Decisions, CannotStart(d) \/ CommandEnds(d) \/ Reaped(d)
        PROVE  TypeOK'
    <3>1. PICK report \in Reports : Finish(d, report)
      BY <2>6 DEF CannotStart, CommandEnds, Reaped, Reports
    <3> QED BY <3>1 DEF TypeOK, CheckInv, Finish, Become
  <2>7. CASE UNCHANGED vars
    BY <2>7 DEF vars, TypeOK
  <2> QED
    BY <2>1, <2>2, <2>3, <2>4, <2>5, <2>6, <2>7 DEF Next, Hook, Thread
<1> QED BY <1>1, <1>2, CheckInvariance, PTL DEF Spec
=============================================================================
