------------------------------ MODULE EventLog ------------------------------
(***************************************************************************)
(* What .harness/events.jsonl promises its readers: an append-only         *)
(* sequence of events, grown by whole batches, each of which was legal     *)
(* after everything before it.  EventStore is shown to implement this.     *)
(***************************************************************************)
EXTENDS Sequences, Naturals

CONSTANTS
  Batches,        \* what one call of the writer appends together
  Legal(_, _)     \* whether an event may follow a log (validate_preconditions)

VARIABLE log

\* Every event of the batch is legal after the log and those before it.
LegalBatch(l, batch) ==
  \A i \in DOMAIN batch : Legal(l \o SubSeq(batch, 1, i - 1), batch[i])

Init == log = <<>>

AppendBatch(batch) ==
  /\ LegalBatch(log, batch)
  /\ log' = log \o batch

Next == \E batch \in Batches : AppendBatch(batch)

Spec == Init /\ [][Next]_log

=============================================================================
