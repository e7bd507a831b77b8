-------------------------------- MODULE Gate --------------------------------
(***************************************************************************)
(* The pre-tool-use gate as a function of what state.yaml says: which      *)
(* change is active, what may be edited in its state, and the three        *)
(* allowances for files that are not product.  The hook (daemon/           *)
(* hook_entry.py) and `keepsail gate check` (cli/gate.py) both go through  *)
(* it, so one operator stands for the two.                                 *)
(*                                                                         *)
(* A file is a model value; the path tests of the code are constants that  *)
(* say which change's plan-path pattern or scratch directory the resolved  *)
(* path falls in.                                                          *)
(***************************************************************************)
EXTENDS Transitions, Naturals

CONSTANTS
  Changes,    \* change ids; numbers, for the code breaks ties by comparing them
  Files,
  Product,    \* files that go into git as product
  PlanOf,     \* [Files -> Changes or None]: the change whose pattern it matches
  ScratchOf,  \* [Files -> Changes or None]: whose scratch directory it is in
  None

ASSUME FileAssumption ==
  /\ Changes \subseteq Nat
  /\ \E last \in Changes : \A c \in Changes : c <= last
  /\ None \notin Changes \cup Files
  /\ Product \subseteq Files
  /\ PlanOf \in [Files -> Changes \cup {None}]
  /\ ScratchOf \in [Files -> Changes \cup {None}]
  /\ \A f \in Product : PlanOf[f] = None /\ ScratchOf[f] = None

\* The part of a change's record in state.yaml that the gate reads.
Records ==
  [state : STATES \cup {NoState}, at : Nat, artifacts : SUBSET Files]

ALLOWING_STATES ==
  {"PLAN_APPROVED", "IMPLEMENTATION_IN_PROGRESS", "CODE_REVIEW_REJECTED"}
PLAN_PATH_ALLOW_STATES == {"INTENT_DECLARED"}
PLAN_ARTIFACT_ALLOW_STATES == {"PLAN_REJECTED"}

Live(records) ==
  {c \in Changes : records[c].state \notin TERMINAL_STATES \cup {NoState}}

\* A bug: the change that was active first, as in version 0.1.
PickOldestChange(records) ==
  IF Live(records) = {}
    THEN None
    ELSE CHOOSE c \in Live(records) :
           \A d \in Live(records) \ {c} : records[c].at < records[d].at

Precedes(records, c, d) ==
  \/ records[c].at < records[d].at
  \/ records[c].at = records[d].at /\ c < d

PickActiveChange(records) ==
  IF Live(records) = {}
    THEN None
    ELSE CHOOSE c \in Live(records) :
           \A d \in Live(records) \ {c} : Precedes(records, d, c)

\* Which change is decided on: the one named in the environment or on the
\* command line, else the active one.
Subject(records, override) ==
  IF override # None THEN override ELSE PickActiveChange(records)

ArtifactAllowance(record, file) ==
  /\ record.state \in PLAN_ARTIFACT_ALLOW_STATES
  /\ file \in record.artifacts
PlanAllowance(c, record, file) ==
  /\ record.state \in PLAN_PATH_ALLOW_STATES
  /\ PlanOf[file] = c

\* A bug: the allowances are forgotten.
TableOnly(records, override, file) ==
  LET c == Subject(records, override)
  IN  c = None \/ records[c].state \in ALLOWING_STATES \cup {NoState}

\* Codex names no file: then only the table counts.
Allowed(records, override, file) ==
  LET c == Subject(records, override)
  IN  \/ c = None
      \/ records[c].state = NoState
      \/ records[c].state \in ALLOWING_STATES
      \/ /\ file # None
         /\ \/ ScratchOf[file] = c
            \/ PlanAllowance(c, records[c], file)
            \/ ArtifactAllowance(records[c], file)

=============================================================================
