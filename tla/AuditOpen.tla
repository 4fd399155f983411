------------------------------ MODULE AuditOpen ------------------------------
(***************************************************************************)
(* AuditStore::open (audit/src/store.rs): several processes open one       *)
(* audit.db at once, each running the whole configure / version check /    *)
(* create / migrate / stamp sequence on its own connection, and a lock     *)
(* error throws the connection away and starts the sequence again.         *)
(***************************************************************************)
EXTENDS Naturals, Sequences

CONSTANTS Proc,              \* processes opening the file
          OPEN_MAX_ATTEMPTS  \* the retry budget of open

OpenAssumption == OPEN_MAX_ATTEMPTS \in Nat \ {0}

AUDIT_SCHEMA_VERSION == 1

Tables == {"audit_events", "runs", "segments"}
Columns == {"agent_id", "segment_id", "resumed_from_snapshot", "head_prev_length"}

(* The columns CREATE TABLE gives a table that did not exist yet.  segment_id
   is not among them: only the migration adds it. *)
CreatedWith(table) == CASE table = "audit_events" -> {"agent_id"}
                        [] table = "runs"         -> {"resumed_from_snapshot"}
                        [] table = "segments"     -> {"head_prev_length"}

(* What init_schema executes after the version check, in order. *)
Plan == << [do |-> "create", what |-> "audit_events"],
           [do |-> "create", what |-> "runs"],
           [do |-> "create", what |-> "segments"],
           [do |-> "column", what |-> "agent_id"],
           [do |-> "column", what |-> "segment_id"],
           [do |-> "column", what |-> "resumed_from_snapshot"],
           [do |-> "column", what |-> "head_prev_length"] >>

VARIABLES file,     \* [wal, version, tables, cols]: the file, as every process sees it
          pc,       \* per process: where its open is
          attempt,  \* per process: the attempt counter of open_with
          found,    \* per process: the version init_schema read
          step      \* per process: the next statement of Plan

vars == <<file, pc, attempt, found, step>>

(* Files earlier builds left behind, a file that does not exist yet (nothing
   in it), and one from a newer build. *)
OldFile(wal, version, tables, cols) ==
    [wal |-> wal, version |-> version, tables |-> tables, cols |-> cols]

Files == { OldFile(FALSE, 0, {}, {}),
           OldFile(FALSE, 0, {"audit_events"}, {}),
           OldFile(FALSE, 0, {"audit_events", "runs"}, {}),
           OldFile(TRUE, 0, {"audit_events", "runs"}, {"agent_id", "resumed_from_snapshot"}),
           OldFile(TRUE, 1, {"audit_events", "runs"}, {"agent_id", "resumed_from_snapshot"}),
           OldFile(TRUE, 1, Tables, Columns \ {"head_prev_length"}) }

NewerFiles == { OldFile(wal, 2, Tables, cols) :
                  wal \in BOOLEAN, cols \in {Columns, Columns \ {"head_prev_length"}} }

Init == /\ file \in Files \cup NewerFiles
        /\ pc = [p \in Proc |-> "closed"]
        /\ attempt = [p \in Proc |-> 1]
        /\ found = [p \in Proc |-> 0]
        /\ step = [p \in Proc |-> 1]

Goto(p, loc) == pc' = [pc EXCEPT ![p] = loc]

Opening == {"configure", "version", "plan", "alter", "stamp"}
Gone == {"closed", "refused", "failed", "io_failed"}

(* Others have the file open: the only time a lock error can be met. *)
Contended(p) == \E q \in Proc \ {p} : pc[q] \notin Gone

(* open_with, then open_once: a fresh connection. *)
Open(p) ==
    /\ pc[p] \in Gone
    /\ attempt' = [attempt EXCEPT ![p] = 1]
    /\ Goto(p, "configure")
    /\ UNCHANGED <<file, found, step>>

(* configure_connection: the file is switched to WAL unless it already is. *)
Configure(p) ==
    /\ pc[p] = "configure"
    /\ file' = [file EXCEPT !.wal = TRUE]
    /\ Goto(p, "version")
    /\ UNCHANGED <<attempt, found, step>>

(* mutant: a stamped file is taken to need no migration *)
ReadVersion_TrustsStamp(p) ==
    /\ pc[p] = "version"
    /\ found' = [found EXCEPT ![p] = file.version]
    /\ Goto(p, IF file.version > AUDIT_SCHEMA_VERSION THEN "refused"
               ELSE IF file.version = AUDIT_SCHEMA_VERSION THEN "open" ELSE "plan")
    /\ step' = [step EXCEPT ![p] = 1]
    /\ UNCHANGED <<file, attempt>>

(* mutant: a newer file is migrated like any other *)
ReadVersion_NoRefusal(p) ==
    /\ pc[p] = "version"
    /\ found' = [found EXCEPT ![p] = file.version]
    /\ Goto(p, "plan") /\ step' = [step EXCEPT ![p] = 1]
    /\ UNCHANGED <<file, attempt>>

(* file_version_on, and the refusal of a newer file. *)
ReadVersion(p) ==
    /\ pc[p] = "version"
    /\ found' = [found EXCEPT ![p] = file.version]
    /\ IF file.version > AUDIT_SCHEMA_VERSION
       THEN Goto(p, "refused") /\ UNCHANGED step
       ELSE Goto(p, "plan") /\ step' = [step EXCEPT ![p] = 1]
    /\ UNCHANGED <<file, attempt>>

Statement(p) == Plan[step[p]]

Advance(p) == /\ step' = [step EXCEPT ![p] = step[p] + 1]
              /\ Goto(p, IF step[p] = Len(Plan) THEN "stamp" ELSE "plan")

(* CREATE TABLE IF NOT EXISTS, one autocommitted statement of SCHEMA. *)
CreateTable(p) ==
    /\ pc[p] = "plan"
    /\ Statement(p).do = "create"
    /\ LET t == Statement(p).what
       IN  file' = IF t \in file.tables THEN file
                   ELSE [file EXCEPT !.tables = @ \cup {t}, !.cols = @ \cup CreatedWith(t)]
    /\ Advance(p)
    /\ UNCHANGED <<attempt, found>>

(* add_column_if_missing, first half: column_exists answers. *)
ColumnExists(p) ==
    /\ pc[p] = "plan"
    /\ Statement(p).do = "column"
    /\ IF Statement(p).what \in file.cols
       THEN Advance(p)
       ELSE Goto(p, "alter") /\ UNCHANGED step
    /\ UNCHANGED <<file, attempt, found>>

(* mutant: losing the race for the column is an error *)
AlterTable_DuplicateIsError(p) ==
    /\ pc[p] = "alter"
    /\ IF Statement(p).what \in file.cols
       THEN Goto(p, "failed") /\ UNCHANGED <<file, step>>
       ELSE Advance(p) /\ file' = [file EXCEPT !.cols = @ \cup {Statement(p).what}]
    /\ UNCHANGED <<attempt, found>>

(* add_column_if_missing, second half: ALTER TABLE adds the column, or answers
   "duplicate column name" when another process got there first, which is Ok. *)
AlterTable(p) ==
    /\ pc[p] = "alter"
    /\ file' = [file EXCEPT !.cols = @ \cup {Statement(p).what}]
    /\ Advance(p)
    /\ UNCHANGED <<attempt, found>>

(* PRAGMA user_version, only when the version read was older. *)
Stamp(p) ==
    /\ pc[p] = "stamp"
    /\ file' = IF found[p] < AUDIT_SCHEMA_VERSION
               THEN [file EXCEPT !.version = AUDIT_SCHEMA_VERSION] ELSE file
    /\ Goto(p, "open")
    /\ UNCHANGED <<attempt, found, step>>

(* mutant: the attempt counter is not advanced *)
LockError_Unbounded(p) ==
    /\ pc[p] \in Opening
    /\ Contended(p)
    /\ Goto(p, "configure")
    /\ UNCHANGED <<file, attempt, found, step>>

(* mutant: one attempt more than the budget *)
LockError_OneTooMany(p) ==
    /\ pc[p] \in Opening
    /\ Contended(p)
    /\ IF attempt[p] > OPEN_MAX_ATTEMPTS
       THEN Goto(p, "failed") /\ UNCHANGED attempt
       ELSE /\ Goto(p, "configure")
            /\ attempt' = [attempt EXCEPT ![p] = attempt[p] + 1]
    /\ UNCHANGED <<file, found, step>>

(* SQLITE_BUSY from the WAL switch (immediately) or from a write that outlasted
   the busy timeout: the whole sequence again, until the budget is spent. *)
LockError(p) ==
    /\ pc[p] \in Opening
    /\ Contended(p)
    /\ IF attempt[p] >= OPEN_MAX_ATTEMPTS
       THEN Goto(p, "failed") /\ UNCHANGED attempt
       ELSE /\ Goto(p, "configure")
            /\ attempt' = [attempt EXCEPT ![p] = attempt[p] + 1]
    /\ UNCHANGED <<file, found, step>>

(* Any other error is returned at once. *)
StorageError(p) ==
    /\ pc[p] \in Opening
    /\ Goto(p, "io_failed")
    /\ UNCHANGED <<file, attempt, found, step>>

(* The process ends, or dies part way: what it executed stays in the file. *)
Exit(p) ==
    /\ pc[p] # "closed"
    /\ Goto(p, "closed")
    /\ UNCHANGED <<file, attempt, found, step>>

OpenStep(p) == \/ Configure(p) \/ ReadVersion(p) \/ CreateTable(p) \/ ColumnExists(p)
               \/ AlterTable(p) \/ Stamp(p) \/ LockError(p)

Next == \E p \in Proc : Open(p) \/ OpenStep(p) \/ StorageError(p) \/ Exit(p)

(* A process inside open keeps running. *)
Fairness == \A p \in Proc : WF_vars(OpenStep(p))

Spec == Init /\ [][Next]_vars /\ Fairness

-----------------------------------------------------------------------------
TypeOK == /\ file \in [wal : BOOLEAN, version : 0 .. 2,
                       tables : SUBSET Tables, cols : SUBSET Columns]
          /\ pc \in [Proc -> Opening \cup Gone \cup {"open"}]
          /\ attempt \in [Proc -> 1 .. OPEN_MAX_ATTEMPTS]
          /\ found \in [Proc -> 0 .. 2]
          /\ step \in [Proc -> 1 .. Len(Plan) + 1]

(***************************************************************************)
(* A store that open returned can be used: every table and every migrated  *)
(* column is there and the file is in WAL mode, whatever older file it was *)
(* and however many processes migrated it (and died) at the same time.     *)
(***************************************************************************)
OpenedIsComplete ==
    \A p \in Proc : pc[p] = "open" =>
        file.wal /\ file.version = AUDIT_SCHEMA_VERSION
                 /\ file.tables = Tables /\ file.cols = Columns

(***************************************************************************)
(* The migration race is never a failure of its own: unless the storage    *)
(* itself fails, open only fails after the whole lock budget, so two       *)
(* processes that both find a column missing and both ALTER                *)
(* (add_column_if_missing) both end with a usable store.                   *)
(***************************************************************************)
FailsOnlyByLock == \A p \in Proc : pc[p] = "failed" => attempt[p] = OPEN_MAX_ATTEMPTS

(***************************************************************************)
(* An open hands out a complete store or fails with its budget spent,      *)
(* whoever else migrates the file (open_with, init_schema).                *)
(***************************************************************************)
OpeningInv == TypeOK /\ OpenedIsComplete /\ FailsOnlyByLock

(***************************************************************************)
(* A newer file keeps its schema: no step of this build changes the        *)
(* version, the tables or the columns of a file stamped by a newer build.  *)
(***************************************************************************)
NewerSchemaKept ==
    [][file.version > AUDIT_SCHEMA_VERSION =>
         /\ file'.version = file.version
         /\ file'.tables = file.tables
         /\ file'.cols = file.cols]_vars

(***************************************************************************)
(* open returns: it answers a store, the refusal or an error unless the    *)
(* process ends, though a busy file sends it back to the start.            *)
(***************************************************************************)
OpenReturns ==
    \A p \in Proc : pc[p] = "configure" ~> pc[p] \in Gone \cup {"open"}
=============================================================================
