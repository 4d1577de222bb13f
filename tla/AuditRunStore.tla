--------------------------- MODULE AuditRunStore ---------------------------
(***************************************************************************)
(* The durable registry of audit runs: class AuditRunStore of              *)
(* src/pgtriage/audit_runs.py, one SQLite file shared by every pgtriage    *)
(* process of a user.  Each method is one action, parameterised by its     *)
(* arguments and by the clock reading it uses; module FullAudit composes   *)
(* them with the processes that call them.                                 *)
(*                                                                         *)
(* A method that writes runs in one SQLite write transaction and is atomic *)
(* here.  complete() and fail() read the row before they open one, so each *)
(* is two steps: a SELECT (the guards IsStarted and IsKnown) and an UPDATE.*)
(***************************************************************************)
EXTENDS Integers

CONSTANTS
    RunIds,      \* audit run IDs in normalised form
    Databases,   \* values of database_identity_hash
    Requests,    \* (schema_name, slow_query_limit) pairs
    Creators,    \* the full_audit calls that may create a row
    Retention,   \* retention_seconds
    Tombstone,   \* tombstone_seconds
    LockWait,    \* how far a clock reading may lag when SQLite's lock is got
    None         \* SQL NULL, Python None

ASSUME RetentionAssumption ==
    /\ Retention \in Nat \ {0}
    /\ Tombstone \in Nat \ {0}

(* SQLite gives up a lock after seconds; retention is counted in hours. *)
ASSUME LockWaitAssumption == LockWait \in Nat /\ LockWait < Retention

VARIABLES
    now,         \* the clock all processes read (time.time)
    registry     \* table audit_runs: the row of each ID, NoRow where absent

(* operation_binding_hash is collision-free: a binding is what it digests. *)
Bindings == [database : Databases, request : Requests]

(* A stored result: the evidence, named by the binding of the audit that   *)
(* collected it, and the provenance envelope complete() writes around it.  *)
Results == [evidence : Bindings, provenance : Bindings]

ASSUME NoneAssumption == None \notin Bindings \cup Results

LiveStatuses == {"STARTED", "COMPLETED", "FAILED"}
Statuses == LiveStatuses \cup {"EXPIRED"}

(* creator is a history variable: the code does not store which call made  *)
(* a row.  evidence_hash lives and dies with result, and the failure       *)
(* columns with status FAILED, so neither has a field of its own.          *)
Rows == [binding : Bindings, status : Statuses, result : Results \cup {None},
         expires : Nat, tombstone : Nat, creator : Creators]

(* No row: get() returns None and get_audit_run answers NOT_FOUND. *)
NoRow == [status |-> "NOT_FOUND"]

TypeOKStore ==
    /\ now \in Nat
    /\ registry \in [RunIds -> Rows \cup {NoRow}]

-----------------------------------------------------------------------------
(* The readings of the clock a transaction may carry: every method reads   *)
(* the clock before it holds SQLite's write lock.                          *)
Readings == {t \in 0..now : now <= t + LockWait}

(* Mutant of Expunged: a STARTED row is left out of retention. *)
ExpungedUnlessStarted(row, t) ==
    IF row.status \in {"COMPLETED", "FAILED"} /\ row.expires <= t
    THEN [row EXCEPT !.status = "EXPIRED", !.result = None]
    ELSE row

(* First statement of _cleanup_locked: the payload goes with retention. *)
Expunged(row, t) ==
    IF row.status \in LiveStatuses /\ row.expires <= t
    THEN [row EXCEPT !.status = "EXPIRED", !.result = None]
    ELSE row

(* Mutant of Forgotten: the tombstone goes with the payload. *)
ForgottenEarly(row, t) ==
    IF row.status = "EXPIRED" /\ row.expires <= t THEN NoRow ELSE row

(* Second statement of _cleanup_locked: the tombstone goes. *)
Forgotten(row, t) ==
    IF row.status = "EXPIRED" /\ row.tombstone <= t THEN NoRow ELSE row

(* _cleanup_locked: both statements, over the whole table. *)
Cleaned(t) == [i \in RunIds |-> Forgotten(Expunged(registry[i], t), t)]

(* Mutant of NewRow: the INSERT sets no tombstone expiry. *)
NewRowWithoutTombstone(b, who, t) ==
    [binding |-> b, status |-> "STARTED", result |-> None,
     expires |-> t + Retention, tombstone |-> None, creator |-> who]

(* The row claim() inserts. *)
NewRow(b, who, t) ==
    [binding |-> b, status |-> "STARTED", result |-> None,
     expires |-> t + Retention, tombstone |-> t + Retention + Tombstone,
     creator |-> who]

(* A row that leaves STARTED is kept for a further retention window. *)
Settled(row, status, result, t) ==
    [row EXCEPT !.status = status, !.result = result,
                !.expires = t + Retention,
                !.tombstone = t + Retention + Tombstone]

-----------------------------------------------------------------------------
(* claim(): cleanup, INSERT OR IGNORE and the binding comparison are one   *)
(* transaction, with three outcomes.                                       *)
ClaimCreates(i, b, who, t) ==
    /\ Cleaned(t)[i] = NoRow
    /\ registry' = [Cleaned(t) EXCEPT ![i] = NewRow(b, who, t)]

(* Mutant of ClaimFinds: the row found is not compared with the request. *)
ClaimFindsAnyBinding(i, b, t) ==
    /\ Cleaned(t)[i] # NoRow
    /\ registry' = Cleaned(t)

ClaimFinds(i, b, t) ==
    /\ Cleaned(t)[i] # NoRow
    /\ Cleaned(t)[i].binding = b
    /\ registry' = Cleaned(t)

(* AuditRunConflictError leaves the with-block: everything is rolled back, *)
(* the cleanup included.                                                   *)
ClaimConflicts(i, b, t) ==
    /\ Cleaned(t)[i] # NoRow
    /\ Cleaned(t)[i].binding # b
    /\ UNCHANGED registry

(* _required_record() finds the row; complete() and fail() go on if it is  *)
(* STARTED.  The SELECT holds no lock: the row may change before UPDATE.   *)
IsKnown(i) == registry[i] # NoRow
IsStarted(i) == registry[i].status = "STARTED"

(* Mutant of CompleteUpdate: UPDATE ... WHERE audit_run_id = ? *)
CompleteUpdateUnguarded(i, evidence, read, t) ==
    registry' =
        IF IsKnown(i)
        THEN [registry EXCEPT ![i] =
                Settled(@, "COMPLETED",
                        [evidence |-> evidence, provenance |-> read], t)]
        ELSE registry

(* The UPDATEs of complete() and fail(): by ID and status, nothing else.   *)
(* read is the binding in the row the earlier SELECT returned.             *)
CompleteUpdate(i, evidence, read, t) ==
    registry' =
        IF IsStarted(i)
        THEN [registry EXCEPT ![i] =
                Settled(@, "COMPLETED",
                        [evidence |-> evidence, provenance |-> read], t)]
        ELSE registry

FailUpdate(i, t) ==
    registry' =
        IF IsStarted(i)
        THEN [registry EXCEPT ![i] = Settled(@, "FAILED", None, t)]
        ELSE registry

(* get(): cleanup and SELECT in one transaction. *)
Get(t) == registry' = Cleaned(t)

(* delete(): payload and tombstone both go. *)
Delete(i) == registry' = [registry EXCEPT ![i] = NoRow]

InitStore == now = 0 /\ registry = [i \in RunIds |-> NoRow]
=============================================================================
