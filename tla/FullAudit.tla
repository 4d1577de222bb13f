----------------------------- MODULE FullAudit -----------------------------
(***************************************************************************)
(* The full_audit and get_audit_run tools of src/pgtriage/server.py over   *)
(* the shared registry of AuditRunStore: several server processes, each    *)
(* with its own database and its own asyncio loop, each serving tool calls *)
(* whose awaits interleave.  A process may die, a client may cancel, the   *)
(* database and the registry may refuse a statement.                       *)
(***************************************************************************)
EXTENDS AuditRunStore

CONSTANTS
    Servers,      \* pgtriage processes
    DatabaseOf,   \* app.database_identity_hash of each process
    Spellings,    \* what a client may write as audit_run_id
    IdOf,         \* normalize_audit_run_id of a spelling
    FreshIdOf,    \* the uuid4 drawn by each call whose client may name no ID
    InvalidId,    \* IdOf of a spelling that is not a UUID
    MayDelete,    \* whether the operator deletes rows (AuditRunStore.delete)
    AuditLimit,   \* bound: the longest an audit runs, in clock units
    LastClaim,    \* bound: no full_audit call is made, or claims, later
    LastTick      \* bound: the clock stops here

Calls == Creators

ASSUME ServersAssumption ==
    /\ DatabaseOf \in [Servers -> Databases]
    /\ Servers # {} /\ Requests # {}

ASSUME IdAssumption ==
    /\ IdOf \in [Spellings -> RunIds \cup {InvalidId}]
    /\ DOMAIN FreshIdOf \subseteq Calls
    /\ FreshIdOf \in [DOMAIN FreshIdOf -> RunIds]
    /\ InvalidId \notin RunIds

ASSUME BoundsAssumption ==
    /\ MayDelete \in BOOLEAN
    /\ AuditLimit \in Nat
    /\ LastClaim \in Nat
    /\ LastTick \in Nat

VARIABLES
    call,    \* the full_audit calls and where each one is
    answer   \* what this step returned to a client, None if nothing

vars == <<now, registry, call, answer>>

(* Where a call is: waiting for get_server_version, waiting for the audit  *)
(* sections, between complete()'s SELECT and UPDATE, entering the except   *)
(* clause, between fail()'s SELECT and UPDATE.                             *)
Awaiting == {"connecting", "auditing"}
Synchronous == {"updating", "failing", "marking"}
Executing == {"auditing"} \cup Synchronous
PCs == {"idle", "done"} \cup Awaiting \cup Synchronous

CallStates == [pc : PCs, server : Servers, request : Requests,
               id : RunIds \cup {InvalidId}, began : Nat,
               read : Bindings \cup {None}]

AnswerStatuses == Statuses \cup
    {"NOT_FOUND", "CONFLICT", "INVALID", "ERROR", "LOCKED"}

Answers == [to : Servers, asked : Bindings \cup {None}, by : Calls \cup {None},
            id : RunIds \cup {InvalidId}, status : AnswerStatuses,
            result : Results \cup {None}]

TypeOK ==
    /\ TypeOKStore
    /\ call \in [Calls -> CallStates]
    /\ \A c \in Calls :
          /\ call[c].pc \in Executing => call[c].id \in RunIds
          /\ call[c].pc = "updating" => call[c].read \in Bindings
    /\ answer \in Answers \cup {None}

BindingOf(c) ==
    [database |-> DatabaseOf[call[c].server], request |-> call[c].request]

InFlight(c, s) ==
    call[c].server = s /\ call[c].pc \in Awaiting \cup Synchronous

(* One asyncio loop per process: between two awaits nothing else runs. *)
LoopFree(s) ==
    \A c \in Calls : call[c].server = s => call[c].pc \notin Synchronous

HasLoop(c) ==
    \A d \in Calls \ {c} :
        call[d].server = call[c].server => call[d].pc \notin Synchronous

(* A call that has not begun, or has ended, holds nothing. *)
Vacant(pc) ==
    [pc |-> pc, server |-> CHOOSE s \in Servers : TRUE,
     request |-> CHOOSE q \in Requests : TRUE,
     id |-> InvalidId, began |-> 0, read |-> None]

AnswerAs(c, status, result) ==
    answer' = [to |-> call[c].server, asked |-> BindingOf(c), by |-> c,
               id |-> call[c].id, status |-> status, result |-> result]

Finish(c, status, result) ==
    call' = [call EXCEPT ![c] = Vacant("done")] /\ AnswerAs(c, status, result)

Continue(c, pc) ==
    call' = [call EXCEPT ![c].pc = pc] /\ answer' = None

-----------------------------------------------------------------------------
(* A client names a run by any spelling, omits it, or repeats one it saw. *)
NamedIds(c) ==
    {IdOf[sp] : sp \in Spellings}
        \cup {FreshIdOf[d] : d \in {c} \cap DOMAIN FreshIdOf}
        \cup {i \in RunIds : IsKnown(i)}

(* full_audit, up to its first await. *)
Dispatch(c) ==
    /\ call[c].pc = "idle"
    /\ now <= LastClaim
    /\ \E s \in Servers, q \in Requests, i \in NamedIds(c) :
          /\ LoopFree(s)
          /\ call' = [call EXCEPT ![c] =
                [pc |-> "connecting", server |-> s, request |-> q,
                 id |-> i, began |-> 0, read |-> None]]
    /\ answer' = None
    /\ UNCHANGED <<now, registry>>

(* get_server_version raises: nothing was claimed. *)
DatabaseUnreachable(c) ==
    /\ call[c].pc = "connecting"
    /\ HasLoop(c)
    /\ Finish(c, "ERROR", None)
    /\ UNCHANGED <<now, registry>>

(* The awaits are over (an error of get_statistics_reset_at is swallowed)  *)
(* and claim() is called.                                                  *)
ReadyToClaim(c) == call[c].pc = "connecting" /\ HasLoop(c)

ClaimRejected(c) ==
    /\ ReadyToClaim(c)
    /\ call[c].id = InvalidId
    /\ Finish(c, "INVALID", None)
    /\ UNCHANGED <<now, registry>>

ClaimLocked(c) ==
    /\ ReadyToClaim(c)
    /\ call[c].id # InvalidId
    /\ Finish(c, "LOCKED", None)
    /\ UNCHANGED <<now, registry>>

(* The audit starts only for the call that created the row. *)
ClaimNew(c, t) ==
    /\ ReadyToClaim(c)
    /\ call[c].id # InvalidId
    /\ ClaimCreates(call[c].id, BindingOf(c), c, t)
    /\ call' = [call EXCEPT ![c].pc = "auditing", ![c].began = now]
    /\ answer' = None
    /\ UNCHANGED now

(* if not created: a saved result is returned, any other status is raised. *)
ClaimExisting(c, t) ==
    /\ ReadyToClaim(c)
    /\ call[c].id # InvalidId
    /\ ClaimFinds(call[c].id, BindingOf(c), t)
    /\ LET row == registry'[call[c].id]
       IN  Finish(c, row.status, row.result)
    /\ UNCHANGED now

ClaimConflict(c, t) ==
    /\ ReadyToClaim(c)
    /\ call[c].id # InvalidId
    /\ ClaimConflicts(call[c].id, BindingOf(c), t)
    /\ Finish(c, "CONFLICT", None)
    /\ UNCHANGED now

-----------------------------------------------------------------------------
(* _execute_full_audit returned and complete() is called: its SELECT. *)
BeginComplete(c) ==
    /\ call[c].pc = "auditing"
    /\ HasLoop(c)
    /\ IsStarted(call[c].id)
    /\ call' = [call EXCEPT ![c].pc = "updating",
                            ![c].read = registry[call[c].id].binding]
    /\ answer' = None
    /\ UNCHANGED <<now, registry>>

(* Mutant of AuditRaises: no except clause. *)
AuditRaisesUncaught(c) ==
    /\ call[c].pc = "auditing"
    /\ HasLoop(c)
    /\ Finish(c, "ERROR", None)
    /\ UNCHANGED <<now, registry>>

(* A section raised, the evidence could not be serialised, complete()'s    *)
(* SELECT failed, or it found no row (KeyError) or one that is not STARTED *)
(* (RuntimeError): on to except Exception.                                 *)
AuditRaises(c) ==
    /\ call[c].pc = "auditing"
    /\ HasLoop(c)
    /\ Continue(c, "failing")
    /\ UNCHANGED <<now, registry>>

(* Mutant of CommitComplete: the result built is returned, not the row. *)
CommitCompleteUnread(c, t) ==
    /\ call[c].pc = "updating"
    /\ CompleteUpdate(call[c].id, BindingOf(c), call[c].read, t)
    /\ Finish(c, "COMPLETED",
              [evidence |-> BindingOf(c), provenance |-> call[c].read])
    /\ UNCHANGED now

(* UPDATE, SELECT, COMMIT.  If the UPDATE matched nothing, the row is      *)
(* returned as it is; without a row or a result, an exception is raised.   *)
CommitComplete(c, t) ==
    /\ call[c].pc = "updating"
    /\ CompleteUpdate(call[c].id, BindingOf(c), call[c].read, t)
    /\ LET row == registry'[call[c].id]
       IN  IF row # NoRow /\ row.result # None
           THEN Finish(c, "COMPLETED", row.result)
           ELSE Continue(c, "failing")
    /\ UNCHANGED now

CompleteLocked(c) ==
    /\ call[c].pc = "updating"
    /\ Continue(c, "failing")
    /\ UNCHANGED <<now, registry>>

(* fail(): its SELECT, which may raise KeyError or find a settled row. *)
BeginFail(c) ==
    /\ call[c].pc = "failing"
    /\ IF IsKnown(call[c].id) /\ IsStarted(call[c].id)
       THEN Continue(c, "marking")
       ELSE Finish(c, "ERROR", None)
    /\ UNCHANGED <<now, registry>>

CommitFail(c, t) ==
    /\ call[c].pc = "marking"
    /\ FailUpdate(call[c].id, t)
    /\ Finish(c, "ERROR", None)
    /\ UNCHANGED now

(* The registry refuses fail(): the row is left as it was. *)
FailLocked(c) ==
    /\ call[c].pc \in {"failing", "marking"}
    /\ Finish(c, "LOCKED", None)
    /\ UNCHANGED <<now, registry>>

(* CancelledError is raised at an await and is not an Exception: no fail() *)
Cancel(c) ==
    /\ call[c].pc \in Awaiting
    /\ HasLoop(c)
    /\ call' = [call EXCEPT ![c] = Vacant("done")]
    /\ answer' = None
    /\ UNCHANGED <<now, registry>>

(* The process dies and is started again: its calls in flight are gone. *)
Crash(s) ==
    /\ \E c \in Calls : InFlight(c, s)
    /\ call' = [c \in Calls |->
                  IF InFlight(c, s) THEN Vacant("done") ELSE call[c]]
    /\ answer' = None
    /\ UNCHANGED <<now, registry>>

-----------------------------------------------------------------------------
Lookup(s, i, status, result) ==
    answer' = [to |-> s, asked |-> None, by |-> None, id |-> i,
               status |-> status, result |-> result]

(* Mutant of GetAuditRun: the row is shown to whoever knows its ID. *)
GetAuditRunAnywhere(s, i, t) ==
    /\ LoopFree(s)
    /\ Get(t)
    /\ LET row == registry'[i]
       IN  IF row = NoRow
           THEN Lookup(s, i, "NOT_FOUND", None)
           ELSE Lookup(s, i, row.status, row.result)
    /\ UNCHANGED <<now, call>>

(* get_audit_run: a row of another database is a CONFLICT without content; *)
(* lookup_payload shows the result of a COMPLETED row only.                *)
GetAuditRun(s, i, t) ==
    /\ LoopFree(s)
    /\ Get(t)
    /\ LET row == registry'[i]
       IN  CASE row = NoRow -> Lookup(s, i, "NOT_FOUND", None)
             [] row # NoRow /\ row.binding.database # DatabaseOf[s] ->
                    Lookup(s, i, "CONFLICT", None)
             [] OTHER ->
                    Lookup(s, i, row.status,
                           IF row.status = "COMPLETED" THEN row.result ELSE None)
    /\ UNCHANGED <<now, call>>

DeleteRow(i) ==
    /\ MayDelete
    /\ registry[i] # NoRow
    /\ Delete(i)
    /\ answer' = None
    /\ UNCHANGED <<now, call>>

(* Time passes.  AuditLimit is an assumption on the environment: no        *)
(* execution outlives it (the code sets no deadline of its own).           *)
Tick ==
    /\ now < LastTick
    /\ \A c \in Calls :
          /\ call[c].pc \in Executing => now < call[c].began + AuditLimit
          /\ call[c].pc = "connecting" => now < LastClaim
    /\ now' = now + 1
    /\ answer' = None
    /\ UNCHANGED <<registry, call>>

-----------------------------------------------------------------------------
Init ==
    /\ InitStore
    /\ call = [c \in Calls |-> Vacant("idle")]
    /\ answer = None

Claim(c) ==
    \/ ClaimRejected(c)
    \/ ClaimLocked(c)
    \/ \E t \in Readings :
          ClaimNew(c, t) \/ ClaimExisting(c, t) \/ ClaimConflict(c, t)

Execute(c) ==
    \/ BeginComplete(c)
    \/ AuditRaises(c)
    \/ \E t \in Readings : CommitComplete(c, t) \/ CommitFail(c, t)
    \/ CompleteLocked(c)
    \/ BeginFail(c)
    \/ FailLocked(c)

LookUpAny ==
    \E s \in Servers, i \in RunIds, t \in Readings : GetAuditRun(s, i, t)

Next ==
    \/ \E c \in Calls :
          Dispatch(c) \/ DatabaseUnreachable(c) \/ Claim(c) \/ Execute(c) \/ Cancel(c)
    \/ \E s \in Servers : Crash(s)
    \/ LookUpAny
    \/ \E i \in RunIds : DeleteRow(i)
    \/ Tick

Spec == Init /\ [][Next]_vars

(* Processes run and sections end, time passes, and some client goes on    *)
(* asking: cleanup has no timer of its own and runs only inside a lookup   *)
(* or a claim.                                                             *)
FairSpec ==
    /\ Spec
    /\ \A c \in Calls : WF_vars(Claim(c)) /\ WF_vars(Execute(c))
    /\ WF_vars(LookUpAny)
    /\ WF_vars(Tick)

-----------------------------------------------------------------------------
(* Correctness.                                                            *)

(* The record a call executes for is still its own.                        *)
OwnsRow(c) ==
    LET row == registry[call[c].id]
    IN  row # NoRow /\ row.creator = c

(* A run ID never selects a result collected from another database than    *)
(* the one the asking process audits (docs/audit-run-reconciliation.md,    *)
(* "Ownership and identity").  full_audit and get_audit_run.               *)
NoForeignDatabase ==
    answer # None /\ answer.result # None =>
        answer.result.evidence.database = DatabaseOf[answer.to]

(* Nor from another schema or limit, and the provenance envelope tells the *)
(* truth: evidence returned to full_audit was collected for the very       *)
(* binding it asked for, evidence returned to any tool for the binding its *)
(* envelope names.  complete, full_audit, get_audit_run.                   *)
NoForeignEvidence ==
    answer # None /\ answer.result # None =>
        /\ answer.asked # None => answer.result.evidence = answer.asked
        /\ answer.result.provenance = answer.result.evidence

(* No two calls, in whatever processes, execute an audit for the same run  *)
(* at the same time: the retry of a run in progress, expired or recovered  *)
(* "never starts another audit".  claim, full_audit.                       *)
OneExecutor ==
    \A c, d \in Calls :
        /\ call[c].pc \in Executing
        /\ call[d].pc \in Executing
        /\ call[c].id = call[d].id
        => c = d

(* No answer, of either tool, is drawn from a row past its retention: a    *)
(* crashed run is never reported in progress and a payload never recovered *)
(* after expiry, though cleanup runs only inside lookups and claims.       *)
(* _cleanup_locked, claim, get.                                            *)
AnswersAreCurrent ==
    answer # None /\ answer.status \in LiveStatuses =>
        /\ registry[answer.id].status = answer.status
        /\ now < registry[answer.id].expires + LockWait

(* When full_audit returns evidence it is already durable: a client whose  *)
(* response is lost, or whose process dies next, finds the same result in  *)
(* the registry under the same ID.  complete, full_audit.                  *)
RecoverableWhenAnswered ==
    answer # None /\ answer.result # None =>
        /\ registry[answer.id].status = "COMPLETED"
        /\ registry[answer.id].result = answer.result

(* An execution that reports its error has settled its run: the row is not *)
(* left in progress unless the registry itself refused the write.          *)
(* fail and the except clause of full_audit.                               *)
ErrorIsOnRecord ==
    answer # None /\ answer.status = "ERROR" /\ answer.id \in RunIds =>
        LET row == registry[answer.id]
        IN  ~ (row.status = "STARTED" /\ row.creator = answer.by)

(* The assumption under which an ID is never taken from a running audit:   *)
(* its owner ends before the tombstone can lapse, and nobody deletes rows. *)
Punctual ==
    /\ ~ MayDelete
    /\ AuditLimit + LockWait < Retention + Tombstone

(* What makes the properties above inductive.  An executing call holds the *)
(* row it created, under its own binding, out of reach of every cleanup    *)
(* for as long as the call may last; a payload is that of its row; a call  *)
(* creates a row only when it stops connecting.                            *)
HoldsRow(c) ==
    /\ OwnsRow(c)
    /\ registry[call[c].id].binding = BindingOf(c)
    /\ call[c].began + Retention + Tombstone
            <= registry[call[c].id].tombstone + LockWait
    /\ now <= call[c].began + AuditLimit
    /\ call[c].pc = "updating" => call[c].read = BindingOf(c)

ExecutorHoldsRow ==
    \A c \in Calls : call[c].pc \in Executing => HoldsRow(c)

PayloadIsOfItsRow ==
    \A i \in RunIds : registry[i] # NoRow /\ registry[i].result # None =>
        /\ registry[i].status = "COMPLETED"
        /\ registry[i].result = [evidence |-> registry[i].binding,
                                 provenance |-> registry[i].binding]

CreatorHasClaimed ==
    \A i \in RunIds : registry[i] # NoRow =>
        call[registry[i].creator].pc \notin {"idle", "connecting"}

TombstoneOutlives ==
    \A i \in RunIds : registry[i] # NoRow =>
        registry[i].tombstone = registry[i].expires + Tombstone

(* Nor does anybody settle a run but the call that executes it.            *)
ExecutorSettles ==
    \A c \in Calls : call[c].pc \in Executing =>
        registry[call[c].id].status \in {"STARTED", "EXPIRED"}

IInv ==
    /\ TypeOK
    /\ ExecutorHoldsRow
    /\ PayloadIsOfItsRow
    /\ CreatorHasClaimed
    /\ TombstoneOutlives

(* Each run ID goes through the documented states and no others.  The age  *)
(* of a row is where the clock stands between its two expiry times.        *)
Age(i) ==
    LET row == registry[i]
    IN  CASE row = NoRow -> "none"
          [] row # NoRow /\ now < row.expires -> "fresh"
          [] row # NoRow /\ row.expires <= now /\ now < row.tombstone -> "lapsed"
          [] OTHER -> "dead"

Lifecycle(i) == INSTANCE RunLifecycle WITH
    status  <- registry[i].status,
    binding <- IF registry[i] = NoRow THEN None ELSE registry[i].binding,
    result  <- IF registry[i] = NoRow THEN None ELSE registry[i].result,
    age     <- Age(i)

(* AuditRunStore, used by full_audit and get_audit_run in any order from   *)
(* any process, implements RunLifecycle for every run ID.                  *)
LifecycleImplemented ==
    /\ \A i \in RunIds : Lifecycle(i)!Absent
    /\ [][\A i \in RunIds : Lifecycle(i)!Next \/ UNCHANGED Lifecycle(i)!vars]_vars

(* A crash or a cancellation leaves nobody to settle a run, yet no run is  *)
(* in progress for ever: retention ends it as soon as somebody looks.      *)
(* _cleanup_locked, full_audit.                                            *)
NoRunStaysStarted ==
    \A i \in RunIds : IsStarted(i) ~> ~ IsStarted(i)
=============================================================================
