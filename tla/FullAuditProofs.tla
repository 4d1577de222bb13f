-------------------------- MODULE FullAuditProofs --------------------------
(***************************************************************************)
(* Theorems about FullAudit, for every number of processes, calls, run     *)
(* IDs and every retention: the type invariant, and under Punctual the     *)
(* safety of run identity.                                                 *)
(***************************************************************************)
EXTENDS FullAudit, TLAPS

(* The clock readings a transaction may carry are at most LockWait old. *)
LEMMA ReadingsBound ==
    ASSUME now \in Nat, NEW t \in Readings
    PROVE  t \in Nat /\ t <= now /\ now <= t + LockWait
BY DEF Readings

LEMMA NoRowIsNoRow == NoRow \notin Rows
BY DEF NoRow, Rows, Statuses, LiveStatuses

(* What cleanup may do to one row: nothing, drop the payload of a live row *)
(* whose retention has lapsed, or drop a row whose tombstone has lapsed.   *)
(* A row it leaves alive is within its retention.                          *)
LEMMA CleanedRow ==
    ASSUME TypeOKStore, NEW t \in Nat, NEW i \in RunIds
    PROVE  \/ /\ Cleaned(t)[i] = registry[i]
              /\ registry[i].status \in LiveStatuses => t < registry[i].expires
           \/ /\ registry[i] \in Rows
              /\ registry[i].status \in LiveStatuses
              /\ registry[i].expires <= t
              /\ Cleaned(t)[i] =
                    [registry[i] EXCEPT !.status = "EXPIRED", !.result = None]
           \/ /\ registry[i] \in Rows
              /\ registry[i].tombstone <= t
              /\ Cleaned(t)[i] = NoRow
<1>1. Cleaned(t)[i] = Forgotten(Expunged(registry[i], t), t)
  BY DEF Cleaned
<1>2. CASE registry[i] = NoRow
  BY <1>1, <1>2 DEF Forgotten, Expunged, NoRow, LiveStatuses
<1>3. CASE registry[i] \in Rows
  <2>0. registry[i].expires \in Nat
    BY <1>3 DEF Rows
  <2>1. CASE ~ (registry[i].status \in LiveStatuses /\ registry[i].expires <= t)
    <3>1. Expunged(registry[i], t) = registry[i]
      BY <2>1 DEF Expunged
    <3>2. registry[i].status \in LiveStatuses => t < registry[i].expires
      BY <2>0, <2>1
    <3> QED BY <1>1, <1>3, <3>1, <3>2 DEF Forgotten
  <2>2. CASE registry[i].status \in LiveStatuses /\ registry[i].expires <= t
    <3>1. Expunged(registry[i], t) =
              [registry[i] EXCEPT !.status = "EXPIRED", !.result = None]
      BY <2>2 DEF Expunged
    <3>2. Expunged(registry[i], t).tombstone = registry[i].tombstone
      BY <1>3, <3>1 DEF Rows
    <3> QED BY <1>1, <1>3, <2>2, <3>1, <3>2 DEF Forgotten
  <2> QED BY <2>1, <2>2
<1> QED BY <1>2, <1>3 DEF TypeOKStore

LEMMA CleanedType ==
    ASSUME TypeOKStore, NEW t \in Nat
    PROVE  Cleaned(t) \in [RunIds -> Rows \cup {NoRow}]
<1>1. ASSUME NEW i \in RunIds
      PROVE  Cleaned(t)[i] \in Rows \cup {NoRow}
  <2>1. registry[i] \in Rows \cup {NoRow}
    BY DEF TypeOKStore
  <2>2. registry[i] \in Rows =>
          [registry[i] EXCEPT !.status = "EXPIRED", !.result = None] \in Rows
    BY DEF Rows, Statuses
  <2> QED BY <2>1, <2>2, CleanedRow
<1> QED BY <1>1 DEF Cleaned

LEMMA NewRowType ==
    ASSUME NEW b \in Bindings, NEW who \in Calls, NEW t \in Nat
    PROVE  NewRow(b, who, t) \in Rows
BY RetentionAssumption DEF NewRow, Rows, Statuses, LiveStatuses, Calls

LEMMA SettledType ==
    ASSUME NEW row \in Rows, NEW status \in Statuses,
           NEW result \in Results \cup {None}, NEW t \in Nat
    PROVE  Settled(row, status, result, t) \in Rows
<1>1. t + Retention \in Nat /\ t + Retention + Tombstone \in Nat
  BY RetentionAssumption
<1> DEFINE e == t + Retention
           d == t + Retention + Tombstone
<1>2. Settled(row, status, result, t) =
        [row EXCEPT !.status = status, !.result = result,
                    !.expires = e, !.tombstone = d]
  BY DEF Settled
<1> HIDE DEF e, d
<1>3. e \in Nat /\ d \in Nat
  BY <1>1 DEF e, d
<1> QED BY <1>2, <1>3 DEF Rows

(* The UPDATEs of complete() and fail() keep the table well typed. *)
LEMMA UpdateType ==
    ASSUME TypeOKStore, UNCHANGED now, NEW i \in RunIds, NEW t \in Nat,
           \/ FailUpdate(i, t)
           \/ \E evidence, read \in Bindings : CompleteUpdate(i, evidence, read, t)
    PROVE  TypeOKStore'
<1>1. CASE ~ IsStarted(i)
  BY <1>1 DEF FailUpdate, CompleteUpdate, TypeOKStore
<1>2. CASE IsStarted(i)
  <2>1. registry[i] \in Rows
    BY <1>2 DEF IsStarted, TypeOKStore, NoRow
  <2>2. CASE FailUpdate(i, t)
    <3>1. Settled(registry[i], "FAILED", None, t) \in Rows
      BY <2>1, SettledType DEF Statuses, LiveStatuses
    <3> QED BY <1>2, <2>2, <3>1 DEF FailUpdate, TypeOKStore
  <2>3. ASSUME NEW evidence \in Bindings, NEW read \in Bindings,
               CompleteUpdate(i, evidence, read, t)
        PROVE  TypeOKStore'
    <3>1. Settled(registry[i], "COMPLETED",
                  [evidence |-> evidence, provenance |-> read], t) \in Rows
      BY <2>1, SettledType DEF Statuses, LiveStatuses, Results
    <3> QED BY <1>2, <2>3, <3>1 DEF CompleteUpdate, TypeOKStore
  <2> QED BY <2>2, <2>3
<1> QED BY <1>1, <1>2

LEMMA VacantType ==
    ASSUME NEW pc \in PCs
    PROVE  Vacant(pc) \in CallStates /\ Vacant(pc).pc = pc
<1>1. (CHOOSE s \in Servers : TRUE) \in Servers
  BY ServersAssumption
<1>2. (CHOOSE q \in Requests : TRUE) \in Requests
  BY ServersAssumption
<1> QED BY <1>1, <1>2 DEF Vacant, CallStates

LEMMA BindingType ==
    ASSUME TypeOK, NEW c \in Calls
    PROVE  BindingOf(c) \in Bindings
BY ServersAssumption DEF TypeOK, CallStates, BindingOf, Bindings

(* A call that ends, one that goes on, and one that is about to execute.   *)
LEMMA FinishType ==
    ASSUME TypeOK, TypeOKStore', NEW c \in Calls, NEW status \in AnswerStatuses,
           NEW result \in Results \cup {None}, Finish(c, status, result)
    PROVE  TypeOK'
<1>1. Vacant("done") \in CallStates /\ Vacant("done").pc = "done"
  BY VacantType DEF PCs
<1>2. BindingOf(c) \in Bindings
  BY BindingType
<1>3. call' \in [Calls -> CallStates]
  BY <1>1 DEF Finish, TypeOK
<1>4. answer' \in Answers
  BY <1>2 DEF Finish, AnswerAs, TypeOK, Answers, CallStates
<1>5. \A d \in Calls :
        /\ call'[d].pc \in Executing => call'[d].id \in RunIds
        /\ call'[d].pc = "updating" => call'[d].read \in Bindings
  BY <1>1 DEF Finish, TypeOK, Executing, Synchronous
<1> QED BY <1>3, <1>4, <1>5 DEF TypeOK

LEMMA ContinueType ==
    ASSUME TypeOK, TypeOKStore', NEW c \in Calls, NEW pc \in PCs, Continue(c, pc),
           call[c].id \in RunIds, pc # "updating"
    PROVE  TypeOK'
BY DEF Continue, TypeOK, CallStates

LEMMA ConstantsOfStatus ==
    /\ Statuses \subseteq AnswerStatuses
    /\ {"NOT_FOUND", "CONFLICT", "INVALID", "ERROR", "LOCKED"} \subseteq AnswerStatuses
    /\ {"idle", "done", "connecting", "auditing", "updating", "failing", "marking"} = PCs
BY DEF Statuses, LiveStatuses, AnswerStatuses, PCs, Awaiting, Synchronous

-----------------------------------------------------------------------------
(* Type correctness.                                                       *)
LEMMA InitType == Init => TypeOK
<1> SUFFICES ASSUME Init PROVE TypeOK
  OBVIOUS
<1>1. TypeOKStore
  BY DEF Init, InitStore, TypeOKStore
<1>2. Vacant("idle") \in CallStates /\ Vacant("idle").pc = "idle"
  BY VacantType, ConstantsOfStatus
<1> QED BY <1>1, <1>2 DEF Init, TypeOK, Executing, Synchronous

LEMMA TypeStep == TypeOK /\ [Next]_vars => TypeOK'
<1> SUFFICES ASSUME TypeOK, [Next]_vars PROVE TypeOK'
  OBVIOUS
<1> USE ConstantsOfStatus
<1>store. TypeOKStore /\ now \in Nat
  BY DEF TypeOK, TypeOKStore
<1>same. UNCHANGED <<now, registry>> => TypeOKStore'
  BY <1>store DEF TypeOKStore
<1>cleaned. ASSUME NEW t \in Readings, UNCHANGED now, registry' = Cleaned(t)
            PROVE  TypeOKStore'
  BY <1>store, <1>cleaned, ReadingsBound, CleanedType DEF TypeOKStore
<1>row. ASSUME TypeOKStore', NEW i \in RunIds, registry'[i] # NoRow
        PROVE  /\ registry'[i] \in Rows
               /\ registry'[i].status \in Statuses
               /\ registry'[i].result \in Results \cup {None}
  <2>1. registry'[i] \in Rows
    BY <1>row DEF TypeOKStore
  <2> QED BY <2>1 DEF Rows
<1>1. ASSUME NEW c \in Calls, Dispatch(c) PROVE TypeOK'
  <2>1. PICK s \in Servers, q \in Requests, i \in NamedIds(c) :
            call' = [call EXCEPT ![c] =
                [pc |-> "connecting", server |-> s, request |-> q,
                 id |-> i, began |-> 0, read |-> None]]
    BY <1>1 DEF Dispatch
  <2>2. i \in RunIds \cup {InvalidId}
    BY IdAssumption DEF NamedIds
  <2>3. [pc |-> "connecting", server |-> s, request |-> q,
         id |-> i, began |-> 0, read |-> None] \in CallStates
    BY <2>2 DEF CallStates
  <2> QED BY <1>1, <1>same, <2>1, <2>3
          DEF Dispatch, TypeOK, Executing, Synchronous
<1>2. ASSUME NEW c \in Calls, DatabaseUnreachable(c) PROVE TypeOK'
  BY <1>2, <1>same, FinishType DEF DatabaseUnreachable
<1>3. ASSUME NEW c \in Calls, Claim(c) PROVE TypeOK'
  <2>1. CASE ClaimRejected(c)
    BY <2>1, <1>same, FinishType DEF ClaimRejected
  <2>2. CASE ClaimLocked(c)
    BY <2>2, <1>same, FinishType DEF ClaimLocked
  <2>3. ASSUME NEW t \in Readings, ClaimNew(c, t) PROVE TypeOK'
    <3>1. NewRow(BindingOf(c), c, t) \in Rows
      BY <1>store, ReadingsBound, BindingType, NewRowType
    <3>2. TypeOKStore'
      BY <2>3, <3>1, <1>store, ReadingsBound, CleanedType
         DEF ClaimNew, ClaimCreates, TypeOKStore
    <3>3. call[c].id \in RunIds
      BY <2>3 DEF ClaimNew, TypeOK, CallStates
    <3>4. call' \in [Calls -> CallStates]
      <4>1. call' = [call EXCEPT ![c] = [call[c] EXCEPT !.pc = "auditing", !.began = now]]
        BY <2>3 DEF ClaimNew, TypeOK
      <4>2. call[c] \in CallStates
        BY DEF TypeOK
      <4>3. [call[c] EXCEPT !.pc = "auditing", !.began = now] \in CallStates
        BY <4>2, <1>store DEF CallStates
      <4> QED BY <4>1, <4>3 DEF TypeOK
    <3>5. \A d \in Calls :
            /\ call'[d].pc \in Executing => call'[d].id \in RunIds
            /\ call'[d].pc = "updating" => call'[d].read \in Bindings
      <4>1. call[c] \in CallStates
        BY DEF TypeOK
      <4>2. call'[c].pc = "auditing" /\ call'[c].id = call[c].id
        BY <2>3, <4>1 DEF ClaimNew, TypeOK, CallStates
      <4>3. \A d \in Calls \ {c} : call'[d] = call[d]
        BY <2>3 DEF ClaimNew, TypeOK
      <4> QED BY <3>3, <4>2, <4>3 DEF TypeOK
    <3>6. answer' = None
      BY <2>3 DEF ClaimNew
    <3> QED BY <3>2, <3>4, <3>5, <3>6 DEF TypeOK
  <2>4. ASSUME NEW t \in Readings, ClaimExisting(c, t) PROVE TypeOK'
    <3>1. TypeOKStore'
      BY <2>4, <1>cleaned DEF ClaimExisting, ClaimFinds
    <3>2. call[c].id \in RunIds
      BY <2>4 DEF ClaimExisting, TypeOK, CallStates
    <3>3. registry'[call[c].id] # NoRow
      BY <2>4 DEF ClaimExisting, ClaimFinds
    <3> QED BY <2>4, <3>1, <3>2, <3>3, <1>row, FinishType DEF ClaimExisting
  <2>5. ASSUME NEW t \in Readings, ClaimConflict(c, t) PROVE TypeOK'
    BY <2>5, <1>same, FinishType DEF ClaimConflict, ClaimConflicts
  <2> QED BY <1>3, <2>1, <2>2, <2>3, <2>4, <2>5 DEF Claim
<1>4. ASSUME NEW c \in Calls, Execute(c) PROVE TypeOK'
  <2>id. call[c].pc \in Executing => call[c].id \in RunIds
    BY DEF TypeOK
  <2>1. CASE BeginComplete(c)
    <3>1. call[c].id \in RunIds
      BY <2>1, <2>id DEF BeginComplete, Executing
    <3>2. registry[call[c].id] \in Rows
      BY <2>1, <3>1, <1>store DEF BeginComplete, IsStarted, TypeOKStore, NoRow
    <3>3. registry[call[c].id].binding \in Bindings
      BY <3>2 DEF Rows
    <3>4. call' \in [Calls -> CallStates]
      <4> DEFINE read == registry[call[c].id].binding
      <4>1. call' = [call EXCEPT ![c] = [call[c] EXCEPT !.pc = "updating", !.read = read]]
        BY <2>1 DEF BeginComplete, TypeOK
      <4> HIDE DEF read
      <4>2. call[c] \in CallStates /\ read \in Bindings \cup {None}
        BY <3>3 DEF TypeOK, read
      <4>3. [call[c] EXCEPT !.pc = "updating", !.read = read] \in CallStates
        BY <4>2 DEF CallStates
      <4> QED BY <4>1, <4>3 DEF TypeOK
    <3>5. \A d \in Calls :
            /\ call'[d].pc \in Executing => call'[d].id \in RunIds
            /\ call'[d].pc = "updating" => call'[d].read \in Bindings
      BY <2>1, <3>1, <3>3 DEF BeginComplete, TypeOK, CallStates
    <3> QED BY <2>1, <3>4, <3>5, <1>same DEF BeginComplete, TypeOK
  <2>2. CASE AuditRaises(c)
    BY <2>2, <2>id, <1>same, ContinueType DEF AuditRaises, Executing
  <2>3. ASSUME NEW t \in Readings, CommitComplete(c, t) PROVE TypeOK'
    <3>1. call[c].id \in RunIds
      BY <2>3, <2>id DEF CommitComplete, Executing, Synchronous
    <3>2. BindingOf(c) \in Bindings /\ call[c].read \in Bindings
      BY <2>3, BindingType DEF CommitComplete, TypeOK
    <3>5. TypeOKStore'
      BY <2>3, <3>1, <3>2, <1>store, ReadingsBound, UpdateType DEF CommitComplete
    <3>3. CASE registry'[call[c].id] # NoRow /\ registry'[call[c].id].result # None
      BY <2>3, <3>1, <3>5, <3>3, <1>row, FinishType DEF CommitComplete, Statuses, LiveStatuses
    <3>4. CASE ~ (registry'[call[c].id] # NoRow /\ registry'[call[c].id].result # None)
      BY <2>3, <3>1, <3>5, <3>4, ContinueType DEF CommitComplete
    <3> QED BY <3>3, <3>4
  <2>4. ASSUME NEW t \in Readings, CommitFail(c, t) PROVE TypeOK'
    <3>1. call[c].id \in RunIds
      BY <2>4, <2>id DEF CommitFail, Executing, Synchronous
    <3>2. TypeOKStore'
      BY <2>4, <3>1, <1>store, ReadingsBound, UpdateType DEF CommitFail
    <3> QED BY <2>4, <3>2, FinishType DEF CommitFail
  <2>5. CASE CompleteLocked(c)
    BY <2>5, <2>id, <1>same, ContinueType DEF CompleteLocked, Executing, Synchronous
  <2>6. CASE BeginFail(c)
    BY <2>6, <2>id, <1>same, ContinueType, FinishType DEF BeginFail, Executing, Synchronous
  <2>7. CASE FailLocked(c)
    BY <2>7, <1>same, FinishType DEF FailLocked
  <2> QED BY <1>4, <2>1, <2>2, <2>3, <2>4, <2>5, <2>6, <2>7 DEF Execute
<1>vacant. Vacant("done") \in CallStates /\ Vacant("done").pc = "done"
  BY VacantType
<1>5. ASSUME NEW c \in Calls, Cancel(c) PROVE TypeOK'
  BY <1>5, <1>same, <1>vacant DEF Cancel, TypeOK, Executing, Synchronous
<1>6. ASSUME NEW s \in Servers, Crash(s) PROVE TypeOK'
  BY <1>6, <1>same, <1>vacant DEF Crash, TypeOK, Executing, Synchronous
<1>7. ASSUME NEW s \in Servers, NEW i \in RunIds, NEW t \in Readings, GetAuditRun(s, i, t)
      PROVE  TypeOK'
  <2>1. TypeOKStore'
    BY <1>7, <1>cleaned DEF GetAuditRun, Get
  <2>2. answer' \in Answers
    <3>1. CASE registry'[i] = NoRow
      BY <1>7, <3>1 DEF GetAuditRun, Lookup, Answers
    <3>2. CASE registry'[i] # NoRow /\ registry'[i].binding.database # DatabaseOf[s]
      BY <1>7, <3>2 DEF GetAuditRun, Lookup, Answers
    <3>3. CASE registry'[i] # NoRow /\ registry'[i].binding.database = DatabaseOf[s]
      BY <1>7, <2>1, <3>3, <1>row DEF GetAuditRun, Lookup, Answers
    <3> QED BY <3>1, <3>2, <3>3
  <2> QED BY <1>7, <2>1, <2>2 DEF GetAuditRun, TypeOK
<1>8. ASSUME NEW i \in RunIds, DeleteRow(i) PROVE TypeOK'
  BY <1>8, <1>store DEF DeleteRow, Delete, TypeOK, TypeOKStore
<1>9. CASE Tick
  BY <1>9, <1>store DEF Tick, TypeOK, TypeOKStore
<1>10. CASE UNCHANGED vars
  BY <1>10, <1>same DEF vars, TypeOK
<1> QED BY <1>1, <1>2, <1>3, <1>4, <1>5, <1>6, <1>7, <1>8, <1>9, <1>10 DEF Next, LookUpAny

(* Every variable keeps its type in every behaviour: in particular a row   *)
(* never exists without its expiry times, and a call that holds a claim    *)
(* names a run.  Whatever deadline, deletion and retention are.            *)
THEOREM TypeCorrect == Spec => []TypeOK
<1> QED BY InitType, TypeStep, PTL DEF Spec

-----------------------------------------------------------------------------
(* Run identity.                                                           *)

(* Cleanup cannot take the row of a call that is still executing: it goes  *)
(* by clock readings no later than now, and the tombstone outlives the     *)
(* longest audit.                                                          *)
LEMMA CleanupSparesExecutors ==
    ASSUME Punctual, IInv, NEW t \in Readings,
           NEW c \in Calls, call[c].pc \in Executing
    PROVE  LET i == call[c].id
           IN  /\ Cleaned(t)[i] # NoRow
               /\ Cleaned(t)[i].creator = c
               /\ Cleaned(t)[i].binding = registry[i].binding
               /\ Cleaned(t)[i].tombstone = registry[i].tombstone
<1> DEFINE i == call[c].id
<1>1. HoldsRow(c) /\ i \in RunIds
  BY DEF IInv, TypeOK, ExecutorHoldsRow
<1>2. registry[i] \in Rows
  BY <1>1 DEF HoldsRow, OwnsRow, IInv, TypeOK, TypeOKStore
<1>3. /\ t \in Nat /\ t <= now /\ now \in Nat
      /\ call[c].began \in Nat
      /\ registry[i].tombstone \in Nat
  BY <1>2, ReadingsBound DEF IInv, TypeOK, TypeOKStore, CallStates, Rows
<1>4. ~ (registry[i].tombstone <= t)
  BY <1>1, <1>3, RetentionAssumption, LockWaitAssumption, BoundsAssumption
     DEF HoldsRow, Punctual
<1>5. TypeOKStore
  BY DEF IInv, TypeOK
<1>6. CASE Cleaned(t)[i] = registry[i]
  BY <1>1, <1>6 DEF HoldsRow, OwnsRow
<1>7. CASE Cleaned(t)[i] = [registry[i] EXCEPT !.status = "EXPIRED", !.result = None]
  BY <1>1, <1>2, <1>7, NoRowIsNoRow DEF HoldsRow, OwnsRow, Rows, NoRow
<1> QED BY <1>1, <1>3, <1>4, <1>5, <1>6, <1>7, CleanedRow

(* A call that goes on executing, over a row that is still its own.        *)
LEMMA StillHolds ==
    ASSUME IInv, NEW c \in Calls, call[c].pc \in Executing,
           call'[c].id = call[c].id, call'[c].server = call[c].server,
           call'[c].request = call[c].request, call'[c].began = call[c].began,
           call'[c].pc = "updating" => call'[c].read = registry[call[c].id].binding,
           now' <= call[c].began + AuditLimit,
           registry'[call[c].id] # NoRow,
           registry'[call[c].id].creator = c,
           registry'[call[c].id].binding = registry[call[c].id].binding,
           registry'[call[c].id].tombstone = registry[call[c].id].tombstone
    PROVE  HoldsRow(c)'
BY DEF IInv, ExecutorHoldsRow, HoldsRow, OwnsRow, BindingOf

LEMMA InitInvariant == Init => IInv
<1> SUFFICES ASSUME Init PROVE IInv
  OBVIOUS
<1>1. TypeOK
  BY InitType
<1>2. Vacant("idle").pc = "idle"
  BY VacantType, ConstantsOfStatus
<1>3. \A c \in Calls : call[c].pc \notin Executing
  BY <1>2 DEF Init, Executing, Synchronous
<1>4. \A i \in RunIds : registry[i] = NoRow
  BY DEF Init, InitStore
<1> QED BY <1>1, <1>3, <1>4
        DEF IInv, ExecutorHoldsRow, PayloadIsOfItsRow, CreatorHasClaimed, TombstoneOutlives

(* Two executing calls cannot hold the same row. *)
LEMMA ExecutorsDiffer ==
    ASSUME IInv, NEW c \in Calls, NEW d \in Calls,
           call[c].pc \in Executing, call[d].pc \in Executing,
           call[c].id = call[d].id
    PROVE  c = d
BY DEF IInv, ExecutorHoldsRow, HoldsRow, OwnsRow

(* A step that leaves clock and registry alone and moves calls on or ends  *)
(* them.                                                                   *)
LEMMA CallsMove ==
    ASSUME IInv, TypeOK', UNCHANGED <<now, registry>>,
           \A d \in Calls :
              /\ call'[d].pc \in Executing =>
                    /\ call[d].pc \in Executing
                    /\ call'[d].id = call[d].id
                    /\ call'[d].server = call[d].server
                    /\ call'[d].request = call[d].request
                    /\ call'[d].began = call[d].began
                    /\ call'[d].pc = "updating" =>
                          call'[d].read = registry[call[d].id].binding
              /\ call'[d].pc \in {"idle", "connecting"} =>
                    call[d].pc \in {"idle", "connecting"}
    PROVE  IInv'
<1>1. ASSUME NEW d \in Calls, call'[d].pc \in Executing PROVE HoldsRow(d)'
  <2>1. HoldsRow(d)
    BY <1>1 DEF IInv, ExecutorHoldsRow
  <2> QED BY <1>1, <2>1, StillHolds DEF HoldsRow, OwnsRow
<1>2. PayloadIsOfItsRow' /\ TombstoneOutlives'
  BY DEF IInv, PayloadIsOfItsRow, TombstoneOutlives
<1>3. CreatorHasClaimed'
  <2>1. ASSUME NEW i \in RunIds, registry[i] # NoRow
        PROVE  registry[i].creator \in Calls
    BY <2>1 DEF IInv, TypeOK, TypeOKStore, Rows, Calls
  <2> QED BY <2>1 DEF IInv, CreatorHasClaimed
<1> QED BY <1>1, <1>2, <1>3 DEF IInv, ExecutorHoldsRow

(* What cleanup keeps of the rows that survive it. *)
LEMMA SurvivorsKeep ==
    ASSUME TypeOKStore, NEW t \in Nat, NEW i \in RunIds, Cleaned(t)[i] # NoRow
    PROVE  /\ registry[i] \in Rows
           /\ Cleaned(t)[i].binding = registry[i].binding
           /\ Cleaned(t)[i].creator = registry[i].creator
           /\ Cleaned(t)[i].expires = registry[i].expires
           /\ Cleaned(t)[i].tombstone = registry[i].tombstone
           /\ \/ Cleaned(t)[i] = registry[i]
              \/ Cleaned(t)[i].status = "EXPIRED" /\ Cleaned(t)[i].result = None
<1>1. CASE Cleaned(t)[i] = registry[i]
  BY <1>1 DEF TypeOKStore
<1>2. CASE /\ registry[i] \in Rows
           /\ Cleaned(t)[i] = [registry[i] EXCEPT !.status = "EXPIRED", !.result = None]
  BY <1>2 DEF Rows
<1> QED BY <1>1, <1>2, CleanedRow

(* Cleanup, with calls only ending. *)
LEMMA CleanupStep ==
    ASSUME Punctual, IInv, TypeOK', NEW t \in Readings,
           UNCHANGED now, registry' = Cleaned(t),
           \A d \in Calls : call'[d] = call[d] \/ call'[d].pc = "done"
    PROVE  IInv'
<1>0. TypeOKStore /\ t \in Nat
  BY ReadingsBound DEF IInv, TypeOK, TypeOKStore
<1>1. ASSUME NEW d \in Calls, call'[d].pc \in Executing PROVE HoldsRow(d)'
  <2>1. call'[d] = call[d]
    BY <1>1 DEF Executing, Synchronous
  <2>2. HoldsRow(d)
    BY <1>1, <2>1 DEF IInv, ExecutorHoldsRow
  <2> QED BY <1>1, <2>1, <2>2, CleanupSparesExecutors, StillHolds DEF HoldsRow, OwnsRow
<1>2. PayloadIsOfItsRow' /\ TombstoneOutlives'
  BY <1>0, SurvivorsKeep, NoRowIsNoRow DEF IInv, PayloadIsOfItsRow, TombstoneOutlives
<1>3. CreatorHasClaimed'
  <2>1. ASSUME NEW i \in RunIds, Cleaned(t)[i] # NoRow
        PROVE  /\ registry[i] # NoRow
               /\ Cleaned(t)[i].creator = registry[i].creator
               /\ registry[i].creator \in Calls
    BY <1>0, <2>1, SurvivorsKeep, NoRowIsNoRow DEF Rows, Calls
  <2> QED BY <2>1 DEF IInv, CreatorHasClaimed
<1> QED BY <1>1, <1>2, <1>3 DEF IInv, ExecutorHoldsRow

(* The UPDATE that settles the row of an executing call, which ends.       *)
LEMMA SettleStep ==
    ASSUME IInv, TypeOK', UNCHANGED now, NEW c \in Calls, call[c].pc \in Executing,
           NEW status \in Statuses, NEW result \in Results \cup {None}, NEW t \in Nat,
           registry' = [registry EXCEPT ![call[c].id] = Settled(@, status, result, t)],
           result # None =>
              /\ status = "COMPLETED"
              /\ result = [evidence |-> BindingOf(c), provenance |-> BindingOf(c)],
           call' = [call EXCEPT ![c] = Vacant("done")]
    PROVE  IInv'
<1> DEFINE i == call[c].id
<1>0. HoldsRow(c) /\ i \in RunIds
  BY DEF IInv, TypeOK, ExecutorHoldsRow
<1>1. registry[i] \in Rows /\ registry'[i] \in Rows
  BY <1>0, SettledType DEF HoldsRow, OwnsRow, IInv, TypeOK, TypeOKStore
<1>2. /\ registry'[i].binding = registry[i].binding
      /\ registry'[i].creator = registry[i].creator
      /\ registry'[i].result = result
      /\ registry'[i].status = status
      /\ registry'[i].expires = t + Retention
      /\ registry'[i].tombstone = t + Retention + Tombstone
  BY <1>0, <1>1 DEF Settled, IInv, TypeOK, TypeOKStore, Rows
<1>3. \A j \in RunIds \ {i} : registry'[j] = registry[j]
  BY DEF IInv, TypeOK, TypeOKStore
<1>4. call'[c].pc = "done" /\ \A d \in Calls \ {c} : call'[d] = call[d]
  BY VacantType, ConstantsOfStatus DEF IInv, TypeOK
<1>5. ASSUME NEW d \in Calls, call'[d].pc \in Executing PROVE HoldsRow(d)'
  <2>1. d # c /\ call'[d] = call[d]
    BY <1>4, <1>5 DEF Executing, Synchronous
  <2>2. HoldsRow(d) /\ call[d].id \in RunIds
    BY <1>5, <2>1 DEF IInv, TypeOK, ExecutorHoldsRow
  <2>3. call[d].id # i
    BY <1>5, <2>1, ExecutorsDiffer
  <2> QED BY <1>3, <1>5, <2>1, <2>2, <2>3, StillHolds DEF HoldsRow, OwnsRow
<1>6. PayloadIsOfItsRow'
  <2>1. registry[i].binding = BindingOf(c)
    BY <1>0 DEF HoldsRow
  <2>2. result # None =>
            /\ registry'[i].status = "COMPLETED"
            /\ registry'[i].result = [evidence |-> registry'[i].binding,
                                     provenance |-> registry'[i].binding]
    BY <1>2, <2>1
  <2>3. PayloadIsOfItsRow
    BY DEF IInv
  <2> QED BY <1>2, <1>3, <2>2, <2>3 DEF PayloadIsOfItsRow
<1>7. TombstoneOutlives'
  BY <1>2, <1>3, RetentionAssumption DEF IInv, TombstoneOutlives
<1>8. CreatorHasClaimed'
  <2>1. ASSUME NEW j \in RunIds, registry'[j] # NoRow
        PROVE  /\ registry[j] # NoRow
               /\ registry'[j].creator = registry[j].creator
               /\ registry[j].creator \in Calls
    <3>1. registry[j] # NoRow /\ registry'[j].creator = registry[j].creator
      BY <1>1, <1>2, <1>3, <2>1, NoRowIsNoRow
    <3>2. registry[j] \in Rows
      BY <3>1 DEF IInv, TypeOK, TypeOKStore
    <3>3. registry[j].creator \in Calls
      BY <3>2 DEF Rows, Calls
    <3> QED BY <3>1, <3>3
  <2>2. CreatorHasClaimed
    BY DEF IInv
  <2> SUFFICES ASSUME NEW j \in RunIds, registry'[j] # NoRow
               PROVE  call'[registry'[j].creator].pc \notin {"idle", "connecting"}
    BY DEF CreatorHasClaimed
  <2>3. call[registry[j].creator].pc \notin {"idle", "connecting"}
    BY <2>1, <2>2 DEF CreatorHasClaimed
  <2>4. CASE registry[j].creator = c
    BY <1>4, <2>1, <2>4
  <2>5. CASE registry[j].creator # c
    BY <1>4, <2>1, <2>3, <2>5
  <2> QED BY <2>4, <2>5
<1> QED BY <1>5, <1>6, <1>7, <1>8 DEF IInv, ExecutorHoldsRow

(* The INSERT of a claim: the new executor takes an ID nobody executes.    *)
LEMMA ClaimNewStep ==
    ASSUME Punctual, IInv, TypeOK', NEW c \in Calls, NEW t \in Readings, ClaimNew(c, t)
    PROVE  IInv'
<1> DEFINE i == call[c].id
<1>0. TypeOKStore /\ t \in Nat /\ now \in Nat /\ t <= now /\ now <= t + LockWait
  BY ReadingsBound DEF IInv, TypeOK, TypeOKStore
<1>1. i \in RunIds /\ Cleaned(t)[i] = NoRow
  BY DEF ClaimNew, ClaimCreates, IInv, TypeOK, CallStates
<1>2. registry'[i] = NewRow(BindingOf(c), c, t)
  BY <1>0, <1>1, CleanedType DEF ClaimNew, ClaimCreates
<1>3. \A j \in RunIds \ {i} : registry'[j] = Cleaned(t)[j]
  BY <1>0, CleanedType DEF ClaimNew, ClaimCreates
<1>4. /\ \A d \in Calls \ {c} : call'[d] = call[d]
      /\ call'[c].pc = "auditing" /\ call'[c].began = now
      /\ call'[c].id = i /\ call'[c].server = call[c].server
      /\ call'[c].request = call[c].request
  BY DEF ClaimNew, IInv, TypeOK, CallStates
<1>5. ASSUME NEW d \in Calls, call'[d].pc \in Executing PROVE HoldsRow(d)'
  <2>1. CASE d = c
    <3>1. registry'[i] # NoRow
      BY <1>2 DEF NewRow, NoRow
    <3>2. registry'[i].creator = c /\ registry'[i].binding = BindingOf(c)
      BY <1>2 DEF NewRow
    <3>3. BindingOf(c)' = BindingOf(c)
      BY <1>4 DEF BindingOf
    <3>4. now + Retention + Tombstone <= registry'[i].tombstone + LockWait
      BY <1>0, <1>2, RetentionAssumption, LockWaitAssumption DEF NewRow
    <3>5. now' = now /\ now <= now + AuditLimit
      BY <1>0, BoundsAssumption DEF ClaimNew
    <3> QED BY <1>4, <2>1, <3>1, <3>2, <3>3, <3>4, <3>5 DEF HoldsRow, OwnsRow
  <2>2. CASE d # c
    <3>1. call'[d] = call[d] /\ HoldsRow(d) /\ call[d].id \in RunIds
      BY <1>4, <1>5, <2>2 DEF IInv, TypeOK, ExecutorHoldsRow
    <3>2. call[d].id # i
      BY <1>1, <1>5, <3>1, CleanupSparesExecutors
    <3>3. registry'[call[d].id] = Cleaned(t)[call[d].id]
      BY <1>3, <3>1, <3>2
    <3>4. /\ registry'[call[d].id] # NoRow
          /\ registry'[call[d].id].creator = d
          /\ registry'[call[d].id].binding = registry[call[d].id].binding
          /\ registry'[call[d].id].tombstone = registry[call[d].id].tombstone
      BY <1>5, <3>1, <3>3, CleanupSparesExecutors
    <3>5. now' <= call[d].began + AuditLimit
      BY <3>1 DEF HoldsRow, ClaimNew
    <3>6. call'[d].pc = "updating" => call'[d].read = registry[call[d].id].binding
      BY <3>1 DEF HoldsRow
    <3> HIDE DEF i
    <3> QED BY <1>5, <3>1, <3>4, <3>5, <3>6, StillHolds
  <2> QED BY <2>1, <2>2
<1>6. PayloadIsOfItsRow' /\ TombstoneOutlives'
  <2>1. ASSUME NEW j \in RunIds \ {i}, Cleaned(t)[j] # NoRow
        PROVE  /\ registry[j] # NoRow
               /\ Cleaned(t)[j].tombstone = Cleaned(t)[j].expires + Tombstone
               /\ Cleaned(t)[j].result # None =>
                    /\ Cleaned(t)[j].status = "COMPLETED"
                    /\ Cleaned(t)[j].result = [evidence |-> Cleaned(t)[j].binding,
                                               provenance |-> Cleaned(t)[j].binding]
    BY <1>0, <2>1, SurvivorsKeep, NoRowIsNoRow
       DEF IInv, PayloadIsOfItsRow, TombstoneOutlives
  <2>2. /\ registry'[i].result = None
        /\ registry'[i].tombstone = registry'[i].expires + Tombstone
    BY <1>2 DEF NewRow
  <2> QED BY <1>3, <2>1, <2>2 DEF PayloadIsOfItsRow, TombstoneOutlives
<1>7. CreatorHasClaimed'
  <2>1. ASSUME NEW j \in RunIds \ {i}, Cleaned(t)[j] # NoRow
        PROVE  /\ Cleaned(t)[j].creator \in Calls
               /\ call[Cleaned(t)[j].creator].pc \notin {"idle", "connecting"}
    BY <1>0, <2>1, SurvivorsKeep, NoRowIsNoRow DEF IInv, CreatorHasClaimed, Rows, Calls
  <2>2. registry'[i].creator = c
    BY <1>2 DEF NewRow
  <2> QED BY <1>3, <1>4, <2>1, <2>2 DEF CreatorHasClaimed
<1> QED BY <1>5, <1>6, <1>7 DEF IInv, ExecutorHoldsRow

LEMMA InvariantStep == Punctual /\ IInv /\ [Next]_vars => IInv'
<1> SUFFICES ASSUME Punctual, IInv, [Next]_vars PROVE IInv'
  OBVIOUS
<1> USE DEF Executing, Synchronous
<1>t. TypeOK' /\ TypeOK
  BY TypeStep DEF IInv
<1>calls. call \in [Calls -> CallStates]
  BY <1>t DEF TypeOK
<1>done. Vacant("done").pc = "done"
  BY VacantType, ConstantsOfStatus
<1>finish. ASSUME NEW c \in Calls, NEW status, NEW result, Finish(c, status, result)
           PROVE  \A d \in Calls : call'[d] = call[d] \/ call'[d].pc = "done"
  BY <1>finish, <1>done, <1>calls DEF Finish
<1>continue. ASSUME NEW c \in Calls, call[c].pc \in Executing,
                    NEW pc \in {"failing", "marking"}, Continue(c, pc),
                    UNCHANGED <<now, registry>>
             PROVE  IInv'
  <2>1. /\ call'[c] = [call[c] EXCEPT !.pc = pc]
        /\ \A d \in Calls \ {c} : call'[d] = call[d]
    BY <1>continue, <1>calls DEF Continue
  <2>2. /\ call'[c].pc = pc /\ call'[c].id = call[c].id
        /\ call'[c].server = call[c].server /\ call'[c].request = call[c].request
        /\ call'[c].began = call[c].began
    BY <2>1, <1>calls DEF CallStates
  <2>3. \A d \in Calls : call[d].pc = "updating" =>
                            call[d].read = registry[call[d].id].binding
    BY DEF IInv, ExecutorHoldsRow, HoldsRow
  <2> QED BY <1>continue, <1>t, <2>1, <2>2, <2>3, CallsMove
<1>end. ASSUME UNCHANGED <<now, registry>>,
               \A d \in Calls : call'[d] = call[d] \/ call'[d].pc = "done"
        PROVE  IInv'
  <2>1. \A d \in Calls : call[d].pc = "updating" =>
                            call[d].read = registry[call[d].id].binding
    BY DEF IInv, ExecutorHoldsRow, HoldsRow
  <2> QED BY <1>end, <1>t, <2>1, CallsMove
<1>1. ASSUME NEW c \in Calls, Dispatch(c) PROVE IInv'
  <2>1. PICK s \in Servers, q \in Requests, i \in NamedIds(c) :
            call' = [call EXCEPT ![c] =
                [pc |-> "connecting", server |-> s, request |-> q,
                 id |-> i, began |-> 0, read |-> None]]
    BY <1>1 DEF Dispatch
  <2>2. /\ call'[c].pc = "connecting" /\ call[c].pc = "idle"
        /\ \A d \in Calls \ {c} : call'[d] = call[d]
    BY <1>1, <2>1, <1>calls DEF Dispatch
  <2>3. \A d \in Calls : call[d].pc = "updating" =>
                            call[d].read = registry[call[d].id].binding
    BY DEF IInv, ExecutorHoldsRow, HoldsRow
  <2>4. UNCHANGED <<now, registry>>
    BY <1>1 DEF Dispatch
  <2> QED BY <1>t, <2>2, <2>3, <2>4, CallsMove
<1>2. ASSUME NEW c \in Calls, DatabaseUnreachable(c) PROVE IInv'
  BY <1>2, <1>finish, <1>end DEF DatabaseUnreachable
<1>3. ASSUME NEW c \in Calls, Claim(c) PROVE IInv'
  <2>1. CASE ClaimRejected(c)
    BY <2>1, <1>finish, <1>end DEF ClaimRejected
  <2>2. CASE ClaimLocked(c)
    BY <2>2, <1>finish, <1>end DEF ClaimLocked
  <2>3. ASSUME NEW t \in Readings, ClaimNew(c, t) PROVE IInv'
    BY <2>3, <1>t, ClaimNewStep
  <2>4. ASSUME NEW t \in Readings, ClaimExisting(c, t) PROVE IInv'
    BY <2>4, <1>t, <1>finish, CleanupStep DEF ClaimExisting, ClaimFinds
  <2>5. ASSUME NEW t \in Readings, ClaimConflict(c, t) PROVE IInv'
    BY <2>5, <1>finish, <1>end DEF ClaimConflict, ClaimConflicts
  <2> QED BY <1>3, <2>1, <2>2, <2>3, <2>4, <2>5 DEF Claim
<1>4. ASSUME NEW c \in Calls, Execute(c) PROVE IInv'
  <2>hold. call[c].pc \in Executing =>
              /\ HoldsRow(c) /\ call[c].id \in RunIds
              /\ BindingOf(c) \in Bindings
    BY <1>t, BindingType DEF IInv, ExecutorHoldsRow, TypeOK
  <2>1. CASE BeginComplete(c)
    <3>1. /\ call[c].pc = "auditing" /\ call'[c].pc = "updating"
          /\ call'[c].read = registry[call[c].id].binding
          /\ call'[c].id = call[c].id /\ call'[c].server = call[c].server
          /\ call'[c].request = call[c].request /\ call'[c].began = call[c].began
          /\ \A d \in Calls \ {c} : call'[d] = call[d]
      BY <2>1, <1>calls DEF BeginComplete, CallStates
    <3>2. \A d \in Calls : call[d].pc = "updating" =>
                              call[d].read = registry[call[d].id].binding
      BY DEF IInv, ExecutorHoldsRow, HoldsRow
    <3>3. UNCHANGED <<now, registry>>
      BY <2>1 DEF BeginComplete
    <3> QED BY <1>t, <3>1, <3>2, <3>3, CallsMove
  <2>2. CASE AuditRaises(c)
    BY <2>2, <1>continue DEF AuditRaises
  <2>3. ASSUME NEW t \in Readings, CommitComplete(c, t) PROVE IInv'
    <3>0. /\ HoldsRow(c) /\ call[c].id \in RunIds /\ BindingOf(c) \in Bindings
          /\ call[c].pc = "updating" /\ UNCHANGED now
      BY <2>3, <2>hold DEF CommitComplete
    <3>1. CASE IsStarted(call[c].id)
      <4> DEFINE result == [evidence |-> BindingOf(c), provenance |-> BindingOf(c)]
      <4>1. registry' = [registry EXCEPT ![call[c].id] = Settled(@, "COMPLETED", result, t)]
        BY <2>3, <3>0, <3>1 DEF CommitComplete, CompleteUpdate, HoldsRow
      <4>2. result \in Results /\ result # None
        BY <3>0, NoneAssumption DEF Results
      <4>3. registry[call[c].id] \in Rows
        BY <3>0, <1>t DEF HoldsRow, OwnsRow, TypeOK, TypeOKStore
      <4>4. registry'[call[c].id] # NoRow /\ registry'[call[c].id].result = result
        <5>1. registry'[call[c].id] = Settled(registry[call[c].id], "COMPLETED", result, t)
          BY <3>0, <4>1, <1>t DEF TypeOK, TypeOKStore
        <5>2. t \in Nat
          BY <1>t, ReadingsBound DEF TypeOK, TypeOKStore
        <5>3. registry'[call[c].id] \in Rows
          BY <4>2, <4>3, <5>1, <5>2, SettledType DEF Statuses, LiveStatuses
        <5>4. Settled(registry[call[c].id], "COMPLETED", result, t).result = result
          BY <4>3 DEF Settled, Rows
        <5> QED BY <5>1, <5>3, <5>4, NoRowIsNoRow
      <4>5. call' = [call EXCEPT ![c] = Vacant("done")]
        BY <2>3, <4>2, <4>4 DEF CommitComplete, Finish
      <4>6. t \in Nat /\ "COMPLETED" \in Statuses
        BY <1>t, ReadingsBound DEF TypeOK, TypeOKStore, Statuses, LiveStatuses
      <4> HIDE DEF result
      <4>7. result = [evidence |-> BindingOf(c), provenance |-> BindingOf(c)]
        BY DEF result
      <4> QED BY <1>t, <3>0, <4>1, <4>2, <4>5, <4>6, <4>7, SettleStep
    <3>2. CASE ~ IsStarted(call[c].id)
      <4>1. registry' = registry
        BY <2>3, <3>2 DEF CommitComplete, CompleteUpdate
      <4>2. \/ Continue(c, "failing")
            \/ \E result : Finish(c, "COMPLETED", result)
        BY <2>3 DEF CommitComplete
      <4> QED BY <3>0, <4>1, <4>2, <1>continue, <1>finish, <1>end
    <3> QED BY <3>1, <3>2
  <2>4. ASSUME NEW t \in Readings, CommitFail(c, t) PROVE IInv'
    <3>0. /\ HoldsRow(c) /\ call[c].id \in RunIds
          /\ call[c].pc = "marking" /\ UNCHANGED now
          /\ Finish(c, "ERROR", None)
      BY <2>4, <2>hold DEF CommitFail
    <3>1. CASE IsStarted(call[c].id)
      <4>1. registry' = [registry EXCEPT ![call[c].id] = Settled(@, "FAILED", None, t)]
        BY <2>4, <3>1 DEF CommitFail, FailUpdate
      <4>2. t \in Nat /\ "FAILED" \in Statuses
        BY <1>t, ReadingsBound DEF TypeOK, TypeOKStore, Statuses, LiveStatuses
      <4> QED BY <1>t, <3>0, <4>1, <4>2, SettleStep DEF Finish
    <3>2. CASE ~ IsStarted(call[c].id)
      BY <2>4, <3>0, <3>2, <1>finish, <1>end DEF CommitFail, FailUpdate
    <3> QED BY <3>1, <3>2
  <2>5. CASE CompleteLocked(c)
    BY <2>5, <1>continue DEF CompleteLocked
  <2>6. CASE BeginFail(c)
    BY <2>6, <1>continue, <1>finish, <1>end DEF BeginFail
  <2>7. CASE FailLocked(c)
    BY <2>7, <1>finish, <1>end DEF FailLocked
  <2> QED BY <1>4, <2>1, <2>2, <2>3, <2>4, <2>5, <2>6, <2>7 DEF Execute
<1>5. ASSUME NEW c \in Calls, Cancel(c) PROVE IInv'
  BY <1>5, <1>end, <1>done, <1>calls DEF Cancel
<1>6. ASSUME NEW s \in Servers, Crash(s) PROVE IInv'
  BY <1>6, <1>end, <1>done, <1>calls DEF Crash
<1>7. ASSUME NEW s \in Servers, NEW i \in RunIds, NEW t \in Readings, GetAuditRun(s, i, t)
      PROVE  IInv'
  BY <1>7, <1>t, CleanupStep DEF GetAuditRun, Get
<1>8. ASSUME NEW i \in RunIds, DeleteRow(i) PROVE IInv'
  BY <1>8 DEF DeleteRow, Punctual
<1>9. CASE Tick
  <2>1. ASSUME NEW d \in Calls, call'[d].pc \in Executing PROVE HoldsRow(d)'
    <3>1. now' <= call[d].began + AuditLimit
      BY <1>9, <1>t, <2>1, BoundsAssumption DEF Tick, TypeOK, TypeOKStore, CallStates
    <3>2. HoldsRow(d)
      BY <1>9, <2>1 DEF Tick, IInv, ExecutorHoldsRow
    <3> QED BY <1>9, <2>1, <3>1, <3>2, StillHolds DEF Tick, HoldsRow, OwnsRow
  <2> QED BY <1>9, <1>t, <2>1
          DEF Tick, IInv, ExecutorHoldsRow, PayloadIsOfItsRow, CreatorHasClaimed,
              TombstoneOutlives
<1>10. CASE UNCHANGED vars
  BY <1>10, <1>end DEF vars
<1> QED BY <1>1, <1>2, <1>3, <1>4, <1>5, <1>6, <1>7, <1>8, <1>9, <1>10 DEF Next, LookUpAny

(* The inductive invariant holds in every behaviour, provided nobody       *)
(* deletes rows and no audit outlives retention and tombstone.             *)
THEOREM InvariantHolds == ASSUME Punctual PROVE Spec => []IInv
<1>1. Punctual
  OBVIOUS
<1> QED BY <1>1, InitInvariant, InvariantStep, PTL DEF Spec

(* At most one call executes an audit for a run ID. *)
THEOREM OneExecutorHolds == ASSUME Punctual PROVE Spec => []OneExecutor
<1>1. IInv => OneExecutor
  BY ExecutorsDiffer DEF OneExecutor
<1> QED BY <1>1, InvariantHolds, PTL

-----------------------------------------------------------------------------
(* What the tools return.                                                  *)
Answered == NoForeignDatabase /\ NoForeignEvidence

LEMMA AnswersStep == Punctual /\ IInv /\ Answered /\ [Next]_vars => Answered'
<1> SUFFICES ASSUME Punctual, IInv, Answered, [Next]_vars PROVE Answered'
  OBVIOUS
<1> USE DEF Answered, NoForeignDatabase, NoForeignEvidence
<1>inv. IInv' /\ TypeOK /\ TypeOK'
  BY InvariantStep DEF IInv
<1>none. answer' = None => Answered'
  OBVIOUS
<1>empty. ASSUME NEW c \in Calls, NEW status, Finish(c, status, None)
          PROVE  Answered'
  BY <1>empty DEF Finish, AnswerAs
<1>row. ASSUME NEW i \in RunIds, registry'[i] # NoRow, registry'[i].result # None
        PROVE  /\ registry'[i].status = "COMPLETED"
               /\ registry'[i].result = [evidence |-> registry'[i].binding,
                                         provenance |-> registry'[i].binding]
  BY <1>row, <1>inv DEF IInv, PayloadIsOfItsRow
<1>answer. ASSUME NEW c \in Calls, NEW status, call[c].id \in RunIds,
                  registry'[call[c].id] # NoRow,
                  registry'[call[c].id].binding = BindingOf(c),
                  Finish(c, status, registry'[call[c].id].result)
           PROVE  Answered'
  <2>1. /\ answer'.to = call[c].server /\ answer'.asked = BindingOf(c)
        /\ answer'.id = call[c].id
        /\ answer'.result = registry'[call[c].id].result
    BY <1>answer DEF Finish, AnswerAs
  <2>2. BindingOf(c).database = DatabaseOf[call[c].server]
    BY DEF BindingOf
  <2>3. CASE registry'[call[c].id].result = None
    BY <2>1, <2>3
  <2>4. CASE registry'[call[c].id].result # None
    <3>1. /\ registry'[call[c].id].status = "COMPLETED"
          /\ answer'.result = [evidence |-> BindingOf(c), provenance |-> BindingOf(c)]
      BY <1>answer, <1>row, <2>1, <2>4
    <3> QED BY <2>1, <2>2, <3>1
  <2> QED BY <2>3, <2>4
<1>1. ASSUME NEW c \in Calls, Dispatch(c) PROVE Answered'
  BY <1>1, <1>none DEF Dispatch
<1>2. ASSUME NEW c \in Calls, DatabaseUnreachable(c) PROVE Answered'
  BY <1>2, <1>empty DEF DatabaseUnreachable
<1>3. ASSUME NEW c \in Calls, Claim(c) PROVE Answered'
  <2>1. CASE ClaimRejected(c) \/ ClaimLocked(c)
    BY <2>1, <1>empty DEF ClaimRejected, ClaimLocked
  <2>2. ASSUME NEW t \in Readings, ClaimNew(c, t) PROVE Answered'
    BY <2>2, <1>none DEF ClaimNew
  <2>3. ASSUME NEW t \in Readings, ClaimExisting(c, t) PROVE Answered'
    <3>1. call[c].id \in RunIds
      BY <2>3, <1>inv DEF ClaimExisting, TypeOK, CallStates
    <3> QED BY <2>3, <3>1, <1>answer DEF ClaimExisting, ClaimFinds
  <2>4. ASSUME NEW t \in Readings, ClaimConflict(c, t) PROVE Answered'
    BY <2>4, <1>empty DEF ClaimConflict
  <2> QED BY <1>3, <2>1, <2>2, <2>3, <2>4 DEF Claim
<1>4. ASSUME NEW c \in Calls, Execute(c) PROVE Answered'
  <2>1. CASE BeginComplete(c)
    BY <2>1, <1>none DEF BeginComplete
  <2>2. CASE AuditRaises(c) \/ CompleteLocked(c)
    BY <2>2, <1>none DEF AuditRaises, CompleteLocked, Continue
  <2>3. ASSUME NEW t \in Readings, CommitComplete(c, t) PROVE Answered'
    <3>1. HoldsRow(c) /\ call[c].id \in RunIds
      BY <2>3, <1>inv DEF CommitComplete, IInv, ExecutorHoldsRow, TypeOK,
                          Executing, Synchronous
    <3>2. registry[call[c].id] \in Rows /\ registry[call[c].id].binding = BindingOf(c)
      BY <3>1, <1>inv DEF HoldsRow, OwnsRow, TypeOK, TypeOKStore
    <3>3. registry'[call[c].id].binding = BindingOf(c)
      BY <2>3, <3>1, <3>2, <1>inv
         DEF CommitComplete, CompleteUpdate, Settled, Rows, TypeOK, TypeOKStore
    <3>4. CASE registry'[call[c].id] # NoRow /\ registry'[call[c].id].result # None
      BY <2>3, <3>1, <3>3, <3>4, <1>answer DEF CommitComplete
    <3>5. CASE ~ (registry'[call[c].id] # NoRow /\ registry'[call[c].id].result # None)
      BY <2>3, <3>5, <1>none DEF CommitComplete, Continue
    <3> QED BY <3>4, <3>5
  <2>4. ASSUME NEW t \in Readings, CommitFail(c, t) PROVE Answered'
    BY <2>4, <1>empty DEF CommitFail
  <2>5. CASE BeginFail(c)
    BY <2>5, <1>empty, <1>none DEF BeginFail, Continue
  <2>6. CASE FailLocked(c)
    BY <2>6, <1>empty DEF FailLocked
  <2> QED BY <1>4, <2>1, <2>2, <2>3, <2>4, <2>5, <2>6 DEF Execute
<1>5. ASSUME NEW c \in Calls, Cancel(c) PROVE Answered'
  BY <1>5, <1>none DEF Cancel
<1>6. ASSUME NEW s \in Servers, Crash(s) PROVE Answered'
  BY <1>6, <1>none DEF Crash
<1>7. ASSUME NEW s \in Servers, NEW i \in RunIds, NEW t \in Readings, GetAuditRun(s, i, t)
      PROVE  Answered'
  <2>1. CASE registry'[i] = NoRow
    BY <1>7, <2>1 DEF GetAuditRun, Lookup
  <2>2. CASE registry'[i] # NoRow /\ registry'[i].binding.database # DatabaseOf[s]
    BY <1>7, <2>2 DEF GetAuditRun, Lookup
  <2>3. CASE registry'[i] # NoRow /\ registry'[i].binding.database = DatabaseOf[s]
    <3>1. /\ answer'.to = s /\ answer'.asked = None /\ answer'.id = i
          /\ answer'.result \in {None, registry'[i].result}
      BY <1>7, <2>3 DEF GetAuditRun, Lookup
    <3>2. CASE answer'.result = None
      BY <3>2
    <3>3. CASE answer'.result # None
      <4>1. /\ registry'[i].status = "COMPLETED"
            /\ answer'.result = registry'[i].result
            /\ answer'.result = [evidence |-> registry'[i].binding,
                                 provenance |-> registry'[i].binding]
        BY <2>3, <3>1, <3>3, <1>row
      <4> QED BY <2>3, <3>1, <4>1
    <3> QED BY <3>2, <3>3
  <2> QED BY <2>1, <2>2, <2>3
<1>8. ASSUME NEW i \in RunIds, DeleteRow(i) PROVE Answered'
  BY <1>8, <1>none DEF DeleteRow
<1>9. CASE Tick
  BY <1>9, <1>none DEF Tick
<1>10. CASE UNCHANGED vars
  BY <1>10 DEF vars
<1> QED BY <1>1, <1>2, <1>3, <1>4, <1>5, <1>6, <1>7, <1>8, <1>9, <1>10 DEF Next, LookUpAny

LEMMA AnsweredAlways == ASSUME Punctual PROVE Spec => []Answered
<1>1. Punctual
  OBVIOUS
<1>2. Init => Answered
  BY DEF Init, Answered, NoForeignDatabase, NoForeignEvidence
<1> QED BY <1>1, <1>2, InvariantHolds, AnswersStep, PTL DEF Spec

(* No run ID ever selects a result of another database. *)
THEOREM NoForeignDatabaseHolds == ASSUME Punctual PROVE Spec => []NoForeignDatabase
<1>1. Answered => NoForeignDatabase
  BY DEF Answered
<1> QED BY <1>1, AnsweredAlways, PTL

(* Nor of another schema or limit, and the provenance envelope is true. *)
THEOREM NoForeignEvidenceHolds == ASSUME Punctual PROVE Spec => []NoForeignEvidence
<1>1. Answered => NoForeignEvidence
  BY DEF Answered
<1> QED BY <1>1, AnsweredAlways, PTL
=============================================================================
