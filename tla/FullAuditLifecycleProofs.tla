---------------------- MODULE FullAuditLifecycleProofs ----------------------
(***************************************************************************)
(* More theorems about FullAudit: that the registry implements             *)
(* RunLifecycle for every run ID, that answers are drawn from rows within  *)
(* their retention, and three facts that need no assumption about          *)
(* deadlines or deletion: errors are on record, conflicts leave no trace   *)
(* and evidence is durable when it is answered.                            *)
(***************************************************************************)
EXTENDS FullAuditProofs

(* What a step may do to the clock and the registry. *)
LEMMA RegistrySteps ==
    ASSUME [Next]_vars
    PROVE  \/ UNCHANGED <<now, registry>>
           \/ UNCHANGED now /\ \E t \in Readings : registry' = Cleaned(t)
           \/ \E c \in Calls, t \in Readings :
                 ClaimNew(c, t) \/ CommitComplete(c, t) \/ CommitFail(c, t)
           \/ UNCHANGED now /\ MayDelete /\ \E i \in RunIds : Delete(i)
           \/ Tick
<1>1. ASSUME NEW c \in Calls, Dispatch(c) \/ DatabaseUnreachable(c) \/ Cancel(c)
      PROVE  UNCHANGED <<now, registry>>
  BY <1>1 DEF Dispatch, DatabaseUnreachable, Cancel
<1>2. ASSUME NEW c \in Calls, Claim(c)
      PROVE  \/ UNCHANGED <<now, registry>>
             \/ UNCHANGED now /\ \E t \in Readings : registry' = Cleaned(t)
             \/ \E t \in Readings : ClaimNew(c, t)
  BY <1>2 DEF Claim, ClaimRejected, ClaimLocked, ClaimExisting, ClaimFinds,
              ClaimConflict, ClaimConflicts
<1>3. ASSUME NEW c \in Calls, Execute(c)
      PROVE  \/ UNCHANGED <<now, registry>>
             \/ \E t \in Readings : CommitComplete(c, t) \/ CommitFail(c, t)
  BY <1>3 DEF Execute, BeginComplete, AuditRaises, CompleteLocked, BeginFail, FailLocked
<1>4. ASSUME NEW s \in Servers, Crash(s)
      PROVE  UNCHANGED <<now, registry>>
  BY <1>4 DEF Crash
<1>5. ASSUME LookUpAny
      PROVE  UNCHANGED now /\ \E t \in Readings : registry' = Cleaned(t)
  BY <1>5 DEF LookUpAny, GetAuditRun, Get
<1>6. ASSUME NEW i \in RunIds, DeleteRow(i)
      PROVE  UNCHANGED now /\ MayDelete /\ Delete(i)
  BY <1>6 DEF DeleteRow
<1>7. UNCHANGED vars => UNCHANGED <<now, registry>>
  BY DEF vars
<1> QED BY <1>1, <1>2, <1>3, <1>4, <1>5, <1>6, <1>7 DEF Next

(* The calls go forward only.                                              *)
LEMMA CallsMoveOn ==
    ASSUME TypeOK, [Next]_vars, NEW d \in Calls,
           call[d].pc \notin {"idle", "connecting"}
    PROVE  call'[d].pc \notin {"idle", "connecting"}
<1>calls. call \in [Calls -> CallStates]
  BY DEF TypeOK
<1>done. Vacant("done").pc = "done"
  BY VacantType, ConstantsOfStatus
<1>finish. ASSUME NEW c \in Calls, NEW status, NEW result, Finish(c, status, result)
           PROVE  call'[d].pc \notin {"idle", "connecting"}
  BY <1>finish, <1>calls, <1>done DEF Finish
<1>continue. ASSUME NEW c \in Calls, NEW pc \in {"failing", "marking"}, Continue(c, pc)
             PROVE  call'[d].pc \notin {"idle", "connecting"}
  BY <1>continue, <1>calls DEF Continue, CallStates
<1>1. ASSUME NEW c \in Calls, Dispatch(c) PROVE call'[d].pc \notin {"idle", "connecting"}
  BY <1>1, <1>calls DEF Dispatch
<1>2. ASSUME NEW c \in Calls, DatabaseUnreachable(c)
      PROVE  call'[d].pc \notin {"idle", "connecting"}
  BY <1>2, <1>finish DEF DatabaseUnreachable
<1>3. ASSUME NEW c \in Calls, Claim(c) PROVE call'[d].pc \notin {"idle", "connecting"}
  <2>1. ASSUME NEW t \in Readings, ClaimNew(c, t)
        PROVE  call'[d].pc \notin {"idle", "connecting"}
    BY <2>1, <1>calls DEF ClaimNew, CallStates
  <2> QED BY <1>3, <2>1, <1>finish
          DEF Claim, ClaimRejected, ClaimLocked, ClaimExisting, ClaimConflict
<1>4. ASSUME NEW c \in Calls, Execute(c) PROVE call'[d].pc \notin {"idle", "connecting"}
  <2>1. CASE BeginComplete(c)
    BY <2>1, <1>calls DEF BeginComplete, CallStates
  <2> QED BY <1>4, <2>1, <1>finish, <1>continue
          DEF Execute, AuditRaises, CommitComplete, CommitFail, CompleteLocked,
              BeginFail, FailLocked
<1>5. ASSUME NEW c \in Calls, Cancel(c) PROVE call'[d].pc \notin {"idle", "connecting"}
  BY <1>5, <1>calls, <1>done DEF Cancel
<1>6. ASSUME NEW s \in Servers, Crash(s) PROVE call'[d].pc \notin {"idle", "connecting"}
  BY <1>6, <1>done DEF Crash
<1> QED BY <1>1, <1>2, <1>3, <1>4, <1>5, <1>6
        DEF Next, LookUpAny, GetAuditRun, DeleteRow, Tick, vars

(* The UPDATEs neither add a row nor change who made it. *)
LEMMA UpdateKeeps ==
    ASSUME TypeOKStore, NEW i \in RunIds, NEW j, NEW evidence, NEW read, NEW t,
           CompleteUpdate(j, evidence, read, t) \/ FailUpdate(j, t), registry'[i] # NoRow
    PROVE  registry[i] # NoRow /\ registry'[i].creator = registry[i].creator
<1>1. CASE UNCHANGED registry \/ i # j
  BY <1>1 DEF CompleteUpdate, FailUpdate, TypeOKStore
<1>2. CASE i = j /\ IsStarted(j)
  <2>1. registry[i] \in Rows
    BY <1>2 DEF IsStarted, TypeOKStore, NoRow
  <2>2. \A status, result : Settled(registry[i], status, result, t).creator
                              = registry[i].creator
    BY <2>1 DEF Settled, Rows
  <2> QED BY <1>2, <2>1, <2>2, NoRowIsNoRow DEF CompleteUpdate, FailUpdate, TypeOKStore
<1> QED BY <1>1, <1>2 DEF CompleteUpdate, FailUpdate

-----------------------------------------------------------------------------
(* Conflicts and errors, whatever the deadlines.                           *)

(* What a step may answer: the status of the row a full_audit call found,  *)
(* one of the answers that carry no row, or that of a lookup.              *)
AnswersCall(c) ==
    /\ answer'.by = c /\ answer'.id = call[c].id
    /\ \/ answer'.status \in Statuses \cup {"INVALID", "LOCKED"}
       \/ answer'.status = "CONFLICT" /\ UNCHANGED registry
       \/ /\ answer'.status = "ERROR"
          /\ \/ DatabaseUnreachable(c)
             \/ BeginFail(c)
             \/ \E t \in Readings : CommitFail(c, t)

AnswersLookup ==
    answer'.by = None /\ answer'.status \in Statuses \cup {"NOT_FOUND", "CONFLICT"}

LEMMA AnswerSteps ==
    ASSUME TypeOK, [Next]_vars
    PROVE  \/ answer' = None
           \/ answer' = answer /\ UNCHANGED registry
           \/ AnswersLookup
           \/ \E c \in Calls : AnswersCall(c)
<1>type. TypeOK'
  BY TypeStep
<1>row. ASSUME NEW i \in RunIds, registry'[i] # NoRow
        PROVE  registry'[i].status \in Statuses
  BY <1>row, <1>type DEF TypeOK, TypeOKStore, Rows
<1>finish. ASSUME NEW c \in Calls, NEW status, NEW result, Finish(c, status, result)
           PROVE  answer'.by = c /\ answer'.id = call[c].id /\ answer'.status = status
  BY <1>finish DEF Finish, AnswerAs
<1>1. ASSUME NEW c \in Calls, Dispatch(c) \/ Cancel(c) PROVE answer' = None
  BY <1>1 DEF Dispatch, Cancel
<1>2. ASSUME NEW c \in Calls, DatabaseUnreachable(c) PROVE AnswersCall(c)
  BY <1>2, <1>finish DEF DatabaseUnreachable, AnswersCall
<1>3. ASSUME NEW c \in Calls, Claim(c) PROVE answer' = None \/ AnswersCall(c)
  <2>1. CASE ClaimRejected(c) \/ ClaimLocked(c)
    BY <2>1, <1>finish DEF ClaimRejected, ClaimLocked, AnswersCall
  <2>2. ASSUME NEW t \in Readings, ClaimNew(c, t) PROVE answer' = None
    BY <2>2 DEF ClaimNew
  <2>3. ASSUME NEW t \in Readings, ClaimExisting(c, t) PROVE AnswersCall(c)
    <3>1. call[c].id \in RunIds
      BY <2>3 DEF ClaimExisting, TypeOK, CallStates
    <3>2. registry'[call[c].id].status \in Statuses
      BY <2>3, <3>1, <1>row DEF ClaimExisting, ClaimFinds
    <3> QED BY <2>3, <3>2, <1>finish DEF ClaimExisting, AnswersCall
  <2>4. ASSUME NEW t \in Readings, ClaimConflict(c, t) PROVE AnswersCall(c)
    BY <2>4, <1>finish DEF ClaimConflict, ClaimConflicts, AnswersCall
  <2> QED BY <1>3, <2>1, <2>2, <2>3, <2>4 DEF Claim
<1>4. ASSUME NEW c \in Calls, Execute(c) PROVE answer' = None \/ AnswersCall(c)
  <2>1. CASE BeginComplete(c) \/ AuditRaises(c) \/ CompleteLocked(c)
    BY <2>1 DEF BeginComplete, AuditRaises, CompleteLocked, Continue
  <2>2. ASSUME NEW t \in Readings, CommitComplete(c, t)
        PROVE  answer' = None \/ AnswersCall(c)
    BY <2>2, <1>finish DEF CommitComplete, Continue, AnswersCall, Statuses, LiveStatuses
  <2>3. ASSUME NEW t \in Readings, CommitFail(c, t) PROVE AnswersCall(c)
    BY <2>3, <1>finish DEF CommitFail, AnswersCall
  <2>4. CASE BeginFail(c)
    BY <2>4, <1>finish DEF BeginFail, Continue, AnswersCall
  <2>5. CASE FailLocked(c)
    BY <2>5, <1>finish DEF FailLocked, AnswersCall
  <2> QED BY <1>4, <2>1, <2>2, <2>3, <2>4, <2>5 DEF Execute
<1>5. ASSUME NEW s \in Servers, Crash(s) PROVE answer' = None
  BY <1>5 DEF Crash
<1>6. ASSUME NEW s \in Servers, NEW i \in RunIds, NEW t \in Readings, GetAuditRun(s, i, t)
      PROVE  AnswersLookup
  <2>1. CASE registry'[i] = NoRow
    BY <1>6, <2>1 DEF GetAuditRun, Lookup, AnswersLookup
  <2>2. CASE registry'[i] # NoRow /\ registry'[i].binding.database # DatabaseOf[s]
    BY <1>6, <2>2 DEF GetAuditRun, Lookup, AnswersLookup
  <2>3. CASE registry'[i] # NoRow /\ registry'[i].binding.database = DatabaseOf[s]
    BY <1>6, <2>3, <1>row DEF GetAuditRun, Lookup, AnswersLookup
  <2> QED BY <2>1, <2>2, <2>3
<1>7. ASSUME NEW i \in RunIds, DeleteRow(i) \/ Tick PROVE answer' = None
  BY <1>7 DEF DeleteRow, Tick
<1>8. Tick => answer' = None
  BY DEF Tick
<1>9. UNCHANGED vars => answer' = answer /\ UNCHANGED registry
  BY DEF vars
<1> QED BY <1>1, <1>2, <1>3, <1>4, <1>5, <1>6, <1>7, <1>8, <1>9 DEF Next, LookUpAny

(* A call creates a row only once it has stopped connecting.               *)
LEMMA ClaimedStep == TypeOK /\ CreatorHasClaimed /\ [Next]_vars => CreatorHasClaimed'
<1> SUFFICES ASSUME TypeOK, CreatorHasClaimed, [Next]_vars,
                    NEW i \in RunIds, registry'[i] # NoRow
             PROVE  call'[registry'[i].creator].pc \notin {"idle", "connecting"}
  BY DEF CreatorHasClaimed
<1>store. TypeOKStore /\ call \in [Calls -> CallStates]
  BY DEF TypeOK
<1>nat. \A t \in Readings : t \in Nat
  BY DEF Readings
<1>1. ASSUME NEW d \in Calls, call[d].pc \notin {"idle", "connecting"}
      PROVE  call'[d].pc \notin {"idle", "connecting"}
  BY <1>1, CallsMoveOn
<1>2. \/ /\ registry[i] # NoRow
         /\ registry'[i].creator = registry[i].creator
      \/ \E c \in Calls, t \in Readings : ClaimNew(c, t) /\ registry'[i].creator = c
  <2>1. CASE UNCHANGED <<now, registry>> \/ Tick
    BY <2>1 DEF Tick
  <2>2. ASSUME NEW t \in Readings, registry' = Cleaned(t)
        PROVE  registry[i] # NoRow /\ registry'[i].creator = registry[i].creator
    BY <2>2, <1>store, <1>nat, SurvivorsKeep, NoRowIsNoRow
  <2>3. ASSUME NEW c \in Calls, NEW t \in Readings, ClaimNew(c, t)
        PROVE  \/ registry[i] # NoRow /\ registry'[i].creator = registry[i].creator
               \/ registry'[i].creator = c
    <3>1. Cleaned(t) \in [RunIds -> Rows \cup {NoRow}]
      BY <1>store, <1>nat, CleanedType
    <3>2. CASE i = call[c].id
      BY <2>3, <3>1, <3>2 DEF ClaimNew, ClaimCreates, NewRow
    <3>3. CASE i # call[c].id
      <4>1. registry'[i] = Cleaned(t)[i]
        BY <2>3, <3>1, <3>3 DEF ClaimNew, ClaimCreates
      <4> QED BY <4>1, <1>store, <1>nat, SurvivorsKeep, NoRowIsNoRow
    <3> QED BY <3>2, <3>3
  <2>4. ASSUME NEW c \in Calls, NEW t \in Readings, CommitComplete(c, t) \/ CommitFail(c, t)
        PROVE  registry[i] # NoRow /\ registry'[i].creator = registry[i].creator
    BY <2>4, <1>store, UpdateKeeps DEF CommitComplete, CommitFail
  <2>5. ASSUME NEW j \in RunIds, Delete(j)
        PROVE  registry[i] # NoRow /\ registry'[i].creator = registry[i].creator
    BY <2>5, <1>store DEF Delete, TypeOKStore
  <2> QED BY <2>1, <2>2, <2>3, <2>4, <2>5, RegistrySteps
<1>3. CASE registry[i] # NoRow /\ registry'[i].creator = registry[i].creator
  <2>1. registry[i].creator \in Calls
    BY <1>3, <1>store DEF TypeOKStore, Rows, Calls
  <2> QED BY <1>1, <1>3, <2>1 DEF CreatorHasClaimed
<1>4. ASSUME NEW c \in Calls, NEW t \in Readings, ClaimNew(c, t), registry'[i].creator = c
      PROVE  call'[registry'[i].creator].pc \notin {"idle", "connecting"}
  <2>1. call'[c].pc = "auditing"
    BY <1>4, <1>store DEF ClaimNew, CallStates
  <2> QED BY <1>4, <2>1
<1> QED BY <1>2, <1>3, <1>4

(* An execution that reports its error has settled its run, whatever the   *)
(* deadlines and whoever deletes rows.  fail and the except clause of      *)
(* full_audit.                                                             *)
THEOREM ErrorIsOnRecordHolds == Spec => []ErrorIsOnRecord
<1> DEFINE I == TypeOK /\ CreatorHasClaimed /\ ErrorIsOnRecord
<1>1. Init => I
  BY InitType DEF Init, InitStore, CreatorHasClaimed, ErrorIsOnRecord
<1>2. I /\ [Next]_vars => I'
  <2> SUFFICES ASSUME I, [Next]_vars
               PROVE  ErrorIsOnRecord'
    BY TypeStep, ClaimedStep
  <2>1. CASE answer' = None \/ AnswersLookup \/ (answer' = answer /\ UNCHANGED registry)
    BY <2>1 DEF ErrorIsOnRecord, AnswersLookup, Statuses, LiveStatuses
  <2>2. ASSUME NEW c \in Calls, AnswersCall(c), answer' # None,
                    answer'.status = "ERROR", answer'.id \in RunIds
        PROVE  ~ (/\ registry'[answer'.id].status = "STARTED"
                  /\ registry'[answer'.id].creator = answer'.by)
    <3>0. /\ answer'.id = call[c].id /\ answer'.by = c /\ call[c].id \in RunIds
          /\ registry \in [RunIds -> Rows \cup {NoRow}]
      BY <2>2 DEF AnswersCall, TypeOK, TypeOKStore
    <3>1. CASE DatabaseUnreachable(c)
      BY <3>0, <3>1 DEF DatabaseUnreachable, CreatorHasClaimed, NoRow
    <3>2. CASE BeginFail(c)
      <4>1. UNCHANGED registry
        BY <3>2 DEF BeginFail
      <4>2. CASE IsKnown(call[c].id) /\ IsStarted(call[c].id)
        <5>1. answer' = None
          BY <3>2, <4>2 DEF BeginFail, Continue
        <5> QED BY <2>2, <5>1
      <4>3. CASE ~ (IsKnown(call[c].id) /\ IsStarted(call[c].id))
        BY <3>0, <4>1, <4>3 DEF IsKnown, IsStarted, NoRow
      <4> QED BY <4>2, <4>3
    <3>3. ASSUME NEW t \in Readings, CommitFail(c, t)
          PROVE  registry'[call[c].id].status # "STARTED"
      BY <3>0, <3>3 DEF CommitFail, FailUpdate, IsStarted, Settled, Rows, NoRow
    <3> QED BY <2>2, <3>0, <3>1, <3>2, <3>3 DEF AnswersCall, Statuses, LiveStatuses
  <2>3. ASSUME NEW c \in Calls, AnswersCall(c) PROVE ErrorIsOnRecord'
    BY <2>2, <2>3 DEF ErrorIsOnRecord
  <2> QED BY <2>1, <2>3, AnswerSteps
<1>3. I => ErrorIsOnRecord
  OBVIOUS
<1> QED BY <1>1, <1>2, <1>3, PTL DEF Spec

(* A payload is that of a completed run, whatever the deadlines.           *)
PayloadIsSettled ==
    \A i \in RunIds : registry[i] # NoRow /\ registry[i].result # None =>
        registry[i].status = "COMPLETED"

LEMMA PayloadStep == TypeOK /\ PayloadIsSettled /\ [Next]_vars => PayloadIsSettled'
<1> SUFFICES ASSUME TypeOK, PayloadIsSettled, [Next]_vars,
                    NEW i \in RunIds, registry'[i] # NoRow, registry'[i].result # None
             PROVE  registry'[i].status = "COMPLETED"
  BY DEF PayloadIsSettled
<1>store. TypeOKStore /\ registry \in [RunIds -> Rows \cup {NoRow}]
  BY DEF TypeOK, TypeOKStore
<1>clean. ASSUME NEW t \in Readings, registry'[i] = Cleaned(t)[i]
          PROVE  registry'[i].status = "COMPLETED"
  <2>1. t \in Nat
    BY DEF Readings
  <2>2. ASSUME registry[i] \in Rows,
               Cleaned(t)[i] = [registry[i] EXCEPT !.status = "EXPIRED", !.result = None]
        PROVE  FALSE
    BY <1>clean, <2>2 DEF Rows
  <2>3. Cleaned(t)[i] = registry[i]
    BY <1>clean, <1>store, <2>1, <2>2, CleanedRow
  <2> QED BY <1>clean, <2>3 DEF PayloadIsSettled
<1>1. CASE UNCHANGED <<now, registry>> \/ Tick
  BY <1>1 DEF Tick, PayloadIsSettled
<1>2. ASSUME NEW t \in Readings, registry' = Cleaned(t)
      PROVE  registry'[i].status = "COMPLETED"
  BY <1>2, <1>clean
<1>3. ASSUME NEW c \in Calls, NEW t \in Readings, ClaimNew(c, t)
      PROVE  registry'[i].status = "COMPLETED"
  <2>1. Cleaned(t) \in [RunIds -> Rows \cup {NoRow}]
    BY <1>store, CleanedType DEF Readings
  <2>2. CASE i = call[c].id
    BY <1>3, <2>1, <2>2 DEF ClaimNew, ClaimCreates, NewRow
  <2>3. CASE i # call[c].id
    BY <1>3, <1>clean, <2>1, <2>3 DEF ClaimNew, ClaimCreates
  <2> QED BY <2>2, <2>3
<1>4. ASSUME NEW c \in Calls, NEW t \in Readings, CommitComplete(c, t) \/ CommitFail(c, t)
      PROVE  registry'[i].status = "COMPLETED"
  <2> DEFINE j == call[c].id
  <2>1. CASE registry'[i] = registry[i]
    BY <2>1 DEF PayloadIsSettled
  <2>2. ASSUME i = j, IsStarted(j), NEW evidence, NEW read,
               CompleteUpdate(j, evidence, read, t)
        PROVE  registry'[i].status = "COMPLETED"
    <3>1. registry[i] \in Rows
      BY <1>store, <2>2 DEF IsStarted, NoRow
    <3> QED BY <1>store, <2>2, <3>1 DEF CompleteUpdate, Settled, Rows
  <2>3. ASSUME i = j, IsStarted(j), FailUpdate(j, t)
        PROVE  FALSE
    <3>1. registry[i] \in Rows
      BY <1>store, <2>3 DEF IsStarted, NoRow
    <3> QED BY <1>store, <2>3, <3>1 DEF FailUpdate, Settled, Rows
  <2>4. CASE i # j \/ ~ IsStarted(j)
    BY <1>4, <1>store, <2>1, <2>4 DEF CommitComplete, CommitFail, CompleteUpdate, FailUpdate
  <2> QED BY <1>4, <2>2, <2>3, <2>4 DEF CommitComplete, CommitFail
<1>5. ASSUME NEW j \in RunIds, Delete(j)
      PROVE  registry'[i].status = "COMPLETED"
  BY <1>5, <1>store DEF Delete, PayloadIsSettled
<1> QED BY <1>1, <1>2, <1>3, <1>4, <1>5, RegistrySteps

(* Evidence is answered from the row as the step leaves it.                *)
LEMMA AnswersFromRow ==
    ASSUME TypeOK, [Next]_vars, answer' # None, answer'.result # None
    PROVE  \/ answer' = answer /\ UNCHANGED registry
           \/ /\ answer'.id \in RunIds /\ registry'[answer'.id] # NoRow
              /\ answer'.result = registry'[answer'.id].result
<1> DEFINE FromRow == /\ answer'.id \in RunIds /\ registry'[answer'.id] # NoRow
                      /\ answer'.result = registry'[answer'.id].result
<1>finish. ASSUME NEW c \in Calls, NEW status, NEW result, Finish(c, status, result)
           PROVE  answer'.id = call[c].id /\ answer'.result = result
  BY <1>finish DEF Finish, AnswerAs
<1>1. ASSUME NEW c \in Calls, Dispatch(c) \/ DatabaseUnreachable(c) \/ Cancel(c)
      PROVE  FALSE
  BY <1>1, <1>finish DEF Dispatch, DatabaseUnreachable, Cancel
<1>2. ASSUME NEW c \in Calls, Claim(c)
      PROVE  FromRow
  <2>1. ASSUME NEW t \in Readings, ClaimExisting(c, t) PROVE FromRow
    <3>1. call[c].id \in RunIds
      BY <2>1 DEF ClaimExisting, TypeOK, CallStates
    <3> QED BY <2>1, <3>1, <1>finish DEF ClaimExisting, ClaimFinds
  <2> QED BY <1>2, <2>1, <1>finish
          DEF Claim, ClaimRejected, ClaimLocked, ClaimNew, ClaimConflict
<1>3. ASSUME NEW c \in Calls, Execute(c)
      PROVE  FromRow
  <2>1. ASSUME NEW t \in Readings, CommitComplete(c, t) PROVE FromRow
    <3>1. call[c].id \in RunIds
      BY <2>1 DEF CommitComplete, TypeOK, Executing, Synchronous
    <3>2. ~ Continue(c, "failing")
      BY DEF Continue
    <3> QED BY <2>1, <3>1, <3>2, <1>finish DEF CommitComplete
  <2> QED BY <1>3, <2>1, <1>finish
          DEF Execute, BeginComplete, AuditRaises, Continue, CommitFail, CompleteLocked,
              BeginFail, FailLocked
<1>4. ASSUME NEW s \in Servers, NEW i \in RunIds, NEW t \in Readings, GetAuditRun(s, i, t)
      PROVE  FromRow
  <2>1. registry'[i] # NoRow /\ registry'[i].binding.database = DatabaseOf[s]
    BY <1>4 DEF GetAuditRun, Lookup
  <2> QED BY <1>4, <2>1 DEF GetAuditRun, Lookup
<1>5. ASSUME NEW s \in Servers, Crash(s) PROVE FALSE
  BY <1>5 DEF Crash
<1>6. ASSUME NEW i \in RunIds, DeleteRow(i) PROVE FALSE
  BY <1>6 DEF DeleteRow
<1>7. ~ Tick
  BY DEF Tick
<1>8. UNCHANGED vars => answer' = answer /\ UNCHANGED registry
  BY DEF vars
<1> QED BY <1>1, <1>2, <1>3, <1>4, <1>5, <1>6, <1>7, <1>8 DEF Next, LookUpAny

(* What is returned is already durable under the same ID, whatever the     *)
(* deadlines and whoever deletes rows.  complete, claim, get_audit_run.    *)
THEOREM RecoverableHolds == Spec => []RecoverableWhenAnswered
<1> DEFINE I == TypeOK /\ PayloadIsSettled /\ RecoverableWhenAnswered
<1>1. Init => I
  BY InitType DEF Init, InitStore, PayloadIsSettled, RecoverableWhenAnswered
<1>2. I /\ [Next]_vars => I'
  <2> SUFFICES ASSUME I, [Next]_vars PROVE RecoverableWhenAnswered'
    BY TypeStep, PayloadStep
  <2>1. PayloadIsSettled'
    BY PayloadStep
  <2> QED BY <2>1, AnswersFromRow DEF RecoverableWhenAnswered, PayloadIsSettled
<1> QED BY <1>1, <1>2, PTL DEF Spec

-----------------------------------------------------------------------------
(* Retention.                                                              *)

(* A call that executes did so before and for the same run, or has just    *)
(* claimed it.                                                             *)
LEMMA ExecutorSteps ==
    ASSUME TypeOK, [Next]_vars, NEW d \in Calls, call'[d].pc \in Executing
    PROVE  \/ call[d].pc \in Executing /\ call'[d].id = call[d].id
           \/ \E t \in Readings : ClaimNew(d, t)
<1> DEFINE Goes == call[d].pc \in Executing /\ call'[d].id = call[d].id
<1> USE DEF Executing, Synchronous
<1>calls. call \in [Calls -> CallStates]
  BY DEF TypeOK
<1>done. Vacant("done").pc = "done"
  BY VacantType, ConstantsOfStatus
<1>finish. ASSUME NEW c \in Calls, NEW status, NEW result, Finish(c, status, result)
           PROVE  Goes
  BY <1>finish, <1>calls, <1>done DEF Finish
<1>continue. ASSUME NEW c \in Calls, call[c].pc \in Executing, NEW pc, Continue(c, pc)
             PROVE  Goes
  BY <1>continue, <1>calls DEF Continue, CallStates
<1>1. ASSUME NEW c \in Calls, Dispatch(c) PROVE Goes
  BY <1>1, <1>calls DEF Dispatch
<1>2. ASSUME NEW c \in Calls, DatabaseUnreachable(c) PROVE Goes
  BY <1>2, <1>finish DEF DatabaseUnreachable
<1>3. ASSUME NEW c \in Calls, Claim(c) PROVE Goes \/ \E t \in Readings : ClaimNew(d, t)
  <2>1. ASSUME NEW t \in Readings, ClaimNew(c, t) PROVE Goes \/ ClaimNew(d, t)
    BY <2>1, <1>calls DEF ClaimNew, CallStates
  <2> QED BY <1>3, <2>1, <1>finish
          DEF Claim, ClaimRejected, ClaimLocked, ClaimExisting, ClaimConflict
<1>4. ASSUME NEW c \in Calls, Execute(c) PROVE Goes
  <2>1. CASE BeginComplete(c)
    BY <2>1, <1>calls DEF BeginComplete, CallStates
  <2> QED BY <1>4, <2>1, <1>finish, <1>continue
          DEF Execute, AuditRaises, CommitComplete, CommitFail, CompleteLocked,
              BeginFail, FailLocked
<1>5. ASSUME NEW c \in Calls, Cancel(c) PROVE Goes
  BY <1>5, <1>calls, <1>done DEF Cancel
<1>6. ASSUME NEW s \in Servers, Crash(s) PROVE Goes
  BY <1>6, <1>done DEF Crash
<1> QED BY <1>1, <1>2, <1>3, <1>4, <1>5, <1>6
        DEF Next, LookUpAny, GetAuditRun, DeleteRow, Tick, vars

(* complete() returns to its caller or goes on to fail(); when it goes on, *)
(* it has not touched the registry.                                        *)
LEMMA CompletesOrGoesOn ==
    ASSUME Punctual, IInv, NEW c \in Calls, NEW t \in Readings, CommitComplete(c, t)
    PROVE  \/ /\ Finish(c, "COMPLETED", registry'[call[c].id].result)
              /\ IsStarted(call[c].id)
              /\ registry' = [registry EXCEPT ![call[c].id] =
                    Settled(@, "COMPLETED",
                        [evidence |-> BindingOf(c), provenance |-> BindingOf(c)], t)]
           \/ /\ Finish(c, "COMPLETED", registry[call[c].id].result)
              /\ UNCHANGED registry
              /\ registry[call[c].id].status = "COMPLETED"
           \/ Continue(c, "failing") /\ UNCHANGED registry
<1> DEFINE i == call[c].id
           b == BindingOf(c)
<1>1. /\ call[c].pc = "updating" /\ CompleteUpdate(i, b, call[c].read, t)
      /\ call[c].read = b /\ i \in RunIds /\ b \in Bindings
  BY BindingType DEF CommitComplete, IInv, ExecutorHoldsRow, HoldsRow, TypeOK,
                     Executing, Synchronous
<1>2. registry \in [RunIds -> Rows \cup {NoRow}]
  BY DEF IInv, TypeOK, TypeOKStore
<1>3. CASE IsStarted(i)
  <2>1. registry[i] \in Rows
    BY <1>1, <1>2, <1>3 DEF IsStarted, NoRow
  <2>2. registry' = [registry EXCEPT ![i] =
            Settled(@, "COMPLETED", [evidence |-> b, provenance |-> b], t)]
    BY <1>1, <1>3 DEF CompleteUpdate
  <2>3. registry'[i] = Settled(registry[i], "COMPLETED",
                               [evidence |-> b, provenance |-> b], t)
    BY <1>1, <1>2, <2>2
  <2>4. [evidence |-> b, provenance |-> b] \in Results
    BY <1>1 DEF Results
  <2>5. registry'[i].result = [evidence |-> b, provenance |-> b]
    BY <2>1, <2>3 DEF Settled, Rows
  <2>6. t \in Nat
    BY DEF Readings
  <2>7. registry'[i] \in Rows
    BY <2>1, <2>3, <2>4, <2>6, SettledType DEF Statuses, LiveStatuses
  <2>8. registry'[i] # NoRow /\ registry'[i].result # None
    BY <2>4, <2>5, <2>7, NoRowIsNoRow, NoneAssumption
  <2> QED BY <1>3, <2>2, <2>8 DEF CommitComplete
<1>4. CASE ~ IsStarted(i)
  <2>1. UNCHANGED registry
    BY <1>1, <1>4 DEF CompleteUpdate
  <2>2. CASE registry[i] # NoRow /\ registry[i].result # None
    <3>1. registry[i].status = "COMPLETED"
      BY <1>1, <2>2 DEF IInv, PayloadIsOfItsRow
    <3> QED BY <2>1, <2>2, <3>1 DEF CommitComplete
  <2>3. CASE ~ (registry[i] # NoRow /\ registry[i].result # None)
    BY <2>1, <2>3 DEF CommitComplete
  <2> QED BY <2>2, <2>3
<1> QED BY <1>3, <1>4

LEMMA SettlesStep == Punctual /\ IInv /\ ExecutorSettles /\ [Next]_vars => ExecutorSettles'
<1> SUFFICES ASSUME Punctual, IInv, ExecutorSettles, [Next]_vars,
                    NEW c \in Calls, call'[c].pc \in Executing
             PROVE  registry'[call'[c].id].status \in {"STARTED", "EXPIRED"}
  BY DEF ExecutorSettles
<1> DEFINE i == call[c].id
<1>store. TypeOK /\ TypeOKStore /\ \A t \in Readings : t \in Nat
  BY DEF IInv, TypeOK, Readings
<1>calls. call \in [Calls -> CallStates]
  BY <1>store DEF TypeOK
<1>done. Vacant("done").pc = "done"
  BY VacantType, ConstantsOfStatus
<1>1. ASSUME NEW t \in Readings, ClaimNew(c, t)
      PROVE  registry'[call'[c].id].status \in {"STARTED", "EXPIRED"}
  <2>1. Cleaned(t) \in [RunIds -> Rows \cup {NoRow}]
    BY <1>store, CleanedType
  <2>2. call'[c].id = i /\ i \in RunIds
    BY <1>1, <1>calls DEF ClaimNew, CallStates
  <2> QED BY <1>1, <2>1, <2>2 DEF ClaimNew, ClaimCreates, NewRow
<1>2. ASSUME call[c].pc \in Executing, call'[c].id = i
      PROVE  registry'[i].status \in {"STARTED", "EXPIRED"}
  <2>0. registry[i].status \in {"STARTED", "EXPIRED"} /\ i \in RunIds
    BY <1>2 DEF ExecutorSettles, IInv, TypeOK
  <2>cleaned. ASSUME NEW t \in Readings
              PROVE  Cleaned(t)[i].status \in {"STARTED", "EXPIRED"} /\ Cleaned(t)[i] # NoRow
    <3>1. Cleaned(t)[i] # NoRow
      BY <1>2, CleanupSparesExecutors
    <3> QED BY <1>store, <2>0, <3>1, SurvivorsKeep
  <2>1. CASE UNCHANGED <<now, registry>> \/ Tick
    BY <2>0, <2>1 DEF Tick
  <2>2. ASSUME NEW t \in Readings, registry' = Cleaned(t)
        PROVE  registry'[i].status \in {"STARTED", "EXPIRED"}
    BY <2>2, <2>cleaned
  <2>3. ASSUME NEW d \in Calls, NEW t \in Readings, ClaimNew(d, t)
        PROVE  registry'[i].status \in {"STARTED", "EXPIRED"}
    <3>1. Cleaned(t) \in [RunIds -> Rows \cup {NoRow}]
      BY <1>store, CleanedType
    <3>2. i # call[d].id
      BY <2>3, <2>cleaned DEF ClaimNew, ClaimCreates
    <3>3. registry'[i] = Cleaned(t)[i]
      BY <2>0, <2>3, <3>1, <3>2 DEF ClaimNew, ClaimCreates
    <3> QED BY <3>3, <2>cleaned
  <2>4. ASSUME NEW d \in Calls, NEW t \in Readings, CommitComplete(d, t) \/ CommitFail(d, t)
        PROVE  registry'[i].status \in {"STARTED", "EXPIRED"}
    <3>1. call[d].pc \in Executing
      BY <2>4 DEF CommitComplete, CommitFail, Executing, Synchronous
    <3>2. CASE d # c
      <4>1. i # call[d].id
        BY <1>2, <3>1, <3>2, ExecutorsDiffer
      <4> QED BY <1>store, <2>0, <2>4, <4>1
              DEF CommitComplete, CommitFail, CompleteUpdate, FailUpdate, TypeOKStore
    <3>3. CASE d = c
      <4>1. ~ Finish(c, "ERROR", None)
        BY <1>calls, <1>done DEF Finish, Executing, Synchronous
      <4>2. \A result : ~ Finish(c, "COMPLETED", result)
        BY <1>calls, <1>done DEF Finish, Executing, Synchronous
      <4>3. UNCHANGED registry
        BY <2>4, <3>3, <4>1, <4>2, CompletesOrGoesOn DEF CommitFail
      <4> QED BY <2>0, <4>3
    <3> QED BY <3>2, <3>3
  <2>5. ~ MayDelete
    BY DEF Punctual
  <2> QED BY <1>store, <2>1, <2>2, <2>3, <2>4, <2>5, RegistrySteps
<1> QED BY <1>store, <1>1, <1>2, ExecutorSteps

(* Nobody settles a run but the call that executes it: its row is in       *)
(* progress, or lapsed, for as long as the call runs.                      *)
LEMMA SettlesAlways == ASSUME Punctual PROVE Spec => []ExecutorSettles
<1>1. Punctual
  OBVIOUS
<1>2. Init => ExecutorSettles
  <2>1. Vacant("idle").pc = "idle"
    BY VacantType, ConstantsOfStatus
  <2> QED BY <2>1 DEF Init, ExecutorSettles, Executing, Synchronous
<1> QED BY <1>1, <1>2, InvariantHolds, SettlesStep, PTL DEF Spec

(* A row that an answer shows alive after a cleanup is within retention.   *)
LEMMA LookedUpIsCurrent ==
    ASSUME TypeOKStore, NEW t \in Readings, NEW i \in RunIds,
           registry' = Cleaned(t), UNCHANGED now, registry'[i].status \in LiveStatuses
    PROVE  now' < registry'[i].expires + LockWait
<1>1. now \in Nat /\ t \in Nat /\ now <= t + LockWait /\ LockWait \in Nat
  BY ReadingsBound, LockWaitAssumption DEF TypeOKStore
<1>2. ASSUME registry[i] \in Rows,
             Cleaned(t)[i] = [registry[i] EXCEPT !.status = "EXPIRED", !.result = None]
      PROVE  FALSE
  BY <1>2 DEF Rows, LiveStatuses
<1>3. Cleaned(t)[i] # NoRow
  BY DEF NoRow, LiveStatuses
<1>4. registry'[i] = registry[i] /\ t < registry[i].expires
  BY <1>1, <1>2, <1>3, CleanedRow
<1>5. registry[i].expires \in Nat
  BY <1>3, <1>4 DEF TypeOKStore, Rows
<1> QED BY <1>1, <1>4, <1>5

LEMMA CurrentStep ==
    Punctual /\ IInv /\ ExecutorSettles /\ AnswersAreCurrent /\ [Next]_vars
        => AnswersAreCurrent'
<1> SUFFICES ASSUME Punctual, IInv, ExecutorSettles, AnswersAreCurrent, [Next]_vars
             PROVE  AnswersAreCurrent'
  OBVIOUS
<1>type. TypeOK /\ TypeOKStore /\ call \in [Calls -> CallStates]
  BY DEF IInv, TypeOK
<1>none. answer' = None => AnswersAreCurrent'
  BY DEF AnswersAreCurrent
<1>other. ASSUME answer'.status \notin LiveStatuses
          PROVE  AnswersAreCurrent'
  BY <1>other DEF AnswersAreCurrent
<1>finish. ASSUME NEW c \in Calls, NEW status, NEW result, Finish(c, status, result)
           PROVE  answer'.id = call[c].id /\ answer'.status = status
  BY <1>finish DEF Finish, AnswerAs
<1>refuse. ASSUME NEW c \in Calls, NEW status \in {"ERROR", "INVALID", "LOCKED", "CONFLICT"},
                  Finish(c, status, None)
           PROVE  AnswersAreCurrent'
  BY <1>refuse, <1>finish, <1>other DEF LiveStatuses
<1>1. ASSUME NEW c \in Calls, Dispatch(c) \/ DatabaseUnreachable(c) \/ Cancel(c)
      PROVE  AnswersAreCurrent'
  BY <1>1, <1>none, <1>refuse DEF Dispatch, DatabaseUnreachable, Cancel
<1>2. ASSUME NEW c \in Calls, Claim(c)
      PROVE  AnswersAreCurrent'
  <2>1. ASSUME NEW t \in Readings, ClaimExisting(c, t) PROVE AnswersAreCurrent'
    <3> DEFINE i == call[c].id
    <3>1. i \in RunIds /\ registry' = Cleaned(t) /\ UNCHANGED now
      BY <2>1, <1>type DEF ClaimExisting, ClaimFinds, CallStates
    <3>2. answer'.id = i /\ answer'.status = registry'[i].status
      BY <2>1, <1>finish DEF ClaimExisting
    <3> QED BY <1>type, <3>1, <3>2, LookedUpIsCurrent DEF AnswersAreCurrent
  <2> QED BY <1>2, <2>1, <1>none, <1>refuse
          DEF Claim, ClaimRejected, ClaimLocked, ClaimNew, ClaimConflict
<1>3. ASSUME NEW c \in Calls, Execute(c)
      PROVE  AnswersAreCurrent'
  <2>1. ASSUME NEW t \in Readings, CommitComplete(c, t) PROVE AnswersAreCurrent'
    <3> DEFINE i == call[c].id
               result == [evidence |-> BindingOf(c), provenance |-> BindingOf(c)]
    <3>0. call[c].pc \in Executing /\ i \in RunIds /\ UNCHANGED now
      BY <2>1, <1>type DEF CommitComplete, Executing, Synchronous, TypeOK
    <3>1. registry[i].status \in {"STARTED", "EXPIRED"}
      BY <3>0 DEF ExecutorSettles
    <3>2. CASE /\ IsStarted(i) /\ Finish(c, "COMPLETED", registry'[i].result)
               /\ registry' = [registry EXCEPT ![i] = Settled(@, "COMPLETED", result, t)]
      <4>1. registry[i] \in Rows
        BY <1>type, <3>0, <3>2 DEF IsStarted, TypeOKStore, NoRow
      <4>2. registry'[i] = Settled(registry[i], "COMPLETED", result, t)
        BY <1>type, <3>0, <3>2 DEF TypeOKStore
      <4>3. registry'[i].status = "COMPLETED" /\ registry'[i].expires = t + Retention
        BY <4>1, <4>2 DEF Settled, Rows
      <4>4. now \in Nat /\ t \in Nat /\ now <= t + LockWait /\ LockWait \in Nat
        BY <1>type, ReadingsBound, LockWaitAssumption DEF TypeOKStore
      <4>5. now' < registry'[i].expires + LockWait
        BY <3>0, <4>3, <4>4, RetentionAssumption
      <4>6. answer'.id = i /\ answer'.status = "COMPLETED"
        BY <3>2, <1>finish
      <4> QED BY <4>3, <4>5, <4>6 DEF AnswersAreCurrent
    <3>3. CASE Continue(c, "failing")
      BY <3>3, <1>none DEF Continue
    <3> QED BY <2>1, <3>1, <3>2, <3>3, CompletesOrGoesOn
  <2> QED BY <1>3, <2>1, <1>none, <1>refuse
          DEF Execute, BeginComplete, AuditRaises, Continue, CommitFail, CompleteLocked,
              BeginFail, FailLocked
<1>4. ASSUME NEW s \in Servers, NEW i \in RunIds, NEW t \in Readings, GetAuditRun(s, i, t)
      PROVE  AnswersAreCurrent'
  <2>1. registry' = Cleaned(t) /\ UNCHANGED now
    BY <1>4 DEF GetAuditRun, Get
  <2>2. CASE registry'[i] = NoRow
    BY <1>4, <2>2, <1>other DEF GetAuditRun, Lookup, LiveStatuses
  <2>3. CASE registry'[i] # NoRow /\ registry'[i].binding.database # DatabaseOf[s]
    BY <1>4, <2>3, <1>other DEF GetAuditRun, Lookup, LiveStatuses
  <2>4. CASE registry'[i] # NoRow /\ registry'[i].binding.database = DatabaseOf[s]
    <3>1. answer'.id = i /\ answer'.status = registry'[i].status
      BY <1>4, <2>4 DEF GetAuditRun, Lookup
    <3> QED BY <1>type, <2>1, <3>1, LookedUpIsCurrent DEF AnswersAreCurrent
  <2> QED BY <2>2, <2>3, <2>4
<1>5. ASSUME NEW s \in Servers, Crash(s) PROVE AnswersAreCurrent'
  BY <1>5, <1>none DEF Crash
<1>6. ASSUME NEW i \in RunIds, DeleteRow(i) PROVE AnswersAreCurrent'
  BY <1>6, <1>none DEF DeleteRow
<1>7. Tick => AnswersAreCurrent'
  BY <1>none DEF Tick
<1>8. UNCHANGED vars => AnswersAreCurrent'
  BY DEF vars, AnswersAreCurrent
<1> QED BY <1>1, <1>2, <1>3, <1>4, <1>5, <1>6, <1>7, <1>8 DEF Next, LookUpAny

(* No answer is drawn from a row past its retention, whichever process     *)
(* cleans up and whenever.  claim, get_audit_run.                          *)
THEOREM AnswersAreCurrentHolds == ASSUME Punctual PROVE Spec => []AnswersAreCurrent
<1>1. Punctual
  OBVIOUS
<1>2. Init => AnswersAreCurrent
  BY DEF Init, AnswersAreCurrent
<1> QED BY <1>1, <1>2, InvariantHolds, SettlesAlways, CurrentStep, PTL DEF Spec

-----------------------------------------------------------------------------
(* The registry implements RunLifecycle, for each run ID on its own.       *)
LEMMA AgeOfNoRow ==
    ASSUME NEW i \in RunIds, registry[i] = NoRow
    PROVE  Age(i) = "none" /\ Lifecycle(i)!Absent
BY DEF Age, Lifecycle!Absent, NoRow

(* Where the clock stands, for a row whose tombstone outlives it.          *)
LEMMA AgeOfRow ==
    ASSUME TypeOKStore, NEW i \in RunIds, registry[i] \in Rows,
           registry[i].tombstone = registry[i].expires + Tombstone
    PROVE  /\ Age(i) = "fresh" <=> now < registry[i].expires
           /\ Age(i) = "lapsed" <=> registry[i].expires <= now /\ now < registry[i].tombstone
           /\ Age(i) = "dead" <=> registry[i].tombstone <= now
           /\ Age(i) \in {"fresh", "lapsed", "dead"}
<1>1. /\ registry[i].expires \in Nat /\ registry[i].tombstone \in Nat /\ now \in Nat
      /\ registry[i] # NoRow
  BY NoRowIsNoRow DEF TypeOKStore, Rows
<1>2. registry[i].expires < registry[i].tombstone
  BY <1>1, RetentionAssumption
<1>3. CASE now < registry[i].expires
  BY <1>1, <1>2, <1>3 DEF Age
<1>4. CASE registry[i].expires <= now /\ now < registry[i].tombstone
  BY <1>1, <1>2, <1>4 DEF Age
<1>5. CASE registry[i].tombstone <= now
  BY <1>1, <1>2, <1>5 DEF Age
<1> QED BY <1>1, <1>3, <1>4, <1>5

LEMMA RowStutters ==
    ASSUME NEW i \in RunIds, registry'[i] = registry[i], UNCHANGED now
    PROVE  UNCHANGED Lifecycle(i)!vars
BY DEF Lifecycle!vars, Age

LEMMA RowExpires ==
    ASSUME TypeOKStore, TypeOKStore', TombstoneOutlives, NEW i \in RunIds, UNCHANGED now,
           registry[i] \in Rows, registry[i].status \in LiveStatuses,
           registry[i].expires <= now,
           registry'[i] = [registry[i] EXCEPT !.status = "EXPIRED", !.result = None]
    PROVE  Lifecycle(i)!Expire
<1>1. /\ registry'[i] \in Rows /\ registry'[i].status = "EXPIRED"
      /\ registry'[i].result = None /\ registry'[i].binding = registry[i].binding
      /\ registry'[i].expires = registry[i].expires
      /\ registry'[i].tombstone = registry[i].tombstone
  BY DEF Rows, Statuses
<1>2. registry[i] # NoRow /\ registry'[i] # NoRow
  BY <1>1, NoRowIsNoRow
<1>3. Age(i)' = Age(i)
  BY <1>1, <1>2 DEF Age
<1>4. Age(i) \in {"lapsed", "dead"}
  BY <1>2, AgeOfRow DEF TombstoneOutlives, TypeOKStore, Rows
<1> QED BY <1>1, <1>2, <1>3, <1>4 DEF Lifecycle!Expire, LiveStatuses

LEMMA RowForgotten ==
    ASSUME TypeOKStore, TombstoneOutlives, NEW i \in RunIds,
           registry[i] \in Rows, registry[i].tombstone <= now, registry'[i] = NoRow
    PROVE  Lifecycle(i)!Forget
<1>1. registry[i].tombstone = registry[i].expires + Tombstone
  BY NoRowIsNoRow DEF TombstoneOutlives
<1>2. Age(i) = "dead"
  BY <1>1, AgeOfRow
<1>3. Age(i)' = "none"
  BY DEF Age
<1> QED BY <1>2, <1>3 DEF Lifecycle!Forget, Lifecycle!Absent, NoRow

(* What a cleanup does to a run ID is a step of its lifecycle, or nothing. *)
LEMMA CleanupImplements ==
    ASSUME TypeOKStore, TypeOKStore', TombstoneOutlives, NEW i \in RunIds,
           NEW t \in Readings, UNCHANGED now, registry'[i] = Cleaned(t)[i]
    PROVE  Lifecycle(i)!Next \/ UNCHANGED Lifecycle(i)!vars
<1>1. now \in Nat /\ t \in Nat /\ t <= now
  BY ReadingsBound DEF TypeOKStore
<1>2. CASE Cleaned(t)[i] = registry[i]
  BY <1>2, RowStutters
<1>3. CASE /\ registry[i] \in Rows
           /\ registry[i].status \in LiveStatuses
           /\ registry[i].expires <= t
           /\ Cleaned(t)[i] = [registry[i] EXCEPT !.status = "EXPIRED", !.result = None]
  <2>1. registry[i].expires <= now
    BY <1>1, <1>3 DEF Rows
  <2>2. Lifecycle(i)!Expire
    BY <1>3, <2>1, RowExpires
  <2> QED BY <2>2 DEF Lifecycle!Next
<1>4. CASE /\ registry[i] \in Rows
           /\ registry[i].tombstone <= t
           /\ Cleaned(t)[i] = NoRow
  <2>1. registry[i].tombstone <= now
    BY <1>1, <1>4 DEF Rows
  <2>2. Lifecycle(i)!Forget
    BY <1>4, <2>1, RowForgotten
  <2> QED BY <2>2 DEF Lifecycle!Next
<1> QED BY <1>1, <1>2, <1>3, <1>4, CleanedRow

(* A claim binds an ID that no row stands for, or one long dead.           *)
LEMMA ClaimImplements ==
    ASSUME Punctual, IInv, IInv', NEW c \in Calls, NEW t \in Readings, ClaimNew(c, t),
           NEW i \in RunIds
    PROVE  Lifecycle(i)!Next \/ UNCHANGED Lifecycle(i)!vars
<1>1. TypeOKStore /\ TypeOKStore' /\ TombstoneOutlives /\ TombstoneOutlives'
  BY DEF IInv, TypeOK
<1>2. /\ now \in Nat /\ t \in Nat /\ t <= now /\ now <= t + LockWait
      /\ UNCHANGED now
  BY <1>1, ReadingsBound DEF TypeOKStore, ClaimNew
<1>3. Cleaned(t) \in [RunIds -> Rows \cup {NoRow}]
  BY <1>1, <1>2, CleanedType
<1>4. CASE i # call[c].id
  <2>1. registry'[i] = Cleaned(t)[i]
    BY <1>3, <1>4 DEF ClaimNew, ClaimCreates
  <2> QED BY <1>1, <1>2, <2>1, CleanupImplements
<1>5. CASE i = call[c].id
  <2>1. Cleaned(t)[i] = NoRow /\ registry'[i] = NewRow(BindingOf(c), c, t)
    BY <1>3, <1>5 DEF ClaimNew, ClaimCreates
  <2>2. BindingOf(c) \in Bindings
    BY BindingType DEF IInv
  <2>3. Age(i) \in {"none", "dead"}
    <3>1. CASE registry[i] = NoRow
      BY <3>1, AgeOfNoRow
    <3>2. CASE registry[i] \in Rows
      <4>1. registry[i] # NoRow
        BY <3>2, NoRowIsNoRow
      <4>2. [registry[i] EXCEPT !.status = "EXPIRED", !.result = None] \in Rows
        BY <3>2 DEF Rows, Statuses
      <4>3. registry[i].tombstone <= t
        BY <1>1, <1>2, <2>1, <4>1, <4>2, CleanedRow, NoRowIsNoRow
      <4>4. registry[i].tombstone <= now
        BY <1>2, <3>2, <4>3 DEF Rows
      <4> QED BY <1>1, <3>2, <4>1, <4>4, AgeOfRow DEF TombstoneOutlives
    <3> QED BY <1>1, <3>1, <3>2 DEF TypeOKStore
  <2>4. /\ registry'[i].status = "STARTED" /\ registry'[i].binding = BindingOf(c)
        /\ registry'[i].result = None /\ registry'[i].expires = t + Retention
        /\ registry'[i] # NoRow
    BY <1>2, <2>1, <2>2, NewRowType, NoRowIsNoRow DEF NewRow
  <2>5. now' < registry'[i].expires
    BY <1>2, <2>4, RetentionAssumption, LockWaitAssumption
  <2>6. Age(i)' = "fresh"
    <3>1. now' \in Nat /\ registry'[i].expires \in Nat
      BY <1>2, <2>4, RetentionAssumption
    <3> QED BY <2>4, <2>5, <3>1 DEF Age
  <2>7. Lifecycle(i)!Open(BindingOf(c))
    BY <2>3, <2>4, <2>6 DEF Lifecycle!Open
  <2> QED BY <2>2, <2>7 DEF Lifecycle!Next
<1> QED BY <1>4, <1>5

LEMMA SettledFields ==
    ASSUME NEW row \in Rows, NEW status, NEW result, NEW t
    PROVE  /\ Settled(row, status, result, t).status = status
           /\ Settled(row, status, result, t).result = result
           /\ Settled(row, status, result, t).binding = row.binding
           /\ Settled(row, status, result, t).expires = t + Retention
<1> DEFINE e == t + Retention
           d == t + Retention + Tombstone
<1>1. Settled(row, status, result, t) =
        [row EXCEPT !.status = status, !.result = result,
                    !.expires = e, !.tombstone = d]
  BY DEF Settled
<1> HIDE DEF e, d
<1>2. /\ Settled(row, status, result, t).status = status
      /\ Settled(row, status, result, t).result = result
      /\ Settled(row, status, result, t).binding = row.binding
      /\ Settled(row, status, result, t).expires = e
  BY <1>1 DEF Rows
<1> QED BY <1>2 DEF e

(* An UPDATE settles the run of its call, which is in progress; it leaves  *)
(* every other ID alone.                                                   *)
LEMMA SettleImplements ==
    ASSUME IInv, IInv', NEW c \in Calls, call[c].pc \in Executing, UNCHANGED now,
           NEW t \in Readings, IsStarted(call[c].id),
           NEW status \in Statuses, NEW result \in Results \cup {None},
           registry' = [registry EXCEPT ![call[c].id] = Settled(@, status, result, t)],
           \/ /\ status = "COMPLETED"
              /\ result = [evidence |-> BindingOf(c), provenance |-> BindingOf(c)]
           \/ status = "FAILED" /\ result = None,
           NEW i \in RunIds
    PROVE  Lifecycle(i)!Next \/ UNCHANGED Lifecycle(i)!vars
<1>1. TypeOKStore /\ registry' \in [RunIds -> Rows \cup {NoRow}]
  BY DEF IInv, TypeOK, TypeOKStore
<1>2. CASE i # call[c].id
  BY <1>1, <1>2, RowStutters DEF TypeOKStore
<1>3. CASE i = call[c].id
  <2>1. /\ registry[i] \in Rows /\ registry[i].status = "STARTED"
        /\ registry[i].binding = BindingOf(c)
    BY <1>1, <1>3 DEF TypeOKStore, IsStarted, NoRow, IInv, ExecutorHoldsRow, HoldsRow
  <2>2. registry[i].result \in Results \cup {None} /\ registry[i].result = None
    BY <2>1, NoRowIsNoRow DEF IInv, PayloadIsOfItsRow, Rows
  <2>3. registry'[i] = Settled(registry[i], status, result, t)
    BY <1>1, <1>3 DEF TypeOKStore
  <2>4. /\ registry'[i].status = status /\ registry'[i].result = result
        /\ registry'[i].binding = registry[i].binding
        /\ registry'[i].expires = t + Retention
    BY <2>1, <2>3, SettledFields
  <2>5. registry[i] # NoRow /\ registry'[i] # NoRow
    BY <2>1, <2>4, NoRowIsNoRow DEF NoRow
  <2>6. /\ now \in Nat /\ t \in Nat /\ now <= t + LockWait
    BY <1>1, ReadingsBound DEF TypeOKStore
  <2>7. now' < registry'[i].expires
    BY <2>4, <2>6, RetentionAssumption, LockWaitAssumption
  <2>8. Age(i)' = "fresh"
    <3>1. now' \in Nat /\ registry'[i].expires \in Nat
      BY <2>4, <2>6, RetentionAssumption
    <3> QED BY <2>5, <2>7, <3>1 DEF Age
  <2>9. Lifecycle(i)!Complete \/ Lifecycle(i)!Fail
    BY <2>1, <2>2, <2>4, <2>5, <2>8 DEF Lifecycle!Complete, Lifecycle!Fail
  <2> QED BY <2>9 DEF Lifecycle!Next
<1> QED BY <1>2, <1>3

(* A tick of the clock ages a row by one stage at most: the tombstone      *)
(* outlives the payload by a whole unit at least.                          *)
LEMMA TickImplements ==
    ASSUME IInv, NEW i \in RunIds, UNCHANGED registry, now' = now + 1
    PROVE  Lifecycle(i)!Next \/ UNCHANGED Lifecycle(i)!vars
<1>1. TypeOKStore /\ TombstoneOutlives
  BY DEF IInv, TypeOK
<1>2. CASE registry[i] = NoRow
  BY <1>2 DEF Lifecycle!vars, Age
<1>3. CASE registry[i] \in Rows
  <2>1. /\ registry[i] # NoRow /\ registry'[i] = registry[i] /\ now \in Nat
        /\ registry[i].expires \in Nat /\ registry[i].tombstone \in Nat
    BY <1>1, <1>3, NoRowIsNoRow DEF TypeOKStore, Rows
  <2>2. registry[i].tombstone = registry[i].expires + Tombstone
    BY <1>1, <2>1 DEF TombstoneOutlives
  <2>3. \/ Age(i)' = Age(i)
        \/ Age(i) = "fresh" /\ Age(i)' = "lapsed"
        \/ Age(i) = "lapsed" /\ Age(i)' = "dead"
    BY <2>1, <2>2, RetentionAssumption DEF Age
  <2>4. Lifecycle(i)!GrowOld \/ UNCHANGED Lifecycle(i)!vars
    BY <2>1, <2>3 DEF Lifecycle!GrowOld, Lifecycle!vars
  <2> QED BY <2>4 DEF Lifecycle!Next
<1> QED BY <1>1, <1>2, <1>3 DEF TypeOKStore

LEMMA LifecycleStep ==
    ASSUME Punctual, IInv, IInv', [Next]_vars, NEW i \in RunIds
    PROVE  Lifecycle(i)!Next \/ UNCHANGED Lifecycle(i)!vars
<1>1. TypeOKStore /\ TypeOKStore' /\ TombstoneOutlives
  BY DEF IInv, TypeOK
<1>2. CASE UNCHANGED <<now, registry>>
  BY <1>2, RowStutters
<1>3. ASSUME NEW t \in Readings, UNCHANGED now, registry' = Cleaned(t)
      PROVE  Lifecycle(i)!Next \/ UNCHANGED Lifecycle(i)!vars
  BY <1>1, <1>3, CleanupImplements
<1>4. ASSUME NEW c \in Calls, NEW t \in Readings, ClaimNew(c, t)
      PROVE  Lifecycle(i)!Next \/ UNCHANGED Lifecycle(i)!vars
  BY <1>4, ClaimImplements
<1>5. ASSUME NEW c \in Calls, NEW t \in Readings, CommitComplete(c, t)
      PROVE  Lifecycle(i)!Next \/ UNCHANGED Lifecycle(i)!vars
  <2>1. call[c].pc \in Executing /\ UNCHANGED now
    BY <1>5 DEF CommitComplete, Executing, Synchronous
  <2>2. CASE UNCHANGED registry
    BY <2>1, <2>2, RowStutters
  <2>3. CASE /\ IsStarted(call[c].id)
             /\ registry' = [registry EXCEPT ![call[c].id] =
                    Settled(@, "COMPLETED",
                        [evidence |-> BindingOf(c), provenance |-> BindingOf(c)], t)]
    <3>1. BindingOf(c) \in Bindings
      BY BindingType DEF IInv
    <3>2. [evidence |-> BindingOf(c), provenance |-> BindingOf(c)] \in Results
      BY <3>1 DEF Results
    <3>3. "COMPLETED" \in Statuses
      BY DEF Statuses, LiveStatuses
    <3> QED BY <2>1, <2>3, <3>2, <3>3, SettleImplements
  <2> QED BY <1>5, <2>2, <2>3, CompletesOrGoesOn
<1>6. ASSUME NEW c \in Calls, NEW t \in Readings, CommitFail(c, t)
      PROVE  Lifecycle(i)!Next \/ UNCHANGED Lifecycle(i)!vars
  <2>1. call[c].pc \in Executing /\ UNCHANGED now /\ FailUpdate(call[c].id, t)
    BY <1>6 DEF CommitFail, Executing, Synchronous
  <2>2. CASE IsStarted(call[c].id)
    <3>1. registry' = [registry EXCEPT ![call[c].id] = Settled(@, "FAILED", None, t)]
      BY <2>1, <2>2 DEF FailUpdate
    <3>2. "FAILED" \in Statuses
      BY DEF Statuses, LiveStatuses
    <3> QED BY <2>1, <2>2, <3>1, <3>2, SettleImplements
  <2>3. CASE ~ IsStarted(call[c].id)
    BY <2>1, <2>3, RowStutters DEF FailUpdate
  <2> QED BY <2>2, <2>3
<1>7. CASE Tick
  BY <1>7, TickImplements DEF Tick
<1>8. ~ MayDelete
  BY DEF Punctual
<1> QED BY <1>1, <1>2, <1>3, <1>4, <1>5, <1>6, <1>7, <1>8, RegistrySteps DEF IInv

(* Whatever the processes do, each run ID goes through the states of       *)
(* RunLifecycle and no others.  AuditRunStore as full_audit uses it.       *)
THEOREM LifecycleHolds == ASSUME Punctual PROVE Spec => LifecycleImplemented
<1> DEFINE Step == \A i \in RunIds : Lifecycle(i)!Next \/ UNCHANGED Lifecycle(i)!vars
           Start == \A i \in RunIds : Lifecycle(i)!Absent
<1>1. Punctual
  OBVIOUS
<1>2. Init => Start
  BY AgeOfNoRow DEF Init, InitStore
<1>3. IInv /\ IInv' /\ [Next]_vars => [Step]_vars
  BY <1>1, LifecycleStep
<1>4. LifecycleImplemented <=> Start /\ [][Step]_vars
  BY DEF LifecycleImplemented
<1> HIDE DEF Step, Start
<1> QED BY <1>2, <1>3, <1>4, InvariantHolds, PTL DEF Spec
=============================================================================
