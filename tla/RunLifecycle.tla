---------------------------- MODULE RunLifecycle ----------------------------
(***************************************************************************)
(* What the registry promises about one audit run ID, whoever uses it and  *)
(* in whatever order: the state model of docs/audit-run-reconciliation.md, *)
(* as the code of AuditRunStore realises it.  An ID is bound when a run is *)
(* opened and stays bound until its tombstone lapses; evidence is recorded *)
(* once, by an audit of exactly that binding, and is never replaced; a     *)
(* payload is dropped only after retention, and an expired run never       *)
(* comes back to life.  Module FullAudit implements this specification.    *)
(***************************************************************************)
CONSTANTS Bindings, None

VARIABLES
    status,    \* NOT_FOUND, or the status of the run
    binding,   \* what the ID is bound to, None while NOT_FOUND
    result,    \* the recoverable payload, None when there is none
    age        \* none, fresh, lapsed (past retention), dead (past tombstone)

vars == <<status, binding, result, age>>

Absent ==
    /\ status = "NOT_FOUND"
    /\ binding = None
    /\ result = None
    /\ age = "none"

(* An ID is bound when it is unknown, or when its old run is long dead. *)
Open(b) ==
    /\ age \in {"none", "dead"}
    /\ status' = "STARTED"
    /\ binding' = b
    /\ result' = None
    /\ age' = "fresh"

Complete ==
    /\ status = "STARTED"
    /\ status' = "COMPLETED"
    /\ result' = [evidence |-> binding, provenance |-> binding]
    /\ age' = "fresh"
    /\ UNCHANGED binding

Fail ==
    /\ status = "STARTED"
    /\ status' = "FAILED"
    /\ age' = "fresh"
    /\ UNCHANGED <<binding, result>>

GrowOld ==
    /\ \/ age = "fresh" /\ age' = "lapsed"
       \/ age = "lapsed" /\ age' = "dead"
    /\ UNCHANGED <<status, binding, result>>

Expire ==
    /\ status \in {"STARTED", "COMPLETED", "FAILED"}
    /\ age \in {"lapsed", "dead"}
    /\ status' = "EXPIRED"
    /\ result' = None
    /\ UNCHANGED <<binding, age>>

Forget == age = "dead" /\ Absent'

Next ==
    \/ \E b \in Bindings : Open(b)
    \/ Complete
    \/ Fail
    \/ GrowOld
    \/ Expire
    \/ Forget

Spec == Absent /\ [][Next]_vars
=============================================================================
