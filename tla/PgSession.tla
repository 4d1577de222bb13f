----------------------------- MODULE PgSession -----------------------------
(***************************************************************************)
(* The PostgreSQL session of one pgtriage process: class ConnectionManager *)
(* of src/pgtriage/connection.py, and the EXPLAIN runners of               *)
(* src/pgtriage/analyzers/explain.py on top of it.                         *)
(*                                                                         *)
(* A process has one ConnectionManager and serves its tool calls as        *)
(* asyncio tasks, so the statements of different tasks interleave on one   *)
(* session.  A statement is atomic: psycopg holds the connection's lock    *)
(* while it runs.  Between two statements of a task any other may come.    *)
(*                                                                         *)
(* The transaction() blocks of psycopg and the session they talk to are    *)
(* external to the repository, and modelled from how its code uses them:   *)
(* the first block of an idle session sends BEGIN and, as these blocks     *)
(* always raise, ROLLBACK; a block entered inside a transaction sends      *)
(* SAVEPOINT and ROLLBACK TO.  psycopg counts the open blocks of a         *)
(* connection, and a block that is not the innermost one when it ends      *)
(* raises OutOfOrderTransactionNesting and sends nothing.                  *)
(***************************************************************************)
EXTENDS Integers, Sequences, FiniteSets

CONSTANTS
    Tasks,       \* tool calls in progress
    Loads,       \* how the process may be used, see LoadStates
    GenericPlan, \* whether the server has EXPLAIN (GENERIC_PLAN): 16 and later
    MaxConns,    \* bound: connections opened in a behaviour
    MaxDepth     \* bound: transaction blocks, and savepoints, of a connection

(* Whether tool calls run at the same time, whether a client cancels one,  *)
(* and whether the server ends a connection.                               *)
LoadStates == [overlap : BOOLEAN, cancel : BOOLEAN, drop : BOOLEAN]

ASSUME SessionAssumption ==
    /\ Loads \subseteq LoadStates
    /\ GenericPlan \in BOOLEAN
    /\ MaxConns \in Nat
    /\ MaxDepth \in Nat

VARIABLES
    conns,     \* the connections opened so far, in order
    current,   \* ConnectionManager._conn: an index of conns, 0 for None
    task,      \* where each tool call is
    load       \* how the process is used: never changes

vars == <<conns, current, task, load>>

(* The kinds of operation a tool performs: a fetch, run_explain_analyze on *)
(* a plain query, _run_parameterized_explain, and its fallback             *)
(* _run_prepared_generic_explain.                                          *)
Explains == {"analyze", "generic", "prepared"}
Kinds == {"fetch"} \cup Explains

(* open is what psycopg knows of a connection (not conn.closed), alive     *)
(* whether the server still serves it: a loss is noticed by the statement  *)
(* that meets it.  depth is psycopg's count of open transaction blocks,    *)
(* saves the session's savepoints, timeout whether SET LOCAL               *)
(* statement_timeout is in force, prepared whether the prepared statement  *)
(* pgtriage_generic_explain exists.                                        *)
Conns == [open : BOOLEAN, alive : BOOLEAN, readonly : BOOLEAN,
          tx : {"idle", "intrans", "inerror"}, depth : Nat,
          saves : Seq([name : Nat, timeout : BOOLEAN]),
          timeout : BOOLEAN, prepared : BOOLEAN]

(* conn is the connection of the task's transaction block and index the    *)
(* block's place on it; cur is the connection its next statement goes to.  *)
PCs == {"idle", "connecting", "setting", "reading",
        "entering", "limiting", "preparing", "planning", "leaving"}

TaskStates == [pc : PCs, kind : Kinds, conn : Nat, cur : Nat, index : Nat,
               outer : BOOLEAN, failed : BOOLEAN]

Rest == [pc |-> "idle", kind |-> "fetch", conn |-> 0, cur |-> 0, index |-> 0,
         outer |-> FALSE, failed |-> FALSE]

TypeOK ==
    /\ conns \in Seq(Conns)
    /\ current \in 0..Len(conns)
    /\ task \in [Tasks -> TaskStates]
    /\ load \in LoadStates
    /\ \A t \in Tasks : {task[t].conn, task[t].cur} \subseteq 0..Len(conns)

-----------------------------------------------------------------------------
(* ConnectionManager.                                                      *)
(* There is a connection to use, as far as the client can tell at the end  *)
(* of the step (no step that goes on to use one replaces it).              *)
Connected == current # 0 /\ conns'[current].open

NewConn == [open |-> TRUE, alive |-> TRUE, readonly |-> FALSE, tx |-> "idle",
            depth |-> 0, saves |-> <<>>, timeout |-> FALSE, prepared |-> FALSE]

End(t) == task' = [task EXCEPT ![t] = Rest]

(* The first statement of an operation, on the connection of that moment:  *)
(* a fetch opens its cursor, an EXPLAIN its transaction block.  The        *)
(* property conn raises if the connection has gone.                        *)
Issue(t, kind) ==
    IF Connected
    THEN task' = [task EXCEPT ![t] =
            IF kind = "fetch"
            THEN [Rest EXCEPT !.pc = "reading", !.kind = kind, !.cur = current]
            ELSE [Rest EXCEPT !.pc = "entering", !.kind = kind, !.conn = current]]
    ELSE End(t)

(* _ensure_connected(): no await if there is a connection, else connect(). *)
Ensure(t, kind) ==
    IF Connected
    THEN Issue(t, kind)
    ELSE task' = [task EXCEPT ![t] = [Rest EXCEPT !.pc = "connecting", !.kind = kind]]

Start(t, kind) ==
    /\ task[t].pc = "idle"
    /\ load.overlap \/ \A u \in Tasks : task[u].pc = "idle"
    /\ kind # "prepared"
    /\ UNCHANGED <<conns, current, load>>
    /\ Ensure(t, kind)

(* connect(): _conn is assigned before the session is made read-only.      *)
ConnectOpens(t) ==
    /\ task[t].pc = "connecting"
    /\ Len(conns) < MaxConns
    /\ conns' = Append(conns, NewConn)
    /\ current' = Len(conns) + 1
    /\ task' = [task EXCEPT ![t].pc = "setting", ![t].cur = Len(conns) + 1]
    /\ UNCHANGED load

(* Mutant of ConnectFails: _conn is assigned before the attempt. *)
ConnectFailsAssigned(t) ==
    /\ task[t].pc = "connecting"
    /\ current' = Len(conns) + 1
    /\ End(t)
    /\ UNCHANGED <<conns, load>>

ConnectFails(t) ==
    /\ task[t].pc = "connecting"
    /\ End(t)
    /\ UNCHANGED <<conns, current, load>>

(* A statement that fails aborts the transaction it is in, if any. *)
Aborted(conn) ==
    IF conn.tx = "idle" THEN conn ELSE [conn EXCEPT !.tx = "inerror"]

Accepts(k) == conns[k].open /\ conns[k].alive /\ conns[k].tx # "inerror"

(* Any statement is refused on a lost connection, which psycopg then finds *)
(* closed, and in an aborted transaction.                                  *)
Refuse(k) == conns' = [conns EXCEPT ![k].open = @ /\ conns[k].alive]

(* Mutant of SetReadOnly: the SET is issued and not awaited. *)
SetReadOnlyLater(t) ==
    /\ task[t].pc = "setting"
    /\ UNCHANGED <<conns, current, load>>
    /\ Issue(t, task[t].kind)

(* SET default_transaction_read_only = true; then the operation goes on,   *)
(* on whatever connection is the current one by now.                       *)
SetReadOnly(t) ==
    /\ task[t].pc = "setting"
    /\ LET k == task[t].cur
       IN  IF conns[k].alive
           THEN /\ conns' = [conns EXCEPT ![k].readonly = TRUE]
                /\ Issue(t, task[t].kind)
           ELSE End(t) /\ Refuse(k)
    /\ UNCHANGED <<current, load>>

(* connect() takes the lock for its SET before anyone else can ask for it. *)
LockFree(k) ==
    \A u \in Tasks : task[u].pc = "setting" => task[u].cur # k

-----------------------------------------------------------------------------
(* Statements on a session.                                                *)

(* fetch_all, fetch_one. *)
Read(t) ==
    /\ task[t].pc = "reading"
    /\ LockFree(task[t].cur)
    /\ LET k == task[t].cur
       IN  \/ Accepts(k) /\ UNCHANGED conns
           \/ Accepts(k) /\ conns' = [conns EXCEPT ![k] = Aborted(@)]
           \/ ~ Accepts(k) /\ Refuse(k)
    /\ End(t)
    /\ UNCHANGED <<current, load>>

(* An EXPLAIN is over, with or without a plan.  Any psycopg.Error of the   *)
(* first attempt at a parameterized query leads to the fallback.           *)
Conclude(t, failed) ==
    IF task[t].kind = "generic" /\ failed
    THEN Ensure(t, "prepared")
    ELSE End(t)

(* The block is entered: SET LOCAL comes next, on a cursor of the          *)
(* connection that is current now; if it has gone, the block is left.      *)
Entered(t, outer) ==
    task' = [task EXCEPT ![t] =
        [@ EXCEPT !.pc = IF Connected THEN "limiting" ELSE "leaving",
                  !.cur = current,
                  !.index = conns[task[t].conn].depth,
                  !.outer = outer]]

(* transaction().__aenter__: psycopg counts the block, then sends BEGIN or *)
(* SAVEPOINT.  In an aborted transaction SAVEPOINT fails, and the block    *)
(* stays counted though it was never entered.                              *)
Enter(t) ==
    /\ task[t].pc = "entering"
    /\ LockFree(task[t].conn)
    /\ LET k == task[t].conn
       IN  IF ~ (conns[k].open /\ conns[k].alive)
           THEN Refuse(k) /\ Conclude(t, TRUE)
           ELSE /\ conns[k].depth < MaxDepth /\ Len(conns[k].saves) < MaxDepth
                /\ CASE conns[k].tx = "idle" ->
                          /\ conns' = [conns EXCEPT ![k].tx = "intrans",
                                                    ![k].depth = @ + 1]
                          /\ Entered(t, TRUE)
                     [] conns[k].tx = "intrans" ->
                          /\ conns' = [conns EXCEPT
                                ![k].saves = Append(@, [name |-> conns[k].depth + 1,
                                                        timeout |-> conns[k].timeout]),
                                ![k].depth = @ + 1]
                          /\ Entered(t, FALSE)
                     [] conns[k].tx = "inerror" ->
                          /\ conns' = [conns EXCEPT ![k].depth = @ + 1]
                          /\ Conclude(t, TRUE)
    /\ UNCHANGED <<current, load>>

Leaving(t, failed) ==
    task' = [task EXCEPT ![t].pc = "leaving", ![t].failed = failed]

Advance(t, pc) == task' = [task EXCEPT ![t].pc = pc]

(* Mutant of Limit: SET LOCAL is left to the session's default. *)
LimitSkipped(t) ==
    /\ task[t].pc = "limiting"
    /\ LockFree(task[t].cur)
    /\ Advance(t, IF task[t].kind = "prepared" THEN "preparing" ELSE "planning")
    /\ UNCHANGED <<conns, current, load>>

(* SET LOCAL statement_timeout: without effect outside a transaction.  The *)
(* fallback also forces generic plans and then prepares.                   *)
Limit(t) ==
    /\ task[t].pc = "limiting"
    /\ LockFree(task[t].cur)
    /\ LET k == task[t].cur
       IN  IF Accepts(k)
           THEN /\ conns' = [conns EXCEPT ![k].timeout = (conns[k].tx = "intrans")]
                /\ Advance(t, IF task[t].kind = "prepared" THEN "preparing"
                                                           ELSE "planning")
           ELSE Leaving(t, TRUE) /\ Refuse(k)
    /\ UNCHANGED <<current, load>>

(* PREPARE: session-wide, not undone by ROLLBACK, an error if it exists.   *)
Prepare(t) ==
    /\ task[t].pc = "preparing"
    /\ LockFree(task[t].cur)
    /\ LET k == task[t].cur
       IN  \/ /\ Accepts(k) /\ ~ conns[k].prepared
              /\ conns' = [conns EXCEPT ![k].prepared = TRUE]
              /\ Advance(t, "planning")
           \/ /\ Accepts(k)
              /\ conns' = [conns EXCEPT ![k] = Aborted(@)]
              /\ Leaving(t, TRUE)
           \/ /\ ~ Accepts(k)
              /\ Refuse(k)
              /\ Leaving(t, TRUE)
    /\ UNCHANGED <<current, load>>

(* EXPLAIN: a plan, or an error (timeout, permission, syntax). *)
Plan(t) ==
    /\ task[t].pc = "planning"
    /\ LockFree(task[t].cur)
    /\ LET k == task[t].cur
       IN  \/ /\ Accepts(k) /\ (task[t].kind = "generic" => GenericPlan)
              /\ UNCHANGED conns
              /\ Leaving(t, FALSE)
           \/ /\ Accepts(k)
              /\ conns' = [conns EXCEPT ![k] = Aborted(@)]
              /\ Leaving(t, TRUE)
           \/ /\ ~ Accepts(k)
              /\ Refuse(k)
              /\ Leaving(t, TRUE)
    /\ UNCHANGED <<current, load>>

(* Mutant of RolledBack: the block ends with no signal, so it commits, and *)
(* its SET is not LOCAL.                                                   *)
CommittedWithSettings(conn) ==
    [conn EXCEPT !.tx = "idle", !.saves = <<>>]

(* ROLLBACK ends the transaction with its settings and savepoints. *)
RolledBack(conn) ==
    [conn EXCEPT !.tx = "idle", !.saves = <<>>, !.timeout = FALSE]

(* A savepoint goes with those before it, so a block may be left for which *)
(* there is none: ROLLBACK TO is then an error, of which psycopg only      *)
(* warns, as it does when the connection is lost.                          *)
HasSave(conn, name) == \E i \in DOMAIN conn.saves : conn.saves[i].name = name

(* ROLLBACK TO and RELEASE: back to the settings the savepoint saw. *)
RolledBackTo(conn, name) ==
    LET p == CHOOSE i \in DOMAIN conn.saves :
                /\ conn.saves[i].name = name
                /\ \A j \in DOMAIN conn.saves : conn.saves[j].name = name => j <= i
    IN  [conn EXCEPT !.tx = "intrans", !.timeout = conn.saves[p].timeout,
                     !.saves = SubSeq(@, 1, p - 1)]

(* After either, psycopg drops its own prepared statements, if it has any, *)
(* with DEALLOCATE ALL, which takes pgtriage's too.                        *)
Deallocated(conn, all) == [conn EXCEPT !.prepared = @ /\ ~ all]

(* transaction().__aexit__ with _RollbackSignal or an error in flight.     *)
Leave(t) ==
    /\ task[t].pc = "leaving"
    /\ LockFree(task[t].conn)
    /\ LET k == task[t].conn
           popped == [conns[k] EXCEPT !.depth = @ - 1]
           innermost == popped.depth = task[t].index
       IN  \/ /\ ~ conns[k].open
              /\ UNCHANGED conns
              /\ Conclude(t, task[t].failed)
           \/ /\ conns[k].open /\ innermost /\ ~ conns[k].alive
              /\ Refuse(k)
              /\ Conclude(t, task[t].failed)
           \/ /\ conns[k].open /\ innermost /\ conns[k].alive
              /\ \E all \in BOOLEAN :
                    conns' = [conns EXCEPT ![k] =
                        CASE task[t].outer -> Deallocated(RolledBack(popped), all)
                          [] ~ task[t].outer /\ HasSave(popped, task[t].index + 1) ->
                                Deallocated(RolledBackTo(popped, task[t].index + 1), all)
                          [] OTHER -> Aborted(popped)]
              /\ Conclude(t, task[t].failed)
           \/ /\ conns[k].open /\ ~ innermost
              /\ conns' = [conns EXCEPT ![k] = popped]
              /\ Conclude(t, TRUE)
    /\ UNCHANGED <<current, load>>

-----------------------------------------------------------------------------
(* A client cancels: CancelledError at an await.  connect() leaves its new *)
(* connection in place, whether or not the SET was run.  A block being     *)
(* entered may have been counted and its BEGIN or SAVEPOINT run, and is    *)
(* then left by nobody.  A block that was entered is left; the statement   *)
(* it waited for may have been cancelled.  A block being left is left all  *)
(* the same if its ROLLBACK was sent, which psycopg waits for, but not if  *)
(* it still waits for the lock that another call's statement holds.        *)
Cancel(t) ==
    /\ load.cancel
    /\ \/ /\ task[t].pc \in {"connecting", "reading", "entering"}
          /\ End(t)
          /\ UNCHANGED conns
       \/ /\ task[t].pc = "entering"
          /\ LET k == task[t].conn
             IN  /\ LockFree(k) /\ Accepts(k) /\ conns[k].depth < MaxDepth
                 /\ conns' = [conns EXCEPT
                        ![k].depth = @ + 1,
                        ![k].tx = "intrans",
                        ![k].saves = IF conns[k].tx = "idle" THEN @
                            ELSE Append(@, [name |-> conns[k].depth + 1,
                                            timeout |-> conns[k].timeout])]
          /\ End(t)
       \/ /\ task[t].pc = "setting"
          /\ \E ran \in BOOLEAN :
                conns' = [conns EXCEPT ![task[t].cur].readonly = ran]
          /\ End(t)
       \/ /\ task[t].pc \in {"limiting", "preparing", "planning"}
          /\ \/ UNCHANGED conns
             \/ /\ Accepts(task[t].cur)
                /\ conns' = [conns EXCEPT ![task[t].cur] = Aborted(@)]
          /\ task' = [task EXCEPT ![t].pc = "leaving", ![t].kind = "analyze"]
       \/ /\ task[t].pc = "leaving"
          /\ UNCHANGED conns
          /\ \/ task' = [task EXCEPT ![t].kind = "analyze"]
             \/ (\E u \in Tasks \ {t} : task[u].pc # "idle") /\ End(t)
    /\ UNCHANGED <<current, load>>

(* The server or the network ends a connection. *)
Drop(k) ==
    /\ load.drop
    /\ conns[k].alive
    /\ conns' = [conns EXCEPT ![k].alive = FALSE]
    /\ UNCHANGED <<current, task, load>>

-----------------------------------------------------------------------------
Init ==
    /\ conns = <<>>
    /\ current = 0
    /\ task = [t \in Tasks |-> Rest]
    /\ load \in Loads

Connect(t) == ConnectOpens(t) \/ ConnectFails(t) \/ SetReadOnly(t)

Explain(t) == Enter(t) \/ Limit(t) \/ Prepare(t) \/ Plan(t) \/ Leave(t)

Next ==
    \/ \E t \in Tasks :
          \/ \E kind \in Kinds : Start(t, kind)
          \/ Connect(t) \/ Read(t) \/ Explain(t) \/ Cancel(t)
    \/ \E k \in DOMAIN conns : Drop(k)

Spec == Init /\ [][Next]_vars

-----------------------------------------------------------------------------
(* Correctness.                                                            *)
Serial == ~ load.overlap
Uncancelled == ~ load.cancel

(* Every EXPLAIN runs inside a transaction whose statement timeout is set  *)
(* (README.md, "Safety"), whatever became of the connection or of earlier  *)
(* EXPLAINs.  In an aborted transaction it does not run.                   *)
(* run_explain_analyze, _run_parameterized_explain and its fallback.       *)
ExplainIsContained ==
    \A t \in Tasks : task[t].pc = "planning" =>
        LET c == conns[task[t].cur]
        IN  c.open /\ c.alive =>
                /\ c.tx # "idle"
                /\ c.tx = "intrans" => c.timeout

(* That much holds of tool calls that come one after the other, though     *)
(* they be cancelled at any await and their blocks left open.              *)
SerialExplainIsContained == Serial => ExplainIsContained

(* When no EXPLAIN is in progress the session is as connect() left it: no  *)
(* transaction is open, no setting of an EXPLAIN outlives it.              *)
(* run_explain_analyze, _run_prepared_generic_explain.                     *)
SessionIsReleased ==
    Serial /\ Uncancelled /\ (\A t \in Tasks : task[t].kind = "fetch") =>
        \A k \in DOMAIN conns : conns[k].open /\ conns[k].alive =>
            conns[k].tx = "idle" /\ conns[k].depth = 0 /\ ~ conns[k].timeout

(* No statement of a tool reaches a session that is not read-only: the     *)
(* session of every connection in use was set, whichever task opened it    *)
(* and whichever uses it.  connect, _ensure_connected, conn.               *)
SessionsAreReadOnly ==
    \A t \in Tasks :
        task[t].pc \in {"reading", "limiting", "preparing", "planning"} =>
            LET k == task[t].cur
            IN  conns[k].readonly \/ ~ LockFree(k) \/ ~ conns[k].open

(* That holds of calls that race each other's reconnects, as long as none  *)
(* is cancelled.                                                           *)
RacingSessionsAreReadOnly == Uncancelled => SessionsAreReadOnly

(* The fallback's statement is gone when its transaction is ("a            *)
(* transaction-scoped prepared statement", explain.py).                    *)
PreparedIsScoped ==
    \A k \in DOMAIN conns : conns[k].tx = "idle" => ~ conns[k].prepared

(* The accounts of psycopg and of the session agree: an idle session has   *)
(* no block counted, no savepoint and no local setting, however calls      *)
(* overlap and are cancelled.  Enter, Leave.                               *)
IdleHasNoBlocks ==
    \A k \in DOMAIN conns : conns[k].tx = "idle" =>
        conns[k].depth = 0 /\ conns[k].saves = <<>> /\ ~ conns[k].timeout

-----------------------------------------------------------------------------
(* What makes the properties above inductive.                              *)

(* Where the calls are.  A block's connection exists, and one that sent    *)
(* BEGIN was the first.                                                    *)
Limited == {"preparing", "planning"}
Within == {"limiting", "leaving"} \cup Limited

IsPlaced(s) ==
    /\ s.pc \in {"setting", "reading", "limiting"} \cup Limited => s.cur # 0
    /\ s.pc \in {"entering"} \cup Within => s.conn # 0 /\ s.kind # "fetch"
    /\ s.pc \in Within /\ s.outer => s.index = 0

CallsArePlaced == \A t \in Tasks : IsPlaced(task[t])

(* psycopg counts every block that was entered and not left; it may count  *)
(* more, for one whose SAVEPOINT failed or was cancelled stays counted.    *)
Inside(k) == {t \in Tasks : task[t].pc \in Within /\ task[t].conn = k}

BlocksAreCounted ==
    \A k \in DOMAIN conns :
        /\ IsFiniteSet(Inside(k))
        /\ Cardinality(Inside(k)) <= conns[k].depth

(* A session that is not read-only yet is in the hands of connect().       *)
SettingIsAwaited ==
    Uncancelled => \A k \in DOMAIN conns :
        \/ conns[k].readonly
        \/ ~ conns[k].open
        \/ \E t \in Tasks : task[t].pc = "setting" /\ task[t].cur = k

(* Calls that come one after the other stay on one connection each, under  *)
(* the timeout they set.                                                   *)
OneAtATime ==
    \A t, u \in Tasks : task[t].pc # "idle" /\ task[u].pc # "idle" => t = u

StaysAt(s) ==
    /\ s.pc = "entering" => s.conn = current
    /\ s.pc \in {"limiting"} \cup Limited => s.cur = s.conn
    /\ s.pc = "reading" => conns[s.cur].open
    /\ s.pc \in Limited /\ conns[s.cur].tx = "intrans" => conns[s.cur].timeout

StaysConnected == \A t \in Tasks : StaysAt(task[t])

SerialCallsAreApart == Serial => OneAtATime /\ StaysConnected

(* And a transaction is that of the one block there is.                    *)
TransactionIsOwned ==
    Serial /\ Uncancelled =>
        \A k \in DOMAIN conns : conns[k].open =>
            \/ conns[k].tx = "idle"
            \/ conns[k].depth = 1 /\ \E t \in Inside(k) : task[t].outer

IInv ==
    /\ TypeOK
    /\ CallsArePlaced
    /\ BlocksAreCounted
    /\ IdleHasNoBlocks
    /\ SettingIsAwaited
    /\ SerialCallsAreApart
    /\ TransactionIsOwned
=============================================================================
