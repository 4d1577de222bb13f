--------------------------- MODULE PgSessionProofs ---------------------------
(***************************************************************************)
(* Theorems about PgSession, for any number of tool calls, connections and *)
(* nested blocks and for every load: the type invariant, the accounts of   *)
(* psycopg and the session, and what serial or uncancelled calls may rely  *)
(* on.                                                                     *)
(***************************************************************************)
EXTENDS PgSession, NaturalLemmas, FiniteSetTheorems, SequenceTheorems, TLAPS

(* A step of call t that may change connection k, or none if k is none.    *)
Step(t, k) ==
    /\ UNCHANGED <<current, load>>
    /\ conns' \in Seq(Conns)
    /\ Len(conns') = Len(conns)
    /\ \A j \in 1..Len(conns) : j # k => conns'[j] = conns[j]
    /\ \A u \in Tasks : u # t => task'[u] = task[u]
    /\ task' \in [Tasks -> TaskStates]
    /\ {task'[t].conn, task'[t].cur} \subseteq 0..Len(conns)

(* Where a call is between two operations: it has ended, or it connects,   *)
(* or it is about to send the first statement of the next.                 *)
Between(t) ==
    \/ task'[t] = Rest
    \/ task'[t].pc = "connecting"
    \/ task'[t].pc = "reading" /\ Connected /\ task'[t].cur = current
    \/ /\ task'[t].pc = "entering" /\ task'[t].kind # "fetch"
       /\ Connected /\ task'[t].conn = current

(* The call t alone has moved, to a state of its type. *)
Moved(t) ==
    /\ \A u \in Tasks : u # t => task'[u] = task[u]
    /\ task' \in [Tasks -> TaskStates]
    /\ {task'[t].conn, task'[t].cur} \subseteq 0..Len(conns)

(* A call is, after the step, in a block of connection k that sent BEGIN.   *)
Owned(k) ==
    \E u \in Tasks : task'[u].pc \in Within /\ task'[u].conn = k /\ task'[u].outer

LEMMA RestType == Rest \in TaskStates /\ Rest.pc = "idle" /\ Rest.conn = 0 /\ Rest.cur = 0
BY DEF Rest, TaskStates, PCs, Kinds

LEMMA Numbers ==
    ASSUME TypeOK
    PROVE  Len(conns) \in Nat /\ current \in Nat /\ current <= Len(conns)
BY DEF TypeOK

LEMMA MovedTo ==
    ASSUME TypeOK, NEW t \in Tasks, NEW s \in TaskStates,
           {s.conn, s.cur} \subseteq 0..Len(conns),
           task' = [task EXCEPT ![t] = s]
    PROVE  Moved(t) /\ task'[t] = s
BY DEF TypeOK, Moved

LEMMA EndGoes ==
    ASSUME TypeOK, NEW t \in Tasks, End(t)
    PROVE  Moved(t) /\ Between(t)
<1>1. {Rest.conn, Rest.cur} \subseteq 0..Len(conns)
  BY RestType DEF TypeOK
<1> QED BY <1>1, RestType, MovedTo DEF End, Between

LEMMA IssueGoes ==
    ASSUME TypeOK, NEW t \in Tasks, NEW kind \in Kinds, Issue(t, kind)
    PROVE  Moved(t) /\ Between(t)
<1>1. CASE ~ Connected
  BY <1>1, EndGoes DEF Issue
<1>2. CASE Connected /\ kind = "fetch"
  <2> DEFINE s == [Rest EXCEPT !.pc = "reading", !.kind = kind, !.cur = current]
  <2>1. task' = [task EXCEPT ![t] = s]
    BY <1>2 DEF Issue
  <2>2. s \in TaskStates
    BY Numbers DEF Rest, TaskStates, PCs
  <2>3. s.pc = "reading" /\ s.cur = current /\ s.conn = 0
    BY DEF Rest
  <2> HIDE DEF s
  <2>4. {s.conn, s.cur} \subseteq 0..Len(conns)
    BY <2>3, Numbers
  <2> QED BY <1>2, <2>1, <2>2, <2>3, <2>4, MovedTo DEF Between
<1>3. CASE Connected /\ kind # "fetch"
  <2> DEFINE s == [Rest EXCEPT !.pc = "entering", !.kind = kind, !.conn = current]
  <2>1. task' = [task EXCEPT ![t] = s]
    BY <1>3 DEF Issue
  <2>2. s \in TaskStates
    BY Numbers DEF Rest, TaskStates, PCs
  <2>3. s.pc = "entering" /\ s.conn = current /\ s.cur = 0 /\ s.kind = kind
    BY DEF Rest
  <2> HIDE DEF s
  <2>4. {s.conn, s.cur} \subseteq 0..Len(conns)
    BY <2>3, Numbers
  <2> QED BY <1>3, <2>1, <2>2, <2>3, <2>4, MovedTo DEF Between
<1> QED BY <1>1, <1>2, <1>3

LEMMA EnsureGoes ==
    ASSUME TypeOK, NEW t \in Tasks, NEW kind \in Kinds, Ensure(t, kind)
    PROVE  Moved(t) /\ Between(t)
<1>1. CASE Connected
  BY <1>1, IssueGoes DEF Ensure
<1>2. CASE ~ Connected
  <2> DEFINE s == [Rest EXCEPT !.pc = "connecting", !.kind = kind]
  <2>1. task' = [task EXCEPT ![t] = s]
    BY <1>2 DEF Ensure
  <2>2. s \in TaskStates
    BY DEF Rest, TaskStates, PCs
  <2>3. s.pc = "connecting" /\ s.cur = 0 /\ s.conn = 0
    BY DEF Rest
  <2> HIDE DEF s
  <2>4. {s.conn, s.cur} \subseteq 0..Len(conns)
    BY <2>3, Numbers
  <2> QED BY <2>1, <2>2, <2>3, <2>4, MovedTo DEF Between
<1> QED BY <1>1, <1>2

LEMMA ConcludeGoes ==
    ASSUME TypeOK, NEW t \in Tasks, NEW failed, Conclude(t, failed)
    PROVE  Moved(t) /\ Between(t)
BY EndGoes, EnsureGoes DEF Conclude, Kinds, Explains

LEMMA BetweenPlaces ==
    ASSUME NEW t, Between(t)
    PROVE  /\ IsPlaced(task'[t])
           /\ task'[t].pc \notin {"setting"} \cup Within
BY RestType DEF Between, IsPlaced, Connected, Within, Limited, Rest

(* One connection changes, and stays one. *)
LEMMA ConnTo ==
    ASSUME TypeOK, NEW k \in 1..Len(conns), NEW c \in Conns,
           conns' = [conns EXCEPT ![k] = c]
    PROVE  /\ conns' \in Seq(Conns) /\ Len(conns') = Len(conns)
           /\ conns'[k] = c
           /\ \A j \in 1..Len(conns) : j # k => conns'[j] = conns[j]
BY DEF TypeOK

-----------------------------------------------------------------------------
(* What a step must do for each part of the invariant to be preserved.     *)
LEMMA TypeStep ==
    ASSUME TypeOK, NEW t \in Tasks, NEW k, Step(t, k)
    PROVE  TypeOK'
BY DEF TypeOK, Step

LEMMA PlacedStep ==
    ASSUME CallsArePlaced, NEW t \in Tasks, NEW k, Step(t, k), IsPlaced(task'[t])
    PROVE  CallsArePlaced'
BY DEF CallsArePlaced, Step, IsPlaced

LEMMA IdleStep ==
    ASSUME TypeOK, IdleHasNoBlocks, NEW t \in Tasks, NEW k, Step(t, k),
           k \in 1..Len(conns) /\ conns'[k].tx = "idle" =>
              conns'[k].depth = 0 /\ conns'[k].saves = <<>> /\ ~ conns'[k].timeout
    PROVE  IdleHasNoBlocks'
BY DEF TypeOK, IdleHasNoBlocks, Step

(* The blocks of a connection, after one call has entered one, left one,   *)
(* or moved on.                                                            *)
LEMMA CountedStep ==
    ASSUME TypeOK, BlocksAreCounted, NEW t \in Tasks, NEW k, Step(t, k),
           task[t].pc \in Within /\ task'[t].pc \in Within =>
              task'[t].conn = task[t].conn,
           task[t].pc \notin Within /\ task'[t].pc \in Within =>
              task'[t].conn = k /\ conns'[k].depth = conns[k].depth + 1,
           k \in 1..Len(conns) =>
              \/ conns'[k].depth >= conns[k].depth
              \/ /\ conns'[k].depth = conns[k].depth - 1
                 /\ task[t].pc \in Within /\ task[t].conn = k
                 /\ task'[t].pc \notin Within
    PROVE  BlocksAreCounted'
<1> SUFFICES ASSUME NEW j \in 1..Len(conns)
             PROVE  /\ IsFiniteSet(Inside(j)')
                    /\ Cardinality(Inside(j)') <= conns'[j].depth
  BY DEF BlocksAreCounted, Step, TypeOK
<1>a. IsFiniteSet(Inside(j)) /\ Cardinality(Inside(j)) <= conns[j].depth
  BY DEF BlocksAreCounted, TypeOK
<1>b. conns[j] \in Conns /\ conns'[j] \in Conns
  BY DEF Step, TypeOK
<1>c. j # k => conns'[j] = conns[j]
  BY DEF Step
<1>0. /\ IsFiniteSet(Inside(j)) /\ Cardinality(Inside(j)) <= conns[j].depth
      /\ conns[j].depth \in Nat /\ conns'[j].depth \in Nat
      /\ j # k => conns'[j] = conns[j]
  BY <1>a, <1>b, <1>c DEF Conns
<1>1. Cardinality(Inside(j)) \in Nat
  BY <1>0, FS_CardinalityType
<1>2. CASE task[t].pc \in Within /\ task[t].conn = j /\ ~ (task'[t].pc \in Within)
  <2>1. Inside(j)' = Inside(j) \ {t} /\ t \in Inside(j)
    BY <1>2 DEF Inside, Step
  <2>2. /\ IsFiniteSet(Inside(j) \ {t})
        /\ Cardinality(Inside(j) \ {t}) = Cardinality(Inside(j)) - 1
    BY <1>0, <2>1, FS_RemoveElement
  <2> QED BY <1>0, <1>1, <2>1, <2>2
<1>3. CASE ~ (task[t].pc \in Within) /\ task'[t].pc \in Within /\ task'[t].conn = j
  <2>1. Inside(j)' = Inside(j) \cup {t} /\ t \notin Inside(j)
    BY <1>3 DEF Inside, Step
  <2>2. /\ IsFiniteSet(Inside(j) \cup {t})
        /\ Cardinality(Inside(j) \cup {t}) = Cardinality(Inside(j)) + 1
    BY <1>0, <2>1, FS_AddElement
  <2> QED BY <1>0, <1>1, <1>3, <2>1, <2>2
<1>4. CASE /\ (task[t].pc \in Within /\ task[t].conn = j)
             <=> (task'[t].pc \in Within /\ task'[t].conn = j)
  <2>1. Inside(j)' = Inside(j)
    BY <1>4 DEF Inside, Step
  <2>2. conns'[j].depth >= conns[j].depth
    BY <1>0, <1>4
  <2> QED BY <1>0, <1>1, <2>1, <2>2
<1> QED BY <1>2, <1>3, <1>4

LEMMA SettingStep ==
    ASSUME TypeOK, SettingIsAwaited, NEW t \in Tasks, NEW k, Step(t, k),
           k \in 1..Len(conns) /\ Uncancelled =>
              \/ conns'[k].readonly
              \/ ~ conns'[k].open
              \/ /\ conns'[k].readonly = conns[k].readonly
                 /\ conns[k].open
                 /\ task[t].pc # "setting",
           Uncancelled /\ task[t].pc = "setting" => task[t].cur = k
    PROVE  SettingIsAwaited'
<1> SUFFICES ASSUME Uncancelled, NEW j \in 1..Len(conns),
                    ~ conns'[j].readonly, conns'[j].open
             PROVE  \E u \in Tasks : task'[u].pc = "setting" /\ task'[u].cur = j
  BY DEF SettingIsAwaited, Uncancelled, Step, TypeOK
<1>1. /\ ~ conns[j].readonly /\ conns[j].open
      /\ j = k => task[t].pc # "setting"
  BY DEF Step
<1>2. PICK u \in Tasks : task[u].pc = "setting" /\ task[u].cur = j
  BY <1>1 DEF SettingIsAwaited, TypeOK
<1> QED BY <1>1, <1>2 DEF Step

LEMMA SerialStep ==
    ASSUME TypeOK, SerialCallsAreApart, NEW t \in Tasks, NEW k, Step(t, k),
           Serial /\ task[t].pc = "idle" => \A u \in Tasks : task[u].pc = "idle",
           Serial => StaysAt(task[t])'
    PROVE  SerialCallsAreApart'
<1> SUFFICES ASSUME Serial
             PROVE  OneAtATime' /\ StaysConnected'
  BY DEF SerialCallsAreApart, Serial, Step
<1>1. \A u \in Tasks : u # t => task'[u].pc = "idle"
  BY DEF SerialCallsAreApart, OneAtATime, Step
<1>2. OneAtATime'
  BY <1>1 DEF OneAtATime
<1>3. \A u \in Tasks : u # t => StaysAt(task[u])'
  BY <1>1 DEF StaysAt, Limited
<1> QED BY <1>2, <1>3 DEF StaysConnected

LEMMA OwnedStep ==
    ASSUME TypeOK, TransactionIsOwned, NEW t \in Tasks, NEW k, Step(t, k),
           Serial /\ Uncancelled /\ k \in 1..Len(conns) /\ conns'[k].open =>
              \/ conns'[k].tx = "idle"
              \/ conns'[k].depth = 1 /\ Owned(k),
           task[t].pc \in Within =>
              \/ task[t].conn = k
              \/ /\ task'[t].pc \in Within
                 /\ task'[t].conn = task[t].conn /\ task'[t].outer = task[t].outer
    PROVE  TransactionIsOwned'
<1> SUFFICES ASSUME Serial, Uncancelled, NEW j \in 1..Len(conns),
                    conns'[j].open, conns'[j].tx # "idle", j # k
             PROVE  conns'[j].depth = 1 /\ Owned(j)
  BY DEF TransactionIsOwned, Serial, Uncancelled, Step, TypeOK, Owned, Inside
<1>1. conns'[j] = conns[j]
  BY DEF Step
<1>2. conns[j].depth = 1 /\ \E u \in Inside(j) : task[u].outer
  BY <1>1 DEF TransactionIsOwned, TypeOK
<1>3. PICK u \in Inside(j) : task[u].outer
  BY <1>2
<1>4. Owned(j)
  BY <1>3 DEF Inside, Step, Owned
<1> QED BY <1>1, <1>2, <1>4

-----------------------------------------------------------------------------
(* Statements that do no more to a connection than abort its transaction,  *)
(* prepare a statement or find it lost.                                    *)
Altered(c, d) ==
    /\ d.depth = c.depth /\ d.saves = c.saves
    /\ d.timeout = c.timeout /\ d.readonly = c.readonly
    /\ d.open => c.open
    /\ d.tx = "idle" <=> c.tx = "idle"
    /\ d.tx = "intrans" => c.tx = "intrans"

Alters(k) ==
    /\ conns' \in Seq(Conns) /\ Len(conns') = Len(conns)
    /\ \A j \in 1..Len(conns) : j # k => conns'[j] = conns[j]
    /\ k \in 1..Len(conns) => Altered(conns[k], conns'[k])

LEMMA SameAlters ==
    ASSUME TypeOK, NEW k, UNCHANGED conns
    PROVE  Alters(k)
BY DEF TypeOK, Alters, Altered

LEMMA RefuseAlters ==
    ASSUME TypeOK, NEW k \in 1..Len(conns), Refuse(k)
    PROVE  Alters(k) /\ conns'[k].open = (conns[k].open /\ conns[k].alive)
<1> DEFINE c == [conns[k] EXCEPT !.open = conns[k].open /\ conns[k].alive]
<1>1. conns[k] \in Conns
  BY DEF TypeOK
<1>2. conns' = [conns EXCEPT ![k] = c]
  BY DEF Refuse
<1>3. c \in Conns
  BY <1>1 DEF Conns
<1>4. Altered(conns[k], c) /\ c.open = (conns[k].open /\ conns[k].alive)
  BY <1>1 DEF Conns, Altered
<1> HIDE DEF c
<1> QED BY <1>2, <1>3, <1>4, ConnTo DEF Alters

LEMMA AbortAlters ==
    ASSUME TypeOK, NEW k \in 1..Len(conns),
           conns' = [conns EXCEPT ![k] = Aborted(@)]
    PROVE  Alters(k)
<1>1. conns[k] \in Conns
  BY DEF TypeOK
<1>2. conns' = [conns EXCEPT ![k] = Aborted(conns[k])]
  OBVIOUS
<1>3. Aborted(conns[k]) \in Conns /\ Altered(conns[k], Aborted(conns[k]))
  BY <1>1 DEF Conns, Altered, Aborted
<1> QED BY <1>2, <1>3, ConnTo DEF Alters

LEMMA AlteredStep ==
    ASSUME IInv, NEW t \in Tasks, NEW k, Step(t, k), Alters(k),
           task[t].pc # "setting",
           IsPlaced(task'[t]),
           task[t].pc \in Within <=> task'[t].pc \in Within,
           task[t].pc \in Within =>
              task'[t].conn = task[t].conn /\ task'[t].outer = task[t].outer,
           Serial /\ task[t].pc = "idle" => \A u \in Tasks : task[u].pc = "idle",
           Serial => StaysAt(task[t])'
    PROVE  IInv'
<1> USE DEF IInv
<1>1. TypeOK'
  BY TypeStep
<1>2. CallsArePlaced'
  BY PlacedStep
<1>3. IdleHasNoBlocks'
  BY IdleStep DEF Alters, Altered, IdleHasNoBlocks, TypeOK
<1>4. BlocksAreCounted'
  <2>a. k \in 1..Len(conns) => conns[k] \in Conns
    BY DEF TypeOK
  <2>1. k \in 1..Len(conns) => conns[k].depth \in Nat /\ conns'[k].depth = conns[k].depth
    BY <2>a DEF Alters, Altered, Conns
  <2>2. k \in 1..Len(conns) => conns'[k].depth >= conns[k].depth
    BY <2>1
  <2> QED BY <2>2, CountedStep
<1>5. SettingIsAwaited'
  BY SettingStep DEF Alters, Altered
<1>6. SerialCallsAreApart'
  BY SerialStep
<1>7. TransactionIsOwned'
  <2>1. ASSUME Serial, Uncancelled, k \in 1..Len(conns), conns'[k].open,
               conns'[k].tx # "idle"
        PROVE  conns'[k].depth = 1 /\ Owned(k)
    <3>1. conns[k].depth = 1 /\ \E u \in Inside(k) : task[u].outer
      BY <2>1 DEF TransactionIsOwned, Alters, Altered, TypeOK
    <3>2. PICK u \in Inside(k) : task[u].outer
      BY <3>1
    <3>3. Owned(k)
      BY <3>2 DEF Inside, Step, Owned
    <3> QED BY <2>1, <3>1, <3>3 DEF Alters, Altered
  <2> QED BY <2>1, OwnedStep
<1> QED BY <1>1, <1>2, <1>3, <1>4, <1>5, <1>6, <1>7

-----------------------------------------------------------------------------
(* Each action preserves the invariant.                                    *)

(* Where a call may find itself between two operations suits the serial    *)
(* calls.                                                                  *)
LEMMA BetweenStays ==
    ASSUME NEW t, Between(t), UNCHANGED current
    PROVE  StaysAt(task[t])'
BY RestType DEF Between, StaysAt, Connected, Limited, Rest

LEMMA StartStep ==
    ASSUME IInv, NEW t \in Tasks, NEW kind \in Kinds, Start(t, kind)
    PROVE  IInv'
<1>1. Moved(t) /\ Between(t) /\ Alters(0)
  BY EnsureGoes, SameAlters DEF Start, IInv
<1>2. Step(t, 0)
  BY <1>1 DEF Start, Step, Moved, Alters
<1>3. task[t].pc \notin {"setting"} \cup Within
  BY DEF Start, Within, Limited
<1> QED BY <1>1, <1>2, <1>3, BetweenPlaces, BetweenStays, AlteredStep
        DEF Start, Serial

LEMMA ConnectFailsStep ==
    ASSUME IInv, NEW t \in Tasks, ConnectFails(t)
    PROVE  IInv'
<1>1. Moved(t) /\ Between(t) /\ Alters(0)
  BY EndGoes, SameAlters DEF ConnectFails, IInv
<1>2. Step(t, 0)
  BY <1>1 DEF ConnectFails, Step, Moved, Alters
<1>3. task[t].pc \notin {"setting", "idle"} \cup Within
  BY DEF ConnectFails, Within, Limited
<1> QED BY <1>1, <1>2, <1>3, BetweenPlaces, BetweenStays, AlteredStep
        DEF ConnectFails

LEMMA Placed ==
    ASSUME IInv, NEW t \in Tasks
    PROVE  /\ task[t] \in TaskStates
           /\ IsPlaced(task[t])
           /\ task[t].pc \in {"setting", "reading", "limiting"} \cup Limited =>
                 task[t].cur \in 1..Len(conns)
           /\ task[t].pc \in {"entering"} \cup Within =>
                 task[t].conn \in 1..Len(conns)
BY DEF IInv, TypeOK, CallsArePlaced, IsPlaced, TaskStates

LEMMA ReadStep ==
    ASSUME IInv, NEW t \in Tasks, Read(t)
    PROVE  IInv'
<1> DEFINE k == task[t].cur
<1>1. k \in 1..Len(conns)
  BY Placed DEF Read
<1>2. Alters(k)
  BY <1>1, SameAlters, AbortAlters, RefuseAlters DEF Read, IInv
<1>3. Moved(t) /\ Between(t)
  BY EndGoes DEF Read, IInv
<1>4. Step(t, k)
  BY <1>2, <1>3 DEF Read, Step, Moved, Alters
<1>5. task[t].pc \notin {"setting", "idle"} \cup Within
  BY DEF Read, Within, Limited
<1> HIDE DEF k
<1> QED BY <1>2, <1>3, <1>4, <1>5, BetweenPlaces, BetweenStays, AlteredStep
        DEF Read

(* A connection's blocks are counted: inside one, the session is not idle. *)
LEMMA BlockIsOpen ==
    ASSUME IInv, NEW t \in Tasks, task[t].pc \in Within
    PROVE  LET k == task[t].conn
           IN  conns[k].depth >= 1 /\ conns[k].tx # "idle"
<1> DEFINE k == task[t].conn
<1>1. k \in 1..Len(conns)
  BY Placed
<1>2. conns[k] \in Conns
  BY <1>1 DEF IInv, TypeOK
<1>3. conns[k].depth \in Nat
  BY <1>2 DEF Conns
<1>4. IsFiniteSet(Inside(k)) /\ Cardinality(Inside(k)) <= conns[k].depth
  BY <1>1 DEF IInv, BlocksAreCounted, TypeOK
<1>5. Inside(k) # {}
  BY DEF Inside
<1>6. Cardinality(Inside(k)) \in Nat /\ Cardinality(Inside(k)) # 0
  BY <1>4, <1>5, FS_CardinalityType, FS_EmptySet
<1>7. conns[k].depth >= 1
  BY <1>3, <1>4, <1>6
<1>8. conns[k].tx # "idle"
  BY <1>1, <1>7 DEF IInv, IdleHasNoBlocks, TypeOK
<1> QED BY <1>7, <1>8

(* A serial call that is in no block finds the session idle. *)
LEMMA OthersAreAway ==
    ASSUME IInv, Serial, Uncancelled, NEW t \in Tasks, task[t].pc \notin {"idle"} \cup Within,
           NEW k \in 1..Len(conns), conns[k].open
    PROVE  conns[k].tx = "idle"
<1>1. Inside(k) = {}
  BY DEF IInv, SerialCallsAreApart, OneAtATime, Inside, Within, Limited
<1> QED BY <1>1 DEF IInv, TransactionIsOwned, TypeOK

(* The parts together. *)
LEMMA InvStep ==
    ASSUME IInv, NEW t \in Tasks, NEW k, Step(t, k), IsPlaced(task'[t]),
           k \in 1..Len(conns) /\ conns'[k].tx = "idle" =>
              conns'[k].depth = 0 /\ conns'[k].saves = <<>> /\ ~ conns'[k].timeout,
           task[t].pc \in Within =>
              \/ task[t].conn = k
              \/ /\ task'[t].pc \in Within
                 /\ task'[t].conn = task[t].conn /\ task'[t].outer = task[t].outer,
           task[t].pc \in Within /\ task'[t].pc \in Within =>
              task'[t].conn = task[t].conn,
           task[t].pc \notin Within /\ task'[t].pc \in Within =>
              task'[t].conn = k /\ conns'[k].depth = conns[k].depth + 1,
           k \in 1..Len(conns) =>
              \/ conns'[k].depth >= conns[k].depth
              \/ /\ conns'[k].depth = conns[k].depth - 1
                 /\ task[t].pc \in Within /\ task[t].conn = k
                 /\ task'[t].pc \notin Within,
           k \in 1..Len(conns) /\ Uncancelled =>
              \/ conns'[k].readonly
              \/ ~ conns'[k].open
              \/ /\ conns'[k].readonly = conns[k].readonly
                 /\ conns[k].open
                 /\ task[t].pc # "setting",
           Uncancelled /\ task[t].pc = "setting" => task[t].cur = k,
           task[t].pc # "idle",
           Serial => StaysAt(task[t])',
           Serial /\ Uncancelled /\ k \in 1..Len(conns) /\ conns'[k].open =>
              \/ conns'[k].tx = "idle"
              \/ conns'[k].depth = 1 /\ Owned(k)
    PROVE  IInv'
<1> USE DEF IInv
<1>1. TypeOK'
  BY TypeStep
<1>2. CallsArePlaced'
  BY PlacedStep
<1>3. BlocksAreCounted'
  BY CountedStep
<1>4. IdleHasNoBlocks'
  BY IdleStep
<1>5. SettingIsAwaited'
  BY SettingStep
<1>6. SerialCallsAreApart'
  BY SerialStep
<1>7. TransactionIsOwned'
  BY OwnedStep
<1> QED BY <1>1, <1>2, <1>3, <1>4, <1>5, <1>6, <1>7

LEMMA SetReadOnlyStep ==
    ASSUME IInv, NEW t \in Tasks, SetReadOnly(t)
    PROVE  IInv'
<1> DEFINE k == task[t].cur
           c == [conns[k] EXCEPT !.readonly = TRUE]
<1>1. k \in 1..Len(conns) /\ task[t].pc = "setting" /\ task[t].kind \in Kinds
  BY Placed DEF SetReadOnly, TaskStates
<1>2. conns[k] \in Conns
  BY <1>1 DEF IInv, TypeOK
<1>3. CASE conns[k].alive
  <2>1. conns' = [conns EXCEPT ![k] = c] /\ Issue(t, task[t].kind)
    BY <1>3 DEF SetReadOnly
  <2>2. /\ c \in Conns /\ c.readonly = TRUE
        /\ \A f \in {"depth", "saves", "timeout", "tx", "open"} : c[f] = conns[k][f]
    BY <1>2 DEF Conns
  <2> HIDE DEF c
  <2>3. /\ conns' \in Seq(Conns) /\ Len(conns') = Len(conns) /\ conns'[k] = c
        /\ \A j \in 1..Len(conns) : j # k => conns'[j] = conns[j]
    BY <1>1, <2>1, <2>2, ConnTo DEF IInv
  <2>4. Moved(t) /\ Between(t)
    BY <1>1, <2>1, IssueGoes DEF IInv
  <2>5. Step(t, k)
    BY <2>3, <2>4 DEF Step, Moved, SetReadOnly
  <2>6. UNCHANGED current /\ task[t].pc \notin Within /\ task'[t].pc \notin Within
    BY <1>1, <2>4, BetweenPlaces DEF SetReadOnly, Within, Limited
  <2>7. c.tx = conns[k].tx /\ c.depth = conns[k].depth /\ c.saves = conns[k].saves
        /\ c.timeout = conns[k].timeout /\ c.open = conns[k].open
    BY <2>2
  <2>8. conns[k].depth \in Nat
    BY <1>2 DEF Conns
  <2>9. conns'[k].depth >= conns[k].depth
    BY <2>3, <2>7, <2>8
  <2>10. conns'[k].tx = "idle" =>
            conns'[k].depth = 0 /\ conns'[k].saves = <<>> /\ ~ conns'[k].timeout
    BY <1>1, <2>3, <2>7 DEF IInv, IdleHasNoBlocks, TypeOK
  <2>11. Serial /\ Uncancelled /\ conns'[k].open => conns'[k].tx = "idle"
    BY <1>1, <2>3, <2>6, <2>7, OthersAreAway
  <2>12. Serial => StaysAt(task[t])'
    BY <2>4, <2>6, BetweenStays
  <2>13. conns'[k].readonly
    BY <2>2, <2>3
  <2> HIDE DEF k
  <2>14. task[t].cur = k
    BY DEF k
  <2> QED BY <1>1, <2>4, <2>5, <2>6, <2>9, <2>10, <2>11, <2>12, <2>13, <2>14,
             BetweenPlaces, InvStep
<1>4. CASE ~ conns[k].alive
  <2>1. Refuse(k) /\ End(t)
    BY <1>4 DEF SetReadOnly
  <2>2. Alters(k) /\ ~ conns'[k].open
    BY <1>1, <1>4, <2>1, RefuseAlters DEF IInv
  <2>3. Moved(t) /\ Between(t)
    BY <2>1, EndGoes DEF IInv
  <2>4. Step(t, k)
    BY <2>2, <2>3 DEF Step, Moved, Alters, SetReadOnly
  <2>5. UNCHANGED current /\ task[t].pc \notin Within /\ task'[t].pc \notin Within
    BY <1>1, <2>3, BetweenPlaces DEF SetReadOnly, Within, Limited
  <2>6. conns[k].depth \in Nat /\ conns'[k].depth = conns[k].depth
    BY <1>1, <1>2, <2>2 DEF Conns, Alters, Altered
  <2>7. conns'[k].depth >= conns[k].depth
    BY <2>6
  <2>8. conns'[k].tx = "idle" =>
            conns'[k].depth = 0 /\ conns'[k].saves = <<>> /\ ~ conns'[k].timeout
    BY <1>1, <2>2 DEF IInv, IdleHasNoBlocks, TypeOK, Alters, Altered
  <2>9. Serial => StaysAt(task[t])'
    BY <2>3, <2>5, BetweenStays
  <2> HIDE DEF k
  <2>10. task[t].cur = k
    BY DEF k
  <2> QED BY <1>1, <2>2, <2>3, <2>4, <2>5, <2>7, <2>8, <2>9, <2>10,
             BetweenPlaces, InvStep
<1> QED BY <1>3, <1>4

(* A statement inside a block moves its call on within the block. *)
LEMMA GoesOn ==
    ASSUME IInv, NEW t \in Tasks, task[t].pc \in {"limiting"} \cup Limited,
           NEW s \in TaskStates, task' = [task EXCEPT ![t] = s],
           s.pc \in {"leaving"} \cup Limited, s.kind \in Explains,
           s.conn = task[t].conn, s.cur = task[t].cur,
           s.outer = task[t].outer, s.index = task[t].index
    PROVE  Moved(t) /\ IsPlaced(task'[t]) /\ task'[t] = s
<1>1. IsPlaced(task[t])
  BY Placed
<1>2. {s.conn, s.cur} \subseteq 0..Len(conns)
  BY DEF IInv, TypeOK
<1>3. IsPlaced(s)
  BY <1>1 DEF IsPlaced, Within, Limited, Explains
<1> QED BY <1>2, <1>3, MovedTo DEF IInv

LEMMA AdvanceGoes ==
    ASSUME IInv, NEW t \in Tasks, task[t].pc \in {"limiting"} \cup Limited,
           NEW pc \in {"leaving"} \cup Limited,
           \/ Advance(t, pc)
           \/ pc = "leaving" /\ \E failed \in BOOLEAN : Leaving(t, failed)
    PROVE  /\ Moved(t) /\ IsPlaced(task'[t])
           /\ task'[t].pc = pc
           /\ task'[t].conn = task[t].conn /\ task'[t].cur = task[t].cur
           /\ task'[t].outer = task[t].outer
<1>1. task[t] \in TaskStates /\ task[t].kind \in Explains
  BY Placed DEF IsPlaced, TaskStates, Kinds, Within
<1>2. CASE Advance(t, pc)
  <2> DEFINE s == [task[t] EXCEPT !.pc = pc]
  <2>1. task' = [task EXCEPT ![t] = s]
    BY <1>2 DEF Advance
  <2>2. s \in TaskStates
    BY <1>1 DEF TaskStates, PCs, Limited
  <2>3. /\ s.pc = pc /\ s.kind = task[t].kind /\ s.conn = task[t].conn
        /\ s.cur = task[t].cur /\ s.outer = task[t].outer /\ s.index = task[t].index
    BY <1>1 DEF TaskStates
  <2> HIDE DEF s
  <2> QED BY <1>1, <2>1, <2>2, <2>3, GoesOn
<1>3. CASE pc = "leaving" /\ \E failed \in BOOLEAN : Leaving(t, failed)
  <2>0. PICK failed \in BOOLEAN : Leaving(t, failed)
    BY <1>3
  <2> DEFINE s == [task[t] EXCEPT !.pc = "leaving", !.failed = failed]
  <2>1. task' = [task EXCEPT ![t] = s]
    BY <2>0 DEF Leaving
  <2>2. s \in TaskStates
    BY <1>1 DEF TaskStates, PCs
  <2>3. /\ s.pc = pc /\ s.kind = task[t].kind /\ s.conn = task[t].conn
        /\ s.cur = task[t].cur /\ s.outer = task[t].outer /\ s.index = task[t].index
    BY <1>1, <1>3 DEF TaskStates
  <2> HIDE DEF s
  <2> QED BY <1>1, <2>1, <2>2, <2>3, GoesOn
<1> QED BY <1>2, <1>3

(* The statements of an EXPLAIN that leave the settings alone. *)
LEMMA StatementStep ==
    ASSUME IInv, NEW t \in Tasks, task[t].pc \in Limited, UNCHANGED <<current, load>>,
           Alters(task[t].cur),
           \/ Advance(t, "planning")
           \/ \E failed \in BOOLEAN : Leaving(t, failed)
    PROVE  IInv'
<1> DEFINE k == task[t].cur
<1>1. k \in 1..Len(conns) /\ task[t].pc \in {"limiting"} \cup Limited
  BY Placed
<1>2. /\ Moved(t) /\ IsPlaced(task'[t])
      /\ task'[t].pc \in {"leaving", "planning"}
      /\ task'[t].conn = task[t].conn /\ task'[t].cur = k
      /\ task'[t].outer = task[t].outer
  BY <1>1, AdvanceGoes DEF Limited
<1>3. Step(t, k)
  BY <1>2 DEF Step, Moved, Alters
<1>4. task[t].pc \in Within /\ task'[t].pc \in Within /\ task[t].pc \notin {"setting", "idle"}
  BY <1>2 DEF Within, Limited
<1>5. Serial => StaysAt(task[t])'
  <2> SUFFICES ASSUME Serial PROVE StaysAt(task[t])'
    OBVIOUS
  <2>1. StaysAt(task[t])
    BY DEF IInv, SerialCallsAreApart, StaysConnected
  <2>2. conns'[k].tx = "intrans" => conns[k].tx = "intrans" /\ conns'[k].timeout = conns[k].timeout
    BY <1>1 DEF Alters, Altered
  <2> QED BY <1>2, <2>1, <2>2 DEF StaysAt, Limited
<1> HIDE DEF k
<1>6. Alters(k)
  BY DEF k
<1> QED BY <1>2, <1>3, <1>4, <1>5, <1>6, AlteredStep

LEMMA PrepareStep ==
    ASSUME IInv, NEW t \in Tasks, Prepare(t)
    PROVE  IInv'
<1> DEFINE k == task[t].cur
           c == [conns[k] EXCEPT !.prepared = TRUE]
<1>1. k \in 1..Len(conns) /\ task[t].pc \in Limited
  BY Placed DEF Prepare, Limited
<1>2. conns[k] \in Conns
  BY <1>1 DEF IInv, TypeOK
<1>3. c \in Conns /\ Altered(conns[k], c)
  BY <1>2 DEF Conns, Altered
<1>4. conns' = [conns EXCEPT ![k].prepared = TRUE] => conns' = [conns EXCEPT ![k] = c]
  OBVIOUS
<1> HIDE DEF c
<1>5. conns' = [conns EXCEPT ![k] = c] => Alters(k)
  BY <1>1, <1>3, ConnTo DEF Alters, IInv
<1>6. Alters(k)
  BY <1>1, <1>4, <1>5, AbortAlters, RefuseAlters DEF Prepare, IInv
<1> QED BY <1>1, <1>6, StatementStep DEF Prepare

LEMMA PlanStep ==
    ASSUME IInv, NEW t \in Tasks, Plan(t)
    PROVE  IInv'
<1> DEFINE k == task[t].cur
<1>1. k \in 1..Len(conns) /\ task[t].pc \in Limited
  BY Placed DEF Plan, Limited
<1>2. Alters(k)
  BY <1>1, SameAlters, AbortAlters, RefuseAlters DEF Plan, IInv
<1> QED BY <1>1, <1>2, StatementStep DEF Plan

LEMMA LimitStep ==
    ASSUME IInv, NEW t \in Tasks, Limit(t)
    PROVE  IInv'
<1> DEFINE k == task[t].cur
           c == [conns[k] EXCEPT !.timeout = (conns[k].tx = "intrans")]
<1>1. k \in 1..Len(conns) /\ task[t].pc = "limiting"
  BY Placed DEF Limit
<1>2. conns[k] \in Conns
  BY <1>1 DEF IInv, TypeOK
<1>3. task[t].pc \in Within /\ UNCHANGED <<current, load>>
  BY <1>1 DEF Within, Limit
<1>4. CASE Accepts(k)
  <2>1. /\ conns' = [conns EXCEPT ![k] = c]
        /\ Advance(t, IF task[t].kind = "prepared" THEN "preparing" ELSE "planning")
    BY <1>4 DEF Limit
  <2>2. c \in Conns
    BY <1>2 DEF Conns
  <2>3. /\ c.readonly = conns[k].readonly /\ c.tx = conns[k].tx /\ c.open = conns[k].open
        /\ c.depth = conns[k].depth /\ c.saves = conns[k].saves
        /\ c.timeout <=> c.tx = "intrans"
    BY <1>2 DEF Conns
  <2> HIDE DEF c
  <2>4. /\ conns' \in Seq(Conns) /\ Len(conns') = Len(conns) /\ conns'[k] = c
        /\ \A j \in 1..Len(conns) : j # k => conns'[j] = conns[j]
    BY <1>1, <2>1, <2>2, ConnTo DEF IInv
  <2>5. /\ Moved(t) /\ IsPlaced(task'[t]) /\ task'[t].pc \in Limited
        /\ task'[t].conn = task[t].conn /\ task'[t].cur = k
        /\ task'[t].outer = task[t].outer
    BY <1>1, <2>1, AdvanceGoes DEF Limited
  <2>6. Step(t, k)
    BY <1>3, <2>4, <2>5 DEF Step, Moved
  <2>7. conns[k].depth \in Nat
    BY <1>2 DEF Conns
  <2>8. conns'[k].depth >= conns[k].depth
    BY <2>3, <2>4, <2>7
  <2>9. conns'[k].tx = "idle" =>
            conns'[k].depth = 0 /\ conns'[k].saves = <<>> /\ ~ conns'[k].timeout
    <3>1. conns[k].tx = "idle" => conns[k].depth = 0 /\ conns[k].saves = <<>>
      BY <1>1 DEF IInv, IdleHasNoBlocks, TypeOK
    <3>2. c.tx = "idle" => ~ c.timeout
      BY <2>3
    <3> QED BY <2>3, <2>4, <3>1, <3>2
  <2>10. Uncancelled =>
            \/ conns'[k].readonly
            \/ ~ conns'[k].open
            \/ conns'[k].readonly = conns[k].readonly /\ conns[k].open
    BY <2>3, <2>4
  <2>11. Serial => StaysAt(task[t])'
    <3>1. Serial => StaysAt(task[t])
      BY DEF IInv, SerialCallsAreApart, StaysConnected
    <3> QED BY <1>1, <2>3, <2>4, <2>5, <3>1 DEF StaysAt, Limited
  <2>12. Serial /\ Uncancelled /\ conns'[k].open =>
            \/ conns'[k].tx = "idle"
            \/ conns'[k].depth = 1 /\ Owned(k)
    <3> SUFFICES ASSUME Serial, Uncancelled, conns'[k].open, conns'[k].tx # "idle"
                 PROVE  conns'[k].depth = 1 /\ Owned(k)
      OBVIOUS
    <3>1. conns[k].depth = 1 /\ \E u \in Inside(k) : task[u].outer
      BY <1>1, <2>3, <2>4 DEF IInv, TransactionIsOwned, TypeOK
    <3>2. PICK u \in Inside(k) : task[u].outer
      BY <3>1
    <3>3. Owned(k)
      BY <2>5, <3>2 DEF Inside, Moved, Within, Owned
    <3> QED BY <2>3, <2>4, <3>1, <3>3
  <2>13. task'[t].pc \in Within /\ task[t].pc \notin {"setting", "idle"}
    BY <1>1, <2>5 DEF Within
  <2>14. \/ task[t].conn = k
         \/ /\ task'[t].pc \in Within
            /\ task'[t].conn = task[t].conn /\ task'[t].outer = task[t].outer
    BY <2>5, <2>13
  <2>15. task'[t].conn = task[t].conn /\ IsPlaced(task'[t])
    BY <2>5
  <2>16. k \in 1..Len(conns)
    BY <1>1
  <2> HIDE DEF k, c
  <2> QED BY <1>3, <2>6, <2>8, <2>9, <2>10, <2>11, <2>12, <2>13, <2>14, <2>15, <2>16, InvStep
<1>5. CASE ~ Accepts(k)
  <2>1. Alters(k) /\ Leaving(t, TRUE)
    BY <1>1, <1>5, RefuseAlters DEF Limit, IInv
  <2>2. /\ Moved(t) /\ IsPlaced(task'[t]) /\ task'[t].pc = "leaving"
        /\ task'[t].conn = task[t].conn /\ task'[t].outer = task[t].outer
    BY <1>1, <2>1, AdvanceGoes
  <2>3. Step(t, k)
    BY <1>3, <2>1, <2>2 DEF Step, Moved, Alters
  <2>4. StaysAt(task[t])' /\ task'[t].pc \in Within
    BY <2>2 DEF StaysAt, Within, Limited
  <2> HIDE DEF k
  <2> QED BY <1>1, <1>3, <2>1, <2>2, <2>3, <2>4, AlteredStep
<1> QED BY <1>4, <1>5

(* A block that is entered. *)
LEMMA EnteredGoes ==
    ASSUME IInv, NEW t \in Tasks, task[t].pc = "entering", NEW outer \in BOOLEAN,
           Entered(t, outer), outer => conns[task[t].conn].depth = 0, UNCHANGED current
    PROVE  /\ Moved(t) /\ IsPlaced(task'[t])
           /\ task'[t].pc \in Within
           /\ task'[t].conn = task[t].conn
           /\ task'[t].outer = outer
           /\ Serial => StaysAt(task[t])'
<1> DEFINE k == task[t].conn
           pc == IF Connected THEN "limiting" ELSE "leaving"
           s == [task[t] EXCEPT !.pc = pc, !.cur = current,
                                !.index = conns[k].depth, !.outer = outer]
<1>1. task[t] \in TaskStates /\ IsPlaced(task[t]) /\ k \in 1..Len(conns)
  BY Placed
<1>0. conns[k] \in Conns
  BY <1>1 DEF IInv, TypeOK
<1>2. conns[k].depth \in Nat
  BY <1>0 DEF Conns
<1>3. task' = [task EXCEPT ![t] = s]
  BY DEF Entered
<1>4. s \in TaskStates
  BY <1>1, <1>2, Numbers DEF TaskStates, PCs, IInv
<1>5. /\ s.pc = pc /\ s.cur = current /\ s.index = conns[k].depth /\ s.outer = outer
      /\ s.conn = k /\ s.kind = task[t].kind
  BY <1>1 DEF TaskStates
<1> HIDE DEF s
<1>6. {s.conn, s.cur} \subseteq 0..Len(conns)
  BY <1>1, <1>5, Numbers DEF IInv
<1>7. IsPlaced(s)
  BY <1>1, <1>5 DEF IsPlaced, Within, Limited, Connected
<1>8. Moved(t) /\ task'[t] = s
  BY <1>3, <1>4, <1>6, MovedTo DEF IInv
<1>9. Serial => s.conn = current
  BY <1>5 DEF IInv, SerialCallsAreApart, StaysConnected, StaysAt
<1>10. Serial => StaysAt(task[t])'
  BY <1>5, <1>8, <1>9 DEF StaysAt, Limited
<1> QED BY <1>5, <1>7, <1>8, <1>10 DEF Within

LEMMA EnterStep ==
    ASSUME IInv, NEW t \in Tasks, Enter(t)
    PROVE  IInv'
<1>1. PICK k : k = task[t].conn
  OBVIOUS
<1>2. k \in 1..Len(conns) /\ task[t].pc = "entering" /\ UNCHANGED <<current, load>>
  BY <1>1, Placed DEF Enter
<1>3. conns[k] \in Conns
  BY <1>2 DEF IInv, TypeOK
<1>4. task[t].pc \notin {"idle", "setting"} \cup Within
  BY <1>2 DEF Within, Limited
<1>5. CASE Refuse(k) /\ Conclude(t, TRUE)
  <2>1. Alters(k)
    BY <1>2, <1>5, RefuseAlters DEF IInv
  <2>2. Moved(t) /\ Between(t)
    BY <1>5, ConcludeGoes DEF IInv
  <2>3. Step(t, k)
    BY <1>2, <2>1, <2>2 DEF Step, Moved, Alters
  <2> QED BY <1>2, <1>4, <2>1, <2>2, <2>3, BetweenPlaces, BetweenStays, AlteredStep
<1>6. ASSUME NEW c \in Conns, conns' = [conns EXCEPT ![k] = c],
             c.depth = conns[k].depth + 1, c.tx # "idle",
             c.open = conns[k].open, c.readonly = conns[k].readonly,
             Moved(t), IsPlaced(task'[t]), Serial => StaysAt(task[t])',
             task'[t].pc \in Within => task'[t].conn = k,
             conns[k].tx = "idle" => Owned(k)
      PROVE  IInv'
  <2>1. /\ conns' \in Seq(Conns) /\ Len(conns') = Len(conns) /\ conns'[k] = c
        /\ \A j \in 1..Len(conns) : j # k => conns'[j] = conns[j]
    BY <1>2, <1>6, ConnTo DEF IInv
  <2>2. Step(t, k)
    BY <1>2, <1>6, <2>1 DEF Step, Moved
  <2>3. conns[k].depth \in Nat
    BY <1>3 DEF Conns
  <2>4. conns'[k].depth = conns[k].depth + 1 /\ conns'[k].depth >= conns[k].depth
    BY <1>6, <2>1, <2>3
  <2>5. conns'[k].tx # "idle"
    BY <1>6, <2>1
  <2>6. \/ conns'[k].readonly
        \/ ~ conns'[k].open
        \/ conns'[k].readonly = conns[k].readonly /\ conns[k].open
    BY <1>6, <2>1
  <2>7. Serial /\ Uncancelled /\ conns'[k].open => conns'[k].depth = 1 /\ Owned(k)
    <3> SUFFICES ASSUME Serial, Uncancelled, conns'[k].open
                 PROVE  conns'[k].depth = 1 /\ Owned(k)
      OBVIOUS
    <3>1. conns[k].open
      BY <1>6, <2>1
    <3>2. conns[k].tx = "idle"
      BY <1>2, <1>4, <3>1, OthersAreAway
    <3>3. conns[k].depth = 0
      BY <1>2, <3>2 DEF IInv, IdleHasNoBlocks, TypeOK
    <3> QED BY <1>6, <2>4, <3>2, <3>3
  <2> QED BY <1>2, <1>4, <1>6, <2>2, <2>4, <2>5, <2>6, <2>7, InvStep
<1>7. CASE /\ conns[k].tx = "idle" /\ Entered(t, TRUE)
           /\ conns' = [conns EXCEPT ![k].tx = "intrans", ![k].depth = @ + 1]
  <2> DEFINE c == [conns[k] EXCEPT !.tx = "intrans", !.depth = @ + 1]
  <2>1. conns' = [conns EXCEPT ![k] = c]
    BY <1>2, <1>7 DEF IInv, TypeOK
  <2>0. conns[k].depth + 1 \in Nat
    BY <1>3 DEF Conns
  <2>a. c \in Conns
    BY <1>3, <2>0 DEF Conns
  <2>2. /\ c.depth = conns[k].depth + 1 /\ c.tx = "intrans"
        /\ c.open = conns[k].open /\ c.readonly = conns[k].readonly
    BY <1>3 DEF Conns
  <2>3. conns[k].depth = 0
    BY <1>2, <1>7 DEF IInv, IdleHasNoBlocks, TypeOK
  <2>4. /\ Moved(t) /\ IsPlaced(task'[t])
        /\ Serial => StaysAt(task[t])'
        /\ task'[t].pc \in Within /\ task'[t].conn = k /\ task'[t].outer
    BY <1>1, <1>2, <1>7, <2>3, EnteredGoes
  <2>5. Owned(k)
    BY <2>4 DEF Owned
  <2> HIDE DEF c
  <2> QED BY <1>6, <2>1, <2>a, <2>2, <2>4, <2>5
<1>8. CASE /\ conns[k].tx = "intrans" /\ Entered(t, FALSE)
           /\ conns' = [conns EXCEPT
                ![k].saves = Append(@, [name |-> conns[k].depth + 1,
                                        timeout |-> conns[k].timeout]),
                ![k].depth = @ + 1]
  <2> DEFINE save == [name |-> conns[k].depth + 1, timeout |-> conns[k].timeout]
             c == [conns[k] EXCEPT !.saves = Append(@, save), !.depth = @ + 1]
  <2>1. conns' = [conns EXCEPT ![k] = c]
    BY <1>2, <1>8 DEF IInv, TypeOK
  <2>0. conns[k].depth + 1 \in Nat
    BY <1>3 DEF Conns
  <2>2. Append(conns[k].saves, save) \in Seq([name : Nat, timeout : BOOLEAN])
    BY <1>3, <2>0 DEF Conns
  <2> HIDE DEF save
  <2>a. c \in Conns
    BY <1>3, <2>0, <2>2 DEF Conns
  <2>3. /\ c.depth = conns[k].depth + 1 /\ c.tx = "intrans"
        /\ c.open = conns[k].open /\ c.readonly = conns[k].readonly
    BY <1>3, <1>8 DEF Conns
  <2>4. /\ Moved(t) /\ IsPlaced(task'[t])
        /\ Serial => StaysAt(task[t])'
        /\ task'[t].conn = k
    BY <1>1, <1>2, <1>8, EnteredGoes
  <2> HIDE DEF c
  <2> QED BY <1>6, <1>8, <2>1, <2>a, <2>3, <2>4
<1>9. CASE /\ conns[k].tx = "inerror" /\ Conclude(t, TRUE)
           /\ conns' = [conns EXCEPT ![k].depth = @ + 1]
  <2> DEFINE c == [conns[k] EXCEPT !.depth = @ + 1]
  <2>1. conns' = [conns EXCEPT ![k] = c]
    BY <1>2, <1>9 DEF IInv, TypeOK
  <2>2. /\ c \in Conns
        /\ c.depth = conns[k].depth + 1 /\ c.tx # "idle"
        /\ c.open = conns[k].open /\ c.readonly = conns[k].readonly
    BY <1>3, <1>9 DEF Conns
  <2>3. Moved(t) /\ Between(t)
    BY <1>9, ConcludeGoes DEF IInv
  <2> HIDE DEF c
  <2> QED BY <1>2, <1>6, <1>9, <2>1, <2>2, <2>3, BetweenPlaces, BetweenStays
<1>10. conns[k].tx \in {"idle", "intrans", "inerror"}
  BY <1>3 DEF Conns
<1> QED BY <1>1, <1>5, <1>7, <1>8, <1>9, <1>10 DEF Enter

(* A serial, uncancelled call that is in a block sent the session's BEGIN. *)
LEMMA BlockIsAlone ==
    ASSUME IInv, Serial, Uncancelled, NEW t \in Tasks, task[t].pc \in Within,
           conns[task[t].conn].open
    PROVE  conns[task[t].conn].depth = 1 /\ task[t].outer /\ task[t].index = 0
<1> DEFINE k == task[t].conn
<1>1. k \in 1..Len(conns) /\ conns[k].tx # "idle"
  BY Placed, BlockIsOpen
<1>2. PICK u \in Inside(k) : conns[k].depth = 1 /\ task[u].outer
  BY <1>1 DEF IInv, TransactionIsOwned, TypeOK
<1>3. u = t
  BY <1>2 DEF IInv, SerialCallsAreApart, OneAtATime, Inside, Within, Limited
<1>4. IsPlaced(task[t])
  BY Placed
<1> QED BY <1>2, <1>3, <1>4 DEF IsPlaced

LEMMA PrefixType ==
    ASSUME NEW S, NEW s \in Seq(S), NEW p \in 1..Len(s)
    PROVE  s[p] \in S /\ SubSeq(s, 1, p - 1) \in Seq(S)
<1>1. Len(s) \in Nat /\ \A i \in 1..Len(s) : s[i] \in S
  OBVIOUS
<1>2. \A i \in 1..(p - 1) : s[i] \in S
  BY <1>1
<1>3. SubSeq(s, 1, p - 1) \in Seq(S)
  BY <1>1, <1>2, SubSeqProperties
<1> QED BY <1>1, <1>3

(* What ROLLBACK TO makes of a session that has the savepoint. *)
LEMMA RolledBackToType ==
    ASSUME NEW c \in Conns, NEW name, HasSave(c, name)
    PROVE  LET d == RolledBackTo(c, name)
           IN  /\ d \in Conns /\ d.tx = "intrans" /\ d.depth = c.depth
               /\ d.open = c.open /\ d.readonly = c.readonly
<1> DEFINE Named == {i \in DOMAIN c.saves : c.saves[i].name = name}
           p == CHOOSE i \in DOMAIN c.saves :
                   /\ c.saves[i].name = name
                   /\ \A j \in DOMAIN c.saves : c.saves[j].name = name => j <= i
<1>1. c.saves \in Seq([name : Nat, timeout : BOOLEAN])
  BY DEF Conns
<1>2. Named \subseteq 1..Len(c.saves) /\ Named # {} /\ Len(c.saves) \in Nat
  BY <1>1 DEF HasSave
<1>3. PICK i \in Named : \A j \in Named : j <= i
  BY <1>2, LastOf
<1>4. p \in DOMAIN c.saves
  BY <1>3
<1>5. p \in 1..Len(c.saves)
  BY <1>1, <1>4, DOMAIN c.saves = 1..Len(c.saves)
<1> HIDE DEF p
<1>6. c.saves[p].timeout \in BOOLEAN
  <2>1. c.saves[p] \in [name : Nat, timeout : BOOLEAN]
    BY <1>1, <1>5, PrefixType
  <2> QED BY <2>1
<1>7. SubSeq(c.saves, 1, p - 1) \in Seq([name : Nat, timeout : BOOLEAN])
  BY <1>1, <1>5, PrefixType
<1> DEFINE d == [c EXCEPT !.tx = "intrans", !.timeout = c.saves[p].timeout,
                          !.saves = SubSeq(@, 1, p - 1)]
<1>8. d \in Conns
  BY <1>6, <1>7 DEF Conns
<1>9. d.tx = "intrans" /\ d.depth = c.depth /\ d.open = c.open /\ d.readonly = c.readonly
  BY DEF Conns
<1> QED BY <1>8, <1>9 DEF RolledBackTo, p

(* A block that is left: psycopg counts one less, or has lost the session. *)
LEMMA LeftStep ==
    ASSUME IInv, NEW t \in Tasks, task[t].pc = "leaving", UNCHANGED <<current, load>>,
           NEW k, k = task[t].conn, NEW failed, Conclude(t, failed),
           NEW c \in Conns, conns' = [conns EXCEPT ![k] = c],
           \/ c.depth = conns[k].depth - 1
           \/ c.depth = conns[k].depth,
           c.tx = "idle" => c.depth = 0 /\ c.saves = <<>> /\ ~ c.timeout,
           c.open => conns[k].open /\ (Serial /\ Uncancelled => c.tx = "idle"),
           c.readonly = conns[k].readonly
    PROVE  IInv'
<1>1. k \in 1..Len(conns) /\ task[t].pc \in Within /\ task[t].pc \notin {"idle", "setting"}
  BY Placed DEF Within
<1>2. /\ conns' \in Seq(Conns) /\ Len(conns') = Len(conns) /\ conns'[k] = c
      /\ \A j \in 1..Len(conns) : j # k => conns'[j] = conns[j]
  BY <1>1, ConnTo DEF IInv
<1>3. Moved(t) /\ Between(t)
  BY ConcludeGoes DEF IInv
<1>4. Step(t, k)
  BY <1>2, <1>3 DEF Step, Moved
<1>5. conns[k] \in Conns
  BY <1>1 DEF IInv, TypeOK
<1>6. conns[k].depth \in Nat
  BY <1>5 DEF Conns
<1>7. task'[t].pc \notin Within
  BY <1>3, BetweenPlaces
<1>8. \/ conns'[k].depth >= conns[k].depth
      \/ conns'[k].depth = conns[k].depth - 1
  BY <1>2, <1>6
<1>9. \/ conns'[k].readonly
      \/ ~ conns'[k].open
      \/ conns'[k].readonly = conns[k].readonly /\ conns[k].open
  BY <1>2
<1>10. conns'[k].tx = "idle" =>
          conns'[k].depth = 0 /\ conns'[k].saves = <<>> /\ ~ conns'[k].timeout
  BY <1>2
<1>11. Serial /\ Uncancelled /\ conns'[k].open => conns'[k].tx = "idle"
  BY <1>2
<1>12. IsPlaced(task'[t]) /\ (Serial => StaysAt(task[t])')
  BY <1>3, BetweenPlaces, BetweenStays
<1> QED BY <1>1, <1>4, <1>7, <1>8, <1>9, <1>10, <1>11, <1>12, InvStep

LEMMA LeaveStep ==
    ASSUME IInv, NEW t \in Tasks, Leave(t)
    PROVE  IInv'
<1>1. PICK k : k = task[t].conn
  OBVIOUS
<1>2. k \in 1..Len(conns) /\ task[t].pc = "leaving" /\ UNCHANGED <<current, load>>
  BY <1>1, Placed DEF Leave, Within
<1>3. conns[k] \in Conns /\ task[t].pc \in Within
  BY <1>2 DEF IInv, TypeOK, Within
<1>4. conns[k].depth >= 1 /\ conns[k].tx # "idle"
  BY <1>1, <1>3, BlockIsOpen
<1>5. conns[k].depth \in Nat
  BY <1>3 DEF Conns
<1> DEFINE popped == [conns[k] EXCEPT !.depth = @ - 1]
<1>6. popped \in Conns
  BY <1>3, <1>4, <1>5 DEF Conns
<1>7. /\ popped.depth = conns[k].depth - 1 /\ popped.tx = conns[k].tx
      /\ popped.open = conns[k].open /\ popped.readonly = conns[k].readonly
  BY <1>3 DEF Conns
<1> HIDE DEF popped
<1>8. conns[k].open /\ Serial /\ Uncancelled =>
         popped.depth = 0 /\ task[t].outer /\ task[t].index = 0
  BY <1>1, <1>3, <1>7, BlockIsAlone
<1>9. CASE ~ conns[k].open /\ UNCHANGED conns /\ Conclude(t, task[t].failed)
  <2>1. conns' = [conns EXCEPT ![k] = conns[k]]
    BY <1>2, <1>9 DEF IInv, TypeOK
  <2> QED BY <1>1, <1>2, <1>3, <1>4, <1>9, <2>1, LeftStep
<1>10. CASE ~ conns[k].alive /\ Refuse(k) /\ Conclude(t, task[t].failed)
  <2> DEFINE c == [conns[k] EXCEPT !.open = @ /\ conns[k].alive]
  <2>1. conns' = [conns EXCEPT ![k] = c]
    BY <1>10 DEF Refuse
  <2>2. c \in Conns
    BY <1>3 DEF Conns
  <2>3. /\ c.depth = conns[k].depth /\ c.tx = conns[k].tx
        /\ ~ c.open /\ c.readonly = conns[k].readonly
    BY <1>3, <1>10 DEF Conns
  <2> HIDE DEF c
  <2> QED BY <1>1, <1>2, <1>4, <1>10, <2>1, <2>2, <2>3, LeftStep
<1>11. ASSUME NEW failed, Conclude(t, failed), conns[k].open,
              NEW c \in Conns, NEW all \in BOOLEAN,
              conns' = [conns EXCEPT ![k] = Deallocated(c, all)],
              c.depth = popped.depth,
              c.open = popped.open, c.readonly = popped.readonly,
              c.tx = "idle" => c.depth = 0 /\ c.saves = <<>> /\ ~ c.timeout,
              Serial /\ Uncancelled => c.tx = "idle"
       PROVE  IInv'
  <2> DEFINE d == Deallocated(c, all)
  <2>1. d \in Conns
    BY DEF Deallocated, Conns
  <2>2. /\ d.depth = c.depth /\ d.open = c.open /\ d.readonly = c.readonly
        /\ d.tx = c.tx /\ d.saves = c.saves /\ d.timeout = c.timeout
    BY DEF Deallocated, Conns
  <2>3. conns' = [conns EXCEPT ![k] = d]
    BY <1>11
  <2> HIDE DEF d
  <2>4. d.depth = conns[k].depth - 1
    BY <1>7, <1>11, <2>2
  <2>5. d.tx = "idle" => d.depth = 0 /\ d.saves = <<>> /\ ~ d.timeout
    BY <1>11, <2>2
  <2>6. d.open = conns[k].open /\ d.readonly = conns[k].readonly
    BY <1>7, <1>11, <2>2
  <2>7. Serial /\ Uncancelled => d.tx = "idle"
    BY <1>11, <2>2
  <2>8. conns[k].open /\ Conclude(t, failed)
    BY <1>11
  <2> QED BY <1>1, <1>2, <2>1, <2>3, <2>4, <2>5, <2>6, <2>7, <2>8, LeftStep
<1>12. ASSUME NEW all \in BOOLEAN, conns[k].open, popped.depth = task[t].index,
              task[t].outer, Conclude(t, task[t].failed),
              conns' = [conns EXCEPT ![k] = Deallocated(RolledBack(popped), all)]
       PROVE  IInv'
  <2> DEFINE c == RolledBack(popped)
  <2>1. IsPlaced(task[t])
    BY Placed
  <2>2. popped.depth = 0
    BY <1>3, <1>12, <2>1 DEF IsPlaced
  <2>0. <<>> \in Seq([name : Nat, timeout : BOOLEAN])
    OBVIOUS
  <2>3. c \in Conns
    BY <1>6, <2>0 DEF RolledBack, Conns
  <2>4. /\ c.depth = popped.depth /\ c.open = popped.open /\ c.readonly = popped.readonly
        /\ c.tx = "idle" /\ c.saves = <<>> /\ c.timeout = FALSE
    BY <1>6 DEF RolledBack, Conns
  <2> HIDE DEF c
  <2>5. conns' = [conns EXCEPT ![k] = Deallocated(c, all)]
    BY <1>12 DEF c
  <2> QED BY <1>11, <1>12, <2>2, <2>3, <2>4, <2>5
<1>13. ASSUME NEW all \in BOOLEAN, conns[k].open, ~ task[t].outer,
              HasSave(popped, task[t].index + 1), Conclude(t, task[t].failed),
              conns' = [conns EXCEPT ![k] =
                  Deallocated(RolledBackTo(popped, task[t].index + 1), all)]
       PROVE  IInv'
  <2> DEFINE c == RolledBackTo(popped, task[t].index + 1)
  <2>1. /\ c \in Conns /\ c.tx = "intrans" /\ c.depth = popped.depth
        /\ c.open = popped.open /\ c.readonly = popped.readonly
    BY <1>6, <1>13, RolledBackToType
  <2> HIDE DEF c
  <2>2. conns' = [conns EXCEPT ![k] = Deallocated(c, all)]
    BY <1>13 DEF c
  <2> QED BY <1>8, <1>11, <1>13, <2>1, <2>2
<1>14. ASSUME NEW c \in Conns, conns[k].open,
              ~ task[t].outer \/ popped.depth # task[t].index,
              c.tx # "idle", c.depth = popped.depth,
              c.open = popped.open, c.readonly = popped.readonly,
              conns' = [conns EXCEPT ![k] = c],
              NEW failed, Conclude(t, failed)
       PROVE  IInv'
  <2>1. ~ (Serial /\ Uncancelled)
    BY <1>8, <1>14
  <2>2. c.depth = conns[k].depth - 1 /\ c.readonly = conns[k].readonly
    BY <1>7, <1>14
  <2> QED BY <1>1, <1>2, <1>14, <2>1, <2>2, LeftStep
<1>15. CASE /\ conns[k].open /\ ~ task[t].outer /\ Conclude(t, task[t].failed)
            /\ conns' = [conns EXCEPT ![k] = Aborted(popped)]
  <2> DEFINE c == Aborted(popped)
  <2>1. c \in Conns
    BY <1>6 DEF Aborted, Conns
  <2>2. /\ c.tx = "inerror" /\ c.depth = popped.depth
        /\ c.open = popped.open /\ c.readonly = popped.readonly
    BY <1>4, <1>6, <1>7 DEF Aborted, Conns
  <2>3. conns' = [conns EXCEPT ![k] = c]
    BY <1>15
  <2> HIDE DEF c
  <2> QED BY <1>14, <1>15, <2>1, <2>2, <2>3
<1>16. CASE /\ conns[k].open /\ popped.depth # task[t].index /\ Conclude(t, TRUE)
            /\ conns' = [conns EXCEPT ![k] = popped]
  BY <1>4, <1>6, <1>7, <1>14, <1>16
<1>17. ASSUME NEW all \in BOOLEAN, conns[k].open, popped.depth = task[t].index,
              Conclude(t, task[t].failed),
              conns' = [conns EXCEPT ![k] =
                  CASE task[t].outer -> Deallocated(RolledBack(popped), all)
                    [] ~ task[t].outer /\ HasSave(popped, task[t].index + 1) ->
                          Deallocated(RolledBackTo(popped, task[t].index + 1), all)
                    [] OTHER -> Aborted(popped)]
       PROVE  IInv'
  <2>1. CASE task[t].outer
    BY <1>12, <1>17, <2>1
  <2>2. CASE ~ task[t].outer /\ HasSave(popped, task[t].index + 1)
    BY <1>13, <1>17, <2>2
  <2>3. CASE ~ task[t].outer /\ ~ HasSave(popped, task[t].index + 1)
    BY <1>15, <1>17, <2>3
  <2> QED BY <2>1, <2>2, <2>3
<1> QED BY <1>1, <1>9, <1>10, <1>16, <1>17 DEF Leave, popped

LEMMA CancelStep ==
    ASSUME IInv, NEW t \in Tasks, Cancel(t)
    PROVE  IInv'
<1>1. ~ Uncancelled /\ UNCHANGED <<current, load>>
  BY DEF Cancel, Uncancelled
<1>2. CASE task[t].pc \in {"connecting", "reading", "entering"} /\ End(t) /\ UNCHANGED conns
  <2>1. Alters(0) /\ Moved(t) /\ Between(t)
    BY <1>2, EndGoes, SameAlters DEF IInv
  <2>2. Step(t, 0)
    BY <1>1, <2>1 DEF Step, Moved, Alters
  <2>3. task[t].pc \notin {"setting", "idle"} \cup Within
    BY <1>2 DEF Within, Limited
  <2> QED BY <1>1, <2>1, <2>2, <2>3, BetweenPlaces, BetweenStays, AlteredStep
<1>3. ASSUME NEW k \in 1..Len(conns), NEW c \in Conns,
             task[t].pc \in {"setting", "entering"}, task[t].pc = "setting" => task[t].cur = k,
             conns' = [conns EXCEPT ![k] = c], End(t), c.depth >= conns[k].depth,
             c.tx = "idle" => c.depth = 0 /\ c.saves = <<>> /\ ~ c.timeout
      PROVE  IInv'
  <2>1. /\ conns' \in Seq(Conns) /\ Len(conns') = Len(conns) /\ conns'[k] = c
        /\ \A j \in 1..Len(conns) : j # k => conns'[j] = conns[j]
    BY <1>3, ConnTo DEF IInv
  <2>2. Moved(t) /\ Between(t)
    BY <1>3, EndGoes DEF IInv
  <2>3. Step(t, k)
    BY <1>1, <2>1, <2>2 DEF Step, Moved
  <2>4. task[t].pc \notin {"idle"} \cup Within
    BY <1>3 DEF Within, Limited
  <2>5. IsPlaced(task'[t]) /\ task'[t].pc \notin Within
    BY <2>2, BetweenPlaces
  <2>6. StaysAt(task[t])'
    BY <1>1, <2>2, BetweenStays
  <2>7. conns'[k].depth >= conns[k].depth
    BY <1>3, <2>1
  <2>8. conns'[k].tx = "idle" =>
           conns'[k].depth = 0 /\ conns'[k].saves = <<>> /\ ~ conns'[k].timeout
    BY <1>3, <2>1
  <2>9. Uncancelled /\ task[t].pc = "setting" => task[t].cur = k
    BY <1>1
  <2> QED BY <1>1, <2>3, <2>4, <2>5, <2>6, <2>7, <2>8, <2>9, InvStep
<1>4. ASSUME NEW k, k = task[t].conn, task[t].pc = "entering", Accepts(k), End(t),
             conns' = [conns EXCEPT
                ![k].depth = @ + 1,
                ![k].tx = "intrans",
                ![k].saves = IF conns[k].tx = "idle" THEN @
                    ELSE Append(@, [name |-> conns[k].depth + 1,
                                    timeout |-> conns[k].timeout])]
      PROVE  IInv'
  <2>1. k \in 1..Len(conns)
    BY <1>4, Placed
  <2>2. conns[k] \in Conns
    BY <2>1 DEF IInv, TypeOK
  <2>3. conns[k].depth \in Nat /\ conns[k].depth + 1 \in Nat
    BY <2>2 DEF Conns
  <2> DEFINE save == [name |-> conns[k].depth + 1, timeout |-> conns[k].timeout]
             saves == IF conns[k].tx = "idle" THEN conns[k].saves
                                              ELSE Append(conns[k].saves, save)
             c == [conns[k] EXCEPT !.depth = @ + 1, !.tx = "intrans", !.saves = saves]
  <2>4. conns' = [conns EXCEPT ![k] = c]
    BY <1>4, <2>1 DEF IInv, TypeOK
  <2>5. Append(conns[k].saves, save) \in Seq([name : Nat, timeout : BOOLEAN])
    BY <2>2, <2>3 DEF Conns
  <2>6. saves \in Seq([name : Nat, timeout : BOOLEAN])
    BY <2>2, <2>5 DEF Conns
  <2> HIDE DEF saves
  <2>7. c \in Conns
    BY <2>2, <2>3, <2>6 DEF Conns
  <2>8. c.depth = conns[k].depth + 1 /\ c.tx = "intrans"
    BY <2>2 DEF Conns
  <2> HIDE DEF c
  <2>9. c.depth >= conns[k].depth
    BY <2>3, <2>8
  <2> QED BY <1>3, <1>4, <2>1, <2>4, <2>7, <2>8, <2>9
<1>5. ASSUME NEW k, k = task[t].cur, task[t].pc = "setting", End(t), NEW ran \in BOOLEAN,
             conns' = [conns EXCEPT ![k].readonly = ran]
      PROVE  IInv'
  <2>1. k \in 1..Len(conns)
    BY <1>5, Placed
  <2>2. conns[k] \in Conns
    BY <2>1 DEF IInv, TypeOK
  <2>3. conns[k].depth \in Nat
    BY <2>2 DEF Conns
  <2> DEFINE c == [conns[k] EXCEPT !.readonly = ran]
  <2>4. conns' = [conns EXCEPT ![k] = c]
    BY <1>5
  <2>5. c \in Conns
    BY <2>2 DEF Conns
  <2>6. /\ c.depth = conns[k].depth /\ c.tx = conns[k].tx
        /\ c.saves = conns[k].saves /\ c.timeout = conns[k].timeout
    BY <2>2 DEF Conns
  <2> HIDE DEF c
  <2>7. c.depth >= conns[k].depth
    BY <2>3, <2>6
  <2>8. c.tx = "idle" => c.depth = 0 /\ c.saves = <<>> /\ ~ c.timeout
    <3>1. conns[k].tx = "idle" =>
             conns[k].depth = 0 /\ conns[k].saves = <<>> /\ ~ conns[k].timeout
      BY <2>1 DEF IInv, IdleHasNoBlocks, TypeOK
    <3> QED BY <2>6, <3>1
  <2> QED BY <1>3, <1>5, <2>1, <2>4, <2>5, <2>7, <2>8
<1>6. ASSUME NEW k, k = task[t].cur, task[t].pc \in {"limiting", "preparing", "planning"},
             \/ UNCHANGED conns
             \/ conns' = [conns EXCEPT ![k] = Aborted(@)],
             task' = [task EXCEPT ![t].pc = "leaving", ![t].kind = "analyze"]
      PROVE  IInv'
  <2>1. k \in 1..Len(conns) /\ task[t] \in TaskStates
    BY <1>6, Placed DEF Limited
  <2>2. Alters(k)
    BY <1>6, <2>1, SameAlters, AbortAlters DEF IInv
  <2> DEFINE s == [task[t] EXCEPT !.pc = "leaving", !.kind = "analyze"]
  <2>3. task' = [task EXCEPT ![t] = s]
    BY <1>6
  <2>4. s \in TaskStates
    BY <2>1 DEF TaskStates, PCs, Kinds, Explains
  <2>5. /\ s.pc = "leaving" /\ s.kind = "analyze" /\ s.conn = task[t].conn
        /\ s.cur = task[t].cur /\ s.outer = task[t].outer /\ s.index = task[t].index
    BY <2>1 DEF TaskStates
  <2> HIDE DEF s
  <2>6. Moved(t) /\ IsPlaced(task'[t]) /\ task'[t] = s
    BY <1>6, <2>3, <2>4, <2>5, GoesOn DEF Limited, Explains
  <2>7. Step(t, k)
    BY <1>1, <2>2, <2>6 DEF Step, Moved, Alters
  <2>8. /\ task[t].pc \in Within /\ task'[t].pc \in Within
        /\ task[t].pc \notin {"setting", "idle"}
    BY <1>6, <2>5, <2>6 DEF Within, Limited
  <2>9. StaysAt(task[t])'
    BY <2>5, <2>6 DEF StaysAt, Limited
  <2>10. task'[t].conn = task[t].conn /\ task'[t].outer = task[t].outer
    BY <2>5, <2>6
  <2> QED BY <2>2, <2>6, <2>7, <2>8, <2>9, <2>10, AlteredStep
<1>7. CASE /\ task[t].pc = "leaving" /\ UNCHANGED conns
           /\ task' = [task EXCEPT ![t].kind = "analyze"]
  <2>1. task[t] \in TaskStates /\ IsPlaced(task[t]) /\ Alters(0)
    BY <1>7, Placed, SameAlters DEF IInv
  <2> DEFINE s == [task[t] EXCEPT !.kind = "analyze"]
  <2>2. s \in TaskStates
    BY <2>1 DEF TaskStates, Kinds, Explains
  <2>3. /\ s.pc = "leaving" /\ s.kind = "analyze" /\ s.conn = task[t].conn
        /\ s.cur = task[t].cur /\ s.outer = task[t].outer /\ s.index = task[t].index
    BY <1>7, <2>1 DEF TaskStates
  <2>4. task' = [task EXCEPT ![t] = s] /\ {s.conn, s.cur} \subseteq 0..Len(conns)
    BY <1>7, <2>3 DEF IInv, TypeOK
  <2> HIDE DEF s
  <2>5. Moved(t) /\ task'[t] = s
    BY <2>2, <2>4, MovedTo DEF IInv
  <2>6. Step(t, 0) /\ task[t].pc \in Within /\ task'[t].pc \in Within
    BY <1>1, <1>7, <2>1, <2>3, <2>5 DEF Step, Moved, Alters, Within
  <2>7. IsPlaced(task'[t]) /\ StaysAt(task[t])'
    BY <1>7, <2>1, <2>3, <2>5 DEF IsPlaced, StaysAt, Within, Limited
  <2>8. task'[t].conn = task[t].conn /\ task'[t].outer = task[t].outer
    BY <2>3, <2>5
  <2> QED BY <1>7, <2>1, <2>6, <2>7, <2>8, AlteredStep
<1>8. CASE task[t].pc = "leaving" /\ UNCHANGED conns /\ End(t)
  <2>1. PICK k : k = task[t].conn
    OBVIOUS
  <2>2. k \in 1..Len(conns) /\ task[t].pc \in Within
    BY <1>8, <2>1, Placed DEF Within
  <2>3. conns[k] \in Conns /\ conns[k].tx # "idle"
    BY <2>1, <2>2, BlockIsOpen DEF IInv, TypeOK
  <2>4. conns' = [conns EXCEPT ![k] = conns[k]] /\ Conclude(t, FALSE)
    BY <1>8, <2>2 DEF IInv, TypeOK, Conclude
  <2> QED BY <1>1, <1>8, <2>1, <2>3, <2>4, LeftStep
<1> QED BY <1>2, <1>4, <1>5, <1>6, <1>7, <1>8 DEF Cancel

LEMMA DropStep ==
    ASSUME IInv, NEW k \in DOMAIN conns, Drop(k)
    PROVE  IInv'
<1> DEFINE c == [conns[k] EXCEPT !.alive = FALSE]
<1>1. k \in 1..Len(conns)
  BY DEF IInv, TypeOK
<1>2. conns[k] \in Conns
  BY <1>1 DEF IInv, TypeOK
<1>3. conns' = [conns EXCEPT ![k] = c]
  BY DEF Drop
<1>4. c \in Conns
  BY <1>2 DEF Conns
<1>5. /\ c.depth = conns[k].depth /\ c.saves = conns[k].saves /\ c.tx = conns[k].tx
      /\ c.timeout = conns[k].timeout /\ c.readonly = conns[k].readonly
      /\ c.open = conns[k].open
  BY <1>2 DEF Conns
<1> HIDE DEF c
<1>6. /\ conns' \in Seq(Conns) /\ Len(conns') = Len(conns) /\ conns'[k] = c
      /\ \A j \in 1..Len(conns) : j # k => conns'[j] = conns[j]
  BY <1>1, <1>3, <1>4, ConnTo DEF IInv
<1>7. UNCHANGED <<current, task, load>>
  BY DEF Drop
<1>8. \A j \in 1..Len(conns) :
        /\ conns'[j].depth = conns[j].depth /\ conns'[j].saves = conns[j].saves
        /\ conns'[j].tx = conns[j].tx /\ conns'[j].timeout = conns[j].timeout
        /\ conns'[j].readonly = conns[j].readonly /\ conns'[j].open = conns[j].open
  BY <1>5, <1>6
<1>9. DOMAIN conns = 1..Len(conns) /\ DOMAIN conns' = 1..Len(conns)
  BY <1>6 DEF IInv, TypeOK
<1>10. TypeOK'
  BY <1>6, <1>7 DEF IInv, TypeOK
<1>11. CallsArePlaced'
  BY <1>7 DEF IInv, CallsArePlaced, IsPlaced
<1>12. BlocksAreCounted'
  BY <1>7, <1>8, <1>9 DEF IInv, BlocksAreCounted, Inside
<1>13. IdleHasNoBlocks'
  BY <1>8, <1>9 DEF IInv, IdleHasNoBlocks
<1>14. SettingIsAwaited'
  BY <1>7, <1>8, <1>9 DEF IInv, SettingIsAwaited, Uncancelled
<1>15. SerialCallsAreApart'
  <2>1. ASSUME Serial, NEW t \in Tasks PROVE StaysAt(task[t])'
    <3>1. StaysAt(task[t])
      BY <2>1 DEF IInv, SerialCallsAreApart, StaysConnected
    <3>2. task[t].pc \in {"reading"} \cup Limited => task[t].cur \in 1..Len(conns)
      BY Placed
    <3> QED BY <1>7, <1>8, <3>1, <3>2 DEF StaysAt, Limited
  <2>2. Serial => OneAtATime'
    BY <1>7 DEF IInv, SerialCallsAreApart, OneAtATime
  <2> QED BY <1>7, <2>1, <2>2 DEF SerialCallsAreApart, Serial, StaysConnected
<1>16. TransactionIsOwned'
  BY <1>7, <1>8, <1>9 DEF IInv, TransactionIsOwned, Serial, Uncancelled, Inside
<1> QED BY <1>10, <1>11, <1>12, <1>13, <1>14, <1>15, <1>16 DEF IInv

(* The one step that adds a connection. *)
LEMMA ConnectOpensStep ==
    ASSUME IInv, NEW t \in Tasks, ConnectOpens(t)
    PROVE  IInv'
<1>0. PICK n : n = Len(conns) + 1
  OBVIOUS
<1> DEFINE s == [task[t] EXCEPT !.pc = "setting", !.cur = n]
<1>1. /\ Len(conns) \in Nat /\ n \in Nat /\ n = Len(conns) + 1
      /\ task[t] \in TaskStates /\ IsPlaced(task[t])
  BY <1>0, Numbers, Placed DEF IInv
<1>2. NewConn \in Conns
  <2>1. <<>> \in Seq([name : Nat, timeout : BOOLEAN])
    OBVIOUS
  <2> QED BY <2>1 DEF NewConn, Conns
<1>3. /\ NewConn.tx = "idle" /\ NewConn.depth = 0 /\ NewConn.saves = <<>>
      /\ NewConn.timeout = FALSE /\ NewConn.open = TRUE
  BY DEF NewConn
<1>4. /\ conns' \in Seq(Conns) /\ Len(conns') = n /\ conns'[n] = NewConn
      /\ \A j \in 1..Len(conns) : conns'[j] = conns[j]
  BY <1>1, <1>2 DEF ConnectOpens, IInv, TypeOK
<1>5. DOMAIN conns = 1..Len(conns) /\ DOMAIN conns' = 1..n
  BY <1>4 DEF IInv, TypeOK
<1>6. task' = [task EXCEPT ![t] = s] /\ task[t].pc = "connecting"
  BY <1>1 DEF ConnectOpens
<1>7. s \in TaskStates
  BY <1>1 DEF TaskStates, PCs
<1>8. /\ s.pc = "setting" /\ s.cur = n /\ s.conn = task[t].conn
      /\ s.kind = task[t].kind /\ s.outer = task[t].outer /\ s.index = task[t].index
  BY <1>1 DEF TaskStates
<1> HIDE DEF s
<1>9. /\ task'[t] = s /\ task' \in [Tasks -> TaskStates]
      /\ \A u \in Tasks : u # t => task'[u] = task[u]
  BY <1>6, <1>7 DEF IInv, TypeOK
<1>10. current' = n /\ UNCHANGED load
  BY <1>1 DEF ConnectOpens
<1>11. TypeOK'
  <2>1. \A u \in Tasks : {task'[u].conn, task'[u].cur} \subseteq 0..n
    BY <1>1, <1>8, <1>9 DEF IInv, TypeOK
  <2> QED BY <1>1, <1>4, <1>9, <1>10, <2>1 DEF IInv, TypeOK
<1>12. CallsArePlaced'
  <2>1. IsPlaced(s)
    BY <1>1, <1>8 DEF IsPlaced, Within, Limited
  <2> QED BY <1>9, <2>1 DEF IInv, CallsArePlaced, IsPlaced
<1>13. \A j \in 1..Len(conns) : Inside(j)' = Inside(j)
  BY <1>6, <1>8, <1>9 DEF Inside, Within, Limited
<1>14. Inside(n)' = {}
  <2> SUFFICES ASSUME NEW u \in Tasks, task'[u].pc \in Within, task'[u].conn = n
               PROVE  FALSE
    BY DEF Inside
  <2>1. u # t
    BY <1>8, <1>9 DEF Within, Limited
  <2> QED BY <1>1, <1>9, <2>1 DEF IInv, TypeOK
<1>15. BlocksAreCounted'
  <2> SUFFICES ASSUME NEW j \in 1..n
               PROVE  IsFiniteSet(Inside(j)') /\ Cardinality(Inside(j)') <= conns'[j].depth
    BY <1>5 DEF BlocksAreCounted
  <2>1. CASE j \in 1..Len(conns)
    BY <1>4, <1>5, <1>13, <2>1 DEF IInv, BlocksAreCounted
  <2>2. CASE j = n
    <3>1. Inside(j)' = {}
      BY <1>14, <2>2 DEF Inside
    <3> QED BY <1>3, <1>4, <2>2, <3>1, FS_EmptySet
  <2> QED BY <1>1, <2>1, <2>2
<1>16. \A j \in 1..n : j \in 1..Len(conns) \/ j = n
  BY <1>1
<1>17. IdleHasNoBlocks'
  BY <1>3, <1>4, <1>5, <1>16 DEF IInv, IdleHasNoBlocks
<1>18. SettingIsAwaited'
  <2> SUFFICES ASSUME Uncancelled, NEW j \in 1..n,
                      ~ conns'[j].readonly, conns'[j].open
               PROVE  \E u \in Tasks : task'[u].pc = "setting" /\ task'[u].cur = j
    BY <1>5, <1>10 DEF SettingIsAwaited, Uncancelled
  <2>1. CASE j = n
    BY <1>8, <1>9, <2>1
  <2>2. CASE j \in 1..Len(conns)
    <3>1. PICK u \in Tasks : task[u].pc = "setting" /\ task[u].cur = j
      BY <1>4, <1>5, <2>2 DEF IInv, SettingIsAwaited
    <3> QED BY <1>6, <1>9, <3>1
  <2> QED BY <1>16, <2>1, <2>2
<1>19. SerialCallsAreApart'
  <2> SUFFICES ASSUME Serial PROVE OneAtATime' /\ StaysConnected'
    BY <1>10 DEF SerialCallsAreApart, Serial
  <2>1. \A u \in Tasks : u # t => task'[u].pc = "idle"
    BY <1>6, <1>9 DEF IInv, SerialCallsAreApart, OneAtATime
  <2>2. OneAtATime'
    BY <2>1 DEF OneAtATime
  <2>3. \A u \in Tasks : StaysAt(task[u])'
    BY <1>8, <1>9, <2>1 DEF StaysAt, Limited
  <2> QED BY <2>2, <2>3 DEF StaysConnected
<1>20. TransactionIsOwned'
  <2> SUFFICES ASSUME Serial, Uncancelled, NEW j \in 1..n,
                      conns'[j].open, conns'[j].tx # "idle"
               PROVE  conns'[j].depth = 1 /\ \E u \in Inside(j)' : task'[u].outer
    BY <1>5, <1>10 DEF TransactionIsOwned, Serial, Uncancelled
  <2>1. j \in 1..Len(conns)
    BY <1>3, <1>4, <1>16
  <2>2. PICK u \in Inside(j) : conns[j].depth = 1 /\ task[u].outer
    BY <1>4, <1>5, <2>1 DEF IInv, TransactionIsOwned
  <2>3. u # t
    BY <1>6, <2>2 DEF Inside, Within, Limited
  <2> QED BY <1>4, <1>9, <1>13, <2>1, <2>2, <2>3 DEF Inside
<1> QED BY <1>11, <1>12, <1>15, <1>17, <1>18, <1>19, <1>20 DEF IInv

-----------------------------------------------------------------------------
LEMMA InitInvariant == Init => IInv
<1> SUFFICES ASSUME Init PROVE IInv
  OBVIOUS
<1>1. conns = <<>> /\ current = 0 /\ load \in LoadStates /\ \A t \in Tasks : task[t] = Rest
  BY SessionAssumption DEF Init
<1>2. conns \in Seq(Conns) /\ Len(conns) = 0 /\ DOMAIN conns = {}
  BY <1>1
<1>3. TypeOK
  BY <1>1, <1>2, RestType DEF TypeOK, Init
<1>4. CallsArePlaced
  BY <1>1, RestType DEF CallsArePlaced, IsPlaced, Within, Limited
<1>5. BlocksAreCounted /\ IdleHasNoBlocks /\ SettingIsAwaited /\ TransactionIsOwned
  BY <1>2 DEF BlocksAreCounted, IdleHasNoBlocks, SettingIsAwaited, TransactionIsOwned
<1>6. SerialCallsAreApart
  BY <1>1, RestType DEF SerialCallsAreApart, OneAtATime, StaysConnected, StaysAt, Limited
<1> QED BY <1>3, <1>4, <1>5, <1>6 DEF IInv

LEMMA StutterStep == IInv /\ UNCHANGED vars => IInv'
<1> SUFFICES ASSUME IInv, UNCHANGED <<conns, current, task, load>> PROVE IInv'
  BY DEF vars
<1>1. TypeOK' /\ CallsArePlaced' /\ IdleHasNoBlocks'
  BY DEF IInv, TypeOK, CallsArePlaced, IsPlaced, IdleHasNoBlocks
<1>2. BlocksAreCounted'
  BY DEF IInv, BlocksAreCounted, Inside
<1>3. SettingIsAwaited'
  BY DEF IInv, SettingIsAwaited, Uncancelled
<1>4. SerialCallsAreApart'
  BY DEF IInv, SerialCallsAreApart, OneAtATime, StaysConnected, StaysAt, Serial
<1>5. TransactionIsOwned'
  BY DEF IInv, TransactionIsOwned, Inside, Serial, Uncancelled
<1> QED BY <1>1, <1>2, <1>3, <1>4, <1>5 DEF IInv

LEMMA NextStep == IInv /\ [Next]_vars => IInv'
<1> SUFFICES ASSUME IInv, [Next]_vars PROVE IInv'
  OBVIOUS
<1>1. ASSUME NEW t \in Tasks, NEW kind \in Kinds, Start(t, kind) PROVE IInv'
  BY <1>1, StartStep
<1>2. ASSUME NEW t \in Tasks, Connect(t) PROVE IInv'
  BY <1>2, ConnectOpensStep, ConnectFailsStep, SetReadOnlyStep DEF Connect
<1>3. ASSUME NEW t \in Tasks, Read(t) PROVE IInv'
  BY <1>3, ReadStep
<1>4. ASSUME NEW t \in Tasks, Explain(t) PROVE IInv'
  BY <1>4, EnterStep, LimitStep, PrepareStep, PlanStep, LeaveStep DEF Explain
<1>5. ASSUME NEW t \in Tasks, Cancel(t) PROVE IInv'
  BY <1>5, CancelStep
<1>6. ASSUME NEW k \in DOMAIN conns, Drop(k) PROVE IInv'
  BY <1>6, DropStep
<1>7. CASE UNCHANGED vars
  BY <1>7, StutterStep
<1> QED BY <1>1, <1>2, <1>3, <1>4, <1>5, <1>6, <1>7 DEF Next

-----------------------------------------------------------------------------
(* Every reachable state satisfies the strengthened invariant, whatever    *)
(* number of calls interleave on the one ConnectionManager, whatever fails *)
(* or is cancelled, and however deep psycopg's blocks nest.                *)
THEOREM InvariantHolds == Spec => []IInv
<1>1. Init => IInv
  BY InitInvariant
<1>2. IInv /\ [Next]_vars => IInv'
  BY NextStep
<1> QED BY <1>1, <1>2, PTL DEF Spec

(* The state of the session keeps its type: in particular no call refers   *)
(* to a connection that was never opened.                                  *)
THEOREM TypeCorrect == Spec => []TypeOK
<1>1. IInv => TypeOK
  BY DEF IInv
<1> QED BY <1>1, InvariantHolds, PTL

(* An idle session has no block counted, no savepoint and no local         *)
(* setting, for every load: overlapping and cancelled calls leave blocks   *)
(* behind only inside a transaction.  Enter, Leave, transaction().         *)
THEOREM IdleHasNoBlocksHolds == Spec => []IdleHasNoBlocks
<1>1. IInv => IdleHasNoBlocks
  BY DEF IInv
<1> QED BY <1>1, InvariantHolds, PTL

(* No statement of an uncancelled tool reaches a session that is not       *)
(* read-only, whichever calls race its reconnect.  connect,                *)
(* _ensure_connected, conn.                                                *)
THEOREM RacingSessionsAreReadOnlyHolds == Spec => []RacingSessionsAreReadOnly
<1>1. ASSUME IInv PROVE RacingSessionsAreReadOnly
  <2> SUFFICES ASSUME Uncancelled, NEW t \in Tasks,
                      task[t].pc \in {"reading", "limiting", "preparing", "planning"},
                      ~ conns[task[t].cur].readonly, conns[task[t].cur].open
               PROVE  ~ LockFree(task[t].cur)
    BY DEF RacingSessionsAreReadOnly, SessionsAreReadOnly
  <2>1. task[t].cur \in DOMAIN conns
    BY <1>1, Placed DEF Limited, IInv, TypeOK
  <2> QED BY <1>1, <2>1 DEF IInv, SettingIsAwaited, LockFree
<1> QED BY <1>1, InvariantHolds, PTL

(* Every EXPLAIN of calls that come one after the other runs inside a      *)
(* transaction whose statement timeout is set, though calls be cancelled   *)
(* and connections lost at any point.  run_explain_analyze,                *)
(* _run_parameterized_explain, _run_prepared_generic_explain.              *)
THEOREM SerialExplainIsContainedHolds == Spec => []SerialExplainIsContained
<1>1. ASSUME IInv PROVE SerialExplainIsContained
  <2> SUFFICES ASSUME Serial, NEW t \in Tasks, task[t].pc = "planning"
               PROVE  /\ conns[task[t].cur].tx # "idle"
                      /\ conns[task[t].cur].tx = "intrans" => conns[task[t].cur].timeout
    BY DEF SerialExplainIsContained, ExplainIsContained
  <2>1. StaysAt(task[t])
    BY <1>1 DEF IInv, SerialCallsAreApart, StaysConnected
  <2>2. conns[task[t].conn].tx # "idle"
    BY <1>1, BlockIsOpen DEF Within, Limited
  <2> QED BY <2>1, <2>2 DEF StaysAt, Limited
<1> QED BY <1>1, InvariantHolds, PTL

(* Between the EXPLAINs of calls that come one after the other, none of    *)
(* them cancelled, the session is as connect() left it.                    *)
(* run_explain_analyze, _run_prepared_generic_explain.                     *)
THEOREM SessionIsReleasedHolds == Spec => []SessionIsReleased
<1>1. ASSUME IInv PROVE SessionIsReleased
  <2> SUFFICES ASSUME Serial, Uncancelled, \A t \in Tasks : task[t].kind = "fetch",
                      NEW k \in DOMAIN conns, conns[k].open
               PROVE  conns[k].tx = "idle" /\ conns[k].depth = 0 /\ ~ conns[k].timeout
    BY DEF SessionIsReleased
  <2>1. Inside(k) = {}
    <3> SUFFICES ASSUME NEW t \in Tasks, task[t].pc \in Within PROVE FALSE
      BY DEF Inside
    <3>1. IsPlaced(task[t])
      BY <1>1, Placed
    <3> QED BY <3>1 DEF IsPlaced
  <2>2. conns[k].tx = "idle"
    BY <1>1, <2>1 DEF IInv, TransactionIsOwned
  <2> QED BY <1>1, <2>2 DEF IInv, IdleHasNoBlocks
<1> QED BY <1>1, InvariantHolds, PTL
=============================================================================
