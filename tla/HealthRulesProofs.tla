------------------------- MODULE HealthRulesProofs -------------------------
(***************************************************************************)
(* What TLAPS proves of HealthRules: for any initial settings, number of   *)
(* connections and reserve, and for any thresholds and any tables with any *)
(* statistics.                                                             *)
(***************************************************************************)
EXTENDS HealthRules, TLAPS

(* No reserve but one: the constants a server can have (ConfigAssumption)  *)
(* leave room for an ordinary client, so the capacity is what is not       *)
(* reserved.                                                               *)
LEMMA Capacity ==
  ASSUME TypeOKConfig
  PROVE  /\ OrdinaryCapacity \in Nat
         /\ OrdinaryCapacity = MaxConnections - (Superuser + reserved)
  BY ConfigAssumption DEF TypeOKConfig, OrdinaryCapacity

LEMMA FixIsNumber ==
  ASSUME NEW n \in Names
  PROVE  Fix(n) \in Int
  BY DEF Fix

(* A setting that has its fix is not reported. *)
LEMMA FixIsNotReported ==
  ASSUME NEW s \in [Names -> Int], NEW n \in Names \ PerTable, s[n] = Fix(n)
  PROVE  n \notin Reported(s)
  BY DEF Reported, Fix, PerTable, Names, Kilobytes

(* Whether a setting is reported depends on its own value only. *)
LEMMA ReportedByValue ==
  ASSUME NEW s \in [Names -> Int], NEW u \in [Names -> Int], NEW n \in Names,
         s[n] = u[n]
  PROVE  n \in Reported(s) <=> n \in Reported(u)
  BY DEF Reported, Names, Kilobytes

(* What the server runs is what is configured, once reloaded, except what  *)
(* it only reads at its start.                                             *)
RunsConfigured ==
  reloaded => \A n \in Names \ AtStart : running[n] = configured[n]

(* What is known of a setting whose advice is followed: its file has the   *)
(* fix, the value it runs is the fix or the reported one, and it is the    *)
(* fix once the step the advice names is taken.                            *)
FixIsOnItsWay(n) ==
  /\ configured[n] = Fix(n)
  /\ running[n] # configured[n] => n \in Reported(running)
  /\ followed[n] = "done" /\ After(n) # "nothing" => running[n] = configured[n]

Altered ==
  \A n \in Names : followed[n] # "no" =>
      IF n \in PerTable THEN n \in Reported(running) /\ running[n] = configured[n]
      ELSE FixIsOnItsWay(n)

Untouched == \A n \in Names : followed[n] = "no" => running[n] = configured[n]

IInvConfig == TypeOKConfig /\ RunsConfigured /\ Altered /\ Untouched

LEMMA InitConfigInvariant == Init => IInvConfig
<1> SUFFICES ASSUME Init
             PROVE  IInvConfig
  OBVIOUS
<1>1. running \in [Names -> Int] /\ configured = running
  BY ConfigAssumption DEF Init, InitConfig
<1>2. /\ reserved \in RoleReserved /\ clients = 0 /\ reloaded = TRUE
      /\ followed = [n \in Names |-> "no"]
  BY DEF Init, InitConfig
<1> QED
  BY <1>1, <1>2, ConfigAssumption
     DEF IInvConfig, TypeOKConfig, RunsConfigured, Altered, Untouched

(* The operator alters one setting, which is reported and not yet altered. *)
LEMMA ApplyFixStep ==
  ASSUME IInvConfig, NEW m \in Names, ApplyFix(m)
  PROVE  IInvConfig'
<1>1. /\ running' = running /\ reserved' = reserved /\ clients' = clients
      /\ m \in Reported(running) /\ followed[m] = "no"
      /\ running[m] = configured[m]
  BY DEF ApplyFix, IInvConfig, Untouched
<1>2. /\ followed' = [followed EXCEPT ![m] =
                         IF After(m) = "nothing" THEN "done" ELSE "altered"]
      /\ followed'[m] # "no"
      /\ followed'[m] = "done" => After(m) = "nothing"
      /\ \A n \in Names \ {m} : followed'[n] = followed[n]
      /\ followed' \in [Names -> {"no", "altered", "done"}]
  BY DEF ApplyFix, IInvConfig, TypeOKConfig
<1>3. CASE m \in PerTable /\ UNCHANGED <<configured, reloaded>>
  <2>1. TypeOKConfig' /\ RunsConfigured'
    BY <1>1, <1>2, <1>3 DEF IInvConfig, TypeOKConfig, RunsConfigured
  <2>2. Untouched'
    BY <1>1, <1>2, <1>3 DEF IInvConfig, Untouched
  <2>3. Altered'
    BY <1>1, <1>2, <1>3 DEF IInvConfig, Altered, FixIsOnItsWay
  <2> QED
    BY <2>1, <2>2, <2>3 DEF IInvConfig
<1>4. CASE /\ m \notin PerTable
           /\ configured' = [configured EXCEPT ![m] = Fix(m)]
           /\ reloaded' = FALSE
  <2>1. /\ configured' \in [Names -> Int] /\ configured'[m] = Fix(m)
        /\ \A n \in Names \ {m} : configured'[n] = configured[n]
    BY <1>4, FixIsNumber DEF IInvConfig, TypeOKConfig
  <2>2. TypeOKConfig' /\ RunsConfigured'
    BY <1>1, <1>2, <1>4, <2>1 DEF IInvConfig, TypeOKConfig, RunsConfigured
  <2>3. Untouched'
    BY <1>1, <1>2, <2>1 DEF IInvConfig, Untouched
  <2>4. FixIsOnItsWay(m)'
    BY <1>1, <1>2, <2>1 DEF FixIsOnItsWay
  <2>5. Altered'
    <3>1. ASSUME NEW n \in Names \ {m}, followed'[n] # "no"
          PROVE  IF n \in PerTable
                 THEN n \in Reported(running') /\ running'[n] = configured'[n]
                 ELSE FixIsOnItsWay(n)'
      BY <1>1, <1>2, <2>1, <3>1 DEF IInvConfig, Altered, FixIsOnItsWay
    <3> QED
      BY <1>4, <2>4, <3>1 DEF Altered
  <2> QED
    BY <2>2, <2>3, <2>5 DEF IInvConfig
<1> QED
  BY <1>3, <1>4 DEF ApplyFix

(* The files are read: each setting runs the old value or the configured   *)
(* one, and the latter if its advice named the step.                       *)
LEMMA ReadStep ==
  ASSUME IInvConfig, TypeOKConfig', RunsConfigured', configured' = configured,
         NEW steps, followed' = Taken(steps),
         \A n \in Names : /\ running'[n] \in {running[n], configured[n]}
                          /\ After(n) \in steps => running'[n] = configured[n]
  PROVE  IInvConfig'
<1>1. \A n \in Names : followed'[n] = "no" <=> followed[n] = "no"
  BY DEF Taken
<1>2. \A n \in Names : followed'[n] = "done" =>
          followed[n] = "done" \/ After(n) \in steps
  BY DEF Taken
<1>3. running \in [Names -> Int] /\ running' \in [Names -> Int]
  BY DEF IInvConfig, TypeOKConfig
<1>4. Untouched'
  BY <1>1 DEF IInvConfig, Untouched
<1>5. ASSUME NEW n \in Names, followed'[n] # "no"
      PROVE  IF n \in PerTable
             THEN n \in Reported(running') /\ running'[n] = configured'[n]
             ELSE FixIsOnItsWay(n)'
  <2>1. CASE n \in PerTable
    <3>1. running[n] = configured[n] /\ n \in Reported(running)
      BY <1>1, <1>5, <2>1 DEF IInvConfig, Altered
    <3>2. running'[n] = running[n]
      BY <3>1
    <3> QED
      BY <1>3, <2>1, <3>1, <3>2, ReportedByValue
  <2>2. CASE n \notin PerTable
    <3>1. FixIsOnItsWay(n)
      BY <1>1, <1>5, <2>2 DEF IInvConfig, Altered
    <3>2. CASE running'[n] = configured[n]
      BY <2>2, <3>1, <3>2 DEF FixIsOnItsWay
    <3>3. CASE running'[n] = running[n] /\ running[n] # configured[n]
      <4>1. n \in Reported(running')
        BY <1>3, <3>1, <3>3, ReportedByValue DEF FixIsOnItsWay
      <4> QED
        BY <1>2, <2>2, <3>1, <3>3, <4>1 DEF FixIsOnItsWay
    <3> QED
      BY <3>2, <3>3
  <2> QED
    BY <2>1, <2>2
<1> QED
  BY <1>4, <1>5 DEF IInvConfig, Altered

LEMMA ConfigStep ==
  ASSUME IInvConfig, [Next]_vars
  PROVE  IInvConfig'
<1>1. ASSUME NEW n \in Names, ApplyFix(n)
      PROVE  IInvConfig'
  BY <1>1, ApplyFixStep
<1>2. CASE Reload
  <2>1. TypeOKConfig' /\ RunsConfigured'
    BY <1>2 DEF Reload, Taken, IInvConfig, TypeOKConfig, RunsConfigured
  <2>2. \A n \in Names : /\ running'[n] \in {running[n], configured[n]}
                         /\ After(n) \in {"reload"} => running'[n] = configured[n]
    BY <1>2 DEF Reload, After, AtStart
  <2> QED
    BY <1>2, <2>1, <2>2, ReadStep DEF Reload
<1>3. CASE Restart
  <2>1. TypeOKConfig' /\ RunsConfigured'
    BY <1>3, ConfigAssumption
       DEF Restart, Taken, IInvConfig, TypeOKConfig, RunsConfigured
  <2> QED
    BY <1>3, <2>1, ReadStep DEF Restart
<1>4. CASE Connect \/ Disconnect
  <2>1. /\ UNCHANGED <<running, configured, reloaded, followed>>
        /\ TypeOKConfig'
    BY <1>4, ConfigAssumption DEF Connect, Disconnect, IInvConfig, TypeOKConfig
  <2> QED
    BY <2>1 DEF IInvConfig, RunsConfigured, Altered, Untouched, FixIsOnItsWay
<1>5. CASE UNCHANGED configVars
  BY <1>5 DEF configVars, IInvConfig, TypeOKConfig, RunsConfigured, Altered,
              Untouched, FixIsOnItsWay
<1> QED
  BY <1>1, <1>2, <1>3, <1>4, <1>5
     DEF Next, CheckTable, CheckScans, CheckConfig, NextConfig, vars

LEMMA ConfigInvariant == Spec => []IInvConfig
<1>1. IInvConfig /\ [Next]_vars => IInvConfig'
  BY ConfigStep
<1> QED
  BY <1>1, InitConfigInvariant, PTL DEF Spec

(* A server that refuses ordinary clients is reported as critical, and one *)
(* that has come to four fifths of what they may use is reported, for any  *)
(* reserve.  CONNECTION_STATS_QUERY, analyze_config.                       *)
THEOREM ExhaustionIsReportedHolds == Spec => []ExhaustionIsReported
<1>1. IInvConfig => ExhaustionIsReported
  <2> SUFFICES ASSUME IInvConfig
               PROVE  ExhaustionIsReported
    OBVIOUS
  <2>1. clients \in Nat /\ OrdinaryCapacity \in Nat
    BY Capacity, ConfigAssumption DEF IInvConfig, TypeOKConfig
  <2>2. Refused => clients >= OrdinaryCapacity
    BY Capacity, <2>1, ConfigAssumption DEF IInvConfig, TypeOKConfig, Refused
  <2>3. Refused => ConnectionPressure = "critical"
    BY <2>1, <2>2 DEF ConnectionPressure
  <2>4. 5 * clients >= 4 * OrdinaryCapacity => ConnectionPressure # "none"
    BY <2>1 DEF ConnectionPressure
  <2> QED
    BY <2>3, <2>4, Capacity DEF IInvConfig, ExhaustionIsReported
<1> QED
  BY <1>1, ConfigInvariant, PTL

(* Followed advice and its finding, for any settings the server started    *)
(* with and any order of alterations, reloads and restarts: an altered     *)
(* setting is reported just while the old value runs, which the step the   *)
(* fix names ends (log_min_duration_statement's names none); the finding   *)
(* on the scale factor stays.                                              *)
(* analyze_config: suggested_fix, requires_downtime.                       *)
THEOREM FollowedAdviceHolds == Spec => []FollowedAdvice
<1>1. IInvConfig => FollowedAdvice
  <2> SUFFICES ASSUME IInvConfig, NEW n \in Names, followed[n] # "no"
               PROVE  /\ n \in Reported(running)
                            <=> n \in PerTable \/ running[n] # configured[n]
                      /\ reloaded /\ running[n] # configured[n]
                            => n \in RequiresDowntime
                      /\ followed[n] = "done" /\ running[n] # configured[n]
                            => n = "log_min_duration_statement"
    BY DEF FollowedAdvice
  <2>1. reloaded /\ running[n] # configured[n] => n \in RequiresDowntime
    BY DEF IInvConfig, RunsConfigured, AtStart, RequiresDowntime
  <2>2. CASE n \in PerTable
    BY <2>1, <2>2 DEF IInvConfig, Altered
  <2>3. CASE n \notin PerTable
    <3>1. FixIsOnItsWay(n) /\ running \in [Names -> Int]
      BY <2>3 DEF IInvConfig, Altered, TypeOKConfig
    <3>2. running[n] = configured[n] => n \notin Reported(running)
      BY <2>3, <3>1, FixIsNotReported DEF FixIsOnItsWay
    <3>3. After(n) = "nothing" => n = "log_min_duration_statement"
      BY <2>3 DEF After, PerTable, Names
    <3> QED
      BY <2>1, <2>3, <3>1, <3>2, <3>3 DEF FixIsOnItsWay
  <2> QED
    BY <2>2, <2>3
<1> QED
  BY <1>1, ConfigInvariant, PTL

-----------------------------------------------------------------------------
(* Percentages are rounded integer quotients: what the quotient says of    *)
(* the numbers, both ways.                                                 *)
LEMMA QuotientBound ==
  ASSUME NEW a \in Nat, NEW b \in Nat \ {0}, NEW c \in Nat
  PROVE  /\ a \div b \in Nat
         /\ a \div b >= c <=> a >= c * b
<1> DEFINE q == a \div b
<1>1. q \in Nat /\ a % b \in 0..(b - 1) /\ a = b * q + (a % b)
  OBVIOUS
<1>2. b * q <= a /\ a < b * q + b
  BY <1>1
<1>3. ASSUME q >= c PROVE a >= c * b
  <2>1. b * q >= b * c
    BY <1>1, <1>3
  <2> QED
    BY <1>1, <1>2, <2>1
<1>4. ASSUME a >= c * b, ~ (q >= c) PROVE FALSE
  <2>1. c >= q + 1
    BY <1>1, <1>4
  <2>2. b * c >= b * (q + 1)
    BY <1>1, <2>1
  <2>3. b * (q + 1) = b * q + b
    BY <1>1
  <2> QED
    BY <1>1, <1>2, <1>4, <2>2, <2>3
<1> QED
  BY <1>1, <1>3, <1>4

(* part is a share of whole of c hundredths of a percent, or rounds to it. *)
AtLeast(part, whole, c) == 20000 * part + whole >= c * (2 * whole)

LEMMA PercentBound ==
  ASSUME NEW part \in Nat, NEW whole \in Nat \ {0}, NEW c \in Nat
  PROVE  /\ Percent(part, whole) \in Nat
         /\ Percent(part, whole) >= c <=> AtLeast(part, whole, c)
<1>1. 2 * part * 10000 + whole = 20000 * part + whole
  OBVIOUS
<1> QED
  BY <1>1, QuotientBound, 20000 * part + whole \in Nat, 2 * whole \in Nat \ {0}
     DEF Percent, AtLeast

LEMMA TypeStepTable ==
  ASSUME TypeOKTable, [Next]_vars
  PROVE  TypeOKTable'
<1> USE TableAssumption DEF TypeOKTable, Rows
<1>1. CASE Insert \/ Update
  BY <1>1 DEF Insert, Update
<1>2. CASE Delete
  <2>1. table.live - 1 \in Nat /\ table.dead + 1 \in Nat
    BY <1>2 DEF Delete
  <2> QED
    BY <1>2, <2>1 DEF Delete
<1>3. ASSUME NEW left \in 0..MaxDead, Vacuum(left)
      PROVE  TypeOKTable'
  <2>1. left \in Nat /\ hour' \in Nat
    BY <1>3 DEF Vacuum
  <2>2. CASE table' = [table EXCEPT !.dead = left, !.lastVacuum = hour]
    BY <2>1, <2>2
  <2>3. CASE table' = [table EXCEPT !.dead = left, !.lastAutovacuum = hour]
    BY <2>1, <2>3
  <2> QED
    BY <1>3, <2>2, <2>3 DEF Vacuum
<1>4. CASE ResetTable
  BY <1>4 DEF ResetTable
<1>5. CASE Hour
  BY <1>5 DEF Hour
<1>6. CASE UNCHANGED tableVars
  BY <1>6 DEF tableVars
<1> QED
  BY <1>1, <1>2, <1>3, <1>4, <1>5, <1>6
     DEF Next, CheckTable, CheckScans, CheckConfig, NextTable, vars

LEMMA TypeStepScans ==
  ASSUME TypeOKScans, [Next]_vars
  PROVE  TypeOKScans'
<1> USE DEF TypeOKScans, ScanRows
<1>1. ASSUME NEW t \in Tables, NEW n \in 0..MaxRows, Resize(t, n) \/ SeqScan(t, n)
      PROVE  TypeOKScans'
  <2>1. n \in Nat
    BY <1>1, TableAssumption
  <2> QED
    BY <1>1, <2>1 DEF Resize, SeqScan
<1>2. ASSUME NEW t \in Tables, IndexScan(t)
      PROVE  TypeOKScans'
  <2>1. scans[t].idx \in Nat
    BY <1>2 DEF IndexScan
  <2> QED
    BY <1>2, <2>1 DEF IndexScan
<1>3. ASSUME NEW t \in Tables, CreateIndex(t) \/ DropIndex(t) \/ ResetScans(t)
      PROVE  TypeOKScans'
  BY <1>3 DEF CreateIndex, DropIndex, ResetScans
<1>4. CASE UNCHANGED scans
  BY <1>4
<1> QED
  BY <1>1, <1>2, <1>3, <1>4
     DEF Next, CheckTable, CheckScans, CheckConfig, NextScans, vars

(* Every reachable state of all sections is well-typed. *)
THEOREM TypeCorrect == Spec => []TypeOK
<1>1. Init => TypeOKTable
  BY DEF Init, InitTable, TypeOKTable, Rows
<1>2. TypeOKTable /\ [Next]_vars => TypeOKTable'
  BY TypeStepTable
<1>3. Init => TypeOKScans
  BY DEF Init, InitScans, TypeOKScans, ScanRows
<1>4. TypeOKScans /\ [Next]_vars => TypeOKScans'
  BY TypeStepScans
<1>5. TypeOKTable /\ TypeOKScans /\ IInvConfig => TypeOK
  BY DEF TypeOK, IInvConfig
<1> QED
  BY <1>1, <1>2, <1>3, <1>4, <1>5, ConfigInvariant, PTL DEF Spec

(* What the two rules for sequential scans say of one row. *)
LEMMA ScanRulesOfARow ==
  ASSUME NEW r \in ScanRows
  PROVE  /\ SequentialScans(r) # "none" /\ r.live > LargeRows /\ r.seq > MinScans
                => NeedsIndex(r)
         /\ NeedsIndex(r) /\ 4 * r.idx <= r.seq => SequentialScans(r) # "none"
<1> DEFINE whole == r.seq + r.idx
<1>1. /\ r.live \in Nat /\ r.seq \in Nat /\ r.idx \in Nat \cup {Null}
      /\ {LargeRows, HugeRows, MinScans} \subseteq Nat /\ MinScans >= 1
  BY ScansAssumption DEF ScanRows
<1>2. ASSUME r.idx \in Nat, r.seq >= 1
      PROVE  SeqPct(r) >= 8000 <=> 4001 * r.seq >= 15999 * r.idx
  <2>1. whole \in Nat \ {0} /\ r.idx # Null
    BY <1>1, <1>2, TableAssumption
  <2>2. SeqPct(r) = Percent(r.seq, whole)
    BY <1>1, <2>1 DEF SeqPct
  <2>3. Percent(r.seq, whole) >= 8000 <=> AtLeast(r.seq, whole, 8000)
    <3> HIDE DEF whole
    <3> QED
      BY <1>1, <2>1, PercentBound
  <2> QED
    BY <1>1, <1>2, <2>2, <2>3 DEF AtLeast
<1>3. SeqPct(r) \in Int
  <2>1. CASE r.idx # Null /\ r.seq + r.idx > 0
    <3>1. whole \in Nat \ {0} /\ SeqPct(r) = Percent(r.seq, whole)
      BY <1>1, <2>1 DEF SeqPct
    <3> HIDE DEF whole
    <3> QED
      BY <1>1, <3>1, PercentBound
  <2>2. CASE ~ (r.idx # Null /\ r.seq + r.idx > 0)
    BY <2>2 DEF SeqPct
  <2> QED
    BY <2>1, <2>2
<1>4. ASSUME SequentialScans(r) # "none", r.live > LargeRows, r.seq > MinScans
      PROVE  NeedsIndex(r)
  <2>1. ~ (SeqPct(r) < 8000) /\ r.seq >= 1
    BY <1>1, <1>4 DEF SequentialScans
  <2>2. r.idx # Null
    BY <2>1 DEF SeqPct
  <2> QED
    BY <1>1, <1>2, <1>3, <1>4, <2>1, <2>2 DEF NeedsIndex
<1>5. ASSUME NeedsIndex(r), 4 * r.idx <= r.seq
      PROVE  SequentialScans(r) # "none"
  <2>1. r.idx \in Nat /\ r.seq >= 1
    BY <1>1, <1>5 DEF NeedsIndex
  <2>2. SeqPct(r) >= 8000
    BY <1>1, <1>2, <1>5, <2>1
  <2> QED
    BY <1>1, <1>3, <1>5, <2>2 DEF SequentialScans, NeedsIndex
<1> QED
  BY <1>4, <1>5

(* On the same statistics the two sections that judge sequential scans     *)
(* agree, for any tables, thresholds and limit of the list: what one       *)
(* reports the other lists unless the list is full of tables read as much. *)
(* analyze_sequential_scans, TABLES_NEEDING_INDEXES_QUERY.                 *)
THEOREM ScanRulesAgreeHolds == Spec => []ScanRulesAgree
<1>1. TypeOK => ScanRulesAgree
  <2> SUFFICES ASSUME TypeOK, NEW listed \in Listings, NEW t \in Tables
               PROVE  /\ IsReported(t) /\ scans[t].live > LargeRows
                            /\ scans[t].seq > MinScans
                               => t \in listed \/ CrowdedOut(t, listed)
                      /\ t \in listed /\ 4 * scans[t].idx <= scans[t].seq
                               => IsReported(t)
    BY DEF ScanRulesAgree
  <2>1. scans[t] \in ScanRows
    BY DEF TypeOK, TypeOKScans
  <2>2. ASSUME IsReported(t), scans[t].live > LargeRows, scans[t].seq > MinScans,
               t \notin listed
        PROVE  CrowdedOut(t, listed)
    <3>1. t \in Needing
      BY <2>1, <2>2, ScanRulesOfARow DEF IsReported, Needing
    <3>2. ~ (Cardinality(Needing) <= Limit)
      BY <2>2, <3>1 DEF Listings
    <3> QED
      BY <2>2, <3>1, <3>2 DEF Listings, CrowdedOut
  <2>3. ASSUME t \in listed, 4 * scans[t].idx <= scans[t].seq
        PROVE  IsReported(t)
    <3>1. NeedsIndex(scans[t])
      BY <2>3 DEF Listings, Needing
    <3> QED
      BY <2>1, <2>3, <3>1, ScanRulesOfARow DEF IsReported
  <2> QED
    BY <2>2, <2>3
<1> QED
  BY <1>1, TypeCorrect, PTL

(* Each threshold of the share of dead tuples is passed for good when more *)
(* of them are among fewer live ones.                                      *)
LEMMA DeadShareGrows ==
  ASSUME NEW t \in Rows, NEW u \in Rows, u.dead >= t.dead, u.live <= t.live,
         NEW c \in {1001, 2001, 3001}, DeadPct(t) >= c
  PROVE  DeadPct(u) >= c
<1>1. /\ t.dead \in Nat /\ t.live \in Nat /\ u.dead \in Nat /\ u.live \in Nat
      /\ c \in Nat
  BY DEF Rows
<1>2. t.live + t.dead \in Nat \ {0} /\ DeadPct(t) = Percent(t.dead, t.live + t.dead)
  BY <1>1 DEF DeadPct
<1>3. AtLeast(t.dead, t.live + t.dead, c)
  BY <1>1, <1>2, PercentBound
<1>4. t.dead > 0
  BY <1>1, <1>2, <1>3 DEF AtLeast
<1>5. u.live + u.dead \in Nat \ {0} /\ DeadPct(u) = Percent(u.dead, u.live + u.dead)
  BY <1>1, <1>4 DEF DeadPct
<1>6. AtLeast(u.dead, u.live + u.dead, c)
  BY <1>1, <1>3 DEF AtLeast
<1> QED
  BY <1>1, <1>5, <1>6, PercentBound

LEMMA DeadPctType ==
  ASSUME NEW t \in Rows
  PROVE  DeadPct(t) \in Nat
<1>1. t.dead \in Nat /\ t.live \in Nat
  BY DEF Rows
<1>2. CASE t.live + t.dead > 0
  BY <1>1, <1>2, PercentBound, t.live + t.dead \in Nat \ {0} DEF DeadPct
<1>3. CASE ~ (t.live + t.dead > 0)
  BY <1>3 DEF DeadPct
<1> QED
  BY <1>2, <1>3

LEMMA DeadTuplesGrow ==
  ASSUME NEW t \in Rows, NEW u \in Rows, u.dead >= t.dead, u.live <= t.live
  PROVE  RankOf(DeadTuples(u)) >= RankOf(DeadTuples(t))
<1>1. /\ DeadPct(t) \in Nat /\ DeadPct(u) \in Nat
      /\ t.dead \in Nat /\ u.dead \in Nat /\ MinDead \in Nat
  BY DeadPctType, TableAssumption DEF Rows
<1>2. /\ DeadPct(t) > 1000 => DeadPct(u) > 1000
      /\ DeadPct(t) > 2000 => DeadPct(u) > 2000
      /\ DeadPct(t) > 3000 => DeadPct(u) > 3000
  BY <1>1, DeadShareGrows
<1>3. t.dead >= MinDead => u.dead >= MinDead
  BY <1>1
<1> QED
  BY <1>1, <1>2, <1>3 DEF DeadTuples, DeadSeverity, RankOf

(* As long as nothing is vacuumed or reset, a table that gets worse is not *)
(* reported as milder, for any thresholds and any rounding of its share.   *)
(* analyze_dead_tuples, analyze_vacuum_staleness.                          *)
THEOREM WorseIsNotMilderHolds == Spec => WorseIsNotMilder
<1>1. TypeOKTable /\ TypeOKTable' /\ [Next]_vars =>
        [/\ table'.dead >= table.dead /\ table'.live <= table.live
         /\ LastVacuum(table') = LastVacuum(table)
         => /\ RankOf(DeadTuples(table')) >= RankOf(DeadTuples(table))
            /\ RankOf(VacuumStaleness(table', hour'))
                  >= RankOf(VacuumStaleness(table, hour))]_tableVars
  <2> SUFFICES ASSUME TypeOKTable, TypeOKTable', [Next]_vars,
                      table'.dead >= table.dead, table'.live <= table.live,
                      LastVacuum(table') = LastVacuum(table)
               PROVE  /\ RankOf(DeadTuples(table')) >= RankOf(DeadTuples(table))
                      /\ RankOf(VacuumStaleness(table', hour'))
                            >= RankOf(VacuumStaleness(table, hour))
    OBVIOUS
  <2>1. /\ table \in Rows /\ table' \in Rows /\ hour \in Nat /\ hour' \in Nat
        /\ table.dead \in Nat /\ table'.dead \in Nat
        /\ {MinDead, StaleDead, StaleHours} \subseteq Nat
    BY TableAssumption DEF TypeOKTable, Rows
  <2>2. hour' >= hour
    <3>1. Hour \/ UNCHANGED hour
      BY Zenon
         DEF Next, CheckTable, CheckScans, CheckConfig, NextTable, vars, tableVars,
             Insert, Update, Delete, Vacuum, ResetTable
    <3> QED
      BY <2>1, <3>1 DEF Hour
  <2>3. LastVacuum(table) \in Nat \cup {Null}
    BY <2>1 DEF Rows, LastVacuum
  <2>4. VacuumStaleness(table, hour) = "medium" =>
           VacuumStaleness(table', hour') = "medium"
    BY <2>1, <2>2, <2>3 DEF VacuumStaleness
  <2>5. RankOf(VacuumStaleness(table', hour')) >= RankOf(VacuumStaleness(table, hour))
    BY <2>4 DEF VacuumStaleness, RankOf
  <2> QED
    BY <2>1, <2>5, DeadTuplesGrow
<1>2. TypeOK => TypeOKTable
  BY DEF TypeOK
<1> QED
  BY <1>1, <1>2, TypeCorrect, PTL DEF Spec, WorseIsNotMilder
=============================================================================
