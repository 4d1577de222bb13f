---------------------------- MODULE TableHealth ----------------------------
(***************************************************************************)
(* What an audit says of one table's dead tuples and vacuums:              *)
(* TABLE_STATS_QUERY (src/pgtriage/collectors/table_health.py) with the    *)
(* rules of src/pgtriage/analyzers/patterns.py.  They judge one row of one *)
(* statement, so they are operators over that row; the statistics, which   *)
(* PostgreSQL keeps, are the state, and any state may be the one an audit  *)
(* reads.  Its rules for scans are in TableScans.                          *)
(***************************************************************************)
EXTENDS Integers

CONSTANTS
    MinDead,      \* 1,000: dead tuples worth a finding
    StaleDead,    \* 10,000: dead tuples of a late vacuum
    StaleHours,   \* VACUUM_STALE_HOURS
    Null,         \* SQL NULL
    MaxRows,      \* bound: live tuples
    MaxDead,      \* bound: dead tuples
    MaxHour       \* bound: the clock

ASSUME TableAssumption ==
    /\ {MinDead, StaleDead, StaleHours} \subseteq Nat
    /\ {MaxRows, MaxDead, MaxHour} \subseteq Nat
    /\ MinDead <= StaleDead
    /\ Null \notin Int

VARIABLES
    table,   \* the row of pg_stat_user_tables
    hour     \* the clock

tableVars == <<table, hour>>

Rows == [live : Nat, dead : Nat,
         lastVacuum : Nat \cup {Null}, lastAutovacuum : Nat \cup {Null}]

TypeOKTable == table \in Rows /\ hour \in Nat

-----------------------------------------------------------------------------
(* round(part::numeric / whole * 100, 2), in hundredths of a percent. *)
Percent(part, whole) == (2 * part * 10000 + whole) \div (2 * whole)

DeadPct(t) ==
    IF t.live + t.dead > 0 THEN Percent(t.dead, t.live + t.dead) ELSE 0

(* Mutant of DeadSeverity: above the highest bound nothing is said. *)
DeadSeveritySwapped(pct) ==
    CASE pct > 3000 -> "medium"
      [] pct > 2000 /\ pct <= 3000 -> "high"
      [] OTHER -> "medium"

DeadSeverity(pct) ==
    CASE pct > 3000 -> "critical"
      [] pct > 2000 /\ pct <= 3000 -> "high"
      [] OTHER -> "medium"

(* analyze_dead_tuples: the severity of its finding on the table. *)
DeadTuples(t) ==
    IF DeadPct(t) <= 1000 \/ t.dead < MinDead
    THEN "none" ELSE DeadSeverity(DeadPct(t))

(* analyze_vacuum_staleness: last_autovacuum, if any, is taken for the     *)
(* last vacuum.                                                            *)
LastVacuum(t) == IF t.lastAutovacuum # Null THEN t.lastAutovacuum ELSE t.lastVacuum

VacuumStaleness(t, now) ==
    IF /\ t.dead >= MinDead
       /\ \/ LastVacuum(t) = Null
          \/ now - LastVacuum(t) > StaleHours /\ t.dead > StaleDead
    THEN "medium" ELSE "none"

-----------------------------------------------------------------------------
(* The table's users and PostgreSQL.                                       *)
Insert ==
    /\ table.live < MaxRows
    /\ table' = [table EXCEPT !.live = @ + 1]
    /\ UNCHANGED hour

Update ==
    /\ table.live > 0 /\ table.dead < MaxDead
    /\ table' = [table EXCEPT !.dead = @ + 1]
    /\ UNCHANGED hour

Delete ==
    /\ table.live > 0 /\ table.dead < MaxDead
    /\ table' = [table EXCEPT !.live = @ - 1, !.dead = @ + 1]
    /\ UNCHANGED hour

(* A vacuum leaves what an old snapshot still sees. *)
Vacuum(left) ==
    /\ left <= table.dead
    /\ \/ table' = [table EXCEPT !.dead = left, !.lastVacuum = hour]
       \/ table' = [table EXCEPT !.dead = left, !.lastAutovacuum = hour]
    /\ UNCHANGED hour

(* pg_stat_reset: the estimates of tuples go with the counters. *)
ResetTable ==
    /\ table' = [live |-> 0, dead |-> 0,
                 lastVacuum |-> Null, lastAutovacuum |-> Null]
    /\ UNCHANGED hour

Hour ==
    /\ hour < MaxHour
    /\ hour' = hour + 1
    /\ UNCHANGED table

InitTable ==
    /\ table = [live |-> 0, dead |-> 0,
                lastVacuum |-> Null, lastAutovacuum |-> Null]
    /\ hour = 0

NextTable ==
    \/ Insert \/ Update \/ Delete
    \/ \E left \in 0..MaxDead : Vacuum(left)
    \/ ResetTable \/ Hour

-----------------------------------------------------------------------------
(* Correctness.                                                            *)
RankOf(severity) ==
    CASE severity = "none" -> 0 [] severity = "medium" -> 1
      [] severity = "high" -> 2 [] OTHER -> 3

(* As long as nothing is vacuumed or reset a table that gets worse is not  *)
(* reported as milder: more dead tuples among as many live ones, or fewer, *)
(* are never less severe, through the rounded share, its three thresholds  *)
(* and the least count, and a late vacuum stays late.                      *)
(* analyze_dead_tuples, analyze_vacuum_staleness.                          *)
WorseIsNotMilder ==
    [][/\ table'.dead >= table.dead /\ table'.live <= table.live
       /\ LastVacuum(table') = LastVacuum(table)
       => /\ RankOf(DeadTuples(table')) >= RankOf(DeadTuples(table))
          /\ RankOf(VacuumStaleness(table', hour'))
                >= RankOf(VacuumStaleness(table, hour))]_tableVars
=============================================================================
