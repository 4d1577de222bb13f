----------------------------- MODULE TableScans -----------------------------
(***************************************************************************)
(* What an audit says of how tables are scanned, in two sections:          *)
(* check_table_health by TABLE_STATS_QUERY (collectors/table_health.py)    *)
(* and analyze_sequential_scans (analyzers/patterns.py), row by row;       *)
(* check_index_health by TABLES_NEEDING_INDEXES_QUERY                      *)
(* (collectors/index_health.py), which sorts the tables and lists the      *)
(* first of them only.  Both are operators over the rows of all tables.    *)
(***************************************************************************)
EXTENDS TableHealth, FiniteSets

CONSTANTS
    Tables,       \* tables of the schema asked for
    LargeRows,    \* LARGE_TABLE_ROWS, 100,000
    HugeRows,     \* 1,000,000: rows of a HIGH finding
    MinScans,     \* 100: sequential scans worth a finding
    Limit,        \* 20: tables the index section lists
    MaxScans,     \* bound: scans of a kind
    MaxRead       \* bound: rows read by sequential scans

ASSUME ScansAssumption ==
    /\ {LargeRows, HugeRows, MinScans, Limit} \subseteq Nat
    /\ {MaxScans, MaxRead} \subseteq Nat
    /\ LargeRows <= HugeRows
    /\ MinScans >= 1

VARIABLE scans   \* pg_stat_user_tables: the row of each table

(* idx_scan is a sum over the table's indexes: NULL if it has none.        *)
(* read is seq_tup_read.                                                   *)
ScanRows == [live : Nat, seq : Nat, idx : Nat \cup {Null}, read : Nat]

TypeOKScans == scans \in [Tables -> ScanRows]

-----------------------------------------------------------------------------
(* The sum with a NULL is not greater than 0. *)
SeqPct(r) ==
    IF r.idx # Null /\ r.seq + r.idx > 0 THEN Percent(r.seq, r.seq + r.idx) ELSE 0

(* Mutant of SequentialScans: the share of sequential scans is not asked.  *)
ManySequentialScans(r) ==
    IF r.live < LargeRows \/ r.seq < MinScans
    THEN "none" ELSE IF r.live > HugeRows THEN "high" ELSE "medium"

(* analyze_sequential_scans: the severity of its finding on a table. *)
SequentialScans(r) ==
    IF r.live < LargeRows \/ SeqPct(r) < 8000 \/ r.seq < MinScans
    THEN "none" ELSE IF r.live > HugeRows THEN "high" ELSE "medium"

(* The WHERE clause: a comparison with NULL is not true. *)
NeedsIndex(r) ==
    /\ r.live > LargeRows
    /\ r.idx # Null /\ r.seq > r.idx
    /\ r.seq > MinScans

Needing == {t \in Tables : NeedsIndex(scans[t])}

(* ORDER BY seq_tup_read DESC LIMIT: the sets of tables the query may      *)
(* list, more than one if there is a tie at the limit.                     *)
Listings ==
    {listed \in SUBSET Needing :
        IF Cardinality(Needing) <= Limit
        THEN listed = Needing
        ELSE /\ Cardinality(listed) = Limit
             /\ \A t \in listed, u \in Needing \ listed :
                   scans[t].read >= scans[u].read}

-----------------------------------------------------------------------------
(* The users of the tables.                                                *)
Resize(t, n) == scans' = [scans EXCEPT ![t].live = n]

(* A scan may stop before it has read all rows. *)
SeqScan(t, n) ==
    /\ n <= scans[t].live
    /\ scans[t].seq < MaxScans /\ scans[t].read + n <= MaxRead
    /\ scans' = [scans EXCEPT ![t].seq = @ + 1, ![t].read = @ + n]

IndexScan(t) ==
    /\ scans[t].idx # Null /\ scans[t].idx < MaxScans
    /\ scans' = [scans EXCEPT ![t].idx = @ + 1]

CreateIndex(t) ==
    /\ scans[t].idx = Null
    /\ scans' = [scans EXCEPT ![t].idx = 0]

DropIndex(t) ==
    /\ scans[t].idx # Null
    /\ scans' = [scans EXCEPT ![t].idx = Null]

ResetScans(t) ==
    scans' = [scans EXCEPT ![t].live = 0, ![t].seq = 0, ![t].read = 0,
                           ![t].idx = IF @ = Null THEN Null ELSE 0]

InitScans ==
    scans = [t \in Tables |-> [live |-> 0, seq |-> 0, idx |-> Null, read |-> 0]]

NextScans ==
    \E t \in Tables :
        \/ \E n \in 0..MaxRows : Resize(t, n) \/ SeqScan(t, n)
        \/ IndexScan(t) \/ CreateIndex(t) \/ DropIndex(t) \/ ResetScans(t)

-----------------------------------------------------------------------------
(* Correctness.                                                            *)
IsReported(t) == SequentialScans(scans[t]) # "none"

(* The list is full, of tables that have been read at least as much. *)
CrowdedOut(t, listed) ==
    /\ Cardinality(listed) = Limit
    /\ \A u \in listed : scans[u].read >= scans[t].read

(* The two sections that judge sequential scans, each by a formula of its  *)
(* own, do not contradict each other on the same rows.  Above both         *)
(* thresholds, a table check_table_health reports is listed by             *)
(* check_index_health too, unless the list is full of tables read at least *)
(* as much; and a table only the index section lists has index scans to    *)
(* show (more than one in five).                                           *)
(* analyze_sequential_scans, TABLES_NEEDING_INDEXES_QUERY.                 *)
ScanRulesAgree ==
    \A listed \in Listings, t \in Tables :
        /\ IsReported(t) /\ scans[t].live > LargeRows /\ scans[t].seq > MinScans
               => t \in listed \/ CrowdedOut(t, listed)
        /\ t \in listed /\ 4 * scans[t].idx <= scans[t].seq => IsReported(t)

(* An audit finds the "sequential scans on large tables" (README.md, "What *)
(* it finds"): a large table that is scanned often, and hardly or never    *)
(* through an index, is reported by one section or the other.              *)
(* analyze_sequential_scans, TABLES_NEEDING_INDEXES_QUERY.                 *)
ScannedTablesAreReported ==
    \A listed \in Listings, t \in Tables :
        /\ scans[t].live > LargeRows
        /\ scans[t].seq > MinScans
        /\ scans[t].idx = Null \/ 4 * scans[t].idx <= scans[t].seq
        => IsReported(t) \/ t \in listed
=============================================================================
