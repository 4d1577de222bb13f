----------------------------- MODULE IndexHealth -----------------------------
(***************************************************************************)
(* The check_index_health tool (src/pgtriage/server.py) over one class of  *)
(* structurally equivalent indexes of a table: collect_unused_indexes and  *)
(* collect_duplicate_indexes (collectors/index_health.py), a snapshot      *)
(* each, and analyze_duplicate_indexes (analyzers/index_health.py).  The   *)
(* workload, statistics resets and index builds go on between the          *)
(* snapshots and the result, and a client acts on the last result it got.  *)
(* (TABLES_NEEDING_INDEXES_QUERY is in TableHealth.)                       *)
(***************************************************************************)
EXTENDS Integers, FiniteSets

CONSTANTS
    Indexes,    \* the indexes of the class
    Unique,     \* those that are primary or unique
    Reserved,   \* exclusion, constraint, replica identity, clustered, partitioned
    MatureAge,  \* MIN_INDEX_STATS_AGE_DAYS
    MaxAge,     \* bound: days since the statistics reset
    MaxScans,   \* bound: scans counted since the reset
    Null        \* SQL NULL, Python None

ASSUME IndexAssumption ==
    /\ Unique \subseteq Indexes
    /\ Reserved \subseteq Indexes
    /\ MatureAge \in Nat
    /\ MaxAge \in Nat /\ MaxScans \in Nat
    /\ Null \notin Int /\ Null \notin Indexes

VARIABLES
    catalog,   \* the indexes that exist, and whether each is valid
    scans,     \* idx_scan of each index, since the reset
    age,       \* days since stats_reset, NULL if there is none
    audit,     \* the call of check_index_health in progress
    report,    \* the duplicates of the last result returned
    advice     \* the unused indexes of that result

vars == <<catalog, scans, age, audit, report, advice>>
result == <<report, advice>>
database == <<catalog, scans, age>>

States == {"absent", "valid", "invalid"}

(* What DUPLICATE_INDEXES_QUERY returns of the class. *)
Groups == [catalog : [Indexes -> States], scans : [Indexes -> Nat],
           age : Nat \cup {Null}]

NoGroup == [catalog |-> [i \in Indexes |-> "absent"],
            scans |-> [i \in Indexes |-> 0], age |-> Null]

(* The unused indexes of a report; Null stands for any list that was       *)
(* overtaken: the class moved between the two snapshots.                   *)
Lists == {Null} \cup SUBSET Indexes

Audits == [pc : {"idle", "listed", "collected"}, group : Groups, unused : Lists]

NoAudit == [pc |-> "idle", group |-> NoGroup, unused |-> {}]

Existing(c) == {i \in Indexes : c[i] # "absent"}

TypeOK ==
    /\ catalog \in [Indexes -> States]
    /\ scans \in [Indexes -> Nat]
    /\ age \in Nat \cup {Null}
    /\ audit \in Audits
    /\ report \in Groups
    /\ advice \in Lists

-----------------------------------------------------------------------------
(* analyze_duplicate_indexes.                                              *)

(* _protected_reasons is not empty. *)
Protected(g) ==
    Unique \cup Reserved \cup {i \in Indexes : g.catalog[i] = "invalid"}

Mature(g) == g.age # Null /\ g.age >= MatureAge

(* Those with the highest recorded scan count. *)
Leaders(g) ==
    {i \in Existing(g.catalog) :
        \A j \in Existing(g.catalog) : g.scans[j] <= g.scans[i]}

(* No review_reason: mature statistics, and one leader that was scanned. *)
Decided(g) ==
    /\ Cardinality(Existing(g.catalog)) >= 2
    /\ Mature(g)
    /\ \E i \in Leaders(g) : Leaders(g) = {i} /\ g.scans[i] > 0

(* Mutant of DropCandidates: the keeper is the first leader, though tied. *)
AllButOneLeader(g) ==
    IF Cardinality(Existing(g.catalog)) >= 2 /\ Mature(g)
    THEN (Existing(g.catalog) \ {CHOOSE i \in Leaders(g) : TRUE}) \ Protected(g)
    ELSE {}

(* drop_candidates: all but the keeper and the protected. *)
DropCandidates(g) ==
    IF Decided(g)
    THEN (Existing(g.catalog) \ Leaders(g)) \ Protected(g)
    ELSE {}

-----------------------------------------------------------------------------
(* check_index_health and its collectors.                                  *)

(* UNUSED_INDEXES_QUERY: never scanned, and not unique.  Ten are detailed, *)
(* the others named in one more finding.                                   *)
Unused == {i \in Existing(catalog) : scans[i] = 0} \ Unique

ListUnused ==
    /\ audit.pc = "idle"
    /\ audit' = [NoAudit EXCEPT !.pc = "listed", !.unused = Unused]
    /\ UNCHANGED <<database, result>>

(* Mutant of CollectDuplicates: no COALESCE on the outer-joined count. *)
CollectWithNulls ==
    /\ audit.pc = "listed"
    /\ audit' = [audit EXCEPT !.pc = "collected",
                    !.group = [catalog |-> catalog, age |-> age,
                               scans |-> [i \in Indexes |->
                                   IF catalog[i] = "absent" THEN Null ELSE scans[i]]]]
    /\ UNCHANGED <<database, result>>

(* DUPLICATE_INDEXES_QUERY: scan counts and reset time in one snapshot. *)
CollectDuplicates ==
    /\ audit.pc = "listed"
    /\ audit' = [audit EXCEPT !.pc = "collected",
                    !.group = [catalog |-> catalog, scans |-> scans, age |-> age]]
    /\ UNCHANGED <<database, result>>

(* The tables are queried, the findings are made and returned. *)
Return ==
    /\ audit.pc = "collected"
    /\ report' = audit.group
    /\ advice' = audit.unused
    /\ audit' = NoAudit
    /\ UNCHANGED database

(* A statement fails: the client keeps the report it had. *)
AuditFails ==
    /\ audit.pc # "idle"
    /\ audit' = NoAudit
    /\ UNCHANGED <<database, result>>

-----------------------------------------------------------------------------
(* PostgreSQL and its users.                                               *)

(* An index or its count moves: it may be between a call's snapshots. *)
Disturb ==
    audit' = [audit EXCEPT !.unused = IF audit.pc = "listed" THEN Null ELSE @]

Scan(i) ==
    /\ catalog[i] = "valid" /\ scans[i] < MaxScans
    /\ scans' = [scans EXCEPT ![i] = @ + 1]
    /\ Disturb
    /\ UNCHANGED <<catalog, age, result>>

NewDay ==
    /\ age # Null /\ age < MaxAge
    /\ age' = age + 1
    /\ UNCHANGED <<catalog, scans, audit, result>>

ResetStatistics ==
    /\ scans' = [i \in Indexes |-> 0]
    /\ age' = 0
    /\ Disturb
    /\ UNCHANGED <<catalog, result>>

(* DROP or REINDEX INDEX CONCURRENTLY is interrupted. *)
Invalidate(i) ==
    /\ catalog[i] = "valid"
    /\ catalog' = [catalog EXCEPT ![i] = "invalid"]
    /\ Disturb
    /\ UNCHANGED <<scans, age, result>>

(* CREATE INDEX, under a new name or one that was dropped. *)
Create(i) ==
    /\ catalog[i] = "absent"
    /\ catalog' = [catalog EXCEPT ![i] = "valid"]
    /\ Disturb
    /\ UNCHANGED <<scans, age, result>>

(* A client drops a candidate of the last report; assumed not to do so     *)
(* while it waits for the next one.                                        *)
Drop(i) ==
    /\ audit.pc = "idle"
    /\ i \in DropCandidates(report)
    /\ catalog[i] # "absent"
    /\ catalog' = [catalog EXCEPT ![i] = "absent"]
    /\ scans' = [scans EXCEPT ![i] = 0]
    /\ UNCHANGED <<age, audit, result>>

-----------------------------------------------------------------------------
Init ==
    /\ catalog = [i \in Indexes |-> "absent"]
    /\ scans = [i \in Indexes |-> 0]
    /\ age \in {0, Null}
    /\ audit = NoAudit
    /\ report = NoGroup
    /\ advice = {}

CheckIndexHealth == ListUnused \/ CollectDuplicates \/ Return \/ AuditFails

Workload ==
    \/ \E i \in Indexes : Scan(i) \/ Create(i) \/ Invalidate(i) \/ Drop(i)
    \/ NewDay \/ ResetStatistics

Next == CheckIndexHealth \/ Workload

Spec == Init /\ [][Next]_vars

-----------------------------------------------------------------------------
(* Correctness.                                                            *)

(* Following the drop candidates of report after report, in any order and  *)
(* while usage shifts, statistics are reset and builds fail, a table never *)
(* loses the last index of a class, nor one that enforces a constraint or  *)
(* has an operational role: what is dropped is always outlived by an index *)
(* that was, when the report was made, used strictly more over a mature    *)
(* statistics window.  analyze_duplicate_indexes.                          *)
DropsAreCovered ==
    [][\A i \in Indexes : catalog[i] # "absent" /\ catalog'[i] = "absent" =>
          /\ i \notin Unique \cup Reserved
          /\ report.age # Null /\ report.age >= MatureAge
          /\ \E j \in Indexes \ {i} :
                /\ catalog'[j] # "absent"
                /\ report.scans[i] < report.scans[j]]_vars

(* The two lists of a report agree, unless the class moved between their   *)
(* snapshots: a client who follows both, as soon as one duplicate is to be *)
(* dropped, is left with an index of the class that is in use; and neither *)
(* list names one that enforces uniqueness.                                *)
(* check_index_health, analyze_duplicate_indexes.                          *)
ListsAgree ==
    advice # Null =>
        LET listed == advice \cup DropCandidates(report)
        IN  /\ DropCandidates(report) # {} =>
                  \E i \in Existing(report.catalog) \ listed : report.scans[i] > 0
            /\ Unique \cap listed = {}

(* What covers a drop: the keeper of a result, returned or in preparation, *)
(* is still there.                                                         *)
KeeperStays ==
    /\ Leaders(report) \subseteq Existing(catalog)
    /\ audit.pc = "collected" => Leaders(audit.group) \subseteq Existing(catalog)

(* What makes the lists agree: the unused indexes listed are those of the  *)
(* snapshot of the duplicates, or the list was overtaken.                  *)
NeverScanned(g) == {i \in Existing(g.catalog) : g.scans[i] = 0} \ Unique

ListsMatch ==
    /\ audit.pc = "listed" => audit.unused \in {Null, Unused}
    /\ audit.pc = "collected" => audit.unused \in {Null, NeverScanned(audit.group)}
    /\ advice \in {Null, NeverScanned(report)}

IInv == TypeOK /\ KeeperStays /\ ListsMatch
=============================================================================
