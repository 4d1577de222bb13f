------------------------- MODULE IndexHealthProofs -------------------------
(***************************************************************************)
(* What TLAPS proves of IndexHealth, for any class of indexes, any length  *)
(* of the maturity window and any bounds.                                  *)
(***************************************************************************)
EXTENDS IndexHealth, TLAPS

(* Only a drop removes an index. *)
Removes(i) == catalog[i] # "absent" /\ catalog'[i] = "absent"

LEMMA NoGroupType == NoGroup \in Groups
  BY DEF NoGroup, Groups, States

LEMMA NoGroupHasNoLeader == Leaders(NoGroup) = {}
  BY DEF NoGroup, Leaders, Existing

(* A candidate is no leader, and not protected. *)
LEMMA CandidateIsEligible ==
  ASSUME NEW g, NEW i \in DropCandidates(g)
  PROVE  /\ i \in Indexes /\ i \notin Leaders(g)
         /\ i \notin Unique \cup Reserved
         /\ Mature(g)
         /\ g.catalog[i] # "absent"
  BY DEF DropCandidates, Decided, Protected, Existing

(* The keeper of a decided class is used strictly more than a candidate.   *)
LEMMA KeeperIsHotter ==
  ASSUME NEW g \in Groups, NEW i \in DropCandidates(g)
  PROVE  \E k \in Leaders(g) : k \in Indexes \ {i} /\ g.scans[i] < g.scans[k]
<1>1. Decided(g)
  BY DEF DropCandidates
<1>2. PICK k \in Leaders(g) : Leaders(g) = {k}
  BY <1>1 DEF Decided
<1>3. i \in Existing(g.catalog) /\ i \notin Leaders(g)
  BY CandidateIsEligible DEF Existing
<1>4. k \in Existing(g.catalog) /\ \A j \in Existing(g.catalog) : g.scans[j] <= g.scans[k]
  BY <1>2 DEF Leaders
<1>5. PICK j \in Existing(g.catalog) : ~ (g.scans[j] <= g.scans[i])
  BY <1>3 DEF Leaders, Existing
<1>6. \A m \in Existing(g.catalog) : m \in Indexes /\ g.scans[m] \in Nat
  BY DEF Groups, Existing
<1>7. g.scans[i] < g.scans[k]
  BY <1>3, <1>4, <1>5, <1>6
<1> QED
  BY <1>2, <1>3, <1>4, <1>6, <1>7

LEMMA InitInvariant == Init => IInv
  BY NoGroupType, NoGroupHasNoLeader
     DEF Init, IInv, TypeOK, KeeperStays, ListsMatch, NeverScanned, NoGroup,
         NoAudit, Audits, Lists, States, Existing

LEMMA TypeStep ==
  ASSUME TypeOK, [Next]_vars
  PROVE  TypeOK'
<1> USE IndexAssumption DEF TypeOK
<1>1. CASE ListUnused
  BY <1>1, NoGroupType
     DEF ListUnused, database, result, Audits, NoAudit, Lists, Unused, Existing
<1>2. CASE CollectDuplicates
  BY <1>2 DEF CollectDuplicates, database, result, Audits, Groups
<1>3. CASE Return
  BY <1>3, NoGroupType DEF Return, database, Audits, NoAudit, Lists
<1>4. CASE AuditFails
  BY <1>4, NoGroupType DEF AuditFails, database, result, Audits, NoAudit, Lists
<1>5. ASSUME Disturb
      PROVE  audit' \in Audits
  BY <1>5 DEF Disturb, Audits, Lists
<1>6. ASSUME NEW i \in Indexes, Scan(i) \/ Create(i) \/ Invalidate(i) \/ Drop(i)
      PROVE  TypeOK'
  BY <1>5, <1>6 DEF Scan, Create, Invalidate, Drop, States, result
<1>7. CASE NewDay
  BY <1>7 DEF NewDay, result
<1>8. CASE ResetStatistics
  BY <1>5, <1>8 DEF ResetStatistics, result
<1>9. CASE UNCHANGED vars
  BY <1>9 DEF vars
<1> QED
  BY <1>1, <1>2, <1>3, <1>4, <1>6, <1>7, <1>8, <1>9
     DEF Next, CheckIndexHealth, Workload

(* The keeper of a result outlives every step that leaves the result be.   *)
LEMMA KeeperStaysStep ==
  ASSUME IInv, [Next]_vars
  PROVE  KeeperStays'
<1> USE DEF IInv, KeeperStays, result
<1>1. CASE ListUnused
  BY <1>1 DEF ListUnused, database, NoAudit
<1>2. CASE CollectDuplicates
  BY <1>2 DEF CollectDuplicates, database, Leaders, Existing, TypeOK, Audits
<1>3. CASE Return
  BY <1>3 DEF Return, database, NoAudit
<1>4. CASE AuditFails
  BY <1>4 DEF AuditFails, database, NoAudit
<1>5. ASSUME Disturb
      PROVE  audit'.pc = audit.pc /\ audit'.group = audit.group
  BY <1>5 DEF Disturb, TypeOK, Audits
<1>6. ASSUME NEW i \in Indexes, Scan(i)
      PROVE  KeeperStays'
  BY <1>5, <1>6 DEF Scan
<1>7. ASSUME NEW i \in Indexes, Create(i) \/ Invalidate(i)
      PROVE  KeeperStays'
  <2>1. Existing(catalog) \subseteq Existing(catalog')
    BY <1>7 DEF Create, Invalidate, Existing, TypeOK
  <2> QED
    BY <1>5, <1>7, <2>1 DEF Create, Invalidate
<1>8. ASSUME NEW i \in Indexes, Drop(i)
      PROVE  KeeperStays'
  <2>1. i \notin Leaders(report) /\ audit.pc = "idle"
    BY <1>8, CandidateIsEligible DEF Drop
  <2>2. Existing(catalog) \ {i} \subseteq Existing(catalog')
    BY <1>8 DEF Drop, Existing, TypeOK
  <2> QED
    BY <1>8, <2>1, <2>2 DEF Drop
<1>9. CASE NewDay
  BY <1>9 DEF NewDay
<1>10. CASE ResetStatistics
  BY <1>5, <1>10 DEF ResetStatistics
<1>11. CASE UNCHANGED vars
  BY <1>11 DEF vars
<1> QED
  BY <1>1, <1>2, <1>3, <1>4, <1>6, <1>7, <1>8, <1>9, <1>10, <1>11
     DEF Next, CheckIndexHealth, Workload

(* A list that was not overtaken stays that of its snapshot.               *)
LEMMA ListsMatchStep ==
  ASSUME IInv, [Next]_vars
  PROVE  ListsMatch'
<1> USE DEF IInv, ListsMatch, result
<1>1. CASE ListUnused
  BY <1>1 DEF ListUnused, database, NoAudit, Unused, Existing
<1>2. CASE CollectDuplicates
  BY <1>2 DEF CollectDuplicates, database, NeverScanned, Unused, TypeOK, Audits
<1>3. CASE Return
  BY <1>3 DEF Return, NoAudit
<1>4. CASE AuditFails
  BY <1>4 DEF AuditFails, NoAudit
<1>5. ASSUME Disturb, UNCHANGED result
      PROVE  ListsMatch'
  <2>1. /\ audit'.pc = audit.pc /\ audit'.group = audit.group
        /\ audit'.unused = IF audit.pc = "listed" THEN Null ELSE audit.unused
    BY <1>5 DEF Disturb, TypeOK, Audits
  <2> QED
    BY <1>5, <2>1
<1>6. ASSUME NEW i \in Indexes, Scan(i) \/ Create(i) \/ Invalidate(i)
      PROVE  ListsMatch'
  BY <1>5, <1>6 DEF Scan, Create, Invalidate
<1>7. ASSUME NEW i \in Indexes, Drop(i)
      PROVE  ListsMatch'
  BY <1>7 DEF Drop
<1>8. CASE NewDay
  BY <1>8 DEF NewDay, Unused
<1>9. CASE ResetStatistics
  BY <1>5, <1>9 DEF ResetStatistics
<1>10. CASE UNCHANGED vars
  BY <1>10 DEF vars, Unused
<1> QED
  BY <1>1, <1>2, <1>3, <1>4, <1>6, <1>7, <1>8, <1>9, <1>10
     DEF Next, CheckIndexHealth, Workload

(* The invariant holds of every behaviour: the keeper of the last result,  *)
(* and of the one in preparation, exists, and the list of unused indexes   *)
(* is that of the duplicates' snapshot, or was overtaken.                  *)
THEOREM KeeperInvariant == Spec => []IInv
<1>1. IInv /\ [Next]_vars => IInv'
  BY TypeStep, KeeperStaysStep, ListsMatchStep DEF IInv
<1> QED
  BY <1>1, InitInvariant, PTL DEF Spec

LEMMA DropIsCovered ==
  ASSUME IInv, [Next]_vars, NEW i \in Indexes, Removes(i)
  PROVE  /\ i \notin Unique \cup Reserved
         /\ report.age # Null /\ report.age >= MatureAge
         /\ \E j \in Indexes \ {i} :
               catalog'[j] # "absent" /\ report.scans[i] < report.scans[j]
<1>1. Drop(i)
  BY DEF Removes, Next, CheckIndexHealth, Workload, IInv, TypeOK, vars, database,
         ListUnused, CollectDuplicates, Return, AuditFails, Scan, Create, Invalidate, Drop,
         NewDay, ResetStatistics
<1>2. i \in DropCandidates(report) /\ report \in Groups
  BY <1>1 DEF Drop, IInv, TypeOK
<1>3. PICK k \in Leaders(report) :
         k \in Indexes \ {i} /\ report.scans[i] < report.scans[k]
  BY <1>2, KeeperIsHotter
<1>4. catalog'[k] # "absent"
  BY <1>1, <1>3 DEF Drop, IInv, KeeperStays, Existing, TypeOK
<1> QED
  BY <1>2, <1>3, <1>4, CandidateIsEligible DEF Mature

(* Whatever is dropped on the tool's advice is covered by a surviving      *)
(* index that was strictly more used over a mature window, and enforces    *)
(* nothing.  analyze_duplicate_indexes.                                    *)
THEOREM DropsAreCoveredHolds == Spec => DropsAreCovered
<1>1. IInv /\ [Next]_vars =>
        [\A i \in Indexes : catalog[i] # "absent" /\ catalog'[i] = "absent" =>
          /\ i \notin Unique \cup Reserved
          /\ report.age # Null /\ report.age >= MatureAge
          /\ \E j \in Indexes \ {i} :
                /\ catalog'[j] # "absent"
                /\ report.scans[i] < report.scans[j]]_vars
  BY DropIsCovered DEF Removes
<1> QED
  BY <1>1, KeeperInvariant, PTL DEF Spec, DropsAreCovered

(* The two lists of every report whose snapshots saw the same class leave  *)
(* an index in use to a client who follows both, and name no unique one.   *)
(* check_index_health, analyze_duplicate_indexes.                          *)
THEOREM ListsAgreeHolds == Spec => []ListsAgree
<1>1. IInv => ListsAgree
  <2> SUFFICES ASSUME IInv, advice # Null
               PROVE  LET listed == advice \cup DropCandidates(report)
                      IN  /\ DropCandidates(report) # {} =>
                                \E i \in Existing(report.catalog) \ listed :
                                    report.scans[i] > 0
                          /\ Unique \cap listed = {}
    BY DEF ListsAgree
  <2>1. advice = NeverScanned(report) /\ report \in Groups
    BY DEF IInv, ListsMatch, TypeOK
  <2>2. ASSUME DropCandidates(report) # {}
        PROVE  \E i \in Existing(report.catalog) \ (advice \cup DropCandidates(report)) :
                   report.scans[i] > 0
    <3>1. PICK i \in Leaders(report) : report.scans[i] > 0
      BY <2>2 DEF DropCandidates, Decided
    <3>2. i \in Existing(report.catalog) /\ i \notin DropCandidates(report)
      BY <3>1, CandidateIsEligible DEF Leaders
    <3>3. i \notin advice
      BY <2>1, <3>1 DEF NeverScanned, Groups, Existing
    <3> QED
      BY <3>1, <3>2, <3>3
  <2>3. Unique \cap (advice \cup DropCandidates(report)) = {}
    BY <2>1, CandidateIsEligible DEF NeverScanned
  <2> QED
    BY <2>2, <2>3
<1> QED
  BY <1>1, KeeperInvariant, PTL DEF Spec

(* Type correctness: whatever the workload and whoever drops what.         *)
THEOREM TypeCorrect == Spec => []TypeOK
<1>1. IInv => TypeOK
  BY DEF IInv
<1> QED
  BY <1>1, KeeperInvariant, PTL DEF Spec
=============================================================================
