--------------------------- MODULE MCAuditReport ---------------------------
(* Small instances of AuditReport for TLC. *)
EXTENDS AuditReport, TLC

CONSTANTS t1, t2, t3, mine, theirs, app, other

MCSchemaOf == (mine :> app) @@ (theirs :> other)

(* theirs has no index. *)
MCCatalogRows == mine :> 4

NodeOf(type, relation, rows, planned, removed, loops, casts) ==
    [type |-> type, relation |-> relation, rows |-> rows, planned |-> planned,
     removed |-> removed, loops |-> loops, casts |-> casts]

(* Scans: cast and selective, cast and unselective, large by its loops     *)
(* only, large of another schema, small and misestimated.                  *)
Scans == {NodeOf("Seq Scan", mine, 1, 1, 2, 1, 1),
          NodeOf("Seq Scan", mine, 3, 3, 0, 1, 1),
          NodeOf("Seq Scan", mine, 1, 1, 0, 3, 0),
          NodeOf("Seq Scan", theirs, 3, 3, 2, 1, 1),
          NodeOf("Other", theirs, 1, 3, 0, 1, 0)}

Joins == {NodeOf("Nested Loop", NoRelation, 2, 2, 0, 1, 0),
          NodeOf("Other", NoRelation, 3, 1, 0, 1, 0)}

PlanOf(parent, node) == [measured |-> TRUE, parent |-> parent, node |-> node]

(* A scan, a scan with a subplan, a join of two scans: the other schema's  *)
(* scans with everything, the own ones with a few.                         *)
Theirs == {a \in Scans : a.relation = theirs}

MCPlans ==
    {PlanOf(<<0>>, <<a>>) : a \in Scans}
        \cup {PlanOf(<<0, 1>>, <<a, b>>) : a \in Theirs, b \in Scans \ Theirs}
        \cup {PlanOf(<<0, 1, 1>>, <<j, a, b>>) :
                 j \in Joins, a \in {n \in Theirs : n.type = "Other"},
                 b \in {n \in Scans : n.casts = 0 \/ n.removed > 0}}

(* Not executed: a join under a join, of which the inner one has a cast. *)
MCGeneric ==
    [measured |-> FALSE, parent |-> <<0, 1, 1, 3, 3>>,
     node |-> <<NodeOf("Other", NoRelation, 0, 2, 0, 1, 0),
                NodeOf("Other", theirs, 0, 2, 0, 1, 0),
                NodeOf("Nested Loop", NoRelation, 0, 3, 0, 1, 0),
                NodeOf("Seq Scan", theirs, 0, 3, 0, 1, 0),
                NodeOf("Seq Scan", mine, 0, 1, 0, 1, 1)>>]

(* The text t3 is not safe to EXPLAIN. *)
MCPlansOf == (t1 :> MCPlans) @@ (t2 :> {MCGeneric}) @@ (t3 :> {})

MCFinding(category, severity) ==
    [Plain(category, severity, NoRelation) EXCEPT !.evidence = severity]

MCOthers ==
    [s \in SectionNames \ {"slow_queries"} |->
        CASE s = "table_health" ->
                {<<MCFinding("dead_tuples", "medium"), MCFinding("dead_tuples", "critical")>>}
          [] s = "index_health" -> {<<MCFinding("unused_index", "low")>>}
          [] s = "config" ->
                {<<>>, <<MCFinding("config_issue", "info"),
                         MCFinding("connection_pressure", "critical")>>}]
=============================================================================
