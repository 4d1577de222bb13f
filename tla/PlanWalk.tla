------------------------------ MODULE PlanWalk ------------------------------
(***************************************************************************)
(* detect_plan_issues and plan_references_schema of                        *)
(* src/pgtriage/analyzers/explain.py: what the plan of a query is said to  *)
(* show, for all schemas or for one.                                       *)
(*                                                                         *)
(* A plan is its nodes in the order of the walk (1 is the root, a node     *)
(* comes after its parent and before its parent's next child), each with   *)
(* its parent.  The text of a filter is abstracted to the number of its    *)
(* casts that hide an index: casts of a column that leads a plain btree or *)
(* hash index, to another type, with no expression index on the cast.      *)
(***************************************************************************)
EXTENDS Integers, Sequences, FiniteSets, SequencesExt

CONSTANTS
    Relations,    \* tables, named by schema and name
    Schemas,      \* schemas of the user
    SchemaOf,     \* the schema of each relation
    CatalogRows,  \* table_live_rows of each relation that has an index
    NoRelation,   \* the relation of a node that reads none
    AnySchema,    \* no schema_name was given
    ManyRows,     \* 100,000: rows worth an index
    HugeRows,     \* 1,000,000: rows of a HIGH finding
    LoopRows,     \* 10,000: rows of a nested loop
    Factor        \* 10: of a bad estimate, and 1 / selectivity of a cast

ASSUME RelationAssumption ==
    /\ SchemaOf \in [Relations -> Schemas]
    /\ NoRelation \notin Relations
    /\ AnySchema \notin Schemas
    /\ DOMAIN CatalogRows \subseteq Relations
    /\ CatalogRows \in [DOMAIN CatalogRows -> Nat]

ASSUME ThresholdAssumption ==
    /\ {ManyRows, HugeRows, LoopRows} \subseteq Nat
    /\ ManyRows <= HugeRows
    /\ Factor \in Nat \ {0}

(* The elements of a sequence that are in S, in their order.               *)
Among(seq, S) ==
    FlattenSeq([k \in DOMAIN seq |-> IF seq[k] \in S THEN <<seq[k]>> ELSE <<>>])

NodeTypes == {"Seq Scan", "Nested Loop", "Other"}

(* rows and removed are per loop, as PostgreSQL prints them.               *)
Nodes == [type : NodeTypes, relation : Relations \cup {NoRelation},
          rows : Nat, planned : Nat, removed : Nat, loops : Nat, casts : Nat]

(* The ancestors of node i, by parent p, and i itself. *)
Lineage(p, i) ==
    LET up[j \in 1..Len(p)] == IF p[j] = 0 THEN {j} ELSE {j} \cup up[p[j]]
    IN  up[i]

IsShape(p) ==
    /\ p \in Seq(Nat) /\ p # <<>> /\ p[1] = 0
    /\ \A i \in 2..Len(p) : p[i] \in 1..(i - 1) /\ p[i] \in Lineage(p, i - 1)

(* A plan that was not executed (GENERIC_PLAN) has estimates only: its     *)
(* actual figures read as zero, and its loops as one.                      *)
IsPlan(plan) ==
    /\ IsShape(plan.parent)
    /\ plan.node \in Seq(Nodes)
    /\ Len(plan.node) = Len(plan.parent)
    /\ plan.measured \in BOOLEAN
    /\ ~ plan.measured => \A i \in DOMAIN plan.node :
          /\ plan.node[i].rows = 0
          /\ plan.node[i].removed = 0
          /\ plan.node[i].loops = 1

Subtree(plan, i) == {j \in DOMAIN plan.parent : i \in Lineage(plan.parent, j)}

Children(plan, i) == {j \in DOMAIN plan.parent : plan.parent[j] = i}

-----------------------------------------------------------------------------
(* The schema a node names: a node that reads no relation names none. *)
NamesSchema(node, schema) ==
    node.relation # NoRelation /\ SchemaOf[node.relation] = schema

NodeReferences(plan, i, schema) ==
    \E j \in Subtree(plan, i) : NamesSchema(plan.node[j], schema)

(* Mutant of PlanReferences: the root is looked at, not its descendants. *)
RootReferences(plan, schema) == NamesSchema(plan.node[1], schema)

PlanReferences(plan, schema) == NodeReferences(plan, 1, schema)

NodeInScope(plan, i, schema) ==
    schema = AnySchema \/ NodeReferences(plan, i, schema)

(* Mutant of RelationInScope: one scope check for all the rules. *)
SubtreeInScope(plan, i, schema) == NodeInScope(plan, i, schema)

RelationInScope(plan, i, schema) ==
    schema = AnySchema \/ NamesSchema(plan.node[i], schema)

RowsExamined(node) ==
    (node.rows + node.removed) * (IF node.loops = 0 THEN 1 ELSE node.loops)

(* The rows a cast is judged by: the table's, if its plan says less.       *)
CastRows(node, metadata) ==
    IF RowsExamined(node) < metadata[node.relation]
    THEN metadata[node.relation]
    ELSE RowsExamined(node)

ResultRows(plan, i) ==
    IF plan.measured THEN plan.node[i].rows ELSE plan.node[i].planned

(* A finding, and as its evidence the node it was made from; detail tells  *)
(* what else the evidence holds: figures that pg_stat_statements rounded   *)
(* as numeric, or plain ones.                                              *)
Found(category, severity, node) ==
    [category |-> category, severity |-> severity, table |-> node.relation,
     evidence |-> node, figures |-> "plain"]

SeverityOfRows(rows) == IF rows > HugeRows THEN "high" ELSE "medium"

Repeat(finding, n) == [k \in 1..n |-> finding]

(* _detect_index_suppressing_casts: metadata is a function from the        *)
(* relations whose indexes are known to their rows.                        *)
CastFindings(plan, i, metadata) ==
    LET node == plan.node[i]
    IN  IF /\ node.type = "Seq Scan"
           /\ node.relation \in DOMAIN metadata
           /\ CastRows(node, metadata) > ManyRows
           /\ ResultRows(plan, i) * Factor <= CastRows(node, metadata)
        THEN Repeat(Found("type_mismatch",
                          SeverityOfRows(CastRows(node, metadata)), node),
                    node.casts)
        ELSE <<>>

(* Mutant of ScanFindings: the filter's casts are looked at, not what was  *)
(* found about them.                                                       *)
ScanFindingsUnlessCast(plan, i, found) ==
    LET node == plan.node[i]
    IN  IF node.type = "Seq Scan" /\ RowsExamined(node) > ManyRows /\ node.casts = 0
        THEN <<Found("sequential_scan", SeverityOfRows(RowsExamined(node)), node)>>
        ELSE <<>>

ScanFindings(plan, i, found) ==
    LET node == plan.node[i]
    IN  IF node.type = "Seq Scan" /\ RowsExamined(node) > ManyRows /\ found = <<>>
        THEN <<Found("sequential_scan", SeverityOfRows(RowsExamined(node)), node)>>
        ELSE <<>>

EstimateFindings(plan, i) ==
    LET node == plan.node[i]
    IN  IF /\ node.planned > 0 /\ node.rows > 0
           /\ \/ node.rows > Factor * node.planned
              \/ node.rows * Factor < node.planned
        THEN <<Found("stale_stats", "medium", node)>>
        ELSE <<>>

(* The last child of a nested loop is taken for its inner side. *)
LoopFindings(plan, i, schema) ==
    LET last == CHOOSE j \in Children(plan, i) :
                    \A k \in Children(plan, i) : k <= j
    IN  IF /\ plan.node[i].type = "Nested Loop"
           /\ plan.node[i].rows > LoopRows
           /\ Children(plan, i) # {}
           /\ plan.node[last].type = "Seq Scan"
           /\ NodeInScope(plan, last, schema)
        THEN <<[Found("missing_index", "high", plan.node[last])
                    EXCEPT !.table = NoRelation]>>
        ELSE <<>>

(* One call of _walk_plan_node, without those it makes for the children.   *)
NodeFindings(plan, i, metadata, schema) ==
    LET own(findings) == IF RelationInScope(plan, i, schema) THEN findings ELSE <<>>
        below(findings) == IF NodeInScope(plan, i, schema) THEN findings ELSE <<>>
        casts == own(CastFindings(plan, i, metadata))
    IN  casts \o own(ScanFindings(plan, i, casts))
              \o below(EstimateFindings(plan, i))
              \o below(LoopFindings(plan, i, schema))

DetectPlanIssues(plan, metadata, schema) ==
    FlattenSeq([i \in DOMAIN plan.node |-> NodeFindings(plan, i, metadata, schema)])
=============================================================================
