---------------------------- MODULE SlowQueries ----------------------------
(***************************************************************************)
(* One call of the analyze_slow_queries tool (src/pgtriage/server.py), an  *)
(* action for each await and each statement of the loops between them,     *)
(* with the collectors of src/pgtriage/collectors/slow_queries.py.  The    *)
(* database goes on between two awaits: what pg_stat_statements returns,   *)
(* and the plan an EXPLAIN gets, depend on nothing read before.            *)
(***************************************************************************)
EXTENDS PlanWalk

CONSTANTS
    Texts,        \* query texts of pg_stat_statements
    PlansOf,      \* the plans EXPLAIN may give for each; none if it is unsafe
    NoPlan,       \* run_explain_analyze returned None
    MaxSlow,      \* bound: LIMIT of SLOW_QUERIES_QUERY
    MaxCandidates \* bound: LIMIT of N_PLUS_ONE_QUERY

ASSUME TextAssumption ==
    /\ DOMAIN PlansOf = Texts
    /\ \A q \in Texts : \A plan \in PlansOf[q] : IsPlan(plan)
    /\ MaxSlow \in Nat /\ MaxCandidates \in Nat

VARIABLES
    pc,         \* the await the call is at
    schema,     \* its argument schema_name
    slow,       \* slow_queries: one text may be there for two users
    metadata,   \* index_metadata, by relation
    plans,      \* plans_by_query, None included
    inScope,    \* queries_in_scope
    candidates, \* n_plus_one
    next,       \* the place in slow, then in candidates
    found,      \* findings
    log         \* history: the EXPLAINs of the call and what they returned

slowVars == <<pc, schema, slow, metadata, plans, inScope, candidates, next, found, log>>

Stages == {"validating", "installing", "loading", "collecting", "describing",
           "explaining", "counting", "matching", "answered", "raised"}

Plans == UNION {PlansOf[q] : q \in Texts}
Results == Plans \cup {NoPlan}

(* N+1 findings and those about the extension have no plan behind them. *)
Categories == {"type_mismatch", "sequential_scan", "stale_stats",
               "missing_index", "n_plus_one", "config_issue"}

Findings ==
    [category : Categories, severity : {"high", "medium", "info"},
     table : Relations \cup {NoRelation},
     evidence : Nodes \cup Texts \cup {NoRelation}, figures : {"plain", "numeric"}]

TypeOKSlow ==
    /\ pc \in Stages
    /\ schema \in Schemas \cup {AnySchema}
    /\ slow \in Seq(Texts) /\ Len(slow) <= MaxSlow
    /\ DOMAIN metadata \subseteq DOMAIN CatalogRows
    /\ metadata \in [DOMAIN metadata -> Nat]
    /\ DOMAIN plans \subseteq Texts
    /\ \A q \in DOMAIN plans : plans[q] \in Results
    /\ inScope \in 0..Len(slow)
    /\ candidates \in Seq(Texts) /\ Len(candidates) <= MaxCandidates
    /\ next \in Nat
    /\ found \in Seq(Findings)
    /\ log \in Seq([text : Texts, result : Results])

Scoped == schema # AnySchema

(* Not in the plan's evidence. *)
Plain(category, severity, text) ==
    [category |-> category, severity |-> severity, table |-> NoRelation,
     evidence |-> text, figures |-> "plain"]

Numeric(finding) == [finding EXCEPT !.figures = "numeric"]

-----------------------------------------------------------------------------
(* Any statement may be refused; the call then ends, except where an       *)
(* EXPLAIN or the metadata is refused by the server.  An EXPLAIN raises if *)
(* there is no connection to be had (_ensure_connected, outside its try).  *)
MayRaise ==
    \/ pc = "validating" /\ Scoped
    \/ pc \in {"installing", "loading", "collecting", "explaining"}
    \/ /\ pc = "matching" /\ Scoped
       /\ next <= Len(candidates) /\ candidates[next] \notin DOMAIN plans

Raise ==
    /\ MayRaise
    /\ pc' = "raised"
    /\ UNCHANGED <<schema, slow, metadata, plans, inScope, candidates, next, found, log>>

Pass(from, to) ==
    /\ pc = from
    /\ pc' = to
    /\ UNCHANGED <<schema, slow, metadata, plans, inScope, candidates, next, log>>

Answer(from, findings) == Pass(from, "answered") /\ found' = findings

(* validate_schema_name; an unknown schema raises.                         *)
Validate == Pass("validating", "installing") /\ UNCHANGED found

(* is_pg_stat_statements_available. *)
Installed == Pass("installing", "loading") /\ UNCHANGED found

NotInstalled ==
    Answer("installing", <<Plain("config_issue", "info", NoRelation)>>)

(* is_pg_stat_statements_loaded. *)
Loaded == Pass("loading", "collecting") /\ UNCHANGED found

NotLoaded ==
    Answer("loading", <<Plain("config_issue", "medium", NoRelation)>>)

(* Mutant of CollectSlow: LIMIT is one too high. *)
CollectOneMore ==
    /\ pc = "collecting"
    /\ slow' \in UNION {[1..n -> Texts] : n \in 0..(MaxSlow + 1)}
    /\ pc' = "describing"
    /\ UNCHANGED <<schema, metadata, plans, inScope, candidates, next, found, log>>

(* collect_slow_queries; ObjectNotInPrerequisiteState reads as no query.   *)
CollectSlow ==
    /\ pc = "collecting"
    /\ slow' \in UNION {[1..n -> Texts] : n \in 0..MaxSlow}
    /\ pc' = "describing"
    /\ UNCHANGED <<schema, metadata, plans, inScope, candidates, next, found, log>>

InSchema(r) == schema = AnySchema \/ SchemaOf[r] = schema

(* collect_index_metadata; any psycopg.Error reads as no metadata.         *)
CollectMetadata ==
    /\ pc = "describing"
    /\ metadata' \in {<<>>, [r \in {s \in DOMAIN CatalogRows : InSchema(s)}
                                |-> CatalogRows[r]]}
    /\ pc' = "explaining"
    /\ next' = 1
    /\ UNCHANGED <<schema, slow, plans, inScope, candidates, found, log>>

-----------------------------------------------------------------------------
(* Mutant of Explain: a failure is not kept. *)
ExplainKeepingPlans(text, result) ==
    /\ result \in PlansOf[text] \cup {NoPlan}
    /\ log' = Append(log, [text |-> text, result |-> result])
    /\ plans' = [q \in DOMAIN plans \cup ({text} \ {t \in Texts : result = NoPlan}) |->
                    IF q = text THEN result ELSE plans[q]]

(* run_explain_analyze: a plan, or None for an unsafe text and for any     *)
(* error of PostgreSQL; plans' is the cache that keeps it.                 *)
Explain(text, result) ==
    /\ result \in PlansOf[text] \cup {NoPlan}
    /\ log' = Append(log, [text |-> text, result |-> result])
    /\ plans' = [q \in DOMAIN plans \cup {text} |->
                    IF q = text THEN result ELSE plans[q]]

(* A plan there is, and it references the schema of the call. *)
Relevant(result) ==
    result # NoPlan /\ (Scoped => PlanReferences(result, schema))

(* A plan's findings, with the figures of pg_stat_statements added. *)
FindingsOf(result) ==
    LET issues == DetectPlanIssues(result, metadata, schema)
    IN  [k \in DOMAIN issues |-> Numeric(issues[k])]

(* One round of the loop over slow_queries. *)
ExplainSlow ==
    /\ pc = "explaining"
    /\ next <= Len(slow)
    /\ \E result \in PlansOf[slow[next]] \cup {NoPlan} :
          /\ Explain(slow[next], result)
          /\ found' = found \o (IF Relevant(result) THEN FindingsOf(result) ELSE <<>>)
          /\ inScope' = inScope + (IF Relevant(result) \/ ~ Scoped THEN 1 ELSE 0)
    /\ next' = next + 1
    /\ UNCHANGED <<pc, schema, slow, metadata, candidates>>

(* collect_n_plus_one_candidates, after the loop. *)
CollectCandidates ==
    /\ pc = "explaining"
    /\ next > Len(slow)
    /\ candidates' \in UNION {[1..n -> Texts] : n \in 0..MaxCandidates}
    /\ pc' = "matching"
    /\ next' = 1
    /\ UNCHANGED <<schema, slow, metadata, plans, inScope, found, log>>

Candidate(text) ==
    Append(found, Numeric(Plain("n_plus_one", "medium", text)))

(* Mutant of MatchCandidate: the cache is not looked at. *)
MatchAgain ==
    /\ pc = "matching"
    /\ next <= Len(candidates)
    /\ LET text == candidates[next]
       IN  \E result \in PlansOf[text] \cup {NoPlan} :
              /\ Explain(text, result)
              /\ found' = IF Relevant(result) THEN Candidate(text) ELSE found
    /\ next' = next + 1
    /\ UNCHANGED <<pc, schema, slow, metadata, inScope, candidates>>

(* One round of the loop over the candidates.  All are reported if no      *)
(* schema was given, else those whose plan references it: the plan of the  *)
(* first loop if the text was there, whatever became of it.                *)
MatchCandidate ==
    /\ pc = "matching"
    /\ next <= Len(candidates)
    /\ LET text == candidates[next]
       IN  IF Scoped /\ text \notin DOMAIN plans
           THEN \E result \in PlansOf[text] \cup {NoPlan} :
                   /\ Explain(text, result)
                   /\ found' = IF Relevant(result) THEN Candidate(text) ELSE found
           ELSE /\ found' = IF Scoped /\ ~ Relevant(plans[text])
                            THEN found ELSE Candidate(text)
                /\ UNCHANGED <<plans, log>>
    /\ next' = next + 1
    /\ UNCHANGED <<pc, schema, slow, metadata, inScope, candidates>>

Return ==
    /\ next > Len(candidates)
    /\ Pass("matching", "answered")
    /\ UNCHANGED found

(* queries_analyzed of the summary. *)
QueriesAnalyzed == IF Scoped THEN inScope ELSE Len(slow)

InitSlow ==
    /\ pc = "validating"
    /\ schema \in Schemas \cup {AnySchema}
    /\ slow = <<>> /\ candidates = <<>>
    /\ metadata = <<>> /\ plans = <<>>
    /\ inScope = 0 /\ next = 1
    /\ found = <<>> /\ log = <<>>

AnalyzeSlowQueries ==
    \/ Validate \/ Installed \/ NotInstalled \/ Loaded \/ NotLoaded
    \/ CollectSlow \/ CollectMetadata \/ ExplainSlow
    \/ CollectCandidates \/ MatchCandidate \/ Return \/ Raise

-----------------------------------------------------------------------------
(* Correctness.                                                            *)

Occurrences(text, list) == Cardinality({k \in DOMAIN list : list[k] = text})

(* No text costs more EXPLAIN ANALYZEs of 10 seconds each than it has      *)
(* entries among the slow queries, and one if it has none: the N+1 pass    *)
(* runs none again, not even one that failed, and none at all if no schema *)
(* was asked for.  analyze_slow_queries, plans_by_query.                   *)
ExplainsAreBounded ==
    \A q \in Texts :
        LET runs == Cardinality({k \in DOMAIN log : log[k].text = q})
            entries == Occurrences(q, slow)
        IN  runs <= (IF entries = 0 /\ Scoped THEN 1 ELSE entries)

(* The EXPLAINs of the first loop, as far as it has come. *)
SlowLog == [k \in DOMAIN log \cap DOMAIN slow |-> log[k].result]

PlanFindings ==
    Among(found, {f \in ToSet(found) : f.category \notin {"n_plus_one", "config_issue"}})

(* A call for one schema says of the schema's relations exactly what a     *)
(* call for all would have said of the same plans, in the same order: the  *)
(* scope checks of the query, of the node and of the relation agree, and   *)
(* no query is dropped whose findings they would have let through.         *)
(* plan_references_schema, _node_references_schema, _walk_plan_node.       *)
ScopeLosesNothing ==
    LET own(findings) ==
            Among(findings, {f \in ToSet(findings) : NamesSchema(f.evidence, schema)})
        all == FlattenSeq([k \in DOMAIN SlowLog |->
                   IF SlowLog[k] = NoPlan THEN <<>>
                   ELSE DetectPlanIssues(SlowLog[k], metadata, AnySchema)])
    IN  Scoped => own(PlanFindings) = [k \in DOMAIN own(all) |-> Numeric(own(all)[k])]

(* And whatever else it says concerns the schema: casts and scans are of   *)
(* its own tables, an N+1 candidate has a plan of this call that reads it. *)
(* (A misestimate may be of another schema's node above one of its own.)   *)
(* analyze_slow_queries, _walk_plan_node.                                  *)
FindingsConcernSchema ==
    Scoped => \A k \in DOMAIN found :
        LET f == found[k]
        IN  /\ f.category \in {"type_mismatch", "sequential_scan"} =>
                    NamesSchema(f.evidence, schema)
            /\ f.category = "n_plus_one" =>
                    \E e \in ToSet(log) : e.text = f.evidence /\ Relevant(e.result)

(* A sequential scan of more rows than are worth an index, all its loops   *)
(* taken together, is reported, as a scan or as a cast, whether or not the *)
(* catalog could be read: metadata "enriches plan findings" (server.py)    *)
(* and hides none.  _walk_plan_node, _detect_index_suppressing_casts.      *)
LargeScansAreReported ==
    \A k \in DOMAIN SlowLog :
        LET plan == SlowLog[k]
        IN  plan # NoPlan => \A i \in DOMAIN plan.node :
                LET node == plan.node[i]
                IN  /\ node.type = "Seq Scan"
                    /\ RelationInScope(plan, i, schema)
                    /\ (node.rows + node.removed) * node.loops > ManyRows
                    => \E f \in ToSet(found) :
                          /\ f.evidence = node
                          /\ f.category \in {"type_mismatch", "sequential_scan"}

(* The two passes agree: a slow query that is also an N+1 candidate is     *)
(* reported as one if and only if it counted as a query of the schema      *)
(* (where the text had one entry, so one EXPLAIN).                         *)
(* analyze_slow_queries, plans_by_query.                                   *)
PassesAgree ==
    \A c \in DOMAIN candidates :
        LET q == candidates[c]
        IN  (c < next /\ pc \in {"matching", "answered"}) /\ Occurrences(q, slow) = 1 =>
              ((\E f \in ToSet(found) : f.category = "n_plus_one" /\ f.evidence = q)
                  <=> ~ Scoped \/ \E k \in 1..Len(slow) :
                          slow[k] = q /\ Relevant(log[k].result))

-----------------------------------------------------------------------------
(* The inductive invariant.                                                *)

Early == {"validating", "installing", "loading", "collecting", "describing"}

(* What is there at each await. *)
Staged ==
    /\ pc \in Early \ {"describing"} => slow = <<>>
    /\ pc \in Early =>
          /\ log = <<>> /\ candidates = <<>> /\ found = <<>>
          /\ next = 1 /\ inScope = 0
    /\ pc = "explaining" =>
          /\ candidates = <<>>
          /\ next = Len(log) + 1 /\ Len(log) <= Len(slow)
          /\ inScope <= Len(log)
          /\ \A f \in ToSet(found) : f.category # "n_plus_one"
    /\ pc \in {"matching", "answered"} =>
          /\ Len(slow) <= Len(log)
          /\ next \in 1..(Len(candidates) + 1)

(* The first entries of the log are those of the slow queries, and a text  *)
(* of a later one has no other.                                            *)
LogFollowsSlow ==
    /\ \A k \in DOMAIN log \cap DOMAIN slow : log[k].text = slow[k]
    /\ \A k \in DOMAIN log \ DOMAIN slow :
          /\ Scoped
          /\ \A j \in DOMAIN log : log[j].text = log[k].text => j = k

(* The cache holds what was explained. *)
CacheIsOfLog ==
    /\ \A q \in DOMAIN plans :
          \E k \in DOMAIN log : log[k].text = q /\ log[k].result = plans[q]
    /\ \A k \in DOMAIN log : log[k].text \in DOMAIN plans

Kept(q) == ~ Scoped \/ (q \in DOMAIN plans /\ Relevant(plans[q]))

(* The second pass goes by the cache alone. *)
CandidatesFollowCache ==
    pc \in {"matching", "answered"} =>
        /\ \A c \in 1..(next - 1) : Scoped => candidates[c] \in DOMAIN plans
        /\ \A q \in Texts :
              (\E f \in ToSet(found) : f.category = "n_plus_one" /\ f.evidence = q)
                  <=> \E c \in 1..(next - 1) : candidates[c] = q /\ Kept(q)

IInvSlow ==
    /\ TypeOKSlow
    /\ Staged
    /\ LogFollowsSlow
    /\ CacheIsOfLog
    /\ CandidatesFollowCache
    /\ FindingsConcernSchema
    /\ LargeScansAreReported
    /\ ScopeLosesNothing
=============================================================================
