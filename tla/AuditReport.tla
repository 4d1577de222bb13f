---------------------------- MODULE AuditReport ----------------------------
(***************************************************************************)
(* _execute_full_audit (src/pgtriage/server.py): four tools in turn, each  *)
(* with a result of its own, merged into one report                        *)
(* (AuditResult.from_findings, src/pgtriage/models.py), which              *)
(* AuditRunStore.complete() then encodes (canonical_json).  The slow-query *)
(* tool is SlowQueries; of the others this module takes only the findings  *)
(* they may come to.  Runs, claims and a registry that refuses a write are *)
(* the matter of FullAudit.                                                *)
(***************************************************************************)
EXTENDS SlowQueries

CONSTANTS
    Others   \* lists of findings each of the other three tools may make

Severities == {"critical", "high", "medium", "low", "info"}

SectionNames == {"table_health", "slow_queries", "index_health", "config"}

ASSUME OthersAssumption ==
    /\ DOMAIN Others = SectionNames \ {"slow_queries"}
    /\ \A s \in DOMAIN Others : \A findings \in Others[s] :
          /\ findings \in Seq(ToSet(findings))
          /\ \A k \in DOMAIN findings :
                findings[k].severity \in Severities /\ findings[k].figures = "plain"

VARIABLES
    stage,     \* the section in progress, or how the audit ended
    sections,  \* the results of the sections so far
    report     \* the merged result; no findings until there is one

vars == <<slowVars, stage, sections, report>>

-----------------------------------------------------------------------------
(* AuditResult.                                                            *)
OfSeverity(findings, severity) ==
    Among(findings, {f \in ToSet(findings) : f.severity = severity})

(* Mutant of Sorted: by the value of the severity, not its place. *)
SortedByName(findings) ==
    FlattenSeq([k \in 1..5 |-> OfSeverity(findings,
        <<"critical", "high", "info", "low", "medium">>[k])])

(* list(Severity).index as the key of a stable sort. *)
Sorted(findings) ==
    FlattenSeq([k \in 1..5 |-> OfSeverity(findings,
        <<"critical", "high", "medium", "low", "info">>[k])])

FromFindings(findings, queries) ==
    [findings |-> Sorted(findings),
     total |-> Len(findings),
     counts |-> [s \in Severities |-> Len(OfSeverity(findings, s))],
     queries |-> queries]

NoResult == FromFindings(<<>>, 0)

TypeOK ==
    /\ TypeOKSlow
    /\ stage \in SectionNames \cup {"storing", "completed", "failed"}
    /\ DOMAIN sections \subseteq SectionNames
    /\ \A s \in DOMAIN sections : DOMAIN sections[s] = DOMAIN NoResult
    /\ DOMAIN report = DOMAIN NoResult

-----------------------------------------------------------------------------
(* _execute_full_audit.                                                    *)
Keep(s, result) ==
    sections' = [t \in DOMAIN sections \cup {s} |->
                    IF t = s THEN result ELSE sections[t]]

(* A section with statements of its own, here in one step. *)
Section(s, after) ==
    /\ stage = s
    /\ \E findings \in Others[s] : Keep(s, FromFindings(findings, 0))
    /\ stage' = after
    /\ UNCHANGED slowVars

TableSection == Section("table_health", "slow_queries") /\ UNCHANGED report

IndexSection == Section("index_health", "config") /\ UNCHANGED report

QueryStep ==
    /\ stage = "slow_queries"
    /\ AnalyzeSlowQueries
    /\ UNCHANGED <<stage, sections, report>>

QuerySection ==
    /\ stage = "slow_queries" /\ pc = "answered"
    /\ Keep("slow_queries", FromFindings(found, QueriesAnalyzed))
    /\ stage' = "index_health"
    /\ UNCHANGED <<slowVars, report>>

(* all_findings: each section's as it reported them. *)
Merged(results) ==
    results["table_health"].findings \o results["slow_queries"].findings
        \o results["index_health"].findings \o results["config"].findings

(* The last section; no await between its result and the report. *)
ConfigSection ==
    /\ Section("config", "storing")
    /\ report' = FromFindings(Merged(sections'), sections["slow_queries"].queries)

(* A section raises: so does the audit, and the run has failed. *)
SectionRaises ==
    /\ \/ stage \in SectionNames \ {"slow_queries"}
       \/ stage = "slow_queries" /\ pc = "raised"
    /\ stage' = "failed"
    /\ UNCHANGED <<slowVars, sections, report>>

(* canonical_json knows datetime and StrEnum; a numeric column is neither. *)
Encodable(finding) == finding.figures # "numeric"

(* complete(): the result is encoded before the row is touched, and fail() *)
(* settles the run if that raises.                                         *)
Complete ==
    /\ stage = "storing"
    /\ stage' = IF \A k \in DOMAIN report.findings : Encodable(report.findings[k])
                THEN "completed" ELSE "failed"
    /\ UNCHANGED <<slowVars, sections, report>>

Init ==
    /\ InitSlow
    /\ stage = "table_health"
    /\ sections = <<>>
    /\ report = NoResult

Next ==
    \/ TableSection \/ QueryStep \/ QuerySection \/ IndexSection
    \/ ConfigSection \/ SectionRaises \/ Complete

Spec == Init /\ [][Next]_vars

-----------------------------------------------------------------------------
(* Correctness.                                                            *)

(* The report is "a unified report with all findings sorted by severity"   *)
(* (server.py): nothing is above what is worse, and of each severity it    *)
(* holds what the sections hold, in their order; its counts and the        *)
(* sections' add up.  from_findings, _execute_full_audit.                  *)
SectionOrder == <<"table_health", "slow_queries", "index_health", "config">>

Rank(severity) ==
    CASE severity = "critical" -> 1 [] severity = "high" -> 2
      [] severity = "medium" -> 3 [] severity = "low" -> 4 [] OTHER -> 5

ReportIsUnified ==
    stage = "completed" \/ stage = "storing" =>
        /\ \A i, j \in DOMAIN report.findings : i < j =>
              Rank(report.findings[i].severity) <= Rank(report.findings[j].severity)
        /\ \A s \in Severities :
              OfSeverity(report.findings, s) = FlattenSeq(
                  [k \in 1..4 |-> OfSeverity(sections[SectionOrder[k]].findings, s)])
        /\ report.total = Len(report.findings)
        /\ \A s \in Severities :
              report.counts[s] = Len(OfSeverity(report.findings, s))

(* An audit whose four sections came to a result returns it ("Returns a    *)
(* unified report with all findings sorted by severity", server.py): it    *)
(* does not end as failed.  complete, canonical_json.                      *)
CleanAuditIsRecorded ==
    stage = "failed" => DOMAIN sections # SectionNames

-----------------------------------------------------------------------------
(* The inductive invariant.                                                *)

(* All findings a report may hold. *)
Listed ==
    Findings \cup UNION {UNION {ToSet(findings) : findings \in Others[s]} :
                            s \in DOMAIN Others}

(* The sections are made one after the other. *)
SectionsSoFar ==
    /\ stage = "table_health" => DOMAIN sections = {}
    /\ stage = "slow_queries" => DOMAIN sections = {"table_health"}
    /\ stage = "index_health" => DOMAIN sections = {"table_health", "slow_queries"}
    /\ stage = "config" =>
          DOMAIN sections = {"table_health", "slow_queries", "index_health"}
    /\ stage \in {"storing", "completed"} => DOMAIN sections = SectionNames
    /\ \A s \in DOMAIN sections : sections[s].findings \in Seq(Listed)

IInv ==
    /\ TypeOK
    /\ IInvSlow
    /\ SectionsSoFar
    /\ ReportIsUnified
=============================================================================
