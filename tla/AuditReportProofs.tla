-------------------------- MODULE AuditReportProofs --------------------------
(***************************************************************************)
(* What TLAPS proves of one call of analyze_slow_queries and of the report *)
(* an audit merges it into: for any texts, plans and thresholds, and for   *)
(* any findings of the other sections.                                     *)
(***************************************************************************)
EXTENDS AuditReport, PlanWalkProofs, FiniteSetTheorems

(* The figures of pg_stat_statements, added to every finding of a list. *)
NumericOf(s) == [k \in DOMAIN s |-> Numeric(s[k])]

LEMMA NumericType ==
    ASSUME NEW f \in Issues
    PROVE  /\ Numeric(f) \in Findings
           /\ Numeric(f).category = f.category
           /\ Numeric(f).evidence = f.evidence
<1>1. /\ Numeric(f) = [category |-> f.category, severity |-> f.severity,
                      table |-> f.table, evidence |-> f.evidence,
                      figures |-> "numeric"]
      /\ f.category \in IssueCategories /\ f.severity \in {"high", "medium"}
      /\ f.table \in Relations \cup {NoRelation} /\ f.evidence \in Nodes
  BY DEF Issues, Numeric
<1>2. f.evidence \in Nodes \cup Texts \cup {NoRelation} /\ f.category \in Categories
  BY <1>1 DEF IssueCategories, Categories
<1>3. f.severity \in {"high", "medium", "info"}
  BY <1>1
<1> HIDE DEF Numeric
<1>4. Numeric(f) \in Findings
  BY <1>1, <1>2, <1>3 DEF Findings
<1> QED BY <1>1, <1>4

LEMMA NumericOfType ==
    ASSUME NEW s \in Seq(Issues)
    PROVE  /\ NumericOf(s) \in Seq(Findings)
           /\ Len(NumericOf(s)) = Len(s)
           /\ \A f : f \in ToSet(NumericOf(s)) <=> \E g \in ToSet(s) : f = Numeric(g)
<1>1. DOMAIN s = 1..Len(s) /\ Len(s) \in Nat
  OBVIOUS
<1>2. \A k \in 1..Len(s) : Numeric(s[k]) \in Findings
  BY ElementOfSeq, NumericType
<1>3. NumericOf(s) \in Seq(Findings) /\ Len(NumericOf(s)) = Len(s)
  BY <1>1, <1>2 DEF NumericOf
<1>4. \A f : f \in ToSet(NumericOf(s)) <=> \E g \in ToSet(s) : f = Numeric(g)
  BY DEF ToSet, NumericOf
<1> QED BY <1>3, <1>4

LEMMA NumericOfEmpty == NumericOf(<<>>) = <<>>
  BY DEF NumericOf

LEMMA NumericOfAppend ==
    ASSUME NEW s \in Seq(Issues), NEW x \in Issues
    PROVE  NumericOf(Append(s, x)) = Append(NumericOf(s), Numeric(x))
<1> DEFINE a == Append(s, x)
           b == NumericOf(s)
           y == Numeric(x)
<1>1. /\ a \in Seq(Issues) /\ Len(a) = Len(s) + 1 /\ Len(s) \in Nat
      /\ \A k \in 1..Len(s) : a[k] = s[k]
      /\ a[Len(s) + 1] = x
  OBVIOUS
<1>2. /\ b \in Seq(Findings) /\ Len(b) = Len(s) /\ y \in Findings
      /\ \A k \in 1..Len(s) : b[k] = Numeric(s[k])
  BY NumericOfType, NumericType DEF NumericOf
<1> HIDE DEF b, y
<1>3. /\ Append(b, y) \in Seq(Findings) /\ Len(Append(b, y)) = Len(s) + 1
      /\ \A k \in 1..Len(s) : Append(b, y)[k] = b[k]
      /\ Append(b, y)[Len(s) + 1] = y
  BY <1>1, <1>2
<1> HIDE DEF a
<1>4. /\ NumericOf(a) \in Seq(Findings) /\ Len(NumericOf(a)) = Len(s) + 1
      /\ \A k \in 1..(Len(s) + 1) : NumericOf(a)[k] = Numeric(a[k])
  <2>1. DOMAIN a = 1..(Len(s) + 1)
    BY <1>1
  <2> QED BY <1>1, <2>1, NumericOfType DEF NumericOf
<1> DEFINE c == Append(b, y)
           d == NumericOf(a)
<1>5. \A k \in 1..(Len(s) + 1) : k \in 1..Len(s) \/ k = Len(s) + 1
  BY <1>1
<1>6. \A k \in 1..(Len(s) + 1) : d[k] = c[k]
  BY <1>1, <1>2, <1>3, <1>4, <1>5 DEF y
<1>7. c \in Seq(Findings) /\ Len(c) = Len(s) + 1 /\ d \in Seq(Findings) /\ Len(d) = Len(s) + 1
  BY <1>3, <1>4
<1> HIDE DEF c, d
<1>8. d = c
  BY <1>6, <1>7, SeqEqual
<1> QED BY <1>8 DEF a, b, y, c, d

LEMMA NumericOfConcat ==
    ASSUME NEW s \in Seq(Issues), NEW t \in Seq(Issues)
    PROVE  NumericOf(s \o t) = NumericOf(s) \o NumericOf(t)
<1> DEFINE Z == {r \in Seq(Issues) : NumericOf(s \o r) = NumericOf(s) \o NumericOf(r)}
           a == NumericOf(s)
<1>0. a \in Seq(Findings)
  BY NumericOfType
<1> HIDE DEF a
<1>1. <<>> \in Z
  <2>1. s \o <<>> = s /\ a \o <<>> = a /\ <<>> \in Seq(Issues)
    BY <1>0
  <2> QED BY <2>1, NumericOfEmpty DEF a
<1>2. ASSUME NEW r \in Z, NEW x \in Issues PROVE Append(r, x) \in Z
  <2> DEFINE b == NumericOf(r)
             y == Numeric(x)
  <2>1. /\ r \in Seq(Issues) /\ s \o r \in Seq(Issues) /\ Append(r, x) \in Seq(Issues)
        /\ s \o Append(r, x) = Append(s \o r, x)
    OBVIOUS
  <2>2. NumericOf(s \o r) = a \o b
    BY DEF a
  <2>3. b \in Seq(Findings) /\ y \in Findings
    BY <2>1, NumericOfType, NumericType
  <2>4. NumericOf(Append(s \o r, x)) = Append(a \o b, y)
    BY <2>1, <2>2, NumericOfAppend
  <2>5. NumericOf(Append(r, x)) = Append(b, y)
    BY <2>1, NumericOfAppend
  <2> HIDE DEF b, y
  <2>6. a \o Append(b, y) = Append(a \o b, y)
    BY <1>0, <2>3
  <2> QED BY <2>1, <2>4, <2>5, <2>6 DEF a
<1>3. t \in Z
  <2> HIDE DEF Z
  <2> QED BY <1>1, <1>2, SeqInduction
<1> QED BY <1>3 DEF a

(* Findings of plans that have a node of the schema as their evidence. *)
OfPlans == {f \in Findings : f.category \notin {"n_plus_one", "config_issue"}}

NamingFound(s) == {f \in Findings : NamesSchema(f.evidence, s)}

Own(s) == OfPlans \cap NamingFound(s)

LEMMA NumericIsOwn ==
    ASSUME NEW x \in Issues, NEW s
    PROVE  Numeric(x) \in Own(s) <=> x \in Naming(s)
<1>1. /\ Numeric(x) \in Findings
      /\ Numeric(x).category = x.category
      /\ Numeric(x).evidence = x.evidence
  BY NumericType
<1>2. x.category \in IssueCategories
  BY DEF Issues
<1> DEFINE y == Numeric(x)
<1> HIDE DEF y
<1>3. y \in OfPlans
  BY <1>1, <1>2 DEF OfPlans, IssueCategories, y
<1>4. y \in NamingFound(s) <=> NamesSchema(x.evidence, s)
  BY <1>1 DEF NamingFound, y
<1>5. x \in Naming(s) <=> NamesSchema(x.evidence, s)
  BY DEF Naming
<1> QED BY <1>3, <1>4, <1>5 DEF Own, y

LEMMA NumericOfAmong ==
    ASSUME NEW t \in Seq(Issues), NEW s
    PROVE  Among(NumericOf(t), Own(s)) = NumericOf(Among(t, Naming(s)))
<1> DEFINE T == Own(s)
           U == Naming(s)
           Z == {r \in Seq(Issues) : Among(NumericOf(r), T) = NumericOf(Among(r, U))}
<1>1. <<>> \in Z
  <2>1. <<>> \in Seq(Issues)
    OBVIOUS
  <2> QED BY <2>1, AmongEmpty, NumericOfEmpty
<1>2. ASSUME NEW r \in Z, NEW x \in Issues PROVE Append(r, x) \in Z
  <2> DEFINE a == NumericOf(r)
             b == Among(r, U)
             y == Numeric(x)
  <2>1. r \in Seq(Issues) /\ Append(r, x) \in Seq(Issues)
    OBVIOUS
  <2>2. a \in Seq(Findings) /\ y \in Findings /\ b \in Seq(Issues)
    BY <2>1, NumericOfType, NumericType, AmongFlat
  <2>3. NumericOf(Append(r, x)) = Append(a, y)
    BY <2>1, NumericOfAppend
  <2>4. Among(Append(a, y), T) = IF y \in T THEN Append(Among(a, T), y) ELSE Among(a, T)
    <3> HIDE DEF a, y, T
    <3> QED BY <2>2, AmongAppend
  <2>5. Among(Append(r, x), U) = IF x \in U THEN Append(b, x) ELSE b
    BY <2>1, AmongAppend
  <2>6. NumericOf(Append(b, x)) = Append(NumericOf(b), y)
    <3> HIDE DEF b
    <3> QED BY <2>2, NumericOfAppend
  <2>7. y \in T <=> x \in U
    BY NumericIsOwn
  <2>8. Among(a, T) = NumericOf(b)
    OBVIOUS
  <2> HIDE DEF a, b, y, T, U, Z
  <2>9. Among(NumericOf(Append(r, x)), T) = NumericOf(Among(Append(r, x), U))
    BY <2>3, <2>4, <2>5, <2>6, <2>7, <2>8
  <2> QED BY <2>1, <2>9 DEF Z
<1>3. t \in Z
  <2> HIDE DEF Z
  <2> QED BY <1>1, <1>2, SeqInduction
<1> QED BY <1>3

-----------------------------------------------------------------------------
(* The properties of one call, with what they are about as parameters:     *)
(* fs the findings, s the schema, lg the log, md the metadata and sl the   *)
(* results of the first pass.                                              *)
RelevantFor(r, s) == r # NoPlan /\ (s # AnySchema => PlanReferences(r, s))

ToldOf(r, md, s) ==
    IF RelevantFor(r, s) THEN NumericOf(DetectPlanIssues(r, md, s)) ELSE <<>>

ToldForAll(r, md) ==
    IF r = NoPlan THEN <<>> ELSE DetectPlanIssues(r, md, AnySchema)

AllOf(sl, md) == FlattenSeq([k \in DOMAIN sl |-> ToldForAll(sl[k], md)])

SlowLogOf(lg, sw) == [k \in DOMAIN lg \cap DOMAIN sw |-> lg[k].result]

Concerns(f, s, lg) ==
    /\ f.category \in {"type_mismatch", "sequential_scan"} => NamesSchema(f.evidence, s)
    /\ f.category = "n_plus_one" =>
          \E e \in ToSet(lg) : e.text = f.evidence /\ RelevantFor(e.result, s)

ConcernsOf(fs, s, lg) == s # AnySchema => \A f \in ToSet(fs) : Concerns(f, s, lg)

Large(plan, i, s) ==
    /\ plan.node[i].type = "Seq Scan"
    /\ RelationInScope(plan, i, s)
    /\ (plan.node[i].rows + plan.node[i].removed) * plan.node[i].loops > ManyRows

Reports(fs, node) ==
    \E f \in ToSet(fs) :
        f.evidence = node /\ f.category \in {"type_mismatch", "sequential_scan"}

LargeOf(fs, s, sl) ==
    \A k \in DOMAIN sl : sl[k] # NoPlan =>
        \A i \in DOMAIN sl[k].node : Large(sl[k], i, s) => Reports(fs, sl[k].node[i])

ScopeOf(fs, s, md, sl) ==
    s # AnySchema => Among(fs, Own(s)) = NumericOf(Among(AllOf(sl, md), Naming(s)))

LEMMA ResultIsPlan ==
    ASSUME NEW r \in Results, r # NoPlan
    PROVE  IsPlan(r)
BY TextAssumption DEF Results, Plans

LEMMA ToldType ==
    ASSUME NEW r \in Results, NEW md, NEW s
    PROVE  /\ ToldOf(r, md, s) \in Seq(Findings)
           /\ \A f : f \in ToSet(ToldOf(r, md, s)) =>
                 /\ RelevantFor(r, s)
                 /\ \E g \in ToSet(DetectPlanIssues(r, md, s)) :
                       f = Numeric(g) /\ g \in Issues
           /\ ToldForAll(r, md) \in Seq(Issues)
<1>1. r # NoPlan => \A t : DetectPlanIssues(r, md, t) \in Seq(Issues)
  BY ResultIsPlan, DetectType
<1>2. ToldForAll(r, md) \in Seq(Issues)
  BY <1>1, NothingSeq DEF ToldForAll
<1>3. CASE RelevantFor(r, s)
  <2> DEFINE d == DetectPlanIssues(r, md, s)
  <2>1. d \in Seq(Issues) /\ ToldOf(r, md, s) = NumericOf(d)
    BY <1>1, <1>3 DEF RelevantFor, ToldOf
  <2> HIDE DEF d
  <2>2. /\ NumericOf(d) \in Seq(Findings)
        /\ \A f : f \in ToSet(NumericOf(d)) <=> \E g \in ToSet(d) : f = Numeric(g)
    BY <2>1, NumericOfType
  <2>3. \A g \in ToSet(d) : g \in Issues
    BY <2>1, ToSetType
  <2> QED BY <1>2, <1>3, <2>1, <2>2, <2>3 DEF d
<1>4. CASE ~ RelevantFor(r, s)
  <2>1. ToldOf(r, md, s) = <<>>
    BY <1>4 DEF ToldOf
  <2> QED BY <1>2, <2>1, NothingSeq
<1> QED BY <1>3, <1>4

LEMMA ToldConcerns ==
    ASSUME NEW r \in Results, NEW md, NEW s, s # AnySchema, NEW lg,
           NEW f \in ToSet(ToldOf(r, md, s))
    PROVE  Concerns(f, s, lg) /\ f.category # "n_plus_one"
<1>1. PICK g \in ToSet(DetectPlanIssues(r, md, s)) : f = Numeric(g) /\ g \in Issues
  BY ToldType
<1>2. IsPlan(r)
  BY ToldType, ResultIsPlan DEF RelevantFor
<1>3. PICK i \in DOMAIN r.node : g \in ToSet(NodeFindings(r, i, md, s))
  BY <1>1, <1>2, DetectType
<1>4. g.category \in {"type_mismatch", "sequential_scan"} => NamesSchema(g.evidence, s)
  BY <1>2, <1>3, NodeFindingsOfSchema
<1>5. f.category = g.category /\ f.evidence = g.evidence
  BY <1>1, NumericType
<1>6. g.category \in IssueCategories
  BY <1>1 DEF Issues
<1> QED BY <1>4, <1>5, <1>6 DEF Concerns, IssueCategories

LEMMA ToldIsOfPlans ==
    ASSUME NEW r \in Results, NEW md, NEW s, NEW f \in ToSet(ToldOf(r, md, s))
    PROVE  f.category # "n_plus_one"
<1>1. PICK g \in Issues : f = Numeric(g)
  BY ToldType
<1>2. f.category = g.category /\ g.category \in IssueCategories
  BY <1>1, NumericType DEF Issues
<1> QED BY <1>2 DEF IssueCategories

LEMMA ToldLarge ==
    ASSUME NEW r \in Results, r # NoPlan, NEW md, NEW s,
           NEW i \in DOMAIN r.node, Large(r, i, s)
    PROVE  Reports(ToldOf(r, md, s), r.node[i])
<1>1. IsPlan(r)
  BY ResultIsPlan
<1>2. RelevantFor(r, s)
  BY <1>1, NamingIsInScope DEF RelevantFor, Large, RelationInScope
<1>3. PICK g \in ToSet(NodeFindings(r, i, md, s)) :
         g.evidence = r.node[i] /\ g.category \in {"type_mismatch", "sequential_scan"}
  BY <1>1, LargeScanIsFound DEF Large
<1> DEFINE d == DetectPlanIssues(r, md, s)
<1>4. g \in ToSet(d) /\ d \in Seq(Issues)
  BY <1>1, <1>3, DetectType
<1>5. ToldOf(r, md, s) = NumericOf(d)
  BY <1>2 DEF ToldOf
<1> HIDE DEF d
<1>6. Numeric(g) \in ToSet(NumericOf(d))
  BY <1>4, NumericOfType
<1>7. Numeric(g).evidence = g.evidence /\ Numeric(g).category = g.category
  BY <1>4, ToSetType, NumericType
<1> QED BY <1>3, <1>5, <1>6, <1>7 DEF Reports

LEMMA ToldScope ==
    ASSUME NEW r \in Results, NEW md, NEW s, s # AnySchema
    PROVE  Among(ToldOf(r, md, s), Own(s)) = NumericOf(Among(ToldForAll(r, md), Naming(s)))
<1>1. CASE r = NoPlan
  <2>1. ToldOf(r, md, s) = <<>> /\ ToldForAll(r, md) = <<>>
    BY <1>1 DEF ToldOf, ToldForAll, RelevantFor
  <2> QED BY <2>1, AmongEmpty, NumericOfEmpty
<1>2. CASE r # NoPlan /\ PlanReferences(r, s)
  <2>1. IsPlan(r)
    BY <1>2, ResultIsPlan
  <2> DEFINE d == DetectPlanIssues(r, md, s)
  <2>2. d \in Seq(Issues)
    BY <2>1, DetectType
  <2>3. ToldOf(r, md, s) = NumericOf(d)
    BY <1>2 DEF ToldOf, RelevantFor
  <2>4. Among(d, Naming(s)) = Among(ToldForAll(r, md), Naming(s))
    BY <1>2, <2>1, ScopeOfPlan DEF ToldForAll
  <2> HIDE DEF d
  <2>5. Among(NumericOf(d), Own(s)) = NumericOf(Among(d, Naming(s)))
    BY <2>2, NumericOfAmong
  <2> QED BY <2>3, <2>4, <2>5
<1>3. CASE r # NoPlan /\ ~ PlanReferences(r, s)
  <2>1. ToldOf(r, md, s) = <<>>
    BY <1>3 DEF ToldOf, RelevantFor
  <2>2. Among(ToldForAll(r, md), Naming(s)) = <<>>
    BY <1>3, ResultIsPlan, UnreferencedShowsNothing DEF ToldForAll
  <2> QED BY <2>1, <2>2, AmongEmpty, NumericOfEmpty
<1> QED BY <1>1, <1>2, <1>3

-----------------------------------------------------------------------------
(* The first pass: one more result, and what is told of it.                *)
LEMMA TellConcerns ==
    ASSUME NEW fs \in Seq(Findings), NEW s, NEW S, NEW lg \in Seq(S), NEW e \in S,
           NEW r \in Results, NEW md, ConcernsOf(fs, s, lg)
    PROVE  ConcernsOf(fs \o ToldOf(r, md, s), s, Append(lg, e))
<1> DEFINE told == ToldOf(r, md, s)
<1>1. told \in Seq(Findings)
  BY ToldType
<1>2. ToSet(Append(lg, e)) = ToSet(lg) \cup {e}
  BY ToSetAppend
<1>3. ASSUME NEW f \in ToSet(told), s # AnySchema PROVE Concerns(f, s, Append(lg, e))
  BY <1>3, ToldConcerns
<1> HIDE DEF told
<1>4. ToSet(fs \o told) = ToSet(fs) \cup ToSet(told)
  BY <1>1, ToSetConcat
<1>5. ASSUME NEW f \in ToSet(fs), s # AnySchema PROVE Concerns(f, s, Append(lg, e))
  BY <1>2, <1>5 DEF ConcernsOf, Concerns
<1> QED BY <1>3, <1>4, <1>5 DEF told, ConcernsOf

LEMMA TellLarge ==
    ASSUME NEW fs \in Seq(Findings), NEW s, NEW sl \in Seq(Results),
           NEW r \in Results, NEW md, LargeOf(fs, s, sl)
    PROVE  LargeOf(fs \o ToldOf(r, md, s), s, Append(sl, r))
<1> DEFINE told == ToldOf(r, md, s)
           a == Append(sl, r)
<1>1. told \in Seq(Findings)
  BY ToldType
<1>2. r # NoPlan => \A i \in DOMAIN r.node : Large(r, i, s) => Reports(told, r.node[i])
  BY ToldLarge
<1>3. /\ \A k \in DOMAIN a : k \in DOMAIN sl \/ k = Len(sl) + 1
      /\ \A k \in DOMAIN sl : a[k] = sl[k]
      /\ a[Len(sl) + 1] = r
  OBVIOUS
<1> HIDE DEF told, a
<1>4. ToSet(fs \o told) = ToSet(fs) \cup ToSet(told)
  BY <1>1, ToSetConcat
<1>5. \A node : Reports(fs, node) \/ Reports(told, node) => Reports(fs \o told, node)
  BY <1>4 DEF Reports
<1>6. ASSUME NEW k \in DOMAIN a, a[k] # NoPlan, NEW i \in DOMAIN a[k].node,
             Large(a[k], i, s)
      PROVE  Reports(fs \o told, a[k].node[i])
  <2>1. CASE k \in DOMAIN sl
    BY <1>3, <1>5, <1>6, <2>1 DEF LargeOf
  <2>2. CASE k = Len(sl) + 1
    BY <1>2, <1>3, <1>5, <1>6, <2>2
  <2> QED BY <1>3, <2>1, <2>2
<1>7. LargeOf(fs \o told, s, a)
  BY <1>6 DEF LargeOf
<1> QED BY <1>7 DEF told, a

LEMMA AllOfType ==
    ASSUME NEW sl \in Seq(Results), NEW md
    PROVE  /\ [k \in DOMAIN sl |-> ToldForAll(sl[k], md)] \in Seq(Seq(Issues))
           /\ AllOf(sl, md) \in Seq(Issues)
<1> DEFINE parts == [k \in DOMAIN sl |-> ToldForAll(sl[k], md)]
           Q == Seq(Issues)
<1>1. DOMAIN sl = 1..Len(sl) /\ Len(sl) \in Nat
  OBVIOUS
<1>2. \A k \in 1..Len(sl) : sl[k] \in Results
  BY ElementOfSeq
<1>3. \A k \in 1..Len(sl) : ToldForAll(sl[k], md) \in Q
  BY <1>2, ToldType
<1> HIDE DEF Q
<1>4. parts \in Seq(Q)
  BY <1>1, <1>3
<1> HIDE DEF parts
<1>5. FlattenSeq(parts) \in Q
  BY <1>4, FlattenType DEF Q
<1> QED BY <1>4, <1>5 DEF parts, Q, AllOf

LEMMA AllOfAppend ==
    ASSUME NEW sl \in Seq(Results), NEW r \in Results, NEW md
    PROVE  AllOf(Append(sl, r), md) = AllOf(sl, md) \o ToldForAll(r, md)
<1> DEFINE parts == [k \in DOMAIN sl |-> ToldForAll(sl[k], md)]
           a == Append(sl, r)
           more == [k \in DOMAIN a |-> ToldForAll(a[k], md)]
           x == ToldForAll(r, md)
           Q == Seq(Issues)
<1>1. /\ a \in Seq(Results) /\ Len(a) = Len(sl) + 1 /\ Len(sl) \in Nat
      /\ DOMAIN a = 1..(Len(sl) + 1) /\ DOMAIN sl = 1..Len(sl)
      /\ \A k \in 1..Len(sl) : a[k] = sl[k]
      /\ a[Len(sl) + 1] = r
  OBVIOUS
<1>2. parts \in Seq(Q) /\ x \in Q
  BY AllOfType, ToldType
<1>3. Len(parts) = Len(sl) /\ \A k \in 1..Len(sl) : parts[k] = ToldForAll(sl[k], md)
  BY <1>1
<1> HIDE DEF a
<1>4. more \in Seq(Q)
  BY <1>1, AllOfType
<1>5. /\ Len(more) = Len(sl) + 1
      /\ \A k \in 1..(Len(sl) + 1) : more[k] = ToldForAll(a[k], md)
  BY <1>1
<1> HIDE DEF parts, more, x, Q
<1> DEFINE b == Append(parts, x)
<1>6. /\ b \in Seq(Q) /\ Len(b) = Len(sl) + 1
      /\ \A k \in 1..Len(sl) : b[k] = parts[k]
      /\ b[Len(sl) + 1] = x
  BY <1>1, <1>2, <1>3
<1> HIDE DEF b
<1>7. \A k \in 1..(Len(sl) + 1) : k \in 1..Len(sl) \/ k = Len(sl) + 1
  BY <1>1
<1>8. \A k \in 1..(Len(sl) + 1) : more[k] = b[k]
  BY <1>1, <1>3, <1>5, <1>6, <1>7 DEF x
<1>9. more = b
  BY <1>4, <1>5, <1>6, <1>8, SeqEqual
<1>10. FlattenSeq(Append(parts, x)) = FlattenSeq(parts) \o x
  BY <1>2, FlattenAppend DEF Q
<1> QED BY <1>9, <1>10 DEF AllOf, a, b, more, parts, x

LEMMA TellScope ==
    ASSUME NEW fs \in Seq(Findings), NEW s, NEW sl \in Seq(Results),
           NEW r \in Results, NEW md, ScopeOf(fs, s, md, sl)
    PROVE  ScopeOf(fs \o ToldOf(r, md, s), s, md, Append(sl, r))
<1> SUFFICES ASSUME s # AnySchema
             PROVE  Among(fs \o ToldOf(r, md, s), Own(s)) =
                       NumericOf(Among(AllOf(Append(sl, r), md), Naming(s)))
  BY DEF ScopeOf
<1> DEFINE told == ToldOf(r, md, s)
           x == ToldForAll(r, md)
           all == AllOf(sl, md)
           T == Own(s)
           U == Naming(s)
<1>1. told \in Seq(Findings) /\ x \in Seq(Issues) /\ all \in Seq(Issues)
  BY ToldType, AllOfType
<1>2. Among(told, T) = NumericOf(Among(x, U))
  BY ToldScope
<1>3. Among(fs, T) = NumericOf(Among(all, U))
  BY DEF ScopeOf
<1>4. AllOf(Append(sl, r), md) = all \o x
  BY AllOfAppend
<1> HIDE DEF told, x, all, T, U
<1>5. Among(fs \o told, T) = Among(fs, T) \o Among(told, T)
  BY <1>1, AmongConcat
<1>6. Among(all \o x, U) = Among(all, U) \o Among(x, U)
  BY <1>1, AmongConcat
<1> DEFINE b == Among(all, U)
           c == Among(x, U)
<1>7. b \in Seq(Issues) /\ c \in Seq(Issues)
  BY <1>1, AmongFlat
<1> HIDE DEF b, c
<1>8. NumericOf(b \o c) = NumericOf(b) \o NumericOf(c)
  BY <1>7, NumericOfConcat
<1>9. Among(fs \o told, T) = NumericOf(Among(all \o x, U))
  BY <1>2, <1>3, <1>5, <1>6, <1>8 DEF b, c
<1> QED BY <1>4, <1>9 DEF told, T, U

-----------------------------------------------------------------------------
(* The second pass: one more candidate.                                    *)
CandidateFinding(text) == Numeric(Plain("n_plus_one", "medium", text))

LEMMA CandidateType ==
    ASSUME NEW text \in Texts, NEW s
    PROVE  /\ CandidateFinding(text) \in Findings
           /\ CandidateFinding(text).category = "n_plus_one"
           /\ CandidateFinding(text).evidence = text
           /\ CandidateFinding(text) \notin Own(s)
<1> DEFINE x == CandidateFinding(text)
<1>1. x = [category |-> "n_plus_one", severity |-> "medium", table |-> NoRelation,
           evidence |-> text, figures |-> "numeric"]
  BY DEF CandidateFinding, Numeric, Plain
<1> HIDE DEF x
<1>2. x.category = "n_plus_one" /\ x.evidence = text
  BY <1>1
<1>3. x \in Findings
  BY <1>1 DEF Findings, Categories
<1>4. x \notin Own(s)
  BY <1>2 DEF Own, OfPlans
<1> QED BY <1>2, <1>3, <1>4 DEF x

LEMMA AddConcerns ==
    ASSUME NEW fs \in Seq(Findings), NEW s, NEW S, NEW lg \in Seq(S),
           NEW text \in Texts, ConcernsOf(fs, s, lg),
           s # AnySchema => \E e \in ToSet(lg) : e.text = text /\ RelevantFor(e.result, s)
    PROVE  ConcernsOf(Append(fs, CandidateFinding(text)), s, lg)
<1> DEFINE x == CandidateFinding(text)
<1>1. x \in Findings /\ x.category = "n_plus_one" /\ x.evidence = text
  BY CandidateType
<1> HIDE DEF x
<1>2. ToSet(Append(fs, x)) = ToSet(fs) \cup {x}
  BY <1>1, ToSetAppend
<1>3. s # AnySchema => Concerns(x, s, lg)
  BY <1>1 DEF Concerns
<1>4. ConcernsOf(Append(fs, x), s, lg)
  BY <1>2, <1>3 DEF ConcernsOf
<1> QED BY <1>4 DEF x

LEMMA LogConcerns ==
    ASSUME NEW fs, NEW s, NEW S, NEW lg \in Seq(S), NEW e \in S, ConcernsOf(fs, s, lg)
    PROVE  ConcernsOf(fs, s, Append(lg, e))
<1>1. ToSet(Append(lg, e)) = ToSet(lg) \cup {e}
  BY ToSetAppend
<1> QED BY <1>1 DEF ConcernsOf, Concerns

LEMMA AddLarge ==
    ASSUME NEW fs \in Seq(Findings), NEW s, NEW sl, NEW x \in Findings, LargeOf(fs, s, sl)
    PROVE  LargeOf(Append(fs, x), s, sl)
<1>1. ToSet(Append(fs, x)) = ToSet(fs) \cup {x}
  BY ToSetAppend
<1>2. \A node : Reports(fs, node) => Reports(Append(fs, x), node)
  BY <1>1 DEF Reports
<1> QED BY <1>2 DEF LargeOf

LEMMA AddScope ==
    ASSUME NEW fs \in Seq(Findings), NEW s, NEW sl, NEW md, NEW text \in Texts,
           ScopeOf(fs, s, md, sl)
    PROVE  ScopeOf(Append(fs, CandidateFinding(text)), s, md, sl)
<1> DEFINE x == CandidateFinding(text)
<1>1. x \in Findings /\ x \notin Own(s)
  BY CandidateType
<1> HIDE DEF x
<1>2. Among(Append(fs, x), Own(s)) = Among(fs, Own(s))
  BY <1>1, AmongAppend
<1>3. ScopeOf(Append(fs, x), s, md, sl)
  BY <1>2 DEF ScopeOf
<1> QED BY <1>3 DEF x

-----------------------------------------------------------------------------
(* The properties, and the same in the next state, in these terms.         *)
LEMMA RelevantIs ==
    /\ \A r : Relevant(r) <=> RelevantFor(r, schema)
    /\ \A r : Relevant(r)' <=> RelevantFor(r, schema')
BY DEF Relevant, RelevantFor, Scoped

LEMMA ConcernsRestated ==
    /\ FindingsConcernSchema <=> ConcernsOf(found, schema, log)
    /\ FindingsConcernSchema' <=> ConcernsOf(found', schema', log')
<1>1. FindingsConcernSchema <=> ConcernsOf(found, schema, log)
  BY DEF FindingsConcernSchema, ConcernsOf, Concerns, Relevant, RelevantFor, Scoped, ToSet
<1>2. FindingsConcernSchema' <=> ConcernsOf(found', schema', log')
  BY DEF FindingsConcernSchema, ConcernsOf, Concerns, Relevant, RelevantFor, Scoped, ToSet
<1> QED BY <1>1, <1>2

LEMMA LargeRestated ==
    /\ LargeScansAreReported <=> LargeOf(found, schema, SlowLogOf(log, slow))
    /\ LargeScansAreReported' <=> LargeOf(found', schema', SlowLogOf(log', slow'))
<1>1. LargeScansAreReported <=> LargeOf(found, schema, SlowLogOf(log, slow))
  BY DEF LargeScansAreReported, LargeOf, Large, Reports, SlowLog, SlowLogOf
<1>2. LargeScansAreReported' <=> LargeOf(found', schema', SlowLogOf(log', slow'))
  BY DEF LargeScansAreReported, LargeOf, Large, Reports, SlowLog, SlowLogOf
<1> QED BY <1>1, <1>2

OwnOf(fs, s) == Among(fs, {f \in ToSet(fs) : NamesSchema(f.evidence, s)})

FoundOfPlans(fs) ==
    Among(fs, {f \in ToSet(fs) : f.category \notin {"n_plus_one", "config_issue"}})

LEMMA OwnIs ==
    ASSUME NEW fs \in Seq(Findings), NEW s
    PROVE  OwnOf(FoundOfPlans(fs), s) = Among(fs, Own(s))
<1> DEFINE pf == FoundOfPlans(fs)
<1>1. \A f \in ToSet(fs) : f \in Findings
  BY ToSetType
<1>2. pf = Among(fs, OfPlans)
  <2>1. \A f \in ToSet(fs) :
           f \in {g \in ToSet(fs) : g.category \notin {"n_plus_one", "config_issue"}}
              <=> f \in OfPlans
    BY <1>1 DEF OfPlans
  <2> QED BY <2>1, AmongAgree DEF FoundOfPlans
<1>3. pf \in Seq(Findings)
  BY <1>2, AmongFlat
<1> HIDE DEF pf
<1>4. \A f \in ToSet(pf) : f \in Findings
  BY <1>3, ToSetType
<1>5. OwnOf(pf, s) = Among(pf, NamingFound(s))
  <2>1. \A f \in ToSet(pf) :
           f \in {g \in ToSet(pf) : NamesSchema(g.evidence, s)} <=> f \in NamingFound(s)
    BY <1>4 DEF NamingFound
  <2> QED BY <1>3, <2>1, AmongAgree DEF OwnOf
<1>6. Among(Among(fs, OfPlans), NamingFound(s)) = Among(fs, Own(s))
  BY AmongTwice DEF Own
<1> QED BY <1>2, <1>5, <1>6 DEF pf

LEMMA OwnOfAll ==
    ASSUME NEW r \in Seq(Issues), NEW s
    PROVE  OwnOf(r, s) = Among(r, Naming(s))
<1>1. \A f \in ToSet(r) : f \in Issues
  BY ToSetType
<1>2. \A f \in ToSet(r) :
         f \in {g \in ToSet(r) : NamesSchema(g.evidence, s)} <=> f \in Naming(s)
  BY <1>1 DEF Naming
<1> QED BY <1>2, AmongAgree DEF OwnOf

LEMMA ScopeIs ==
    /\ ScopeLosesNothing <=>
          (schema # AnySchema => OwnOf(FoundOfPlans(found), schema) =
             NumericOf(OwnOf(AllOf(SlowLogOf(log, slow), metadata), schema)))
    /\ ScopeLosesNothing' <=>
          (schema' # AnySchema => OwnOf(FoundOfPlans(found'), schema') =
             NumericOf(OwnOf(AllOf(SlowLogOf(log', slow'), metadata'), schema')))
<1>1. ScopeLosesNothing <=>
          (schema # AnySchema => OwnOf(FoundOfPlans(found), schema) =
             NumericOf(OwnOf(AllOf(SlowLogOf(log, slow), metadata), schema)))
  BY DEF ScopeLosesNothing, OwnOf, FoundOfPlans, NumericOf, AllOf, ToldForAll,
         SlowLog, SlowLogOf, PlanFindings, Scoped
<1>2. ScopeLosesNothing' <=>
          (schema' # AnySchema => OwnOf(FoundOfPlans(found'), schema') =
             NumericOf(OwnOf(AllOf(SlowLogOf(log', slow'), metadata'), schema')))
  BY DEF ScopeLosesNothing, OwnOf, FoundOfPlans, NumericOf, AllOf, ToldForAll,
         SlowLog, SlowLogOf, PlanFindings, Scoped
<1> QED BY <1>1, <1>2

LEMMA ScopeOfIs ==
    ASSUME NEW fs \in Seq(Findings), NEW s, NEW md, NEW sl \in Seq(Results)
    PROVE  ScopeOf(fs, s, md, sl) <=>
              (s # AnySchema => OwnOf(FoundOfPlans(fs), s) = NumericOf(OwnOf(AllOf(sl, md), s)))
<1>1. OwnOf(FoundOfPlans(fs), s) = Among(fs, Own(s))
  BY OwnIs
<1>2. OwnOf(AllOf(sl, md), s) = Among(AllOf(sl, md), Naming(s))
  BY AllOfType, OwnOfAll
<1> QED BY <1>1, <1>2 DEF ScopeOf

LEMMA ScopeRestated ==
    /\ found \in Seq(Findings) /\ SlowLogOf(log, slow) \in Seq(Results) =>
          (ScopeLosesNothing <=> ScopeOf(found, schema, metadata, SlowLogOf(log, slow)))
    /\ found' \in Seq(Findings) /\ SlowLogOf(log', slow') \in Seq(Results) =>
          (ScopeLosesNothing' <=>
              ScopeOf(found', schema', metadata', SlowLogOf(log', slow')))
BY ScopeIs, ScopeOfIs

-----------------------------------------------------------------------------
(* The results of the first pass, as the log grows.                        *)
Entries == [text : Texts, result : Results]

LEMMA SlowLogType ==
    ASSUME NEW lg \in Seq(Entries), NEW sw \in Seq(Texts)
    PROVE  SlowLogOf(lg, sw) \in Seq(Results)
<1> DEFINE n == IF Len(lg) <= Len(sw) THEN Len(lg) ELSE Len(sw)
<1>1. /\ DOMAIN lg = 1..Len(lg) /\ DOMAIN sw = 1..Len(sw)
      /\ Len(lg) \in Nat /\ Len(sw) \in Nat
  OBVIOUS
<1>2. n \in Nat /\ DOMAIN lg \cap DOMAIN sw = 1..n
  BY <1>1
<1>3. \A k \in 1..n : lg[k].result \in Results
  <2>1. \A k \in 1..n : lg[k] \in Entries
    BY <1>1, <1>2, ElementOfSeq
  <2> QED BY <2>1 DEF Entries
<1> HIDE DEF n
<1> QED BY <1>2, <1>3 DEF SlowLogOf

LEMMA SlowLogGrows ==
    ASSUME NEW lg \in Seq(Entries), NEW sw \in Seq(Texts), NEW e \in Entries,
           Len(lg) < Len(sw)
    PROVE  SlowLogOf(Append(lg, e), sw) = Append(SlowLogOf(lg, sw), e.result)
<1> DEFINE a == Append(lg, e)
           b == SlowLogOf(lg, sw)
           c == SlowLogOf(a, sw)
           r == e.result
<1>1. /\ DOMAIN lg = 1..Len(lg) /\ DOMAIN sw = 1..Len(sw)
      /\ Len(lg) \in Nat /\ Len(sw) \in Nat
      /\ a \in Seq(Entries) /\ DOMAIN a = 1..(Len(lg) + 1)
      /\ \A k \in 1..Len(lg) : a[k] = lg[k]
      /\ a[Len(lg) + 1] = e
  OBVIOUS
<1> HIDE DEF a
<1>2. DOMAIN lg \cap DOMAIN sw = 1..Len(lg) /\ DOMAIN a \cap DOMAIN sw = 1..(Len(lg) + 1)
  BY <1>1
<1>3. b \in Seq(Results) /\ c \in Seq(Results) /\ r \in Results
  BY <1>1, SlowLogType DEF Entries
<1>4. Len(b) = Len(lg) /\ \A k \in 1..Len(lg) : b[k] = lg[k].result
  BY <1>1, <1>2 DEF SlowLogOf
<1>5. Len(c) = Len(lg) + 1 /\ \A k \in 1..(Len(lg) + 1) : c[k] = a[k].result
  BY <1>1, <1>2 DEF SlowLogOf
<1> HIDE DEF b, c, r
<1> DEFINE d == Append(b, r)
<1>6. /\ d \in Seq(Results) /\ Len(d) = Len(lg) + 1
      /\ \A k \in 1..Len(lg) : d[k] = b[k]
      /\ d[Len(lg) + 1] = r
  BY <1>1, <1>3, <1>4
<1> HIDE DEF d
<1>7. \A k \in 1..(Len(lg) + 1) : k \in 1..Len(lg) \/ k = Len(lg) + 1
  BY <1>1
<1>8. \A k \in 1..(Len(lg) + 1) : c[k] = d[k]
  BY <1>1, <1>4, <1>5, <1>6, <1>7 DEF r
<1>9. c = d
  BY <1>3, <1>5, <1>6, <1>8, SeqEqual
<1> QED BY <1>9 DEF a, b, c, d, r

LEMMA SlowLogStays ==
    ASSUME NEW lg \in Seq(Entries), NEW sw \in Seq(Texts), NEW e \in Entries,
           Len(sw) <= Len(lg)
    PROVE  SlowLogOf(Append(lg, e), sw) = SlowLogOf(lg, sw)
<1> DEFINE a == Append(lg, e)
<1>1. /\ DOMAIN lg = 1..Len(lg) /\ DOMAIN sw = 1..Len(sw)
      /\ Len(lg) \in Nat /\ Len(sw) \in Nat
      /\ DOMAIN a = 1..(Len(lg) + 1)
      /\ \A k \in 1..Len(lg) : a[k] = lg[k]
  OBVIOUS
<1> HIDE DEF a
<1>2. DOMAIN lg \cap DOMAIN sw = 1..Len(sw) /\ DOMAIN a \cap DOMAIN sw = 1..Len(sw)
  BY <1>1
<1>3. \A k \in 1..Len(sw) : a[k].result = lg[k].result
  BY <1>1
<1>4. SlowLogOf(a, sw) = SlowLogOf(lg, sw)
  BY <1>2, <1>3 DEF SlowLogOf
<1> QED BY <1>4 DEF a

LEMMA SlowLogOfNothing ==
    ASSUME NEW sw
    PROVE  SlowLogOf(<<>>, sw) = <<>>
BY DEF SlowLogOf

(* Before the first EXPLAIN there is nothing that could be missed, and a   *)
(* finding about the extension changes nothing.                            *)
LEMMA NothingYet ==
    ASSUME NEW s, NEW md, NEW lg, NEW fs \in Seq(Findings),
           \A f \in ToSet(fs) : f.category = "config_issue"
    PROVE  /\ ConcernsOf(fs, s, lg)
           /\ LargeOf(fs, s, <<>>)
           /\ ScopeOf(fs, s, md, <<>>)
<1>1. ConcernsOf(fs, s, lg)
  BY DEF ConcernsOf, Concerns
<1>2. LargeOf(fs, s, <<>>)
  BY DEF LargeOf
<1>3. AllOf(<<>>, md) = <<>>
  <2>1. [k \in DOMAIN <<>> |-> ToldForAll(<<>>[k], md)] = <<>>
    OBVIOUS
  <2> QED BY <2>1, FlattenEmpty DEF AllOf
<1>4. Among(fs, Own(s)) = <<>>
  <2>1. ToSet(fs) \cap Own(s) = {}
    BY DEF Own, OfPlans
  <2> QED BY <2>1, AmongNone
<1>5. NumericOf(Among(<<>>, Naming(s))) = <<>>
  BY AmongEmpty, NumericOfEmpty
<1> QED BY <1>1, <1>2, <1>3, <1>4, <1>5 DEF ScopeOf

-----------------------------------------------------------------------------
(* The steps of a call.                                                    *)
Holds == FindingsConcernSchema /\ LargeScansAreReported /\ ScopeLosesNothing

HoldsOf(fs, s, md, lg, sw) ==
    /\ ConcernsOf(fs, s, lg)
    /\ LargeOf(fs, s, SlowLogOf(lg, sw))
    /\ ScopeOf(fs, s, md, SlowLogOf(lg, sw))

LEMMA Restated ==
    /\ TypeOKSlow => (Holds <=> HoldsOf(found, schema, metadata, log, slow))
    /\ TypeOKSlow' => (Holds' <=> HoldsOf(found', schema', metadata', log', slow'))
<1>1. TypeOKSlow => found \in Seq(Findings) /\ SlowLogOf(log, slow) \in Seq(Results)
  BY SlowLogType DEF TypeOKSlow, Entries
<1>2. TypeOKSlow' => found' \in Seq(Findings) /\ SlowLogOf(log', slow') \in Seq(Results)
  BY SlowLogType DEF TypeOKSlow, Entries
<1> QED BY <1>1, <1>2, ConcernsRestated, LargeRestated, ScopeRestated DEF Holds, HoldsOf

LEMMA SeqOfTexts ==
    ASSUME NEW n \in Nat, NEW s \in UNION {[1..k -> Texts] : k \in 0..n}
    PROVE  s \in Seq(Texts) /\ Len(s) <= n /\ Len(s) \in Nat
<1>1. PICK k \in 0..n : s \in [1..k -> Texts]
  OBVIOUS
<1> QED BY <1>1

LEMMA InitSlowHolds == InitSlow => IInvSlow
<1> SUFFICES ASSUME InitSlow PROVE IInvSlow
  OBVIOUS
<1>1. TypeOKSlow
  BY TextAssumption DEF InitSlow, TypeOKSlow, Stages
<1>2. Staged
  BY DEF InitSlow, Staged, Early
<1>3. LogFollowsSlow
  BY DEF InitSlow, LogFollowsSlow
<1>4. CacheIsOfLog
  BY DEF InitSlow, CacheIsOfLog
<1>5. CandidatesFollowCache
  BY DEF InitSlow, CandidatesFollowCache
<1>6. Holds
  <2>1. found = <<>> /\ log = <<>> /\ slow = <<>>
    BY DEF InitSlow
  <2>2. HoldsOf(<<>>, schema, metadata, <<>>, <<>>)
    BY NothingYet, NothingSeq, SlowLogOfNothing DEF HoldsOf
  <2> QED BY <1>1, <2>1, <2>2, Restated
<1> QED BY <1>1, <1>2, <1>3, <1>4, <1>5, <1>6 DEF IInvSlow, Holds

(* Every call raises, or goes on to its next await, with what it has.      *)
LEMMA GoingOn ==
    ASSUME IInvSlow,
           UNCHANGED <<schema, slow, metadata, plans, inScope, candidates, next, log, found>>,
           \/ pc \in Early \ {"describing"} /\ pc' \in Early \ {"describing"}
           \/ pc = "matching" /\ pc' = "answered"
           \/ pc' = pc
           \/ pc' = "raised"
    PROVE  IInvSlow'
<1>1. TypeOKSlow'
  BY DEF IInvSlow, TypeOKSlow, Stages, Early
<1>2. Staged'
  BY DEF IInvSlow, Staged, Early
<1>3. LogFollowsSlow' /\ CacheIsOfLog'
  BY DEF IInvSlow, LogFollowsSlow, CacheIsOfLog, Scoped
<1>4. CandidatesFollowCache'
  BY DEF IInvSlow, CandidatesFollowCache, Kept, Scoped, Relevant, Early
<1>5. Holds'
  BY <1>1, Restated DEF IInvSlow, Holds
<1> QED BY <1>1, <1>2, <1>3, <1>4, <1>5 DEF IInvSlow, Holds

(* A finding about the extension is the whole answer. *)
LEMMA Unavailable ==
    ASSUME IInvSlow, NotInstalled \/ NotLoaded
    PROVE  IInvSlow'
<1>1. PICK severity \in {"info", "medium"} :
         found' = <<Plain("config_issue", severity, NoRelation)>>
  BY DEF NotInstalled, NotLoaded, Answer
<1> DEFINE x == Plain("config_issue", severity, NoRelation)
<1>2. x \in Findings /\ x.category = "config_issue"
  BY DEF Plain, Findings, Categories
<1>3. /\ pc \in Early \ {"describing"} /\ pc' = "answered"
      /\ UNCHANGED <<schema, slow, metadata, plans, inScope, candidates, next, log>>
  BY DEF NotInstalled, NotLoaded, Answer, Pass, Early
<1>4. slow = <<>> /\ log = <<>> /\ candidates = <<>> /\ next = 1 /\ inScope = 0
  BY <1>3 DEF IInvSlow, Staged
<1> HIDE DEF x
<1>5. found' \in Seq(Findings) /\ ToSet(found') = {x}
  BY <1>1, <1>2, SingletonSeq DEF x
<1>6. TypeOKSlow'
  BY <1>3, <1>5 DEF IInvSlow, TypeOKSlow, Stages
<1>7. Staged'
  BY <1>3, <1>4 DEF Staged, Early
<1>8. LogFollowsSlow' /\ CacheIsOfLog'
  BY <1>3 DEF IInvSlow, LogFollowsSlow, CacheIsOfLog, Scoped
<1>9. CandidatesFollowCache'
  <2>1. \A f \in ToSet(found') : f.category # "n_plus_one"
    BY <1>2, <1>5
  <2>2. \A c \in 1..(next' - 1) : FALSE
    BY <1>3, <1>4
  <2> QED BY <2>1, <2>2 DEF CandidatesFollowCache
<1>10. Holds'
  <2>1. SlowLogOf(log', slow') = <<>>
    BY <1>3, <1>4, SlowLogOfNothing
  <2>2. HoldsOf(found', schema', metadata', log', slow')
    BY <1>2, <1>5, <2>1, NothingYet DEF HoldsOf
  <2> QED BY <1>6, <2>2, Restated
<1> QED BY <1>6, <1>7, <1>8, <1>9, <1>10 DEF IInvSlow, Holds

LEMMA CollectSlowStep ==
    ASSUME IInvSlow, CollectSlow
    PROVE  IInvSlow'
<1>1. /\ pc = "collecting" /\ pc' = "describing"
      /\ UNCHANGED <<schema, metadata, plans, inScope, candidates, next, found, log>>
      /\ slow' \in UNION {[1..n -> Texts] : n \in 0..MaxSlow}
  BY DEF CollectSlow
<1>2. /\ log = <<>> /\ candidates = <<>> /\ found = <<>> /\ next = 1 /\ inScope = 0
  BY <1>1 DEF IInvSlow, Staged, Early
<1>3. slow' \in Seq(Texts) /\ Len(slow') <= MaxSlow /\ Len(slow') \in Nat
  BY <1>1, SeqOfTexts, TextAssumption
<1>4. TypeOKSlow'
  <2>1. inScope' \in 0..Len(slow')
    BY <1>1, <1>2, <1>3
  <2> QED BY <1>1, <1>3, <2>1 DEF IInvSlow, TypeOKSlow, Stages
<1>5. Staged'
  BY <1>1, <1>2 DEF Staged, Early
<1>6. LogFollowsSlow'
  BY <1>1, <1>2 DEF LogFollowsSlow
<1>7. CacheIsOfLog' /\ CandidatesFollowCache'
  BY <1>1 DEF IInvSlow, CacheIsOfLog, CandidatesFollowCache
<1>8. Holds'
  <2>1. SlowLogOf(log', slow') = <<>> /\ found' = <<>>
    BY <1>1, <1>2, SlowLogOfNothing
  <2>2. HoldsOf(found', schema', metadata', log', slow')
    BY <2>1, NothingYet, NothingSeq DEF HoldsOf
  <2> QED BY <1>4, <2>2, Restated
<1> QED BY <1>4, <1>5, <1>6, <1>7, <1>8 DEF IInvSlow, Holds

LEMMA CollectMetadataStep ==
    ASSUME IInvSlow, CollectMetadata
    PROVE  IInvSlow'
<1> DEFINE R == {r \in DOMAIN CatalogRows : InSchema(r)}
<1>1. /\ pc = "describing" /\ pc' = "explaining" /\ next' = 1
      /\ UNCHANGED <<schema, slow, plans, inScope, candidates, found, log>>
      /\ metadata' \in {<<>>, [r \in R |-> CatalogRows[r]]}
  BY DEF CollectMetadata
<1>2. /\ log = <<>> /\ candidates = <<>> /\ found = <<>> /\ inScope = 0
  BY <1>1 DEF IInvSlow, Staged, Early
<1>3. DOMAIN metadata' \subseteq DOMAIN CatalogRows /\ metadata' \in [DOMAIN metadata' -> Nat]
  <2>1. R \subseteq DOMAIN CatalogRows /\ CatalogRows \in [DOMAIN CatalogRows -> Nat]
    BY RelationAssumption
  <2> HIDE DEF R
  <2>2. CASE metadata' = <<>>
    BY <2>2
  <2>3. CASE metadata' = [r \in R |-> CatalogRows[r]]
    BY <2>1, <2>3
  <2> QED BY <1>1, <2>2, <2>3
<1>4. TypeOKSlow'
  BY <1>1, <1>3 DEF IInvSlow, TypeOKSlow, Stages
<1>5. Staged'
  <2>1. Len(log) = 0 /\ ToSet(found) = {}
    BY <1>2, NothingSeq
  <2>2. Len(slow) \in Nat
    BY DEF IInvSlow, TypeOKSlow
  <2> QED BY <1>1, <1>2, <2>1, <2>2 DEF Staged, Early
<1>6. LogFollowsSlow' /\ CacheIsOfLog'
  BY <1>1 DEF IInvSlow, LogFollowsSlow, CacheIsOfLog, Scoped
<1>7. CandidatesFollowCache'
  BY <1>1 DEF CandidatesFollowCache
<1>8. Holds'
  <2>1. SlowLogOf(log', slow') = <<>> /\ found' = <<>>
    BY <1>1, <1>2, SlowLogOfNothing
  <2>2. HoldsOf(found', schema', metadata', log', slow')
    BY <2>1, NothingYet, NothingSeq DEF HoldsOf
  <2> QED BY <1>4, <2>2, Restated
<1> QED BY <1>4, <1>5, <1>6, <1>7, <1>8 DEF IInvSlow, Holds

LEMMA CollectCandidatesStep ==
    ASSUME IInvSlow, CollectCandidates
    PROVE  IInvSlow'
<1>1. /\ pc = "explaining" /\ pc' = "matching" /\ next > Len(slow) /\ next' = 1
      /\ UNCHANGED <<schema, slow, metadata, plans, inScope, found, log>>
      /\ candidates' \in UNION {[1..n -> Texts] : n \in 0..MaxCandidates}
  BY DEF CollectCandidates
<1>2. candidates' \in Seq(Texts) /\ Len(candidates') <= MaxCandidates /\ Len(candidates') \in Nat
  BY <1>1, SeqOfTexts, TextAssumption
<1>3. TypeOKSlow'
  BY <1>1, <1>2 DEF IInvSlow, TypeOKSlow, Stages
<1>4. Staged'
  <2>1. next = Len(log) + 1 /\ Len(log) \in Nat /\ Len(slow) \in Nat
    BY <1>1 DEF IInvSlow, Staged, TypeOKSlow
  <2>2. Len(slow) <= Len(log) /\ 1 \in 1..(Len(candidates') + 1)
    BY <1>1, <1>2, <2>1
  <2> QED BY <1>1, <2>2 DEF Staged, Early
<1>5. LogFollowsSlow' /\ CacheIsOfLog'
  BY <1>1 DEF IInvSlow, LogFollowsSlow, CacheIsOfLog, Scoped
<1>6. CandidatesFollowCache'
  <2>1. \A f \in ToSet(found') : f.category # "n_plus_one"
    BY <1>1 DEF IInvSlow, Staged
  <2>2. \A c \in 1..(next' - 1) : FALSE
    BY <1>1
  <2> QED BY <2>1, <2>2 DEF CandidatesFollowCache
<1>7. Holds'
  BY <1>1, <1>3, Restated DEF IInvSlow, Holds
<1> QED BY <1>3, <1>4, <1>5, <1>6, <1>7 DEF IInvSlow, Holds

(* One more EXPLAIN, whoever wants it. *)
LEMMA ExplainStep ==
    ASSUME TypeOKSlow, CacheIsOfLog, NEW text \in Texts,
           NEW result \in PlansOf[text] \cup {NoPlan}, Explain(text, result)
    PROVE  /\ result \in Results
           /\ [text |-> text, result |-> result] \in Entries
           /\ log' = Append(log, [text |-> text, result |-> result])
           /\ log \in Seq(Entries) /\ log' \in Seq(Entries) /\ Len(log) \in Nat
           /\ DOMAIN log = 1..Len(log) /\ DOMAIN log' = 1..(Len(log) + 1)
           /\ Len(log') = Len(log) + 1
           /\ \A k \in 1..Len(log) : log'[k] = log[k]
           /\ log'[Len(log) + 1].text = text /\ log'[Len(log) + 1].result = result
           /\ DOMAIN plans' = DOMAIN plans \cup {text}
           /\ \A q \in DOMAIN plans : q # text => plans'[q] = plans[q]
           /\ plans'[text] = result
           /\ \A q \in DOMAIN plans' : plans'[q] \in Results
           /\ CacheIsOfLog'
<1> DEFINE e == [text |-> text, result |-> result]
<1>1. result \in Results
  BY TextAssumption DEF Results, Plans
<1>2. e \in Entries /\ e.text = text /\ e.result = result
  BY <1>1 DEF Entries
<1>3. log \in Seq(Entries) /\ log' = Append(log, e)
  BY DEF TypeOKSlow, Entries, Explain
<1>a. e = [text |-> text, result |-> result]
  OBVIOUS
<1> HIDE DEF e
<1>4. /\ log' \in Seq(Entries) /\ Len(log) \in Nat
      /\ DOMAIN log = 1..Len(log) /\ DOMAIN log' = 1..(Len(log) + 1)
      /\ Len(log') = Len(log) + 1
      /\ \A k \in 1..Len(log) : log'[k] = log[k]
      /\ log'[Len(log) + 1] = e
  BY <1>2, <1>3
<1>5. plans' = [q \in DOMAIN plans \cup {text} |-> IF q = text THEN result ELSE plans[q]]
  BY DEF Explain
<1>6. /\ DOMAIN plans' = DOMAIN plans \cup {text}
      /\ \A q \in DOMAIN plans : q # text => plans'[q] = plans[q]
      /\ plans'[text] = result
  BY <1>5
<1>7. \A q \in DOMAIN plans' : plans'[q] \in Results
  BY <1>1, <1>6 DEF TypeOKSlow
<1>8. CacheIsOfLog'
  <2>1. ASSUME NEW q \in DOMAIN plans'
        PROVE  \E k \in DOMAIN log' : log'[k].text = q /\ log'[k].result = plans'[q]
    <3>1. CASE q = text
      <4>1. Len(log) + 1 \in DOMAIN log'
        BY <1>4
      <4> QED BY <1>2, <1>4, <1>6, <3>1, <4>1
    <3>2. CASE q # text
      <4>1. PICK k \in DOMAIN log : log[k].text = q /\ log[k].result = plans[q]
        BY <1>6, <3>2 DEF CacheIsOfLog
      <4>2. k \in DOMAIN log' /\ log'[k] = log[k]
        BY <1>4
      <4> QED BY <1>6, <3>2, <4>1, <4>2
    <3> QED BY <3>1, <3>2
  <2>2. ASSUME NEW k \in DOMAIN log' PROVE log'[k].text \in DOMAIN plans'
    <3>1. k \in 1..Len(log) \/ k = Len(log) + 1
      BY <1>4
    <3> QED BY <1>2, <1>4, <1>6, <3>1 DEF CacheIsOfLog
  <2> QED BY <2>1, <2>2 DEF CacheIsOfLog
<1> QED BY <1>1, <1>2, <1>3, <1>4, <1>6, <1>7, <1>8, <1>a

LEMMA ExplainSlowStep ==
    ASSUME IInvSlow, ExplainSlow
    PROVE  IInvSlow'
<1> DEFINE text == slow[next]
<1>1. /\ pc = "explaining" /\ pc' = "explaining" /\ next <= Len(slow) /\ next' = next + 1
      /\ UNCHANGED <<schema, slow, metadata, candidates>>
  BY DEF ExplainSlow
<1>2. PICK result \in PlansOf[text] \cup {NoPlan} :
         /\ Explain(text, result)
         /\ found' = found \o (IF Relevant(result) THEN FindingsOf(result) ELSE <<>>)
         /\ inScope' = inScope + (IF Relevant(result) \/ ~ Scoped THEN 1 ELSE 0)
  BY DEF ExplainSlow
<1>3. /\ next = Len(log) + 1 /\ Len(log) \in Nat /\ Len(slow) \in Nat
      /\ slow \in Seq(Texts) /\ candidates = <<>> /\ inScope \in Nat /\ inScope <= Len(log)
      /\ \A f \in ToSet(found) : f.category # "n_plus_one"
      /\ found \in Seq(Findings)
  BY <1>1 DEF IInvSlow, Staged, TypeOKSlow
<1>4. text \in Texts /\ next \in DOMAIN slow /\ DOMAIN slow = 1..Len(slow)
  BY <1>1, <1>3
<1> DEFINE e == [text |-> text, result |-> result]
           told == ToldOf(result, metadata, schema)
<1>5. /\ result \in Results
      /\ e \in Entries
      /\ log' = Append(log, e)
      /\ log \in Seq(Entries) /\ log' \in Seq(Entries)
      /\ DOMAIN log = 1..Len(log) /\ DOMAIN log' = 1..(Len(log) + 1)
      /\ Len(log') = Len(log) + 1
      /\ \A k \in 1..Len(log) : log'[k] = log[k]
      /\ log'[Len(log) + 1].text = text
      /\ DOMAIN plans' = DOMAIN plans \cup {text}
      /\ \A q \in DOMAIN plans' : plans'[q] \in Results
      /\ CacheIsOfLog'
  <2>1. TypeOKSlow /\ CacheIsOfLog
    BY DEF IInvSlow
  <2> HIDE DEF text
  <2> QED BY <1>2, <1>4, <2>1, ExplainStep
<1>6. found' = found \o told /\ told \in Seq(Findings)
  BY <1>2, <1>5, RelevantIs, ToldType DEF ToldOf, FindingsOf, NumericOf
<1>7. inScope' \in Nat /\ inScope' <= Len(log) + 1
  BY <1>2, <1>3
<1> HIDE DEF told
<1>8. found' \in Seq(Findings) /\ ToSet(found') = ToSet(found) \cup ToSet(told)
  <2>1. found \o told \in Seq(Findings)
    BY <1>3, <1>6
  <2> QED BY <1>3, <1>6, <2>1, ToSetConcat
<1>9. TypeOKSlow'
  <2>1. inScope' \in 0..Len(slow')
    BY <1>1, <1>3, <1>7
  <2>2. DOMAIN plans' \subseteq Texts
    BY <1>4, <1>5 DEF IInvSlow, TypeOKSlow
  <2> HIDE DEF e, text
  <2> QED BY <1>1, <1>3, <1>5, <1>8, <2>1, <2>2 DEF IInvSlow, TypeOKSlow, Entries
<1>10. Staged'
  <2>1. \A f \in ToSet(found') : f.category # "n_plus_one"
    BY <1>3, <1>5, <1>8, ToldIsOfPlans DEF told
  <2> QED BY <1>1, <1>3, <1>5, <1>7, <2>1 DEF Staged, Early
<1>11. LogFollowsSlow'
  <2>1. \A k \in DOMAIN log' : k \in DOMAIN slow
    BY <1>1, <1>3, <1>4, <1>5
  <2>2. ASSUME NEW k \in DOMAIN log' PROVE log'[k].text = slow[k]
    <3>1. CASE k \in 1..Len(log)
      <4>1. k \in DOMAIN log \cap DOMAIN slow /\ log'[k] = log[k]
        BY <1>5, <2>1, <3>1
      <4> QED BY <4>1 DEF IInvSlow, LogFollowsSlow
    <3>2. CASE k = Len(log) + 1
      BY <1>3, <1>5, <3>2
    <3> QED BY <1>3, <1>5, <3>1, <3>2
  <2> QED BY <1>1, <2>1, <2>2 DEF LogFollowsSlow
<1>12. CandidatesFollowCache'
  BY <1>1 DEF CandidatesFollowCache
<1>13. Holds'
  <2> DEFINE sl == SlowLogOf(log, slow)
  <2>1. sl \in Seq(Results)
    BY <1>3, <1>5, SlowLogType
  <2>2. SlowLogOf(log', slow') = Append(sl, result)
    <3>1. e.result = result /\ Len(log) < Len(slow)
      BY <1>1, <1>3
    <3> HIDE DEF e
    <3> QED BY <1>1, <1>3, <1>5, <3>1, SlowLogGrows
  <2>3. /\ ConcernsOf(found, schema, log) /\ LargeOf(found, schema, sl)
        /\ ScopeOf(found, schema, metadata, sl)
    BY Restated DEF IInvSlow, Holds, HoldsOf
  <2> HIDE DEF sl, e
  <2>4. ConcernsOf(found \o told, schema, Append(log, e))
    BY <1>3, <1>5, <2>3, TellConcerns DEF told
  <2>5. LargeOf(found \o told, schema, Append(sl, result))
    BY <1>3, <1>5, <2>1, <2>3, TellLarge DEF told
  <2>6. ScopeOf(found \o told, schema, metadata, Append(sl, result))
    BY <1>3, <1>5, <2>1, <2>3, TellScope DEF told
  <2>7. HoldsOf(found', schema', metadata', log', slow')
    BY <1>1, <1>5, <1>6, <2>2, <2>4, <2>5, <2>6 DEF HoldsOf
  <2> QED BY <1>9, <2>7, Restated
<1> QED BY <1>5, <1>9, <1>10, <1>11, <1>12, <1>13 DEF IInvSlow, Holds

KeptFor(q, s, pl) == s = AnySchema \/ (q \in DOMAIN pl /\ RelevantFor(pl[q], s))

LEMMA KeptIs ==
    ASSUME NEW q
    PROVE  /\ Kept(q) <=> KeptFor(q, schema, plans)
           /\ Kept(q)' <=> KeptFor(q, schema', plans')
BY DEF Kept, KeptFor, Scoped, Relevant, RelevantFor

(* A candidate is reported if the cache keeps it, whether it was there     *)
(* before or has just been asked for.                                      *)
LEMMA MatchIs ==
    ASSUME IInvSlow, MatchCandidate
    PROVE  /\ pc = "matching" /\ pc' = "matching" /\ next' = next + 1
           /\ next \in 1..Len(candidates) /\ candidates[next] \in Texts
           /\ UNCHANGED <<schema, slow, metadata, inScope, candidates>>
           /\ Scoped => candidates[next] \in DOMAIN plans'
           /\ found' = IF KeptFor(candidates[next], schema, plans')
                       THEN Append(found, CandidateFinding(candidates[next])) ELSE found
           /\ \/ UNCHANGED <<plans, log>>
              \/ /\ Scoped /\ candidates[next] \notin DOMAIN plans
                 /\ \E result \in PlansOf[candidates[next]] \cup {NoPlan} :
                       Explain(candidates[next], result)
<1> DEFINE text == candidates[next]
<1>1. /\ pc = "matching" /\ pc' = "matching" /\ next' = next + 1 /\ next <= Len(candidates)
      /\ UNCHANGED <<schema, slow, metadata, inScope, candidates>>
  BY DEF MatchCandidate
<1>2. next \in 1..Len(candidates) /\ text \in Texts
  <2>1. candidates \in Seq(Texts) /\ next \in 1..(Len(candidates) + 1)
    BY <1>1 DEF IInvSlow, TypeOKSlow, Staged
  <2> QED BY <1>1, <2>1
<1>3. Candidate(text) = Append(found, CandidateFinding(text))
  BY DEF Candidate, CandidateFinding
<1>4. CASE Scoped /\ text \notin DOMAIN plans
  <2>1. PICK result \in PlansOf[text] \cup {NoPlan} :
           /\ Explain(text, result)
           /\ found' = IF Relevant(result) THEN Candidate(text) ELSE found
    BY <1>4 DEF MatchCandidate
  <2>2. text \in DOMAIN plans' /\ plans'[text] = result
    <3>1. TypeOKSlow /\ CacheIsOfLog
      BY DEF IInvSlow
    <3> HIDE DEF text
    <3> QED BY <1>2, <2>1, <3>1, ExplainStep
  <2> HIDE DEF text
  <2>3. KeptFor(text, schema, plans') <=> Relevant(result)
    <3>1. schema # AnySchema
      BY <1>4 DEF Scoped
    <3> QED BY <2>2, <3>1, RelevantIs DEF KeptFor
  <2>4. found' = IF KeptFor(text, schema, plans') THEN Append(found, CandidateFinding(text)) ELSE found
    BY <1>3, <2>1, <2>3
  <2> QED BY <1>1, <1>2, <1>4, <2>1, <2>2, <2>4 DEF text
<1>5. CASE ~ (Scoped /\ text \notin DOMAIN plans)
  <2>1. /\ found' = IF Scoped /\ ~ Relevant(plans[text]) THEN found ELSE Candidate(text)
        /\ UNCHANGED <<plans, log>>
    BY <1>5 DEF MatchCandidate
  <2> HIDE DEF text
  <2>2. KeptFor(text, schema, plans') <=> ~ (Scoped /\ ~ Relevant(plans[text]))
    BY <1>5, <2>1, RelevantIs DEF KeptFor, Scoped
  <2>3. found' = IF KeptFor(text, schema, plans') THEN Append(found, CandidateFinding(text)) ELSE found
    BY <1>3, <2>1, <2>2
  <2> QED BY <1>1, <1>2, <1>5, <2>1, <2>3 DEF text
<1> QED BY <1>4, <1>5

LEMMA MatchStep ==
    ASSUME IInvSlow, MatchCandidate
    PROVE  IInvSlow'
<1> DEFINE text == candidates[next]
           x == CandidateFinding(text)
<1>1. /\ pc = "matching" /\ pc' = "matching" /\ next' = next + 1
      /\ next \in 1..Len(candidates) /\ text \in Texts
      /\ UNCHANGED <<schema, slow, metadata, inScope, candidates>>
      /\ Scoped => text \in DOMAIN plans'
      /\ found' = IF KeptFor(text, schema, plans') THEN Append(found, x) ELSE found
  BY MatchIs
<1>2. \/ UNCHANGED <<plans, log>>
      \/ /\ Scoped /\ text \notin DOMAIN plans
         /\ \E result \in PlansOf[text] \cup {NoPlan} : Explain(text, result)
  BY MatchIs
<1>a. text = candidates[next]
  OBVIOUS
<1> HIDE DEF text
<1>3. /\ slow \in Seq(Texts) /\ Len(slow) \in Nat /\ Len(slow) <= Len(log)
      /\ log \in Seq(Entries) /\ Len(log) \in Nat /\ DOMAIN log = 1..Len(log)
      /\ DOMAIN slow = 1..Len(slow)
      /\ candidates \in Seq(Texts) /\ Len(candidates) \in Nat
      /\ found \in Seq(Findings) /\ TypeOKSlow /\ CacheIsOfLog
  BY <1>1 DEF IInvSlow, TypeOKSlow, Staged, Entries
<1>4. /\ x \in Findings /\ x.category = "n_plus_one" /\ x.evidence = text
  BY <1>1, CandidateType
<1> HIDE DEF x
<1>5. /\ found' \in Seq(Findings)
      /\ ToSet(found') = ToSet(found) \cup (IF KeptFor(text, schema, plans') THEN {x} ELSE {})
  BY <1>1, <1>3, <1>4, ToSetAppend
(* What becomes of the cache and the log, in both cases. *)
<1>6. /\ CacheIsOfLog'
      /\ log' \in Seq(Entries) /\ Len(log) <= Len(log')
      /\ DOMAIN plans' \subseteq Texts /\ DOMAIN plans \subseteq DOMAIN plans'
      /\ \A q \in DOMAIN plans : plans'[q] = plans[q]
      /\ \A q \in DOMAIN plans' : plans'[q] \in Results
      /\ LogFollowsSlow'
      /\ SlowLogOf(log', slow) = SlowLogOf(log, slow)
      /\ ConcernsOf(found, schema, log')
  <2>0. ConcernsOf(found, schema, log)
    BY Restated DEF IInvSlow, Holds, HoldsOf
  <2>1. CASE UNCHANGED <<plans, log>>
    <3>1. CacheIsOfLog' /\ LogFollowsSlow'
      BY <1>1, <2>1 DEF IInvSlow, CacheIsOfLog, LogFollowsSlow, Scoped
    <3> QED BY <1>3, <2>0, <2>1, <3>1 DEF TypeOKSlow
  <2>2. CASE /\ Scoped /\ text \notin DOMAIN plans
             /\ \E result \in PlansOf[text] \cup {NoPlan} : Explain(text, result)
    <3>1. PICK result \in PlansOf[text] \cup {NoPlan} : Explain(text, result)
      BY <2>2
    <3> DEFINE e == [text |-> text, result |-> result]
    <3>2. /\ e \in Entries
          /\ log' = Append(log, e)
          /\ log' \in Seq(Entries) /\ DOMAIN log' = 1..(Len(log) + 1)
          /\ Len(log') = Len(log) + 1
          /\ \A k \in 1..Len(log) : log'[k] = log[k]
          /\ log'[Len(log) + 1].text = text
          /\ DOMAIN plans' = DOMAIN plans \cup {text}
          /\ \A q \in DOMAIN plans : q # text => plans'[q] = plans[q]
          /\ \A q \in DOMAIN plans' : plans'[q] \in Results
          /\ CacheIsOfLog'
      BY <1>1, <1>3, <3>1, ExplainStep
    <3> HIDE DEF e
    <3>3. SlowLogOf(log', slow) = SlowLogOf(log, slow)
      BY <1>3, <3>2, SlowLogStays
    <3>4. ConcernsOf(found, schema, log')
      BY <1>3, <2>0, <3>2, LogConcerns
    <3>5. LogFollowsSlow'
      <4>1. ASSUME NEW k \in DOMAIN log' \cap DOMAIN slow PROVE log'[k].text = slow[k]
        <5>1. k \in DOMAIN log \cap DOMAIN slow /\ log'[k] = log[k]
          BY <1>3, <3>2
        <5> QED BY <5>1 DEF IInvSlow, LogFollowsSlow
      <4>2. ASSUME NEW k \in DOMAIN log' \ DOMAIN slow, NEW j \in DOMAIN log',
                   log'[j].text = log'[k].text
            PROVE  j = k
        <5>1. \A i \in DOMAIN log : log'[i].text = log[i].text /\ log[i].text # text
          BY <1>3, <2>2, <3>2 DEF CacheIsOfLog
        <5>2. \A i \in DOMAIN log' : i \in DOMAIN log \/ i = Len(log) + 1
          BY <1>3, <3>2
        <5>3. CASE k \in DOMAIN log
          <6>1. j \in DOMAIN log
            BY <3>2, <4>2, <5>1, <5>2, <5>3
          <6> QED BY <4>2, <5>1, <5>3, <6>1 DEF IInvSlow, LogFollowsSlow
        <5>4. CASE k = Len(log) + 1
          BY <3>2, <4>2, <5>1, <5>2, <5>4
        <5> QED BY <5>2, <5>3, <5>4
      <4> QED BY <1>1, <2>2, <4>1, <4>2 DEF LogFollowsSlow, Scoped
    <3>6. DOMAIN plans' \subseteq Texts
      BY <1>1, <1>3, <3>2 DEF TypeOKSlow
    <3> QED BY <1>3, <2>2, <3>2, <3>3, <3>4, <3>5, <3>6
  <2> QED BY <1>2, <2>1, <2>2
<1>7. TypeOKSlow'
  <2>1. next' \in Nat
    BY <1>1
  <2> QED BY <1>1, <1>3, <1>5, <1>6, <2>1 DEF TypeOKSlow, Entries
<1>8. Staged'
  <2>1. Len(log') \in Nat /\ Len(slow) <= Len(log')
    BY <1>3, <1>6
  <2>2. next' \in 1..(Len(candidates) + 1)
    BY <1>1, <1>3
  <2> QED BY <1>1, <2>1, <2>2 DEF Staged, Early
<1>9. CandidatesFollowCache'
  <2>1. 1..(next' - 1) = 1..(next - 1) \cup {next} /\ \A c \in 1..(next - 1) : c # next
    BY <1>1, <1>3
  <2>2. \A c \in 1..(next - 1) : Scoped => candidates[c] \in DOMAIN plans
    BY <1>1 DEF IInvSlow, CandidatesFollowCache
  <2>3. \A c \in 1..(next' - 1) : Scoped' => candidates'[c] \in DOMAIN plans'
    BY <1>1, <1>6, <1>a, <2>1, <2>2 DEF Scoped
  <2>4. ASSUME NEW q \in Texts, NEW c \in 1..(next - 1), candidates[c] = q
        PROVE  Kept(q) <=> Kept(q)'
    <3>1. CASE ~ Scoped
      BY <1>1, <3>1 DEF Kept, Scoped
    <3>2. CASE Scoped
      <4>1. q \in DOMAIN plans /\ q \in DOMAIN plans' /\ plans'[q] = plans[q]
        BY <1>6, <2>2, <2>4, <3>2
      <4> QED BY <1>1, <4>1 DEF Kept, Scoped, Relevant
    <3> QED BY <3>1, <3>2
  <2>5. ASSUME NEW q \in Texts
        PROVE  (\E f \in ToSet(found') : f.category = "n_plus_one" /\ f.evidence = q)
                  <=> \E c \in 1..(next' - 1) : candidates'[c] = q /\ Kept(q)'
    <3>1. (\E f \in ToSet(found) : f.category = "n_plus_one" /\ f.evidence = q)
             <=> \E c \in 1..(next - 1) : candidates[c] = q /\ Kept(q)
      BY <1>1 DEF IInvSlow, CandidatesFollowCache
    <3>2. (\E f \in ToSet(found') : f.category = "n_plus_one" /\ f.evidence = q)
             <=> \/ \E f \in ToSet(found) : f.category = "n_plus_one" /\ f.evidence = q
                 \/ KeptFor(text, schema, plans') /\ text = q
      BY <1>4, <1>5
    <3>3. (\E c \in 1..(next' - 1) : candidates'[c] = q /\ Kept(q)')
             <=> \/ \E c \in 1..(next - 1) : candidates[c] = q /\ Kept(q)'
                 \/ text = q /\ Kept(q)'
      BY <1>1, <1>a, <2>1
    <3>4. (\E c \in 1..(next - 1) : candidates[c] = q /\ Kept(q)')
             <=> \E c \in 1..(next - 1) : candidates[c] = q /\ Kept(q)
      BY <2>4
    <3>5. KeptFor(q, schema, plans') <=> Kept(q)'
      BY <1>1, KeptIs
    <3> QED BY <3>1, <3>2, <3>3, <3>4, <3>5
  <2> QED BY <1>1, <2>3, <2>5 DEF CandidatesFollowCache
<1>10. Holds'
  <2> DEFINE sl == SlowLogOf(log, slow)
  <2>1. LargeOf(found, schema, sl) /\ ScopeOf(found, schema, metadata, sl)
    BY <1>3, Restated DEF IInvSlow, Holds, HoldsOf
  <2>2. SlowLogOf(log', slow') = sl
    BY <1>1, <1>6
  <2> HIDE DEF sl
  <2>3. /\ ConcernsOf(found', schema, log')
        /\ LargeOf(found', schema, sl)
        /\ ScopeOf(found', schema, metadata, sl)
    <3>1. CASE KeptFor(text, schema, plans')
      <4>1. found' = Append(found, x)
        BY <1>1, <3>1
      <4>2. schema # AnySchema =>
               \E e \in ToSet(log') : e.text = text /\ RelevantFor(e.result, schema)
        <5> SUFFICES ASSUME schema # AnySchema
                     PROVE  \E e \in ToSet(log') :
                               e.text = text /\ RelevantFor(e.result, schema)
          OBVIOUS
        <5>1. text \in DOMAIN plans' /\ RelevantFor(plans'[text], schema)
          BY <3>1 DEF KeptFor
        <5>2. PICK k \in DOMAIN log' :
                 log'[k].text = text /\ log'[k].result = plans'[text]
          BY <1>6, <5>1 DEF CacheIsOfLog
        <5> QED BY <5>1, <5>2 DEF ToSet
      <4>3. ConcernsOf(found', schema, log')
        BY <1>1, <1>3, <1>6, <4>1, <4>2, AddConcerns DEF x
      <4>4. LargeOf(found', schema, sl)
        BY <1>3, <1>4, <2>1, <4>1, AddLarge
      <4>5. ScopeOf(found', schema, metadata, sl)
        BY <1>1, <1>3, <2>1, <4>1, AddScope DEF x
      <4> QED BY <4>3, <4>4, <4>5
    <3>2. CASE ~ KeptFor(text, schema, plans')
      BY <1>1, <1>6, <2>1, <3>2
    <3> QED BY <3>1, <3>2
  <2>4. HoldsOf(found', schema', metadata', log', slow')
    BY <1>1, <2>2, <2>3 DEF HoldsOf
  <2> QED BY <1>7, <2>4, Restated
<1> QED BY <1>6, <1>7, <1>8, <1>9, <1>10 DEF IInvSlow, Holds

LEMMA SlowStep ==
    ASSUME IInvSlow, [AnalyzeSlowQueries]_slowVars
    PROVE  IInvSlow'
<1> USE DEF Early
<1>1. CASE UNCHANGED slowVars
  BY <1>1, GoingOn DEF slowVars
<1>2. CASE Validate
  BY <1>2, GoingOn DEF Validate, Pass
<1>3. CASE Installed
  BY <1>3, GoingOn DEF Installed, Pass
<1>4. CASE NotInstalled \/ NotLoaded
  BY <1>4, Unavailable
<1>5. CASE Loaded
  BY <1>5, GoingOn DEF Loaded, Pass
<1>6. CASE CollectSlow
  BY <1>6, CollectSlowStep
<1>7. CASE CollectMetadata
  BY <1>7, CollectMetadataStep
<1>8. CASE ExplainSlow
  BY <1>8, ExplainSlowStep
<1>9. CASE CollectCandidates
  BY <1>9, CollectCandidatesStep
<1>10. CASE MatchCandidate
  BY <1>10, MatchStep
<1>11. CASE Return
  BY <1>11, GoingOn DEF Return, Pass
<1>12. CASE Raise
  BY <1>12, GoingOn DEF Raise
<1> QED BY <1>1, <1>2, <1>3, <1>4, <1>5, <1>6, <1>7, <1>8, <1>9, <1>10, <1>11, <1>12
        DEF AnalyzeSlowQueries

-----------------------------------------------------------------------------
(* What follows from the invariant. *)
LEMMA Places ==
    ASSUME NEW S, NEW s \in Seq(S), NEW q
    PROVE  /\ IsFiniteSet({k \in DOMAIN s : s[k] = q})
           /\ Occurrences(q, s) \in Nat
           /\ Occurrences(q, s) = 0 => \A k \in DOMAIN s : s[k] # q
           /\ Occurrences(q, s) = 1 =>
                 \E k \in DOMAIN s : s[k] = q /\ \A j \in DOMAIN s : s[j] = q => j = k
<1> DEFINE P == {k \in DOMAIN s : s[k] = q}
<1>1. IsFiniteSet(P)
  <2>1. DOMAIN s = 1..Len(s) /\ Len(s) \in Nat
    OBVIOUS
  <2>2. IsFiniteSet(1..Len(s)) /\ P \subseteq 1..Len(s)
    BY <2>1, FS_Interval
  <2> QED BY <2>2, FS_Subset
<1>2. Cardinality(P) \in Nat
  BY <1>1, FS_CardinalityType
<1>3. Cardinality(P) = 0 => P = {}
  BY <1>1, FS_EmptySet
<1>4. Cardinality(P) = 1 => \E k : P = {k}
  BY <1>1, FS_Singleton
<1>5. Occurrences(q, s) = Cardinality(P)
  BY DEF Occurrences
<1>6. ASSUME Cardinality(P) = 0 PROVE \A k \in DOMAIN s : s[k] # q
  <2>1. P = {}
    BY <1>3, <1>6
  <2> QED BY <2>1
<1>7. ASSUME Cardinality(P) = 1
      PROVE  \E k \in DOMAIN s : s[k] = q /\ \A j \in DOMAIN s : s[j] = q => j = k
  <2>1. PICK k : P = {k}
    BY <1>4, <1>7
  <2>2. k \in P /\ \A j \in P : j = k
    <3> HIDE DEF P
    <3> QED BY <2>1
  <2> QED BY <2>2
<1>8. IsFiniteSet({k \in DOMAIN s : s[k] = q})
  BY <1>1
<1> HIDE DEF P
<1> QED BY <1>2, <1>5, <1>6, <1>7, <1>8

LEMMA ExplainsBoundedByInv == IInvSlow => ExplainsAreBounded
<1> SUFFICES ASSUME IInvSlow, NEW q \in Texts
             PROVE  Cardinality({k \in DOMAIN log : log[k].text = q}) <=
                       (IF Occurrences(q, slow) = 0 /\ Scoped THEN 1
                        ELSE Occurrences(q, slow))
  BY DEF ExplainsAreBounded
<1> DEFINE R == {k \in DOMAIN log : log[k].text = q}
           P == {k \in DOMAIN slow : slow[k] = q}
           n == Occurrences(q, slow)
<1>1. /\ slow \in Seq(Texts) /\ log \in Seq(Entries)
      /\ DOMAIN slow = 1..Len(slow) /\ DOMAIN log = 1..Len(log)
      /\ Len(slow) \in Nat /\ Len(log) \in Nat
  BY DEF IInvSlow, TypeOKSlow, Entries
<1>2. IsFiniteSet(P) /\ n = Cardinality(P) /\ n \in Nat
  BY <1>1, Places DEF Occurrences
<1>3. CASE R \subseteq DOMAIN slow
  <2>1. R \subseteq P
    BY <1>3 DEF IInvSlow, LogFollowsSlow
  <2> HIDE DEF R, P, n
  <2>2. Cardinality(R) <= Cardinality(P) /\ IsFiniteSet(R)
    BY <1>2, <2>1, FS_Subset
  <2>3. Cardinality(R) <= n
    BY <1>2, <2>2
  <2>4. Cardinality(R) \in Nat
    BY <2>2, FS_CardinalityType
  <2>5. Cardinality(R) <= IF n = 0 /\ Scoped THEN 1 ELSE n
    BY <1>2, <2>3, <2>4
  <2> QED BY <2>5 DEF R, n
<1>4. CASE ~ (R \subseteq DOMAIN slow)
  <2>1. PICK k \in R : k \notin DOMAIN slow
    BY <1>4
  <2>2. Scoped /\ \A j \in DOMAIN log : log[j].text = log[k].text => j = k
    BY <2>1 DEF IInvSlow, LogFollowsSlow
  <2>3. R = {k}
    BY <2>1, <2>2
  <2>4. P = {}
    <3> SUFFICES ASSUME NEW i \in P PROVE FALSE
      OBVIOUS
    <3>1. i \in DOMAIN log
      BY <1>1, <2>1
    <3>2. log[i].text = q
      BY <3>1 DEF IInvSlow, LogFollowsSlow
    <3> QED BY <2>1, <2>2, <3>1, <3>2
  <2> HIDE DEF R, P, n
  <2>5. Cardinality(R) = 1 /\ Cardinality(P) = 0
    BY <2>3, <2>4, FS_Singleton, FS_EmptySet
  <2>6. Cardinality(R) <= IF n = 0 /\ Scoped THEN 1 ELSE n
    BY <1>2, <2>2, <2>5
  <2> QED BY <2>6 DEF R, n
<1> QED BY <1>3, <1>4

LEMMA PassesAgreeByInv == IInvSlow => PassesAgree
<1> SUFFICES ASSUME IInvSlow, NEW c \in DOMAIN candidates,
                    c < next, pc \in {"matching", "answered"},
                    Occurrences(candidates[c], slow) = 1
             PROVE  (\E f \in ToSet(found) :
                        f.category = "n_plus_one" /\ f.evidence = candidates[c])
                      <=> ~ Scoped \/ \E k \in 1..Len(slow) :
                             slow[k] = candidates[c] /\ Relevant(log[k].result)
  BY DEF PassesAgree
<1> DEFINE q == candidates[c]
<1>1. /\ slow \in Seq(Texts) /\ log \in Seq(Entries) /\ candidates \in Seq(Texts)
      /\ DOMAIN slow = 1..Len(slow) /\ DOMAIN log = 1..Len(log)
      /\ DOMAIN candidates = 1..Len(candidates) /\ Len(candidates) \in Nat
      /\ Len(slow) \in Nat /\ Len(log) \in Nat /\ Len(slow) <= Len(log)
      /\ next \in 1..(Len(candidates) + 1)
  BY DEF IInvSlow, TypeOKSlow, Entries, Staged
<1>2. q \in Texts /\ c \in 1..(next - 1)
  BY <1>1
<1>3. PICK k \in DOMAIN slow : slow[k] = q /\ \A j \in DOMAIN slow : slow[j] = q => j = k
  BY <1>1, Places
<1> HIDE DEF q
<1>4. (\E f \in ToSet(found) : f.category = "n_plus_one" /\ f.evidence = q) <=> Kept(q)
  <2>1. (\E f \in ToSet(found) : f.category = "n_plus_one" /\ f.evidence = q)
           <=> \E d \in 1..(next - 1) : candidates[d] = q /\ Kept(q)
    BY <1>2 DEF IInvSlow, CandidatesFollowCache
  <2> QED BY <1>2, <2>1 DEF q
<1>5. k \in DOMAIN log /\ log[k].text = q
  BY <1>1, <1>3 DEF IInvSlow, LogFollowsSlow
<1>6. \A j \in DOMAIN log : log[j].text = q => j = k
  <2> SUFFICES ASSUME NEW j \in DOMAIN log, log[j].text = q PROVE j = k
    OBVIOUS
  <2>1. CASE j \in DOMAIN slow
    BY <1>3, <2>1 DEF IInvSlow, LogFollowsSlow
  <2>2. CASE j \notin DOMAIN slow
    BY <1>5, <2>2 DEF IInvSlow, LogFollowsSlow
  <2> QED BY <2>1, <2>2
<1>7. q \in DOMAIN plans /\ plans[q] = log[k].result
  <2>1. q \in DOMAIN plans
    BY <1>5 DEF IInvSlow, CacheIsOfLog
  <2> QED BY <1>6, <2>1 DEF IInvSlow, CacheIsOfLog
<1>8. Kept(q) <=> ~ Scoped \/ Relevant(log[k].result)
  BY <1>7 DEF Kept
<1>9. (\E i \in 1..Len(slow) : slow[i] = q /\ Relevant(log[i].result))
         <=> Relevant(log[k].result)
  BY <1>1, <1>3
<1> QED BY <1>4, <1>8, <1>9 DEF q

-----------------------------------------------------------------------------
(* Sorting by severity.                                                    *)
Graded(v) == {f \in Listed : f.severity = v}

LEMMA ListedSeverity == \A f \in Listed : f.severity \in Severities
<1>1. \A f \in Findings : f.severity \in Severities
  BY DEF Findings, Severities
<1>2. ASSUME NEW s \in DOMAIN Others, NEW findings \in Others[s], NEW f \in ToSet(findings)
      PROVE  f.severity \in Severities
  BY OthersAssumption DEF ToSet
<1> QED BY <1>1, <1>2 DEF Listed

LEMMA OfSeverityIs ==
    ASSUME NEW x \in Seq(Listed), NEW v
    PROVE  /\ OfSeverity(x, v) = Among(x, Graded(v))
           /\ Among(x, Graded(v)) \in Seq(Listed)
           /\ Len(Among(x, Graded(v))) \in Nat
           /\ ToSet(Among(x, Graded(v))) = ToSet(x) \cap Graded(v)
<1>1. \A f \in ToSet(x) : f \in Listed
  BY ToSetType
<1>2. \A f \in ToSet(x) : f \in {g \in ToSet(x) : g.severity = v} <=> f \in Graded(v)
  BY <1>1 DEF Graded
<1>3. OfSeverity(x, v) = Among(x, Graded(v))
  BY <1>2, AmongAgree DEF OfSeverity
<1>4. Among(x, Graded(v)) \in Seq(Listed)
  BY AmongFlat
<1> DEFINE a == Among(x, Graded(v))
<1>5. ToSet(a) = ToSet(x) \cap Graded(v)
  BY AmongToSet
<1> HIDE DEF a
<1>6. a \in Seq(Listed) => Len(a) \in Nat
  OBVIOUS
<1> QED BY <1>3, <1>4, <1>5, <1>6 DEF a

LEMMA FlattenFour ==
    ASSUME NEW S
    PROVE  \A t \in Seq(Seq(S)) :
              Len(t) = 4 => FlattenSeq(t) = t[1] \o t[2] \o t[3] \o t[4]
<1> DEFINE Q == Seq(S)
<1>1. \A r \in Seq(Q), x \in Q : FlattenSeq(Append(r, x)) = FlattenSeq(r) \o x
  BY FlattenAppend
<1>2. \A x \in Q : <<>> \o x = x
  BY ConcatEmptySeq
<1> HIDE DEF Q
<1> SUFFICES ASSUME NEW t \in Seq(Q), Len(t) = 4
             PROVE  FlattenSeq(t) = t[1] \o t[2] \o t[3] \o t[4]
  BY DEF Q
<1> DEFINE a == t[1]
           b == t[2]
           c == t[3]
           d == t[4]
<1>0. a \in Q /\ b \in Q /\ c \in Q /\ d \in Q /\ t = <<a, b, c, d>>
  OBVIOUS
<1> HIDE DEF a, b, c, d
<1>3. /\ <<>> \in Seq(Q) /\ <<a>> \in Seq(Q) /\ <<a, b>> \in Seq(Q) /\ <<a, b, c>> \in Seq(Q)
      /\ <<a>> = Append(<<>>, a) /\ <<a, b>> = Append(<<a>>, b)
      /\ <<a, b, c>> = Append(<<a, b>>, c) /\ <<a, b, c, d>> = Append(<<a, b, c>>, d)
  BY <1>0
<1>4. FlattenSeq(<<a>>) = a
  BY <1>0, <1>1, <1>2, <1>3, FlattenEmpty
<1>5. FlattenSeq(<<a, b>>) = a \o b
  BY <1>0, <1>1, <1>3, <1>4
<1>6. FlattenSeq(<<a, b, c>>) = a \o b \o c
  BY <1>0, <1>1, <1>3, <1>5
<1>7. FlattenSeq(<<a, b, c, d>>) = a \o b \o c \o d
  BY <1>0, <1>1, <1>3, <1>6
<1> QED BY <1>0, <1>7 DEF a, b, c, d

LEMMA FlattenFive ==
    ASSUME NEW S
    PROVE  \A t \in Seq(Seq(S)) :
              Len(t) = 5 => FlattenSeq(t) = t[1] \o t[2] \o t[3] \o t[4] \o t[5]
<1> DEFINE Q == Seq(S)
<1>1. \A r \in Seq(Q), x \in Q : FlattenSeq(Append(r, x)) = FlattenSeq(r) \o x
  BY FlattenAppend
<1>2. \A t \in Seq(Q) : Len(t) = 4 => FlattenSeq(t) = t[1] \o t[2] \o t[3] \o t[4]
  BY FlattenFour
<1> HIDE DEF Q
<1> SUFFICES ASSUME NEW t \in Seq(Q), Len(t) = 5
             PROVE  FlattenSeq(t) = t[1] \o t[2] \o t[3] \o t[4] \o t[5]
  BY DEF Q
<1> DEFINE a == t[1]
           b == t[2]
           c == t[3]
           d == t[4]
           e == t[5]
           r == <<a, b, c, d>>
<1>3. /\ a \in Q /\ b \in Q /\ c \in Q /\ d \in Q /\ e \in Q
      /\ t = <<a, b, c, d, e>>
  <2>1. DOMAIN t = 1..5
    OBVIOUS
  <2>2. a \in Q /\ b \in Q /\ c \in Q /\ d \in Q /\ e \in Q
    <3>1. \A k \in 1..5 : t[k] \in Q
      BY <2>1, ElementOfSeq
    <3> QED BY <3>1
  <2>3. t = [k \in 1..5 |-> t[k]]
    BY <2>1
  <2>4. [k \in 1..5 |-> t[k]] = <<a, b, c, d, e>>
    OBVIOUS
  <2> QED BY <2>2, <2>3, <2>4
<1> HIDE DEF a, b, c, d, e
<1>4. /\ r \in Seq(Q) /\ Len(r) = 4 /\ t = Append(r, e)
      /\ r[1] = a /\ r[2] = b /\ r[3] = c /\ r[4] = d
  BY <1>3
<1> HIDE DEF r
<1>5. FlattenSeq(r) = a \o b \o c \o d
  BY <1>2, <1>4
<1>6. FlattenSeq(t) = FlattenSeq(r) \o e
  BY <1>1, <1>3, <1>4
<1> QED BY <1>5, <1>6 DEF a, b, c, d, e

LEMMA SortedIs ==
    ASSUME NEW x \in Seq(Listed)
    PROVE  Sorted(x) = Among(x, Graded("critical")) \o Among(x, Graded("high"))
                          \o Among(x, Graded("medium")) \o Among(x, Graded("low"))
                          \o Among(x, Graded("info"))
<1> DEFINE o == <<"critical", "high", "medium", "low", "info">>
           t == [k \in 1..5 |-> OfSeverity(x, o[k])]
<1>1. /\ t[1] = Among(x, Graded("critical")) /\ t[2] = Among(x, Graded("high"))
      /\ t[3] = Among(x, Graded("medium")) /\ t[4] = Among(x, Graded("low"))
      /\ t[5] = Among(x, Graded("info"))
  BY OfSeverityIs
<1>2. Sorted(x) = FlattenSeq(t)
  BY DEF Sorted
<1>3. \A k \in 1..5 : OfSeverity(x, o[k]) \in Seq(Listed)
  BY OfSeverityIs
<1>4. t \in Seq(Seq(Listed)) /\ Len(t) = 5
  BY <1>3
<1> HIDE DEF t
<1>5. FlattenSeq(t) = t[1] \o t[2] \o t[3] \o t[4] \o t[5]
  BY <1>4, FlattenFive
<1> QED BY <1>1, <1>2, <1>5

(* Sorting keeps the findings of each severity, in their order.            *)
LEMMA SortedKeeps ==
    ASSUME NEW x \in Seq(Listed), NEW v \in Severities
    PROVE  Among(Sorted(x), Graded(v)) = Among(x, Graded(v))
<1> DEFINE o == <<"critical", "high", "medium", "low", "info">>
           t == [k \in 1..5 |-> OfSeverity(x, o[k])]
           u == AmongEach(t, Graded(v))
           a == Among(x, Graded(v))
<1>1. \A k \in 1..5 : /\ OfSeverity(x, o[k]) = Among(x, Graded(o[k]))
                      /\ OfSeverity(x, o[k]) \in Seq(Listed)
  BY OfSeverityIs
<1>2. t \in Seq(Seq(Listed)) /\ DOMAIN t = 1..5
  BY <1>1
<1>3. Sorted(x) = FlattenSeq(t)
  BY DEF Sorted
<1>4. \A k \in 1..5 : u[k] = IF o[k] = v THEN a ELSE <<>>
  <2> SUFFICES ASSUME NEW k \in 1..5 PROVE u[k] = IF o[k] = v THEN a ELSE <<>>
    OBVIOUS
  <2>1. u[k] = Among(Among(x, Graded(o[k])), Graded(v))
    BY <1>1 DEF AmongEach
  <2>2. Among(Among(x, Graded(o[k])), Graded(v)) = Among(x, Graded(o[k]) \cap Graded(v))
    BY AmongTwice
  <2>3. o[k] = v => Graded(o[k]) \cap Graded(v) = Graded(v)
    OBVIOUS
  <2>4. o[k] # v => ToSet(x) \cap (Graded(o[k]) \cap Graded(v)) = {}
    BY DEF Graded
  <2>5. o[k] # v => Among(x, Graded(o[k]) \cap Graded(v)) = <<>>
    BY <2>4, AmongNone
  <2> QED BY <2>1, <2>2, <2>3, <2>5
<1>5. a \in Seq(Listed)
  BY AmongFlat
<1>6. u = [k \in 1..5 |-> u[k]]
  BY <1>2 DEF AmongEach
<1>7. Among(Sorted(x), Graded(v)) = FlattenSeq(u)
  <2> HIDE DEF t
  <2> QED BY <1>2, <1>3, AmongFlatten
<1> HIDE DEF u, a
<1>8. <<>> \in Seq(Listed)
  OBVIOUS
<1>9. \A k \in 1..5 : u[k] \in Seq(Listed)
  BY <1>4, <1>5, <1>8
<1>10. u \in Seq(Seq(Listed)) /\ Len(u) = 5
  BY <1>6, <1>9
<1>11. FlattenSeq(u) = u[1] \o u[2] \o u[3] \o u[4] \o u[5]
  BY <1>10, FlattenFive
<1>12. <<>> \o <<>> = <<>> /\ a \o <<>> = a /\ <<>> \o a = a
  BY <1>5
<1>13. \/ u[1] = a /\ u[2] = <<>> /\ u[3] = <<>> /\ u[4] = <<>> /\ u[5] = <<>>
       \/ u[1] = <<>> /\ u[2] = a /\ u[3] = <<>> /\ u[4] = <<>> /\ u[5] = <<>>
       \/ u[1] = <<>> /\ u[2] = <<>> /\ u[3] = a /\ u[4] = <<>> /\ u[5] = <<>>
       \/ u[1] = <<>> /\ u[2] = <<>> /\ u[3] = <<>> /\ u[4] = a /\ u[5] = <<>>
       \/ u[1] = <<>> /\ u[2] = <<>> /\ u[3] = <<>> /\ u[4] = <<>> /\ u[5] = a
  <2>1. /\ o[1] = "critical" /\ o[2] = "high" /\ o[3] = "medium" /\ o[4] = "low"
        /\ o[5] = "info"
    OBVIOUS
  <2> HIDE DEF o
  <2> QED BY <1>4, <2>1 DEF Severities
<1>14. FlattenSeq(u) = a
  BY <1>11, <1>12, <1>13
<1> QED BY <1>7, <1>14 DEF a

(* A finding is of one severity only: the parts are as long as the whole.  *)
LEMMA GradedLengths ==
    ASSUME NEW x \in Seq(Listed)
    PROVE  Len(Among(x, Graded("critical"))) + Len(Among(x, Graded("high")))
              + Len(Among(x, Graded("medium"))) + Len(Among(x, Graded("low")))
              + Len(Among(x, Graded("info"))) = Len(x)
<1> DEFINE Of(r, v) == Len(Among(r, Graded(v)))
           Z == {r \in Seq(Listed) :
                   Of(r, "critical") + Of(r, "high") + Of(r, "medium")
                      + Of(r, "low") + Of(r, "info") = Len(r)}
<1>1. <<>> \in Z
  <2>1. \A v : Of(<<>>, v) = 0
    BY AmongEmpty
  <2> QED BY <2>1
<1>2. \A r \in Seq(Listed), f \in Listed : r \in Z => Append(r, f) \in Z
  <2> SUFFICES ASSUME NEW r \in Z, NEW f \in Listed PROVE Append(r, f) \in Z
    OBVIOUS
  <2>0. r \in Seq(Listed)
    OBVIOUS
  <2>1. \A v : Of(r, v) \in Nat
    BY <2>0, OfSeverityIs
  <2>2. \A v : Of(Append(r, f), v) = IF f.severity = v THEN Of(r, v) + 1 ELSE Of(r, v)
    <3> SUFFICES ASSUME NEW v
                 PROVE  Of(Append(r, f), v) =
                           IF f.severity = v THEN Of(r, v) + 1 ELSE Of(r, v)
      OBVIOUS
    <3>1. Among(Append(r, f), Graded(v)) =
             IF f \in Graded(v) THEN Append(Among(r, Graded(v)), f)
                                ELSE Among(r, Graded(v))
      BY <2>0, AmongAppend
    <3>2. f \in Graded(v) <=> f.severity = v
      BY DEF Graded
    <3>3. Among(r, Graded(v)) \in Seq(Listed)
      BY <2>0, AmongFlat
    <3>4. Len(Append(Among(r, Graded(v)), f)) = Len(Among(r, Graded(v))) + 1
      BY <3>3
    <3> QED BY <3>1, <3>2, <3>4
  <2>3. f.severity \in Severities
    BY ListedSeverity
  <2>4. Of(r, "critical") + Of(r, "high") + Of(r, "medium")
           + Of(r, "low") + Of(r, "info") = Len(r)
    OBVIOUS
  <2>5. Append(r, f) \in Seq(Listed) /\ Len(Append(r, f)) = Len(r) + 1 /\ Len(r) \in Nat
    BY <2>0
  <2> HIDE DEF Of
  <2> DEFINE g == f.severity
             New(v) == IF g = v THEN Of(r, v) + 1 ELSE Of(r, v)
  <2>6. New("critical") + New("high") + New("medium") + New("low") + New("info") = Len(r) + 1
    <3>1. /\ Of(r, "critical") \in Nat /\ Of(r, "high") \in Nat /\ Of(r, "medium") \in Nat
          /\ Of(r, "low") \in Nat /\ Of(r, "info") \in Nat
      BY <2>1
    <3>2. g \in Severities
      BY <2>3
    <3> HIDE DEF g
    <3> QED BY <3>1, <3>2, <2>4, <2>5 DEF Severities
  <2>7. \A v : Of(Append(r, f), v) = New(v)
    BY <2>2
  <2> HIDE DEF New, g
  <2>8. Of(Append(r, f), "critical") + Of(Append(r, f), "high") + Of(Append(r, f), "medium")
           + Of(Append(r, f), "low") + Of(Append(r, f), "info") = Len(r) + 1
    BY <2>6, <2>7
  <2> QED BY <2>5, <2>8 DEF Of
<1>3. x \in Z
  <2> HIDE DEF Z
  <2> QED BY <1>1, <1>2, SeqInduction
<1> QED BY <1>3

LEMMA SortedLength ==
    ASSUME NEW x \in Seq(Listed)
    PROVE  Sorted(x) \in Seq(Listed) /\ Len(Sorted(x)) = Len(x)
<1> DEFINE A(v) == Among(x, Graded(v))
<1>1. \A v : A(v) \in Seq(Listed) /\ Len(A(v)) \in Nat
  BY OfSeverityIs
<1>2. Len(A("critical")) + Len(A("high")) + Len(A("medium")) + Len(A("low"))
         + Len(A("info")) = Len(x)
  BY GradedLengths
<1>3. Sorted(x) = A("critical") \o A("high") \o A("medium") \o A("low") \o A("info")
  BY SortedIs
<1>4. \A r, s \in Seq(Listed) : r \o s \in Seq(Listed) /\ Len(r \o s) = Len(r) + Len(s)
  OBVIOUS
<1> DEFINE a == A("critical")
           b == A("high")
           c == A("medium")
           d == A("low")
           e == A("info")
<1>5. /\ a \in Seq(Listed) /\ b \in Seq(Listed) /\ c \in Seq(Listed)
      /\ d \in Seq(Listed) /\ e \in Seq(Listed)
  BY <1>1
<1>6. Len(a) + Len(b) + Len(c) + Len(d) + Len(e) = Len(x)
  BY <1>2
<1>7. Sorted(x) = a \o b \o c \o d \o e
  BY <1>3
<1> HIDE DEF A, a, b, c, d, e
<1> DEFINE ab == a \o b
           abc == ab \o c
           abcd == abc \o d
<1>8. ab \in Seq(Listed) /\ Len(ab) = Len(a) + Len(b)
  BY <1>4, <1>5
<1> HIDE DEF ab
<1>9. abc \in Seq(Listed) /\ Len(abc) = Len(a) + Len(b) + Len(c)
  BY <1>4, <1>5, <1>8
<1> HIDE DEF abc
<1>10. abcd \in Seq(Listed) /\ Len(abcd) = Len(a) + Len(b) + Len(c) + Len(d)
  BY <1>4, <1>5, <1>9
<1> HIDE DEF abcd
<1>11. abcd \o e \in Seq(Listed) /\ Len(abcd \o e) = Len(x)
  BY <1>4, <1>5, <1>6, <1>10
<1> QED BY <1>7, <1>11 DEF abcd, abc, ab

-----------------------------------------------------------------------------
(* Nothing is above what is worse.                                         *)
Ordered(s) ==
    \A i, j \in DOMAIN s : i < j => Rank(s[i].severity) <= Rank(s[j].severity)

UpTo(n) == {s \in Seq(Listed) :
              Ordered(s) /\ \A i \in DOMAIN s : Rank(s[i].severity) <= n}

Just(n) == {s \in Seq(Listed) : \A i \in DOMAIN s : Rank(s[i].severity) = n}

LEMMA RankType == \A v : Rank(v) \in 1..5
BY DEF Rank

LEMMA OrderedConcat ==
    ASSUME NEW n \in Nat, NEW m \in Nat, n <= m, NEW s \in UpTo(n), NEW t \in Just(m)
    PROVE  s \o t \in UpTo(m)
<1> DEFINE R(f) == Rank(f.severity)
           u == s \o t
<1>1. s \in Seq(Listed) /\ t \in Seq(Listed)
  BY DEF UpTo, Just
<1>2. \A f : R(f) \in 1..5
  BY RankType
<1>3. /\ \A i, j \in 1..Len(s) : i < j => R(s[i]) <= R(s[j])
      /\ \A i \in 1..Len(s) : R(s[i]) <= n
      /\ \A i \in 1..Len(t) : R(t[i]) = m
  BY <1>1 DEF UpTo, Just, Ordered
<1>4. /\ u \in Seq(Listed) /\ Len(u) = Len(s) + Len(t) /\ Len(s) \in Nat /\ Len(t) \in Nat
      /\ DOMAIN u = 1..(Len(s) + Len(t))
      /\ \A i \in 1..Len(s) : u[i] = s[i]
      /\ \A i \in (Len(s) + 1)..(Len(s) + Len(t)) : u[i] = t[i - Len(s)]
  BY <1>1
<1> HIDE DEF R, u
<1>5. \A i \in (Len(s) + 1)..(Len(s) + Len(t)) : i - Len(s) \in 1..Len(t)
  BY <1>4
<1>6. \A i \in 1..Len(s) : R(u[i]) = R(s[i])
  BY <1>4
<1>7. \A i \in (Len(s) + 1)..(Len(s) + Len(t)) : R(u[i]) = m
  BY <1>3, <1>4, <1>5
<1>8. \A i \in 1..(Len(s) + Len(t)) :
         i \in 1..Len(s) \/ i \in (Len(s) + 1)..(Len(s) + Len(t))
  BY <1>4
<1>9. \A i \in 1..(Len(s) + Len(t)) : R(u[i]) <= m
  BY <1>2, <1>3, <1>6, <1>7, <1>8
<1>10. ASSUME NEW i \in 1..(Len(s) + Len(t)), NEW j \in 1..(Len(s) + Len(t)), i < j
       PROVE  R(u[i]) <= R(u[j])
  <2>1. CASE j \in (Len(s) + 1)..(Len(s) + Len(t))
    BY <1>7, <1>9, <2>1
  <2>2. CASE j \in 1..Len(s)
    <3>1. i \in 1..Len(s)
      BY <1>4, <1>10, <2>2
    <3> QED BY <1>3, <1>6, <1>10, <2>2, <3>1
  <2> QED BY <1>8, <2>1, <2>2
<1> QED BY <1>4, <1>9, <1>10 DEF UpTo, Ordered, u, R

LEMMA SortedOrdered ==
    ASSUME NEW x \in Seq(Listed)
    PROVE  Ordered(Sorted(x))
<1> DEFINE A(v) == Among(x, Graded(v))
<1>1. ASSUME NEW v PROVE A(v) \in Just(Rank(v))
  <2>1. A(v) \in Seq(Listed) /\ ToSet(A(v)) = ToSet(x) \cap Graded(v)
    BY OfSeverityIs
  <2>2. \A f \in ToSet(A(v)) : f.severity = v
    BY <2>1 DEF Graded
  <2> HIDE DEF A
  <2>3. \A i \in DOMAIN A(v) : A(v)[i] \in ToSet(A(v))
    BY DEF ToSet
  <2> QED BY <2>1, <2>2, <2>3 DEF Just
<1> DEFINE a == A("critical")
           b == A("high")
           c == A("medium")
           d == A("low")
           e == A("info")
<1>2. /\ Rank("critical") = 1 /\ Rank("high") = 2 /\ Rank("medium") = 3 /\ Rank("low") = 4
      /\ Rank("info") = 5
  BY DEF Rank
<1>3. a \in Just(1) /\ b \in Just(2) /\ c \in Just(3) /\ d \in Just(4) /\ e \in Just(5)
  BY <1>1, <1>2
<1>4. Sorted(x) = a \o b \o c \o d \o e
  BY SortedIs
<1> HIDE DEF A, a, b, c, d, e
<1>5. a \in UpTo(1)
  BY <1>3 DEF Just, UpTo, Ordered
<1> DEFINE ab == a \o b
           abc == ab \o c
           abcd == abc \o d
<1>6. ab \in UpTo(2)
  BY <1>3, <1>5, OrderedConcat
<1> HIDE DEF ab
<1>7. abc \in UpTo(3)
  BY <1>3, <1>6, OrderedConcat
<1> HIDE DEF abc
<1>8. abcd \in UpTo(4)
  BY <1>3, <1>7, OrderedConcat
<1> HIDE DEF abcd
<1>9. abcd \o e \in UpTo(5)
  BY <1>3, <1>8, OrderedConcat
<1>10. Ordered(abcd \o e)
  BY <1>9 DEF UpTo
<1> QED BY <1>4, <1>10 DEF abcd, abc, ab

-----------------------------------------------------------------------------
(* The merged result.                                                      *)
LEMMA ListedLists ==
    /\ \A s \in Seq(Findings) : s \in Seq(Listed)
    /\ \A s \in DOMAIN Others : \A findings \in Others[s] : findings \in Seq(Listed)
<1>1. ASSUME NEW s \in DOMAIN Others, NEW findings \in Others[s]
      PROVE  findings \in Seq(Listed)
  <2>1. findings \in Seq(ToSet(findings))
    BY OthersAssumption
  <2>2. ToSet(findings) \subseteq Listed
    BY DEF Listed
  <2>3. \A S, T : S \subseteq T => Seq(S) \subseteq Seq(T)
    OBVIOUS
  <2> QED BY <2>1, <2>2, <2>3
<1>2. Findings \subseteq Listed
  BY DEF Listed
<1>3. \A s \in Seq(Findings) : s \in Seq(Listed)
  BY <1>2
<1> QED BY <1>1, <1>3

LEMMA ResultOf ==
    ASSUME NEW x \in Seq(Listed), NEW n
    PROVE  /\ DOMAIN FromFindings(x, n) = DOMAIN NoResult
           /\ FromFindings(x, n).findings = Sorted(x)
           /\ FromFindings(x, n).findings \in Seq(Listed)
           /\ FromFindings(x, n).total = Len(x)
           /\ \A v \in Severities :
                 FromFindings(x, n).counts[v] = Len(OfSeverity(x, v))
<1>1. Sorted(x) \in Seq(Listed)
  BY SortedLength
<1> QED BY <1>1 DEF FromFindings, NoResult

LEMMA MergedIs ==
    ASSUME NEW results,
           \A s \in SectionNames : results[s].findings \in Seq(Listed)
    PROVE  /\ Merged(results) \in Seq(Listed)
           /\ \A v : Among(Merged(results), Graded(v)) = FlattenSeq(
                 [k \in 1..4 |-> OfSeverity(results[SectionOrder[k]].findings, v)])
<1> DEFINE p == [k \in 1..4 |-> results[SectionOrder[k]].findings]
<1>1. /\ SectionOrder[1] = "table_health" /\ SectionOrder[2] = "slow_queries"
      /\ SectionOrder[3] = "index_health" /\ SectionOrder[4] = "config"
      /\ \A k \in 1..4 : SectionOrder[k] \in SectionNames
  BY DEF SectionOrder, SectionNames
<1>2. \A k \in 1..4 : p[k] \in Seq(Listed)
  BY <1>1
<1>3. /\ p[1] = results["table_health"].findings /\ p[2] = results["slow_queries"].findings
      /\ p[3] = results["index_health"].findings /\ p[4] = results["config"].findings
  BY <1>1
<1>4. p = [k \in 1..4 |-> p[k]]
  OBVIOUS
<1>5. ASSUME NEW v
      PROVE  [k \in 1..4 |-> OfSeverity(results[SectionOrder[k]].findings, v)]
                = AmongEach(p, Graded(v))
  <2>1. \A k \in 1..4 : OfSeverity(p[k], v) = Among(p[k], Graded(v))
    BY <1>2, OfSeverityIs
  <2> QED BY <2>1 DEF AmongEach
<1> HIDE DEF p
<1>6. p \in Seq(Seq(Listed)) /\ Len(p) = 4
  BY <1>2, <1>4
<1>7. FlattenSeq(p) = p[1] \o p[2] \o p[3] \o p[4]
  BY <1>6, FlattenFour
<1>8. Merged(results) = FlattenSeq(p)
  BY <1>3, <1>7 DEF Merged
<1>9. FlattenSeq(p) \in Seq(Listed)
  BY <1>6, FlattenType
<1>10. \A v : Among(FlattenSeq(p), Graded(v)) = FlattenSeq(AmongEach(p, Graded(v)))
  BY <1>6, AmongFlatten
<1> QED BY <1>5, <1>8, <1>9, <1>10

LEMMA MergedReport ==
    ASSUME NEW results, NEW n, NEW r,
           \A s \in SectionNames : results[s].findings \in Seq(Listed),
           r = FromFindings(Merged(results), n)
    PROVE  /\ \A i, j \in DOMAIN r.findings : i < j =>
                 Rank(r.findings[i].severity) <= Rank(r.findings[j].severity)
           /\ \A s \in Severities :
                 OfSeverity(r.findings, s) = FlattenSeq(
                     [k \in 1..4 |-> OfSeverity(results[SectionOrder[k]].findings, s)])
           /\ r.total = Len(r.findings)
           /\ \A s \in Severities : r.counts[s] = Len(OfSeverity(r.findings, s))
<1> DEFINE x == Merged(results)
<1>1. /\ x \in Seq(Listed)
      /\ \A v : Among(x, Graded(v)) = FlattenSeq(
            [k \in 1..4 |-> OfSeverity(results[SectionOrder[k]].findings, v)])
  BY MergedIs
<1> HIDE DEF x
<1>2. /\ r.findings = Sorted(x) /\ r.total = Len(x)
      /\ \A v \in Severities : r.counts[v] = Len(OfSeverity(x, v))
  BY <1>1, ResultOf DEF x
<1>3. /\ Sorted(x) \in Seq(Listed) /\ Len(Sorted(x)) = Len(x)
      /\ Ordered(Sorted(x))
  BY <1>1, SortedLength, SortedOrdered
<1>4. \A v \in Severities : /\ OfSeverity(x, v) = Among(x, Graded(v))
                            /\ OfSeverity(Sorted(x), v) = Among(x, Graded(v))
  BY <1>1, <1>3, OfSeverityIs, SortedKeeps
<1>5. \A i, j \in DOMAIN r.findings : i < j =>
         Rank(r.findings[i].severity) <= Rank(r.findings[j].severity)
  BY <1>2, <1>3 DEF Ordered
<1> QED BY <1>1, <1>2, <1>3, <1>4, <1>5

-----------------------------------------------------------------------------
(* The audit, section by section.                                          *)
LEMMA SlowRests ==
    ASSUME IInvSlow, UNCHANGED slowVars
    PROVE  IInvSlow' /\ TypeOKSlow'
BY SlowStep DEF IInvSlow

(* A section is kept beside the others.                                    *)
LEMMA KeepStep ==
    ASSUME NEW s \in SectionNames, NEW x \in Seq(Listed), NEW n, TypeOK, SectionsSoFar,
           Keep(s, FromFindings(x, n))
    PROVE  /\ DOMAIN sections' = DOMAIN sections \cup {s}
           /\ \A t \in DOMAIN sections' : /\ DOMAIN sections'[t] = DOMAIN NoResult
                                          /\ sections'[t].findings \in Seq(Listed)
<1>1. /\ DOMAIN FromFindings(x, n) = DOMAIN NoResult
      /\ FromFindings(x, n).findings \in Seq(Listed)
  BY ResultOf
<1> QED BY <1>1 DEF Keep, TypeOK, SectionsSoFar

LEMMA InitHolds == Init => IInv
<1> SUFFICES ASSUME Init PROVE IInv
  OBVIOUS
<1>1. IInvSlow /\ TypeOKSlow
  BY InitSlowHolds DEF Init, IInvSlow
<1>2. DOMAIN sections = {}
  BY DEF Init
<1>3. TypeOK
  BY <1>1, <1>2 DEF Init, TypeOK, SectionNames
<1>4. SectionsSoFar /\ ReportIsUnified
  BY <1>2 DEF Init, SectionsSoFar, ReportIsUnified
<1> QED BY <1>1, <1>3, <1>4 DEF IInv

LEMMA NextHolds ==
    ASSUME IInv, [Next]_vars
    PROVE  IInv'
<1>0. TypeOK /\ TypeOKSlow /\ IInvSlow /\ SectionsSoFar /\ ReportIsUnified
  BY DEF IInv, TypeOK
<1> USE DEF SectionNames
<1>1. CASE UNCHANGED vars
  <2>1. IInvSlow' /\ TypeOKSlow'
    BY <1>0, <1>1, SlowRests DEF vars
  <2> QED BY <1>0, <1>1, <2>1
          DEF vars, IInv, TypeOK, SectionsSoFar, ReportIsUnified
<1>2. ASSUME NEW s \in DOMAIN Others, NEW after, Section(s, after)
      PROVE  /\ stage = s /\ stage' = after /\ IInvSlow' /\ TypeOKSlow'
             /\ DOMAIN sections' = DOMAIN sections \cup {s}
             /\ \A t \in DOMAIN sections' : /\ DOMAIN sections'[t] = DOMAIN NoResult
                                            /\ sections'[t].findings \in Seq(Listed)
  <2>1. PICK findings \in Others[s] : Keep(s, FromFindings(findings, 0))
    BY <1>2 DEF Section
  <2>2. findings \in Seq(Listed) /\ s \in SectionNames
    BY ListedLists, OthersAssumption
  <2>3. IInvSlow' /\ TypeOKSlow'
    BY <1>0, <1>2, SlowRests DEF Section
  <2>4. /\ DOMAIN sections' = DOMAIN sections \cup {s}
        /\ \A t \in DOMAIN sections' : /\ DOMAIN sections'[t] = DOMAIN NoResult
                                       /\ sections'[t].findings \in Seq(Listed)
    BY <1>0, <2>1, <2>2, KeepStep
  <2> QED BY <1>2, <2>3, <2>4 DEF Section
<1>3. DOMAIN Others = {"table_health", "index_health", "config"}
  BY OthersAssumption
<1>4. CASE TableSection
  <2>1. /\ stage = "table_health" /\ stage' = "slow_queries" /\ IInvSlow' /\ TypeOKSlow'
        /\ DOMAIN sections' = DOMAIN sections \cup {"table_health"}
        /\ \A t \in DOMAIN sections' : /\ DOMAIN sections'[t] = DOMAIN NoResult
                                       /\ sections'[t].findings \in Seq(Listed)
        /\ report' = report
    BY <1>2, <1>3, <1>4 DEF TableSection
  <2>2. DOMAIN sections' = {"table_health"}
    BY <1>0, <2>1 DEF SectionsSoFar
  <2> QED BY <1>0, <2>1, <2>2 DEF IInv, TypeOK, SectionsSoFar, ReportIsUnified
<1>5. CASE QueryStep
  <2>1. [AnalyzeSlowQueries]_slowVars
    BY <1>5 DEF QueryStep
  <2>2. IInvSlow' /\ TypeOKSlow'
    BY <1>0, <2>1, SlowStep DEF IInvSlow
  <2> QED BY <1>0, <1>5, <2>2 DEF QueryStep, IInv, TypeOK, SectionsSoFar, ReportIsUnified
<1>6. CASE QuerySection
  <2>1. IInvSlow' /\ TypeOKSlow'
    BY <1>0, <1>6, SlowRests DEF QuerySection
  <2>2. found \in Seq(Listed)
    BY <1>0, ListedLists DEF TypeOKSlow
  <2>3. /\ DOMAIN sections' = DOMAIN sections \cup {"slow_queries"}
        /\ \A t \in DOMAIN sections' : /\ DOMAIN sections'[t] = DOMAIN NoResult
                                       /\ sections'[t].findings \in Seq(Listed)
    BY <1>0, <1>6, <2>2, KeepStep DEF QuerySection
  <2>4. /\ stage = "slow_queries" /\ stage' = "index_health" /\ report' = report
    BY <1>6 DEF QuerySection
  <2>5. DOMAIN sections' = {"table_health", "slow_queries"}
    BY <1>0, <2>3, <2>4 DEF SectionsSoFar
  <2> QED BY <1>0, <2>1, <2>3, <2>4, <2>5 DEF IInv, TypeOK, SectionsSoFar, ReportIsUnified
<1>7. CASE IndexSection
  <2>1. /\ stage = "index_health" /\ stage' = "config" /\ IInvSlow' /\ TypeOKSlow'
        /\ DOMAIN sections' = DOMAIN sections \cup {"index_health"}
        /\ \A t \in DOMAIN sections' : /\ DOMAIN sections'[t] = DOMAIN NoResult
                                       /\ sections'[t].findings \in Seq(Listed)
        /\ report' = report
    BY <1>2, <1>3, <1>7 DEF IndexSection
  <2>2. DOMAIN sections' = {"table_health", "slow_queries", "index_health"}
    BY <1>0, <2>1 DEF SectionsSoFar
  <2> QED BY <1>0, <2>1, <2>2 DEF IInv, TypeOK, SectionsSoFar, ReportIsUnified
<1>8. CASE ConfigSection
  <2>1. /\ stage = "config" /\ stage' = "storing" /\ IInvSlow' /\ TypeOKSlow'
        /\ DOMAIN sections' = DOMAIN sections \cup {"config"}
        /\ \A t \in DOMAIN sections' : /\ DOMAIN sections'[t] = DOMAIN NoResult
                                       /\ sections'[t].findings \in Seq(Listed)
    BY <1>2, <1>3, <1>8 DEF ConfigSection
  <2>2. DOMAIN sections' = {"table_health", "slow_queries", "index_health", "config"}
    BY <1>0, <2>1 DEF SectionsSoFar
  <2> DEFINE n == sections["slow_queries"].queries
             made == sections'
  <2>3. \A s \in SectionNames : made[s].findings \in Seq(Listed)
    BY <2>1, <2>2
  <2>4. report' = FromFindings(Merged(made), n)
    BY <1>8 DEF ConfigSection
  <2>5. DOMAIN report' = DOMAIN NoResult
    <3> HIDE DEF made, n
    <3> QED BY <2>3, <2>4, MergedIs, ResultOf
  <2>6. ReportIsUnified'
    <3> DEFINE r == report'
    <3> HIDE DEF n
    <3>1. /\ \A i, j \in DOMAIN r.findings : i < j =>
                Rank(r.findings[i].severity) <= Rank(r.findings[j].severity)
          /\ \A s \in Severities :
                OfSeverity(r.findings, s) = FlattenSeq(
                    [k \in 1..4 |-> OfSeverity(made[SectionOrder[k]].findings, s)])
          /\ r.total = Len(r.findings)
          /\ \A s \in Severities : r.counts[s] = Len(OfSeverity(r.findings, s))
      BY <2>3, <2>4, MergedReport
    <3> QED BY <3>1 DEF ReportIsUnified
  <2> QED BY <1>0, <2>1, <2>2, <2>5, <2>6 DEF IInv, TypeOK, SectionsSoFar
<1>9. CASE SectionRaises
  <2>1. IInvSlow' /\ TypeOKSlow'
    BY <1>0, <1>9, SlowRests DEF SectionRaises
  <2> QED BY <1>0, <1>9, <2>1
          DEF SectionRaises, IInv, TypeOK, SectionsSoFar, ReportIsUnified
<1>10. CASE Complete
  <2>1. IInvSlow' /\ TypeOKSlow'
    BY <1>0, <1>10, SlowRests DEF Complete
  <2>2. /\ stage = "storing" /\ stage' \in {"completed", "failed"}
        /\ sections' = sections /\ report' = report
    BY <1>10 DEF Complete
  <2> QED BY <1>0, <2>1, <2>2 DEF IInv, TypeOK, SectionsSoFar, ReportIsUnified
<1> QED BY <1>1, <1>4, <1>5, <1>6, <1>7, <1>8, <1>9, <1>10 DEF Next

-----------------------------------------------------------------------------
(* The theorems.                                                           *)

(* Whatever the catalogs, the plans and the other sections' findings, each *)
(* state of an audit satisfies the inductive invariant: how the log, the   *)
(* cache of plans and the two passes of analyze_slow_queries belong        *)
(* together, and which sections _execute_full_audit has so far.            *)
THEOREM InvariantHolds == Spec => []IInv
<1>1. IInv /\ [Next]_vars => IInv'
  BY NextHolds
<1> QED BY InitHolds, <1>1, PTL DEF Spec

(* Every result of a tool and of the audit has the fields of AuditResult,  *)
(* and the state of a slow-query call the types it is written with.        *)
THEOREM TypeCorrect == Spec => []TypeOK
<1>1. IInv => TypeOK
  BY DEF IInv
<1> QED BY InvariantHolds, <1>1, PTL

(* No text is ever run by EXPLAIN ANALYZE more often than it has entries   *)
(* among the slow queries, or once if it has none: plans_by_query of       *)
(* analyze_slow_queries remembers failures too.                            *)
THEOREM ExplainsAreBoundedHolds == Spec => []ExplainsAreBounded
<1>1. IInv => ExplainsAreBounded
  BY ExplainsBoundedByInv DEF IInv
<1> QED BY InvariantHolds, <1>1, PTL

(* For any plans and catalog rows, a call for one schema reports of that   *)
(* schema's relations what a call for all schemas would have reported, in  *)
(* the same order: plan_references_schema drops no query, and              *)
(* _node_references_schema no node, that had a finding to make.            *)
THEOREM ScopeLosesNothingHolds == Spec => []ScopeLosesNothing
<1>1. IInv => ScopeLosesNothing
  BY DEF IInv, IInvSlow
<1> QED BY InvariantHolds, <1>1, PTL

(* And a call for one schema reports no cast, no scan and no N+1 candidate *)
(* of another schema (analyze_slow_queries, _walk_plan_node).              *)
THEOREM FindingsConcernSchemaHolds == Spec => []FindingsConcernSchema
<1>1. IInv => FindingsConcernSchema
  BY DEF IInv, IInvSlow
<1> QED BY InvariantHolds, <1>1, PTL

(* Every sequential scan of many rows in a plan of the call is reported,   *)
(* as a scan or as a cast, with or without the catalog's metadata          *)
(* (_walk_plan_node, _detect_index_suppressing_casts).                     *)
THEOREM LargeScansAreReportedHolds == Spec => []LargeScansAreReported
<1>1. IInv => LargeScansAreReported
  BY DEF IInv, IInvSlow
<1> QED BY InvariantHolds, <1>1, PTL

(* The N+1 pass decides of a slow query's text as the first pass did       *)
(* (analyze_slow_queries, plans_by_query).                                 *)
THEOREM PassesAgreeHolds == Spec => []PassesAgree
<1>1. IInv => PassesAgree
  BY PassesAgreeByInv DEF IInv
<1> QED BY InvariantHolds, <1>1, PTL

(* For any findings of the four sections, the merged report is sorted by   *)
(* severity, holds of each severity what the sections hold in their order, *)
(* and its totals are of what it holds (AuditResult.from_findings,         *)
(* _execute_full_audit).                                                   *)
THEOREM ReportIsUnifiedHolds == Spec => []ReportIsUnified
<1>1. IInv => ReportIsUnified
  BY DEF IInv
<1> QED BY InvariantHolds, <1>1, PTL
=============================================================================
