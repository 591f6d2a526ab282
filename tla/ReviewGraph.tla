----------------------------- MODULE ReviewGraph ---------------------------
(***************************************************************************)
(* The analysis of a run, node by node: build_expert_review_graph (graph,  *)
(* nodes), the rules for evidence and reports (evidence, validators) and   *)
(* the two specialist runners (specialists, groq_runner), all under        *)
(* app/agents/expert_review.  ExpertReview is composed with it: where that *)
(* module takes any outcome in one step, AnalyseEvidence, this one says    *)
(* which package of evidence leads to which outcome, and implements it.    *)
(***************************************************************************)
EXTENDS ExpertReview, Sequences

CONSTANTS
  Packages,    \* the evidence of a run: see PackagesAssumption
  Answers      \* what the live model may answer: see AnswersAssumption

Metrics == {"impressions", "clicks", "spend", "conversions", "revenue"}
Ids == STRING

\* A package gives some metrics a value and an evidence id, and lists items by
\* their ids; it may name a currency, and its dates may be in order.
PackagesAssumption ==
  \A p \in Packages :
    /\ DOMAIN p.value \subseteq Metrics /\ DOMAIN p.id = DOMAIN p.value
    /\ \A m \in DOMAIN p.value : p.value[m] \in Nat /\ p.id[m] \in Ids
    /\ p.items \in Seq(Ids)
    /\ p.currency \in BOOLEAN /\ p.dates \in BOOLEAN

AnswersAssumption ==
  \A x \in Answers :
    /\ \A f \in x.findings : f.refs \subseteq Ids
    /\ \A refs \in x.recommendations : refs \subseteq Ids

ASSUME EvidenceAssumption == PackagesAssumption /\ AnswersAssumption

-----------------------------------------------------------------------------
(* Evidence and reports                                                    *)

Given(p) == DOMAIN p.value
MetricIds(p) == {p.id[m] : m \in Given(p)}
ItemIds(p) == {p.items[i] : i \in DOMAIN p.items}

\* validate_campaign_evidence: the issues that are errors.
EvidencePasses(p) ==
  /\ \A m, n \in Given(p) : p.id[m] = p.id[n] => m = n
  /\ \A i, j \in DOMAIN p.items : p.items[i] = p.items[j] => i = j
  /\ MetricIds(p) \cap ItemIds(p) = {}
  /\ {"clicks", "impressions"} \subseteq Given(p)
       => p.value["clicks"] <= p.value["impressions"]
  /\ {"spend", "revenue"} \cap Given(p) # {} => p.currency
  /\ p.dates

\* calculate_campaign_metrics; a report refers to a ratio by this id.
Ratios ==
  {[id |-> "calculated:ctr_percent", numerator |-> "clicks", denominator |-> "impressions"],
   [id |-> "calculated:cpc", numerator |-> "spend", denominator |-> "clicks"],
   [id |-> "calculated:cvr_percent", numerator |-> "conversions", denominator |-> "clicks"],
   [id |-> "calculated:cpa", numerator |-> "spend", denominator |-> "conversions"],
   [id |-> "calculated:roas", numerator |-> "revenue", denominator |-> "spend"]}

\* Mutant: a denominator of zero is not excluded.
Supplied(p, ratio) ==
  ratio.numerator \in Given(p) /\ ratio.denominator \in Given(p)

Available(p, ratio) ==
  /\ ratio.numerator \in Given(p)
  /\ ratio.denominator \in Given(p)
  /\ p.value[ratio.denominator] > 0

KnownIds(p) ==
  MetricIds(p) \cup ItemIds(p)
    \cup {ratio.id : ratio \in {x \in Ratios : Available(p, x)}}

\* validate_expert_report: the issues that are errors and that a report of
\* synthesize_report can have.
ReportPasses(p, panel) ==
  /\ panel # {}
  /\ \A x \in panel :
       /\ \A f \in x.findings :
            /\ f.basis \in {"actual", "calculated"} => f.refs # {}
            /\ f.refs \subseteq KnownIds(p)
       /\ \A refs \in x.recommendations : refs # {} /\ refs \subseteq KnownIds(p)

-----------------------------------------------------------------------------
(* Specialists                                                             *)

\* The metrics that the deterministic specialists look for.
MetricsOf ==
  [measurement_auditor |-> Metrics,
   budget_controller |-> {"spend", "conversions", "revenue"},
   chief_strategy |-> {"impressions", "clicks", "conversions"},
   risk_controller |-> {"spend", "conversions", "revenue"}]

Specialists == DOMAIN MetricsOf

\* Mutant: the items are no substitute for the metrics.
MetricReferences(p, agent) == {p.id[m] : m \in Given(p) \cap MetricsOf[agent]}

\* evidence_ids: the ids of those metrics, or of the first three items.
References(p, agent) ==
  IF Given(p) \cap MetricsOf[agent] # {}
  THEN {p.id[m] : m \in Given(p) \cap MetricsOf[agent]}
  ELSE {p.items[i] : i \in DOMAIN p.items \cap 1..3}

Assess(p, agent) ==
  LET refs == References(p, agent) IN
  [findings |-> {[basis |-> IF refs # {} THEN "actual" ELSE "unknown", refs |-> refs]},
   recommendations |-> {refs}]

-----------------------------------------------------------------------------
VARIABLES
  package,      \* expert_review_runs.evidence_data
  engine,       \* groq with an API key, or deterministic
  node,         \* the superstep that the graph of a run is in
  assessments,  \* specialist_assessments in its state
  draft         \* draft_report: the assessments it holds

graphVars == <<package, engine, node, assessments, draft>>
allVars == <<vars, graphVars>>

GraphInit ==
  /\ Init
  /\ package \in [Runs -> Packages]
  /\ engine \in {"groq", "deterministic"}
  /\ node = [r \in Runs |-> "validate_evidence"]
  /\ assessments = [r \in Runs |-> {}]
  /\ draft = [r \in Runs |-> {}]

At(r, name) == exec[r] = "invoke" /\ node[r] = name

NodeGoto(r, name) == node' = [node EXCEPT ![r] = name]

\* Mutant: the edge to END leaves the status of the node as the graph's.
ValidateEvidenceEnds(r) ==
  /\ At(r, "validate_evidence")
  /\ \/ EvidencePasses(package[r]) /\ NodeGoto(r, "calculate_metrics") /\ UNCHANGED vars
     \/ /\ ~EvidencePasses(package[r])
        /\ GraphReturns(r, "evidence_validated")
        /\ NodeGoto(r, "returned")
  /\ UNCHANGED <<package, engine, assessments, draft>>

ValidateEvidence(r) ==
  /\ At(r, "validate_evidence")
  /\ \/ EvidencePasses(package[r]) /\ NodeGoto(r, "calculate_metrics") /\ UNCHANGED vars
     \/ /\ ~EvidencePasses(package[r])
        /\ GraphReturns(r, "failed_evidence_validation")
        /\ NodeGoto(r, "returned")
  /\ UNCHANGED <<package, engine, assessments, draft>>

CalculateMetrics(r) ==
  /\ At(r, "calculate_metrics")
  /\ NodeGoto(r, "specialists")
  /\ UNCHANGED <<vars, package, engine, assessments, draft>>

Assessed(r) == {x.agent : x \in assessments[r]}

\* Four specialists in one superstep, in any order.  The live one overwrites the
\* agent and the approval that each recommendation needs; one that raises is
\* ExecuteRaises.
Specialist(r, agent) ==
  /\ At(r, "specialists")
  /\ agent \notin Assessed(r)
  /\ \E x \in IF engine = "groq" THEN Answers ELSE {Assess(package[r], agent)} :
       assessments' = [assessments EXCEPT ![r] = @ \cup
         {[agent |-> agent, findings |-> x.findings,
           recommendations |-> x.recommendations]}]
  /\ UNCHANGED <<vars, package, engine, node, draft>>

\* The edge from all four of them waits for the last.
SynthesizeReport(r) ==
  /\ At(r, "specialists")
  /\ Assessed(r) = Specialists
  /\ draft' = [draft EXCEPT ![r] = assessments[r]]
  /\ NodeGoto(r, "validate_report")
  /\ UNCHANGED <<vars, package, engine, assessments>>

ValidateReport(r) ==
  /\ At(r, "validate_report")
  /\ GraphReturns(r, IF ReportPasses(package[r], draft[r])
                     THEN "awaiting_human_review" ELSE "failed_report_validation")
  /\ NodeGoto(r, "returned")
  /\ UNCHANGED <<package, engine, assessments, draft>>

Graph(r) ==
  \/ ValidateEvidence(r) \/ CalculateMetrics(r)
  \/ \E agent \in Specialists : Specialist(r, agent)
  \/ SynthesizeReport(r) \/ ValidateReport(r)

\* Everything but AnalyseEvidence is as in ExpertReview.
Outside ==
  \/ \E r \in Runs :
       CreateRun(r) \/ ExecuteStart(r) \/ StoreResult(r) \/ ExecuteFailed(r)
  \/ \E s \in Requests : Submit(s) \/ Submission(s)
  \/ Failure

GraphNext ==
  \/ \E r \in Runs : Graph(r)
  \/ Outside /\ UNCHANGED graphVars

GraphSpec == GraphInit /\ [][GraphNext]_allVars

-----------------------------------------------------------------------------
\* The graph implements the analysis that ExpertReview takes in one step, also
\* when it raises or its process dies between two nodes.
AnalysisImplemented == Spec

Offered(r) == status[r] = "awaiting_human_review" \/ review[r] # None

Cited(r) ==
  UNION {(UNION {f.refs : f \in x.findings}) \cup (UNION x.recommendations) : x \in draft[r]}

\* Whatever the live model answers, a report that reaches a reviewer holds the
\* view of every specialist and rests on the package: each id it cites is one of
\* the package or a ratio of the package's metrics over a positive one; a ratio of
\* clicks to impressions is at most one, and an amount has a currency (the rules
\* for evidence, ratios and reports, three nodes apart, taken together).
OfferedReportsRestOnData ==
  \A r \in Runs :
    LET p == package[r] IN
    Offered(r) =>
      /\ {x.agent : x \in draft[r]} = Specialists
      /\ \A id \in Cited(r) \ (MetricIds(p) \cup ItemIds(p)) :
           \E ratio \in Ratios :
             /\ ratio.id = id
             /\ {ratio.numerator, ratio.denominator} \subseteq Given(p)
             /\ p.value[ratio.denominator] > 0
             /\ id = "calculated:ctr_percent"
                  => p.value[ratio.numerator] <= p.value[ratio.denominator]
             /\ {ratio.numerator, ratio.denominator} \cap {"spend", "revenue"} # {}
                  => p.currency

\* Without a live model, correct evidence gets a reviewer exactly when it has an
\* item, or a metric of traffic and one of money, or conversions: no specialist
\* is then left without a reference (evidence_ids against validate_expert_report).
DeterministicOutcome ==
  \A r \in Runs :
    LET p == package[r] IN
    node[r] = "returned" /\ engine = "deterministic" /\ EvidencePasses(p) =>
      (result[r] = "awaiting_human_review" <=>
         \/ p.items # <<>>
         \/ "conversions" \in Given(p)
         \/ /\ {"impressions", "clicks"} \cap Given(p) # {}
            /\ {"spend", "revenue"} \cap Given(p) # {})
=============================================================================
