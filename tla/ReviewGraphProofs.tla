-------------------------- MODULE ReviewGraphProofs ------------------------
(***************************************************************************)
(* Theorems about the analysis of a run, for any packages of evidence and  *)
(* any answers of the live model.                                          *)
(***************************************************************************)
EXTENDS ReviewGraph, ExpertReviewProofs

-----------------------------------------------------------------------------
(* The graph implements the one-step analysis                              *)

LEMMA GraphStepImplements ==
  ASSUME NEW r \in Runs, Graph(r)
  PROVE  [Next]_vars
<1>1. CASE UNCHANGED vars
  BY <1>1
<1>2. CASE \E outcome \in GraphResults : GraphReturns(r, outcome)
  BY <1>2 DEF Next, Execution, AnalyseEvidence
<1>3. CASE ValidateEvidence(r)
  BY <1>1, <1>2, <1>3 DEF ValidateEvidence, GraphResults
<1>4. CASE ValidateReport(r)
  BY <1>2, <1>4 DEF ValidateReport, GraphResults
<1>5. CASE CalculateMetrics(r) \/ SynthesizeReport(r)
  BY <1>1, <1>5 DEF CalculateMetrics, SynthesizeReport
<1>6. CASE \E agent \in Specialists : Specialist(r, agent)
  BY <1>1, <1>6 DEF Specialist
<1> QED BY <1>3, <1>4, <1>5, <1>6 DEF Graph

LEMMA StepImplements == [GraphNext]_allVars => [Next]_vars
<1>1. ASSUME NEW r \in Runs, Graph(r) PROVE [Next]_vars
  BY <1>1, GraphStepImplements
<1>2. CASE Outside
  BY <1>2 DEF Outside, Next, Execution
<1>3. CASE UNCHANGED allVars
  BY <1>3 DEF allVars
<1> QED BY <1>1, <1>2, <1>3 DEF GraphNext

\* Every behaviour of the graph, of its failures and of its crashes is one of
\* ExpertReview: what is proved there holds of the composition.
THEOREM GraphImplements == GraphSpec => AnalysisImplemented
<1>1. GraphInit => Init
  BY DEF GraphInit
<1> QED BY <1>1, StepImplements, PTL DEF GraphSpec, AnalysisImplemented, Spec

-----------------------------------------------------------------------------
(* What a draft holds                                                      *)

GraphTypeOK ==
  /\ package \in [Runs -> Packages]
  /\ engine \in {"groq", "deterministic"}
  /\ node \in [Runs -> {"validate_evidence", "calculate_metrics", "specialists",
                        "validate_report", "returned"}]
  /\ DOMAIN assessments = Runs /\ DOMAIN draft = Runs

\* The deterministic specialists' assessments.
Assessment(p, agent) ==
  [agent |-> agent, findings |-> Assess(p, agent).findings,
   recommendations |-> Assess(p, agent).recommendations]

NodesInOrder ==
  \A r \in Runs :
    /\ exec[r] \in {"none", "created"} => node[r] = "validate_evidence"
    /\ node[r] = "validate_evidence" => assessments[r] = {}
    /\ node[r] \in {"calculate_metrics", "specialists", "validate_report"}
         => EvidencePasses(package[r])
    /\ engine = "deterministic" =>
         assessments[r] \subseteq {Assessment(package[r], agent) : agent \in Specialists}
    /\ node[r] = "validate_report" => draft[r] = assessments[r] /\ Assessed(r) = Specialists
    /\ node[r] = "returned" =>
         \/ result[r] = "failed_evidence_validation" /\ ~EvidencePasses(package[r])
         \/ /\ EvidencePasses(package[r])
            /\ draft[r] = assessments[r] /\ Assessed(r) = Specialists
            /\ result[r] = IF ReportPasses(package[r], draft[r])
                           THEN "awaiting_human_review" ELSE "failed_report_validation"
    /\ exec[r] = "store" => node[r] = "returned"
    /\ report[r] = "valid" =>
         node[r] = "returned" /\ result[r] = "awaiting_human_review"

GraphInv == TypeOK /\ ReviewInv /\ GraphTypeOK /\ NodesInOrder

LEMMA NodesInOrderStep ==
  ASSUME GraphInv, [GraphNext]_allVars
  PROVE  GraphTypeOK' /\ NodesInOrder'
<1> USE DEF GraphInv, GraphTypeOK, NodesInOrder, Assessed
<1>1. ASSUME NEW r \in Runs, Graph(r) PROVE GraphTypeOK' /\ NodesInOrder'
  <2> USE DEF At, NodeGoto, GraphReturns, runVars, requestVars, ExecGoto
  <2>1. CASE ValidateEvidence(r)
    <3>1. CASE EvidencePasses(package[r])
      BY <2>1, <3>1 DEF ValidateEvidence, vars
    <3>2. CASE ~EvidencePasses(package[r])
      BY <2>1, <3>2 DEF ValidateEvidence, TypeOK
    <3> QED BY <3>1, <3>2
  <2>2. CASE CalculateMetrics(r)
    BY <2>2 DEF CalculateMetrics, vars
  <2>3. ASSUME NEW agent \in Specialists, Specialist(r, agent)
        PROVE  GraphTypeOK' /\ NodesInOrder'
    <3>1. PICK x : /\ engine = "deterministic" => x = Assess(package[r], agent)
                   /\ assessments' = [assessments EXCEPT ![r] = @ \cup
                        {[agent |-> agent, findings |-> x.findings,
                          recommendations |-> x.recommendations]}]
      BY <2>3 DEF Specialist
    <3>2. /\ \A k \in Runs \ {r} : assessments'[k] = assessments[k]
          /\ engine = "deterministic" =>
               assessments'[r] = assessments[r] \cup {Assessment(package[r], agent)}
      BY <3>1 DEF Assessment
    <3>3. /\ node[r] = "specialists" /\ exec[r] = "invoke"
          /\ UNCHANGED vars /\ UNCHANGED <<package, engine, node, draft>>
          /\ DOMAIN assessments' = Runs
      BY <2>3, <3>1 DEF Specialist
    <3>4. GraphTypeOK'
      BY <3>3
    <3>5. NodesInOrder'
      BY <3>2, <3>3 DEF vars
    <3> QED BY <3>4, <3>5
  <2>4. CASE SynthesizeReport(r)
    BY <2>4 DEF SynthesizeReport, vars
  <2>5. CASE ValidateReport(r)
    BY <2>5 DEF ValidateReport, TypeOK
  <2> QED BY <1>1, <2>1, <2>2, <2>3, <2>4, <2>5 DEF Graph
<1>2. CASE Outside /\ UNCHANGED graphVars
  <2>1. UNCHANGED graphVars /\ UNCHANGED result
    BY <1>2 DEF Outside, CreateRun, ExecuteStart, StoreResult, ExecuteFailed, Submit,
       LoadRun, Submission, FindReview, MarkProcessing, ResumeThread, RecordDecision,
       FinalizeDecision, StoreReview, RollbackRead, RollbackCommit, Failure,
       ExecuteRaises, StoreResultRaises, CreateDies, CreateAborts, GraphRaises,
       StoreFails, SubmitDies, SubmitAborts, execVars
  <2>2. \A r \in Runs :
          /\ exec'[r] \in {"none", "created"} => exec[r] \in {"none", "created"}
          /\ exec'[r] = "store" => exec[r] = "store"
          /\ report'[r] = "valid" =>
               \/ report[r] = "valid"
               \/ exec[r] = "store" /\ result[r] = "awaiting_human_review"
    <3> SUFFICES ASSUME NEW r \in Runs
                 PROVE  /\ exec'[r] \in {"none", "created"} => exec[r] \in {"none", "created"}
                        /\ exec'[r] = "store" => exec[r] = "store"
                        /\ report'[r] = "valid" =>
                             \/ report[r] = "valid"
                             \/ exec[r] = "store" /\ result[r] = "awaiting_human_review"
      OBVIOUS
    <3> USE DEF TypeOK, ExecGoto, runVars, execVars
    <3>1. CASE UNCHANGED <<exec, report>>
      BY <3>1
    <3>2. ASSUME NEW k \in Runs,
                 \/ CreateRun(k) \/ ExecuteStart(k) \/ ExecuteFailed(k)
                 \/ ExecuteRaises(k) \/ CreateDies(k)
          PROVE  /\ exec'[r] \in {"none", "created"} => exec[r] \in {"none", "created"}
                 /\ exec'[r] = "store" => exec[r] = "store"
                 /\ report'[r] = report[r]
      <4>1. report' = report
        BY <3>2 DEF CreateRun, ExecuteStart, ExecuteFailed, ExecuteRaises, CreateDies
      <4>2. CASE CreateRun(k)
        BY <4>1, <4>2 DEF CreateRun, ReviewInv, Reviewable
      <4>3. CASE ~CreateRun(k)
        BY <3>2, <4>1, <4>3 DEF ExecuteStart, ExecuteFailed, ExecuteRaises, CreateDies
      <4> QED BY <4>2, <4>3
    <3>3. ASSUME NEW k \in Runs,
                 StoreResult(k) \/ StoreResultRaises(k) \/ CreateAborts(k)
          PROVE  /\ exec'[r] \in {"none", "created"} => exec[r] \in {"none", "created"}
                 /\ exec'[r] = "store" => exec[r] = "store"
                 /\ report'[r] = "valid" =>
                      \/ report[r] = "valid"
                      \/ exec[r] = "store" /\ result[r] = "awaiting_human_review"
      BY <3>3 DEF StoreResult, StoreResultRaises, CreateAborts, WriteResult, ReportOf
    <3>4. ASSUME NEW s \in Requests,
                 \/ Submit(s) \/ Submission(s)
                 \/ GraphRaises(s) \/ StoreFails(s)
                 \/ SubmitDies(s) \/ SubmitAborts(s)
          PROVE  UNCHANGED <<exec, report>>
      BY <3>4 DEF Submit, LoadRun, Submission, FindReview, MarkProcessing, ResumeThread,
         RecordDecision, FinalizeDecision, StoreReview, InsertReview, RollbackRead,
         RollbackCommit, GraphRaises, StoreFails, SubmitDies, SubmitAborts
    <3> QED BY <1>2, <3>1, <3>2, <3>3, <3>4 DEF Outside, Failure
  <2> QED BY <2>1, <2>2 DEF graphVars
<1>3. CASE UNCHANGED allVars
  BY <1>3 DEF allVars, vars, graphVars
<1> QED BY <1>1, <1>2, <1>3 DEF GraphNext

LEMMA GraphInvariant == GraphSpec => []GraphInv
<1>1. GraphInit => GraphInv
  <2> SUFFICES ASSUME GraphInit PROVE GraphInv
    OBVIOUS
  <2>1. TypeOK /\ ReviewInv
    BY DEF GraphInit, Init, TypeOK, ReviewInv, Reviewable, Entitled, Analysing,
       LosesResults, Statuses, Final, Failed, GraphResults, ExecPoints,
       SubmitPoints, Decisions
  <2>2. GraphTypeOK /\ NodesInOrder
    BY DEF GraphInit, Init, GraphTypeOK, NodesInOrder
  <2> QED BY <2>1, <2>2 DEF GraphInv
<1>2. GraphInv /\ [GraphNext]_allVars => GraphInv'
  <2> SUFFICES ASSUME GraphInv, [GraphNext]_allVars PROVE GraphInv'
    OBVIOUS
  <2>1. [Next]_vars
    BY StepImplements
  <2>2. TypeOK' /\ ReviewInv'
    BY <2>1, TypeOKStep, ReviewStep DEF GraphInv
  <2> QED BY <2>2, NodesInOrderStep DEF GraphInv
<1> QED BY <1>1, <1>2, PTL DEF GraphSpec

-----------------------------------------------------------------------------
(* The rules of the three nodes, together                                  *)

LEMMA PassingReportRestsOnData ==
  ASSUME NEW p \in Packages, NEW panel, EvidencePasses(p), ReportPasses(p, panel),
         NEW id,
         \E x \in panel :
           \/ \E f \in x.findings : id \in f.refs
           \/ \E refs \in x.recommendations : id \in refs,
         id \notin MetricIds(p) \cup ItemIds(p)
  PROVE  \E ratio \in Ratios :
           /\ ratio.id = id
           /\ {ratio.numerator, ratio.denominator} \subseteq Given(p)
           /\ p.value[ratio.denominator] > 0
           /\ id = "calculated:ctr_percent"
                => p.value[ratio.numerator] <= p.value[ratio.denominator]
           /\ {ratio.numerator, ratio.denominator} \cap {"spend", "revenue"} # {}
                => p.currency
<1>1. id \in KnownIds(p)
  BY DEF ReportPasses
<1>2. PICK ratio \in Ratios : ratio.id = id /\ Available(p, ratio)
  BY <1>1 DEF KnownIds
<1>3. {ratio.numerator, ratio.denominator} \subseteq Given(p)
      /\ p.value[ratio.denominator] > 0
  BY <1>2 DEF Available
<1>4. id = "calculated:ctr_percent"
        => p.value[ratio.numerator] <= p.value[ratio.denominator]
  <2> SUFFICES ASSUME id = "calculated:ctr_percent"
               PROVE  p.value[ratio.numerator] <= p.value[ratio.denominator]
    OBVIOUS
  <2>1. ratio.numerator = "clicks" /\ ratio.denominator = "impressions"
    BY <1>2 DEF Ratios
  <2> QED BY <1>3, <2>1 DEF EvidencePasses
<1>5. {ratio.numerator, ratio.denominator} \cap {"spend", "revenue"} # {} => p.currency
  BY <1>3 DEF EvidencePasses
<1> QED BY <1>2, <1>3, <1>4, <1>5

\* What a reviewer sees holds the view of every specialist and rests on the
\* package, whatever the live model answers and whatever fails.
THEOREM OfferedRestOnData == GraphSpec => []OfferedReportsRestOnData
<1>1. GraphInv => OfferedReportsRestOnData
  <2> SUFFICES ASSUME GraphInv, NEW r \in Runs, Offered(r)
      PROVE  LET p == package[r] IN
             /\ {x.agent : x \in draft[r]} = Specialists
             /\ \A id \in Cited(r) \ (MetricIds(p) \cup ItemIds(p)) :
                  \E ratio \in Ratios :
                    /\ ratio.id = id
                    /\ {ratio.numerator, ratio.denominator} \subseteq Given(p)
                    /\ p.value[ratio.denominator] > 0
                    /\ id = "calculated:ctr_percent"
                         => p.value[ratio.numerator] <= p.value[ratio.denominator]
                    /\ {ratio.numerator, ratio.denominator} \cap {"spend", "revenue"} # {}
                         => p.currency
    BY DEF OfferedReportsRestOnData
  <2>1. report[r] = "valid"
    BY DEF GraphInv, ReviewInv, Reviewable, Offered
  <2>2. /\ package[r] \in Packages /\ EvidencePasses(package[r])
        /\ draft[r] = assessments[r] /\ Assessed(r) = Specialists
        /\ ReportPasses(package[r], draft[r])
    BY <2>1 DEF GraphInv, NodesInOrder, GraphTypeOK
  <2>3. ASSUME NEW id \in Cited(r)
        PROVE  \E x \in draft[r] :
                 \/ \E f \in x.findings : id \in f.refs
                 \/ \E refs \in x.recommendations : id \in refs
    <3> DEFINE Refs(x) == (UNION {f.refs : f \in x.findings}) \cup (UNION x.recommendations)
    <3>1. \E x \in draft[r] : id \in Refs(x)
      BY <2>3 DEF Cited
    <3>2. ASSUME NEW x, id \in Refs(x)
          PROVE  \/ \E f \in x.findings : id \in f.refs
                 \/ \E refs \in x.recommendations : id \in refs
      <4>1. CASE id \in UNION {f.refs : f \in x.findings}
        <5>1. \E f \in x.findings : id \in f.refs
          BY <4>1, Zenon
        <5> QED BY <5>1
      <4>2. CASE id \in UNION x.recommendations
        <5>1. \E refs \in x.recommendations : id \in refs
          BY <4>2, Zenon
        <5> QED BY <5>1
      <4> QED BY <3>2, <4>1, <4>2
    <3> HIDE DEF Refs
    <3> QED BY <3>1, <3>2, Zenon
  <2>4. ASSUME NEW id \in Cited(r) \ (MetricIds(package[r]) \cup ItemIds(package[r]))
        PROVE  \E ratio \in Ratios :
                 /\ ratio.id = id
                 /\ {ratio.numerator, ratio.denominator} \subseteq Given(package[r])
                 /\ package[r].value[ratio.denominator] > 0
                 /\ id = "calculated:ctr_percent"
                      => package[r].value[ratio.numerator]
                           <= package[r].value[ratio.denominator]
                 /\ {ratio.numerator, ratio.denominator} \cap {"spend", "revenue"} # {}
                      => package[r].currency
    <3>1. /\ package[r] \in Packages /\ EvidencePasses(package[r])
          /\ ReportPasses(package[r], draft[r])
          /\ \E x \in draft[r] :
               \/ \E f \in x.findings : id \in f.refs
               \/ \E refs \in x.recommendations : id \in refs
          /\ id \notin MetricIds(package[r]) \cup ItemIds(package[r])
      BY <2>2, <2>3, <2>4
    <3> QED BY ONLY <3>1, PassingReportRestsOnData
  <2>5. {x.agent : x \in draft[r]} = Specialists
    BY <2>2 DEF Assessed
  <2> QED BY <2>4, <2>5
<1> QED BY <1>1, GraphInvariant, PTL

-----------------------------------------------------------------------------
(* The deterministic specialists                                           *)

LEMMA ReferencesKnown ==
  ASSUME NEW p, NEW agent
  PROVE  References(p, agent) \subseteq KnownIds(p)
BY DEF References, KnownIds, MetricIds, ItemIds

LEMMA HasItems ==
  ASSUME NEW p \in Packages
  PROVE  p.items # <<>> <=> {p.items[i] : i \in DOMAIN p.items \cap 1..3} # {}
<1>1. p.items \in Seq(Ids)
  BY EvidenceAssumption DEF PackagesAssumption
<1>2. CASE p.items = <<>>
  BY <1>2
<1>3. CASE p.items # <<>>
  <2>1. Len(p.items) \in Nat \ {0} /\ DOMAIN p.items = 1..Len(p.items)
    BY <1>1, <1>3
  <2>2. 1 \in DOMAIN p.items \cap 1..3
    BY <2>1
  <2> QED BY <1>3, <2>2
<1> QED BY <1>2, <1>3

LEMMA EveryoneHasReferences ==
  ASSUME NEW p \in Packages
  PROVE  (\A agent \in Specialists : References(p, agent) # {})
           <=> \/ p.items # <<>>
               \/ "conversions" \in Given(p)
               \/ /\ {"impressions", "clicks"} \cap Given(p) # {}
                  /\ {"spend", "revenue"} \cap Given(p) # {}
<1>1. \A agent \in Specialists :
        References(p, agent) # {}
          <=> Given(p) \cap MetricsOf[agent] # {} \/ p.items # <<>>
  BY HasItems DEF References
<1>2. Given(p) \subseteq Metrics
  BY EvidenceAssumption DEF PackagesAssumption, Given
<1>3. /\ Specialists = {"measurement_auditor", "budget_controller",
                        "chief_strategy", "risk_controller"}
      /\ MetricsOf["measurement_auditor"] = Metrics
      /\ MetricsOf["budget_controller"] = {"spend", "conversions", "revenue"}
      /\ MetricsOf["chief_strategy"] = {"impressions", "clicks", "conversions"}
      /\ MetricsOf["risk_controller"] = {"spend", "conversions", "revenue"}
  BY DEF Specialists, MetricsOf
<1> QED BY <1>1, <1>2, <1>3 DEF Metrics

LEMMA DeterministicReportPasses ==
  ASSUME NEW p, NEW panel,
         panel = {Assessment(p, agent) : agent \in Specialists}
  PROVE  ReportPasses(p, panel)
           <=> \A agent \in Specialists : References(p, agent) # {}
<1>1. panel # {}
  BY DEF Specialists, MetricsOf
<1>2. \A agent \in Specialists :
        /\ Assessment(p, agent).findings
             = {[basis |-> IF References(p, agent) # {} THEN "actual" ELSE "unknown",
                 refs |-> References(p, agent)]}
        /\ Assessment(p, agent).recommendations = {References(p, agent)}
  BY DEF Assessment, Assess
<1>3. \A agent \in Specialists :
        /\ \A f \in Assessment(p, agent).findings :
             /\ f.basis \in {"actual", "calculated"} => f.refs # {}
             /\ f.refs \subseteq KnownIds(p)
        /\ \A refs \in Assessment(p, agent).recommendations :
             refs \subseteq KnownIds(p)
             /\ (refs # {} <=> References(p, agent) # {})
  BY <1>2, ReferencesKnown
<1>4. \A agent \in Specialists : Assessment(p, agent).recommendations # {}
  BY <1>2
<1> QED BY <1>1, <1>3, <1>4 DEF ReportPasses

\* Correct evidence gets a reviewer without a live model exactly when no
\* specialist is left without a reference, whatever the package.
THEOREM DeterministicDecided == GraphSpec => []DeterministicOutcome
<1>1. GraphInv => DeterministicOutcome
  <2> SUFFICES ASSUME GraphInv, NEW r \in Runs, node[r] = "returned",
                      engine = "deterministic", EvidencePasses(package[r])
               PROVE  result[r] = "awaiting_human_review" <=>
                        \A agent \in Specialists : References(package[r], agent) # {}
    BY EveryoneHasReferences DEF DeterministicOutcome, GraphInv, GraphTypeOK
  <2>1. /\ draft[r] \subseteq {Assessment(package[r], agent) : agent \in Specialists}
        /\ {x.agent : x \in draft[r]} = Specialists
        /\ result[r] = IF ReportPasses(package[r], draft[r])
                       THEN "awaiting_human_review" ELSE "failed_report_validation"
    BY DEF GraphInv, NodesInOrder, Assessed
  <2>2. draft[r] = {Assessment(package[r], agent) : agent \in Specialists}
    <3>1. ASSUME NEW agent \in Specialists PROVE Assessment(package[r], agent) \in draft[r]
      <4>1. PICK x \in draft[r] : x.agent = agent
        BY <2>1
      <4>2. PICK other \in Specialists : x = Assessment(package[r], other)
        BY <2>1
      <4> QED BY <4>1, <4>2 DEF Assessment
    <3> QED BY <2>1, <3>1
  <2> QED BY <2>1, <2>2, DeterministicReportPasses
<1> QED BY <1>1, GraphInvariant, PTL

\* No composed behaviour gives a run a final status without a human review.
THEOREM GraphFinalReviewed == GraphSpec => []FinalNeedsReview
BY GraphImplements, FinalReviewed, PTL DEF AnalysisImplemented

\* In the composition too, both stores hold what the reviewer decided, if the
\* submissions of one run do not overlap: no node of the graph writes the row, and
\* the graph waits for a reviewer exactly when its report is offered.
THEOREM GraphDecides ==
  ASSUME OnlyEarlyFaults
  PROVE  GraphSpec /\ []Undisturbed => []ReviewDecidesStatus
BY GraphImplements, ReviewDecides, PTL DEF AnalysisImplemented

\* In the composition too, the checkpoint keeps the decision the database has.
THEOREM GraphStoresAgree ==
  ASSUME OnlyEarlyFaults
  PROVE  GraphSpec /\ []Undisturbed => []StoresAgree
BY GraphImplements, StoresAgreeing, PTL DEF AnalysisImplemented

\* In the composition too, no submission brings a failed run back.
THEOREM GraphFailureFinal ==
  ASSUME "create_lost" \notin Faults PROVE GraphSpec => FailedIsFinal
BY GraphImplements, FailureFinal, PTL DEF AnalysisImplemented
=============================================================================
