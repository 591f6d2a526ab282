---------------------------- MODULE MCReviewGraph --------------------------
EXTENDS ReviewGraph

EarlyFaults ==
  {"create_crash", "create_error", "create_abort", "invoke_error", "submit_crash",
   "submit_abort"}

\* A package of these metrics, all of this value, and these items.
Package(metrics, number, items) ==
  [value |-> [m \in metrics |-> number], id |-> [m \in metrics |-> m],
   items |-> items, currency |-> TRUE, dates |-> TRUE]

Traffic == {"impressions", "clicks"}
Whole == Package(Metrics, 1, <<"ev1">>)

ReviewPackages ==
  {Package(metrics, 1, items) :
     metrics \in {{}, {"impressions"}, {"clicks"}, {"spend"}, {"conversions"}, Traffic,
                  {"clicks", "revenue"}, {"spend", "revenue"}, Metrics},
     items \in {<<>>, <<"ev1", "ev2", "ev3", "ev4">>}}
  \cup {Package(metrics, 0, <<"ev1">>) : metrics \in {Traffic, Metrics}}
  \cup {[Whole EXCEPT !.value["clicks"] = 2],
        [Whole EXCEPT !.value["conversions"] = 2],
        [Whole EXCEPT !.value["clicks"] = 0],
        [Whole EXCEPT !.id["clicks"] = "spend"],
        [Whole EXCEPT !.items = <<"ev1", "ev1">>],
        [Whole EXCEPT !.items = <<"ev1", "spend">>],
        [Whole EXCEPT !.currency = FALSE],
        [Package(Traffic, 1, <<"ev1">>) EXCEPT !.currency = FALSE],
        [Whole EXCEPT !.dates = FALSE],
        Package({"spend"}, 1, <<"ev1", "calculated:roas">>)}

Answer(basis, refs, recommended) ==
  [findings |-> {[basis |-> basis, refs |-> refs]}, recommendations |-> {recommended}]

LiveAnswers ==
  {Answer("actual", {"ev1"}, {"calculated:ctr_percent"}),
   Answer("calculated", {"calculated:roas"}, {"spend"}),
   Answer("ai_estimate", {}, {"ev1"})}
=============================================================================
