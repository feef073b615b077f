-------------------------------- MODULE Plot ---------------------------------
(***************************************************************************)
(* The page of sample-graphs: plotSamples() of plot.js clears the chart    *)
(* and asks SampleResource for samples; each answer is turned into series  *)
(* and drawn into whatever chart is there when it arrives.  Requests are   *)
(* asynchronous and answers arrive in any order.                           *)
(***************************************************************************)
EXTENDS Naturals, Sequences, Functions

CONSTANTS Forms,        \* the metrics that a user may ask for: sequences of names
          KnownMetrics, \* the names that the MetricRepository knows
          ArrayFields,  \* the names that every JavaScript array has: "length"
          Tables,       \* the rows that the repository may return for a request
          MaxRequests,  \* bound on the requests that a user sends
          NaN, Error

VARIABLES
    asked,     \* number of requests sent; the n-th is request n
    inFlight,  \* requests without an answer -> the metrics that they ask for
    chart,     \* the graphs in the element #chart, in the order in which they were drawn
    carried    \* the requests that were in flight when the chart was last cleared (history)

plotVars == <<asked, inFlight, chart, carried>>

-----------------------------------------------------------------------------
(* SampleResource.getSamples: null for what JSON has no number for.        *)
json(value) == IF value = NaN THEN "null" ELSE value

(* It fails when the first metric is unknown, whose type decides on the    *)
(* processors, or when a row has no sample of a metric.                    *)
Fails(metrics, rows) ==
    \/ metrics[1] \notin KnownMetrics
    \/ rows # <<>> /\ ~(Range(metrics) \subseteq KnownMetrics)

(* The answer: row by row, one triple per metric.                          *)
getSamples(metrics, rows) ==
    IF Fails(metrics, rows) THEN Error
    ELSE [n \in 1..(Len(rows) * Len(metrics)) |->
            LET row == rows[((n - 1) \div Len(metrics)) + 1]
                metric == metrics[((n - 1) % Len(metrics)) + 1]
            IN  <<metric, row.millis, json(row.values[metric])>>]

(* One pass of the loop of toSeries.  A name that is new opens a series,   *)
(* at the end.                                                             *)
AddSample(series, triple) ==
    LET point == [x |-> triple[2] \div 1000, y |-> triple[3]]
        of == {k \in DOMAIN series : series[k].name = triple[1]}
    IN  IF of = {} THEN Append(series, [name |-> triple[1], data |-> <<point>>])
        ELSE [k \in DOMAIN series |->
                IF k \in of THEN [series[k] EXCEPT !.data = Append(@, point)] ELSE series[k]]

toSeries(data) ==
    LET series[n \in 0..Len(data)] ==
          IF n = 0 THEN <<>> ELSE AddSample(series[n - 1], data[n])
    IN  series[Len(data)]

(* hasOwnProperty() finds a field of the array itself, which is no list.   *)
Throws(data) == \E i \in DOMAIN data : data[i][1] \in ArrayFields
-----------------------------------------------------------------------------
PlotInit ==
    /\ asked = 0
    /\ inFlight = <<>>
    /\ chart = <<>>
    /\ carried = {}

(* Mutant: the chart is not cleared. *)
plotSamplesOver(metrics) ==
    /\ asked < MaxRequests
    /\ asked' = asked + 1
    /\ inFlight' = [n \in DOMAIN inFlight \cup {asked + 1} |->
                      IF n = asked + 1 THEN metrics ELSE inFlight[n]]
    /\ carried' = DOMAIN inFlight
    /\ UNCHANGED chart

(* A complete form is submitted.  An incomplete one changes nothing.       *)
plotSamples(metrics) ==
    /\ asked < MaxRequests
    /\ asked' = asked + 1
    /\ inFlight' = [n \in DOMAIN inFlight \cup {asked + 1} |->
                      IF n = asked + 1 THEN metrics ELSE inFlight[n]]
    /\ chart' = <<>>
    /\ carried' = DOMAIN inFlight

Graph(n, rows) ==
    [request |-> n, metrics |-> inFlight[n], rows |-> rows,
     series |-> toSeries(getSamples(inFlight[n], rows))]

Done(n) == inFlight' = Restrict(inFlight, DOMAIN inFlight \ {n})

(* onreadystatechange: an answer that can be drawn.                        *)
Draw(n) ==
    /\ n \in DOMAIN inFlight
    /\ \E rows \in Tables :
          LET data == getSamples(inFlight[n], rows)
          IN  /\ data # Error /\ ~Throws(data)
              /\ chart' = Append(chart, Graph(n, rows))
    /\ Done(n)
    /\ UNCHANGED <<asked, carried>>

(* onreadystatechange: no answer, an error page, or an answer on which     *)
(* toSeries throws: the handler ends there.                                *)
DrawFails(n) ==
    /\ n \in DOMAIN inFlight
    /\ Done(n)
    /\ UNCHANGED <<asked, chart, carried>>

PlotNext ==
    \/ \E metrics \in Forms : plotSamples(metrics)
    \/ \E n \in DOMAIN inFlight : Draw(n) \/ DrawFails(n)

PlotSpec == PlotInit /\ [][PlotNext]_plotVars
-----------------------------------------------------------------------------
PlotTypeOK ==
    /\ asked \in 0..MaxRequests
    /\ DOMAIN inFlight \subseteq 1..asked /\ Range(inFlight) \subseteq Forms
    /\ \A i \in DOMAIN chart : chart[i].request \in 1..asked /\ chart[i].rows \in Tables
    /\ carried \subseteq 1..asked

(* A column of the repository's table, as the chart's axes show it.        *)
Column(rows, metric) ==
    [i \in DOMAIN rows |-> [x |-> rows[i].millis \div 1000, y |-> json(rows[i].values[metric])]]

(* Every graph shows the table that its request was answered with, one     *)
(* series per metric in the order asked for; none is drawn twice; and none *)
(* is there but the last request's, unless a request was under way when    *)
(* the last one was sent: its late answer joins or precedes the last one.  *)
GraphsAreAnswers ==
    /\ \A i \in DOMAIN chart :
          LET g == chart[i]
          IN  /\ g.request \in carried \cup {asked}
              /\ g.rows # <<>> => g.series = [k \in DOMAIN g.metrics |->
                    [name |-> g.metrics[k], data |-> Column(g.rows, g.metrics[k])]]
    /\ \A i, j \in DOMAIN chart : chart[i].request = chart[j].request => i = j
=============================================================================
