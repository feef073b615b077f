---------------------------- MODULE MCProcessors -----------------------------
(***************************************************************************)
(* What a graph is made by: the sample processors RollUp, Lerp and Rate,   *)
(* and the page that plots their results, one of them at a time: the       *)
(* behaviours of one module are checked side by side with those of the     *)
(* others.  RollUp and Lerp run on all short streams of gauges, Rate on    *)
(* one narrow counter and one wide one, and Plot on tables of up to two    *)
(* rows.                                                                   *)
(***************************************************************************)
EXTENDS Rate, SampleRows, TLC

CONSTANTS narrow, wide, Start, Finish, Null, None,
          Forms, KnownMetrics, ArrayFields, Tables, MaxRequests, Error,
          cpu, load, length, unknown

ASSUME LerpAssumption ==
    /\ Start \in Nat /\ Finish \in Nat /\ Start <= Finish
    /\ None \notin Nat /\ None \notin [t : Nat, v : Int \cup {NaN}]
    /\ Null \notin Int \cup {NaN}

MCMetrics == {narrow, wide}
MCWidth == (narrow :> B32) @@ (wide :> B64)

(* A form names one metric or more, and none twice.                        *)
ASSUME PlotAssumption ==
    /\ MaxRequests \in Nat
    /\ \A f \in Forms : f \in Seq(Range(f)) /\ f # <<>> /\ IsInjective(f)
    /\ \A t \in Tables : t \in Seq(Range(t))

(* Multiples of 25200: every division of a run is exact for up to five     *)
(* rows and intervals of up to seven units.                                *)
MCValues == {0, 25200, 75600, NaN}

(* One metric or two, one of them unknown or named like a field of arrays. *)
MCForms == {<<cpu>>, <<load, cpu>>, <<cpu, unknown>>, <<unknown>>, <<length, cpu>>}
MCKnown == {cpu, load, length}
MCFields == {length}
MCRow(t, v) == [millis |-> t * 300000,
                values |-> (cpu :> v) @@ (load :> 7200) @@ (length :> 0)]
MCTables == {<<>>, <<MCRow(1, NaN)>>} \cup {<<MCRow(1, 3600), MCRow(2, v)>> : v \in {0, NaN}}

VARIABLES
    processor,      \* which one is used
    rows, rest,     \* the stream
    \* of RollUp
    pc, m_currStepFloor, m_currPdp, m_prevRow, m_currRow, rolledUp,
    \* of Lerp
    m_initComplete, m_prevL, m_rowL, m_rowR, m_count, m_currentStep, lerpThrew, resampled,
    \* of Plot
    asked, inFlight, chart, carried

rollUpVars == <<pc, m_currStepFloor, m_currPdp, m_prevRow, m_currRow, rolledUp>>
lerpVars == <<m_initComplete, m_prevL, m_rowL, m_rowR, m_count, m_currentStep, lerpThrew, resampled>>
plotVars == <<asked, inFlight, chart, carried>>

R == INSTANCE RollUp WITH out <- rolledUp
L == INSTANCE Lerp WITH out <- resampled, threw <- lerpThrew
P == INSTANCE Plot

MCInit ==
    /\ processor \in {"RollUp", "Lerp", "Rate", "Plot"}
    /\ Init
    /\ processor # "Rate" => register = [m \in Metrics |-> 0]
    /\ rows \in IF processor \in {"RollUp", "Lerp"} THEN Streams ELSE {<<>>}
    /\ R!Init /\ L!Init /\ P!PlotInit

MCNext ==
    \/ processor = "RollUp" /\ R!Next /\ UNCHANGED <<processor, lerpVars, vars, plotVars>>
    \/ processor = "Lerp" /\ L!Next /\ UNCHANGED <<processor, rollUpVars, vars, plotVars>>
    \/ /\ processor = "Rate" /\ Next
       /\ UNCHANGED <<processor, rows, rest, rollUpVars, lerpVars, plotVars>>
    \/ /\ processor = "Plot" /\ P!PlotNext
       /\ UNCHANGED <<processor, rows, rest, rollUpVars, lerpVars, vars>>

allVars == <<processor, rows, rest, rollUpVars, lerpVars, vars, plotVars>>

(* The caller of a processor calls next() while hasNext().                 *)
MCSpec == MCInit /\ [][MCNext]_allVars /\ WF_allVars(processor = "Lerp" /\ MCNext)

(* Every variable of the processor in use keeps its type.                  *)
ProcessorsTypeOK == TypeOK /\ R!TypeOK /\ L!TypeOK /\ P!PlotTypeOK

(* RollUp: each data point is what the rows of its step define.            *)
RollsUp == R!RollsUp

(* RollUp: one data point per step, none skipped or repeated, up to that   *)
(* of the last row but one, where the output ends.                         *)
NoStepSkipped == R!InOrder /\ R!LastStep

(* RollUp: the comment on late samples.                                    *)
LateIsUnknown == R!LateIsUnknown

(* RollUp: the comment on averaging, for rows that are a step apart.       *)
SparseRowsAreKept == R!SparseRowsAreKept

(* Lerp: what a comment says of the heart beat.                           *)
RefusesOnlyLongGaps == L!RefusesOnlyLongGaps

(* Lerp: each row is on the line between two neighbours of the stream.     *)
OnTheLine == L!OnTheLine

(* Lerp: in the end there is one row for every step.                       *)
EveryStep == processor = "Lerp" => L!EveryStep

(* Plot: the chart shows the answers of the last request, and of those     *)
(* that were under way when it was sent.                                   *)
GraphsAreAnswers == P!GraphsAreAnswers
=============================================================================
