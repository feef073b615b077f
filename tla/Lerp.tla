-------------------------------- MODULE Lerp ---------------------------------
(***************************************************************************)
(* org.opennms.netmgt.api.sample.math.Lerp: resamples a stream of rows at  *)
(* the steps from m_start to m_finish.  Each action is one entry of        *)
(* next(), which calls itself while it only moves on in the stream.        *)
(***************************************************************************)
EXTENDS SampleRows

CONSTANTS Start, Finish,   \* of the output, as the caller asks for it
          Null,            \* a sample without a value
          None             \* no row, no step

VARIABLES
    rows,            \* what the producer delivers (never changes)
    rest,            \* what it still has to deliver
    m_initComplete,
    m_prevL, m_rowL, m_rowR,
    m_count,         \* of the iterator of Steps
    m_currentStep,
    threw,           \* next() ended with an exception
    out              \* the rows that next() returned

vars == <<rows, rest, m_initComplete, m_prevL, m_rowL, m_rowR, m_count, m_currentStep, threw, out>>

(* Steps *)
getCurrent(count) == atStepBoundaryStart(Start) + count * Step
stepsHasNext(count) == getCurrent(count) < atStepBoundaryEnd(Finish)

Row == [t : Nat, v : Int \cup {NaN}]

TypeOK ==
    /\ rest \in Seq(Row) /\ m_initComplete \in BOOLEAN /\ threw \in BOOLEAN
    /\ {m_prevL, m_rowL, m_rowR} \subseteq Row \cup {None}
    /\ m_count \in Nat
    /\ m_currentStep \in {None} \cup atStepBoundaryStart(Start)..Finish
    /\ out \in Seq([t : Nat, v : Int \cup {NaN, Null}])

Init ==
    /\ rows \in Streams /\ rest = rows
    /\ m_initComplete = FALSE /\ threw = FALSE
    /\ m_prevL = None /\ m_rowL = None /\ m_rowR = None
    /\ m_count = 0 /\ m_currentStep = None
    /\ out = <<>>

hasNext == stepsHasNext(m_count) \/ m_currentStep # None

(* nextRow(): the row that the k-th call from here returns.                *)
NthRow(k) == IF k <= Len(rest) THEN rest[k] ELSE None

(* The first call of next() goes on with what it has just initialized.     *)
Begin ==
    /\ ~m_initComplete /\ hasNext
    /\ m_rowL' = NthRow(1) /\ m_prevL' = m_rowL' /\ m_rowR' = NthRow(2)
    /\ rest' = SubSeq(rest, 3, Len(rest))
    /\ m_currentStep' = getCurrent(m_count) /\ m_count' = m_count + 1
    /\ m_initComplete' = TRUE
    /\ UNCHANGED <<rows, threw, out>>

Ready == m_initComplete /\ hasNext /\ ~threw

(* Mutant: the last step is forgotten. *)
stepAdvanceEarly ==
    IF stepsHasNext(m_count + 1)
    THEN m_currentStep' = getCurrent(m_count) /\ m_count' = m_count + 1
    ELSE m_currentStep' = None /\ m_count' = m_count + 1

stepAdvance ==
    IF stepsHasNext(m_count)
    THEN m_currentStep' = getCurrent(m_count) /\ m_count' = m_count + 1
    ELSE m_currentStep' = None /\ UNCHANGED m_count

advance ==
    /\ m_prevL' = m_rowL /\ m_rowL' = m_rowR /\ m_rowR' = NthRow(1)
    /\ rest' = SubSeq(rest, 2, Len(rest))

(* Timestamp.minus(): the time to subtract is cast to an int.              *)
minus(t, s) == t - ToInt(s)

(* storeInterpolatedSamples() and interpolate(): no value when the rows    *)
(* are too far apart.                                                      *)
interpolated(x, rowL, rowR) ==
    IF minus(rowR.t, rowL.t) > HeartBeat THEN Null ELSE interpolate(x, rowL, rowR)

Return(v) == out' = Append(out, [t |-> m_currentStep, v |-> v])

-----------------------------------------------------------------------------
(* There is no row at all.                                                 *)
NoRows ==
    /\ Ready /\ m_rowL = None
    /\ threw' = TRUE
    /\ UNCHANGED <<rows, rest, m_initComplete, m_prevL, m_rowL, m_rowR, m_count, m_currentStep, out>>

(* The stream has ended: the last two rows stand for all steps to come.    *)
Ended ==
    /\ Ready /\ m_rowL # None /\ m_rowR = None
    /\ Return(IF m_prevL.t < m_currentStep THEN interpolated(m_currentStep, m_prevL, m_rowL)
                                           ELSE NaN)
    /\ stepAdvance
    /\ UNCHANGED <<rows, rest, m_initComplete, m_prevL, m_rowL, m_rowR, threw>>

(* Mutant: the rows in hand are used, although they are past the step. *)
PastStepForward ==
    /\ Ready /\ m_rowR # None /\ m_rowL.t > m_currentStep
    /\ Return(interpolated(m_currentStep, m_rowL, m_rowR))
    /\ stepAdvance
    /\ UNCHANGED <<rows, rest, m_initComplete, m_prevL, m_rowL, m_rowR, threw>>

(* The left row is past the step: the step is before the first row, or     *)
(* between the previous left row and the left one.                         *)
PastStep ==
    /\ Ready /\ m_rowR # None /\ m_rowL.t > m_currentStep
    /\ Return(IF m_rowL.t = m_prevL.t THEN interpolated(m_currentStep, m_rowL, m_rowR)
                                      ELSE interpolated(m_currentStep, m_prevL, m_rowL))
    /\ stepAdvance
    /\ UNCHANGED <<rows, rest, m_initComplete, m_prevL, m_rowL, m_rowR, threw>>

Within ==
    /\ Ready /\ m_rowR # None /\ m_rowL.t <= m_currentStep /\ m_currentStep <= m_rowR.t
    /\ Return(interpolated(m_currentStep, m_rowL, m_rowR))
    /\ stepAdvance /\ advance
    /\ UNCHANGED <<rows, m_initComplete, threw>>

Skip ==
    /\ Ready /\ m_rowR # None /\ m_rowR.t < m_currentStep
    /\ advance
    /\ UNCHANGED <<rows, m_initComplete, m_count, m_currentStep, threw, out>>

Next == Begin \/ NoRows \/ Ended \/ PastStep \/ Within \/ Skip

(* The caller calls next() while hasNext().                                *)
Spec == Init /\ [][Next]_vars /\ WF_vars(Next)

-----------------------------------------------------------------------------
StepTimes == {getCurrent(k) : k \in {n \in 0..Finish : stepsHasNext(n)}}

(* The pairs of neighbours that a step may be interpolated on: those that  *)
(* hold it between them, else the two first or the two last rows.          *)
Neighbours(x) ==
    LET around == {i \in 1..(Len(rows) - 1) : rows[i].t <= x /\ x <= rows[i + 1].t}
    IN  IF around # {} THEN around
        ELSE IF x < rows[1].t THEN {1} ELSE {Len(rows) - 1}

(* A lone row stands for both, after its time.                             *)
OnLine(x, v) ==
    IF Len(rows) = 1 THEN v = IF rows[1].t < x THEN interpolated(x, rows[1], rows[1]) ELSE NaN
    ELSE \E i \in Neighbours(x) : v = interpolated(x, rows[i], rows[i + 1])

(* Every row returned lies on the line through the two samples next to it: *)
(* moving on in the stream and in the steps never lets one overtake the    *)
(* other, and a value is missing exactly when minus() finds their gap too  *)
(* long, whatever the cast has made of it.                                 *)
OnTheLine == \A k \in DOMAIN out : OnLine(out[k].t, out[k].v)

(* The calls of next() come to an end, and by then every step has exactly  *)
(* one row, in order, unless the stream was empty.                         *)
EveryStep ==
    <>(threw \/ /\ ~hasNext
                /\ [k \in DOMAIN out |-> out[k].t] = SetToSortSeq(StepTimes, <))

(* What the comment in interpolate() says: it refuses when the samples are *)
(* further apart than the heart beat, and only then.                       *)
RefusesOnlyLongGaps ==
    (\A i \in 1..(Len(rows) - 1) : rows[i + 1].t - rows[i].t <= HeartBeat)
    => \A k \in DOMAIN out : out[k].v # Null
=============================================================================
