------------------------------- MODULE RollUp --------------------------------
(***************************************************************************)
(* org.opennms.netmgt.api.sample.math.RollUp: turns a stream of rows into  *)
(* one data point per step.  Each action is one turn of the loop in        *)
(* next(), which the caller calls again while hasNext().                   *)
(***************************************************************************)
EXTENDS SampleRows, FiniteSetsExt

VARIABLES
    rows,             \* what the producer delivers (never changes)
    rest,             \* what it still has to deliver
    pc,               \* "fresh", "idle" between calls, "looping" in next(), "threw"
    m_currStepFloor,
    m_currPdp,        \* [finish, prevAveraged, rowCount, unknown]
    m_prevRow, m_currRow,
    out               \* the rows that next() returned

vars == <<rows, rest, pc, m_currStepFloor, m_currPdp, m_prevRow, m_currRow, out>>

Row == [t : Nat, v : Int \cup {NaN}]

TypeOK ==
    /\ rest \in Seq(Row) /\ out \in Seq(Row)
    /\ pc \in {"fresh", "idle", "looping", "threw"}
    /\ m_currStepFloor \in Nat /\ m_currStepFloor % Step = 0
    /\ m_currPdp \in [finish : Nat, prevAveraged : Row, rowCount : Nat \ {0}, unknown : Ints]
    /\ m_prevRow \in Row /\ m_currRow \in Row

nextStep(floor) == floor + Step

(* Mutant: the first row of a data point is not counted. *)
NewPdpUnseeded(floor, first) ==
    [finish |-> nextStep(floor), prevAveraged |-> first, rowCount |-> 0, unknown |-> 0]

NewPdp(floor, first) ==
    [finish |-> nextStep(floor), prevAveraged |-> first, rowCount |-> 1, unknown |-> 0]

(* Until the first call the fields are null; nothing reads them.           *)
Init ==
    /\ rows \in Streams
    /\ rest = rows /\ pc = "fresh" /\ out = <<>>
    /\ m_currStepFloor = 0
    /\ m_prevRow = [t |-> 0, v |-> NaN] /\ m_currRow = m_prevRow
    /\ m_currPdp = NewPdp(0, m_prevRow)

-----------------------------------------------------------------------------
(* PrimaryDataPoint.addSamples(row) *)

(* The average of the rows of this data point, row included, at its time.  *)
Averaged(pdp, row) ==
    [t |-> row.t,
     v |-> divide(add(multiply(pdp.prevAveraged.v, pdp.rowCount), row.v), pdp.rowCount + 1)]

(* An int, to which a late interval is added as a long.                    *)
Unknown(pdp, row) ==
    LET lastInterval == row.t - pdp.prevAveraged.t
    IN  IF lastInterval > HeartBeat THEN ToInt(pdp.unknown + lastInterval) ELSE pdp.unknown

Accumulated(pdp, row) ==
    [pdp EXCEPT !.prevAveraged = Averaged(pdp, row), !.rowCount = @ + 1,
                !.unknown = Unknown(pdp, row)]

(* The value at the end of the step, when row is the first at or after it. *)
DataPoint(pdp, row) ==
    IF Unknown(pdp, row) <= Step \div 2
    THEN interpolate(pdp.finish, pdp.prevAveraged, Averaged(pdp, row))
    ELSE NaN

(* Mutant: the row that ended a step always starts the next one. *)
FirstRowCurrent(floor, prev, curr) == curr

(* getNextPdp(): the row that starts a data point.                         *)
FirstRow(floor, prev, curr) == IF curr.t > nextStep(floor) THEN prev ELSE curr

(* One turn of the loop after consume(): the data point goes on, or next() *)
(* returns it and starts another one.                                      *)
AddSamples(prev, curr, floor, pdp) ==
    /\ m_prevRow' = prev /\ m_currRow' = curr
    /\ IF curr.t < pdp.finish
       THEN /\ m_currPdp' = Accumulated(pdp, curr)
            /\ m_currStepFloor' = floor
            /\ pc' = "looping"
            /\ UNCHANGED out
       ELSE /\ out' = Append(out, [t |-> pdp.finish, v |-> DataPoint(pdp, curr)])
            /\ m_currStepFloor' = nextStep(floor)
            /\ m_currPdp' = NewPdp(nextStep(floor), FirstRow(nextStep(floor), prev, curr))
            /\ pc' = "idle"

-----------------------------------------------------------------------------
Initialize ==
    /\ pc = "fresh" /\ Len(rest) >= 2
    /\ rest' = Tail(Tail(rest))
    /\ LET floor == atStepBoundaryStart(rest[1].t)
       IN  AddSamples(rest[1], rest[2], floor, NewPdp(floor, rest[1]))
    /\ UNCHANGED rows

(* A stream of one row: initialize() gives up, and next() then asks for    *)
(* the step after a floor that is null.                                    *)
InitializeFails ==
    /\ pc = "fresh" /\ Len(rest) = 1
    /\ rest' = <<>> /\ pc' = "threw"
    /\ UNCHANGED <<rows, m_currStepFloor, m_currPdp, m_prevRow, m_currRow, out>>

(* Mutant: every turn of the loop takes a row. *)
ConsumeAlways ==
    /\ pc \in {"idle", "looping"} /\ rest # <<>>
    /\ rest' = Tail(rest)
    /\ AddSamples(m_currRow, Head(rest), m_currStepFloor, m_currPdp)
    /\ UNCHANGED rows

(* consume(): a row is taken unless the current one is beyond this step.   *)
Consume ==
    /\ pc \in {"idle", "looping"} /\ rest # <<>>
    /\ IF m_currRow.t > nextStep(m_currStepFloor)
       THEN /\ rest' = rest
            /\ AddSamples(m_prevRow, m_currRow, m_currStepFloor, m_currPdp)
       ELSE /\ rest' = Tail(rest)
            /\ AddSamples(m_currRow, Head(rest), m_currStepFloor, m_currPdp)
    /\ UNCHANGED rows

(* The stream ends within a step: next() returns NaN for it.               *)
Exhausted ==
    /\ pc = "looping" /\ rest = <<>>
    /\ out' = Append(out, [t |-> nextStep(m_currStepFloor), v |-> NaN])
    /\ pc' = "idle"
    /\ UNCHANGED <<rows, rest, m_currStepFloor, m_currPdp, m_prevRow, m_currRow>>

Next == Initialize \/ InitializeFails \/ Consume \/ Exhausted

Spec == Init /\ [][Next]_vars

-----------------------------------------------------------------------------
(* The definition of a data point, from the whole input. *)

StepStart(k) == atStepBoundaryStart(rows[1].t) + (k - 1) * Step

(* The first row at or after time x among rows j, j + 1, ...; 0 if none.   *)
FirstAt(x, j) ==
    LET S == {i \in DOMAIN rows : i >= j /\ rows[i].t >= x}
    IN  IF S = {} THEN 0 ELSE Min(S)

(* The rows of step k start with the row that ended step k - 1, which     *)
(* started at row f, or, when that one is beyond step k too, with the row  *)
(* before it...                                                            *)
FirstAfter(k, f) ==
    LET i == FirstAt(StepStart(k), f + 1)
    IN  IF rows[i].t > StepStart(k + 1) THEN i - 1 ELSE i

FirstOf(k) ==
    LET first[n \in 1..k] == IF n = 1 THEN 1 ELSE FirstAfter(n, first[n - 1])
    IN  first[k]

(* ... and end with the first one after it that is not before the end.     *)
LastOf(k) == FirstAt(StepStart(k + 1), FirstOf(k) + 1)

SumOf(f, i, j) ==
    LET sum[n \in (i - 1)..j] == IF n = i - 1 THEN 0 ELSE sum[n - 1] + f[n]
    IN  sum[j]

Mean(i, j) == IF \E n \in i..j : rows[n].v = NaN THEN NaN
              ELSE SumOf([n \in i..j |-> rows[n].v], i, j) \div (j - i + 1)

Late(d) == IF d > HeartBeat THEN d ELSE 0

LateTime(i, j) ==
    SumOf([n \in (i + 1)..j |-> Late(rows[n].t - rows[n - 1].t)], i + 1, j)

Defined(k) ==
    LET i == FirstOf(k)
        j == LastOf(k)
    IN  IF j = 0 \/ ToInt(LateTime(i, j)) > Step \div 2 THEN NaN
        ELSE interpolate(StepStart(k + 1), [t |-> rows[j - 1].t, v |-> Mean(i, j - 1)],
                                           [t |-> rows[j].t, v |-> Mean(i, j)])

(* The value of a data point is what the rows of its own step define:      *)
(* nothing of other steps leaks in, and it is unknown exactly when the sum *)
(* of its late intervals, as an int, is longer than half a step.           *)
RollsUp == \A k \in DOMAIN out : out[k].v = Defined(k)

(* The output has one data point per step, in order and without a gap...   *)
InOrder == \A k \in DOMAIN out : out[k].t = StepStart(k + 1)

(* ... and ends with the step that the last row but one is in, be there    *)
(* any number of steps up to the last row.                                 *)
LastStep ==
    (pc = "idle" /\ rest = <<>>) =>
       /\ out # <<>>
       /\ StepStart(Len(out)) <= rows[Len(rows) - 1].t
       /\ rows[Len(rows) - 1].t <= StepStart(Len(out) + 1)

(* What the comment of the class says of samples that are too late.        *)
LateIsUnknown ==
    \A k \in DOMAIN out :
       LET j == LastOf(k)
       IN  (j # 0 /\ LateTime(FirstOf(k), j) > Step \div 2) => out[k].v = NaN

(* What the comment of getCumulativeAverageSamples() says: when the rows   *)
(* are a step or more apart, averaging leaves them alone.                  *)
SparseRowsAreKept ==
    \A k \in DOMAIN out :
       LET i == FirstOf(k)
           j == LastOf(k)
       IN  (out[k].v # NaN /\ \A n \in (i + 1)..j : rows[n].t - rows[n - 1].t >= Step)
           => out[k].v = interpolate(out[k].t, rows[j - 1], rows[j])
=============================================================================
