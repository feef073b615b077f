-------------------------------- MODULE Rate ---------------------------------
(***************************************************************************)
(* org.opennms.netmgt.api.sample.math.Rate over rows of counters that an   *)
(* agent counts up meanwhile: the rate of a row is the increase since the  *)
(* row before, per second.                                                 *)
(***************************************************************************)
EXTENDS CounterValue

CONSTANTS
    Metrics,
    Width,          \* of the counter behind each metric
    PerSecond,      \* 1000: time is in milliseconds
    MaxInterval,    \* bound on the time between two rows
    MaxTime,        \* bound on the time
    NanValue, NoRow

ASSUME RateAssumption ==
    /\ Width \in [Metrics -> {B32, B64}]
    /\ PerSecond \in Nat \ {0} /\ MaxInterval \in Nat /\ MaxTime \in Nat
    /\ NanValue \notin Int

VARIABLES
    register,   \* what the agent's counters show
    increase,   \* how much each has really counted since the last row
    m_prev,     \* the row before
    row,        \* the last row that next() returned
    threw       \* next() ended with an exception

vars == <<register, increase, m_prev, row, threw>>

Readings == UNION {[S -> 0..(B64 - 1)] : S \in SUBSET Metrics}
Rows == [t : Nat, c : Readings]

TypeOK ==
    /\ register \in [Metrics -> 0..(B64 - 1)]
    /\ increase \in [Metrics -> Nat]
    /\ m_prev \in Rows \cup {NoRow}
    /\ row \in [t : Nat, v : [Metrics -> Nat \cup {NanValue}]] \cup {NoRow}
    /\ threw \in BOOLEAN

Init ==
    /\ register \in [Metrics -> 0..(B64 - 1)]
    /\ \A m \in Metrics : register[m] < Width[m]
    /\ increase = [m \in Metrics |-> 0]
    /\ m_prev = NoRow /\ row = NoRow /\ threw = FALSE

(* The agent counts; at most what can be told from a wrap between two rows.*)
Count(m, n) ==
    /\ increase[m] + n <= MostSeen(Width[m])
    /\ increase' = [increase EXCEPT ![m] = @ + n]
    /\ register' = [register EXCEPT ![m] = Counted(@, n, Width[m])]
    /\ UNCHANGED <<m_prev, row, threw>>

(* The rows have increasing times; a row need not have all metrics.        *)
Produced(S, t) == [t |-> t, c |-> [m \in S |-> register[m]]]

rateOf(r, m) ==
    IF m_prev = NoRow THEN NanValue
    ELSE (delta(r.c[m], m_prev.c[m]) * PerSecond) \div (r.t - m_prev.t)

(* The rates of the row's metrics; fillMissingSamples() adds the others.   *)
NewRow(r) ==
    [t |-> r.t, v |-> [m \in Metrics |-> IF m \in DOMAIN r.c THEN rateOf(r, m) ELSE NanValue]]

(* A metric that the row before lacks has no sample to take a value from.  *)
Fails(r) == m_prev # NoRow /\ DOMAIN r.c \ DOMAIN m_prev.c # {}

next(r) ==
    /\ ~Fails(r)
    /\ row' = NewRow(r) /\ m_prev' = r
    /\ increase' = [m \in Metrics |-> 0]
    /\ UNCHANGED <<register, threw>>

nextThrows(r) ==
    /\ Fails(r)
    /\ threw' = TRUE
    /\ UNCHANGED <<register, increase, m_prev, row>>

Elapsed == IF m_prev = NoRow THEN 0..MaxInterval
           ELSE {t \in (m_prev.t + 1)..(m_prev.t + MaxInterval) : t <= MaxTime}

Next ==
    /\ ~threw
    /\ \/ \E m \in Metrics : \E n \in 1..MostSeen(Width[m]) : Count(m, n)
       \/ \E S \in SUBSET Metrics, t \in Elapsed : next(Produced(S, t)) \/ nextThrows(Produced(S, t))

Spec == Init /\ [][Next]_vars

-----------------------------------------------------------------------------
(* A rate is what the counter has really counted since the row before, per *)
(* second and rounded down, whether it wrapped or not and whatever its     *)
(* width; the first row has no rates.                                      *)
RateOfIncrease ==
    [][\A m \in Metrics :
          (row' # row /\ m \in DOMAIN m_prev'.c) =>
             row'.v[m] = IF m_prev = NoRow THEN NanValue
                         ELSE (increase[m] * PerSecond) \div (m_prev'.t - m_prev.t)]_vars

(* What a reading tells: the true increase is the difference to the row    *)
(* before, modulo the width.                                               *)
ReadingsTell ==
    m_prev # NoRow =>
       \A m \in DOMAIN m_prev.c : delta(register[m], m_prev.c[m]) = increase[m]

(* The inductive invariant: the counters show the reading of the row       *)
(* before plus what they have counted since, wrapped at most once.         *)
Inductive ==
    /\ TypeOK
    /\ \A m \in Metrics : register[m] < Width[m] /\ increase[m] <= MostSeen(Width[m])
    /\ m_prev # NoRow =>
         \A m \in DOMAIN m_prev.c :
            /\ m_prev.c[m] < Width[m]
            /\ register[m] = Counted(m_prev.c[m], increase[m], Width[m])
=============================================================================
