----------------------------- MODULE SampleRows ------------------------------
(***************************************************************************)
(* What the sample processors of org.opennms.netmgt.api.sample.math share: *)
(* rows of one metric (every metric is processed alike), the arithmetic of *)
(* GaugeValue, and Timestamp.                                              *)
(*                                                                         *)
(* A double is modelled by an integer: values are multiples of a scale     *)
(* that the divisions of a run divide, so that they are exact.  Times are  *)
(* counted in one unit, and so is the range of an int that is given times. *)
(***************************************************************************)
EXTENDS Integers, Sequences, FiniteSets, SequencesExt

CONSTANTS Times,      \* of the samples
          Values,     \* of the samples, NaN among them
          MaxRows,    \* bound on the rows of a stream
          Step,       \* the step of the output
          HeartBeat,  \* the longest interval that counts as known
          HalfInt,    \* half the number of values of an int (2^31)
          NaN

ASSUME RowsAssumption ==
    /\ Times \subseteq Nat /\ IsFiniteSet(Times)
    /\ Values \subseteq Int \cup {NaN}
    /\ MaxRows \in Nat /\ Step \in Nat \ {0} /\ HeartBeat \in Nat
    /\ HalfInt \in Nat \ {0}
    /\ NaN \notin Int

(* The streams of a producer: Results keeps one row per time, sorted.      *)
Ordered == {s \in UNION {[1..n -> Times] : n \in 0..MaxRows} :
               \A i, j \in DOMAIN s : i < j => s[i] < s[j]}

Streams == UNION {{[k \in DOMAIN s |-> [t |-> s[k], v |-> values[k]]] :
                     values \in [DOMAIN s -> Values]} : s \in Ordered}

(* GaugeValue: NaN is contagious.                                          *)
add(a, b) == IF NaN \in {a, b} THEN NaN ELSE a + b
subtract(a, b) == IF NaN \in {a, b} THEN NaN ELSE a - b
multiply(a, n) == IF a = NaN THEN NaN ELSE a * n
divide(a, n) == IF a = NaN \/ n = 0 THEN NaN ELSE a \div n  \* 0 / 0 is NaN

(* The point at x on the line from row0 to row1; the same in RollUp and    *)
(* Lerp.                                                                   *)
interpolate(x, row0, row1) ==
    add(divide(multiply(subtract(row1.v, row0.v), x - row0.t), row1.t - row0.t), row0.v)

(* An int, and what is left of a long in it: the cast of minus(), and the  *)
(* += of the unknown time of RollUp.                                       *)
Ints == -HalfInt..(HalfInt - 1)
ToInt(n) == ((n + HalfInt) % (2 * HalfInt)) - HalfInt

(* Timestamp *)
atStepBoundaryStart(t) == (t \div Step) * Step
atStepBoundaryEnd(t) == (t \div Step + 1) * Step
=============================================================================
