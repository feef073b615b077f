---------------------------- MODULE CounterValue -----------------------------
(***************************************************************************)
(* org.opennms.netmgt.api.sample.CounterValue: the difference of two       *)
(* readings of a counter that may have wrapped around in between.          *)
(***************************************************************************)
EXTENDS Integers

CONSTANTS B32, B64      \* 2^32 and 2^64; smaller ones in TLC's runs

ASSUME WidthAssumption == B32 \in Nat \ {0} /\ B64 \in Nat /\ B64 > 2 * B32

(* What a counter of width w shows after it has counted n more.            *)
Counted(reading, n, w) == IF reading + n >= w THEN reading + n - w ELSE reading + n

(* The largest increase that delta() can see: a 64-bit counter that wraps  *)
(* must not look like one of 32 bits.                                      *)
MostSeen(w) == IF w = B32 THEN B32 - 1 ELSE B64 - B32 - 1

(* Mutant: the wrap of 32 bits is off by one, as without "add(ONE)". *)
deltaOffByOne(value, other) ==
    LET diff == value - other
    IN  IF diff >= 0 THEN diff
        ELSE IF diff + B32 < 0 THEN diff + B64 ELSE diff + B32 - 1

delta(value, other) ==
    LET diff == value - other
    IN  IF diff >= 0 THEN diff
        ELSE IF diff + B32 < 0 THEN diff + B64 ELSE diff + B32
=============================================================================
