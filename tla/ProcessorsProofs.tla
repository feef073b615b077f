--------------------------- MODULE ProcessorsProofs --------------------------
(***************************************************************************)
(* What a graph is made by, for all streams, steps, heart beats, counters, *)
(* forms and tables: the page shows the answers it was sent, a step of     *)
(* Lerp is on the line, RollUp skips no step on its way to the last rows   *)
(* and averages each one as an int lets it, and a rate is what the counter *)
(* has really counted.                                                     *)
(***************************************************************************)
EXTENDS MCProcessors, SequenceLemmas, TLAPS

-----------------------------------------------------------------------------
(* Quotient and remainder are what they should be.                         *)
LEMMA DivMod ==
    ASSUME NEW d \in Nat \ {0}, NEW n \in Int
    PROVE  /\ n \div d \in Int /\ (n \in Nat => n \div d \in Nat) /\ n % d \in Nat /\ n % d < d
           /\ n = d * (n \div d) + (n % d)
  BY SMT

LEMMA DivModUnique ==
    ASSUME NEW d \in Nat \ {0}, NEW q \in Int, NEW r \in Nat, r < d
    PROVE  (d * q + r) \div d = q /\ (d * q + r) % d = r
  <1> DEFINE n == d * q + r
  <1>1. n \in Int
    BY SMT
  <1>2. PICK p \in Int, s \in Nat : n = d * p + s /\ s < d /\ p = n \div d /\ s = n % d
    BY <1>1, DivMod
  <1>3. ~(p < q)
    <2>1. ASSUME p < q PROVE FALSE
      <3>1. PICK e \in Nat : q = p + 1 + e
        <4>1. q - p - 1 \in Nat /\ q = p + 1 + (q - p - 1)
          BY <2>1, SMT
        <4> QED BY <4>1
      <3>2. d * q = d * p + d + d * e /\ d * e \in Nat
        BY <3>1, SMT
      <3>3. PICK a \in Int, b \in Int : a = d * q /\ b = d * p
        BY SMT
      <3>4. a + r = b + s
        BY <1>2, <3>3
      <3> QED BY <1>2, <3>2, <3>3, <3>4, SMT
    <2> QED BY <2>1
  <1>4. ~(q < p)
    <2>1. ASSUME q < p PROVE FALSE
      <3>1. PICK e \in Nat : p = q + 1 + e
        <4>1. p - q - 1 \in Nat /\ p = q + 1 + (p - q - 1)
          BY <2>1, SMT
        <4> QED BY <4>1
      <3>2. d * p = d * q + d + d * e /\ d * e \in Nat
        BY <3>1, SMT
      <3>3. PICK a \in Int, b \in Int : a = d * q /\ b = d * p
        BY SMT
      <3>4. a + r = b + s
        BY <1>2, <3>3
      <3> QED BY <1>2, <3>2, <3>3, <3>4, SMT
    <2> QED BY <2>1
  <1>5. p = q
    BY <1>3, <1>4, SMT
  <1> QED BY <1>2, <1>5, SMT

-----------------------------------------------------------------------------
(* What an int keeps of a sum. *)

(* What is left of a number in an int, and by how many ranges it differs.  *)
LEMMA ToIntRange ==
    ASSUME NEW n \in Int
    PROVE  /\ ToInt(n) \in Ints /\ ToInt(n) \in Int
           /\ \E q \in Int : n = ToInt(n) + (2 * HalfInt) * q
  <1>1. PICK d \in Nat \ {0} : d = 2 * HalfInt /\ HalfInt \in Nat \ {0}
    BY RowsAssumption
  <1>2. PICK m \in Int : m = n + HalfInt
    BY <1>1
  <1>3. PICK q \in Int, r \in Nat : q = m \div d /\ r = m % d /\ r < d /\ m = d * q + r
    BY DivMod
  <1>4. ToInt(n) = r - HalfInt
    BY <1>1, <1>2, <1>3 DEF ToInt
  <1>5. PICK a \in Int : a = d * q
    BY SMT
  <1>6. m = a + r
    BY <1>3, <1>5
  <1>7. n = ToInt(n) + a
    BY <1>1, <1>2, <1>4, <1>6
  <1>8. ToInt(n) \in Ints /\ ToInt(n) \in Int
    BY <1>1, <1>3, <1>4 DEF Ints
  <1> QED BY <1>1, <1>3, <1>5, <1>7, <1>8, Zenon

(* The int that differs from a number by ranges is what is left of it.     *)
LEMMA ToIntUnique ==
    ASSUME NEW r \in Ints, NEW q \in Int
    PROVE  ToInt(r + (2 * HalfInt) * q) = r
  <1>1. PICK d \in Nat \ {0} : d = 2 * HalfInt /\ HalfInt \in Nat \ {0}
    BY RowsAssumption
  <1>2. PICK s \in Nat : s = r + HalfInt /\ s < d /\ r = s - HalfInt
    BY <1>1 DEF Ints
  <1>3. PICK a \in Int : a = d * q
    BY SMT
  <1>4. (r + a) + HalfInt = a + s
    BY <1>1, <1>2
  <1>5. (d * q + s) % d = s
    BY <1>2, DivModUnique
  <1>6. ToInt(r + a) = s - HalfInt
    BY <1>1, <1>3, <1>4, <1>5, Zenon DEF ToInt
  <1> QED BY <1>1, <1>2, <1>3, <1>6

(* An int is kept as it is.                                                *)
LEMMA ToIntFits ==
    ASSUME NEW r \in Ints
    PROVE  ToInt(r) = r
  <1>1. (2 * HalfInt) * 0 = 0 /\ r + 0 = r
    BY RowsAssumption DEF Ints
  <1>2. ToInt(r + (2 * HalfInt) * 0) = r
    BY ToIntUnique
  <1> QED BY <1>1, <1>2

LEMMA ZeroFits == 0 \in Ints /\ ToInt(0) = 0
  <1>1. 0 \in Ints
    BY RowsAssumption DEF Ints
  <1> QED BY <1>1, ToIntFits

(* Narrowing after each addition is the same as narrowing the sum.         *)
LEMMA ToIntAdds ==
    ASSUME NEW n \in Int, NEW d \in Int
    PROVE  ToInt(ToInt(n) + d) = ToInt(n + d)
  <1>1. PICK w \in Nat : w = 2 * HalfInt
    BY RowsAssumption
  <1>2. PICK p \in Int, a \in Int : a = ToInt(n) /\ n = a + w * p
    BY <1>1, ToIntRange
  <1>3. PICK b \in Ints, q \in Int : b = ToInt(a + d) /\ a + d = b + w * q /\ b \in Int
    <2>1. a + d \in Int
      OBVIOUS
    <2>2. /\ ToInt(a + d) \in Ints /\ ToInt(a + d) \in Int
          /\ \E q \in Int : a + d = ToInt(a + d) + (2 * HalfInt) * q
      BY <2>1, ToIntRange
    <2> QED BY <1>1, <2>2, Zenon
  <1>4. n + d = b + w * (p + q) /\ p + q \in Int
    <2>1. w * (p + q) = w * p + w * q /\ w * p \in Int /\ w * q \in Int
      BY SMT
    <2>2. PICK x \in Int, y \in Int : x = w * p /\ y = w * q
      BY <2>1
    <2> QED BY <1>2, <1>3, <2>1, <2>2
  <1>5. ToInt(b + w * (p + q)) = b
    BY <1>1, <1>4, ToIntUnique
  <1> QED BY <1>2, <1>3, <1>4, <1>5
(* The processors mean the same int.                                       *)
LEMMA SameInt == \A n : L!ToInt(n) = ToInt(n) /\ R!ToInt(n) = ToInt(n)
  BY Zenon DEF L!ToInt, R!ToInt, ToInt

-----------------------------------------------------------------------------
(* The page: what toSeries() makes of an answer. *)

(* A sequence that is given by its elements, with one more.                *)
LEMMA AppendNext ==
    ASSUME NEW n \in Nat, NEW g
    PROVE  Append([i \in 1..n |-> g[i]], g[n + 1]) = [i \in 1..(n + 1) |-> g[i]]
  <1> DEFINE S == {g[i] : i \in 1..(n + 1)}
             a == [i \in 1..n |-> g[i]]
             b == [i \in 1..(n + 1) |-> g[i]]
  <1>1. a \in Seq(S) /\ Len(a) = n /\ g[n + 1] \in S
    BY SMT
  <1>2. DOMAIN Append(a, g[n + 1]) = 1..(n + 1) /\ Append(a, g[n + 1])[n + 1] = g[n + 1]
        /\ \A k \in 1..n : Append(a, g[n + 1])[k] = a[k]
    <2> HIDE DEF a, S
    <2> QED BY <1>1, AppendElements
  <1>3. Append(a, g[n + 1]) = [i \in 1..(n + 1) |-> Append(a, g[n + 1])[i]]
    <2> HIDE DEF a
    <2>1. Append(a, g[n + 1]) \in Seq(S)
      <3> HIDE DEF S
      <3> QED BY <1>1
    <2> QED BY <1>2, <2>1
  <1>4. \A i \in 1..(n + 1) : Append(a, g[n + 1])[i] = g[i]
    <2>1. \A i \in 1..(n + 1) : i = n + 1 \/ i \in 1..n
      BY SMT
    <2> QED BY <1>2, <2>1
  <1> QED BY <1>3, <1>4, Zenon

(* The sample of row i of table t for the k-th metric of form f, as it is  *)
(* sent and as it is plotted.                                              *)
Triple(f, t, i, k) == <<f[k], t[i].millis, P!json(t[i].values[f[k]])>>
Point(f, t, i, k) == [x |-> t[i].millis \div 1000, y |-> P!json(t[i].values[f[k]])]

Graphed(f, t, n, k) == [name |-> f[k], data |-> [i \in 1..n |-> Point(f, t, i, k)]]

(* The series after q rows and the first r metrics of the next one.        *)
Seen(f, t, q, r) ==
    [k \in 1..(IF q = 0 THEN r ELSE Len(f)) |-> Graphed(f, t, IF k <= r THEN q + 1 ELSE q, k)]

(* One turn of the loop of toSeries() goes on to the next metric.          *)
LEMMA AddsTriple ==
    ASSUME NEW f, Len(f) \in Nat, DOMAIN f = 1..Len(f), IsInjective(f), NEW t,
           NEW q \in Nat, NEW r \in Nat, r < Len(f)
    PROVE  P!AddSample(Seen(f, t, q, r), Triple(f, t, q + 1, r + 1)) = Seen(f, t, q, r + 1)
  <1> DEFINE s == Seen(f, t, q, r)
             triple == Triple(f, t, q + 1, r + 1)
             point == [x |-> triple[2] \div 1000, y |-> triple[3]]
             of == {k \in DOMAIN s : s[k].name = triple[1]}
             size == IF q = 0 THEN r ELSE Len(f)
  <1>1. /\ triple[1] = f[r + 1] /\ point = Point(f, t, q + 1, r + 1)
        /\ size \in Nat /\ DOMAIN s = 1..size
        /\ \A k \in 1..size : s[k] = Graphed(f, t, IF k <= r THEN q + 1 ELSE q, k)
    BY DEF Triple, Point, Seen
  <1>2. ASSUME NEW k \in 1..size PROVE k \in DOMAIN f /\ s[k].name = f[k]
    <2>1. k \in DOMAIN f
      BY SMT
    <2> HIDE DEF s, size
    <2> QED BY <1>1, <2>1 DEF Graphed
  <1>3. of = {k \in 1..size : k = r + 1}
    <2>1. r + 1 \in DOMAIN f
      BY SMT
    <2> HIDE DEF s, triple
    <2> QED BY <1>1, <1>2, <2>1 DEF IsInjective
  <1>4. P!AddSample(s, triple) =
          IF of = {} THEN Append(s, [name |-> triple[1], data |-> <<point>>])
          ELSE [k \in DOMAIN s |->
                  IF k \in of THEN [s[k] EXCEPT !.data = Append(@, point)] ELSE s[k]]
    BY DEF P!AddSample
  <1> HIDE DEF s, triple, point, of
  <1>5. CASE q = 0
    <2>1. of = {} /\ size = r
      BY <1>3, <1>5, SMT
    <2> DEFINE g == [k \in 1..(r + 1) |-> Graphed(f, t, 1, k)]
    <2>2. s = [k \in 1..r |-> g[k]]
      <3>1. s = [k \in 1..r |-> Graphed(f, t, 1, k)]
        BY <1>5, SMT DEF s, Seen
      <3> QED BY <3>1
    <2>3. [name |-> triple[1], data |-> <<point>>] = g[r + 1]
      <3>1. [i \in 1..1 |-> Point(f, t, i, r + 1)] = <<Point(f, t, 1, r + 1)>>
        OBVIOUS
      <3> QED BY <1>1, <1>5, <3>1 DEF Graphed
    <2>4. Seen(f, t, q, r + 1) = [k \in 1..(r + 1) |-> g[k]]
      <3>1. Seen(f, t, q, r + 1) = [k \in 1..(r + 1) |-> Graphed(f, t, 1, k)]
        BY <1>5, SMT DEF Seen
      <3> QED BY <3>1
    <2> HIDE DEF g
    <2>5. Append([k \in 1..r |-> g[k]], g[r + 1]) = [k \in 1..(r + 1) |-> g[k]]
      BY AppendNext
    <2> QED BY <1>4, <2>1, <2>2, <2>3, <2>4, <2>5 DEF s, triple
  <1>6. CASE q # 0
    <2>1. size = Len(f) /\ of = {r + 1} /\ r + 1 \in 1..size
      BY <1>3, <1>6, SMT
    <2> HIDE DEF size
    <2>2. ASSUME NEW k \in 1..Len(f)
          PROVE  (IF k \in of THEN [s[k] EXCEPT !.data = Append(@, point)] ELSE s[k])
                   = Graphed(f, t, IF k <= r + 1 THEN q + 1 ELSE q, k)
      <3>1. CASE k = r + 1
        <4>1. s[k] = Graphed(f, t, q, k)
          <5>1. ~(k <= r) /\ k \in 1..size
            BY <2>1, <3>1, SMT
          <5> QED BY <1>1, <5>1
        <4> DEFINE g == [i \in 1..(q + 1) |-> Point(f, t, i, k)]
        <4>2. Append([i \in 1..q |-> g[i]], g[q + 1]) = [i \in 1..(q + 1) |-> g[i]]
          <5> HIDE DEF g
          <5> QED BY AppendNext
        <4>3. /\ [i \in 1..q |-> g[i]] = [i \in 1..q |-> Point(f, t, i, k)]
              /\ g[q + 1] = point /\ [i \in 1..(q + 1) |-> g[i]] = g
          BY <1>1, <3>1
        <4>4. Append([i \in 1..q |-> Point(f, t, i, k)], point) = g
          BY <4>2, <4>3, Zenon
        <4>5. [s[k] EXCEPT !.data = Append(@, point)] = Graphed(f, t, q + 1, k)
          <5>1. PICK d : d = [i \in 1..q |-> Point(f, t, i, k)]
            OBVIOUS
          <5>2. s[k] = [name |-> f[k], data |-> d] /\ Append(d, point) = g
            BY <4>1, <4>4, <5>1 DEF Graphed
          <5> HIDE DEF g
          <5>3. [s[k] EXCEPT !.data = Append(@, point)] = [name |-> f[k], data |-> g]
            BY <5>2
          <5> QED BY <5>3 DEF g, Graphed
        <4>6. k \in of /\ k <= r + 1
          BY <2>1, <3>1, SMT
        <4> QED BY <4>5, <4>6, Zenon
      <3>2. CASE k # r + 1
        <4>1. k \notin of /\ ((k <= r + 1) <=> (k <= r)) /\ k \in 1..size
          BY <2>1, <3>2, SMT
        <4> QED BY <1>1, <4>1
      <3> QED BY <3>1, <3>2
    <2>3. Seen(f, t, q, r + 1)
            = [k \in 1..Len(f) |-> Graphed(f, t, IF k <= r + 1 THEN q + 1 ELSE q, k)]
      BY <1>6 DEF Seen
    <2> QED BY <1>1, <1>4, <2>1, <2>2, <2>3 DEF s, triple
  <1> QED BY <1>5, <1>6

(* Going on to the next metric of a row, and from the last one to the next *)
(* row.                                                                    *)
LEMMA NextPlace ==
    ASSUME NEW d \in Nat \ {0}, NEW n \in Nat
    PROVE  /\ n \div d \in Nat /\ n % d \in Nat /\ n % d < d
           /\ (n % d) + 1 < d => (n + 1) \div d = n \div d /\ (n + 1) % d = (n % d) + 1
           /\ (n % d) + 1 = d => (n + 1) \div d = (n \div d) + 1 /\ (n + 1) % d = 0
  <1> DEFINE q == n \div d
             r == n % d
  <1>1. q \in Nat /\ r \in Nat /\ r < d /\ n = d * q + r
    BY DivMod
  <1> HIDE DEF q, r
  <1>2. ASSUME r + 1 < d PROVE (n + 1) \div d = q /\ (n + 1) % d = r + 1
    <2>1. n + 1 = d * q + (r + 1) /\ r + 1 \in Nat
      BY <1>1, SMT
    <2> QED BY <1>1, <1>2, <2>1, DivModUnique
  <1>3. ASSUME r + 1 = d PROVE (n + 1) \div d = q + 1 /\ (n + 1) % d = 0
    <2>1. PICK p \in Nat : p = q + 1
      BY <1>1
    <2>2. n + 1 = d * p + 0 /\ 0 \in Nat /\ 0 < d /\ p \in Int
      BY <1>1, <1>3, <2>1, SMT
    <2>3. (d * p + 0) \div d = p /\ (d * p + 0) % d = 0
      BY <2>2, DivModUnique
    <2> QED BY <2>1, <2>2, <2>3, Zenon
  <1> QED BY <1>1, <1>2, <1>3 DEF q, r

(* A form and a table, as they are assumed to be.                          *)
LEMMA FormsAndTables ==
    ASSUME NEW f \in Forms, NEW t \in Tables
    PROVE  /\ Len(f) \in Nat \ {0} /\ DOMAIN f = 1..Len(f) /\ IsInjective(f)
           /\ Len(t) \in Nat /\ DOMAIN t = 1..Len(t) /\ (t # <<>> => Len(t) > 0)
  <1>1. f \in Seq(Range(f)) /\ f # <<>> /\ IsInjective(f) /\ t \in Seq(Range(t))
    BY PlotAssumption
  <1>2. \A S : \A s \in Seq(S) : Len(s) \in Nat /\ DOMAIN s = 1..Len(s) /\ (s # <<>> => Len(s) > 0)
    OBVIOUS
  <1> QED BY <1>1, <1>2

(* What is sent has one place per row and metric.                          *)
LEMMA AnswerOf ==
    ASSUME NEW f \in Forms, NEW t \in Tables, P!getSamples(f, t) # Error
    PROVE  /\ Len(t) * Len(f) \in Nat
           /\ Len(P!getSamples(f, t)) = Len(t) * Len(f)
           /\ \A n \in 1..(Len(t) * Len(f)) :
                 P!getSamples(f, t)[n]
                   = Triple(f, t, ((n - 1) \div Len(f)) + 1, ((n - 1) % Len(f)) + 1)
  <1>1. P!getSamples(f, t)
          = [n \in 1..(Len(t) * Len(f)) |->
               Triple(f, t, ((n - 1) \div Len(f)) + 1, ((n - 1) % Len(f)) + 1)]
    BY DEF P!getSamples, Triple
  <1>2. Len(t) * Len(f) \in Nat
    BY FormsAndTables
  <1> QED BY <1>1, <1>2

(* toSeries() makes of an answer with a row one series per metric of the   *)
(* form, in its order, each of them the whole column of the table.         *)
LEMMA SeriesAreColumns ==
    ASSUME NEW f \in Forms, NEW t \in Tables, P!getSamples(f, t) # Error, t # <<>>
    PROVE  P!toSeries(P!getSamples(f, t))
             = [k \in DOMAIN f |-> [name |-> f[k], data |-> P!Column(t, f[k])]]
  <1> DEFINE d == P!getSamples(f, t)
             K == Len(f)
             N == Len(t) * Len(f)
             Body(g) == [n \in 0..N |-> IF n = 0 THEN <<>> ELSE P!AddSample(g[n - 1], d[n])]
             h == [n \in 0..N |-> Seen(f, t, n \div K, n % K)]
             c == CHOOSE g : g = Body(g)
  <1>1. /\ K \in Nat \ {0} /\ DOMAIN f = 1..K /\ IsInjective(f)
        /\ Len(t) \in Nat \ {0} /\ DOMAIN t = 1..Len(t)
    BY FormsAndTables
  <1>2. N \in Nat /\ Len(d) = N
        /\ \A n \in 1..N : d[n] = Triple(f, t, ((n - 1) \div K) + 1, ((n - 1) % K) + 1)
    BY AnswerOf
  <1> HIDE DEF K
  <1>3. h[0] = <<>> /\ Seen(f, t, 0 \div K, 0 % K) = <<>>
    <2>1. 0 \div K = 0 /\ 0 % K = 0
      <3>1. 0 = K * 0 + 0 /\ 0 < K
        BY <1>1
      <3> QED BY <1>1, <3>1, DivModUnique
    <2>2. Seen(f, t, 0, 0) = <<>>
      BY DEF Seen
    <2> QED BY <1>2, <2>1, <2>2
  <1>4. ASSUME NEW n \in Nat, n + 1 <= N
        PROVE  Seen(f, t, (n + 1) \div K, (n + 1) % K)
                 = P!AddSample(Seen(f, t, n \div K, n % K), d[n + 1])
    <2> DEFINE q == n \div K
               r == n % K
    <2>1. q \in Nat /\ r \in Nat /\ r < K
      BY <1>1, NextPlace
    <2>2. d[n + 1] = Triple(f, t, q + 1, r + 1)
      <3>1. n + 1 \in 1..N /\ (n + 1) - 1 = n
        BY <1>2, <1>4
      <3> HIDE DEF d, N
      <3> QED BY <1>2, <3>1
    <2>3. P!AddSample(Seen(f, t, q, r), d[n + 1]) = Seen(f, t, q, r + 1)
      <3> HIDE DEF q, r, d
      <3> QED BY <1>1, <2>1, <2>2, AddsTriple DEF K
    <2>4. CASE r + 1 < K
      <3>1. (n + 1) \div K = q /\ (n + 1) % K = r + 1
        BY <1>1, <2>4, NextPlace
      <3> QED BY <2>3, <3>1
    <2>5. CASE r + 1 = K
      <3>1. (n + 1) \div K = q + 1 /\ (n + 1) % K = 0
        BY <1>1, <2>5, NextPlace
      <3>2. Seen(f, t, q + 1, 0) = Seen(f, t, q, r + 1)
        <4> HIDE DEF q, r
        <4>1. \A k \in 1..K : k <= r + 1 /\ ~(k <= 0)
          BY <2>5, <1>1
        <4>2. Seen(f, t, q + 1, 0) = [k \in 1..K |-> Graphed(f, t, q + 1, k)]
          BY <2>1, <4>1 DEF Seen, K
        <4>3. Seen(f, t, q, r + 1) = [k \in 1..K |-> Graphed(f, t, q + 1, k)]
          BY <2>1, <2>5, <4>1 DEF Seen, K
        <4> QED BY <4>2, <4>3
      <3> QED BY <2>3, <3>1, <3>2
    <2> QED BY <1>1, <2>1, <2>4, <2>5
  <1>5. h = Body(h)
    <2>1. ASSUME NEW n \in 0..N
          PROVE  h[n] = IF n = 0 THEN <<>> ELSE P!AddSample(h[n - 1], d[n])
      <3>1. CASE n = 0
        BY <1>3, <3>1
      <3>2. CASE n # 0
        <4>1. PICK m \in Nat : n = m + 1 /\ m + 1 <= N /\ m \in 0..N
          <5>1. n - 1 \in Nat /\ n = (n - 1) + 1
            BY <1>2, <3>2
          <5> QED BY <1>2, <5>1
        <4>2. h[n] = Seen(f, t, (m + 1) \div K, (m + 1) % K) /\ h[n - 1] = Seen(f, t, m \div K, m % K)
          BY <4>1
        <4> HIDE DEF h
        <4> QED BY <1>4, <3>2, <4>1, <4>2
      <3> QED BY <3>1, <3>2
    <2> QED BY <2>1
  <1>6. c = Body(c)
    <2> HIDE DEF Body, h
    <2> QED BY <1>5
  <1>7. P!toSeries(d) = c[N]
    <2> HIDE DEF d
    <2>1. P!toSeries(d) = (CHOOSE g : g = [n \in 0..Len(d) |->
                IF n = 0 THEN <<>> ELSE P!AddSample(g[n - 1], d[n])])[Len(d)]
      BY DEF P!toSeries
    <2> QED BY <1>2, <2>1
  <1> HIDE DEF c, d, h, N
  <1>8. ASSUME NEW n \in 0..N PROVE c[n] = IF n = 0 THEN <<>> ELSE P!AddSample(c[n - 1], d[n])
    BY <1>6
  <1> DEFINE S == {n \in Nat : n <= N => c[n] = Seen(f, t, n \div K, n % K)}
  <1>9. 0 \in S
    BY <1>2, <1>3, <1>8
  <1>10. ASSUME NEW n \in Nat, n \in S PROVE n + 1 \in S
    <2> SUFFICES ASSUME n + 1 <= N PROVE c[n + 1] = Seen(f, t, (n + 1) \div K, (n + 1) % K)
      OBVIOUS
    <2>1. n + 1 \in 0..N /\ (n + 1) - 1 = n /\ n + 1 # 0 /\ n <= N
      BY <1>2
    <2>2. c[n] = Seen(f, t, n \div K, n % K)
      BY <1>10, <2>1
    <2>3. c[n + 1] = P!AddSample(c[n], d[n + 1])
      BY <1>8, <2>1
    <2> QED BY <1>4, <2>2, <2>3
  <1> HIDE DEF S
  <1>11. N \in S
    BY <1>2, <1>9, <1>10, SetInduction
  <1>12. N \div K = Len(t) /\ N % K = 0
    <2>1. N = K * Len(t) + 0 /\ 0 < K
      BY <1>1 DEF N, K
    <2>2. PICK p \in Int : p = Len(t)
      <3>1. Len(t) \in Int
        BY <1>1
      <3> QED BY <3>1, Zenon
    <2>3. (K * p + 0) \div K = p /\ (K * p + 0) % K = 0
      BY <1>1, <2>1, DivModUnique
    <2> QED BY <2>1, <2>2, <2>3
  <1>13. c[N] = Seen(f, t, Len(t), 0)
    BY <1>2, <1>11, <1>12 DEF S
  <1>14. Seen(f, t, Len(t), 0) = [k \in 1..K |-> Graphed(f, t, Len(t), k)]
    <2>1. \A k \in 1..K : ~(k <= 0)
      BY <1>1
    <2> QED BY <1>1, <2>1 DEF Seen, K
  <1>15. ASSUME NEW k \in 1..K
         PROVE  Graphed(f, t, Len(t), k) = [name |-> f[k], data |-> P!Column(t, f[k])]
    BY <1>1 DEF Graphed, Point, P!Column
  <1> QED BY <1>1, <1>7, <1>13, <1>14, <1>15 DEF d

-----------------------------------------------------------------------------
(* The page: requests and the chart. *)

Graphs == {[request |-> n, metrics |-> f, rows |-> t, series |-> P!toSeries(P!getSamples(f, t))] :
             n \in Nat, f \in Forms, t \in Tables}

PlotTypes ==
    /\ asked \in 0..MaxRequests
    /\ DOMAIN inFlight \subseteq 1..asked
    /\ \A n \in DOMAIN inFlight : inFlight[n] \in Forms
    /\ carried \subseteq 1..asked
    /\ chart \in Seq(Graphs)

(* What is in flight was sent last or was in flight then; what is in the   *)
(* chart was, and is not in flight any more.                               *)
ChartInv ==
    /\ DOMAIN inFlight \subseteq carried \cup {asked}
    /\ \A i \in DOMAIN chart :
          /\ chart[i].request \in 1..asked
          /\ chart[i].request \notin DOMAIN inFlight
          /\ chart[i].request \in carried \cup {asked}
          /\ P!getSamples(chart[i].metrics, chart[i].rows) # Error
    /\ \A i, j \in DOMAIN chart : chart[i].request = chart[j].request => i = j

PlotInv == PlotTypes /\ ChartInv

LEMMA GraphFields ==
    ASSUME NEW g \in Graphs
    PROVE  /\ g.request \in Nat /\ g.metrics \in Forms /\ g.rows \in Tables
           /\ g.series = P!toSeries(P!getSamples(g.metrics, g.rows))
  BY DEF Graphs

LEMMA PlotInitInv == P!PlotInit => PlotInv
  <1> SUFFICES ASSUME P!PlotInit PROVE PlotInv
    OBVIOUS
  <1>1. asked = 0 /\ inFlight = <<>> /\ chart = <<>> /\ carried = {}
    BY DEF P!PlotInit
  <1>2. DOMAIN inFlight = {} /\ DOMAIN chart = {} /\ chart \in Seq(Graphs)
    BY <1>1
  <1>3. asked \in 0..MaxRequests
    BY <1>1, PlotAssumption
  <1> QED BY <1>1, <1>2, <1>3, Zenon DEF PlotInv, PlotTypes, ChartInv

LEMMA SendKeeps == ASSUME PlotInv, NEW f \in Forms, P!plotSamples(f) PROVE PlotInv'
  <1>1. /\ asked < MaxRequests /\ asked' = asked + 1 /\ chart' = <<>> /\ carried' = DOMAIN inFlight
        /\ DOMAIN inFlight' = DOMAIN inFlight \cup {asked + 1}
        /\ \A n \in DOMAIN inFlight' : inFlight'[n] = IF n = asked + 1 THEN f ELSE inFlight[n]
    BY DEF P!plotSamples
  <1>2. asked \in Nat /\ asked' \in 0..MaxRequests /\ 1..asked \subseteq 1..asked'
        /\ asked + 1 \in 1..asked'
    BY <1>1, PlotAssumption DEF PlotInv, PlotTypes
  <1>3. DOMAIN chart' = {} /\ chart' \in Seq(Graphs')
    BY <1>1
  <1>4. PlotTypes'
    <2>1. /\ DOMAIN inFlight \subseteq 1..asked
          /\ \A n \in DOMAIN inFlight : inFlight[n] \in Forms
      BY DEF PlotInv, PlotTypes
    <2>2. DOMAIN inFlight' \subseteq 1..asked' /\ carried' \subseteq 1..asked'
      BY <1>1, <1>2, <2>1, Zenon
    <2>3. \A n \in DOMAIN inFlight' : inFlight'[n] \in Forms
      BY <1>1, <2>1, Zenon
    <2> QED BY <1>2, <1>3, <2>2, <2>3, Zenon DEF PlotTypes
  <1>5. ChartInv'
    BY <1>1, <1>3, Zenon DEF ChartInv
  <1> QED BY <1>4, <1>5 DEF PlotInv

LEMMA AnswerKeeps == ASSUME PlotInv, NEW n \in DOMAIN inFlight, P!Draw(n) \/ P!DrawFails(n) PROVE PlotInv'
  <1>1. /\ DOMAIN inFlight' = DOMAIN inFlight \ {n}
        /\ \A m \in DOMAIN inFlight' : inFlight'[m] = inFlight[m]
        /\ asked' = asked /\ carried' = carried
    <2>1. P!Done(n) /\ asked' = asked /\ carried' = carried
      BY Zenon DEF P!Draw, P!DrawFails
    <2> QED BY <2>1 DEF P!Done, P!Restrict
  <1>2. CASE chart' = chart
    BY <1>1, <1>2 DEF PlotInv, PlotTypes, ChartInv, Graphs
  <1>3. CASE P!Draw(n)
    <2>1. PICK t \in Tables : /\ P!getSamples(inFlight[n], t) # Error
                              /\ chart' = Append(chart, P!Graph(n, t))
      BY <1>3 DEF P!Draw
    <2>2. PICK g : g = P!Graph(n, t)
      OBVIOUS
    <2>3. inFlight[n] \in Forms /\ n \in 1..asked /\ n \in Nat /\ n \in carried \cup {asked}
      BY DEF PlotInv, PlotTypes, ChartInv
    <2>4. g \in Graphs /\ g.request = n /\ g.metrics = inFlight[n] /\ g.rows = t
      BY <2>2, <2>3 DEF P!Graph, Graphs
    <2>5. chart \in Seq(Graphs) /\ chart' = Append(chart, g)
      BY <2>1, <2>2 DEF PlotInv, PlotTypes
    <2>6. /\ DOMAIN chart = 1..Len(chart) /\ Len(chart) \in Nat
          /\ DOMAIN chart' = 1..(Len(chart) + 1) /\ chart'[Len(chart) + 1] = g
          /\ \A i \in 1..Len(chart) : chart'[i] = chart[i]
      BY <2>4, <2>5, AppendElements
    <2>7. ASSUME NEW i \in DOMAIN chart'
          PROVE  \/ i \in DOMAIN chart /\ chart'[i] = chart[i]
                 \/ i = Len(chart) + 1 /\ chart'[i] = g
      BY <2>6
    <2>8. ASSUME NEW i \in DOMAIN chart'
          PROVE  /\ chart'[i].request \in 1..asked
                 /\ chart'[i].request \notin DOMAIN inFlight'
                 /\ chart'[i].request \in carried \cup {asked}
                 /\ P!getSamples(chart'[i].metrics, chart'[i].rows) # Error
      <3>1. CASE i \in DOMAIN chart /\ chart'[i] = chart[i]
        BY <1>1, <3>1 DEF PlotInv, ChartInv
      <3>2. CASE chart'[i] = g
        BY <1>1, <2>1, <2>3, <2>4, <3>2
      <3> QED BY <2>7, <3>1, <3>2
    <2>9. \A i, j \in DOMAIN chart' : chart'[i].request = chart'[j].request => i = j
      <3>1. \A i \in DOMAIN chart : chart[i].request # n
        BY DEF PlotInv, ChartInv
      <3> QED BY <2>4, <2>7, <3>1 DEF PlotInv, ChartInv
    <2>10. chart' \in Seq(Graphs')
      BY <2>4, <2>5 DEF Graphs
    <2>11. PlotTypes'
      BY <1>1, <2>10 DEF PlotInv, PlotTypes
    <2>12. ChartInv'
      BY <1>1, <2>8, <2>9 DEF PlotInv, ChartInv
    <2> QED BY <2>11, <2>12 DEF PlotInv
  <1> QED BY <1>2, <1>3 DEF P!DrawFails

LEMMA PlotStepInv == ASSUME PlotInv, [MCNext]_allVars PROVE PlotInv'
  <1>1. CASE UNCHANGED plotVars
    BY <1>1 DEF plotVars, PlotInv, PlotTypes, ChartInv, Graphs
  <1>2. CASE P!PlotNext
    BY <1>2, SendKeeps, AnswerKeeps DEF P!PlotNext
  <1> QED BY <1>1, <1>2 DEF MCNext, allVars

THEOREM PlotInvHolds == MCSpec => []PlotInv
  <1>1. MCInit => PlotInv
    BY PlotInitInv DEF MCInit
  <1> QED BY <1>1, PlotStepInv, PTL DEF MCSpec

(* plotSamples(): the chart shows the answers of the last request, and of  *)
(* those that were under way when it was sent, each once, each whole.      *)
THEOREM GraphsAreAnswersHolds == MCSpec => []GraphsAreAnswers
  <1>1. PlotInv => GraphsAreAnswers
    <2> SUFFICES ASSUME PlotInv PROVE GraphsAreAnswers
      OBVIOUS
    <2>1. ASSUME NEW i \in DOMAIN chart
          PROVE  /\ chart[i].request \in carried \cup {asked}
                 /\ chart[i].rows # <<>> =>
                      chart[i].series = [k \in DOMAIN chart[i].metrics |->
                         [name |-> chart[i].metrics[k],
                          data |-> P!Column(chart[i].rows, chart[i].metrics[k])]]
      <3>1. PICK f, t : f = chart[i].metrics /\ t = chart[i].rows
        OBVIOUS
      <3>2. chart[i] \in Graphs
        BY DEF PlotInv, PlotTypes
      <3>3. /\ f \in Forms /\ t \in Tables /\ P!getSamples(f, t) # Error
            /\ chart[i].series = P!toSeries(P!getSamples(f, t))
        BY <3>1, <3>2, GraphFields DEF PlotInv, ChartInv
      <3>4. t # <<>> => chart[i].series = [k \in DOMAIN f |-> [name |-> f[k], data |-> P!Column(t, f[k])]]
        BY <3>3, SeriesAreColumns
      <3> QED BY <3>1, <3>4, Zenon DEF PlotInv, ChartInv
    <2> QED BY <2>1, Zenon DEF PlotInv, ChartInv, GraphsAreAnswers, P!GraphsAreAnswers
  <1> QED BY <1>1, PlotInvHolds, PTL
-----------------------------------------------------------------------------
(* Streams of rows. *)

StreamRow == [t : Nat, v : Int \cup {NaN}]

Sorted(s) == s \in Seq(StreamRow) /\ \A i, j \in DOMAIN s : i < j => s[i].t < s[j].t

StreamInv == rows \in Streams \cup {<<>>} /\ (m_initComplete => processor = "Lerp")

LEMMA StreamsAreSorted ==
    ASSUME NEW s \in Streams \cup {<<>>}
    PROVE  Sorted(s) /\ \A i \in DOMAIN s : s[i].t \in Times
  <1>1. CASE s = <<>>
    BY <1>1 DEF Sorted
  <1>2. CASE s \in Streams
    <2>0. PICK o \in Ordered : s \in {[k \in DOMAIN o |-> [t |-> o[k], v |-> values[k]]] :
                                         values \in [DOMAIN o -> Values]}
      BY <1>2, Zenon DEF Streams
    <2>1. PICK val \in [DOMAIN o -> Values] :
             s = [k \in DOMAIN o |-> [t |-> o[k], v |-> val[k]]]
      BY <2>0, Zenon
    <2>2. PICK n \in 0..MaxRows : o \in [1..n -> Times]
      BY Zenon DEF Ordered
    <2>3. \A i, j \in DOMAIN o : i < j => o[i] < o[j]
      BY Zenon DEF Ordered
    <2>4. DOMAIN o = 1..n /\ n \in Nat /\ DOMAIN s = 1..n
      BY <2>1, <2>2, RowsAssumption
    <2>5. ASSUME NEW k \in 1..n
          PROVE  s[k] \in StreamRow /\ s[k].t = o[k] /\ o[k] \in Times
      BY <2>1, <2>2, <2>4, RowsAssumption DEF StreamRow
    <2>6. s \in Seq(StreamRow)
      <3>1. s = [k \in 1..n |-> s[k]]
        BY <2>1, <2>4
      <3> QED BY <2>4, <2>5, <3>1
    <2> QED BY <2>3, <2>4, <2>5, <2>6 DEF Sorted
  <1> QED BY <1>1, <1>2

LEMMA StreamStepInv == ASSUME StreamInv, [MCNext]_allVars PROVE StreamInv' /\ rows' = rows
  <1>1. CASE UNCHANGED allVars
    <2>1. rows' = rows /\ m_initComplete' = m_initComplete /\ processor' = processor
      BY <1>1 DEF allVars, lerpVars
    <2> QED BY <2>1, Zenon DEF StreamInv, Streams, Ordered
  <1>2. CASE processor = "Lerp" /\ L!Next /\ processor' = processor
    <2>1. rows' = rows
      BY <1>2, Zenon DEF L!Next, L!Begin, L!NoRows, L!Ended, L!PastStep, L!Within, L!Skip
    <2> QED BY <1>2, <2>1, Zenon DEF StreamInv, Streams, Ordered
  <1>3. CASE rows' = rows /\ UNCHANGED <<processor, lerpVars>>
    <2>1. m_initComplete' = m_initComplete /\ processor' = processor
      BY <1>3 DEF lerpVars
    <2> QED BY <1>3, <2>1, Zenon DEF StreamInv, Streams, Ordered
  <1>4. CASE MCNext
    <2>1. CASE R!Next /\ UNCHANGED <<processor, lerpVars>>
      <3>1. rows' = rows
        BY <2>1, Zenon DEF R!Next, R!Initialize, R!InitializeFails, R!Consume, R!Exhausted
      <3> QED BY <1>3, <2>1, <3>1
    <2> QED BY <1>2, <1>3, <1>4, <2>1 DEF MCNext
  <1> QED BY <1>1, <1>4

(* What is left of a sequence.                                             *)
LEMMA SubSeqFrom ==
    ASSUME NEW S, NEW s \in Seq(S), NEW k \in Nat \ {0}
    PROVE  /\ SubSeq(s, k, Len(s)) \in Seq(S)
           /\ Len(SubSeq(s, k, Len(s))) = IF k <= Len(s) THEN Len(s) - k + 1 ELSE 0
           /\ \A i \in 1..(Len(s) - k + 1) : SubSeq(s, k, Len(s))[i] = s[i + k - 1]
  BY SMT

-----------------------------------------------------------------------------
(* The steps of Lerp. *)

LEMMA Boundaries ==
    ASSUME NEW n \in Nat
    PROVE  /\ n \div Step \in Nat /\ atStepBoundaryStart(n) = Step * (n \div Step)
           /\ atStepBoundaryEnd(n) = Step * (n \div Step) + Step
           /\ Step * (n \div Step) \in Nat /\ Step * (n \div Step) <= n
  <1>1. /\ Step \in Nat \ {0} /\ n \div Step \in Nat /\ n % Step \in Nat
        /\ n = Step * (n \div Step) + (n % Step)
    BY RowsAssumption, DivMod
  <1>2. PICK q \in Nat, r \in Nat : q = n \div Step /\ r = n % Step
    BY <1>1
  <1>3. n = Step * q + r
    BY <1>1, <1>2
  <1>4. q * Step = Step * q /\ (q + 1) * Step = Step * q + Step /\ Step * q \in Nat
    BY <1>1, SMT
  <1>5. Step * q <= n
    BY <1>1, <1>3, <1>4
  <1> QED BY <1>2, <1>4, <1>5 DEF atStepBoundaryStart, atStepBoundaryEnd

LEMMA StepsGrow ==
    ASSUME NEW k \in Nat
    PROVE  /\ L!getCurrent(k) \in Nat /\ atStepBoundaryStart(Start) <= L!getCurrent(k)
           /\ L!getCurrent(k) < L!getCurrent(k + 1)
           /\ atStepBoundaryStart(Start) \in Nat
           /\ L!stepsHasNext(k) => L!getCurrent(k) <= Finish
  <1> DEFINE b == Start \div Step
             e == Finish \div Step
  <1>1. Step \in Nat \ {0} /\ Start \in Nat /\ Finish \in Nat
    BY RowsAssumption, LerpAssumption
  <1>2. b \in Nat /\ atStepBoundaryStart(Start) = Step * b /\ Step * b \in Nat
    BY <1>1, Boundaries
  <1>3. e \in Nat /\ atStepBoundaryEnd(Finish) = Step * e + Step /\ Step * e \in Nat /\ Step * e <= Finish
    BY <1>1, Boundaries
  <1> HIDE DEF b, e
  <1>4. /\ k * Step \in Nat /\ (k + 1) * Step = k * Step + Step
        /\ Step * b + k * Step = Step * (b + k)
    BY <1>1, <1>2, SMT
  <1>5. L!getCurrent(k) = Step * b + k * Step /\ L!getCurrent(k + 1) = Step * b + (k + 1) * Step
    BY <1>2 DEF L!getCurrent, L!atStepBoundaryStart, atStepBoundaryStart
  <1>6. ASSUME L!stepsHasNext(k) PROVE L!getCurrent(k) <= Finish
    <2>1. Step * (b + k) < Step * e + Step
      BY <1>3, <1>4, <1>5, <1>6 DEF L!stepsHasNext, L!atStepBoundaryEnd, atStepBoundaryEnd
    <2>2. b + k <= e
      <3>1. ASSUME e < b + k PROVE FALSE
        <4>1. PICK d \in Nat : b + k = e + 1 + d
          <5>1. b + k - e - 1 \in Nat /\ b + k = e + 1 + (b + k - e - 1)
            BY <1>2, <1>3, <3>1
          <5> QED BY <5>1
        <4>2. Step * (b + k) = Step * e + Step + Step * d /\ Step * d \in Nat
          BY <1>1, <1>3, <4>1, SMT
        <4> QED BY <1>1, <1>3, <2>1, <4>2
      <3> QED BY <1>2, <1>3, <3>1
    <2>3. PICK d \in Nat : e = b + k + d
      <3>1. e - b - k \in Nat /\ e = b + k + (e - b - k)
        BY <1>2, <1>3, <2>2
      <3> QED BY <3>1
    <2>4. Step * e = Step * (b + k) + Step * d /\ Step * d \in Nat /\ Step * (b + k) \in Nat
      BY <1>1, <1>2, <2>3, SMT
    <2> QED BY <1>1, <1>3, <1>4, <1>5, <2>4
  <1> QED BY <1>1, <1>2, <1>4, <1>5, <1>6

(* A quotient of integers is one.                                          *)
LEMMA DivideType ==
    ASSUME NEW a \in Int \cup {NaN}, NEW n \in Nat
    PROVE  divide(a, n) \in Int \cup {NaN}
  BY RowsAssumption, SMT DEF divide

(* The line between two rows, and NaN where there is none.                 *)
LEMMA InterpolateType ==
    ASSUME NEW x \in Nat, NEW a \in StreamRow, NEW b \in StreamRow, a.t <= b.t
    PROVE  interpolate(x, a, b) \in Int \cup {NaN}
  <1>1. /\ a.t \in Nat /\ b.t \in Nat /\ a.v \in Int \cup {NaN} /\ b.v \in Int \cup {NaN}
        /\ NaN \notin Int
    BY RowsAssumption DEF StreamRow
  <1>2. subtract(b.v, a.v) \in Int \cup {NaN}
    BY <1>1 DEF subtract
  <1>3. multiply(subtract(b.v, a.v), x - a.t) \in Int \cup {NaN}
    <2>1. x - a.t \in Int
      BY <1>1
    <2>2. \A p, d \in Int : p * d \in Int
      BY SMT
    <2>3. \A p \in Int \cup {NaN}, d \in Int : multiply(p, d) \in Int \cup {NaN}
      BY <2>2, Zenon DEF multiply
    <2> QED BY <1>2, <2>1, <2>3, Zenon
  <1>4. b.t - a.t \in Nat
    BY <1>1
  <1>5. divide(multiply(subtract(b.v, a.v), x - a.t), b.t - a.t) \in Int \cup {NaN}
    BY <1>3, <1>4, DivideType
  <1> HIDE DEF interpolate
  <1>6. \A p \in Int \cup {NaN} : add(p, a.v) \in Int \cup {NaN}
    BY <1>1 DEF add
  <1> QED BY <1>5, <1>6, Zenon DEF interpolate

LEMMA SameLine ==
    ASSUME NEW x, NEW a, NEW b
    PROVE  L!interpolate(x, a, b) = interpolate(x, a, b) /\ R!interpolate(x, a, b) = interpolate(x, a, b)
  BY Zenon DEF L!interpolate, L!add, L!divide, L!multiply, L!subtract,
     R!interpolate, R!add, R!divide, R!multiply, R!subtract,
     interpolate, add, divide, multiply, subtract

-----------------------------------------------------------------------------
(* Lerp: where the next() of the iteration is.                             *)

Resampled == [t : Nat, v : Int \cup {NaN, Null}]

(* The left row in hand is the i-th of the stream, and its neighbours and  *)
(* what is left go with it; it was not moved on from too early.            *)
LerpAt(i) ==
    /\ i \in DOMAIN rows
    /\ m_rowL = rows[i]
    /\ m_prevL = rows[IF i = 1 THEN 1 ELSE i - 1]
    /\ m_rowR = IF i < Len(rows) THEN rows[i + 1] ELSE None
    /\ Len(rest) = IF i + 1 < Len(rows) THEN Len(rows) - i - 1 ELSE 0
    /\ \A k \in 1..Len(rest) : rest[k] = rows[i + 1 + k]
    /\ i > 1 /\ m_currentStep # None => rows[i - 1].t < m_currentStep

LerpPlace ==
    IF ~m_initComplete
    THEN /\ m_prevL = None /\ m_rowL = None /\ m_rowR = None
         /\ m_currentStep = None /\ m_count = 0
         /\ processor = "Lerp" => rest = rows
    ELSE \/ rows = <<>> /\ m_prevL = None /\ m_rowL = None /\ m_rowR = None
         \/ \E i \in DOMAIN rows : LerpAt(i)

(* The step in hand is the last one that the iterator of Steps returned.   *)
LerpStep ==
    /\ m_count \in Nat
    /\ m_currentStep = None => ~m_initComplete \/ ~L!stepsHasNext(m_count)
    /\ m_currentStep # None => /\ m_count # 0
                               /\ m_currentStep = L!getCurrent(m_count - 1)
                               /\ L!stepsHasNext(m_count - 1)

(* A row that was returned lies between two rows of the stream, as far as  *)
(* minus() can tell their distance, or is of the time of a lone row.       *)
OfLoneRow(x) == IF rows[1].t < x THEN L!interpolated(x, rows[1], rows[1]) ELSE NaN

Between(x, v) ==
    IF Len(rows) = 1 THEN v = OfLoneRow(x)
    ELSE \E i \in L!Neighbours(x) \cap 1..(Len(rows) - 1) :
            v = L!interpolated(x, rows[i], rows[i + 1])

LerpOutput ==
    /\ resampled \in Seq(Resampled)
    /\ \A k \in DOMAIN resampled : Between(resampled[k].t, resampled[k].v)

LerpTypes == m_initComplete \in BOOLEAN /\ lerpThrew \in BOOLEAN /\ rest \in Seq(StreamRow)

LerpInv == LerpTypes /\ LerpPlace /\ LerpStep /\ LerpOutput

LEMMA InterpolatedType ==
    ASSUME NEW x \in Nat, NEW a \in StreamRow, NEW b \in StreamRow, a.t <= b.t
    PROVE  L!interpolated(x, a, b) \in Int \cup {NaN, Null}
  <1>1. interpolate(x, a, b) \in Int \cup {NaN}
    BY InterpolateType
  <1> QED BY <1>1, SameLine, Zenon DEF L!interpolated

LEMMA SortedRows ==
    ASSUME NEW s, Sorted(s)
    PROVE  /\ s \in Seq(StreamRow) /\ Len(s) \in Nat /\ DOMAIN s = 1..Len(s)
           /\ \A i \in DOMAIN s : s[i] \in StreamRow /\ s[i].t \in Nat
           /\ \A i, j \in DOMAIN s : i < j => s[i].t < s[j].t
  <1>1. s \in Seq(StreamRow) /\ Len(s) \in Nat /\ DOMAIN s = 1..Len(s)
    BY DEF Sorted
  <1>2. \A i \in DOMAIN s : s[i] \in StreamRow
    BY <1>1
  <1>3. \A r \in StreamRow : r.t \in Nat
    BY DEF StreamRow
  <1> QED BY <1>1, <1>2, <1>3, Zenon DEF Sorted

(* The neighbours of a step that two rows enclose, or that is before the   *)
(* first row or after the last one.                                        *)
LEMMA Enclosed ==
    ASSUME Sorted(rows), NEW n \in Nat, n = Len(rows),
           NEW i \in 1..(n - 1), NEW x \in Nat,
           \/ rows[i].t <= x /\ x <= rows[i + 1].t
           \/ i = 1 /\ x < rows[1].t
           \/ i = n - 1 /\ rows[n].t < x
    PROVE  i \in L!Neighbours(x)
  <1> DEFINE around == {j \in 1..(n - 1) : rows[j].t <= x /\ x <= rows[j + 1].t}
  <1>1. \A j \in DOMAIN rows : rows[j].t \in Nat
    BY SortedRows
  <1>2. DOMAIN rows = 1..n
    BY SortedRows
  <1>3. \A j, k \in DOMAIN rows : j < k => rows[j].t < rows[k].t
    BY SortedRows
  <1>4. CASE rows[i].t <= x /\ x <= rows[i + 1].t
    <2>1. i \in around
      BY <1>4
    <2> QED BY <2>1 DEF L!Neighbours
  <1>5. CASE i = 1 /\ x < rows[1].t
    <2>1. \A j \in 1..(n - 1) : j \in DOMAIN rows /\ rows[1].t <= rows[j].t
      <3>1. ASSUME NEW j \in 1..(n - 1) PROVE j \in DOMAIN rows /\ rows[1].t <= rows[j].t
        <4>1. j \in DOMAIN rows /\ 1 \in DOMAIN rows
          BY <1>2
        <4>2. CASE j = 1
          BY <1>1, <4>1, <4>2
        <4>3. CASE 1 < j
          BY <1>3, <1>1, <4>1, <4>3
        <4> QED BY <4>1, <4>2, <4>3
      <3> QED BY <3>1
    <2>2. around = {}
      <3>1. ASSUME NEW j \in around PROVE FALSE
        <4>1. j \in 1..(n - 1) /\ rows[j].t <= x
          OBVIOUS
        <4>2. j \in DOMAIN rows /\ rows[1].t <= rows[j].t
          BY <2>1, <4>1
        <4>3. 1 \in DOMAIN rows
          BY <1>2, <4>1
        <4> QED BY <1>1, <1>5, <4>1, <4>2, <4>3
      <3> QED BY <3>1
    <2> QED BY <1>5, <2>2 DEF L!Neighbours
  <1>6. CASE i = n - 1 /\ rows[n].t < x
    <2>1. ASSUME NEW j \in around PROVE FALSE
      <3>1. j \in 1..(n - 1) /\ x <= rows[j + 1].t
        OBVIOUS
      <3>2. j + 1 \in DOMAIN rows /\ n \in DOMAIN rows
        BY <1>2, <3>1
      <3>3. rows[j + 1].t <= rows[n].t
        <4>1. CASE j + 1 = n
          BY <1>1, <3>2, <4>1
        <4>2. CASE j + 1 < n
          BY <1>3, <1>1, <3>2, <4>2
        <4> QED BY <1>2, <3>1, <4>1, <4>2
      <3> QED BY <1>1, <1>6, <3>1, <3>2, <3>3
    <2>2. around = {}
      BY <2>1
    <2>3. ~(x < rows[1].t)
      <3>1. 1 \in DOMAIN rows /\ n \in DOMAIN rows /\ 1 < n
        BY <1>2
      <3>2. rows[1].t < rows[n].t
        BY <1>3, <3>1
      <3> QED BY <1>1, <1>6, <3>1, <3>2
    <2> QED BY <1>6, <2>2, <2>3 DEF L!Neighbours
  <1> QED BY <1>4, <1>5, <1>6

-----------------------------------------------------------------------------
(* Lerp: what each entry of next() keeps. *)

LEMMA AdvanceStep ==
    ASSUME LerpStep, m_initComplete, m_currentStep # None, L!stepAdvance, m_initComplete'
    PROVE  /\ LerpStep' /\ m_currentStep \in Nat
           /\ m_currentStep' # None => m_currentStep' \in Nat /\ m_currentStep < m_currentStep'
  <1>1. /\ m_count \in Nat /\ m_count # 0
        /\ m_currentStep = L!getCurrent(m_count - 1)
    BY Zenon DEF LerpStep
  <1>2. PICK k \in Nat : m_count = k + 1
    <2>1. m_count - 1 \in Nat /\ m_count = (m_count - 1) + 1
      BY <1>1
    <2> QED BY <2>1
  <1>3. m_currentStep = L!getCurrent(k)
    BY <1>1, <1>2
  <1>4. /\ L!getCurrent(k) \in Nat /\ L!getCurrent(k) < L!getCurrent(k + 1)
        /\ L!getCurrent(k + 1) \in Nat
    BY <1>2, StepsGrow
  <1>5. L!getCurrent(k) \in Nat => L!getCurrent(k) # None
    BY LerpAssumption
  <1>6. CASE L!stepsHasNext(m_count)
    <2>1. m_currentStep' = L!getCurrent(k + 1) /\ m_count' = m_count + 1
      BY <1>2, <1>6, Zenon DEF L!stepAdvance
    <2>2. m_currentStep' # None
      BY <1>4, <2>1, LerpAssumption
    <2>3. m_count' \in Nat /\ m_count' # 0 /\ m_count' - 1 = m_count /\ m_count = k + 1
      BY <1>2, <2>1
    <2>4. LerpStep'
      BY <1>6, <2>1, <2>2, <2>3, Zenon DEF LerpStep
    <2> QED BY <1>3, <1>4, <2>1, <2>4
  <1>7. CASE ~L!stepsHasNext(m_count)
    <2>1. m_currentStep' = None /\ m_count' = m_count
      BY <1>7, Zenon DEF L!stepAdvance
    <2>2. LerpStep'
      BY <1>1, <1>7, <2>1, Zenon DEF LerpStep
    <2> QED BY <1>3, <1>4, <2>1, <2>2
  <1> QED BY <1>6, <1>7

LEMMA ReturnsBetween ==
    ASSUME LerpOutput, rows' = rows, m_currentStep \in Nat, NEW v \in Int \cup {NaN, Null},
           Between(m_currentStep, v), L!Return(v)
    PROVE  LerpOutput'
  <1>1. PICK e : e = [t |-> m_currentStep, v |-> v]
    OBVIOUS
  <1>2. resampled' = Append(resampled, e) /\ e \in Resampled /\ e.t = m_currentStep /\ e.v = v
    BY <1>1 DEF L!Return, Resampled
  <1>3. resampled \in Seq(Resampled)
    BY DEF LerpOutput
  <1> HIDE DEF Resampled
  <1>4. /\ resampled' \in Seq(Resampled)
        /\ \A k \in DOMAIN resampled' : \/ k \in DOMAIN resampled /\ resampled'[k] = resampled[k]
                                        \/ resampled'[k] = e
    BY <1>2, <1>3, AppendElements
  <1>5. PICK s : s = resampled'
    OBVIOUS
  <1>6. \A k \in DOMAIN s : Between(s[k].t, s[k].v)
    BY <1>2, <1>4, <1>5, Zenon DEF LerpOutput
  <1>7. \A k \in DOMAIN s : Between(s[k].t, s[k].v)'
    BY <1>6, Zenon DEF Between, OfLoneRow, L!Neighbours
  <1> QED BY <1>4, <1>5, <1>7, Zenon DEF LerpOutput, Resampled

(* What the row in hand tells of the stream.                               *)
LEMMA InHand ==
    ASSUME Sorted(rows), NEW i, LerpAt(i)
    PROVE  /\ i \in 1..Len(rows) /\ Len(rows) \in Nat
           /\ m_rowL = rows[i] /\ m_rowL \in StreamRow /\ m_rowL # None
           /\ i = 1 => m_prevL = rows[1]
           /\ i > 1 => m_prevL = rows[i - 1] /\ m_prevL \in StreamRow /\ m_prevL.t < m_rowL.t
           /\ i < Len(rows) => m_rowR = rows[i + 1] /\ m_rowR \in StreamRow /\ m_rowL.t < m_rowR.t
           /\ i = Len(rows) <=> m_rowR = None
  <1>1. /\ i \in DOMAIN rows /\ m_rowL = rows[i]
        /\ m_prevL = rows[IF i = 1 THEN 1 ELSE i - 1]
        /\ m_rowR = IF i < Len(rows) THEN rows[i + 1] ELSE None
    BY Zenon DEF LerpAt
  <1>2. PICK n \in Nat : n = Len(rows)
    BY SortedRows
  <1>3. /\ DOMAIN rows = 1..n /\ \A k \in DOMAIN rows : rows[k] \in StreamRow /\ rows[k].t \in Nat
        /\ \A j, k \in DOMAIN rows : j < k => rows[j].t < rows[k].t
    BY <1>2, SortedRows
  <1>4. \A r \in StreamRow : r # None
    BY LerpAssumption DEF StreamRow
  <1>5. i \in 1..n
    BY <1>1, <1>3
  <1>6. i > 1 => i - 1 \in DOMAIN rows /\ i - 1 < i
    BY <1>3, <1>5
  <1>7. i < n => i + 1 \in DOMAIN rows /\ i < i + 1
    BY <1>3, <1>5
  <1>8. i > 1 => m_prevL = rows[i - 1] /\ m_prevL \in StreamRow /\ m_prevL.t < m_rowL.t
    BY <1>1, <1>3, <1>5, <1>6
  <1>9. i < n => m_rowR = rows[i + 1] /\ m_rowR \in StreamRow /\ m_rowL.t < m_rowR.t
    BY <1>1, <1>2, <1>3, <1>5, <1>7
  <1>10. m_rowL \in StreamRow /\ m_rowL # None /\ (i = 1 => m_prevL = rows[1])
    BY <1>1, <1>3, <1>4
  <1>11. i = n <=> m_rowR = None
    BY <1>1, <1>2, <1>4, <1>5, <1>9
  <1> QED BY <1>1, <1>2, <1>5, <1>8, <1>9, <1>10, <1>11

(* advance(): the next row of the stream is in hand.                       *)
LEMMA AdvanceRow ==
    ASSUME Sorted(rows), LerpTypes, NEW i, LerpAt(i), i < Len(rows), L!advance, rows' = rows,
           m_currentStep' # None => m_rowL.t < m_currentStep'
    PROVE  LerpAt(i + 1)' /\ rest' \in Seq(StreamRow)
  <1>1. PICK n \in Nat, r \in Nat : n = Len(rows) /\ r = Len(rest)
    BY SortedRows DEF LerpTypes
  <1>2. i \in 1..n /\ i < n /\ m_rowL = rows[i] /\ m_rowR = rows[i + 1] /\ DOMAIN rows = 1..n
    BY <1>1, InHand, SortedRows
  <1>3. /\ r = IF i + 1 < n THEN n - i - 1 ELSE 0
        /\ \A k \in 1..r : rest[k] = rows[i + 1 + k]
    BY <1>1, Zenon DEF LerpAt
  <1>4. /\ m_prevL' = rows[i] /\ m_rowL' = rows[i + 1]
        /\ m_rowR' = (IF 1 <= r THEN rest[1] ELSE None) /\ rest' = SubSeq(rest, 2, r)
    BY <1>1, <1>2, Zenon DEF L!advance, L!NthRow
  <1>5. rest \in Seq(StreamRow)
    BY DEF LerpTypes
  <1>6. /\ rest' \in Seq(StreamRow)
        /\ Len(rest') = IF 2 <= r THEN r - 1 ELSE 0
        /\ \A k \in 1..(r - 1) : rest'[k] = rest[k + 1]
    <2>1. /\ SubSeq(rest, 2, r) \in Seq(StreamRow)
          /\ Len(SubSeq(rest, 2, r)) = IF 2 <= r THEN r - 2 + 1 ELSE 0
          /\ \A k \in 1..(r - 2 + 1) : SubSeq(rest, 2, r)[k] = rest[k + 2 - 1]
      BY <1>1, <1>5, SubSeqFrom
    <2>2. r - 2 + 1 = r - 1 /\ \A k \in 1..(r - 1) : k + 2 - 1 = k + 1
      BY <1>1
    <2> QED BY <1>4, <2>1, <2>2
  <1>7. PICK j \in Nat : j = i + 1
    BY <1>2
  <1>8. Len(rest') = IF j + 1 < n THEN n - j - 1 ELSE 0
    BY <1>1, <1>2, <1>3, <1>6, <1>7
  <1>9. \A k \in 1..Len(rest') : rest'[k] = rows[j + 1 + k]
    <2> SUFFICES ASSUME NEW k \in 1..Len(rest') PROVE rest'[k] = rows[j + 1 + k]
      OBVIOUS
    <2>1. PICK s \in Nat : s = Len(rest') /\ k \in 1..s
      BY <1>6
    <2>2. k \in 1..(r - 1) /\ k + 1 \in 1..r /\ i + 1 + (k + 1) = j + 1 + k
      BY <1>1, <1>2, <1>6, <1>7, <2>1
    <2>3. rest'[k] = rest[k + 1] /\ rest[k + 1] = rows[i + 1 + (k + 1)]
      BY <1>3, <1>6, <2>2
    <2> QED BY <2>2, <2>3
  <1>10. m_rowR' = IF j < n THEN rows[j + 1] ELSE None
    <2>1. CASE j < n
      <3>1. 1 \in 1..r /\ i + 1 + 1 = j + 1
        BY <1>1, <1>2, <1>3, <1>7, <2>1
      <3>2. rest[1] = rows[j + 1]
        BY <1>3, <3>1
      <3> QED BY <1>1, <1>4, <2>1, <3>1, <3>2
    <2>2. CASE ~(j < n)
      BY <1>3, <1>4, <1>7, <2>2
    <2> QED BY <2>1, <2>2
  <1>11. j \in DOMAIN rows /\ j # 1 /\ j - 1 = i
    BY <1>1, <1>2, <1>7
  <1>12. /\ m_prevL' = rows[IF j = 1 THEN 1 ELSE j - 1] /\ m_rowL' = rows[j]
         /\ m_currentStep' # None => rows[j - 1].t < m_currentStep'
    BY <1>2, <1>4, <1>7, <1>11, Zenon
  <1>13. LerpAt(j)'
    BY <1>1, <1>8, <1>9, <1>10, <1>11, <1>12, Zenon DEF LerpAt
  <1> QED BY <1>6, <1>7, <1>13

LEMMA LerpInitInv == ASSUME MCInit PROVE LerpInv
  <1>1. /\ ~m_initComplete /\ ~lerpThrew /\ m_prevL = None /\ m_rowL = None /\ m_rowR = None
        /\ m_count = 0 /\ m_currentStep = None /\ resampled = <<>> /\ rest = rows
        /\ m_initComplete \in BOOLEAN /\ lerpThrew \in BOOLEAN
    BY DEF MCInit, L!Init
  <1>2. rows \in Seq(StreamRow)
    <2>1. rows \in Streams \cup {<<>>}
      BY Zenon DEF MCInit
    <2> QED BY <2>1, StreamsAreSorted, Zenon DEF Sorted
  <1>3. LerpOutput
    BY <1>1 DEF LerpOutput
  <1> QED BY <1>1, <1>2, <1>3, Zenon DEF LerpInv, LerpTypes, LerpPlace, LerpStep

LEMMA BeginKeeps == ASSUME processor = "Lerp", Sorted(rows), LerpInv, L!Begin PROVE LerpInv'
  <1>1. /\ ~m_initComplete /\ L!hasNext /\ m_initComplete' /\ m_initComplete' \in BOOLEAN
        /\ m_rowL' = L!NthRow(1) /\ m_prevL' = m_rowL' /\ m_rowR' = L!NthRow(2)
        /\ rest' = SubSeq(rest, 3, Len(rest))
        /\ m_currentStep' = L!getCurrent(m_count) /\ m_count' = m_count + 1
        /\ rows' = rows /\ lerpThrew' = lerpThrew /\ resampled' = resampled
    BY Zenon DEF L!Begin
  <1>2. rest = rows /\ m_currentStep = None /\ m_count = 0 /\ L!stepsHasNext(m_count)
    BY <1>1, Zenon DEF LerpInv, LerpPlace, L!hasNext
  <1>3. PICK n \in Nat : n = Len(rows)
    BY SortedRows
  <1>4. rows \in Seq(StreamRow) /\ DOMAIN rows = 1..n
    BY <1>3, SortedRows
  <1>5. /\ SubSeq(rows, 3, n) \in Seq(StreamRow)
        /\ Len(SubSeq(rows, 3, n)) = IF 3 <= n THEN n - 3 + 1 ELSE 0
        /\ \A k \in 1..(n - 3 + 1) : SubSeq(rows, 3, n)[k] = rows[k + 3 - 1]
    BY <1>3, <1>4, SubSeqFrom
  <1>6. rest' = SubSeq(rows, 3, n)
    BY <1>1, <1>2, <1>3
  <1>7. LerpTypes'
    BY <1>1, <1>5, <1>6, Zenon DEF LerpInv, LerpTypes
  <1>8. LerpStep'
    <2>1. m_count' = 1 /\ m_count' \in Nat /\ m_count' # 0 /\ m_count' - 1 = m_count
      BY <1>1, <1>2
    <2>2. L!getCurrent(0) \in Nat
      BY StepsGrow
    <2>3. m_currentStep' # None
      BY <1>1, <1>2, <2>2, LerpAssumption
    <2> QED BY <1>1, <1>2, <2>1, <2>3, Zenon DEF LerpStep
  <1>9. LerpOutput'
    BY <1>1, Zenon DEF LerpInv, LerpOutput, Between, OfLoneRow, L!Neighbours
  <1>10. LerpPlace'
    <2>1. CASE n = 0
      <3>1. rows = <<>>
        BY <1>3, <1>4, <2>1
      <3>2. m_rowL' = None /\ m_rowR' = None
        BY <1>1, <1>2, <1>3, <2>1 DEF L!NthRow
      <3> QED BY <1>1, <3>1, <3>2, Zenon DEF LerpPlace
    <2>2. CASE n # 0
      <3>1. m_rowL' = rows[1] /\ m_prevL' = rows[1] /\ m_rowR' = IF 1 < n THEN rows[1 + 1] ELSE None
        BY <1>1, <1>2, <1>3, <2>2 DEF L!NthRow
      <3>2. Len(rest') = IF 1 + 1 < n THEN n - 1 - 1 ELSE 0
        BY <1>3, <1>5, <1>6
      <3>3. \A k \in 1..Len(rest') : rest'[k] = rows[1 + 1 + k]
        <4> SUFFICES ASSUME NEW k \in 1..Len(rest') PROVE rest'[k] = rows[1 + 1 + k]
          OBVIOUS
        <4>1. PICK s \in Nat : s = Len(rest') /\ k \in 1..s
          BY <1>5, <1>6
        <4>2. k \in 1..(n - 3 + 1) /\ k + 3 - 1 = 1 + 1 + k
          BY <1>3, <3>2, <4>1
        <4> QED BY <1>5, <1>6, <4>2
      <3>4. 1 \in DOMAIN rows /\ ~(1 > 1)
        BY <1>3, <1>4, <2>2
      <3>5. PICK i : i = 1
        OBVIOUS
      <3>6. LerpAt(i)'
        BY <1>1, <1>3, <3>1, <3>2, <3>3, <3>4, <3>5, Zenon DEF LerpAt
      <3> QED BY <1>1, <3>4, <3>5, <3>6, Zenon DEF LerpPlace
    <2> QED BY <2>1, <2>2
  <1> QED BY <1>7, <1>8, <1>9, <1>10, Zenon DEF LerpInv

(* The step is over, and the row in hand stays.                            *)
LEMMA StaysAt ==
    ASSUME NEW i, LerpAt(i), m_currentStep \in Nat, m_currentStep # None, Sorted(rows),
           m_currentStep' # None => m_currentStep' \in Nat /\ m_currentStep < m_currentStep',
           rows' = rows, rest' = rest, m_prevL' = m_prevL, m_rowL' = m_rowL, m_rowR' = m_rowR
    PROVE  LerpAt(i)'
  <1>1. i > 1 /\ m_currentStep' # None => rows[i - 1].t < m_currentStep'
    <2> SUFFICES ASSUME i > 1, m_currentStep' # None PROVE rows[i - 1].t < m_currentStep'
      OBVIOUS
    <2>1. m_prevL = rows[i - 1] /\ m_prevL \in StreamRow
      BY InHand
    <2>2. rows[i - 1].t \in Nat
      BY <2>1 DEF StreamRow
    <2>3. rows[i - 1].t < m_currentStep
      BY Zenon DEF LerpAt
    <2> QED BY <2>2, <2>3
  <1> QED BY <1>1, Zenon DEF LerpAt

(* Where there is a right row there is a left one.                         *)
LEMMA HasLeft == ASSUME Sorted(rows), LerpInv, L!Ready, m_rowR # None PROVE m_rowL # None
  <1>1. m_initComplete /\ LerpPlace
    BY Zenon DEF L!Ready, LerpInv
  <1>2. \E i \in DOMAIN rows : LerpAt(i)
    BY <1>1, Zenon DEF LerpPlace
  <1> QED BY <1>2, InHand

LEMMA ReadyRow ==
    ASSUME Sorted(rows), LerpInv, L!Ready, m_rowL # None
    PROVE  /\ m_currentStep # None /\ m_currentStep \in Nat /\ m_initComplete /\ LerpStep
           /\ LerpOutput /\ LerpTypes /\ \E i \in DOMAIN rows : LerpAt(i)
  <1>1. m_initComplete /\ LerpStep /\ LerpOutput /\ LerpTypes /\ LerpPlace /\ L!hasNext
    BY Zenon DEF LerpInv, L!Ready
  <1>2. m_currentStep # None
    BY <1>1, Zenon DEF LerpStep, L!hasNext
  <1>3. m_count \in Nat /\ m_count # 0 /\ m_currentStep = L!getCurrent(m_count - 1)
    BY <1>1, <1>2, Zenon DEF LerpStep
  <1>4. m_count - 1 \in Nat
    BY <1>3
  <1>5. m_currentStep \in Nat
    BY <1>3, <1>4, StepsGrow
  <1>6. \E i \in DOMAIN rows : LerpAt(i)
    BY <1>1, Zenon DEF LerpPlace
  <1> QED BY <1>1, <1>2, <1>5, <1>6

(* Two rows of the stream that enclose the step, or are the nearest to it. *)
LEMMA BetweenNeighbours ==
    ASSUME Sorted(rows), NEW n \in Nat, n = Len(rows),
           NEW i \in 1..(n - 1), NEW x \in Nat,
           \/ rows[i].t <= x /\ x <= rows[i + 1].t
           \/ i = 1 /\ x < rows[1].t
           \/ i = n - 1 /\ rows[n].t < x
    PROVE  /\ Between(x, L!interpolated(x, rows[i], rows[i + 1]))
           /\ L!interpolated(x, rows[i], rows[i + 1]) \in Int \cup {NaN, Null}
  <1>1. i \in L!Neighbours(x)
    BY Enclosed
  <1>2. /\ i \in DOMAIN rows /\ i + 1 \in DOMAIN rows /\ i < i + 1 /\ n # 1
    <2>1. DOMAIN rows = 1..n
      BY SortedRows
    <2> QED BY <2>1
  <1>3. /\ rows[i] \in StreamRow /\ rows[i + 1] \in StreamRow
        /\ rows[i].t \in Nat /\ rows[i + 1].t \in Nat /\ rows[i].t < rows[i + 1].t
    BY <1>2, SortedRows
  <1>4. rows[i].t <= rows[i + 1].t
    BY <1>3
  <1>5. L!interpolated(x, rows[i], rows[i + 1]) \in Int \cup {NaN, Null}
    BY <1>3, <1>4, InterpolatedType
  <1>6. Between(x, L!interpolated(x, rows[i], rows[i + 1]))
    BY <1>1, <1>2, Zenon DEF Between
  <1> QED BY <1>5, <1>6

LEMMA EndedKeeps == ASSUME Sorted(rows), LerpInv, L!Ended PROVE LerpInv'
  <1>1. /\ L!Ready /\ m_rowL # None /\ m_rowR = None /\ L!stepAdvance
        /\ rows' = rows /\ rest' = rest /\ m_initComplete' = m_initComplete /\ lerpThrew' = lerpThrew
        /\ m_prevL' = m_prevL /\ m_rowL' = m_rowL /\ m_rowR' = m_rowR
    BY Zenon DEF L!Ended
  <1>2. PICK v : /\ v = IF m_prevL.t < m_currentStep
                        THEN L!interpolated(m_currentStep, m_prevL, m_rowL) ELSE NaN
                 /\ L!Return(v)
    BY Zenon DEF L!Ended
  <1>3. PICK x \in Nat : x = m_currentStep
    BY <1>1, ReadyRow
  <1>4. /\ m_currentStep # None /\ m_initComplete /\ m_initComplete' /\ LerpStep /\ LerpOutput
        /\ LerpTypes
    BY <1>1, ReadyRow
  <1>5. PICK i \in DOMAIN rows : LerpAt(i)
    BY <1>1, ReadyRow
  <1>6. PICK n \in Nat : n = Len(rows) /\ i \in 1..n /\ i = n
    BY <1>1, <1>5, InHand
  <1>7. m_rowL = rows[n] /\ m_rowL \in StreamRow
    BY <1>5, <1>6, InHand
  <1>8. Between(x, v) /\ v \in Int \cup {NaN, Null}
    <2>1. CASE n = 1
      <3>1. m_prevL = rows[1] /\ m_rowL = rows[1] /\ rows[1] \in StreamRow
        BY <1>5, <1>6, <1>7, <2>1, InHand
      <3>2. v = OfLoneRow(x)
        BY <1>2, <1>3, <3>1, Zenon DEF OfLoneRow
      <3>3. Between(x, v)
        BY <1>6, <2>1, <3>2, Zenon DEF Between
      <3>4. rows[1].t <= rows[1].t
        BY <3>1 DEF StreamRow
      <3>5. L!interpolated(x, rows[1], rows[1]) \in Int \cup {NaN, Null}
        BY <3>1, <3>4, InterpolatedType
      <3> QED BY <3>2, <3>3, <3>5, Zenon DEF OfLoneRow
    <2>2. CASE n # 1
      <3>1. n > 1 /\ n - 1 \in 1..(n - 1) /\ n - 1 + 1 = n
        BY <1>6, <2>2
      <3>2. m_prevL = rows[n - 1] /\ m_prevL \in StreamRow /\ m_prevL.t < m_rowL.t
        BY <1>5, <1>6, <3>1, InHand
      <3>3. m_prevL.t < x
        BY <1>3, <1>4, <1>5, <1>6, <3>1, <3>2, Zenon DEF LerpAt
      <3>4. v = L!interpolated(x, rows[n - 1], rows[n - 1 + 1])
        BY <1>2, <1>3, <1>7, <3>1, <3>2, <3>3, Zenon
      <3>5. m_prevL.t \in Nat /\ m_rowL.t \in Nat
        BY <1>7, <3>2 DEF StreamRow
      <3>6. \/ rows[n - 1].t <= x /\ x <= rows[n - 1 + 1].t
            \/ n - 1 = n - 1 /\ rows[n].t < x
        BY <1>7, <3>1, <3>2, <3>3, <3>5
      <3> QED BY <1>6, <3>1, <3>4, <3>6, BetweenNeighbours
    <2> QED BY <2>1, <2>2
  <1>9. LerpStep' /\ (m_currentStep' # None => m_currentStep' \in Nat /\ x < m_currentStep')
    BY <1>1, <1>3, <1>4, AdvanceStep
  <1>10. LerpOutput'
    BY <1>1, <1>2, <1>3, <1>4, <1>8, ReturnsBetween
  <1>11. LerpAt(i)'
    BY <1>1, <1>3, <1>4, <1>5, <1>9, StaysAt
  <1>12. LerpPlace'
    BY <1>1, <1>4, <1>11, Zenon DEF LerpPlace
  <1>13. LerpTypes'
    BY <1>1, <1>4, Zenon DEF LerpTypes
  <1> QED BY <1>9, <1>10, <1>12, <1>13, Zenon DEF LerpInv

LEMMA PastStepKeeps == ASSUME Sorted(rows), LerpInv, L!PastStep PROVE LerpInv'
  <1>1. /\ L!Ready /\ m_rowR # None /\ m_rowL.t > m_currentStep /\ L!stepAdvance
        /\ rows' = rows /\ rest' = rest /\ m_initComplete' = m_initComplete /\ lerpThrew' = lerpThrew
        /\ m_prevL' = m_prevL /\ m_rowL' = m_rowL /\ m_rowR' = m_rowR
    BY Zenon DEF L!PastStep
  <1>2. PICK v : /\ v = IF m_rowL.t = m_prevL.t
                        THEN L!interpolated(m_currentStep, m_rowL, m_rowR)
                        ELSE L!interpolated(m_currentStep, m_prevL, m_rowL)
                 /\ L!Return(v)
    BY Zenon DEF L!PastStep
  <1>3. m_rowL # None
    BY <1>1, HasLeft
  <1>4. PICK x \in Nat : x = m_currentStep
    BY <1>1, <1>3, ReadyRow
  <1>5. /\ m_currentStep # None /\ m_initComplete /\ m_initComplete' /\ LerpStep /\ LerpOutput
        /\ LerpTypes
    BY <1>1, <1>3, ReadyRow
  <1>6. PICK i \in DOMAIN rows : LerpAt(i)
    BY <1>1, <1>3, ReadyRow
  <1>7. PICK n \in Nat : n = Len(rows) /\ i \in 1..n /\ i < n
    <2>1. PICK n \in Nat : n = Len(rows) /\ i \in 1..n /\ i # n
      BY <1>1, <1>6, InHand
    <2> QED BY <2>1
  <1>8. /\ m_rowL = rows[i] /\ m_rowL \in StreamRow /\ m_rowL.t \in Nat
        /\ m_rowR = rows[i + 1] /\ m_rowR \in StreamRow /\ x < m_rowL.t
    <2>1. /\ m_rowL = rows[i] /\ m_rowL \in StreamRow
          /\ m_rowR = rows[i + 1] /\ m_rowR \in StreamRow
      BY <1>6, <1>7, InHand
    <2>2. m_rowL.t \in Nat
      BY <2>1 DEF StreamRow
    <2> QED BY <1>1, <1>4, <2>1, <2>2
  <1>9. Between(x, v) /\ v \in Int \cup {NaN, Null}
    <2>1. CASE i = 1
      <3>1. m_prevL = m_rowL
        BY <1>6, <1>8, <2>1, InHand
      <3>2. v = L!interpolated(x, rows[1], rows[1 + 1])
        BY <1>2, <1>4, <1>8, <2>1, <3>1, Zenon
      <3>3. 1 \in 1..(n - 1) /\ 1 = 1 /\ x < rows[1].t
        BY <1>7, <1>8, <2>1
      <3> QED BY <1>7, <3>2, <3>3, BetweenNeighbours
    <2>2. CASE i # 1
      <3>1. i > 1 /\ i - 1 \in 1..(n - 1) /\ i - 1 + 1 = i
        BY <1>7, <2>2
      <3>2. m_prevL = rows[i - 1] /\ m_prevL \in StreamRow /\ m_prevL.t < m_rowL.t
        BY <1>6, <3>1, InHand
      <3>3. m_prevL.t < x
        BY <1>4, <1>5, <1>6, <3>1, <3>2, Zenon DEF LerpAt
      <3>4. m_prevL.t \in Nat
        BY <3>2 DEF StreamRow
      <3>5. m_rowL.t # m_prevL.t
        BY <1>8, <3>2, <3>4
      <3>6. v = L!interpolated(x, rows[i - 1], rows[i - 1 + 1])
        BY <1>2, <1>4, <1>8, <3>1, <3>2, <3>5, Zenon
      <3>7. rows[i - 1].t <= x /\ x <= rows[i - 1 + 1].t
        BY <1>8, <3>1, <3>2, <3>3, <3>4
      <3> QED BY <1>7, <3>1, <3>6, <3>7, BetweenNeighbours
    <2> QED BY <2>1, <2>2
  <1>10. LerpStep' /\ (m_currentStep' # None => m_currentStep' \in Nat /\ x < m_currentStep')
    BY <1>1, <1>4, <1>5, AdvanceStep
  <1>11. LerpOutput'
    BY <1>1, <1>2, <1>4, <1>5, <1>9, ReturnsBetween
  <1>12. LerpAt(i)'
    BY <1>1, <1>4, <1>5, <1>6, <1>10, StaysAt
  <1>13. LerpPlace'
    BY <1>1, <1>5, <1>12, Zenon DEF LerpPlace
  <1>14. LerpTypes'
    BY <1>1, <1>5, Zenon DEF LerpTypes
  <1> QED BY <1>10, <1>11, <1>13, <1>14, Zenon DEF LerpInv

LEMMA WithinKeeps == ASSUME Sorted(rows), LerpInv, L!Within PROVE LerpInv'
  <1>1. /\ L!Ready /\ m_rowR # None /\ m_rowL.t <= m_currentStep /\ m_currentStep <= m_rowR.t
        /\ L!Return(L!interpolated(m_currentStep, m_rowL, m_rowR))
        /\ L!stepAdvance /\ L!advance
        /\ rows' = rows /\ m_initComplete' = m_initComplete /\ lerpThrew' = lerpThrew
    BY Zenon DEF L!Within
  <1>2. m_rowL # None
    BY <1>1, HasLeft
  <1>3. PICK x \in Nat : x = m_currentStep
    BY <1>1, <1>2, ReadyRow
  <1>4. /\ m_currentStep # None /\ m_initComplete /\ m_initComplete' /\ LerpStep /\ LerpOutput
        /\ LerpTypes
    BY <1>1, <1>2, ReadyRow
  <1>5. PICK i \in DOMAIN rows : LerpAt(i)
    BY <1>1, <1>2, ReadyRow
  <1>6. PICK n \in Nat : n = Len(rows) /\ i \in 1..n /\ i < n
    <2>1. PICK n \in Nat : n = Len(rows) /\ i \in 1..n /\ i # n
      BY <1>1, <1>5, InHand
    <2> QED BY <2>1
  <1>7. m_rowL = rows[i] /\ m_rowR = rows[i + 1] /\ m_rowL \in StreamRow
    BY <1>5, <1>6, InHand
  <1>8. PICK v : v = L!interpolated(x, rows[i], rows[i + 1])
    OBVIOUS
  <1>9. Between(x, v) /\ v \in Int \cup {NaN, Null}
    <2>1. i \in 1..(n - 1) /\ rows[i].t <= x /\ x <= rows[i + 1].t
      BY <1>1, <1>3, <1>6, <1>7
    <2> QED BY <1>6, <1>8, <2>1, BetweenNeighbours
  <1>10. LerpStep' /\ (m_currentStep' # None => m_currentStep' \in Nat /\ x < m_currentStep')
    BY <1>1, <1>3, <1>4, AdvanceStep
  <1>11. LerpOutput'
    <2>1. L!Return(v)
      BY <1>1, <1>3, <1>7, <1>8, Zenon
    <2> QED BY <1>1, <1>3, <1>4, <1>9, <2>1, ReturnsBetween
  <1>12. m_currentStep' # None => m_rowL.t < m_currentStep'
    <2>1. m_rowL.t \in Nat
      BY <1>7 DEF StreamRow
    <2> QED BY <1>1, <1>3, <1>10, <2>1
  <1>13. LerpAt(i + 1)' /\ rest' \in Seq(StreamRow)
    BY <1>1, <1>4, <1>5, <1>6, <1>12, AdvanceRow
  <1>14. i + 1 \in DOMAIN rows'
    BY <1>1, <1>6, SortedRows
  <1>15. LerpPlace'
    <2>1. PICK j \in DOMAIN rows' : LerpAt(j)'
      <3>1. PICK j : j = i + 1
        OBVIOUS
      <3> QED BY <1>13, <1>14, <3>1
    <2> QED BY <1>4, <2>1, Zenon DEF LerpPlace
  <1>16. LerpTypes'
    BY <1>1, <1>4, <1>13, Zenon DEF LerpTypes
  <1> QED BY <1>10, <1>11, <1>15, <1>16, Zenon DEF LerpInv

LEMMA SkipKeeps == ASSUME Sorted(rows), LerpInv, L!Skip PROVE LerpInv'
  <1>1. /\ L!Ready /\ m_rowR # None /\ m_rowR.t < m_currentStep /\ L!advance
        /\ rows' = rows /\ m_initComplete' = m_initComplete /\ lerpThrew' = lerpThrew
        /\ m_count' = m_count /\ m_currentStep' = m_currentStep /\ resampled' = resampled
    BY Zenon DEF L!Skip
  <1>2. m_rowL # None
    BY <1>1, HasLeft
  <1>3. PICK x \in Nat : x = m_currentStep
    BY <1>1, <1>2, ReadyRow
  <1>4. /\ m_currentStep # None /\ m_initComplete /\ m_initComplete' /\ LerpStep /\ LerpOutput
        /\ LerpTypes
    BY <1>1, <1>2, ReadyRow
  <1>5. PICK i \in DOMAIN rows : LerpAt(i)
    BY <1>1, <1>2, ReadyRow
  <1>6. PICK n \in Nat : n = Len(rows) /\ i \in 1..n /\ i < n
    <2>1. PICK n \in Nat : n = Len(rows) /\ i \in 1..n /\ i # n
      BY <1>1, <1>5, InHand
    <2> QED BY <2>1
  <1>7. m_rowL.t < m_currentStep'
    <2>1. /\ m_rowL \in StreamRow /\ m_rowR \in StreamRow /\ m_rowL.t < m_rowR.t
      BY <1>5, <1>6, InHand
    <2>2. m_rowL.t \in Nat /\ m_rowR.t \in Nat
      BY <2>1 DEF StreamRow
    <2> QED BY <1>1, <1>3, <2>1, <2>2
  <1>8. LerpAt(i + 1)' /\ rest' \in Seq(StreamRow)
    BY <1>1, <1>4, <1>5, <1>6, <1>7, AdvanceRow
  <1>9. i + 1 \in DOMAIN rows'
    BY <1>1, <1>6, SortedRows
  <1>10. LerpPlace'
    <2>1. PICK j \in DOMAIN rows' : LerpAt(j)'
      <3>1. PICK j : j = i + 1
        OBVIOUS
      <3> QED BY <1>8, <1>9, <3>1
    <2> QED BY <1>4, <2>1, Zenon DEF LerpPlace
  <1>11. LerpTypes' /\ LerpStep' /\ LerpOutput'
    BY <1>1, <1>4, <1>8, Zenon DEF LerpTypes, LerpStep, LerpOutput, Between, OfLoneRow, L!Neighbours
  <1> QED BY <1>10, <1>11, Zenon DEF LerpInv

LEMMA NoRowsKeeps == ASSUME LerpInv, L!NoRows PROVE LerpInv'
  <1>1. /\ lerpThrew' = TRUE
        /\ rows' = rows /\ rest' = rest /\ m_initComplete' = m_initComplete
        /\ m_prevL' = m_prevL /\ m_rowL' = m_rowL /\ m_rowR' = m_rowR /\ m_count' = m_count
        /\ m_currentStep' = m_currentStep /\ resampled' = resampled /\ L!Ready
    BY Zenon DEF L!NoRows
  <1>2. lerpThrew' \in BOOLEAN /\ m_initComplete /\ m_initComplete'
    BY <1>1, Zenon DEF L!Ready
  <1>3. LerpTypes' /\ LerpStep' /\ LerpOutput'
    BY <1>1, <1>2, Zenon DEF LerpInv, LerpTypes, LerpStep, LerpOutput, Between, OfLoneRow, L!Neighbours
  <1>4. LerpPlace'
    BY <1>1, <1>2, Zenon DEF LerpInv, LerpPlace, LerpAt
  <1> QED BY <1>3, <1>4, Zenon DEF LerpInv

(* The steps of the other processors: RollUp takes rows from the stream.   *)
LEMMA OthersKeep ==
    ASSUME LerpInv, rest' \in Seq(StreamRow), ~m_initComplete \/ rest' = rest,
           processor # "Lerp" \/ rest' = rest,
           processor' = processor, rows' = rows, UNCHANGED lerpVars
    PROVE  LerpInv'
  <1>1. /\ m_initComplete' = m_initComplete /\ lerpThrew' = lerpThrew
        /\ m_prevL' = m_prevL /\ m_rowL' = m_rowL /\ m_rowR' = m_rowR /\ m_count' = m_count
        /\ m_currentStep' = m_currentStep /\ resampled' = resampled
    BY DEF lerpVars
  <1>2. LerpTypes' /\ LerpStep' /\ LerpOutput'
    BY <1>1, Zenon DEF LerpInv, LerpTypes, LerpStep, LerpOutput, Between, OfLoneRow, L!Neighbours
  <1>3. CASE processor # "Lerp" /\ ~m_initComplete
    <2>1. LerpPlace'
      BY <1>1, <1>3, Zenon DEF LerpInv, LerpPlace
    <2> QED BY <1>2, <2>1, Zenon DEF LerpInv
  <1>4. CASE rest' = rest
    <2>1. LerpPlace'
      BY <1>1, <1>4, Zenon DEF LerpInv, LerpPlace, LerpAt
    <2> QED BY <1>2, <2>1, Zenon DEF LerpInv
  <1> QED BY <1>3, <1>4

LEMMA LerpStepInv == ASSUME StreamInv, LerpInv, [MCNext]_allVars PROVE LerpInv'
  <1>1. Sorted(rows) /\ rows' = rows
    BY StreamsAreSorted, StreamStepInv DEF StreamInv
  <1>2. rest \in Seq(StreamRow)
    BY DEF LerpInv, LerpTypes
  <1>3. CASE processor = "Lerp" /\ L!Next
    BY <1>1, <1>3, BeginKeeps, NoRowsKeeps, EndedKeeps, PastStepKeeps, WithinKeeps, SkipKeeps
       DEF L!Next
  <1>4. CASE processor = "RollUp" /\ R!Next /\ UNCHANGED <<processor, lerpVars>>
    <2>1. \/ rest' = rest \/ rest' = <<>>
          \/ rest # <<>> /\ rest' = Tail(rest)
          \/ Len(rest) >= 2 /\ rest' = Tail(Tail(rest))
      BY <1>4, Zenon DEF R!Next, R!Initialize, R!InitializeFails, R!Consume, R!Exhausted
    <2>2. <<>> \in Seq(StreamRow) /\ \A s \in Seq(StreamRow) : s # <<>> => Tail(s) \in Seq(StreamRow)
      <3> HIDE DEF StreamRow
      <3> QED BY SMT
    <2>3. Len(rest) >= 2 => rest # <<>> /\ Tail(rest) # <<>>
      <3>1. ASSUME NEW s \in Seq(StreamRow), Len(s) >= 2
            PROVE  s # <<>> /\ Tail(s) # <<>>
        <4> HIDE DEF StreamRow
        <4>1. Len(s) \in Nat
          OBVIOUS
        <4>2. PICK n \in Nat : n = Len(s) /\ n >= 2
          BY <3>1, <4>1
        <4>3. s # <<>>
          BY <4>2
        <4>4. Len(Tail(s)) = n - 1
          BY <4>2, <4>3
        <4>5. Len(Tail(s)) # 0 /\ Len(<<>>) = 0
          BY <4>2, <4>4
        <4> QED BY <4>3, <4>5, Zenon
      <3> QED BY <1>2, <3>1
    <2>4. rest' \in Seq(StreamRow)
      BY <1>2, <2>1, <2>2, <2>3, Zenon
    <2>5. processor # "Lerp" /\ ~m_initComplete /\ processor' = processor /\ UNCHANGED lerpVars
      BY <1>4 DEF StreamInv
    <2> QED BY <1>1, <2>4, <2>5, OthersKeep
  <1>5. CASE UNCHANGED <<processor, rest, lerpVars>>
    <2>1. rest' = rest /\ processor' = processor /\ UNCHANGED lerpVars
      BY <1>5
    <2> QED BY <1>1, <1>2, <2>1, OthersKeep
  <1>6. CASE UNCHANGED allVars
    BY <1>5, <1>6 DEF allVars
  <1>7. CASE MCNext
    BY <1>3, <1>4, <1>5, <1>7 DEF MCNext
  <1> QED BY <1>6, <1>7

THEOREM LerpInvHolds == MCSpec => [](StreamInv /\ LerpInv)
  <1>1. MCInit => StreamInv /\ LerpInv
    <2> SUFFICES ASSUME MCInit PROVE StreamInv
      BY LerpInitInv
    <2>1. rows \in Streams \cup {<<>>} /\ ~m_initComplete
      BY Zenon DEF MCInit, L!Init
    <2> QED BY <2>1 DEF StreamInv
  <1>2. StreamInv /\ LerpInv /\ [MCNext]_allVars => (StreamInv /\ LerpInv)'
    BY StreamStepInv, LerpStepInv
  <1> QED BY <1>1, <1>2, PTL DEF MCSpec

(* Lerp.next(): whatever the stream, the steps, the heart beat and what    *)
(* the cast makes of the times, each row returned is on the line between   *)
(* the rows next to it, or without a value when minus() finds them too far *)
(* apart.                                                                  *)
THEOREM OnTheLineHolds == MCSpec => []OnTheLine
  <1>1. LerpInv => OnTheLine
    <2> SUFFICES ASSUME LerpInv, NEW k \in DOMAIN resampled
                 PROVE  L!OnLine(resampled[k].t, resampled[k].v)
      BY Zenon DEF OnTheLine, L!OnTheLine
    <2>1. PICK x, v : x = resampled[k].t /\ v = resampled[k].v /\ Between(x, v)
      BY Zenon DEF LerpInv, LerpOutput
    <2>2. L!OnLine(x, v)
      BY <2>1, Zenon DEF Between, OfLoneRow, L!OnLine
    <2> QED BY <2>1, <2>2
  <1> QED BY <1>1, LerpInvHolds, PTL

(* A row is interpolated on two rows of the stream, the later one second,  *)
(* or it is of the time of a lone row.                                     *)
LEMMA RowsOfReturned ==
    ASSUME StreamInv, LerpInv, NEW k \in DOMAIN resampled
    PROVE  \/ resampled[k].v = NaN
           \/ \E i, j \in DOMAIN rows : /\ rows[i] \in StreamRow /\ rows[j] \in StreamRow
                                        /\ rows[i].t <= rows[j].t /\ (j = i \/ j = i + 1)
                                        /\ resampled[k].t \in Nat
                                        /\ resampled[k].v
                                             = L!interpolated(resampled[k].t, rows[i], rows[j])
  <1>1. Sorted(rows)
    BY StreamsAreSorted DEF StreamInv
  <1>2. PICK x, v : x = resampled[k].t /\ v = resampled[k].v
    OBVIOUS
  <1>3. x \in Nat /\ Between(x, v)
    <2>1. resampled[k] \in Resampled
      BY DEF LerpInv, LerpOutput
    <2> QED BY <1>2, <2>1, Zenon DEF LerpInv, LerpOutput, Resampled
  <1>4. PICK n \in Nat : n = Len(rows) /\ DOMAIN rows = 1..n
    BY <1>1, SortedRows
  <1>5. CASE n = 1
    <2>1. 1 \in DOMAIN rows
      BY <1>4, <1>5
    <2>2. rows[1] \in StreamRow /\ rows[1].t <= rows[1].t
      <3>1. rows[1] \in StreamRow /\ rows[1].t \in Nat
        BY <1>1, <2>1, SortedRows
      <3> QED BY <3>1
    <2>3. v = NaN \/ v = L!interpolated(x, rows[1], rows[1])
      BY <1>3, <1>4, <1>5, Zenon DEF Between, OfLoneRow
    <2> QED BY <1>2, <1>3, <2>1, <2>2, <2>3, Zenon
  <1>6. CASE n # 1
    <2>1. PICK i \in L!Neighbours(x) : i \in 1..(n - 1) /\ v = L!interpolated(x, rows[i], rows[i + 1])
      BY <1>3, <1>4, <1>6, Zenon DEF Between
    <2>2. i \in DOMAIN rows /\ i + 1 \in DOMAIN rows /\ i < i + 1
      BY <1>4, <2>1
    <2>3. /\ rows[i] \in StreamRow /\ rows[i + 1] \in StreamRow
          /\ rows[i].t \in Nat /\ rows[i + 1].t \in Nat /\ rows[i].t < rows[i + 1].t
      BY <1>1, <2>2, SortedRows
    <2>4. rows[i].t <= rows[i + 1].t
      BY <2>3
    <2> QED BY <1>2, <1>3, <2>1, <2>2, <2>3, <2>4, Zenon
  <1> QED BY <1>5, <1>6

(* The times of the stream fit into the int that minus() casts to.         *)
TimesFit == \A i \in DOMAIN rows : rows[i].t < HalfInt

(* interpolate(): of a stream whose times fit into the cast the comment on *)
(* the heart beat is right, and only long gaps leave a step without a      *)
(* value.                                                                  *)
THEOREM OnlyLongGapsAreRefused == MCSpec => [](TimesFit => RefusesOnlyLongGaps)
  <1>1. StreamInv /\ LerpInv => (TimesFit => RefusesOnlyLongGaps)
    <2> SUFFICES ASSUME StreamInv, LerpInv, TimesFit, NEW k \in DOMAIN resampled,
                        \A i \in 1..(Len(rows) - 1) : rows[i + 1].t - rows[i].t <= HeartBeat
                 PROVE  resampled[k].v # Null
      BY Zenon DEF RefusesOnlyLongGaps, L!RefusesOnlyLongGaps
    <2>1. CASE resampled[k].v = NaN
      BY <2>1, LerpAssumption
    <2>2. CASE resampled[k].v # NaN
      <3>1. PICK i, j \in DOMAIN rows : /\ rows[i] \in StreamRow /\ rows[j] \in StreamRow
                                        /\ rows[i].t <= rows[j].t /\ (j = i \/ j = i + 1)
                                        /\ resampled[k].t \in Nat
                                        /\ resampled[k].v
                                             = L!interpolated(resampled[k].t, rows[i], rows[j])
        BY <2>2, RowsOfReturned
      <3>2. rows[i].t \in Nat /\ rows[j].t \in Nat /\ rows[i].t < HalfInt
        BY <3>1, Zenon DEF StreamRow, TimesFit
      <3>3. L!ToInt(rows[i].t) = rows[i].t
        <4>1. rows[i].t \in Ints
          BY <3>2, RowsAssumption DEF Ints
        <4> QED BY <4>1, ToIntFits, SameInt
      <3>4. ~(rows[j].t - rows[i].t > HeartBeat)
        <4>1. CASE j = i
          BY <3>2, <4>1, RowsAssumption
        <4>2. CASE j = i + 1
          <5>1. Sorted(rows)
            BY StreamsAreSorted DEF StreamInv
          <5>2. PICK n \in Nat : n = Len(rows) /\ DOMAIN rows = 1..n
            BY <5>1, SortedRows
          <5>3. rows[j].t - rows[i].t <= HeartBeat
            BY <4>2, <5>2
          <5> QED BY <3>2, <5>3, RowsAssumption
        <4> QED BY <3>1, <4>1, <4>2
      <3>5. resampled[k].v = L!interpolate(resampled[k].t, rows[i], rows[j])
        BY <3>1, <3>3, <3>4, Zenon DEF L!interpolated, L!minus
      <3>6. interpolate(resampled[k].t, rows[i], rows[j]) \in Int \cup {NaN}
        BY <3>1, InterpolateType
      <3>7. resampled[k].v \in Int \cup {NaN}
        BY <3>5, <3>6, SameLine, Zenon
      <3> QED BY <3>7, LerpAssumption, Zenon
    <2> QED BY <2>1, <2>2
  <1> QED BY <1>1, LerpInvHolds, PTL

(* The times of the stream are longer ago than an int and the heart beat,  *)
(* as those of today are, in milliseconds since 1970.                      *)
TimesOfToday == \A i \in DOMAIN rows : rows[i].t >= HalfInt + HeartBeat

NoValues == \A k \in DOMAIN resampled : resampled[k].v \in {Null, NaN}

(* interpolate(): of a stream of today minus() finds every gap too long,   *)
(* and Lerp returns no number at all.                                      *)
THEOREM NoValueToday == MCSpec => [](TimesOfToday => NoValues)
  <1>1. StreamInv /\ LerpInv => (TimesOfToday => NoValues)
    <2> SUFFICES ASSUME StreamInv, LerpInv, TimesOfToday, NEW k \in DOMAIN resampled,
                        resampled[k].v # NaN
                 PROVE  resampled[k].v = Null
      BY Zenon DEF NoValues
    <2>1. PICK i, j \in DOMAIN rows : /\ rows[i] \in StreamRow /\ rows[j] \in StreamRow
                                      /\ resampled[k].v
                                           = L!interpolated(resampled[k].t, rows[i], rows[j])
      BY RowsOfReturned
    <2>2. rows[i].t \in Nat /\ rows[j].t \in Nat /\ rows[j].t >= HalfInt + HeartBeat
      BY <2>1, Zenon DEF StreamRow, TimesOfToday
    <2>3. PICK c \in Ints : c = L!ToInt(rows[i].t)
      <3>1. rows[i].t \in Int
        BY <2>2
      <3>2. ToInt(rows[i].t) \in Ints
        BY <3>1, ToIntRange
      <3> QED BY <3>2, SameInt
    <2>4. rows[j].t - c > HeartBeat
      BY <2>2, <2>3, RowsAssumption DEF Ints
    <2> QED BY <2>1, <2>3, <2>4, Zenon DEF L!interpolated, L!minus
  <1> QED BY <1>1, LerpInvHolds, PTL

-----------------------------------------------------------------------------
(* RollUp: where the loop of next() is. *)

Pdps == [finish : Nat, prevAveraged : StreamRow, rowCount : Nat \ {0}, unknown : Ints]

RollTypes ==
    /\ pc \in {"fresh", "idle", "looping", "threw"}
    /\ m_currStepFloor \in Nat
    /\ m_currPdp \in Pdps
    /\ m_prevRow \in StreamRow /\ m_currRow \in StreamRow
    /\ rolledUp \in Seq(StreamRow)

Base == atStepBoundaryStart(rows[1].t)

(* The current row is the i-th of the stream, and the row before it and    *)
(* what is left go with it.                                                *)
RollAt(i) ==
    /\ i \in DOMAIN rows /\ i > 1
    /\ m_currRow = rows[i] /\ m_prevRow = rows[i - 1]
    /\ Len(rest) = Len(rows) - i
    /\ \A k \in 1..Len(rest) : rest[k] = rows[i + k]

(* One step has been returned after the other; the one in hand is the      *)
(* next, unless the stream has ended.  The row before the current one is   *)
(* not beyond the last step returned, and in it when the stream has ended. *)
RollSteps ==
    /\ \A k \in DOMAIN rolledUp : rolledUp[k].t = Base + k * Step
    /\ \E j \in Nat : m_currStepFloor = Base + j * Step
    /\ pc = "looping" \/ rest # <<>> => m_currStepFloor = Base + Len(rolledUp) * Step
    /\ m_currPdp.finish = m_currStepFloor + Step
    /\ m_currPdp.prevAveraged.t <= m_currRow.t
    /\ m_prevRow.t <= m_currStepFloor + Step /\ m_currStepFloor <= m_currRow.t
    /\ pc = "looping" => m_currRow.t < m_currStepFloor + Step
    /\ pc = "looping" /\ rest = <<>> => m_currStepFloor <= m_prevRow.t
    /\ pc = "idle" => Len(rolledUp) # 0 /\ m_prevRow.t <= Base + Len(rolledUp) * Step
    /\ pc = "idle" /\ rest = <<>> => Base + Len(rolledUp) * Step <= m_prevRow.t + Step

RollPlace ==
    \/ /\ pc = "fresh" /\ m_currStepFloor = 0 /\ rolledUp = <<>>
       /\ processor = "RollUp" => rest = rows
    \/ /\ pc = "threw" /\ m_currStepFloor = 0 /\ rolledUp = <<>>
       /\ processor = "RollUp"
    \/ /\ pc \in {"idle", "looping"} /\ processor = "RollUp"
       /\ \E i \in DOMAIN rows : RollAt(i)
       /\ RollSteps

RollInv == RollTypes /\ RollPlace

LEMMA AveragedType ==
    ASSUME NEW pdp \in Pdps, NEW r \in StreamRow
    PROVE  R!Averaged(pdp, r) \in StreamRow /\ R!Averaged(pdp, r).t = r.t
  <1>1. /\ pdp.prevAveraged.v \in Int \cup {NaN} /\ pdp.rowCount \in Nat \ {0}
        /\ r.t \in Nat /\ r.v \in Int \cup {NaN}
    BY DEF Pdps, StreamRow
  <1>2. multiply(pdp.prevAveraged.v, pdp.rowCount) \in Int \cup {NaN}
    <2>1. \A p, d \in Int : p * d \in Int
      BY SMT
    <2>2. \A p \in Int \cup {NaN}, d \in Int : multiply(p, d) \in Int \cup {NaN}
      BY <2>1, Zenon DEF multiply
    <2>3. pdp.rowCount \in Int
      BY <1>1
    <2> QED BY <1>1, <2>2, <2>3, Zenon
  <1>3. \A p \in Int \cup {NaN} : add(p, r.v) \in Int \cup {NaN}
    BY <1>1 DEF add
  <1>4. pdp.rowCount + 1 \in Nat
    BY <1>1
  <1>5. PICK v \in Int \cup {NaN} :
           v = divide(add(multiply(pdp.prevAveraged.v, pdp.rowCount), r.v), pdp.rowCount + 1)
    BY <1>2, <1>3, <1>4, DivideType
  <1>6. R!Averaged(pdp, r) = [t |-> r.t, v |-> v]
    BY <1>5, Zenon DEF R!Averaged, R!divide, R!add, R!multiply, divide, add, multiply
  <1> QED BY <1>1, <1>5, <1>6 DEF StreamRow

LEMMA UnknownType ==
    ASSUME NEW pdp \in Pdps, NEW r \in StreamRow, pdp.prevAveraged.t <= r.t
    PROVE  R!Unknown(pdp, r) \in Ints
  <1>1. pdp.prevAveraged.t \in Nat /\ r.t \in Nat /\ pdp.unknown \in Ints
    BY DEF Pdps, StreamRow
  <1>2. pdp.unknown \in Int
    BY <1>1, RowsAssumption DEF Ints
  <1>3. pdp.unknown + (r.t - pdp.prevAveraged.t) \in Int
    BY <1>1, <1>2
  <1>4. R!ToInt(pdp.unknown + (r.t - pdp.prevAveraged.t)) \in Ints
    BY <1>3, ToIntRange, SameInt
  <1> QED BY <1>1, <1>4, Zenon DEF R!Unknown

LEMMA DataPointType ==
    ASSUME NEW pdp \in Pdps, NEW r \in StreamRow, pdp.prevAveraged.t <= r.t
    PROVE  R!DataPoint(pdp, r) \in Int \cup {NaN}
  <1>1. R!Averaged(pdp, r) \in StreamRow /\ R!Averaged(pdp, r).t = r.t
    BY AveragedType
  <1>2. pdp.prevAveraged \in StreamRow /\ pdp.finish \in Nat
    BY DEF Pdps
  <1>3. pdp.prevAveraged.t <= R!Averaged(pdp, r).t
    BY <1>1
  <1>4. interpolate(pdp.finish, pdp.prevAveraged, R!Averaged(pdp, r)) \in Int \cup {NaN}
    BY <1>1, <1>2, <1>3, InterpolateType
  <1> QED BY <1>4, SameLine, Zenon DEF R!DataPoint

LEMMA AccumulatedType ==
    ASSUME NEW pdp \in Pdps, NEW r \in StreamRow, pdp.prevAveraged.t <= r.t
    PROVE  /\ R!Accumulated(pdp, r) \in Pdps
           /\ R!Accumulated(pdp, r).prevAveraged.t = r.t
           /\ R!Accumulated(pdp, r).finish = pdp.finish
  <1>1. PICK a, u : a = R!Averaged(pdp, r) /\ u = R!Unknown(pdp, r)
    OBVIOUS
  <1>2. a \in StreamRow /\ a.t = r.t /\ u \in Ints
    BY <1>1, AveragedType, UnknownType
  <1>3. /\ R!Accumulated(pdp, r) = [pdp EXCEPT !.prevAveraged = a, !.rowCount = @ + 1, !.unknown = u]
    BY <1>1 DEF R!Accumulated
  <1> HIDE DEF StreamRow
  <1>4. pdp.rowCount + 1 \in Nat \ {0}
    BY DEF Pdps
  <1> QED BY <1>2, <1>3, <1>4 DEF Pdps

(* Multiples of a step. *)
LEMMA StepArithmetic ==
    ASSUME NEW k \in Nat
    PROVE  k * Step \in Nat /\ (k + 1) * Step = k * Step + Step /\ Step \in Nat \ {0}
  BY RowsAssumption, SMT

LEMMA StepsInOrder ==
    ASSUME NEW j \in Nat, NEW k \in Nat, j < k
    PROVE  (j + 1) * Step <= k * Step
  <1>1. PICK d \in Nat : k = j + 1 + d
    <2>1. k - j - 1 \in Nat /\ k = j + 1 + (k - j - 1)
      BY SMT
    <2> QED BY <2>1
  <1>2. Step \in Nat \ {0}
    BY RowsAssumption
  <1>3. k * Step = (j + 1) * Step + d * Step /\ d * Step \in Nat /\ (j + 1) * Step \in Nat
    BY <1>1, <1>2, SMT
  <1> QED BY <1>3

LEMMA BaseType ==
    ASSUME Sorted(rows), 1 \in DOMAIN rows
    PROVE  Base \in Nat /\ Base <= rows[1].t /\ rows[1].t < Base + Step
  <1>1. PICK n \in Nat : n = rows[1].t
    BY SortedRows
  <1>2. Step \in Nat \ {0}
    BY RowsAssumption
  <1>3. Base = Step * (n \div Step) /\ Base \in Nat
    BY <1>1, Boundaries DEF Base
  <1>4. n % Step < Step /\ n % Step \in Nat /\ n = Step * (n \div Step) + (n % Step)
    BY <1>2, DivMod
  <1>5. PICK r \in Nat : r = n % Step /\ n = Base + r /\ r < Step
    BY <1>3, <1>4
  <1>6. Base <= n /\ n < Base + Step
    <2>1. PICK b \in Nat : b = Base
      BY <1>3, Zenon
    <2>2. n = b + r
      BY <1>5, <2>1
    <2>3. b <= n /\ n < b + Step
      BY <1>2, <1>5, <2>2
    <2> QED BY <2>1, <2>3
  <1> QED BY <1>1, <1>3, <1>6, Zenon

(* A row more of the output, one step after the last one.                  *)
LEMMA NextPoint ==
    ASSUME Base \in Nat, NEW v \in Int \cup {NaN}, NEW t \in Nat, rolledUp \in Seq(StreamRow),
           \A k \in DOMAIN rolledUp : rolledUp[k].t = Base + k * Step,
           t = Base + (Len(rolledUp) + 1) * Step,
           rolledUp' = Append(rolledUp, [t |-> t, v |-> v])
    PROVE  /\ rolledUp' \in Seq(StreamRow) /\ Len(rolledUp') = Len(rolledUp) + 1
           /\ \A k \in DOMAIN rolledUp' : rolledUp'[k].t = Base + k * Step
  <1>1. PICK e : e = [t |-> t, v |-> v]
    OBVIOUS
  <1>2. e \in StreamRow /\ e.t = t /\ rolledUp' = Append(rolledUp, e)
    BY <1>1 DEF StreamRow
  <1> HIDE DEF StreamRow
  <1>3. PICK n \in Nat : n = Len(rolledUp) /\ DOMAIN rolledUp = 1..n
    OBVIOUS
  <1>4. /\ rolledUp' \in Seq(StreamRow) /\ DOMAIN rolledUp' = 1..(n + 1) /\ Len(rolledUp') = n + 1
        /\ rolledUp'[n + 1] = e /\ \A k \in 1..n : rolledUp'[k] = rolledUp[k]
    BY <1>2, <1>3, AppendElements
  <1>5. ASSUME NEW k \in 1..(n + 1) PROVE rolledUp'[k].t = Base + k * Step
    <2>1. CASE k \in 1..n
      BY <1>3, <1>4, <2>1, Zenon
    <2>2. CASE k = n + 1
      BY <1>2, <1>3, <1>4, <2>2, Zenon
    <2> QED BY <1>3, <2>1, <2>2
  <1> QED BY <1>3, <1>4, <1>5

LEMMA AStepOn ==
    ASSUME NEW floor, NEW b \in Nat, NEW m \in Nat, floor = b + m
    PROVE  /\ floor + Step = b + (m + Step)
           /\ \A t \in Nat : t <= floor + Step => t <= floor + Step + Step /\ t <= b + (m + Step)
           /\ \A t \in Nat : floor <= t => b + (m + Step) <= t + Step
  BY RowsAssumption

LEMMA AddSamplesKeeps ==
    ASSUME Sorted(rows), rows' = rows, processor = "RollUp", processor' = processor,
           NEW i, i \in DOMAIN rows, i > 1,
           NEW floor \in Nat, NEW pdp \in Pdps, pdp.finish = floor + Step,
           pdp.prevAveraged.t <= rows[i].t, rows[i - 1].t <= floor + Step,
           floor <= rows[i].t, rest' = <<>> => floor <= rows[i - 1].t,
           floor = Base + Len(rolledUp) * Step, rolledUp \in Seq(StreamRow),
           \A k \in DOMAIN rolledUp : rolledUp[k].t = Base + k * Step,
           Len(rest') = Len(rows) - i, \A k \in 1..Len(rest') : rest'[k] = rows[i + k],
           R!AddSamples(rows[i - 1], rows[i], floor, pdp)
    PROVE  RollInv'
  <1>1. PICK prev, curr : prev = rows[i - 1] /\ curr = rows[i]
    OBVIOUS
  <1>2. /\ prev \in StreamRow /\ curr \in StreamRow /\ prev.t \in Nat /\ curr.t \in Nat
        /\ prev.t < curr.t /\ 1 \in DOMAIN rows
    <2>1. i \in Nat /\ i - 1 \in DOMAIN rows /\ 1 \in DOMAIN rows /\ i - 1 < i
      BY SortedRows
    <2> QED BY <1>1, <2>1, SortedRows
  <1>3. Base \in Nat /\ Step \in Nat \ {0}
    BY <1>2, BaseType, RowsAssumption
  <1>4. PICK n \in Nat : n = Len(rolledUp)
    OBVIOUS
  <1>5. PICK m \in Nat : n * Step = m /\ (n + 1) * Step = m + Step
    BY StepArithmetic
  <1>6. floor = Base + n * Step /\ m \in Nat
    BY <1>4, <1>5
  <1>7. RollAt(i)'
    <2>1. m_prevRow' = prev /\ m_currRow' = curr
      BY <1>1, Zenon DEF R!AddSamples
    <2> QED BY <1>1, <2>1, Zenon DEF RollAt
  <1>8. CASE curr.t < pdp.finish
    <2>1. /\ m_prevRow' = prev /\ m_currRow' = curr /\ m_currPdp' = R!Accumulated(pdp, curr)
          /\ m_currStepFloor' = floor /\ pc' = "looping" /\ rolledUp' = rolledUp
      BY <1>1, <1>8, Zenon DEF R!AddSamples
    <2>2. /\ m_currPdp' \in Pdps /\ m_currPdp'.prevAveraged.t = curr.t
          /\ m_currPdp'.finish = floor + Step
      BY <1>1, <1>2, <2>1, AccumulatedType
    <2>3. RollTypes'
      BY <1>2, <2>1, <2>2, Zenon DEF RollTypes, StreamRow, Pdps
    <2>4. /\ curr.t <= curr.t /\ curr.t < floor + Step /\ prev.t <= floor + Step /\ pc' # "idle"
          /\ floor <= curr.t /\ (rest' = <<>> => floor <= prev.t)
      BY <1>1, <1>2, <1>8, <2>1
    <2>5. RollSteps'
      BY <1>4, <1>6, <2>1, <2>2, <2>4, Zenon DEF RollSteps, Base, atStepBoundaryStart
    <2> QED BY <1>7, <2>1, <2>3, <2>5, Zenon DEF RollInv, RollPlace
  <1>9. CASE ~(curr.t < pdp.finish)
    <2>1. PICK first : first = R!FirstRow(floor + Step, prev, curr)
      OBVIOUS
    <2>2. first \in StreamRow /\ first.t <= curr.t
      BY <1>2, <2>1 DEF R!FirstRow
    <2>3. PICK v \in Int \cup {NaN} : v = R!DataPoint(pdp, curr)
      BY <1>1, <1>2, DataPointType
    <2>4. /\ m_prevRow' = prev /\ m_currRow' = curr
          /\ m_currPdp' = R!NewPdp(floor + Step, first)
          /\ m_currStepFloor' = floor + Step /\ pc' = "idle"
          /\ rolledUp' = Append(rolledUp, [t |-> pdp.finish, v |-> v])
      BY <1>1, <1>9, <2>1, <2>3, Zenon DEF R!AddSamples, R!nextStep
    <2>5. m_currPdp' = [finish |-> floor + Step + Step, prevAveraged |-> first, rowCount |-> 1, unknown |-> 0]
      BY <2>4, Zenon DEF R!NewPdp, R!nextStep
    <2>6. floor + Step \in Nat /\ floor + Step + Step \in Nat /\ floor + Step = Base + (n + 1) * Step
      <3>1. floor = Base + m /\ m \in Nat
        BY <1>5, <1>6, Zenon
      <3>2. floor + Step = Base + (m + Step)
        BY <1>3, <3>1, AStepOn
      <3>3. floor + Step \in Nat /\ floor + Step + Step \in Nat
        BY <1>3
      <3>4. floor + Step = Base + (n + 1) * Step
        BY <1>5, <3>2, Zenon
      <3> QED BY <3>3, <3>4
    <2>7. /\ m_currPdp' \in Pdps /\ m_currPdp'.finish = floor + Step + Step
          /\ m_currPdp'.prevAveraged = first
      <3> HIDE DEF StreamRow
      <3> QED BY <2>2, <2>5, <2>6, ZeroFits DEF Pdps
    <2>8. /\ rolledUp' \in Seq(StreamRow) /\ Len(rolledUp') = n + 1
          /\ \A k \in DOMAIN rolledUp' : rolledUp'[k].t = Base + k * Step
      BY <1>3, <1>4, <2>3, <2>4, <2>6, NextPoint
    <2>9. RollTypes'
      BY <1>2, <2>4, <2>6, <2>7, <2>8, Zenon DEF RollTypes, StreamRow, Pdps
    <2>10. /\ prev.t <= floor + Step + Step /\ prev.t <= Base + (n + 1) * Step
           /\ (rest' = <<>> => Base + (n + 1) * Step <= prev.t + Step)
           /\ floor + Step <= curr.t /\ pc' # "looping" /\ n + 1 \in Nat /\ n + 1 # 0
      <3>1. floor = Base + m /\ m \in Nat /\ prev.t <= floor + Step
        BY <1>1, <1>5, <1>6, Zenon
      <3>2. prev.t <= floor + Step + Step /\ prev.t <= Base + (m + Step)
        BY <1>2, <1>3, <3>1, AStepOn
      <3>3. rest' = <<>> => Base + (m + Step) <= prev.t + Step
        BY <1>1, <1>2, <1>3, <3>1, AStepOn
      <3>4. floor + Step <= curr.t
        BY <1>2, <1>3, <1>9
      <3> QED BY <1>5, <2>4, <3>2, <3>3, <3>4
    <2>11. RollSteps'
      BY <2>2, <2>4, <2>6, <2>7, <2>8, <2>10, Zenon DEF RollSteps, Base, atStepBoundaryStart
    <2> QED BY <1>7, <2>4, <2>9, <2>11, Zenon DEF RollInv, RollPlace
  <1> QED BY <1>8, <1>9

LEMMA RollInitInv == ASSUME MCInit PROVE RollInv
  <1>1. /\ rest = rows /\ pc = "fresh" /\ rolledUp = <<>> /\ m_currStepFloor = 0
        /\ m_prevRow = [t |-> 0, v |-> NaN] /\ m_currRow = m_prevRow
        /\ m_currPdp = [finish |-> 0 + Step, prevAveraged |-> m_prevRow, rowCount |-> 1, unknown |-> 0]
    BY DEF MCInit, R!Init, R!NewPdp, R!nextStep
  <1>2. m_prevRow \in StreamRow
    BY <1>1 DEF StreamRow
  <1>3. m_currPdp \in Pdps
    <2> HIDE DEF StreamRow
    <2> QED BY <1>1, <1>2, ZeroFits, RowsAssumption DEF Pdps
  <1>4. RollTypes
    BY <1>1, <1>2, <1>3 DEF RollTypes
  <1> QED BY <1>1, <1>4, Zenon DEF RollInv, RollPlace

LEMMA RollInitializeKeeps ==
    ASSUME Sorted(rows), rows' = rows, processor = "RollUp", processor' = processor,
           RollInv, R!Initialize
    PROVE  RollInv'
  <1>1. /\ pc = "fresh" /\ Len(rest) >= 2 /\ rest' = Tail(Tail(rest))
        /\ R!AddSamples(rest[1], rest[2], R!atStepBoundaryStart(rest[1].t),
                        R!NewPdp(R!atStepBoundaryStart(rest[1].t), rest[1]))
    BY Zenon DEF R!Initialize
  <1>2. rest = rows /\ rolledUp = <<>>
    BY <1>1, Zenon DEF RollInv, RollPlace
  <1>3. PICK n \in Nat : n = Len(rows) /\ DOMAIN rows = 1..n
    BY SortedRows
  <1>4. n >= 2 /\ 1 \in DOMAIN rows /\ 2 \in DOMAIN rows
    BY <1>1, <1>2, <1>3
  <1>5. /\ rows[1] \in StreamRow /\ rows[2] \in StreamRow
        /\ rows[1].t \in Nat /\ rows[2].t \in Nat /\ rows[1].t < rows[2].t
    BY <1>4, SortedRows
  <1>6. PICK floor \in Nat : floor = Base /\ floor <= rows[1].t /\ rows[1].t < floor + Step
    BY <1>4, BaseType
  <1>7. PICK pdp : pdp = [finish |-> floor + Step, prevAveraged |-> rows[1], rowCount |-> 1, unknown |-> 0]
    OBVIOUS
  <1>8. /\ pdp \in Pdps /\ pdp.finish = floor + Step /\ pdp.prevAveraged = rows[1]
    <2> HIDE DEF StreamRow
    <2>1. floor + Step \in Nat
      BY RowsAssumption
    <2> QED BY <1>5, <1>7, <2>1, ZeroFits DEF Pdps
  <1>9. R!AddSamples(rows[1], rows[2], floor, pdp)
    BY <1>1, <1>2, <1>6, <1>7, Zenon
       DEF Base, atStepBoundaryStart, R!atStepBoundaryStart, R!NewPdp, R!nextStep
  <1>10. PICK i : i = 2
    OBVIOUS
  <1>11. i - 1 = 1 /\ i > 1
    BY <1>10
  <1>12. R!AddSamples(rows[i - 1], rows[i], floor, pdp)
    BY <1>9, <1>10, <1>11
  <1>13. /\ pdp.prevAveraged.t <= rows[i].t /\ rows[i - 1].t <= floor + Step
         /\ floor <= rows[i].t /\ floor <= rows[i - 1].t
    BY <1>5, <1>6, <1>8, <1>10, <1>11, RowsAssumption
  <1>14. /\ DOMAIN rolledUp = {} /\ rolledUp \in Seq(StreamRow) /\ floor = Base + Len(rolledUp) * Step
    <2>1. 0 * Step = 0 /\ Len(rolledUp) = 0
      BY <1>2, RowsAssumption, SMT
    <2> HIDE DEF StreamRow
    <2>2. floor = Base + 0
      BY <1>6
    <2> QED BY <1>2, <2>1, <2>2
  <1>15. /\ Len(rest') = Len(rows) - i
         /\ \A k \in 1..Len(rest') : rest'[k] = rows[i + k]
    <2>1. rows \in Seq(StreamRow)
      BY SortedRows
    <2> HIDE DEF StreamRow
    <2>2. rows # <<>> /\ Tail(rows) \in Seq(StreamRow) /\ Len(Tail(rows)) = n - 1
      BY <1>3, <1>4, <2>1
    <2>3. /\ \A k \in 1..(n - 1) : Tail(rows)[k] = rows[k + 1]
      BY <1>3, <2>1, <2>2, TailElements
    <2>4. Tail(rows) # <<>>
      <3>1. Len(Tail(rows)) # 0 /\ Len(<<>>) = 0
        BY <1>4, <2>2
      <3> QED BY <3>1, Zenon
    <2>5. Len(Tail(Tail(rows))) = n - 2
      BY <1>4, <2>2, <2>4
    <2>6. \A k \in 1..(n - 1 - 1) : Tail(Tail(rows))[k] = Tail(rows)[k + 1]
      BY <2>2, <2>4, TailElements
    <2>7. ASSUME NEW k \in 1..(n - 2) PROVE Tail(Tail(rows))[k] = rows[2 + k]
      <3>1. k \in 1..(n - 1 - 1) /\ k + 1 \in 1..(n - 1) /\ k + 1 + 1 = 2 + k
        BY <2>7
      <3> QED BY <2>3, <2>6, <3>1
    <2> QED BY <1>1, <1>2, <1>3, <1>10, <2>5, <2>7
  <1> QED BY <1>4, <1>8, <1>10, <1>11, <1>12, <1>13, <1>14, <1>15, AddSamplesKeeps

LEMMA InitializeFailsKeeps ==
    ASSUME processor = "RollUp", processor' = processor, RollInv, R!InitializeFails
    PROVE  RollInv'
  <1>1. /\ pc = "fresh" /\ pc' = "threw" /\ rolledUp' = rolledUp /\ m_currStepFloor' = m_currStepFloor
        /\ m_currPdp' = m_currPdp /\ m_prevRow' = m_prevRow /\ m_currRow' = m_currRow
    BY Zenon DEF R!InitializeFails
  <1> QED BY <1>1, Zenon DEF RollInv, RollPlace, RollTypes

LEMMA ConsumeKeeps ==
    ASSUME Sorted(rows), rows' = rows, processor = "RollUp", processor' = processor,
           rest \in Seq(StreamRow), RollInv, R!Consume
    PROVE  RollInv'
  <1>1. pc \in {"idle", "looping"} /\ rest # <<>>
    BY Zenon DEF R!Consume
  <1>2. RollSteps /\ \E i \in DOMAIN rows : RollAt(i)
    BY <1>1, Zenon DEF RollInv, RollPlace
  <1>3. PICK i \in DOMAIN rows : RollAt(i)
    BY <1>2
  <1>4. /\ i > 1 /\ m_currRow = rows[i] /\ m_prevRow = rows[i - 1]
        /\ Len(rest) = Len(rows) - i
        /\ \A k \in 1..Len(rest) : rest[k] = rows[i + k]
    BY <1>3, Zenon DEF RollAt
  <1>5. PICK floor \in Nat, pdp \in Pdps : floor = m_currStepFloor /\ pdp = m_currPdp
    BY Zenon DEF RollInv, RollTypes
  <1>6. /\ floor = Base + Len(rolledUp) * Step /\ pdp.finish = floor + Step
        /\ pdp.prevAveraged.t <= rows[i].t /\ rows[i - 1].t <= floor + Step /\ floor <= rows[i].t
        /\ \A k \in DOMAIN rolledUp : rolledUp[k].t = Base + k * Step
        /\ rolledUp \in Seq(StreamRow)
    BY <1>1, <1>2, <1>4, <1>5, Zenon DEF RollSteps, RollInv, RollTypes
  <1>7. CASE m_currRow.t > R!nextStep(m_currStepFloor)
    <2>1. rest' = rest /\ R!AddSamples(rows[i - 1], rows[i], floor, pdp)
      BY <1>4, <1>5, <1>7, Zenon DEF R!Consume
    <2> QED BY <1>1, <1>4, <1>6, <2>1, AddSamplesKeeps
  <1>8. CASE ~(m_currRow.t > R!nextStep(m_currStepFloor))
    <2>1. rest' = Tail(rest) /\ R!AddSamples(rows[i], Head(rest), floor, pdp)
      BY <1>4, <1>5, <1>8, Zenon DEF R!Consume
    <2>2. PICK n \in Nat, r \in Nat : n = Len(rows) /\ r = Len(rest) /\ r # 0 /\ DOMAIN rows = 1..n
      <3>1. Len(rest) \in Nat /\ Len(rest) # 0
        <4> HIDE DEF StreamRow
        <4> QED BY <1>1
      <3> QED BY <3>1, SortedRows
    <2>3. PICK j \in Nat : j = i + 1 /\ j \in DOMAIN rows /\ j > 1 /\ j - 1 = i /\ r = n - i
      BY <1>4, <2>2
    <2>4. /\ Head(rest) = rest[1] /\ Len(rest') = r - 1
          /\ \A k \in 1..(r - 1) : rest'[k] = rest[k + 1]
      <3> HIDE DEF StreamRow
      <3> QED BY <1>1, <2>1, <2>2, TailElements
    <2>5. Head(rest) = rows[j]
      <3>1. 1 \in 1..r
        BY <2>2
      <3> QED BY <1>4, <2>2, <2>3, <2>4, <3>1, Zenon
    <2>6. R!AddSamples(rows[j - 1], rows[j], floor, pdp)
      BY <2>1, <2>3, <2>5, Zenon
    <2>7. Len(rest') = Len(rows) - j
      BY <2>2, <2>3, <2>4
    <2>8. ASSUME NEW k \in 1..Len(rest') PROVE rest'[k] = rows[j + k]
      <3>1. k \in 1..(r - 1)
        BY <2>4, <2>8, Zenon
      <3>2. k + 1 \in 1..r /\ i \in Nat
        BY <2>2, <3>1
      <3>3. i + (k + 1) = j + k
        BY <2>3, <3>1, <3>2
      <3> QED BY <1>4, <2>2, <2>4, <3>1, <3>2, <3>3, Zenon
    <2>9. /\ rows[i].t \in Nat /\ rows[j].t \in Nat /\ rows[i].t < rows[j].t
      <3>1. i < j
        BY <2>2, <2>3
      <3> QED BY <2>3, <3>1, SortedRows
    <2>10. pdp.prevAveraged.t <= rows[j].t
      <3>1. pdp.prevAveraged.t \in Nat
        BY DEF Pdps, StreamRow
      <3> QED BY <1>6, <2>9, <3>1
    <2>11. rows[j - 1].t <= floor + Step /\ floor <= rows[j - 1].t /\ floor <= rows[j].t
      <3>1. ~(rows[i].t > floor + Step)
        BY <1>4, <1>5, <1>8, Zenon DEF R!nextStep
      <3>2. rows[i].t <= floor + Step
        BY <2>9, <3>1, RowsAssumption
      <3>3. floor <= rows[j].t
        BY <1>6, <2>9
      <3> QED BY <1>6, <2>3, <3>2, <3>3
    <2> QED BY <1>6, <2>3, <2>6, <2>7, <2>8, <2>10, <2>11, AddSamplesKeeps
  <1> QED BY <1>7, <1>8

LEMMA ExhaustedKeeps ==
    ASSUME Sorted(rows), rows' = rows, processor = "RollUp", processor' = processor,
           RollInv, R!Exhausted
    PROVE  RollInv'
  <1>1. /\ pc = "looping" /\ rest = <<>> /\ pc' = "idle" /\ rest' = rest
        /\ rolledUp' = Append(rolledUp, [t |-> R!nextStep(m_currStepFloor), v |-> NaN])
        /\ m_currStepFloor' = m_currStepFloor /\ m_currPdp' = m_currPdp
        /\ m_prevRow' = m_prevRow /\ m_currRow' = m_currRow
    BY Zenon DEF R!Exhausted
  <1>2. RollSteps /\ \E i \in DOMAIN rows : RollAt(i)
    BY <1>1, Zenon DEF RollInv, RollPlace
  <1>3. PICK i \in DOMAIN rows : RollAt(i)
    BY <1>2
  <1>4. PICK n \in Nat : n = Len(rolledUp)
    <2>1. rolledUp \in Seq(StreamRow)
      BY Zenon DEF RollInv, RollTypes
    <2> HIDE DEF StreamRow
    <2> QED BY <2>1
  <1>5. Base \in Nat /\ Step \in Nat \ {0} /\ m_prevRow.t \in Nat /\ m_prevRow \in StreamRow
    <2>1. 1 \in DOMAIN rows
      BY <1>3, SortedRows
    <2>2. m_prevRow \in StreamRow
      BY Zenon DEF RollInv, RollTypes
    <2>3. m_prevRow.t \in Nat
      BY <2>2 DEF StreamRow
    <2> QED BY <2>1, <2>2, <2>3, BaseType, RowsAssumption
  <1>6. PICK m \in Nat : n * Step = m /\ (n + 1) * Step = m + Step
    BY StepArithmetic
  <1>7. /\ m_currStepFloor = Base + m /\ m_prevRow.t <= m_currStepFloor + Step
        /\ m_currStepFloor <= m_prevRow.t /\ m_currStepFloor \in Nat /\ rolledUp \in Seq(StreamRow)
        /\ \A k \in DOMAIN rolledUp : rolledUp[k].t = Base + k * Step
    BY <1>1, <1>2, <1>4, <1>6, Zenon DEF RollSteps, RollInv, RollTypes
  <1>8. PICK floor \in Nat : floor = m_currStepFloor
    BY <1>7
  <1>9. floor + Step = Base + (n + 1) * Step /\ floor + Step \in Nat
    <2>1. floor + Step = Base + (m + Step)
      BY <1>5, <1>7, <1>8, AStepOn
    <2>2. floor + Step \in Nat
      BY <1>5
    <2> QED BY <1>6, <2>1, <2>2, Zenon
  <1>10. /\ rolledUp' \in Seq(StreamRow) /\ Len(rolledUp') = n + 1
         /\ \A k \in DOMAIN rolledUp' : rolledUp'[k].t = Base + k * Step
    <2>1. rolledUp' = Append(rolledUp, [t |-> floor + Step, v |-> NaN])
      BY <1>1, <1>8, Zenon DEF R!nextStep
    <2>2. NaN \in Int \cup {NaN} /\ floor + Step = Base + (Len(rolledUp) + 1) * Step
      BY <1>4, <1>9
    <2> QED BY <1>4, <1>5, <1>7, <1>9, <2>1, <2>2, NextPoint
  <1>11. /\ m_prevRow.t <= Base + (n + 1) * Step /\ Base + (n + 1) * Step <= m_prevRow.t + Step
         /\ n + 1 # 0
    <2>1. m_prevRow.t <= Base + (m + Step) /\ Base + (m + Step) <= m_prevRow.t + Step
      <3>1. floor = Base + m /\ m_prevRow.t <= floor + Step /\ floor <= m_prevRow.t
        BY <1>7, <1>8
      <3> QED BY <1>5, <3>1, AStepOn
    <2>2. n + 1 # 0
      OBVIOUS
    <2> QED BY <1>6, <2>1, <2>2, Zenon
  <1>12. rest' = <<>> /\ pc' # "looping"
    BY <1>1
  <1>13. RollSteps'
    BY <1>1, <1>2, <1>10, <1>11, <1>12, Zenon DEF RollSteps, Base, atStepBoundaryStart
  <1>14. RollAt(i)'
    BY <1>1, <1>3, Zenon DEF RollAt
  <1>15. RollTypes'
    BY <1>1, <1>10, Zenon DEF RollInv, RollTypes, StreamRow, Pdps
  <1> QED BY <1>1, <1>13, <1>14, <1>15, Zenon DEF RollInv, RollPlace

LEMMA RollOthersKeep ==
    ASSUME RollInv, rows' = rows, processor' = processor, UNCHANGED rollUpVars,
           processor # "RollUp" \/ rest' = rest
    PROVE  RollInv'
  <1>1. /\ pc' = pc /\ m_currStepFloor' = m_currStepFloor /\ m_currPdp' = m_currPdp
        /\ m_prevRow' = m_prevRow /\ m_currRow' = m_currRow /\ rolledUp' = rolledUp
    BY DEF rollUpVars
  <1>2. RollTypes'
    BY <1>1, Zenon DEF RollInv, RollTypes
  <1>3. CASE rest' = rest
    BY <1>1, <1>2, <1>3, Zenon DEF RollInv, RollPlace, RollAt, RollSteps, Base
  <1>4. CASE processor # "RollUp"
    BY <1>1, <1>2, <1>4, Zenon DEF RollInv, RollPlace
  <1> QED BY <1>3, <1>4

LEMMA RollStepInv == ASSUME StreamInv, LerpInv, RollInv, [MCNext]_allVars PROVE RollInv'
  <1>1. Sorted(rows) /\ rows' = rows /\ rest \in Seq(StreamRow)
    BY StreamsAreSorted, StreamStepInv DEF StreamInv, LerpInv, LerpTypes
  <1>2. CASE processor = "RollUp" /\ R!Next /\ processor' = processor
    BY <1>1, <1>2, RollInitializeKeeps, InitializeFailsKeeps, ConsumeKeeps, ExhaustedKeeps
       DEF R!Next
  <1>3. CASE processor # "RollUp" /\ UNCHANGED <<processor, rollUpVars>>
    <2>1. processor' = processor /\ UNCHANGED rollUpVars
      BY <1>3
    <2> QED BY <1>1, <1>3, <2>1, RollOthersKeep
  <1>4. CASE UNCHANGED allVars
    <2>1. processor' = processor /\ UNCHANGED rollUpVars /\ rest' = rest
      BY <1>4 DEF allVars
    <2> QED BY <1>1, <2>1, RollOthersKeep
  <1>5. CASE MCNext
    BY <1>2, <1>3, <1>5 DEF MCNext
  <1> QED BY <1>4, <1>5

(* The current row is a row of the stream with all that are left after it, *)
(* and the step in hand follows those that were returned.                  *)
THEOREM RollInvHolds == MCSpec => []RollInv
  <1>1. MCInit => RollInv
    BY RollInitInv
  <1>2. StreamInv /\ LerpInv /\ RollInv /\ [MCNext]_allVars => RollInv'
    BY RollStepInv
  <1> QED BY <1>1, <1>2, LerpInvHolds, PTL DEF MCSpec

(* RollUp.next(): whatever the stream and the step, one data point follows *)
(* the other, and the last one is that of the step with the last row but   *)
(* one: none is skipped, and none made of a step after it.                 *)
THEOREM NoStepSkippedHolds == MCSpec => []NoStepSkipped
  <1>1. StreamInv /\ RollInv => NoStepSkipped
    <2> SUFFICES ASSUME StreamInv, RollInv PROVE NoStepSkipped
      OBVIOUS
    <2>1. Sorted(rows)
      BY StreamsAreSorted DEF StreamInv
    <2>2. rolledUp \in Seq(StreamRow)
      BY Zenon DEF RollInv, RollTypes
    <2>3. PICK n \in Nat : n = Len(rolledUp) /\ DOMAIN rolledUp = 1..n
      <3> HIDE DEF StreamRow
      <3> QED BY <2>2
    <2>4. \A k \in Nat : R!StepStart(k + 1) = Base + k * Step
      <3>1. ASSUME NEW j PROVE R!StepStart(j) = Base + (j - 1) * Step
        <4>1. R!atStepBoundaryStart(rows[1].t) = Base
          BY Zenon DEF Base, atStepBoundaryStart, R!atStepBoundaryStart
        <4> QED BY <4>1, Zenon DEF R!StepStart
      <3>2. ASSUME NEW k \in Nat PROVE R!StepStart(k + 1) = Base + k * Step
        <4>1. PICK j : j = k + 1 /\ j - 1 = k
          OBVIOUS
        <4> QED BY <3>1, <4>1
      <3> QED BY <3>2
    <2>5. CASE rolledUp = <<>> /\ pc \in {"fresh", "threw"}
      BY <2>5 DEF NoStepSkipped, R!InOrder, R!LastStep
    <2>6. CASE pc \in {"idle", "looping"} /\ RollSteps /\ \E i \in DOMAIN rows : RollAt(i)
      <3>1. R!InOrder
        <4>1. \A k \in DOMAIN rolledUp : k \in Nat
          BY <2>3
        <4> QED BY <2>4, <2>6, <4>1, Zenon DEF R!InOrder, RollSteps
      <3>2. R!LastStep
        <4> SUFFICES ASSUME pc = "idle", rest = <<>>
                     PROVE  /\ rolledUp # <<>>
                            /\ R!StepStart(n) <= rows[Len(rows) - 1].t
                            /\ rows[Len(rows) - 1].t <= R!StepStart(n + 1)
          BY <2>3, Zenon DEF R!LastStep
        <4>1. PICK i \in DOMAIN rows : RollAt(i)
          BY <2>6
        <4>2. i = Len(rows)
          <5>1. Len(rest) = Len(rows) - i /\ Len(rest) = 0
            BY <4>1, Zenon DEF RollAt
          <5> QED BY <2>1, <4>1, <5>1, SortedRows
        <4>3. PICK t : /\ t = rows[Len(rows) - 1] /\ t = m_prevRow /\ n # 0
                       /\ t.t <= Base + n * Step /\ Base + n * Step <= t.t + Step
          BY <2>3, <2>6, <4>1, <4>2, Zenon DEF RollAt, RollSteps
        <4>4. Base \in Nat /\ t.t \in Nat /\ Step \in Nat
          <5>1. 1 \in DOMAIN rows
            BY <2>1, <4>1, SortedRows
          <5>2. t \in StreamRow
            BY <4>3, Zenon DEF RollInv, RollTypes
          <5>3. t.t \in Nat
            BY <5>2 DEF StreamRow
          <5> QED BY <2>1, <5>1, <5>3, BaseType, RowsAssumption
        <4>5. PICK l \in Nat : n = l + 1
          <5>1. n - 1 \in Nat /\ n = (n - 1) + 1
            BY <4>3
          <5> QED BY <5>1
        <4>6. PICK a \in Nat : a = l * Step /\ n * Step = a + Step
          BY <4>5, StepArithmetic
        <4>7. R!StepStart(n) = Base + a /\ R!StepStart(n + 1) = Base + (a + Step)
          BY <2>4, <4>5, <4>6, Zenon
        <4>8. Base + a <= t.t /\ t.t <= Base + (a + Step)
          <5>1. t.t <= Base + (a + Step) /\ Base + (a + Step) <= t.t + Step
            BY <4>3, <4>6, Zenon
          <5> QED BY <4>4, <5>1
        <4>9. rolledUp # <<>>
          BY <2>3, <4>3
        <4> QED BY <4>3, <4>7, <4>8, <4>9, Zenon
      <3> QED BY <3>1, <3>2 DEF NoStepSkipped
    <2> QED BY <2>5, <2>6, Zenon DEF RollInv, RollPlace
  <1> QED BY <1>1, LerpInvHolds, RollInvHolds, PTL

-----------------------------------------------------------------------------
(* RollUp: sums over consecutive rows. *)

SumBody(s, f, i, j) == [n \in (i - 1)..j |-> IF n = i - 1 THEN 0 ELSE s[n - 1] + f[n]]

(* The recursion of SumOf() has a solution, and SumOf() is its last value. *)
LEMMA SumSolved ==
    ASSUME NEW i \in Nat \ {0}, NEW j \in Nat, i <= j + 1, NEW f, \A n \in i..j : f[n] \in Int
    PROVE  \E s : s = SumBody(s, f, i, j) /\ R!SumOf(f, i, j) = s[j]
  <1> DEFINE len == j + 1 - i
             step == [p \in Nat \X Int |-> IF p[1] \in 1..len THEN p[2] + f[p[1] + (i - 1)] ELSE 0]
  <1>1. len \in Nat
    OBVIOUS
  <1>2. \A m \in 1..len : m + (i - 1) \in i..j
    OBVIOUS
  <1>3. step \in [Nat \X Int -> Int]
    <2> SUFFICES ASSUME NEW p \in Nat \X Int
                 PROVE  (IF p[1] \in 1..len THEN p[2] + f[p[1] + (i - 1)] ELSE 0) \in Int
      OBVIOUS
    <2>1. p[1] \in Nat /\ p[2] \in Int
      OBVIOUS
    <2>2. CASE p[1] \in 1..len
      <3>1. f[p[1] + (i - 1)] \in Int
        BY <1>2, <2>2
      <3> QED BY <2>1, <2>2, <3>1
    <2> QED BY <2>2
  <1> HIDE DEF step
  <1>4. \E h \in [0..len -> Int] : Recursive(h, 0, step, len)
    <2> DEFINE S == Int
    <2>1. 0 \in S /\ step \in [Nat \X S -> S]
      BY <1>3
    <2> HIDE DEF len, S
    <2>2. \E h \in [0..len -> S] : Recursive(h, 0, step, len)
      BY <1>1, <2>1, RecursionExists
    <2> QED BY <2>2 DEF S
  <1>5. PICK h \in [0..len -> Int] : Recursive(h, 0, step, len)
    BY <1>4
  <1> DEFINE s == [n \in (i - 1)..j |-> h[n - (i - 1)]]
  <1>6. s = SumBody(s, f, i, j)
    <2> SUFFICES ASSUME NEW n \in (i - 1)..j
                 PROVE  s[n] = IF n = i - 1 THEN 0 ELSE s[n - 1] + f[n]
      BY DEF SumBody
    <2>1. CASE n = i - 1
      <3>1. n - (i - 1) = 0
        BY <2>1
      <3> QED BY <1>5, <2>1, <3>1 DEF Recursive
    <2>2. CASE n # i - 1
      <3>1. PICK m : m = n - (i - 1)
        OBVIOUS
      <3>2. /\ m \in 1..len /\ m - 1 \in Nat /\ m - 1 \in 0..len /\ n - 1 \in (i - 1)..j
            /\ (n - 1) - (i - 1) = m - 1 /\ m + (i - 1) = n /\ m \in Nat
        BY <2>2, <3>1
      <3>3. s[n] = h[m] /\ s[n - 1] = h[m - 1]
        BY <3>1, <3>2
      <3>4. h[m] = step[<<m, h[m - 1]>>] /\ h[m - 1] \in Int
        BY <1>5, <3>2 DEF Recursive
      <3> HIDE DEF len, s
      <3>5. step[<<m, h[m - 1]>>] = h[m - 1] + f[n]
        BY <3>2, <3>4 DEF step
      <3> QED BY <2>2, <3>3, <3>4, <3>5
    <2> QED BY <2>1, <2>2
  <1> DEFINE c == CHOOSE x : x = SumBody(x, f, i, j)
  <1> HIDE DEF s
  <1>7. c = SumBody(c, f, i, j)
    BY <1>6
  <1>8. R!SumOf(f, i, j) = c[j]
    BY DEF R!SumOf, SumBody
  <1> QED BY <1>7, <1>8

(* A sum is in whatever set is closed under adding its terms.              *)
LEMMA SumIn ==
    ASSUME NEW i \in Nat \ {0}, NEW j \in Nat, i <= j + 1, NEW f, \A n \in i..j : f[n] \in Int,
           NEW Q, 0 \in Q, \A q \in Q : \A n \in i..j : q + f[n] \in Q
    PROVE  R!SumOf(f, i, j) \in Q
  <1>1. PICK s : s = SumBody(s, f, i, j) /\ R!SumOf(f, i, j) = s[j]
    BY SumSolved
  <1>2. \A n \in (i - 1)..j : s[n] = IF n = i - 1 THEN 0 ELSE s[n - 1] + f[n]
    BY <1>1 DEF SumBody
  <1> DEFINE T == {m \in Nat : m <= j + 1 - i => s[i - 1 + m] \in Q}
  <1>3. 0 \in T
    <2>1. i - 1 + 0 = i - 1 /\ i - 1 \in (i - 1)..j
      OBVIOUS
    <2> QED BY <1>2, <2>1
  <1>4. ASSUME NEW m \in Nat, m \in T PROVE m + 1 \in T
    <2> SUFFICES ASSUME m + 1 <= j + 1 - i PROVE s[i - 1 + (m + 1)] \in Q
      OBVIOUS
    <2>1. PICK n : n = i - 1 + (m + 1)
      OBVIOUS
    <2>2. n \in i..j /\ n - 1 = i - 1 + m /\ n # i - 1 /\ n \in (i - 1)..j /\ m <= j + 1 - i
      BY <2>1
    <2>3. s[n - 1] \in Q
      BY <1>4, <2>2
    <2>4. s[n] = s[n - 1] + f[n]
      BY <1>2, <2>2
    <2> QED BY <2>1, <2>2, <2>3, <2>4
  <1> HIDE DEF T
  <1>5. j + 1 - i \in T
    <2>1. j + 1 - i \in Nat
      OBVIOUS
    <2> QED BY <1>3, <1>4, <2>1, SetInduction
  <1>6. i - 1 + (j + 1 - i) = j
    OBVIOUS
  <1> QED BY <1>1, <1>5, <1>6 DEF T

LEMMA SumInt ==
    ASSUME NEW i \in Nat \ {0}, NEW j \in Nat, i <= j + 1, NEW f, \A n \in i..j : f[n] \in Int
    PROVE  R!SumOf(f, i, j) \in Int
  <1>1. \A q \in Int : \A n \in i..j : q + f[n] \in Int
    OBVIOUS
  <1> QED BY <1>1, SumIn

(* One row more adds its term, and no row adds nothing.                    *)
LEMMA SumGrows ==
    ASSUME NEW i \in Nat \ {0}, NEW j \in Nat, i <= j + 1, NEW f, NEW g,
           \A n \in i..j : f[n] \in Int /\ g[n] = f[n], g[j + 1] \in Int
    PROVE  R!SumOf(g, i, j + 1) = R!SumOf(f, i, j) + g[j + 1]
  <1>1. PICK s : s = SumBody(s, f, i, j) /\ R!SumOf(f, i, j) = s[j]
    BY SumSolved
  <1>2. PICK u : u = SumBody(u, g, i, j + 1) /\ R!SumOf(g, i, j + 1) = u[j + 1]
    <2>1. \A n \in i..(j + 1) : g[n] \in Int
      <3>1. \A n \in i..(j + 1) : n \in i..j \/ n = j + 1
        OBVIOUS
      <3> QED BY <3>1
    <2>2. j + 1 \in Nat /\ i <= (j + 1) + 1
      OBVIOUS
    <2> QED BY <2>1, <2>2, SumSolved
  <1>3. \A n \in (i - 1)..j : s[n] = IF n = i - 1 THEN 0 ELSE s[n - 1] + f[n]
    BY <1>1 DEF SumBody
  <1>4. \A n \in (i - 1)..(j + 1) : u[n] = IF n = i - 1 THEN 0 ELSE u[n - 1] + g[n]
    BY <1>2 DEF SumBody
  <1> DEFINE T == {m \in Nat : m <= j + 1 - i => s[i - 1 + m] = u[i - 1 + m]}
  <1>5. 0 \in T
    <2>1. i - 1 + 0 = i - 1 /\ i - 1 \in (i - 1)..j /\ i - 1 \in (i - 1)..(j + 1)
      OBVIOUS
    <2> QED BY <1>3, <1>4, <2>1
  <1>6. ASSUME NEW m \in Nat, m \in T PROVE m + 1 \in T
    <2> SUFFICES ASSUME m + 1 <= j + 1 - i PROVE s[i - 1 + (m + 1)] = u[i - 1 + (m + 1)]
      OBVIOUS
    <2>1. PICK n : n = i - 1 + (m + 1)
      OBVIOUS
    <2>2. /\ n \in i..j /\ n - 1 = i - 1 + m /\ n # i - 1 /\ m <= j + 1 - i
          /\ n \in (i - 1)..j /\ n \in (i - 1)..(j + 1)
      BY <2>1
    <2>3. s[n - 1] = u[n - 1]
      BY <1>6, <2>2
    <2>4. s[n] = s[n - 1] + f[n] /\ u[n] = u[n - 1] + g[n]
      BY <1>3, <1>4, <2>2
    <2> QED BY <2>1, <2>2, <2>3, <2>4
  <1> HIDE DEF T
  <1>7. j + 1 - i \in T
    <2>1. j + 1 - i \in Nat
      OBVIOUS
    <2> QED BY <1>5, <1>6, <2>1, SetInduction
  <1>8. s[j] = u[j]
    <2>1. i - 1 + (j + 1 - i) = j
      OBVIOUS
    <2> QED BY <1>7, <2>1 DEF T
  <1>9. u[j + 1] = u[j] + g[j + 1]
    <2>1. j + 1 \in (i - 1)..(j + 1) /\ j + 1 # i - 1 /\ (j + 1) - 1 = j
      OBVIOUS
    <2> QED BY <1>4, <2>1
  <1> QED BY <1>1, <1>2, <1>8, <1>9

LEMMA SumOfNone ==
    ASSUME NEW i \in Nat \ {0}, NEW f
    PROVE  R!SumOf(f, i, i - 1) = 0
  <1>1. PICK j \in Nat : j = i - 1 /\ i <= j + 1
    OBVIOUS
  <1>2. \A n \in i..j : f[n] \in Int
    BY <1>1
  <1>3. PICK s : s = SumBody(s, f, i, j) /\ R!SumOf(f, i, j) = s[j]
    BY <1>1, <1>2, SumSolved
  <1>4. j \in (i - 1)..j
    BY <1>1
  <1>5. s[j] = 0
    BY <1>1, <1>3, <1>4 DEF SumBody
  <1> QED BY <1>1, <1>3, <1>5

-----------------------------------------------------------------------------
(* RollUp: cumulative averages. *)

(* The model divides integers where the code divides doubles: nothing is   *)
(* cut off when the values are multiples of every number of rows.  (Any    *)
(* stream of fractions is one of these, in a unit small enough.)           *)
AveragesExact == \A v \in Values \ {NaN} : \A n \in 1..MaxRows : v % n = 0

LEMMA DivExact ==
    ASSUME NEW d \in Nat \ {0}, NEW q \in Int
    PROVE  (d * q) \div d = q /\ d * q = q * d
  BY SMT

LEMMA StreamValues ==
    ASSUME NEW s \in Streams \cup {<<>>}
    PROVE  \A k \in DOMAIN s : s[k].v \in Values /\ k <= MaxRows
  <1>1. CASE s = <<>>
    BY <1>1
  <1>2. CASE s \in Streams
    <2>1. PICK o \in Ordered : s \in {[k \in DOMAIN o |-> [t |-> o[k], v |-> values[k]]] :
                                         values \in [DOMAIN o -> Values]}
      BY <1>2, Zenon DEF Streams
    <2>2. PICK val \in [DOMAIN o -> Values] :
             s = [k \in DOMAIN o |-> [t |-> o[k], v |-> val[k]]]
      BY <2>1, Zenon
    <2>3. PICK n \in 0..MaxRows : o \in [1..n -> Times]
      BY Zenon DEF Ordered
    <2>4. DOMAIN o = 1..n
      BY <2>3
    <2> QED BY <2>2, <2>3, <2>4, RowsAssumption
  <1> QED BY <1>1, <1>2

Multiples(d) == {d * q : q \in Int}

LEMMA MultiplesAdd ==
    ASSUME NEW d \in Nat \ {0}, NEW x \in Multiples(d), NEW y \in Int, y % d = 0
    PROVE  x + y \in Multiples(d)
  <1>1. PICK q \in Int : x = d * q
    BY DEF Multiples
  <1>2. PICK a \in Int : a = y \div d /\ y = d * a
    <2>1. y = d * (y \div d) + (y % d) /\ y \div d \in Int
      BY DivMod
    <2>2. d * (y \div d) \in Int
      BY <2>1, SMT
    <2> QED BY <2>1, <2>2
  <1>3. d * q + d * a = d * (q + a) /\ q + a \in Int
    BY SMT
  <1> QED BY <1>1, <1>2, <1>3 DEF Multiples

(* The next average comes from the one before and the number of its rows.  *)
LEMMA MeanGrows ==
    ASSUME AveragesExact, rows \in Streams \cup {<<>>},
           NEW f \in Nat \ {0}, NEW c \in Nat, f <= c,
           f \in DOMAIN rows, c \in DOMAIN rows, c + 1 \in DOMAIN rows
    PROVE  divide(add(multiply(R!Mean(f, c), c - f + 1), rows[c + 1].v), (c - f + 1) + 1)
             = R!Mean(f, c + 1)
  <1>1. Sorted(rows)
    BY StreamsAreSorted
  <1>2. PICK len \in Nat : DOMAIN rows = 1..len /\ \A k \in 1..len : rows[k].v \in Int \cup {NaN}
    <2>1. PICK len \in Nat : len = Len(rows) /\ DOMAIN rows = 1..len /\ \A k \in 1..len : rows[k] \in StreamRow
      BY <1>1, SortedRows
    <2> QED BY <2>1 DEF StreamRow
  <1>3. PICK m \in Nat \ {0} : m = c - f + 1 /\ m <= c /\ (c + 1) - f + 1 = m + 1
    BY <1>2
  <1>4. f..(c + 1) = (f..c) \cup {c + 1}
    BY <1>2
  <1>5. CASE \E n \in f..c : rows[n].v = NaN
    <2>1. R!Mean(f, c) = NaN /\ R!Mean(f, c + 1) = NaN
      BY <1>4, <1>5, Zenon DEF R!Mean
    <2>2. \A n : multiply(NaN, n) = NaN
      BY DEF multiply
    <2>3. \A a : add(NaN, a) = NaN
      BY DEF add
    <2>4. \A n : divide(NaN, n) = NaN
      BY DEF divide
    <2> QED BY <2>1, <2>2, <2>3, <2>4, Zenon
  <1>6. CASE ~\E n \in f..c : rows[n].v = NaN
    <2>0. PICK F, G : F = [n \in f..c |-> rows[n].v] /\ G = [n \in f..(c + 1) |-> rows[n].v]
      OBVIOUS
    <2>1. \A n \in f..c : F[n] \in Int /\ F[n] % m = 0 /\ G[n] = F[n]
      <3> SUFFICES ASSUME NEW n \in f..c PROVE F[n] \in Int /\ F[n] % m = 0 /\ G[n] = F[n]
        OBVIOUS
      <3>1. n \in 1..len /\ n \in f..(c + 1)
        BY <1>2
      <3>2. F[n] = rows[n].v /\ G[n] = rows[n].v /\ rows[n].v # NaN
        BY <1>6, <2>0, <3>1
      <3>3. rows[n].v \in Int /\ rows[n].v \in Values
        BY <1>2, <3>1, <3>2, StreamValues
      <3>4. m \in 1..MaxRows
        <4>1. c <= MaxRows
          BY StreamValues
        <4> QED BY <1>2, <1>3, <4>1, RowsAssumption
      <3> QED BY <3>2, <3>3, <3>4 DEF AveragesExact
    <2>2. PICK s : s = R!SumOf(F, f, c) /\ R!Mean(f, c) = s \div m
      BY <1>3, <1>6, <2>0, Zenon DEF R!Mean
    <2>3. f \in Nat \ {0} /\ c \in Nat /\ f <= c + 1
      BY <1>2
    <2>4. PICK q \in Int : s = m * q
      <3>1. \A n \in f..c : F[n] \in Int /\ F[n] % m = 0
        BY <2>1
      <3>2. PICK Q : Q = Multiples(m)
        OBVIOUS
      <3>3. 0 \in Q
        <4>1. 0 = m * 0
          OBVIOUS
        <4> QED BY <3>2, <4>1 DEF Multiples
      <3>4. \A x \in Q : \A n \in f..c : x + F[n] \in Q
        <4>1. ASSUME NEW x \in Multiples(m), NEW n \in f..c PROVE x + F[n] \in Multiples(m)
          <5>1. F[n] \in Int /\ F[n] % m = 0
            BY <3>1
          <5> QED BY <4>1, <5>1, MultiplesAdd
        <4> QED BY <3>2, <4>1
      <3>5. R!SumOf(F, f, c) \in Q
        BY <2>3, <3>1, <3>3, <3>4, SumIn
      <3> QED BY <2>2, <3>2, <3>5 DEF Multiples
    <2>5. R!Mean(f, c) = q /\ q * m = s /\ s \in Int
      <3>1. (m * q) \div m = q /\ m * q = q * m /\ m * q \in Int
        BY DivExact, SMT
      <3> QED BY <2>2, <2>4, <3>1
    <2>6. multiply(q, m) = s
      <3>1. q # NaN
        BY RowsAssumption
      <3> QED BY <2>5, <3>1, Zenon DEF multiply
    <2>7. CASE rows[c + 1].v = NaN
      <3>1. R!Mean(f, c + 1) = NaN
        <4>1. c + 1 \in f..(c + 1)
          BY <1>2
        <4> QED BY <2>7, <4>1, Zenon DEF R!Mean
      <3>2. \A a : add(a, NaN) = NaN
        BY DEF add
      <3>3. \A n : divide(NaN, n) = NaN
        BY DEF divide
      <3> QED BY <2>7, <3>1, <3>2, <3>3, Zenon
    <2>8. CASE rows[c + 1].v # NaN
      <3>1. rows[c + 1].v \in Int /\ G[c + 1] = rows[c + 1].v
        <4>1. c + 1 \in f..(c + 1) /\ c + 1 \in 1..len
          BY <1>2
        <4> QED BY <1>2, <2>0, <2>8, <4>1
      <3>2. R!SumOf(G, f, c + 1) = s + rows[c + 1].v
        <4>1. (\A n \in f..c : F[n] \in Int /\ G[n] = F[n]) /\ G[c + 1] \in Int
          BY <2>1, <3>1
        <4>2. R!SumOf(G, f, c + 1) = R!SumOf(F, f, c) + G[c + 1]
          BY <2>3, <4>1, SumGrows
        <4> QED BY <2>2, <3>1, <4>2
      <3>3. R!Mean(f, c + 1) = R!SumOf(G, f, c + 1) \div (m + 1)
        <4>1. ~\E n \in f..(c + 1) : rows[n].v = NaN
          BY <1>4, <1>6, <2>8
        <4> QED BY <1>3, <2>0, <4>1, Zenon DEF R!Mean
      <3>4. add(s, rows[c + 1].v) = s + rows[c + 1].v
        BY <2>5, <3>1, RowsAssumption DEF add
      <3>5. PICK a \in Int : a = s + rows[c + 1].v
        BY <2>5, <3>1
      <3>6. divide(a, m + 1) = a \div (m + 1)
        <4>1. a # NaN /\ m + 1 # 0
          BY RowsAssumption
        <4> QED BY <4>1, Zenon DEF divide
      <3> QED BY <1>3, <2>5, <2>6, <3>2, <3>3, <3>4, <3>5, <3>6, Zenon
    <2> QED BY <2>7, <2>8
  <1> QED BY <1>5, <1>6

LEMMA MeanOfOne ==
    ASSUME rows \in Streams \cup {<<>>}, NEW f \in Nat \ {0}, f \in DOMAIN rows
    PROVE  R!Mean(f, f) = rows[f].v
  <1>1. f \in Nat \ {0} /\ rows[f].v \in Int \cup {NaN} /\ f..f = {f} /\ f - f + 1 = 1
    <2>1. Sorted(rows)
      BY StreamsAreSorted
    <2>2. f \in 1..Len(rows) /\ Len(rows) \in Nat /\ rows[f] \in StreamRow
      BY <2>1, SortedRows
    <2> QED BY <2>2 DEF StreamRow
  <1>2. CASE rows[f].v = NaN
    BY <1>1, <1>2, Zenon DEF R!Mean
  <1>3. CASE rows[f].v # NaN
    <2>0. PICK F : F = [n \in f..f |-> rows[n].v]
      OBVIOUS
    <2>1. R!Mean(f, f) = R!SumOf(F, f, f) \div 1
      BY <1>1, <1>3, <2>0, Zenon DEF R!Mean
    <2>2. F[f] = rows[f].v /\ rows[f].v \in Int
      BY <1>1, <1>3, <2>0
    <2>3. R!SumOf(F, f, f) = rows[f].v
      <3>1. PICK e \in Nat : e = f - 1 /\ f <= e + 1 /\ e + 1 = f
        BY <1>1
      <3>2. \A n \in f..e : F[n] \in Int /\ F[n] = F[n]
        BY <3>1
      <3>3. R!SumOf(F, f, f - 1) = 0
        BY <1>1, SumOfNone
      <3>4. F[e + 1] \in Int
        BY <2>2, <3>1
      <3>5. R!SumOf(F, f, e + 1) = R!SumOf(F, f, e) + F[e + 1]
        BY <1>1, <3>1, <3>2, <3>4, SumGrows
      <3> QED BY <2>2, <3>1, <3>3, <3>5
    <2>4. \A a \in Int : a \div 1 = a
      BY SMT
    <2> QED BY <2>1, <2>2, <2>3, <2>4
  <1> QED BY <1>2, <1>3

(* The late time grows by an interval that is longer than the heart beat.  *)
LEMMA LateTimeGrows ==
    ASSUME Sorted(rows), NEW f \in Nat \ {0}, NEW c \in Nat, f <= c,
           f \in DOMAIN rows, c \in DOMAIN rows, c + 1 \in DOMAIN rows
    PROVE  /\ R!LateTime(f, c + 1) = R!LateTime(f, c) + R!Late(rows[c + 1].t - rows[c].t)
           /\ R!LateTime(f, c) \in Int
  <1>1. PICK len \in Nat : DOMAIN rows = 1..len /\ \A k \in 1..len : rows[k].t \in Nat
    BY SortedRows
  <1>0. PICK F, G : /\ F = [n \in (f + 1)..c |-> R!Late(rows[n].t - rows[n - 1].t)]
                    /\ G = [n \in (f + 1)..(c + 1) |-> R!Late(rows[n].t - rows[n - 1].t)]
    OBVIOUS
  <1>2. \A d \in Int : R!Late(d) \in Int
    BY DEF R!Late
  <1>3. \A n \in (f + 1)..(c + 1) : G[n] \in Int
    <2> SUFFICES ASSUME NEW n \in (f + 1)..(c + 1) PROVE G[n] \in Int
      OBVIOUS
    <2>1. n \in 1..len /\ n - 1 \in 1..len
      BY <1>1
    <2>2. rows[n].t - rows[n - 1].t \in Int
      BY <1>1, <2>1
    <2> QED BY <1>0, <1>2, <2>2
  <1>4. \A n \in (f + 1)..c : n \in (f + 1)..(c + 1)
    BY <1>1
  <1>5. \A n \in (f + 1)..c : G[n] = F[n]
    BY <1>0, <1>4
  <1>6. G[c + 1] = R!Late(rows[c + 1].t - rows[c].t) /\ c + 1 \in (f + 1)..(c + 1)
    <2>1. c + 1 \in (f + 1)..(c + 1) /\ (c + 1) - 1 = c
      BY <1>1
    <2> QED BY <1>0, <2>1
  <1>7. PICK i \in Nat \ {0} : i = f + 1 /\ i <= c + 1 /\ c \in Nat
    BY <1>1
  <1>8. R!LateTime(f, c) = R!SumOf(F, i, c) /\ R!LateTime(f, c + 1) = R!SumOf(G, i, c + 1)
    BY <1>0, <1>7, Zenon DEF R!LateTime
  <1>9. (\A n \in i..c : F[n] \in Int /\ G[n] = F[n]) /\ G[c + 1] \in Int
    BY <1>3, <1>4, <1>5, <1>6, <1>7
  <1>10. R!SumOf(F, i, c) \in Int
    BY <1>7, <1>9, SumInt
  <1>11. R!SumOf(G, i, c + 1) = R!SumOf(F, i, c) + G[c + 1]
    BY <1>7, <1>9, SumGrows
  <1> QED BY <1>6, <1>8, <1>10, <1>11

LEMMA LateTimeOfOne ==
    ASSUME NEW f \in Nat \ {0}
    PROVE  R!LateTime(f, f) = 0
  <1>1. PICK i \in Nat \ {0} : i = f + 1 /\ i - 1 = f
    OBVIOUS
  <1>0. PICK F : F = [n \in (f + 1)..f |-> R!Late(rows[n].t - rows[n - 1].t)]
    OBVIOUS
  <1>2. R!LateTime(f, f) = R!SumOf(F, i, i - 1)
    BY <1>0, <1>1, Zenon DEF R!LateTime
  <1> QED BY <1>1, <1>2, SumOfNone

-----------------------------------------------------------------------------
(* RollUp: where the rows of a step start. *)

LEMMA StepStartAt ==
    ASSUME Sorted(rows), 1 \in DOMAIN rows, NEW k \in Nat
    PROVE  R!StepStart(k + 1) = Base + k * Step /\ R!StepStart(k + 1) \in Nat
  <1>1. ASSUME NEW j PROVE R!StepStart(j) = Base + (j - 1) * Step
    <2>1. R!atStepBoundaryStart(rows[1].t) = Base
      BY Zenon DEF Base, atStepBoundaryStart, R!atStepBoundaryStart
    <2> QED BY <2>1, Zenon DEF R!StepStart
  <1>2. R!StepStart(k + 1) = Base + k * Step
    <2>1. PICK j : j = k + 1 /\ j - 1 = k
      OBVIOUS
    <2> QED BY <1>1, <2>1
  <1>3. k * Step \in Nat /\ Base \in Nat
    BY BaseType, StepArithmetic
  <1> QED BY <1>2, <1>3

LEMMA FirstAtType ==
    ASSUME Sorted(rows), NEW x, NEW k
    PROVE  R!FirstAt(x, k) \in Int
  <1> DEFINE S == {i \in DOMAIN rows : i >= k /\ rows[i].t >= x}
  <1>1. R!FirstAt(x, k) = IF S = {} THEN 0 ELSE R!Min(S)
    BY DEF R!FirstAt
  <1>2. S \subseteq Nat
    BY SortedRows
  <1> HIDE DEF S
  <1>3. CASE S # {}
    <2>1. \E m \in S : \A n \in S : m <= n
      BY <1>2, <1>3, NatLeast
    <2>2. R!Min(S) \in S
      BY <2>1 DEF R!Min
    <2>3. \A a : a \in Nat => a \in Int
      OBVIOUS
    <2> QED BY <1>1, <1>2, <1>3, <2>2, <2>3, Zenon
  <1> QED BY <1>1, <1>3

LEMMA FirstAtIs ==
    ASSUME Sorted(rows), NEW x, NEW k \in Nat \ {0}, NEW j \in Nat, j \in DOMAIN rows, j >= k,
           rows[j].t >= x, \A n \in k..(j - 1) : ~(rows[n].t >= x)
    PROVE  R!FirstAt(x, k) = j
  <1> DEFINE S == {i \in DOMAIN rows : i >= k /\ rows[i].t >= x}
  <1>1. R!FirstAt(x, k) = IF S = {} THEN 0 ELSE R!Min(S)
    BY DEF R!FirstAt
  <1>2. S \subseteq Nat /\ j \in S
    BY SortedRows
  <1>3. \A n \in S : j <= n
    <2> SUFFICES ASSUME NEW n \in S, n < j PROVE FALSE
      BY <1>2
    <2>1. n \in k..(j - 1)
      BY <1>2
    <2> QED BY <2>1
  <1> HIDE DEF S
  <1>4. R!Min(S) = j
    <2>1. \A m \in S : (\A n \in S : m <= n) => m = j
      BY <1>2, <1>3
    <2> QED BY <1>2, <1>3, <2>1 DEF R!Min
  <1> QED BY <1>1, <1>2, <1>4

LEMMA FirstAtNone ==
    ASSUME NEW x, NEW k, \A n \in DOMAIN rows : n >= k => ~(rows[n].t >= x)
    PROVE  R!FirstAt(x, k) = 0
  BY DEF R!FirstAt

LEMMA FirstAtSome ==
    ASSUME Sorted(rows), NEW x, NEW k, R!FirstAt(x, k) # 0
    PROVE  R!FirstAt(x, k) \in DOMAIN rows /\ R!FirstAt(x, k) >= k
  <1> DEFINE S == {i \in DOMAIN rows : i >= k /\ rows[i].t >= x}
  <1>1. R!FirstAt(x, k) = IF S = {} THEN 0 ELSE R!Min(S)
    BY DEF R!FirstAt
  <1>2. S \subseteq Nat /\ \A i \in S : i \in DOMAIN rows /\ i >= k
    BY SortedRows
  <1> HIDE DEF S
  <1>3. S # {}
    BY <1>1
  <1>4. \E m \in S : \A n \in S : m <= n
    BY <1>2, <1>3, NatLeast
  <1>5. R!Min(S) \in S
    BY <1>4 DEF R!Min
  <1> QED BY <1>1, <1>2, <1>3, <1>5

LEMMA FirstAfterType ==
    ASSUME Sorted(rows), NEW k, NEW f
    PROVE  R!FirstAfter(k, f) \in Int
  <1>1. PICK i \in Int : i = R!FirstAt(R!StepStart(k), f + 1)
    BY FirstAtType
  <1>2. R!FirstAfter(k, f) = IF rows[i].t > R!StepStart(k + 1) THEN i - 1 ELSE i
    BY <1>1, Zenon DEF R!FirstAfter
  <1> QED BY <1>2

FirstBody(s, k) == [n \in 1..k |-> IF n = 1 THEN 1 ELSE R!FirstAfter(n, s[n - 1])]

LEMMA FirstSolved ==
    ASSUME Sorted(rows), NEW k \in Nat \ {0}
    PROVE  \E s : s = FirstBody(s, k) /\ R!FirstOf(k) = s[k]
  <1> DEFINE step == [p \in Nat \X Int |-> R!FirstAfter(p[1] + 1, p[2])]
  <1>1. step \in [Nat \X Int -> Int]
    BY FirstAfterType
  <1> HIDE DEF step
  <1>2. PICK len \in Nat : len = k - 1
    OBVIOUS
  <1>3. PICK h \in [0..len -> Int] : Recursive(h, 1, step, len)
    <2> DEFINE S == Int
    <2>1. 1 \in S /\ step \in [Nat \X S -> S]
      BY <1>1
    <2> HIDE DEF S
    <2>2. \E h \in [0..len -> S] : Recursive(h, 1, step, len)
      BY <2>1, RecursionExists
    <2> QED BY <2>2 DEF S
  <1> DEFINE s == [n \in 1..k |-> h[n - 1]]
  <1>4. s = FirstBody(s, k)
    <2> SUFFICES ASSUME NEW n \in 1..k
                 PROVE  s[n] = IF n = 1 THEN 1 ELSE R!FirstAfter(n, s[n - 1])
      BY DEF FirstBody
    <2>1. CASE n = 1
      BY <1>3, <2>1 DEF Recursive
    <2>2. CASE n # 1
      <3>1. PICK m \in Nat : m = n - 1 /\ m + 1 = n /\ m \in 1..len /\ m \in 1..k /\ m - 1 \in 0..len
        BY <1>2, <2>2
      <3>2. s[n] = h[m] /\ s[m] = h[m - 1]
        BY <3>1
      <3>3. h[m] = step[<<m, h[m - 1]>>] /\ h[m - 1] \in Int
        BY <1>3, <3>1 DEF Recursive
      <3> HIDE DEF s
      <3>4. step[<<m, h[m - 1]>>] = R!FirstAfter(m + 1, h[m - 1])
        BY <3>3 DEF step
      <3> QED BY <2>2, <3>1, <3>2, <3>3, <3>4
    <2> QED BY <2>1, <2>2
  <1> DEFINE c == CHOOSE x : x = FirstBody(x, k)
  <1> HIDE DEF s
  <1>5. c = FirstBody(c, k)
    BY <1>4
  <1>6. R!FirstOf(k) = c[k]
    BY DEF R!FirstOf, FirstBody
  <1> QED BY <1>5, <1>6

LEMMA FirstOfFirst ==
    ASSUME Sorted(rows)
    PROVE  R!FirstOf(1) = 1
  <1>1. PICK s : s = FirstBody(s, 1) /\ R!FirstOf(1) = s[1]
    BY FirstSolved
  <1>2. s[1] = 1
    BY <1>1 DEF FirstBody
  <1> QED BY <1>1, <1>2

(* Each step starts after the one before it.                               *)
LEMMA FirstOfNext ==
    ASSUME Sorted(rows), NEW k \in Nat \ {0}
    PROVE  R!FirstOf(k + 1) = R!FirstAfter(k + 1, R!FirstOf(k))
  <1>1. PICK s : s = FirstBody(s, k) /\ R!FirstOf(k) = s[k]
    BY FirstSolved
  <1>2. PICK u : u = FirstBody(u, k + 1) /\ R!FirstOf(k + 1) = u[k + 1]
    BY FirstSolved
  <1>3. \A n \in 1..k : s[n] = IF n = 1 THEN 1 ELSE R!FirstAfter(n, s[n - 1])
    BY <1>1 DEF FirstBody
  <1>4. \A n \in 1..(k + 1) : u[n] = IF n = 1 THEN 1 ELSE R!FirstAfter(n, u[n - 1])
    BY <1>2 DEF FirstBody
  <1> DEFINE T == {m \in Nat : m + 1 <= k => s[m + 1] = u[m + 1]}
  <1>5. 0 \in T
    <2>1. 0 + 1 = 1 /\ 1 \in 1..k /\ 1 \in 1..(k + 1)
      OBVIOUS
    <2> QED BY <1>3, <1>4, <2>1
  <1>6. ASSUME NEW m \in Nat, m \in T PROVE m + 1 \in T
    <2> SUFFICES ASSUME m + 1 + 1 <= k PROVE s[m + 1 + 1] = u[m + 1 + 1]
      OBVIOUS
    <2>1. PICK n : n = m + 1 + 1
      OBVIOUS
    <2>2. n \in 1..k /\ n \in 1..(k + 1) /\ n # 1 /\ n - 1 = m + 1 /\ m + 1 <= k
      BY <2>1
    <2>3. s[n - 1] = u[n - 1]
      BY <1>6, <2>2
    <2>4. s[n] = R!FirstAfter(n, s[n - 1]) /\ u[n] = R!FirstAfter(n, u[n - 1])
      BY <1>3, <1>4, <2>2
    <2> QED BY <2>1, <2>3, <2>4
  <1> HIDE DEF T
  <1>7. k - 1 \in T
    <2>1. k - 1 \in Nat
      OBVIOUS
    <2> QED BY <1>5, <1>6, <2>1, SetInduction
  <1>8. s[k] = u[k]
    <2>1. (k - 1) + 1 = k /\ k <= k
      OBVIOUS
    <2> QED BY <1>7, <2>1 DEF T
  <1>9. u[k + 1] = R!FirstAfter(k + 1, u[k])
    <2>1. k + 1 \in 1..(k + 1) /\ k + 1 # 1 /\ (k + 1) - 1 = k
      OBVIOUS
    <2> QED BY <1>4, <2>1
  <1> QED BY <1>1, <1>2, <1>8, <1>9

-----------------------------------------------------------------------------
(* RollUp: nothing that the rows define changes. *)

StepAfterStep ==
    Sorted(rows) => /\ R!FirstOf(1) = 1
                    /\ \A k \in Nat \ {0} : \A f :
                          f = R!FirstOf(k) => R!FirstOf(k + 1) = R!FirstAfter(k + 1, f)

LEMMA FirstOfSteps == StepAfterStep
  BY FirstOfFirst, FirstOfNext DEF StepAfterStep

LEMMA FirstAfterStays ==
    ASSUME rows' = rows, NEW k, NEW f
    PROVE  R!FirstAfter(k, f)' = R!FirstAfter(k, f)
  <1>1. \A j : R!StepStart(j)' = R!StepStart(j)
    BY Zenon DEF R!StepStart, R!atStepBoundaryStart
  <1>2. \A x, j : R!FirstAt(x, j)' = R!FirstAt(x, j)
    BY DEF R!FirstAt
  <1> QED BY <1>1, <1>2 DEF R!FirstAfter

LEMMA FirstOfStays ==
    ASSUME Sorted(rows), rows' = rows, NEW k \in Nat \ {0}
    PROVE  R!FirstOf(k)' = R!FirstOf(k)
  <1>1. Sorted(rows)
    OBVIOUS
  <1>2. Sorted(rows)'
    BY Zenon DEF Sorted
  <1>3. StepAfterStep /\ StepAfterStep'
    BY FirstOfSteps, PTL
  <1>4. /\ R!FirstOf(1)' = 1
        /\ \A j \in Nat \ {0} : \A f :
              f = R!FirstOf(j)' => R!FirstOf(j + 1)' = R!FirstAfter(j + 1, f)'
    BY <1>2, <1>3 DEF StepAfterStep
  <1> DEFINE T == {m \in Nat : R!FirstOf(m + 1)' = R!FirstOf(m + 1)}
  <1>5. 0 \in T
    <2>1. 0 + 1 = 1
      OBVIOUS
    <2> QED BY <1>3, <1>4, <2>1 DEF StepAfterStep
  <1>6. ASSUME NEW m \in Nat, m \in T PROVE m + 1 \in T
    <2>1. PICK j \in Nat \ {0} : j = m + 1
      OBVIOUS
    <2>2. PICK f : f = R!FirstOf(j) /\ f = R!FirstOf(j)'
      BY <1>6, <2>1
    <2>3. R!FirstOf(j + 1)' = R!FirstAfter(j + 1, f)'
      BY <1>4, <2>2
    <2>4. R!FirstOf(j + 1) = R!FirstAfter(j + 1, f)
      BY <1>3, <2>2 DEF StepAfterStep
    <2>5. R!FirstOf(j + 1)' = R!FirstOf(j + 1)
      BY <2>3, <2>4, FirstAfterStays
    <2> QED BY <2>1, <2>5
  <1> HIDE DEF T
  <1>7. k - 1 \in T
    <2>1. k - 1 \in Nat
      OBVIOUS
    <2> QED BY <1>5, <1>6, <2>1, SetInduction
  <1>8. k - 1 + 1 = k
    OBVIOUS
  <1> QED BY <1>7, <1>8 DEF T

LEMMA DefinedStays ==
    ASSUME Sorted(rows), rows' = rows, NEW k \in Nat \ {0}
    PROVE  R!Defined(k)' = R!Defined(k)
  <1>1. R!FirstOf(k)' = R!FirstOf(k)
    BY FirstOfStays
  <1>2. \A j : R!StepStart(j)' = R!StepStart(j)
    BY Zenon DEF R!StepStart, R!atStepBoundaryStart
  <1>3. \A x, j : R!FirstAt(x, j)' = R!FirstAt(x, j)
    BY DEF R!FirstAt
  <1>4. R!LastOf(k)' = R!LastOf(k)
    BY <1>1, <1>2, <1>3, Zenon DEF R!LastOf
  <1>5. \A i, j : R!Mean(i, j)' = R!Mean(i, j)
    BY DEF R!Mean
  <1>6. \A i, j : R!LateTime(i, j)' = R!LateTime(i, j)
    BY DEF R!LateTime
  <1> QED BY <1>1, <1>2, <1>4, <1>5, <1>6 DEF R!Defined

-----------------------------------------------------------------------------
(* RollUp: a data point averages the rows of its step. *)

(* The data point in hand, that of step k, has the first row of the step   *)
(* and all rows after it up to row c, none of them at or after the end.    *)
Averages(k, c, pdp) ==
    /\ c \in DOMAIN rows /\ R!FirstOf(k) \in 1..c
    /\ pdp.finish = R!StepStart(k + 1)
    /\ pdp.rowCount = c - R!FirstOf(k) + 1
    /\ pdp.prevAveraged = [t |-> rows[c].t, v |-> R!Mean(R!FirstOf(k), c)]
    /\ pdp.unknown = ToInt(R!LateTime(R!FirstOf(k), c))
    /\ \A n \in (R!FirstOf(k) + 1)..c : rows[n].t < pdp.finish

LEMMA NewAverages ==
    ASSUME rows \in Streams \cup {<<>>}, NEW k \in Nat \ {0}, NEW f \in Nat \ {0},
           f \in DOMAIN rows, R!FirstOf(k) = f, NEW floor, floor + Step = R!StepStart(k + 1)
    PROVE  Averages(k, f, R!NewPdp(floor, rows[f]))
  <1>1. PICK pdp : pdp = R!NewPdp(floor, rows[f])
    OBVIOUS
  <1>2. pdp = [finish |-> R!StepStart(k + 1), prevAveraged |-> rows[f], rowCount |-> 1, unknown |-> 0]
    BY <1>1, Zenon DEF R!NewPdp, R!nextStep
  <1>3. rows[f] = [t |-> rows[f].t, v |-> R!Mean(f, f)]
    <2>1. rows[f] \in StreamRow
      BY StreamsAreSorted, SortedRows
    <2>2. rows[f] = [t |-> rows[f].t, v |-> rows[f].v]
      BY <2>1 DEF StreamRow
    <2> QED BY <2>2, MeanOfOne, Zenon
  <1>4. ToInt(R!LateTime(f, f)) = 0
    BY LateTimeOfOne, ZeroFits
  <1>5. f \in 1..f /\ f - f + 1 = 1 /\ (f + 1)..f = {}
    OBVIOUS
  <1>6. Averages(k, f, pdp)
    <2>1. /\ pdp.finish = R!StepStart(k + 1) /\ pdp.rowCount = 1 /\ pdp.prevAveraged = rows[f]
          /\ pdp.unknown = 0
      BY <1>2
    <2> QED BY <1>3, <1>4, <1>5, <2>1 DEF Averages
  <1> QED BY <1>1, <1>6

(* One row more of the average and of the late time.                       *)
LEMMA AveragedNext ==
    ASSUME AveragesExact, rows \in Streams \cup {<<>>}, NEW k \in Nat \ {0},
           NEW c, NEW pdp \in Pdps, Averages(k, c, pdp), c + 1 \in DOMAIN rows
    PROVE  /\ R!Averaged(pdp, rows[c + 1])
                = [t |-> rows[c + 1].t, v |-> R!Mean(R!FirstOf(k), c + 1)]
           /\ R!Unknown(pdp, rows[c + 1]) = ToInt(R!LateTime(R!FirstOf(k), c + 1))
           /\ R!FirstOf(k) \in Nat \ {0} /\ c \in Nat /\ R!FirstOf(k) <= c
  <1>1. PICK f, r : f = R!FirstOf(k) /\ r = rows[c + 1]
    OBVIOUS
  <1>2. PICK len \in Nat : Sorted(rows) /\ DOMAIN rows = 1..len
    BY StreamsAreSorted, SortedRows
  <1>3. f \in Nat \ {0} /\ c \in Nat /\ f <= c /\ f \in DOMAIN rows /\ c \in DOMAIN rows
    BY <1>1, <1>2 DEF Averages
  <1>4. /\ pdp.rowCount = c - f + 1 /\ pdp.unknown = ToInt(R!LateTime(f, c))
        /\ pdp.prevAveraged.v = R!Mean(f, c) /\ pdp.prevAveraged.t = rows[c].t
    BY <1>1 DEF Averages
  <1>5. R!Averaged(pdp, r) = [t |-> r.t, v |-> R!Mean(f, c + 1)]
    <2>1. R!Averaged(pdp, r)
             = [t |-> r.t,
                v |-> divide(add(multiply(pdp.prevAveraged.v, pdp.rowCount), r.v), pdp.rowCount + 1)]
      BY Zenon DEF R!Averaged, R!divide, R!add, R!multiply, divide, add, multiply
    <2>2. divide(add(multiply(R!Mean(f, c), c - f + 1), r.v), (c - f + 1) + 1) = R!Mean(f, c + 1)
      BY <1>1, <1>2, <1>3, MeanGrows
    <2> QED BY <1>4, <2>1, <2>2, Zenon
  <1>6. R!Unknown(pdp, r) = ToInt(R!LateTime(f, c + 1))
    <2>1. PICK late \in Int, d \in Int :
             /\ late = R!LateTime(f, c) /\ d = r.t - rows[c].t
             /\ R!LateTime(f, c + 1) = late + R!Late(d)
      <3>1. r.t - rows[c].t \in Int
        BY <1>1, <1>2, <1>3, SortedRows
      <3> QED BY <1>1, <1>2, <1>3, <3>1, LateTimeGrows
    <2>2. CASE d > HeartBeat
      <3>1. R!Unknown(pdp, r) = ToInt(ToInt(late) + d)
        BY <1>4, <2>1, <2>2, SameInt, Zenon DEF R!Unknown
      <3>2. R!LateTime(f, c + 1) = late + d
        BY <2>1, <2>2, Zenon DEF R!Late
      <3> QED BY <3>1, <3>2, ToIntAdds
    <2>3. CASE ~(d > HeartBeat)
      <3>1. R!Unknown(pdp, r) = ToInt(late)
        BY <1>4, <2>1, <2>3, Zenon DEF R!Unknown
      <3>2. R!LateTime(f, c + 1) = late
        <4>1. R!Late(d) = 0
          BY <2>3, Zenon DEF R!Late
        <4> QED BY <2>1, <4>1
      <3> QED BY <3>1, <3>2
    <2> QED BY <2>2, <2>3
  <1> QED BY <1>1, <1>3, <1>5, <1>6

LEMMA AccumulatedAverages ==
    ASSUME AveragesExact, rows \in Streams \cup {<<>>}, NEW k \in Nat \ {0},
           NEW c, NEW pdp \in Pdps, Averages(k, c, pdp), c + 1 \in DOMAIN rows,
           rows[c + 1].t < pdp.finish
    PROVE  Averages(k, c + 1, R!Accumulated(pdp, rows[c + 1]))
  <1>1. PICK f, j, r : f = R!FirstOf(k) /\ j = c + 1 /\ r = rows[j]
    OBVIOUS
  <1>2. /\ R!Averaged(pdp, r) = [t |-> r.t, v |-> R!Mean(f, j)]
        /\ R!Unknown(pdp, r) = ToInt(R!LateTime(f, j))
        /\ f \in Nat \ {0} /\ c \in Nat /\ f <= c
    BY <1>1, AveragedNext
  <1>3. PICK acc : acc = R!Accumulated(pdp, r)
    OBVIOUS
  <1>4. PICK a, u : a = R!Averaged(pdp, r) /\ u = R!Unknown(pdp, r)
    OBVIOUS
  <1>5. acc = [pdp EXCEPT !.prevAveraged = a, !.rowCount = @ + 1, !.unknown = u]
    BY <1>3, <1>4, Zenon DEF R!Accumulated
  <1>6. /\ acc.prevAveraged = a /\ acc.rowCount = pdp.rowCount + 1 /\ acc.unknown = u
        /\ acc.finish = pdp.finish
    <2> HIDE DEF StreamRow
    <2> QED BY <1>5 DEF Pdps
  <1>7. acc.rowCount = j - f + 1
    <2>1. pdp.rowCount = c - f + 1
      BY <1>1 DEF Averages
    <2> QED BY <1>1, <1>2, <1>6, <2>1
  <1>8. \A n \in (f + 1)..j : rows[n].t < acc.finish
    <2>1. \A n \in (f + 1)..j : n \in (f + 1)..c \/ n = j
      BY <1>1, <1>2
    <2>2. \A n \in (f + 1)..c : rows[n].t < pdp.finish
      BY <1>1 DEF Averages
    <2> QED BY <1>1, <1>6, <2>1, <2>2
  <1>9. f \in 1..j /\ acc.finish = R!StepStart(k + 1) /\ j \in DOMAIN rows
    <2>1. f \in 1..j
      BY <1>1, <1>2
    <2> QED BY <1>1, <1>6, <2>1 DEF Averages
  <1>10. Averages(k, j, acc)
    BY <1>1, <1>2, <1>4, <1>6, <1>7, <1>8, <1>9 DEF Averages
  <1> QED BY <1>1, <1>3, <1>10

(* The row that ends a step: the data point is what the rows of the step   *)
(* define, and the next one starts with the right row.                     *)
LEMMA ReturnedAsDefined ==
    ASSUME AveragesExact, rows \in Streams \cup {<<>>}, NEW k \in Nat \ {0},
           NEW c, NEW pdp \in Pdps, Averages(k, c, pdp), c + 1 \in DOMAIN rows,
           ~(rows[c + 1].t < pdp.finish)
    PROVE  /\ R!DataPoint(pdp, rows[c + 1]) = R!Defined(k)
           /\ R!FirstOf(k + 1) = IF rows[c + 1].t > R!StepStart(k + 2) THEN c ELSE c + 1
  <1>1. PICK f, j, r : f = R!FirstOf(k) /\ j = c + 1 /\ r = rows[j]
    OBVIOUS
  <1>2. /\ R!Averaged(pdp, r) = [t |-> r.t, v |-> R!Mean(f, j)]
        /\ R!Unknown(pdp, r) = ToInt(R!LateTime(f, j))
        /\ f \in Nat \ {0} /\ c \in Nat /\ f <= c
    BY <1>1, AveragedNext
  <1>3. /\ pdp.finish = R!StepStart(k + 1)
        /\ pdp.prevAveraged = [t |-> rows[c].t, v |-> R!Mean(f, c)]
        /\ \A n \in (f + 1)..c : rows[n].t < pdp.finish
    BY <1>1 DEF Averages
  <1>4. Sorted(rows)
    BY StreamsAreSorted
  <1>5. R!FirstAt(R!StepStart(k + 1), f + 1) = j
    <2>1. PICK x \in Nat : x = pdp.finish
      BY DEF Pdps
    <2>2. \A n \in DOMAIN rows : rows[n].t \in Nat
      BY <1>4, SortedRows
    <2>3. j \in DOMAIN rows /\ j \in Nat /\ j - 1 = c /\ f + 1 \in Nat \ {0} /\ j >= f + 1
      BY <1>1, <1>2
    <2>4. rows[j].t >= x
      BY <1>1, <2>1, <2>2, <2>3
    <2>5. \A n \in (f + 1)..(j - 1) : ~(rows[n].t >= x)
      <3> SUFFICES ASSUME NEW n \in (f + 1)..c PROVE ~(rows[n].t >= x)
        BY <2>3
      <3>1. n \in DOMAIN rows
        <4>1. PICK len \in Nat : DOMAIN rows = 1..len
          BY <1>4, SortedRows
        <4> QED BY <1>2, <2>3, <4>1
      <3> QED BY <1>3, <2>1, <2>2, <3>1
    <2>6. R!FirstAt(x, f + 1) = j
      BY <1>4, <2>3, <2>4, <2>5, FirstAtIs
    <2> QED BY <1>3, <2>1, <2>6
  <1>6. R!LastOf(k) = j
    BY <1>1, <1>5, Zenon DEF R!LastOf
  <1>7. R!DataPoint(pdp, r) = R!Defined(k)
    <2>1. j # 0 /\ j - 1 = c
      BY <1>1, <1>2
    <2>2. PICK p, late, half :
             /\ p = R!interpolate(R!StepStart(k + 1), [t |-> rows[c].t, v |-> R!Mean(f, c)],
                                                     [t |-> rows[j].t, v |-> R!Mean(f, j)])
             /\ late = ToInt(R!LateTime(f, j)) /\ half = Step \div 2
      OBVIOUS
    <2>3. /\ R!DataPoint(pdp, r) = IF late <= half THEN p ELSE NaN
          /\ R!Defined(k) = IF late > half THEN NaN ELSE p
      <3>1. R!DataPoint(pdp, r) = IF late <= half THEN p ELSE NaN
        BY <1>1, <1>2, <1>3, <2>2, Zenon DEF R!DataPoint
      <3>2. R!Defined(k) = IF late > half THEN NaN ELSE p
        BY <1>1, <1>6, <2>1, <2>2, SameInt, Zenon DEF R!Defined
      <3> QED BY <3>1, <3>2
    <2>4. ToInt(R!LateTime(f, j)) \in Int /\ Step \div 2 \in Int
      <3>1. f \in DOMAIN rows /\ c \in DOMAIN rows
        <4>1. PICK len \in Nat : DOMAIN rows = 1..len
          BY <1>4, SortedRows
        <4> QED BY <1>1, <1>2, <4>1
      <3>2. R!LateTime(f, j) = R!LateTime(f, c) + R!Late(rows[c + 1].t - rows[c].t)
            /\ R!LateTime(f, c) \in Int
        BY <1>1, <1>2, <1>4, <3>1, LateTimeGrows
      <3>3. rows[c + 1].t - rows[c].t \in Int
        BY <1>4, <3>1, SortedRows
      <3>4. R!Late(rows[c + 1].t - rows[c].t) \in Int
        BY <3>3 DEF R!Late
      <3>5. R!LateTime(f, j) \in Int
        BY <3>2, <3>4
      <3>6. ToInt(R!LateTime(f, j)) \in Int
        BY <3>5, ToIntRange
      <3> QED BY <3>6, RowsAssumption
    <2>5. late <= half <=> ~(late > half)
      BY <2>2, <2>4
    <2> QED BY <2>3, <2>5
  <1>8. R!FirstOf(k + 1) = IF rows[j].t > R!StepStart(k + 2) THEN c ELSE j
    <2>1. R!FirstOf(k + 1) = R!FirstAfter(k + 1, f)
      BY <1>1, <1>4, FirstOfNext
    <2>2. k + 1 + 1 = k + 2 /\ j - 1 = c
      BY <1>1, <1>2
    <2> QED BY <1>5, <2>1, <2>2, Zenon DEF R!FirstAfter
  <1> QED BY <1>1, <1>7, <1>8

(* The stream ends within a step: nothing is known of it.                  *)
LEMMA ExhaustedAsDefined ==
    ASSUME Sorted(rows), NEW k \in Nat \ {0}, NEW pdp \in Pdps, Averages(k, Len(rows), pdp)
    PROVE  R!Defined(k) = NaN
  <1>1. PICK f, len : f = R!FirstOf(k) /\ len = Len(rows) /\ len \in Nat /\ DOMAIN rows = 1..len
    BY SortedRows
  <1>2. PICK x \in Nat : x = pdp.finish
    BY DEF Pdps
  <1>3. f \in 1..len /\ x = R!StepStart(k + 1) /\ \A n \in (f + 1)..len : rows[n].t < x
    BY <1>1, <1>2 DEF Averages
  <1>4. R!FirstAt(x, f + 1) = 0
    <2> SUFFICES ASSUME NEW n \in DOMAIN rows, n >= f + 1 PROVE ~(rows[n].t >= x)
      BY FirstAtNone
    <2>1. n \in (f + 1)..len
      BY <1>1, <1>3
    <2>2. rows[n].t \in Nat /\ rows[n].t < x
      BY <1>3, <2>1, SortedRows
    <2> QED BY <2>2
  <1>5. R!LastOf(k) = 0
    BY <1>1, <1>3, <1>4, Zenon DEF R!LastOf
  <1> QED BY <1>5, Zenon DEF R!Defined

-----------------------------------------------------------------------------
(* RollUp: each data point is the one defined. *)

(* The last row that the data point in hand has.                           *)
LastAdded ==
    LET i == Len(rows) - Len(rest)
    IN  IF m_currRow.t > m_currPdp.finish THEN i - 1 ELSE i

(* Every data point is what the rows of its step define, from one of the   *)
(* stream on.                                                              *)
PointsAsDefined ==
    \A k \in DOMAIN rolledUp : rolledUp[k].v = R!Defined(k) /\ R!FirstOf(k) \in DOMAIN rows

PointInHand ==
    \E pdp : \E k \in Nat \ {0}, c \in DOMAIN rows :
       /\ k = Len(rolledUp) + 1 /\ c = LastAdded /\ pdp = m_currPdp
       /\ Averages(k, c, pdp)

AverageInv ==
    /\ PointsAsDefined
    /\ (processor = "RollUp" /\ (pc = "looping" \/ (pc = "idle" /\ rest # <<>>))) => PointInHand

LEMMA AveragesStay ==
    ASSUME Sorted(rows), rows' = rows, NEW k \in Nat \ {0}, NEW c, NEW pdp, Averages(k, c, pdp)
    PROVE  Averages(k, c, pdp)'
  <1>1. PICK f : f = R!FirstOf(k) /\ f = R!FirstOf(k)'
    BY FirstOfStays
  <1>2. \A j : R!StepStart(j)' = R!StepStart(j)
    BY Zenon DEF R!StepStart, R!atStepBoundaryStart
  <1>3. \A i, j : R!Mean(i, j)' = R!Mean(i, j)
    BY DEF R!Mean
  <1>4. \A i, j : R!LateTime(i, j)' = R!LateTime(i, j)
    BY DEF R!LateTime
  <1>5. /\ c \in DOMAIN rows /\ f \in 1..c
        /\ pdp.finish = R!StepStart(k + 1)
        /\ pdp.rowCount = c - f + 1
        /\ pdp.prevAveraged = [t |-> rows[c].t, v |-> R!Mean(f, c)]
        /\ pdp.unknown = ToInt(R!LateTime(f, c))
        /\ \A n \in (f + 1)..c : rows[n].t < pdp.finish
    BY <1>1, Zenon DEF Averages
  <1>6. /\ c \in DOMAIN rows' /\ f \in 1..c
        /\ pdp.finish = R!StepStart(k + 1)'
        /\ pdp.rowCount = c - f + 1
        /\ pdp.prevAveraged = [t |-> rows'[c].t, v |-> R!Mean(f, c)']
        /\ pdp.unknown = ToInt(R!LateTime(f, c)')
        /\ \A n \in (f + 1)..c : rows'[n].t < pdp.finish
    BY <1>2, <1>3, <1>4, <1>5, Zenon
  <1>7. R!Mean(f, c)' = R!Mean(R!FirstOf(k), c)' /\ R!LateTime(f, c)' = R!LateTime(R!FirstOf(k), c)'
    BY <1>1 DEF R!Mean, R!LateTime
  <1> QED BY <1>1, <1>6, <1>7, Zenon DEF Averages

(* A data point more, after those that were as defined.                    *)
LEMMA OnePointMore ==
    ASSUME Sorted(rows), rows' = rows, rolledUp \in Seq(StreamRow), PointsAsDefined,
           NEW t \in Nat, NEW v \in Int \cup {NaN}, v = R!Defined(Len(rolledUp) + 1),
           R!FirstOf(Len(rolledUp) + 1) \in DOMAIN rows,
           rolledUp' = Append(rolledUp, [t |-> t, v |-> v])
    PROVE  PointsAsDefined' /\ Len(rolledUp') = Len(rolledUp) + 1
  <1>1. PICK e : e = [t |-> t, v |-> v]
    OBVIOUS
  <1>2. e \in StreamRow /\ e.v = v /\ rolledUp' = Append(rolledUp, e)
    BY <1>1 DEF StreamRow
  <1> HIDE DEF StreamRow
  <1>3. PICK n \in Nat : n = Len(rolledUp) /\ DOMAIN rolledUp = 1..n
    OBVIOUS
  <1>4. /\ DOMAIN rolledUp' = 1..(n + 1) /\ Len(rolledUp') = n + 1
        /\ rolledUp'[n + 1] = e /\ \A k \in 1..n : rolledUp'[k] = rolledUp[k]
    BY <1>2, <1>3, AppendElements
  <1>5. ASSUME NEW k \in DOMAIN rolledUp'
        PROVE  rolledUp'[k].v = R!Defined(k)' /\ R!FirstOf(k)' \in DOMAIN rows'
    <2>1. k \in Nat \ {0} /\ (k \in 1..n \/ k = n + 1)
      BY <1>4
    <2>2. R!Defined(k)' = R!Defined(k) /\ R!FirstOf(k)' = R!FirstOf(k)
      BY <2>1, DefinedStays, FirstOfStays
    <2>3. rolledUp'[k].v = R!Defined(k) /\ R!FirstOf(k) \in DOMAIN rows
      <3>1. CASE k \in 1..n
        BY <1>3, <1>4, <3>1, Zenon DEF PointsAsDefined
      <3>2. CASE k = n + 1
        BY <1>2, <1>3, <1>4, <3>2, Zenon
      <3> QED BY <2>1, <3>1, <3>2
    <2> QED BY <2>2, <2>3, Zenon
  <1>6. PointsAsDefined'
    BY <1>5, Zenon DEF PointsAsDefined
  <1> QED BY <1>3, <1>4, <1>6

LEMMA AddSamplesAverages ==
    ASSUME AveragesExact, rows \in Streams \cup {<<>>}, rows' = rows,
           processor = "RollUp", processor' = processor, RollInv',
           rolledUp \in Seq(StreamRow), PointsAsDefined,
           NEW c \in Nat \ {0}, c + 1 \in DOMAIN rows,
           NEW floor \in Nat, NEW pdp \in Pdps, pdp.finish = floor + Step,
           NEW k \in Nat \ {0}, k = Len(rolledUp) + 1, Averages(k, c, pdp),
           R!AddSamples(rows[c], rows[c + 1], floor, pdp)
    PROVE  AverageInv'
  <1>1. Sorted(rows)
    BY StreamsAreSorted
  <1>2. PICK j, prev, curr : j = c + 1 /\ prev = rows[c] /\ curr = rows[j]
    OBVIOUS
  <1>3. PICK len \in Nat : len = Len(rows) /\ DOMAIN rows = 1..len
    BY <1>1, SortedRows
  <1>4. /\ c \in DOMAIN rows /\ j \in DOMAIN rows /\ j \in Nat /\ 1 \in DOMAIN rows
        /\ prev.t \in Nat /\ curr.t \in Nat
    <2>1. c \in DOMAIN rows /\ j \in DOMAIN rows /\ j \in Nat /\ 1 \in DOMAIN rows
      BY <1>2, <1>3
    <2> QED BY <1>1, <1>2, <2>1, SortedRows
  <1>5. /\ m_currRow' = curr /\ pc' \in {"idle", "looping"}
    BY <1>2, Zenon DEF R!AddSamples
  <1>6. Len(rows') - Len(rest') = j
    <2>1. PICK i : i \in DOMAIN rows' /\ RollAt(i)'
      BY <1>5, Zenon DEF RollInv, RollPlace
    <2>2. rows[i] = rows[j] /\ Len(rest') = Len(rows') - i /\ i \in DOMAIN rows
      BY <1>2, <1>5, <2>1, Zenon DEF RollAt
    <2>3. i = j
      <3>1. i \in Nat /\ ~(i < j) /\ ~(j < i)
        <4>1. i \in Nat
          BY <1>3, <2>2
        <4>2. i < j => rows[i].t < rows[j].t
          BY <1>1, <1>4, <2>2, SortedRows
        <4>3. j < i => rows[j].t < rows[i].t
          BY <1>1, <1>4, <2>2, SortedRows
        <4> QED BY <1>2, <1>4, <2>2, <4>1, <4>2, <4>3
      <3> QED BY <1>4, <3>1
    <2> QED BY <1>3, <1>4, <2>2, <2>3
  <1>7. pdp.finish = R!StepStart(k + 1)
    BY Zenon DEF Averages
  <1>8. CASE curr.t < pdp.finish
    <2>1. /\ m_currPdp' = R!Accumulated(pdp, curr) /\ rolledUp' = rolledUp
      BY <1>2, <1>8, Zenon DEF R!AddSamples
    <2>2. Averages(k, j, R!Accumulated(pdp, curr))
      BY <1>2, <1>8, AccumulatedAverages
    <2>3. PICK acc : acc = m_currPdp' /\ acc = R!Accumulated(pdp, curr)
      BY <2>1
    <2>4. Averages(k, j, acc)'
      BY <1>1, <2>2, <2>3, AveragesStay
    <2>5. acc.finish = pdp.finish
      <3>1. acc.finish = R!StepStart(k + 1)
        BY <2>2, <2>3, Zenon DEF Averages
      <3> QED BY <1>7, <3>1
    <2>6. LastAdded' = j
      <3>1. ~(m_currRow'.t > m_currPdp'.finish)
        <4>1. PICK x \in Nat : x = pdp.finish
          BY DEF Pdps
        <4>2. PICK t \in Nat : t = curr.t
          BY <1>4
        <4>3. t < x => ~(t > x)
          OBVIOUS
        <4> QED BY <1>5, <1>8, <2>3, <2>5, <4>1, <4>2, <4>3, Zenon
      <3> QED BY <1>6, <3>1, Zenon DEF LastAdded
    <2>7. PointInHand'
      BY <1>4, <2>1, <2>3, <2>4, <2>6, Zenon DEF PointInHand
    <2>8. PointsAsDefined'
      <3>1. ASSUME NEW n \in DOMAIN rolledUp
            PROVE  rolledUp[n].v = R!Defined(n)' /\ R!FirstOf(n)' \in DOMAIN rows'
        <4>1. n \in Nat \ {0}
          OBVIOUS
        <4>2. R!Defined(n)' = R!Defined(n) /\ R!FirstOf(n)' = R!FirstOf(n)
          BY <1>1, <4>1, DefinedStays, FirstOfStays
        <4> QED BY <4>2, Zenon DEF PointsAsDefined
      <3> QED BY <2>1, <3>1, Zenon DEF PointsAsDefined
    <2> QED BY <2>7, <2>8, Zenon DEF AverageInv
  <1>9. CASE ~(curr.t < pdp.finish)
    <2>1. /\ R!DataPoint(pdp, curr) = R!Defined(k)
          /\ R!FirstOf(k + 1) = IF curr.t > R!StepStart(k + 2) THEN c ELSE j
      BY <1>2, <1>9, ReturnedAsDefined
    <2>2. PICK first, base : first = R!FirstRow(base, prev, curr) /\ base = floor + Step
      OBVIOUS
    <2>3. PICK started : started = R!NewPdp(base, first)
      OBVIOUS
    <2>4. /\ m_currPdp' = started
          /\ rolledUp' = Append(rolledUp, [t |-> pdp.finish, v |-> R!Defined(k)])
      BY <1>2, <1>9, <2>1, <2>2, <2>3, Zenon DEF R!AddSamples, R!nextStep
    <2>5. base + Step = R!StepStart(k + 2) /\ base \in Nat /\ base + Step \in Nat
      <3>1. R!StepStart(k + 1) = Base + k * Step /\ Base \in Nat
        BY <1>1, <1>4, StepStartAt, BaseType
      <3>2. R!StepStart(k + 1 + 1) = Base + (k + 1) * Step
        <4>1. k + 1 \in Nat
          OBVIOUS
        <4> QED BY <1>1, <1>4, <4>1, StepStartAt
      <3>3. PICK m \in Nat : m = k * Step /\ (k + 1) * Step = m + Step
        BY StepArithmetic
      <3>4. k + 1 + 1 = k + 2
        OBVIOUS
      <3>5. base = Base + m
        BY <1>7, <2>2, <3>1, <3>3
      <3>6. base + Step = Base + (m + Step) /\ base \in Nat /\ base + Step \in Nat
        BY <3>1, <3>3, <3>5, RowsAssumption
      <3>7. R!StepStart(k + 2) = Base + (m + Step)
        BY <3>2, <3>3, <3>4, Zenon
      <3> QED BY <3>6, <3>7, Zenon
    <2>6. PICK f \in Nat \ {0} : f = R!FirstOf(k + 1) /\ f \in DOMAIN rows /\ first = rows[f]
                                /\ f = IF curr.t > base + Step THEN c ELSE j
      <3>1. first = IF curr.t > base + Step THEN prev ELSE curr
        BY <2>2, Zenon DEF R!FirstRow, R!nextStep
      <3>2. R!FirstOf(k + 1) = IF curr.t > base + Step THEN c ELSE j
        BY <2>1, <2>5, Zenon
      <3>3. j # 0
        BY <1>2
      <3> QED BY <1>2, <1>4, <3>1, <3>2, <3>3
    <2>7. PICK n \in Nat \ {0} : n = k + 1 /\ n + 1 = k + 2
      OBVIOUS
    <2>8. Averages(n, f, started)
      BY <2>3, <2>5, <2>6, <2>7, NewAverages
    <2>9. Averages(n, f, started)'
      BY <1>1, <2>8, AveragesStay
    <2>10. LastAdded' = f
      <3>1. started.finish = base + Step
        BY <2>3 DEF R!NewPdp, R!nextStep
      <3>2. LastAdded' = IF curr.t > base + Step THEN j - 1 ELSE j
        BY <1>5, <1>6, <2>4, <3>1, Zenon DEF LastAdded
      <3>3. j - 1 = c
        BY <1>2
      <3> QED BY <2>6, <3>2, <3>3
    <2>11. PointsAsDefined' /\ Len(rolledUp') = k
      <3>1. R!Defined(k) \in Int \cup {NaN}
        <4>1. curr \in StreamRow /\ pdp.prevAveraged.t <= curr.t
          <5>1. pdp.prevAveraged.t = rows[c].t
            BY DEF Averages
          <5>2. rows[c].t < rows[j].t /\ rows[j] \in StreamRow
            <6>1. c < j
              BY <1>2
            <6> QED BY <1>1, <1>4, <6>1, SortedRows
          <5> QED BY <1>2, <1>4, <5>1, <5>2
        <4> QED BY <2>1, <4>1, DataPointType
      <3>2. pdp.finish \in Nat
        BY DEF Pdps
      <3>3. R!FirstOf(k) \in DOMAIN rows
        <4>1. R!FirstOf(k) \in 1..c
          BY DEF Averages
        <4>2. c <= len
          BY <1>3, <1>4
        <4> QED BY <1>3, <4>1, <4>2
      <3> QED BY <1>1, <2>4, <3>1, <3>2, <3>3, OnePointMore
    <2>12. PointInHand'
      BY <2>4, <2>6, <2>7, <2>9, <2>10, <2>11, Zenon DEF PointInHand
    <2> QED BY <2>11, <2>12, Zenon DEF AverageInv
  <1> QED BY <1>8, <1>9

LEMMA InitializeAverages ==
    ASSUME AveragesExact, rows \in Streams \cup {<<>>}, rows' = rows,
           processor = "RollUp", processor' = processor, RollInv, RollInv', R!Initialize
    PROVE  AverageInv'
  <1>1. Sorted(rows)
    BY StreamsAreSorted
  <1>2. /\ pc = "fresh" /\ Len(rest) >= 2
        /\ R!AddSamples(rest[1], rest[2], R!atStepBoundaryStart(rest[1].t),
                        R!NewPdp(R!atStepBoundaryStart(rest[1].t), rest[1]))
    BY Zenon DEF R!Initialize
  <1>3. rest = rows /\ rolledUp = <<>>
    BY <1>2, Zenon DEF RollInv, RollPlace
  <1>4. 1 \in DOMAIN rows /\ 2 \in DOMAIN rows /\ rows[1] \in StreamRow
    <2>1. 1 \in DOMAIN rows /\ 2 \in DOMAIN rows
      BY <1>1, <1>2, <1>3, SortedRows
    <2> QED BY <1>1, <2>1, SortedRows
  <1>5. PICK floor \in Nat, m \in Nat :
           /\ floor = Base /\ m = Step /\ R!StepStart(1 + 1) = floor + m
    <2>1. R!StepStart(1 + 1) = Base + 1 * Step /\ Base \in Nat
      BY <1>1, <1>4, StepStartAt, BaseType
    <2>2. 1 * Step = Step /\ Step \in Nat
      BY RowsAssumption
    <2> QED BY <2>1, <2>2
  <1>6. PICK pdp : pdp = R!NewPdp(floor, rows[1])
    OBVIOUS
  <1>7. R!AddSamples(rows[1], rows[2], floor, pdp)
    BY <1>2, <1>3, <1>5, <1>6, Zenon DEF Base, atStepBoundaryStart, R!atStepBoundaryStart
  <1>8. pdp \in Pdps /\ pdp.finish = floor + Step
    <2>1. pdp = [finish |-> floor + Step, prevAveraged |-> rows[1], rowCount |-> 1, unknown |-> 0]
      BY <1>6, Zenon DEF R!NewPdp, R!nextStep
    <2>2. floor + Step \in Nat
      BY RowsAssumption
    <2> HIDE DEF StreamRow
    <2> QED BY <1>4, <2>1, <2>2, ZeroFits DEF Pdps
  <1>9. Averages(1, 1, pdp)
    <2>1. R!FirstOf(1) = 1
      BY <1>1, FirstOfFirst
    <2>2. PICK k \in Nat \ {0} : k = 1
      OBVIOUS
    <2>3. Averages(k, k, R!NewPdp(floor, rows[k]))
      <3>1. R!FirstOf(k) = k /\ k \in DOMAIN rows /\ floor + Step = R!StepStart(k + 1)
        BY <1>4, <1>5, <2>1, <2>2, Zenon
      <3> QED BY <3>1, NewAverages
    <2> QED BY <1>6, <2>2, <2>3
  <1>10. rolledUp \in Seq(StreamRow) /\ Len(rolledUp) = 0 /\ PointsAsDefined
    <2> HIDE DEF StreamRow
    <2> QED BY <1>3 DEF PointsAsDefined
  <1>11. PICK c \in Nat \ {0} : c = 1 /\ c + 1 = 2
    OBVIOUS
  <1>12. /\ c + 1 \in DOMAIN rows /\ c = Len(rolledUp) + 1 /\ Averages(c, c, pdp)
         /\ R!AddSamples(rows[c], rows[c + 1], floor, pdp)
    BY <1>4, <1>7, <1>9, <1>10, <1>11
  <1> QED BY <1>8, <1>10, <1>12, AddSamplesAverages

LEMMA ConsumeAverages ==
    ASSUME AveragesExact, rows \in Streams \cup {<<>>}, rows' = rows, rest \in Seq(StreamRow),
           processor = "RollUp", processor' = processor,
           RollInv, RollInv', AverageInv, R!Consume
    PROVE  AverageInv'
  <1>1. Sorted(rows)
    BY StreamsAreSorted
  <1>2. pc \in {"idle", "looping"} /\ rest # <<>>
    BY Zenon DEF R!Consume
  <1>3. RollSteps /\ \E i \in DOMAIN rows : RollAt(i)
    BY <1>2, Zenon DEF RollInv, RollPlace
  <1>4. PICK i \in DOMAIN rows : RollAt(i)
    BY <1>3
  <1>5. /\ i > 1 /\ m_currRow = rows[i] /\ m_prevRow = rows[i - 1]
        /\ Len(rest) = Len(rows) - i
        /\ \A k \in 1..Len(rest) : rest[k] = rows[i + k]
    BY <1>4, Zenon DEF RollAt
  <1>6. PICK len \in Nat, r \in Nat : len = Len(rows) /\ r = Len(rest) /\ DOMAIN rows = 1..len /\ r # 0
    <2>1. Len(rest) \in Nat /\ Len(rest) # 0
      <3> HIDE DEF StreamRow
      <3> QED BY <1>2
    <2> QED BY <1>1, <2>1, SortedRows
  <1>7. i \in Nat /\ i > 1 /\ i <= len /\ r = len - i /\ len - r = i
    BY <1>5, <1>6
  <1>8. PICK floor \in Nat, pdp \in Pdps : floor = m_currStepFloor /\ pdp = m_currPdp
    BY Zenon DEF RollInv, RollTypes
  <1>9. pdp.finish = floor + Step /\ rolledUp \in Seq(StreamRow) /\ PointsAsDefined
    BY <1>3, <1>8, Zenon DEF RollSteps, RollInv, RollTypes, AverageInv
  <1>10. PICK k \in Nat \ {0}, c \in DOMAIN rows :
            k = Len(rolledUp) + 1 /\ c = LastAdded /\ Averages(k, c, pdp)
    BY <1>2, <1>8, Zenon DEF AverageInv, PointInHand
  <1>11. c = IF m_currRow.t > floor + Step THEN i - 1 ELSE i
    BY <1>6, <1>7, <1>8, <1>9, <1>10, Zenon DEF LastAdded
  <1>12. c \in Nat \ {0}
    BY <1>6
  <1>13. c + 1 \in DOMAIN rows
    <2>1. c <= i
      BY <1>7, <1>11
    <2> QED BY <1>6, <1>7, <1>12, <2>1
  <1>14. R!AddSamples(rows[c], rows[c + 1], floor, pdp)
    <2>1. CASE m_currRow.t > floor + Step
      <3>1. R!AddSamples(m_prevRow, m_currRow, floor, pdp)
        BY <1>8, <2>1, Zenon DEF R!Consume, R!nextStep
      <3>2. c = i - 1 /\ c + 1 = i
        BY <1>7, <1>11, <2>1
      <3> QED BY <1>5, <3>1, <3>2, Zenon
    <2>2. CASE ~(m_currRow.t > floor + Step)
      <3>1. R!AddSamples(m_currRow, Head(rest), floor, pdp)
        BY <1>8, <2>2, Zenon DEF R!Consume, R!nextStep
      <3>2. Head(rest) = rest[1] /\ 1 \in 1..Len(rest)
        <4> HIDE DEF StreamRow
        <4> QED BY <1>2, <1>6
      <3>3. c = i
        BY <1>11, <2>2
      <3>4. Head(rest) = rows[c + 1]
        BY <1>5, <3>2, <3>3, Zenon
      <3> QED BY <1>5, <3>1, <3>3, <3>4, Zenon
    <2> QED BY <2>1, <2>2
  <1> QED BY <1>9, <1>10, <1>12, <1>13, <1>14, AddSamplesAverages

LEMMA ExhaustedAverages ==
    ASSUME rows \in Streams \cup {<<>>}, rows' = rows,
           processor = "RollUp", processor' = processor, RollInv, AverageInv, R!Exhausted
    PROVE  AverageInv'
  <1>1. Sorted(rows)
    BY StreamsAreSorted
  <1>2. /\ pc = "looping" /\ rest = <<>> /\ pc' = "idle" /\ rest' = rest
        /\ rolledUp' = Append(rolledUp, [t |-> R!nextStep(m_currStepFloor), v |-> NaN])
    BY Zenon DEF R!Exhausted
  <1>3. RollSteps
    BY <1>2, Zenon DEF RollInv, RollPlace
  <1>4. PICK floor \in Nat, pdp \in Pdps : floor = m_currStepFloor /\ pdp = m_currPdp
    BY Zenon DEF RollInv, RollTypes
  <1>5. m_currRow.t \in Nat
    <2>1. m_currRow \in StreamRow
      BY Zenon DEF RollInv, RollTypes
    <2> QED BY <2>1 DEF StreamRow
  <1>6. rolledUp \in Seq(StreamRow) /\ PointsAsDefined
    BY Zenon DEF RollInv, RollTypes, AverageInv
  <1>7. PICK k \in Nat \ {0}, c \in DOMAIN rows :
            k = Len(rolledUp) + 1 /\ c = LastAdded /\ Averages(k, c, pdp)
    BY <1>2, <1>4, Zenon DEF AverageInv, PointInHand
  <1>8. c = Len(rows)
    <2>1. m_currRow.t < floor + Step /\ pdp.finish = floor + Step
      BY <1>2, <1>3, <1>4, Zenon DEF RollSteps
    <2>2. ~(m_currRow.t > pdp.finish)
      BY <1>5, <2>1, RowsAssumption
    <2>3. c = Len(rows) - Len(rest)
      BY <1>4, <1>7, <2>2, Zenon DEF LastAdded
    <2>4. Len(rest) = 0 /\ Len(rows) \in Nat
      BY <1>1, <1>2, SortedRows
    <2> QED BY <2>3, <2>4
  <1>9. R!Defined(k) = NaN
    BY <1>1, <1>7, <1>8, ExhaustedAsDefined
  <1>10. PointsAsDefined'
    <2>1. R!nextStep(m_currStepFloor) \in Nat
      BY <1>4, RowsAssumption DEF R!nextStep
    <2>2. PICK v \in Int \cup {NaN} : v = NaN
      OBVIOUS
    <2>3. v = R!Defined(Len(rolledUp) + 1)
      BY <1>7, <1>9, <2>2, Zenon
    <2>4. rolledUp' = Append(rolledUp, [t |-> R!nextStep(m_currStepFloor), v |-> v])
      BY <1>2, <2>2
    <2>5. R!FirstOf(Len(rolledUp) + 1) \in DOMAIN rows
      <3>1. R!FirstOf(k) \in 1..Len(rows) /\ DOMAIN rows = 1..Len(rows)
        BY <1>1, <1>7, <1>8, SortedRows DEF Averages
      <3> QED BY <1>7, <3>1
    <2> QED BY <1>1, <1>6, <2>1, <2>3, <2>4, <2>5, OnePointMore
  <1>11. pc' # "looping" /\ rest' = <<>>
    BY <1>2
  <1> QED BY <1>10, <1>11, Zenon DEF AverageInv

LEMMA OthersAverage ==
    ASSUME Sorted(rows), RollInv, AverageInv, rows' = rows, processor' = processor,
           rolledUp' = rolledUp,
           \/ processor' # "RollUp"
           \/ pc' \in {"fresh", "threw"}
           \/ m_currPdp' = m_currPdp /\ m_currRow' = m_currRow /\ pc' = pc /\ rest' = rest
    PROVE  AverageInv'
  <1>1. PointsAsDefined'
    <2>1. ASSUME NEW n \in DOMAIN rolledUp
          PROVE  rolledUp[n].v = R!Defined(n)' /\ R!FirstOf(n)' \in DOMAIN rows'
      <3>1. n \in Nat \ {0}
        <4>1. rolledUp \in Seq(StreamRow)
          BY Zenon DEF RollInv, RollTypes
        <4> HIDE DEF StreamRow
        <4> QED BY <4>1
      <3>2. R!Defined(n)' = R!Defined(n) /\ R!FirstOf(n)' = R!FirstOf(n)
        BY <3>1, DefinedStays, FirstOfStays
      <3> QED BY <3>2, Zenon DEF AverageInv, PointsAsDefined
    <2> QED BY <2>1, Zenon DEF PointsAsDefined
  <1>2. CASE processor' # "RollUp" \/ pc' \in {"fresh", "threw"}
    <2>1. processor' # "RollUp" \/ (pc' # "looping" /\ pc' # "idle")
      BY <1>2
    <2> QED BY <1>1, <2>1, Zenon DEF AverageInv
  <1>3. CASE m_currPdp' = m_currPdp /\ m_currRow' = m_currRow /\ pc' = pc /\ rest' = rest
    <2>1. PointInHand => PointInHand'
      <3> SUFFICES ASSUME PointInHand PROVE PointInHand'
        OBVIOUS
      <3>1. PICK pdp : \E k \in Nat \ {0}, c \in DOMAIN rows :
               k = Len(rolledUp) + 1 /\ c = LastAdded /\ pdp = m_currPdp /\ Averages(k, c, pdp)
        BY Zenon DEF PointInHand
      <3>2. PICK k \in Nat \ {0}, c \in DOMAIN rows :
               k = Len(rolledUp) + 1 /\ c = LastAdded /\ pdp = m_currPdp /\ Averages(k, c, pdp)
        BY <3>1
      <3>3. LastAdded' = LastAdded
        BY <1>3, Zenon DEF LastAdded
      <3>4. Averages(k, c, pdp)'
        BY <3>2, AveragesStay
      <3> QED BY <1>3, <3>2, <3>3, <3>4, Zenon DEF PointInHand
    <2> QED BY <1>1, <1>3, <2>1, Zenon DEF AverageInv
  <1> QED BY <1>2, <1>3

LEMMA AverageStepInv ==
    ASSUME AveragesExact, StreamInv, LerpInv, RollInv, RollInv', AverageInv, [MCNext]_allVars
    PROVE  AverageInv'
  <1>1. /\ rows \in Streams \cup {<<>>} /\ Sorted(rows) /\ rows' = rows /\ rest \in Seq(StreamRow)
    BY StreamsAreSorted, StreamStepInv DEF StreamInv, LerpInv, LerpTypes
  <1>2. CASE processor = "RollUp" /\ R!Next /\ processor' = processor
    <2>1. CASE R!InitializeFails
      <3>1. rolledUp' = rolledUp /\ pc' \in {"fresh", "threw"}
        BY <2>1, Zenon DEF R!InitializeFails
      <3> QED BY <1>1, <1>2, <3>1, OthersAverage
    <2> QED BY <1>1, <1>2, <2>1, InitializeAverages, ConsumeAverages, ExhaustedAverages DEF R!Next
  <1>3. CASE processor # "RollUp" /\ UNCHANGED <<processor, rollUpVars>>
    <2>1. processor' = processor /\ rolledUp' = rolledUp
      BY <1>3 DEF rollUpVars
    <2> QED BY <1>1, <1>3, <2>1, OthersAverage
  <1>4. CASE UNCHANGED allVars
    <2>1. /\ processor' = processor /\ rest' = rest /\ rolledUp' = rolledUp
          /\ m_currPdp' = m_currPdp /\ m_currRow' = m_currRow /\ pc' = pc
      BY <1>4 DEF allVars, rollUpVars
    <2> QED BY <1>1, <2>1, OthersAverage
  <1>5. CASE MCNext
    BY <1>2, <1>3, <1>5 DEF MCNext
  <1> QED BY <1>4, <1>5

(* The data points are the ones defined, when the averages are exact.      *)
THEOREM AverageInvHolds == ASSUME AveragesExact PROVE MCSpec => []AverageInv
  <1>1. MCInit => AverageInv
    <2> SUFFICES ASSUME MCInit PROVE AverageInv
      OBVIOUS
    <2>1. pc = "fresh" /\ rolledUp = <<>>
      BY DEF MCInit, R!Init
    <2>2. PointsAsDefined
      BY <2>1 DEF PointsAsDefined
    <2>3. pc # "looping" /\ pc # "idle"
      BY <2>1
    <2> QED BY <2>2, <2>3, Zenon DEF AverageInv
  <1>2. StreamInv /\ LerpInv /\ RollInv /\ RollInv' /\ AverageInv /\ [MCNext]_allVars => AverageInv'
    BY AverageStepInv
  <1> QED BY <1>1, <1>2, LerpInvHolds, RollInvHolds, PTL DEF MCSpec

(* RollUp.next(): whatever the stream, the step and the heart beat, and    *)
(* whatever is left of the late time in an int, each data point is what    *)
(* the rows of its own step define, when the averages are exact.           *)
THEOREM RollsUpHolds == ASSUME AveragesExact PROVE MCSpec => []RollsUp
  <1>1. AverageInv => RollsUp
    BY Zenon DEF AverageInv, PointsAsDefined, RollsUp, R!RollsUp
  <1> QED BY <1>1, AverageInvHolds, PTL

(* No more time can be late than there is between the rows of a step.      *)
LEMMA LateTimeInSpan ==
    ASSUME Sorted(rows), NEW f \in DOMAIN rows, NEW j \in DOMAIN rows, f <= j
    PROVE  R!LateTime(f, j) \in Nat /\ R!LateTime(f, j) <= rows[j].t - rows[f].t
  <1>1. PICK len \in Nat : DOMAIN rows = 1..len /\ \A n \in 1..len : rows[n].t \in Nat
    BY SortedRows
  <1>2. f \in Nat \ {0} /\ j \in Nat /\ f <= len /\ j <= len
    BY <1>1
  <1> DEFINE InSpan(n) == R!LateTime(f, n) \in Nat /\ R!LateTime(f, n) <= rows[n].t - rows[f].t
             T == {m \in Nat : f + m <= len => InSpan(f + m)}
  <1>3. 0 \in T
    <2>1. R!LateTime(f, f) = 0 /\ rows[f].t - rows[f].t = 0 /\ f + 0 = f
      BY <1>1, <1>2, LateTimeOfOne
    <2> QED BY <2>1
  <1>4. ASSUME NEW m \in Nat, m \in T PROVE m + 1 \in T
    <2> SUFFICES ASSUME f + (m + 1) <= len PROVE InSpan(f + (m + 1))
      OBVIOUS
    <2>1. PICK c \in Nat : /\ c = f + m /\ c + 1 = f + (m + 1) /\ f <= c
                           /\ c \in DOMAIN rows /\ c + 1 \in DOMAIN rows /\ c < c + 1 /\ c <= len
      BY <1>1, <1>2
    <2>2. PICK late \in Nat : late = R!LateTime(f, c) /\ late <= rows[c].t - rows[f].t
      BY <1>4, <2>1
    <2>3. PICK d \in Nat : d = rows[c + 1].t - rows[c].t
      <3>1. rows[c].t \in Nat /\ rows[c + 1].t \in Nat /\ rows[c].t < rows[c + 1].t
        BY <2>1, SortedRows
      <3>2. rows[c + 1].t - rows[c].t \in Nat
        BY <3>1
      <3> QED BY <3>2
    <2>4. R!LateTime(f, c + 1) = late + R!Late(d)
      BY <1>2, <2>1, <2>2, <2>3, LateTimeGrows
    <2>5. R!Late(d) \in Nat /\ R!Late(d) <= d
      BY <2>3 DEF R!Late
    <2>6. late + R!Late(d) \in Nat /\ late + R!Late(d) <= rows[c + 1].t - rows[f].t
      <3>1. PICK x \in Nat, y \in Nat, z \in Nat :
                 x = rows[f].t /\ y = rows[c].t /\ z = rows[c + 1].t
        BY <1>1, <1>2, <2>1
      <3>2. PICK e \in Nat : e = R!Late(d) /\ e <= d
        BY <2>5
      <3>3. late <= y - x /\ d = z - y
        BY <2>2, <2>3, <3>1
      <3>4. late + e \in Nat /\ late + e <= z - x
        BY <3>2, <3>3, SMT
      <3> QED BY <3>1, <3>2, <3>4
    <2> QED BY <2>1, <2>4, <2>6, Zenon
  <1> HIDE DEF T
  <1>5. j - f \in T
    <2>1. j - f \in Nat
      BY <1>2
    <2> QED BY <1>3, <1>4, <2>1, SetInduction
  <1>6. f + (j - f) = j
    BY <1>2
  <1> QED BY <1>2, <1>5, <1>6 DEF T

(* The rows of a step are less than 2^31 milliseconds apart.               *)
SpansFit ==
    \A k \in DOMAIN rolledUp :
       R!LastOf(k) # 0 => rows[R!LastOf(k)].t - rows[R!FirstOf(k)].t < HalfInt

(* RollUp: as long as the time between the rows of a step fits into an     *)
(* int, the comment of the class is right, and a data point whose late     *)
(* intervals are longer than half a step is unknown.                       *)
THEOREM LateIsUnknownHolds ==
    ASSUME AveragesExact PROVE MCSpec => [](SpansFit => LateIsUnknown)
  <1>1. StreamInv /\ AverageInv => (SpansFit => LateIsUnknown)
    <2> SUFFICES ASSUME StreamInv, AverageInv, SpansFit, NEW k \in DOMAIN rolledUp,
                        R!LastOf(k) # 0, R!LateTime(R!FirstOf(k), R!LastOf(k)) > Step \div 2
                 PROVE  rolledUp[k].v = NaN
      BY Zenon DEF LateIsUnknown, R!LateIsUnknown
    <2>1. Sorted(rows)
      BY StreamsAreSorted DEF StreamInv
    <2>2. PICK f \in DOMAIN rows : f = R!FirstOf(k) /\ rolledUp[k].v = R!Defined(k)
      BY Zenon DEF AverageInv, PointsAsDefined
    <2>3. PICK j \in DOMAIN rows : j = R!LastOf(k) /\ f <= j
      <3>1. PICK x : x = R!StepStart(k + 1)
        OBVIOUS
      <3>2. R!FirstAt(x, f + 1) # 0 /\ R!LastOf(k) = R!FirstAt(x, f + 1)
        BY <2>2, <3>1, Zenon DEF R!LastOf
      <3>3. R!FirstAt(x, f + 1) \in DOMAIN rows /\ R!FirstAt(x, f + 1) >= f + 1
        BY <2>1, <3>2, FirstAtSome
      <3>4. \A n \in DOMAIN rows : n >= f + 1 => f <= n
        <4>1. PICK len \in Nat : DOMAIN rows = 1..len
          BY <2>1, SortedRows
        <4> QED BY <2>2, <4>1
      <3> QED BY <3>2, <3>3, <3>4
    <2>4. PICK late \in Nat : late = R!LateTime(f, j) /\ late <= rows[j].t - rows[f].t
      BY <2>1, <2>3, LateTimeInSpan
    <2>5. late \in Ints
      <3>1. rows[j].t - rows[f].t < HalfInt
        BY <2>2, <2>3, Zenon DEF SpansFit
      <3>2. rows[j].t \in Nat /\ rows[f].t \in Nat
        BY <2>1, SortedRows
      <3> QED BY <2>4, <3>1, <3>2, RowsAssumption DEF Ints
    <2>6. R!ToInt(late) = late
      BY <2>5, ToIntFits, SameInt
    <2>7. R!ToInt(R!LateTime(f, j)) > Step \div 2
      BY <2>2, <2>3, <2>4, <2>6
    <2>8. R!Defined(k) = NaN
      BY <2>2, <2>3, <2>7, Zenon DEF R!Defined
    <2> QED BY <2>2, <2>8
  <1> QED BY <1>1, LerpInvHolds, AverageInvHolds, PTL

-----------------------------------------------------------------------------
(* Lerp: one row for every step. *)

(* The rows returned are those of the first steps, and the iterator of     *)
(* Steps is past them and the step in hand.                                *)
LerpCount ==
    /\ \A k \in DOMAIN resampled : /\ resampled[k].t = L!getCurrent(k - 1)
                                   /\ L!stepsHasNext(k - 1)
    /\ m_count = Len(resampled) + (IF m_currentStep = None THEN 0 ELSE 1)

(* The steps are from that of the start to that of the finish, in order.   *)
EveryStepOnce ==
    /\ \A j, k \in DOMAIN resampled : j < k => resampled[j].t < resampled[k].t
    /\ ~L!hasNext => {resampled[k].t : k \in DOMAIN resampled} = L!StepTimes

LEMMA AppendsOne ==
    ASSUME NEW S, NEW q \in Seq(S), NEW e
    PROVE  /\ DOMAIN q = 1..Len(q) /\ DOMAIN Append(q, e) = 1..(Len(q) + 1) /\ Len(q) \in Nat
           /\ Len(Append(q, e)) = Len(q) + 1
           /\ \A k \in 1..Len(q) : Append(q, e)[k] = q[k]
           /\ Append(q, e)[Len(q) + 1] = e
  <1> DEFINE T == S \cup {e}
  <1>1. q \in Seq(T) /\ e \in T
    OBVIOUS
  <1> HIDE DEF T
  <1>2. Append(q, e) \in Seq(T) /\ Len(Append(q, e)) = Len(q) + 1
    BY <1>1
  <1> QED BY <1>1, <1>2, AppendElements

LEMMA ReturnCounts ==
    ASSUME LerpInv, LerpCount, m_initComplete, m_currentStep # None, L!stepAdvance, NEW v, L!Return(v)
    PROVE  LerpCount'
  <1>1. PICK e : e = [t |-> m_currentStep, v |-> v]
    OBVIOUS
  <1>2. resampled' = Append(resampled, e) /\ e.t = m_currentStep
    BY <1>1 DEF L!Return
  <1>3. /\ m_count \in Nat /\ m_currentStep = L!getCurrent(m_count - 1)
        /\ L!stepsHasNext(m_count - 1)
    BY Zenon DEF LerpInv, LerpStep
  <1>4. PICK n \in Nat : n = Len(resampled) /\ DOMAIN resampled = 1..n
    <2>1. resampled \in Seq(Resampled)
      BY DEF LerpInv, LerpOutput
    <2> HIDE DEF Resampled
    <2> QED BY <2>1
  <1>5. /\ DOMAIN resampled' = 1..(n + 1) /\ Len(resampled') = n + 1
        /\ resampled'[n + 1] = e /\ \A k \in 1..n : resampled'[k] = resampled[k]
    <2>1. resampled \in Seq(Resampled)
      BY DEF LerpInv, LerpOutput
    <2> HIDE DEF Resampled
    <2> QED BY <1>2, <1>4, <2>1, AppendsOne
  <1>6. m_count = n + 1 /\ m_count - 1 = n /\ n + 1 - 1 = n
    BY <1>4 DEF LerpCount
  <1>7. ASSUME NEW k \in DOMAIN resampled'
        PROVE  resampled'[k].t = L!getCurrent(k - 1) /\ L!stepsHasNext(k - 1)
    <2>1. CASE k \in 1..n
      BY <1>4, <1>5, <2>1, Zenon DEF LerpCount
    <2>2. CASE k = n + 1
      BY <1>2, <1>3, <1>5, <1>6, <2>2, Zenon
    <2>3. k \in 1..n \/ k = n + 1
      BY <1>5
    <2> QED BY <2>1, <2>2, <2>3
  <1>8. m_count' = Len(resampled') + (IF m_currentStep' = None THEN 0 ELSE 1)
    <2>1. CASE L!stepsHasNext(m_count)
      <3>1. m_currentStep' = L!getCurrent(m_count) /\ m_count' = m_count + 1
        BY <2>1, Zenon DEF L!stepAdvance
      <3>2. L!getCurrent(m_count) # None
        BY <1>3, StepsGrow, LerpAssumption
      <3> QED BY <1>5, <1>6, <3>1, <3>2
    <2>2. CASE ~L!stepsHasNext(m_count)
      <3>1. m_currentStep' = None /\ m_count' = m_count
        BY <2>2, Zenon DEF L!stepAdvance
      <3> QED BY <1>5, <1>6, <3>1
    <2> QED BY <2>1, <2>2
  <1> QED BY <1>7, <1>8, Zenon DEF LerpCount

LEMMA LerpCountStep ==
    ASSUME StreamInv, LerpInv, LerpCount, [MCNext]_allVars
    PROVE  LerpCount'
  <1>1. Sorted(rows)
    BY StreamsAreSorted DEF StreamInv
  <1>2. CASE resampled' = resampled /\ m_count' = m_count /\ m_currentStep' = m_currentStep
    BY <1>2, Zenon DEF LerpCount
  <1>3. CASE L!Begin
    <2>1. /\ ~m_initComplete /\ m_currentStep' = L!getCurrent(m_count) /\ m_count' = m_count + 1
          /\ resampled' = resampled
      BY <1>3, Zenon DEF L!Begin
    <2>2. m_currentStep = None /\ m_count = 0
      BY <2>1, Zenon DEF LerpInv, LerpPlace
    <2>3. m_currentStep' # None
      BY <2>1, <2>2, StepsGrow, LerpAssumption
    <2>4. PICK n \in Nat : n = Len(resampled)
      <3>1. resampled \in Seq(Resampled)
        BY DEF LerpInv, LerpOutput
      <3> HIDE DEF Resampled
      <3> QED BY <3>1
    <2>5. m_count' = Len(resampled') + (IF m_currentStep' = None THEN 0 ELSE 1)
      BY <2>1, <2>2, <2>3, <2>4 DEF LerpCount
    <2> QED BY <2>1, <2>5, Zenon DEF LerpCount
  <1>4. CASE L!Ended \/ L!PastStep \/ L!Within
    <2>1. PICK v : L!Ready /\ m_rowL # None /\ L!stepAdvance /\ L!Return(v)
      <3>1. CASE L!Ended
        BY <3>1, Zenon DEF L!Ended
      <3>2. CASE L!PastStep
        BY <1>1, <3>2, HasLeft, Zenon DEF L!PastStep
      <3>3. CASE L!Within
        BY <1>1, <3>3, HasLeft, Zenon DEF L!Within
      <3> QED BY <1>4, <3>1, <3>2, <3>3
    <2>2. m_currentStep # None /\ m_initComplete
      BY <1>1, <2>1, ReadyRow
    <2> QED BY <2>1, <2>2, ReturnCounts
  <1>5. CASE L!Next
    <2>1. CASE L!NoRows \/ L!Skip
      BY <1>2, <2>1, Zenon DEF L!NoRows, L!Skip
    <2> QED BY <1>3, <1>4, <1>5, <2>1 DEF L!Next
  <1>6. CASE UNCHANGED allVars \/ UNCHANGED lerpVars
    BY <1>2, <1>6 DEF allVars, lerpVars
  <1>7. CASE MCNext
    BY <1>5, <1>6, <1>7 DEF MCNext
  <1> QED BY <1>6, <1>7

(* Steps are at least one apart, and none comes after the last.            *)
LEMMA StepsCounted ==
    ASSUME NEW n \in Nat
    PROVE  /\ n <= L!getCurrent(n)
           /\ \A k \in 0..n : L!getCurrent(k) <= L!getCurrent(n)
           /\ \A k \in 0..n : k # n => L!getCurrent(k) < L!getCurrent(n)
  <1>1. atStepBoundaryStart(Start) \in Nat
    BY StepsGrow
  <1>2. PICK b \in Nat : b = atStepBoundaryStart(Start)
    BY <1>1
  <1>3. \A k : L!getCurrent(k) = b + k * Step
    BY <1>2, Zenon DEF L!getCurrent, L!atStepBoundaryStart, atStepBoundaryStart
  <1>4. Step \in Nat \ {0}
    BY RowsAssumption
  <1>5. n <= n * Step /\ n * Step \in Nat
    <2>1. PICK s \in Nat : Step = s + 1
      <3>1. Step - 1 \in Nat /\ Step = (Step - 1) + 1
        BY <1>4
      <3> QED BY <3>1
    <2>2. n * (s + 1) = n * s + n /\ n * s \in Nat
      BY SMT
    <2> QED BY <2>1, <2>2
  <1>6. ASSUME NEW k \in 0..n, k # n PROVE k * Step < n * Step /\ k * Step \in Nat
    <2>1. k \in Nat /\ k < n
      BY <1>6
    <2>2. (k + 1) * Step <= n * Step
      BY <2>1, StepsInOrder
    <2>3. (k + 1) * Step = k * Step + Step /\ k * Step \in Nat
      BY <2>1, StepArithmetic
    <2> QED BY <1>4, <1>5, <2>2, <2>3
  <1>7. n <= L!getCurrent(n)
    BY <1>3, <1>5
  <1>8. ASSUME NEW k \in 0..n, k # n PROVE L!getCurrent(k) < L!getCurrent(n)
    BY <1>3, <1>5, <1>6, <1>8
  <1>9. ASSUME NEW k \in 0..n PROVE L!getCurrent(k) <= L!getCurrent(n)
    <2>1. CASE k = n
      BY <1>3, <1>5, <2>1
    <2>2. CASE k # n
      BY <1>3, <1>5, <1>6, <2>2
    <2> QED BY <2>1, <2>2
  <1> QED BY <1>7, <1>8, <1>9

(* Lerp.next(): whatever the stream, the step and the bounds, the rows     *)
(* returned are those of the first steps, one for each and in order, and   *)
(* when hasNext() is false there is one for every step.                    *)
THEOREM EveryStepOnceHolds == MCSpec => []EveryStepOnce
  <1>1. MCInit => LerpCount
    <2> SUFFICES ASSUME MCInit PROVE LerpCount
      OBVIOUS
    <2>1. m_count = 0 /\ m_currentStep = None /\ resampled = <<>>
      BY DEF MCInit, L!Init
    <2> QED BY <2>1 DEF LerpCount
  <1>2. StreamInv /\ LerpInv /\ LerpCount /\ [MCNext]_allVars => LerpCount'
    BY LerpCountStep
  <1>3. LerpInv /\ LerpCount => EveryStepOnce
    <2> SUFFICES ASSUME LerpInv, LerpCount PROVE EveryStepOnce
      OBVIOUS
    <2>1. PICK n \in Nat : n = Len(resampled) /\ DOMAIN resampled = 1..n
      <3>1. resampled \in Seq(Resampled)
        BY DEF LerpInv, LerpOutput
      <3> HIDE DEF Resampled
      <3> QED BY <3>1
    <2>2. \A k \in 1..n : resampled[k].t = L!getCurrent(k - 1) /\ L!stepsHasNext(k - 1)
      BY <2>1, Zenon DEF LerpCount
    <2>3. ASSUME NEW j \in 1..n, NEW k \in 1..n, j < k PROVE resampled[j].t < resampled[k].t
      <3>1. PICK a, b : a = j - 1 /\ b = k - 1
        OBVIOUS
      <3>2. b \in Nat /\ a \in 0..b /\ a # b
        BY <2>3, <3>1
      <3>3. L!getCurrent(a) < L!getCurrent(b)
        BY <3>2, StepsCounted
      <3> QED BY <2>2, <3>1, <3>3
    <2>4. ASSUME ~L!hasNext PROVE {resampled[k].t : k \in DOMAIN resampled} = L!StepTimes
      <3>1. ~L!stepsHasNext(n)
        <4>1. m_currentStep = None /\ ~L!stepsHasNext(m_count)
          BY <2>4, Zenon DEF L!hasNext
        <4>2. m_count = n
          BY <2>1, <4>1 DEF LerpCount
        <4> QED BY <4>1, <4>2
      <3>2. ASSUME NEW k \in 1..n PROVE resampled[k].t \in L!StepTimes
        <4>1. PICK a \in Nat : a = k - 1
          OBVIOUS
        <4>2. resampled[k].t = L!getCurrent(a) /\ L!stepsHasNext(a)
          BY <2>2, <4>1
        <4>3. L!getCurrent(a) <= Finish /\ a <= L!getCurrent(a) /\ L!getCurrent(a) \in Nat
          BY <4>2, StepsGrow, StepsCounted
        <4>4. a \in 0..Finish
          BY <4>3, LerpAssumption
        <4> QED BY <4>2, <4>4 DEF L!StepTimes
      <3>3. ASSUME NEW x \in L!StepTimes PROVE \E k \in 1..n : resampled[k].t = x
        <4>1. PICK a \in 0..Finish : x = L!getCurrent(a) /\ L!stepsHasNext(a)
          BY DEF L!StepTimes
        <4>2. a \in Nat
          BY LerpAssumption
        <4>3. a < n
          <5>1. ASSUME n <= a PROVE FALSE
            <6>1. n \in 0..a
              BY <4>2, <5>1
            <6>2. L!getCurrent(n) <= L!getCurrent(a) /\ L!getCurrent(n) \in Nat /\ L!getCurrent(a) \in Nat
              BY <4>2, <6>1, StepsCounted, StepsGrow
            <6>3. L!atStepBoundaryEnd(Finish) \in Nat
              <7>1. L!atStepBoundaryEnd(Finish) = atStepBoundaryEnd(Finish)
                BY Zenon DEF L!atStepBoundaryEnd, atStepBoundaryEnd
              <7>2. atStepBoundaryEnd(Finish) = Step * (Finish \div Step) + Step
                    /\ Step * (Finish \div Step) \in Nat
                BY LerpAssumption, Boundaries
              <7> QED BY <7>1, <7>2, RowsAssumption
            <6>4. L!getCurrent(a) < L!atStepBoundaryEnd(Finish)
              BY <4>1, Zenon DEF L!stepsHasNext
            <6>5. L!getCurrent(n) < L!atStepBoundaryEnd(Finish)
              BY <6>2, <6>3, <6>4
            <6> QED BY <3>1, <6>5, Zenon DEF L!stepsHasNext
          <5> QED BY <4>2, <5>1
        <4>4. PICK k : k = a + 1 /\ k \in 1..n /\ k - 1 = a
          BY <4>2, <4>3
        <4> QED BY <2>2, <4>1, <4>4
      <3> QED BY <2>1, <3>2, <3>3
    <2> QED BY <2>1, <2>3, <2>4 DEF EveryStepOnce
  <1> QED BY <1>1, <1>2, <1>3, LerpInvHolds, PTL DEF MCSpec

-----------------------------------------------------------------------------
(* Rate: counters and their wraps. *)

(* A counter that counts stays within its width.                           *)
LEMMA CountedInWidth ==
    ASSUME NEW w \in {B32, B64}, NEW a \in Nat, a < w, NEW n \in Nat, n <= MostSeen(w)
    PROVE  Counted(a, n, w) \in Nat /\ Counted(a, n, w) < w
  BY WidthAssumption, SMT DEF Counted, MostSeen

(* delta() finds the increase of a counter that wrapped at most once,      *)
(* without being told its width.                                           *)
THEOREM DeltaOfCounted ==
    ASSUME NEW w \in {B32, B64}, NEW a \in Nat, a < w, NEW n \in Nat, n <= MostSeen(w)
    PROVE  delta(Counted(a, n, w), a) = n
  BY WidthAssumption, SMT DEF Counted, MostSeen, delta

(* Counting in two goes is counting once.                                  *)
LEMMA CountedTwice ==
    ASSUME NEW w \in {B32, B64}, NEW a \in Nat, a < w,
           NEW i \in Nat, NEW n \in Nat, i + n <= MostSeen(w)
    PROVE  Counted(Counted(a, i, w), n, w) = Counted(a, i + n, w)
  BY WidthAssumption, SMT DEF Counted, MostSeen

LEMMA WidthOf == \A m \in Metrics : Width[m] \in {B32, B64} /\ Width[m] <= B64
  BY RateAssumption, WidthAssumption, SMT

LEMMA InitInductive == Init => Inductive
  <1> SUFFICES ASSUME Init PROVE Inductive
    OBVIOUS
  <1>1. TypeOK
    BY DEF Init, TypeOK
  <1>2. ASSUME NEW m \in Metrics
        PROVE  register[m] < Width[m] /\ increase[m] <= MostSeen(Width[m])
    BY WidthOf, WidthAssumption, SMT DEF Init, MostSeen
  <1> QED BY <1>1, <1>2 DEF Init, Inductive

(* What the agent counts keeps the invariant.                              *)
LEMMA CountInductive ==
    ASSUME Inductive, NEW k \in Metrics, NEW n \in 1..MostSeen(Width[k]), Count(k, n)
    PROVE  Inductive'
  <1>1. /\ Width[k] \in {B32, B64} /\ Width[k] <= B64
        /\ register[k] \in Nat /\ register[k] < Width[k]
        /\ increase[k] \in Nat /\ n \in Nat
        /\ increase[k] + n <= MostSeen(Width[k]) /\ MostSeen(Width[k]) \in Int
    BY WidthOf, WidthAssumption, SMT DEF Inductive, TypeOK, Count, MostSeen
  <1>2. n <= MostSeen(Width[k])
    BY <1>1, SMT
  <1>3. /\ Counted(register[k], n, Width[k]) \in Nat
        /\ Counted(register[k], n, Width[k]) < Width[k]
    BY <1>1, <1>2, CountedInWidth
  <1>4. TypeOK'
    BY <1>1, <1>3, WidthAssumption, SMT DEF Inductive, TypeOK, Count
  <1>5. ASSUME NEW m \in Metrics
        PROVE  register'[m] < Width[m] /\ increase'[m] <= MostSeen(Width[m])
    BY <1>1, <1>3, SMT DEF Inductive, TypeOK, Count
  <1>6. ASSUME m_prev # NoRow, NEW m \in DOMAIN m_prev.c
        PROVE  /\ m_prev.c[m] < Width[m]
               /\ register'[m] = Counted(m_prev.c[m], increase'[m], Width[m])
    <2>1. m \in Metrics /\ m_prev.c[m] \in Nat
      BY <1>6, SMT DEF Inductive, TypeOK, Rows, Readings
    <2>2. m_prev.c[m] < Width[m] /\ register[m] = Counted(m_prev.c[m], increase[m], Width[m])
      BY <1>6 DEF Inductive
    <2>3. CASE m = k
      <3>1. Counted(Counted(m_prev.c[k], increase[k], Width[k]), n, Width[k])
              = Counted(m_prev.c[k], increase[k] + n, Width[k])
        BY <1>1, <2>1, <2>2, <2>3, CountedTwice
      <3>2. register'[k] = Counted(register[k], n, Width[k]) /\ increase'[k] = increase[k] + n
        BY SMT DEF Count, Inductive, TypeOK
      <3> QED BY <2>2, <2>3, <3>1, <3>2
    <2>4. CASE m # k
      <3>1. register'[m] = register[m] /\ increase'[m] = increase[m]
        BY <2>1, <2>4, SMT DEF Count, Inductive, TypeOK
      <3> QED BY <2>2, <3>1
    <2> QED BY <2>3, <2>4
  <1>7. m_prev' = m_prev
    BY DEF Count
  <1> QED BY <1>4, <1>5, <1>6, <1>7 DEF Inductive

(* A reading that is in a row is a reading.                                *)
LEMMA ProducedInRows ==
    ASSUME TypeOK, NEW S \in SUBSET Metrics, NEW t \in Elapsed
    PROVE  Produced(S, t) \in Rows /\ t \in Nat /\ (m_prev # NoRow => t > m_prev.t)
  <1>1. t \in Nat /\ (m_prev # NoRow => t > m_prev.t)
    BY RateAssumption, SMT DEF Elapsed, TypeOK, Rows
  <1>2. [m \in S |-> register[m]] \in [S -> 0..(B64 - 1)]
    BY SMT DEF TypeOK
  <1>3. [m \in S |-> register[m]] \in Readings
    BY <1>2 DEF Readings
  <1> QED BY <1>1, <1>3, SMT DEF Produced, Rows

(* The rate of a metric that did not fail is the rate of its increase.     *)
LEMMA RateIsOfIncrease ==
    ASSUME Inductive, NEW S \in SUBSET Metrics, NEW t \in Elapsed, ~Fails(Produced(S, t)),
           NEW m \in S
    PROVE  rateOf(Produced(S, t), m) =
             IF m_prev = NoRow THEN NanValue ELSE (increase[m] * PerSecond) \div (t - m_prev.t)
  <1>1. CASE m_prev = NoRow
    BY <1>1 DEF rateOf
  <1>2. CASE m_prev # NoRow
    <2>1. m \in DOMAIN m_prev.c
      BY <1>2 DEF Fails, Produced
    <2>2. m \in Metrics /\ m_prev.c[m] \in Nat
      BY <1>2, <2>1, SMT DEF Inductive, TypeOK, Rows, Readings
    <2>3. delta(register[m], m_prev.c[m]) = increase[m]
      BY <1>2, <2>1, <2>2, WidthOf, DeltaOfCounted DEF Inductive, TypeOK
    <2> QED BY <1>2, <2>3 DEF rateOf, Produced
  <1> QED BY <1>1, <1>2

(* The rates of a row are natural numbers or missing.                      *)
LEMMA RateInNat ==
    ASSUME Inductive, NEW S \in SUBSET Metrics, NEW t \in Elapsed, ~Fails(Produced(S, t)),
           NEW m \in S
    PROVE  rateOf(Produced(S, t), m) \in Nat \cup {NanValue}
  <1>1. CASE m_prev = NoRow
    BY <1>1, RateIsOfIncrease
  <1>2. CASE m_prev # NoRow
    <2>1. t - m_prev.t \in Nat /\ t - m_prev.t > 0
      BY <1>2, ProducedInRows, SMT DEF Inductive, TypeOK, Rows
    <2>2. increase[m] \in Nat /\ PerSecond \in Nat
      BY RateAssumption DEF Inductive, TypeOK
    <2>3. increase[m] * PerSecond \in Nat
      BY <2>2, SMT
    <2>4. \A p \in Nat, q \in Nat : q > 0 => p \div q \in Nat
      BY SMT
    <2>5. (increase[m] * PerSecond) \div (t - m_prev.t) \in Nat
      BY <2>1, <2>3, <2>4
    <2> QED BY <1>2, <2>5, RateIsOfIncrease
  <1> QED BY <1>1, <1>2

(* A row that is returned keeps the invariant.                             *)
LEMMA NextInductive ==
    ASSUME Inductive, NEW S \in SUBSET Metrics, NEW t \in Elapsed, next(Produced(S, t))
    PROVE  Inductive'
  <1> DEFINE r == Produced(S, t)
  <1>1. r \in Rows /\ t \in Nat
    BY ProducedInRows DEF Inductive
  <1>2. r.t = t /\ DOMAIN r.c = S
    BY DEF Produced
  <1>3. \A m \in S : rateOf(r, m) \in Nat \cup {NanValue}
    BY RateInNat DEF next
  <1>4. NewRow(r) \in [t : Nat, v : [Metrics -> Nat \cup {NanValue}]]
    BY <1>1, <1>2, <1>3 DEF NewRow
  <1>5. TypeOK'
    BY <1>1, <1>4 DEF Inductive, TypeOK, next
  <1>6. \A m \in Metrics : register'[m] < Width[m] /\ increase'[m] <= MostSeen(Width[m])
    BY WidthOf, WidthAssumption, SMT DEF Inductive, next, MostSeen
  <1>7. ASSUME NEW m \in S
        PROVE  r.c[m] < Width[m] /\ register'[m] = Counted(r.c[m], increase'[m], Width[m])
    <2>1. /\ m \in Metrics /\ r.c[m] = register[m]
          /\ register'[m] = register[m] /\ increase'[m] = 0
      BY DEF Produced, next
    <2>2. register[m] \in Nat /\ register[m] < Width[m] /\ Width[m] \in Nat
      BY <2>1, WidthOf, WidthAssumption, SMT DEF Inductive, TypeOK
    <2> QED BY <2>1, <2>2, SMT DEF Counted
  <1>8. m_prev' = r
    BY DEF next
  <1> HIDE DEF r
  <1> QED BY <1>2, <1>5, <1>6, <1>7, <1>8 DEF Inductive

LEMMA StepInductive == Inductive /\ [Next]_vars => Inductive'
  <1> SUFFICES ASSUME Inductive, [Next]_vars PROVE Inductive'
    OBVIOUS
  <1>1. CASE UNCHANGED vars
    BY <1>1 DEF vars, Inductive, TypeOK
  <1>2. ASSUME NEW m \in Metrics, NEW n \in 1..MostSeen(Width[m]), Count(m, n)
        PROVE  Inductive'
    BY <1>2, CountInductive
  <1>3. ASSUME NEW S \in SUBSET Metrics, NEW t \in Elapsed, next(Produced(S, t))
        PROVE  Inductive'
    BY <1>3, NextInductive
  <1>4. ASSUME NEW S \in SUBSET Metrics, NEW t \in Elapsed, nextThrows(Produced(S, t))
        PROVE  Inductive'
    BY <1>4 DEF nextThrows, Inductive, TypeOK
  <1> QED BY <1>1, <1>2, <1>3, <1>4 DEF Next

(* The counters always show the last row's readings and what they have     *)
(* counted since.                                                          *)
THEOREM InductiveHolds == Spec => []Inductive
  BY InitInductive, StepInductive, PTL DEF Spec

(* CounterValue.delta(): the difference of two readings is what the        *)
(* counter has counted, for both widths and across a wrap.                 *)
THEOREM ReadingsTellHolds == Spec => []ReadingsTell
  <1>1. Inductive => ReadingsTell
    <2> SUFFICES ASSUME Inductive, m_prev # NoRow, NEW m \in DOMAIN m_prev.c
                 PROVE  delta(register[m], m_prev.c[m]) = increase[m]
      BY DEF ReadingsTell
    <2>1. m \in Metrics /\ m_prev.c[m] \in Nat
      BY SMT DEF Inductive, TypeOK, Rows, Readings
    <2> QED BY <2>1, WidthOf, DeltaOfCounted DEF Inductive, TypeOK
  <1> QED BY <1>1, InductiveHolds, PTL

(* Rate.next(): every rate is that of the true increase.                   *)
THEOREM RateOfIncreaseHolds == Spec => RateOfIncrease
  <1> DEFINE Right == \A m \in Metrics :
                         (row' # row /\ m \in DOMAIN m_prev'.c) =>
                            row'.v[m] = IF m_prev = NoRow THEN NanValue
                                        ELSE (increase[m] * PerSecond) \div (m_prev'.t - m_prev.t)
  <1>1. Inductive /\ [Next]_vars => [Right]_vars
    <2> SUFFICES ASSUME Inductive, Next, NEW m \in Metrics, row' # row, m \in DOMAIN m_prev'.c
                 PROVE  row'.v[m] = IF m_prev = NoRow THEN NanValue
                                    ELSE (increase[m] * PerSecond) \div (m_prev'.t - m_prev.t)
      BY DEF vars
    <2>1. PICK S \in SUBSET Metrics, t \in Elapsed : next(Produced(S, t))
      BY DEF Next, Count, nextThrows
    <2>2. m_prev' = Produced(S, t) /\ row' = NewRow(Produced(S, t)) /\ ~Fails(Produced(S, t))
      BY <2>1 DEF next
    <2>3. m \in S /\ m_prev'.t = t
      BY <2>2 DEF Produced
    <2>4. row'.v[m] = rateOf(Produced(S, t), m)
      BY <2>2, <2>3 DEF NewRow, Produced
    <2>5. rateOf(Produced(S, t), m) =
             IF m_prev = NoRow THEN NanValue ELSE (increase[m] * PerSecond) \div (t - m_prev.t)
      BY <2>2, <2>3, RateIsOfIncrease
    <2> QED BY <2>3, <2>4, <2>5
  <1> QED BY <1>1, InductiveHolds, PTL DEF Spec, RateOfIncrease

-----------------------------------------------------------------------------
(* All processors. *)

(* A behaviour of the processors is one of Rate.                           *)
LEMMA RateIsUsed == MCSpec => Spec
  <1>1. MCInit => Init
    BY DEF MCInit
  <1>2. [MCNext]_allVars => [Next]_vars
    <2>1. ASSUME UNCHANGED allVars PROVE UNCHANGED vars
      BY <2>1 DEF allVars
    <2>2. ASSUME MCNext PROVE Next \/ UNCHANGED vars
      BY <2>2, Zenon DEF MCNext
    <2> QED BY <2>1, <2>2, Zenon
  <1> QED BY <1>1, <1>2, PTL DEF MCSpec, Spec

LEMMA RollTyped == StreamInv /\ RollInv /\ rest \in Seq(StreamRow) => R!TypeOK
  <1> SUFFICES ASSUME StreamInv, RollInv, rest \in Seq(StreamRow) PROVE R!TypeOK
    OBVIOUS
  <1>1. R!Row = StreamRow
    BY Zenon DEF R!Row, StreamRow
  <1>2. RollTypes
    BY Zenon DEF RollInv
  <1>3. m_currStepFloor % Step = 0
    <2>1. Step \in Nat \ {0}
      BY RowsAssumption
    <2>2. PICK q \in Nat : m_currStepFloor = Step * q
      <3>1. CASE m_currStepFloor = 0
        <4>1. Step * 0 = 0
          BY <2>1, SMT
        <4> QED BY <3>1, <4>1
      <3>2. CASE RollSteps /\ \E i \in DOMAIN rows : RollAt(i)
        <4>1. Sorted(rows)
          BY StreamsAreSorted DEF StreamInv
        <4>2. 1 \in DOMAIN rows
          BY <3>2, <4>1, SortedRows
        <4>3. PICK n \in Nat : n = rows[1].t
          BY <4>1, <4>2, SortedRows
        <4>4. PICK p \in Nat : p = n \div Step /\ Base = Step * p
          BY <4>3, Boundaries DEF Base
        <4>5. PICK j \in Nat : m_currStepFloor = Base + j * Step
          BY <3>2, Zenon DEF RollSteps
        <4>6. Step * p + j * Step = Step * (p + j) /\ p + j \in Nat
          BY <2>1, SMT
        <4> QED BY <4>4, <4>5, <4>6, Zenon
      <3> QED BY <3>1, <3>2, Zenon DEF RollInv, RollPlace
    <2> QED BY <2>1, <2>2, DivModUnique
  <1>4. R!Ints = Ints
    BY Zenon DEF R!Ints, Ints
  <1> QED BY <1>1, <1>2, <1>3, <1>4, Zenon DEF R!TypeOK, RollTypes, Pdps

LEMMA LerpTyped == StreamInv /\ LerpInv => L!TypeOK
  <1> SUFFICES ASSUME StreamInv, LerpInv PROVE L!TypeOK
    OBVIOUS
  <1>1. L!Row = StreamRow /\ Resampled = [t : Nat, v : Int \cup {NaN, Null}]
    BY Zenon DEF L!Row, StreamRow, Resampled
  <1>2. /\ rest \in Seq(StreamRow) /\ m_initComplete \in BOOLEAN /\ lerpThrew \in BOOLEAN
        /\ m_count \in Nat /\ resampled \in Seq(Resampled)
    BY Zenon DEF LerpInv, LerpTypes, LerpStep, LerpOutput
  <1>3. {m_prevL, m_rowL, m_rowR} \subseteq StreamRow \cup {None}
    <2>1. CASE m_prevL = None /\ m_rowL = None /\ m_rowR = None
      BY <2>1
    <2>2. CASE \E i \in DOMAIN rows : LerpAt(i)
      <3>1. PICK i : LerpAt(i)
        BY <2>2
      <3>2. Sorted(rows)
        BY StreamsAreSorted DEF StreamInv
      <3>3. i \in 1..Len(rows) /\ Len(rows) \in Nat
        BY <3>1, <3>2, InHand
      <3>4. i = 1 \/ i > 1
        BY <3>3
      <3>5. i = Len(rows) \/ i < Len(rows)
        BY <3>3
      <3>6. m_rowL \in StreamRow /\ m_rowR \in StreamRow \cup {None}
        BY <3>1, <3>2, <3>5, InHand
      <3>7. m_prevL \in StreamRow
        BY <3>1, <3>2, <3>4, InHand
      <3> QED BY <3>6, <3>7
    <2> QED BY <2>1, <2>2, Zenon DEF LerpInv, LerpPlace
  <1>4. m_currentStep \in {None} \cup L!atStepBoundaryStart(Start)..Finish
    <2>1. CASE m_currentStep # None
      <3>1. m_count - 1 \in Nat
        BY <1>2, <2>1 DEF LerpInv, LerpStep
      <3>2. m_currentStep = L!getCurrent(m_count - 1) /\ L!stepsHasNext(m_count - 1)
        BY <2>1, Zenon DEF LerpInv, LerpStep
      <3>3. L!atStepBoundaryStart(Start) = atStepBoundaryStart(Start)
        BY Zenon DEF L!atStepBoundaryStart, atStepBoundaryStart
      <3>4. /\ m_currentStep \in Nat /\ L!atStepBoundaryStart(Start) \in Nat
            /\ L!atStepBoundaryStart(Start) <= m_currentStep /\ m_currentStep <= Finish
        BY <3>1, <3>2, <3>3, StepsGrow
      <3> QED BY <3>4, LerpAssumption
    <2> QED BY <2>1
  <1> QED BY <1>1, <1>2, <1>3, <1>4, Zenon DEF L!TypeOK

LEMMA PlotTyped == PlotInv => P!PlotTypeOK
  <1> SUFFICES ASSUME PlotInv PROVE P!PlotTypeOK
    OBVIOUS
  <1>1. P!Range(inFlight) \subseteq Forms
    BY Zenon DEF PlotInv, PlotTypes, P!Range
  <1>2. \A i \in DOMAIN chart : chart[i] \in Graphs
    BY DEF PlotInv, PlotTypes
  <1>3. \A i \in DOMAIN chart : chart[i].request \in 1..asked /\ chart[i].rows \in Tables
    BY <1>2, GraphFields, Zenon DEF PlotInv, ChartInv
  <1> QED BY <1>1, <1>3, Zenon DEF PlotInv, PlotTypes, P!PlotTypeOK

(* Every variable of the processor in use keeps its type, for all streams, *)
(* counters, forms and tables.                                             *)
THEOREM ProcessorsTypeOKHolds == MCSpec => []ProcessorsTypeOK
  <1>1. StreamInv /\ LerpInv /\ RollInv /\ PlotInv /\ Inductive => ProcessorsTypeOK
    BY RollTyped, LerpTyped, PlotTyped DEF ProcessorsTypeOK, Inductive, LerpInv, LerpTypes
  <1> QED BY <1>1, LerpInvHolds, RollInvHolds, PlotInvHolds, InductiveHolds, RateIsUsed, PTL
=============================================================================
