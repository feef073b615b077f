------------------------------ MODULE SampleSet ------------------------------
(***************************************************************************)
(* org.opennms.netmgt.api.sample.SampleSet: a list of samples with three   *)
(* lazily built indexes over it.  The indexes are transient: they are null *)
(* in a copy made by Java serialization (which keeps the dirty flags) or   *)
(* by JAXB (which fills the list directly and leaves the flags at FALSE).  *)
(* A SampleSet is used by one thread at a time ("not thread-safe").        *)
(***************************************************************************)
EXTENDS Naturals, Sequences, SequencesExt

CONSTANTS Resources, Groups,  \* of the samples that collectors add
          MaxSamples,         \* bound on the samples in a set
          Null

ASSUME SampleSetAssumption == MaxSamples \in Nat

(* A sample: its place in the list identifies it.                          *)
Sample == [n : 1..MaxSamples, resource : Resources, group : Groups]

Indexes == {"byResourceGroup", "byResource", "byGroup"}

(* The key under which an index files a sample.                            *)
KeyOf(x, s) == CASE x = "byResourceGroup" -> <<s.resource, s.group>>
                 [] x = "byResource" -> <<s.resource>>
                 [] x = "byGroup" -> <<s.group>>

Keys(x) == CASE x = "byResourceGroup" -> Resources \X Groups
             [] x = "byResource" -> {<<r>> : r \in Resources}
             [] x = "byGroup" -> {<<g>> : g \in Groups}

VARIABLES
    m_measurements,  \* the list
    index,           \* index name -> key -> samples, or Null
    dirty,           \* index name -> its flag m_dirtyBy...
    lateAdd          \* index name -> was a sample added after it was last built? (history)

vars == <<m_measurements, index, dirty, lateAdd>>

NoEntries(x) == [k \in Keys(x) |-> <<>>]

TypeOK ==
    /\ m_measurements \in Seq(Sample)
    /\ \A x \in Indexes :
          index[x] # Null => index[x] \in [Keys(x) -> Seq(Sample)]
    /\ dirty \in [Indexes -> BOOLEAN]
    /\ lateAdd \in [Indexes -> BOOLEAN]

Init ==
    /\ m_measurements = <<>>
    /\ index = [x \in Indexes |-> Null]
    /\ dirty = [x \in Indexes |-> FALSE]
    /\ lateAdd = [x \in Indexes |-> FALSE]

addMeasurement(r, g) ==
    /\ Len(m_measurements) < MaxSamples
    /\ m_measurements' = Append(m_measurements,
          [n |-> Len(m_measurements) + 1, resource |-> r, group |-> g])
    /\ dirty' = [x \in Indexes |-> TRUE]
    /\ lateAdd' = [x \in Indexes |-> index[x] # Null]
    /\ UNCHANGED index

(* Mutant: validateBy...() creates the map and leaves the flag alone. *)
NeedsBuildByFlag(x) == dirty[x]

(* validateBy...(): an index that is null is built whatever the flag says. *)
NeedsBuild(x) == index[x] = Null \/ dirty[x]

(* Mutant: the loop files the resources in place of the samples. *)
FiledResources(x, k, old) ==
    old \o [j \in DOMAIN m_measurements |-> m_measurements[j].resource]

(* The loop of indexBy...(): it files every sample of the list, behind     *)
(* whatever the map holds under its key already; filed[n] is what it holds *)
(* after n samples.                                                        *)
Filed(x, k, old) ==
    LET filed[n \in 0..Len(m_measurements)] ==
          IF n = 0 THEN old
          ELSE IF KeyOf(x, m_measurements[n]) = k THEN Append(filed[n - 1], m_measurements[n])
          ELSE filed[n - 1]
    IN  filed[Len(m_measurements)]

(* Any getter that reads an index: getResources, getGroups, getSamplesFor... *)
Query(x) ==
    /\ LET old == IF index[x] = Null THEN NoEntries(x) ELSE index[x]
       IN  index' = [index EXCEPT ![x] =
              IF NeedsBuild(x) THEN [k \in Keys(x) |-> Filed(x, k, old[k])] ELSE old]
    /\ dirty' = [dirty EXCEPT ![x] = FALSE]
    /\ UNCHANGED <<m_measurements, lateAdd>>

(* The set is serialized and read back: ActiveMQ's ObjectMessage. *)
Deserialize ==
    /\ index' = [x \in Indexes |-> Null]
    /\ lateAdd' = [x \in Indexes |-> FALSE]
    /\ UNCHANGED <<m_measurements, dirty>>

(* The set is marshalled to XML and read back. *)
Unmarshal ==
    /\ index' = [x \in Indexes |-> Null]
    /\ dirty' = [x \in Indexes |-> FALSE]
    /\ lateAdd' = [x \in Indexes |-> FALSE]
    /\ UNCHANGED m_measurements

Next ==
    \/ \E r \in Resources, g \in Groups : addMeasurement(r, g)
    \/ \E x \in Indexes : Query(x)
    \/ Deserialize
    \/ Unmarshal

Spec == Init /\ [][Next]_vars

-----------------------------------------------------------------------------
(* What a getter of index x returns for key k. *)
Answer(x, k) ==
    LET old == IF index[x] = Null THEN <<>> ELSE index[x][k]
    IN  IF NeedsBuild(x) THEN Filed(x, k, old) ELSE old

(* The samples that belong under key k of index x.                         *)
Samples(x, k) == {s \in ToSet(m_measurements) : KeyOf(x, s) = k}

(* Sequence q names each member of S once, in the order of the list.       *)
Lists(q, S) == ToSet(q) = S /\ \A i, j \in DOMAIN q : i < j => q[i].n < q[j].n

(* A getter never misses a sample of the list and never returns another    *)
(* one, whatever was added, asked and copied between containers before; it *)
(* returns each once, in the order of the list, unless one was added after *)
(* a query.                                                                *)
GettersAgree ==
    \A x \in Indexes : \A k \in Keys(x) :
       /\ ToSet(Answer(x, k)) = Samples(x, k)
       /\ ~lateAdd[x] => Lists(Answer(x, k), Samples(x, k))

(* What "Rebuild the byGroup map as needed" says: a getter returns the     *)
(* samples of the list, each once.                                         *)
AlwaysAgrees ==
    \A x \in Indexes : \A k \in Keys(x) : Lists(Answer(x, k), Samples(x, k))
=============================================================================
