---------------------------- MODULE PollingProofs ----------------------------
(***************************************************************************)
(* Theorems about Polling, for any versions of the configuration, any      *)
(* services and any number of restarts of either bundle.                   *)
(***************************************************************************)
EXTENDS Polling, SequenceLemmas, TLAPS

(* The parts of the state that decide on what polls are replaced by.       *)
PollingTypes ==
    /\ offered \in Versions
    /\ instance \in Versions \cup {Null}
    /\ body \in [Timers -> Versions \cup {Null}]
    /\ pc \in [Timers -> {"timer", "fetched", "packages", "done"}]
    /\ read \in Versions \cup {Null}
    /\ polled \in [Ids -> Versions \cup {Null}]
    /\ packages \in Seq(Ids)
    /\ lists \in Seq([id : Ids, empty : BOOLEAN])

AtMost(v, w) == w # Null => v <= w

(* The startup reads the configuration once, and lists come from there.    *)
ReadOnce ==
    /\ read # Null => pc["runOnce"] = "done"
    /\ read = Null => packages = <<>> /\ lists = <<>>

(* Whatever was loaded is a version that the server has offered.           *)
Offered(v) == v # Null => v <= offered

LoadedWasOffered ==
    Offered(instance) /\ Offered(read) /\ \A t \in Timers : Offered(body[t])

(* No poll is newer than what the server offers, nor than what the startup *)
(* has read or, before that, may come to read: in its life sampler-config  *)
(* has seen nothing older than the polls that it found.                    *)
NotNewer(v) ==
    /\ v <= offered
    /\ AtMost(v, read)
    /\ read = Null => AtMost(v, instance) /\ \A t \in Timers : AtMost(v, body[t])

PollsNotNewer == \A i \in Ids : polled[i] # Null => NotNewer(polled[i])

PollingInv == PollingTypes /\ ReadOnce /\ LoadedWasOffered /\ PollsNotNewer

-----------------------------------------------------------------------------
LEMMA VersionsAreNumbers == Versions \subseteq Nat /\ Null \notin Versions
  BY SamplerConfigAssumption DEF Versions

(* At the start nothing was read and nothing is polled.                    *)
LEMMA InitPolling == PollingInit => PollingInv
  BY SamplerConfigAssumption
     DEF PollingInit, Init, PollingInv, PollingTypes, ReadOnce, LoadedWasOffered, Offered,
         PollsNotNewer, Versions

(* Steps that change neither the configuration that was loaded nor polls.  *)
LEMMA QuietPolling ==
    ASSUME PollingInv, PollingTypes', UNCHANGED <<instance, body, read, polled>>,
           pc'["runOnce"] = pc["runOnce"],
           offered' >= offered,
           read = Null => packages' = <<>> /\ lists' = <<>>
    PROVE  PollingInv'
  <1>1. ReadOnce'
    BY DEF PollingInv, ReadOnce
  <1>2. ASSUME NEW i \in Ids, polled[i] # Null
        PROVE  NotNewer(polled[i])'
    <2>1. polled[i] \in Nat /\ offered \in Nat /\ offered' \in Nat /\ polled[i] <= offered
      BY <1>2, VersionsAreNumbers DEF PollingInv, PollingTypes, PollsNotNewer, NotNewer
    <2> QED BY <1>2, <2>1 DEF PollingInv, PollsNotNewer, NotNewer, AtMost
  <1>3. PollsNotNewer'
    BY <1>2 DEF PollsNotNewer
  <1>4. /\ offered \in Nat /\ offered' \in Nat
        /\ \A v \in Versions : v \in Nat
    BY VersionsAreNumbers DEF PollingInv, PollingTypes
  <1>5. /\ instance \in Versions \cup {Null} /\ read \in Versions \cup {Null}
        /\ \A t \in Timers : body[t] \in Versions \cup {Null}
    BY DEF PollingInv, PollingTypes
  <1>6. \A v \in Versions \cup {Null} : Offered(v) => Offered(v)'
    BY <1>4 DEF Offered
  <1>7. LoadedWasOffered'
    BY <1>5, <1>6 DEF PollingInv, LoadedWasOffered, Offered
  <1> QED BY <1>1, <1>3, <1>7 DEF PollingInv

(* A timer's thread.                                                       *)
LEMMA TimerPolling ==
    ASSUME PollingInv, NEW t \in Timers, TimerStep(t), UNCHANGED polled
    PROVE  PollingInv'
  <1>1. /\ offered' = offered /\ read' = read
        /\ packages' = packages /\ lists' = lists
    BY Zenon DEF TimerStep, Fetch, FetchFails, SetInstance
  <1>2. /\ pc \in [Timers -> {"timer", "fetched", "packages", "done"}]
        /\ body \in [Timers -> Versions \cup {Null}] /\ offered \in Versions
        /\ instance \in Versions \cup {Null}
    BY DEF PollingInv, PollingTypes
  <1>3. read # Null => pc'["runOnce"] = "done"
    <2>1. read # Null => pc["runOnce"] = "done"
      BY DEF PollingInv, ReadOnce
    <2>2. pc[t] # "done"
      BY <1>2 DEF TimerStep, Fetch, FetchFails, SetInstance
    <2>3. \A u \in Timers : u # t => pc'[u] = pc[u]
      BY <1>2 DEF TimerStep, Fetch, FetchFails, SetInstance
    <2> QED BY <2>1, <2>2, <2>3 DEF Timers
  <1>4. ReadOnce'
    BY <1>1, <1>3 DEF PollingInv, ReadOnce
  <1>5. /\ pc' \in [Timers -> {"timer", "fetched", "packages", "done"}]
        /\ body' \in [Timers -> Versions \cup {Null}]
        /\ instance' \in Versions \cup {Null}
    <2>1. CASE Fetch(t)
      BY <1>2, <2>1 DEF Fetch
    <2>2. CASE FetchFails(t)
      BY <1>2, <2>2 DEF FetchFails, AfterLoading
    <2>3. CASE SetInstance(t)
      BY <1>2, <2>3 DEF SetInstance, Accept, AfterLoading
    <2> QED BY <2>1, <2>2, <2>3 DEF TimerStep
  <1>6. PollingTypes'
    BY <1>1, <1>5 DEF PollingInv, PollingTypes
  <1>7. ASSUME NEW i \in Ids, polled[i] # Null, read = Null
        PROVE  /\ AtMost(polled[i], instance')
               /\ \A u \in Timers : AtMost(polled[i], body'[u])
    <2>1. /\ polled[i] <= offered /\ AtMost(polled[i], instance)
          /\ \A u \in Timers : AtMost(polled[i], body[u])
      BY <1>7 DEF PollingInv, PollsNotNewer, NotNewer
    <2>2. CASE Fetch(t)
      <3>1. \A u \in Timers : body'[u] \in {body[u], offered, Null}
        BY <1>2, <2>2 DEF Fetch
      <3> QED BY <2>1, <2>2, <3>1 DEF Fetch, AtMost
    <2>3. CASE FetchFails(t)
      BY <2>1, <2>3 DEF FetchFails
    <2>4. CASE SetInstance(t)
      BY <2>1, <2>4 DEF SetInstance, Accept, AtMost
    <2> QED BY <2>2, <2>3, <2>4 DEF TimerStep
  <1>8. PollsNotNewer'
    BY <1>1, <1>7 DEF PollingInv, PollsNotNewer, NotNewer
  <1>9. LoadedWasOffered'
    <2>1. offered <= offered
      BY <1>2, VersionsAreNumbers
    <2>2. CASE Fetch(t)
      <3>1. \A u \in Timers : body'[u] \in {body[u], offered, Null}
        BY <1>2, <2>2 DEF Fetch
      <3> QED BY <1>1, <2>1, <2>2, <3>1 DEF PollingInv, LoadedWasOffered, Offered, Fetch
    <2>3. CASE FetchFails(t)
      BY <2>3 DEF PollingInv, LoadedWasOffered, Offered, FetchFails
    <2>4. CASE SetInstance(t)
      BY <2>4 DEF PollingInv, LoadedWasOffered, Offered, SetInstance, Accept
    <2> QED BY <2>2, <2>3, <2>4 DEF TimerStep
  <1> QED BY <1>4, <1>6, <1>8, <1>9 DEF PollingInv

(* The startup reads the configuration.                                    *)
LEMMA ReadPolling ==
    ASSUME PollingInv, LoadCollectionPackages, UNCHANGED polled
    PROVE  PollingInv'
  <1>1. /\ pc["runOnce"] = "packages" /\ read' = instance
        /\ offered' = offered /\ instance' = instance /\ body' = body /\ lists' = lists
        /\ pc' = [pc EXCEPT !["runOnce"] = "done"]
        /\ instance = Null => packages' = packages
    BY Zenon DEF LoadCollectionPackages
  <1>2. read = Null /\ packages = <<>> /\ lists = <<>>
    BY <1>1 DEF PollingInv, ReadOnce
  <1>3. pc' \in [Timers -> {"timer", "fetched", "packages", "done"}] /\ pc'["runOnce"] = "done"
    BY <1>1 DEF PollingInv, PollingTypes, Timers
  <1>4. packages' \in Seq(Ids)
    <2>1. CASE instance = Null
      BY <1>1, <2>1 DEF PollingInv, PollingTypes
    <2>2. CASE instance # Null
      <3>1. PICK s \in Split(instance) : packages' = packages \o s
        BY <2>2, Zenon DEF LoadCollectionPackages
      <3>2. instance \in 1..MaxVersion /\ Content[instance] \subseteq Ids
        BY <2>2, SamplerConfigAssumption DEF PollingInv, PollingTypes, Versions
      <3>3. Cardinality(Content[instance]) \in Nat
        BY <3>2, SamplerConfigAssumption, FS_Subset, FS_CardinalityType
      <3>4. s \in [1..Cardinality(Content[instance]) -> Content[instance]]
        BY <3>1 DEF Split, SetToSeqs
      <3>5. s \in Seq(Ids)
        BY <3>2, <3>3, <3>4
      <3> QED BY <3>1, <3>5 DEF PollingInv, PollingTypes
    <2> QED BY <2>1, <2>2
  <1>5. PollingTypes'
    BY <1>1, <1>3, <1>4 DEF PollingInv, PollingTypes
  <1>6. ReadOnce'
    BY <1>1, <1>2, <1>3 DEF ReadOnce
  <1>7. PollsNotNewer'
    BY <1>1, <1>2 DEF PollingInv, PollsNotNewer, NotNewer
  <1>8. LoadedWasOffered'
    BY <1>1 DEF PollingInv, LoadedWasOffered, Offered
  <1> QED BY <1>5, <1>6, <1>7, <1>8 DEF PollingInv

(* The routes behind it, and the environment.                              *)
LEMMA RoutePolling ==
    ASSUME PollingInv, UNCHANGED polled,
           LoadPackageAgents \/ LoadPackageAgentsFails \/ Edit \/ SchedulerAppears
    PROVE  PollingInv'
  <1>1. /\ instance' = instance /\ body' = body /\ read' = read /\ pc' = pc
    BY Zenon DEF LoadPackageAgents, LoadPackageAgentsFails, Edit, SchedulerAppears
  <1>2. /\ offered \in Versions /\ packages \in Seq(Ids)
        /\ lists \in Seq([id : Ids, empty : BOOLEAN])
    BY DEF PollingInv, PollingTypes
  <1>3. offered' \in Versions /\ offered' >= offered
    BY <1>2, SamplerConfigAssumption
       DEF LoadPackageAgents, LoadPackageAgentsFails, Edit, SchedulerAppears, Versions
  <1>4. /\ packages' \in Seq(Ids) /\ lists' \in Seq([id : Ids, empty : BOOLEAN])
        /\ packages = <<>> /\ lists = <<>> => packages' = <<>> /\ lists' = <<>>
    <2>1. CASE LoadPackageAgents
      <3>1. packages # <<>> /\ packages' = Tail(packages)
        BY <2>1 DEF LoadPackageAgents
      <3>2. Head(packages) \in Ids /\ Tail(packages) \in Seq(Ids)
        BY <1>2, <3>1
      <3>3. PICK e \in BOOLEAN :
               lists' \in {lists, Append(lists, [id |-> Head(packages), empty |-> e])}
        BY <2>1 DEF LoadPackageAgents
      <3>4. lists' \in Seq([id : Ids, empty : BOOLEAN])
        <4>1. [id |-> Head(packages), empty |-> e] \in [id : Ids, empty : BOOLEAN]
          BY <3>2
        <4>2. Append(lists, [id |-> Head(packages), empty |-> e])
                 \in Seq([id : Ids, empty : BOOLEAN])
          BY <1>2, <4>1, AppendType
        <4> QED BY <1>2, <3>3, <4>2, Zenon
      <3> QED BY <3>1, <3>2, <3>4
    <2>2. CASE LoadPackageAgentsFails
      BY <1>2, <2>2 DEF LoadPackageAgentsFails
    <2>3. CASE Edit \/ SchedulerAppears
      BY <1>2, <2>3 DEF Edit, SchedulerAppears
    <2> QED BY <2>1, <2>2, <2>3
  <1>5. PollingTypes'
    BY <1>1, <1>3, <1>4 DEF PollingInv, PollingTypes
  <1>6. read = Null => packages' = <<>> /\ lists' = <<>>
    BY <1>4 DEF PollingInv, ReadOnce
  <1> QED BY <1>1, <1>3, <1>5, <1>6, QuietPolling

(* A list replaces the polls of its id by those of what was read.          *)
LEMMA SchedulePolling ==
    ASSUME PollingInv, Schedule
    PROVE  /\ PollingInv'
           /\ \A i \in Ids : polled[i] # Null => polled'[i] # Null /\ polled'[i] >= polled[i]
  <1>1. /\ lists # <<>> /\ lists' = Tail(lists) /\ packages' = packages
        /\ polled' = Replaced(Head(lists))
        /\ offered' = offered /\ instance' = instance /\ body' = body
        /\ read' = read /\ pc' = pc
    BY Zenon DEF Schedule, ScheduleAgents
  <1>2. /\ read \in Versions /\ offered \in Versions
        /\ lists \in Seq([id : Ids, empty : BOOLEAN])
        /\ polled \in [Ids -> Versions \cup {Null}]
    BY <1>1 DEF PollingInv, PollingTypes, ReadOnce
  <1>3. /\ Head(lists) \in [id : Ids, empty : BOOLEAN]
        /\ Tail(lists) \in Seq([id : Ids, empty : BOOLEAN])
    BY <1>1, <1>2, HeadAndTail
  <1>4. /\ polled' \in [Ids -> Versions \cup {Null}]
        /\ \A i \in Ids : polled'[i] \in {polled[i], read}
    BY <1>1, <1>2, <1>3 DEF Replaced
  <1>5. PollingTypes'
    BY <1>1, <1>3, <1>4 DEF PollingInv, PollingTypes
  <1>6. read # Null /\ read \in Nat /\ offered \in Nat
    BY <1>2, VersionsAreNumbers
  <1>7. ReadOnce'
    BY <1>1, <1>6 DEF PollingInv, ReadOnce
  <1>8. LoadedWasOffered'
    BY <1>1 DEF PollingInv, LoadedWasOffered, Offered
  <1>9. read <= offered /\ read <= read
    BY <1>6 DEF PollingInv, LoadedWasOffered, Offered
  <1>10. \A i \in Ids : polled[i] # Null => polled[i] <= read
    BY <1>6 DEF PollingInv, PollsNotNewer, NotNewer, AtMost
  <1>11. ASSUME NEW i \in Ids, polled'[i] # Null
         PROVE  NotNewer(polled[i])'
    <2>1. polled'[i] <= offered /\ polled'[i] <= read
      BY <1>4, <1>9, <1>10, <1>11 DEF PollingInv, PollsNotNewer, NotNewer
    <2> QED BY <1>1, <1>6, <2>1 DEF NotNewer, AtMost
  <1>12. \A i \in Ids : polled[i] # Null => polled[i] \in Nat
    BY <1>2, VersionsAreNumbers
  <1>13. \A i \in Ids : polled[i] # Null => polled'[i] # Null /\ polled'[i] >= polled[i]
    BY <1>4, <1>6, <1>10, <1>12
  <1> QED BY <1>5, <1>7, <1>8, <1>11, <1>13 DEF PollingInv, PollsNotNewer

(* A new life of sampler-config has loaded nothing yet.                    *)
LEMMA RestartPolling ==
    ASSUME PollingInv, ConfigRestarts
    PROVE  PollingInv'
  <1>1. PollingTypes'
    BY DEF PollingInv, PollingTypes, ConfigRestarts, Timers
  <1>2. ReadOnce'
    BY DEF ReadOnce, ConfigRestarts
  <1>3. LoadedWasOffered'
    BY DEF LoadedWasOffered, Offered, ConfigRestarts
  <1>4. PollsNotNewer'
    BY DEF PollingInv, PollsNotNewer, NotNewer, AtMost, ConfigRestarts
  <1> QED BY <1>1, <1>2, <1>3, <1>4 DEF PollingInv

(* A scheduler that stops leaves nothing polled.                           *)
LEMMA StopPolling ==
    ASSUME PollingInv, SchedulerStops
    PROVE  PollingInv' /\ \A i \in Ids : polled'[i] = Null
  <1>1. /\ polled' = [i \in Ids |-> Null]
        /\ offered' = offered /\ instance' = instance /\ body' = body /\ read' = read
        /\ pc' = pc /\ packages' = packages /\ lists' = lists
    BY Zenon DEF SchedulerStops
  <1>2. PollingTypes' /\ PollsNotNewer'
    <2>1. PollingTypes'
      BY <1>1 DEF PollingInv, PollingTypes
    <2>2. \A i \in Ids : polled'[i] = Null
      BY <1>1
    <2> QED BY <2>1, <2>2 DEF PollsNotNewer
  <1>3. ReadOnce' /\ LoadedWasOffered'
    BY <1>1 DEF PollingInv, ReadOnce, LoadedWasOffered, Offered
  <1> QED BY <1>1, <1>2, <1>3 DEF PollingInv

(* Every step keeps the invariant, and none puts older polls in the place  *)
(* of newer ones.                                                          *)
LEMMA NextPolling ==
    ASSUME PollingInv, [PollingNext]_pollingVars
    PROVE  /\ PollingInv'
           /\ \A i \in Ids : polled[i] # Null /\ polled'[i] # Null => polled'[i] >= polled[i]
  <1>0. ASSUME UNCHANGED polled
        PROVE  \A i \in Ids : polled[i] # Null /\ polled'[i] # Null => polled'[i] >= polled[i]
    <2>1. \A i \in Ids : polled[i] # Null => polled[i] \in Nat
      BY VersionsAreNumbers DEF PollingInv, PollingTypes
    <2> QED BY <1>0, <2>1
  <1>1. CASE UNCHANGED pollingVars
    <2>1. UNCHANGED <<instance, body, read, polled, pc, offered, packages, lists>>
      BY <1>1 DEF pollingVars, vars
    <2>2. PollingInv'
      BY <2>1 DEF PollingInv, PollingTypes, ReadOnce, LoadedWasOffered, Offered,
                  PollsNotNewer, NotNewer, AtMost
    <2> QED BY <1>0, <2>1, <2>2
  <1>2. CASE ConfigStep
    <2>1. UNCHANGED polled
      BY <1>2 DEF ConfigStep
    <2>2. CASE \E t \in Timers : TimerStep(t)
      BY <1>0, <2>1, <2>2, TimerPolling
    <2>3. CASE LoadCollectionPackages
      BY <1>0, <2>1, <2>3, ReadPolling
    <2>4. CASE LoadPackageAgents \/ LoadPackageAgentsFails \/ Edit \/ SchedulerAppears
      BY <1>0, <2>1, <2>4, RoutePolling
    <2>5. PollingInv'
      BY <1>2, <2>2, <2>3, <2>4, Zenon DEF ConfigStep
    <2> QED BY <1>0, <2>1, <2>5
  <1>3. CASE Schedule
    BY <1>3, SchedulePolling
  <1>4. CASE ConfigRestarts
    <2>1. UNCHANGED polled
      BY <1>4 DEF ConfigRestarts
    <2> QED BY <1>0, <1>4, <2>1, RestartPolling
  <1>5. CASE SchedulerStops
    BY <1>5, StopPolling
  <1> QED BY <1>1, <1>2, <1>3, <1>4, <1>5 DEF PollingNext

(* The inductive invariant: runOnce reads one version per start, what was  *)
(* loaded was offered, and no poll is of a version newer than that.        *)
THEOREM PollingInvHolds == PollingSpec => []PollingInv
  <1>1. PollingInv /\ [PollingNext]_pollingVars => PollingInv'
    BY NextPolling
  <1> QED BY <1>1, InitPolling, PTL DEF PollingSpec

(* The polls of an id are never replaced by those of an older version of   *)
(* its list, however the two timers race and whatever restarts.            *)
THEOREM NeverOlderPollsHolds == PollingSpec => NeverOlderPolls
  <1>1. PollingInv /\ [PollingNext]_pollingVars
           => [\A i \in Ids : polled[i] # Null /\ polled'[i] # Null
                 => polled'[i] >= polled[i]]_pollingVars
    BY NextPolling
  <1> QED BY <1>1, PollingInvHolds, PTL DEF PollingSpec, NeverOlderPolls

LEMMA LivesAreCounted == PollingSpec => [](lives \in Nat)
  <1>1. PollingInit => lives \in Nat
    BY DEF PollingInit
  <1>2. lives \in Nat /\ [PollingNext]_pollingVars => (lives \in Nat)'
    BY DEF PollingNext, pollingVars, ConfigStep, Schedule, ConfigRestarts, SchedulerStops
  <1> QED BY <1>1, <1>2, PTL DEF PollingSpec

(* A configuration that was loaded is not lost before sampler-config       *)
(* restarts, whatever the server answers.                                  *)
THEOREM NeverBackToNullHolds == PollingSpec => NeverBackToNull
  <1>1. ASSUME lives \in Nat, [PollingNext]_pollingVars
        PROVE  [instance # Null /\ lives' = lives => instance' # Null]_pollingVars
    <2> SUFFICES ASSUME instance # Null, lives' = lives, PollingNext
                 PROVE  instance' # Null
      BY <1>1
    <2>1. CASE ConfigStep
      <3>1. CASE \E t \in Timers : TimerStep(t)
        BY <3>1 DEF TimerStep, Fetch, FetchFails, SetInstance, Accept
      <3>2. CASE ~ \E t \in Timers : TimerStep(t)
        <4>1. instance' = instance
          BY <2>1, <3>2, Zenon DEF ConfigStep, LoadCollectionPackages, LoadPackageAgents,
                LoadPackageAgentsFails, Edit, SchedulerAppears
        <4> QED BY <4>1
      <3> QED BY <3>1, <3>2
    <2>2. CASE Schedule \/ SchedulerStops
      <3>1. instance' = instance
        BY <2>2, Zenon DEF Schedule, ScheduleAgents, SchedulerStops
      <3> QED BY <3>1
    <2>3. ~ConfigRestarts
      BY <1>1 DEF ConfigRestarts
    <2> QED BY <2>1, <2>2, <2>3 DEF PollingNext
  <1> QED BY <1>1, LivesAreCounted, PTL DEF PollingSpec, NeverBackToNull

-----------------------------------------------------------------------------
(* Where the pairs of a configuration are. *)

ListsOf(i) == {l \in [id : Ids, empty : BOOLEAN] : l.id = i}

Waiting(i) == Cardinality(Hits(packages, {i}))
Listed(i) == Cardinality(Hits(lists, ListsOf(i)))
Scheduled(i) == IF i \in scheduled THEN 1 ELSE 0
Dropped(i) == IF i \in dropped THEN 1 ELSE 0
Expected(i) == IF read # Null /\ i \in Content[read] THEN 1 ELSE 0

OtherTypes ==
    /\ scheduled \in SUBSET Ids /\ dropped \in SUBSET Ids /\ schedulerUp \in BOOLEAN
    /\ lives \in 1..MaxLives /\ forgotten \subseteq Ids

OncePerPair == \A i \in Ids : ((Waiting(i) + Listed(i)) + Scheduled(i)) + Dropped(i) = Expected(i)

PipelineInv == PollingInv /\ OtherTypes /\ OncePerPair

LEMMA WaysAreHits == ASSUME PollingTypes PROVE EachPairOnce <=> OncePerPair
  <1>1. ASSUME NEW i \in Ids
        PROVE  Hits(packages, {i}) = {k \in DOMAIN packages : packages[k] = i}
    BY DEF Hits
  <1>2. ASSUME NEW i \in Ids
        PROVE  Hits(lists, ListsOf(i)) = {k \in DOMAIN lists : lists[k].id = i}
    <2>1. \A k \in DOMAIN lists : lists[k] \in [id : Ids, empty : BOOLEAN]
      <3>1. lists \in Seq([id : Ids, empty : BOOLEAN])
        BY DEF PollingTypes
      <3> QED BY <3>1, ElementType
    <2> QED BY <2>1 DEF Hits, ListsOf
  <1> QED BY <1>1, <1>2 DEF EachPairOnce, OncePerPair, Waiting, Listed, Scheduled, Dropped, Expected

LEMMA WaysAreNumbers ==
    ASSUME PollingTypes, NEW i \in Ids
    PROVE  /\ Waiting(i) \in Nat /\ Listed(i) \in Nat
           /\ Scheduled(i) \in {0, 1} /\ Dropped(i) \in {0, 1} /\ Expected(i) \in {0, 1}
  BY HitsAreFinite DEF PollingTypes, Waiting, Listed, Scheduled, Dropped, Expected

LEMMA InitPairs == PollingInit => PipelineInv
  <1> SUFFICES ASSUME PollingInit PROVE PipelineInv
    OBVIOUS
  <1>1. OtherTypes
    BY PollingAssumption DEF PollingInit, Init, OtherTypes
  <1>2. OncePerPair
    BY HitsOfEmpty DEF PollingInit, Init, OncePerPair, Waiting, Listed, Scheduled, Dropped, Expected
  <1> QED BY <1>1, <1>2, InitPolling DEF PipelineInv

(* The startup reads: until then no pair is anywhere.                      *)
LEMMA ReadPairs ==
    ASSUME PipelineInv, LoadCollectionPackages
    PROVE  OncePerPair'
  <1>1. /\ pc["runOnce"] = "packages" /\ read' = instance
        /\ lists' = lists /\ scheduled' = scheduled /\ dropped' = dropped
    BY DEF LoadCollectionPackages
  <1>2. read = Null /\ packages = <<>> /\ lists = <<>>
    BY <1>1 DEF PipelineInv, PollingInv, ReadOnce
  <1> SUFFICES ASSUME NEW i \in Ids
               PROVE  (((Waiting(i) + Listed(i)) + Scheduled(i)) + Dropped(i) = Expected(i))'
    BY DEF OncePerPair
  <1>3. Expected(i) = 0 /\ ((Waiting(i) + Listed(i)) + Scheduled(i)) + Dropped(i) = 0
    BY <1>2 DEF Expected, PipelineInv, OncePerPair
  <1>4. Listed(i)' = 0 /\ Scheduled(i)' = 0 /\ Dropped(i)' = 0
    <2>1. Listed(i) = 0 /\ Scheduled(i) = 0 /\ Dropped(i) = 0
      BY <1>3, WaysAreNumbers DEF PipelineInv, PollingInv
    <2> QED BY <1>1, <2>1 DEF Listed, Scheduled, Dropped
  <1>5. CASE instance = Null
    <2>1. packages' = <<>>
      BY <1>2, <1>5 DEF LoadCollectionPackages
    <2> QED BY <1>1, <1>4, <1>5, <2>1, HitsOfEmpty DEF Waiting, Expected
  <1>6. CASE instance # Null
    <2>1. PICK s \in Split(instance) : packages' = packages \o s
      BY <1>6, Zenon DEF LoadCollectionPackages
    <2>2. instance \in 1..MaxVersion /\ Content[instance] \subseteq Ids
      BY <1>6, SamplerConfigAssumption DEF PipelineInv, PollingInv, PollingTypes, Versions
    <2>3. IsFiniteSet(Content[instance]) /\ Cardinality(Content[instance]) \in Nat
      BY <2>2, SamplerConfigAssumption, FS_Subset, FS_CardinalityType
    <2>4. s \in SetToSeqs(Content[instance])
      BY <2>1 DEF Split
    <2>5. packages' = s
      <3>1. s \in Seq(Content[instance])
        BY <2>3, <2>4 DEF SetToSeqs
      <3> QED BY <1>2, <2>1, <3>1
    <2>6. Waiting(i)' = IF i \in Content[instance] THEN 1 ELSE 0
      BY <2>3, <2>4, <2>5, HitsOfSplit DEF Waiting
    <2> QED BY <1>1, <1>4, <1>6, <2>6 DEF Expected
  <1> QED BY <1>5, <1>6

(* A package leaves the queue as a list, or is dropped.                    *)
LEMMA AgentPairs ==
    ASSUME PipelineInv, LoadPackageAgents \/ LoadPackageAgentsFails
    PROVE  OncePerPair' /\ dropped' \in SUBSET Ids
  <1>1. /\ packages # <<>> /\ packages' = Tail(packages)
        /\ read' = read /\ scheduled' = scheduled
    BY DEF LoadPackageAgents, LoadPackageAgentsFails
  <1>2. PollingTypes /\ packages \in Seq(Ids) /\ lists \in Seq([id : Ids, empty : BOOLEAN])
    BY DEF PipelineInv, PollingInv, PollingTypes
  <1> DEFINE h == Head(packages)
  <1>3. h \in Ids
    BY <1>1, <1>2, HeadAndTail
  <1>4. \/ lists' = lists /\ dropped' = dropped \cup {h}
        \/ \E e \in BOOLEAN : lists' = Append(lists, [id |-> h, empty |-> e]) /\ dropped' = dropped
    BY DEF LoadPackageAgents, LoadPackageAgentsFails
  <1> HIDE DEF h
  <1>5. dropped' \in SUBSET Ids
    BY <1>3, <1>4 DEF PipelineInv, OtherTypes
  <1>6. ASSUME NEW i \in Ids
        PROVE  (((Waiting(i) + Listed(i)) + Scheduled(i)) + Dropped(i) = Expected(i))'
    <2> DEFINE one == IF h = i THEN 1 ELSE 0
    <2>1. /\ Waiting(i) \in Nat /\ Listed(i) \in Nat
          /\ Scheduled(i) \in {0, 1} /\ Dropped(i) \in {0, 1} /\ Expected(i) \in {0, 1}
      BY <1>2, WaysAreNumbers
    <2>2. ((Waiting(i) + Listed(i)) + Scheduled(i)) + Dropped(i) = Expected(i)
      BY DEF PipelineInv, OncePerPair
    <2>3. Waiting(i)' = Waiting(i) - one
      BY <1>1, <1>2, HitsOfTail DEF Waiting, h
    <2>4. Waiting(i)' \in Nat
      <3>1. Tail(packages) \in Seq(Ids)
        BY <1>1, <1>2, HeadAndTail
      <3> QED BY <1>1, <3>1, HitsAreFinite DEF Waiting
    <2>5. Scheduled(i)' = Scheduled(i) /\ Expected(i)' = Expected(i)
      BY <1>1 DEF Scheduled, Expected
    <2>6. CASE lists' = lists /\ dropped' = dropped \cup {h}
      <3>1. Listed(i)' = Listed(i)
        BY <2>6 DEF Listed
      <3>2. h = i => Dropped(i)' = 1
        BY <2>6 DEF Dropped
      <3>3. h # i => Dropped(i)' = Dropped(i)
        BY <2>6 DEF Dropped
      <3> QED BY <2>1, <2>2, <2>3, <2>4, <2>5, <3>1, <3>2, <3>3
    <2>7. CASE \E e \in BOOLEAN : lists' = Append(lists, [id |-> h, empty |-> e]) /\ dropped' = dropped
      <3>1. PICK e \in BOOLEAN : lists' = Append(lists, [id |-> h, empty |-> e]) /\ dropped' = dropped
        BY <2>7
      <3>2. [id |-> h, empty |-> e] \in [id : Ids, empty : BOOLEAN]
        BY <1>3
      <3>3. [id |-> h, empty |-> e] \in ListsOf(i) <=> h = i
        BY <3>2 DEF ListsOf
      <3> DEFINE l == [id |-> h, empty |-> e]
      <3> HIDE DEF l
      <3>6. Cardinality(Hits(Append(lists, l), ListsOf(i)))
              = Cardinality(Hits(lists, ListsOf(i))) + (IF l \in ListsOf(i) THEN 1 ELSE 0)
        <4> DEFINE R == [id : Ids, empty : BOOLEAN]
        <4>1. l \in R /\ lists \in Seq(R)
          BY <1>2, <3>2 DEF l
        <4> HIDE DEF R
        <4> QED BY <4>1, HitsOfAppend
      <3>7. lists' = Append(lists, l) /\ ListsOf(i)' = ListsOf(i)
        BY <3>1 DEF l, ListsOf
      <3>4. Listed(i)' = Listed(i) + one
        BY <3>3, <3>6, <3>7 DEF Listed, l
      <3>5. Dropped(i)' = Dropped(i)
        BY <3>1 DEF Dropped
      <3> QED BY <2>1, <2>2, <2>3, <2>5, <3>4, <3>5
    <2> QED BY <1>4, <2>6, <2>7
  <1> QED BY <1>5, <1>6 DEF OncePerPair

(* A list is scheduled, or dropped by the whiteboard.                      *)
LEMMA SchedulePairs ==
    ASSUME PipelineInv, ScheduleAgents
    PROVE  OncePerPair' /\ dropped' \in SUBSET Ids /\ scheduled' \in SUBSET Ids
  <1>1. /\ lists # <<>> /\ lists' = Tail(lists)
        /\ read' = read /\ packages' = packages
    BY DEF ScheduleAgents
  <1>2. PollingTypes /\ packages \in Seq(Ids) /\ lists \in Seq([id : Ids, empty : BOOLEAN])
    BY DEF PipelineInv, PollingInv, PollingTypes
  <1> DEFINE h == Head(lists).id
  <1>3. Head(lists) \in [id : Ids, empty : BOOLEAN] /\ h \in Ids
    <2>1. Head(lists) \in [id : Ids, empty : BOOLEAN]
      BY <1>1, <1>2, HeadAndTail
    <2> QED BY <2>1
  <1>4. \/ scheduled' = scheduled \cup {h} /\ dropped' = dropped
        \/ dropped' = dropped \cup {h} /\ scheduled' = scheduled
    BY DEF ScheduleAgents
  <1> HIDE DEF h
  <1>5. dropped' \in SUBSET Ids /\ scheduled' \in SUBSET Ids
    BY <1>3, <1>4 DEF PipelineInv, OtherTypes
  <1>6. ASSUME NEW i \in Ids
        PROVE  (((Waiting(i) + Listed(i)) + Scheduled(i)) + Dropped(i) = Expected(i))'
    <2> DEFINE one == IF h = i THEN 1 ELSE 0
    <2>1. /\ Waiting(i) \in Nat /\ Listed(i) \in Nat
          /\ Scheduled(i) \in {0, 1} /\ Dropped(i) \in {0, 1} /\ Expected(i) \in {0, 1}
      BY <1>2, WaysAreNumbers
    <2>2. ((Waiting(i) + Listed(i)) + Scheduled(i)) + Dropped(i) = Expected(i)
      BY DEF PipelineInv, OncePerPair
    <2>3. Head(lists) \in ListsOf(i) <=> h = i
      BY <1>3 DEF ListsOf, h
    <2>4. Listed(i)' = Listed(i) - one
      BY <1>1, <1>2, <2>3, HitsOfTail DEF Listed
    <2>5. Listed(i)' \in Nat
      <3>1. Tail(lists) \in Seq([id : Ids, empty : BOOLEAN])
        BY <1>1, <1>2, HeadAndTail
      <3> QED BY <1>1, <3>1, HitsAreFinite DEF Listed
    <2>6. Waiting(i)' = Waiting(i) /\ Expected(i)' = Expected(i)
      BY <1>1 DEF Waiting, Expected
    <2>7. \/ /\ Scheduled(i)' = IF h = i THEN 1 ELSE Scheduled(i)
             /\ Dropped(i)' = Dropped(i)
          \/ /\ Dropped(i)' = IF h = i THEN 1 ELSE Dropped(i)
             /\ Scheduled(i)' = Scheduled(i)
      BY <1>4 DEF Scheduled, Dropped
    <2> QED BY <2>1, <2>2, <2>4, <2>5, <2>6, <2>7
  <1> QED BY <1>5, <1>6 DEF OncePerPair

LEMMA NextPairs ==
    ASSUME PipelineInv, [PollingNext]_pollingVars
    PROVE  PipelineInv'
  <1>1. PollingInv'
    BY NextPolling DEF PipelineInv
  <1>2. ASSUME UNCHANGED <<packages, lists, scheduled, dropped, read>>
        PROVE  OncePerPair'
    <2>1. ASSUME NEW i \in Ids
          PROVE  /\ Waiting(i)' = Waiting(i) /\ Listed(i)' = Listed(i)
                 /\ Scheduled(i)' = Scheduled(i) /\ Dropped(i)' = Dropped(i)
                 /\ Expected(i)' = Expected(i)
      BY <1>2 DEF Waiting, Listed, Scheduled, Dropped, Expected
    <2> QED BY <2>1 DEF PipelineInv, OncePerPair
  <1>3. CASE ConfigStep
    <2>1. lives' = lives /\ forgotten' = forgotten
      BY <1>3 DEF ConfigStep
    <2>2. CASE LoadCollectionPackages
      BY <1>1, <2>1, <2>2, ReadPairs DEF PipelineInv, OtherTypes, LoadCollectionPackages
    <2>3. CASE LoadPackageAgents \/ LoadPackageAgentsFails
      BY <1>1, <2>1, <2>3, AgentPairs
         DEF PipelineInv, OtherTypes, LoadPackageAgents, LoadPackageAgentsFails
    <2>4. CASE (\E t \in Timers : TimerStep(t)) \/ Edit \/ SchedulerAppears
      <3>1. /\ UNCHANGED <<packages, lists, scheduled, dropped, read>>
            /\ schedulerUp' \in {schedulerUp, TRUE}
        BY <2>4, Zenon DEF TimerStep, Fetch, FetchFails, SetInstance, Edit, SchedulerAppears
      <3> QED BY <1>1, <1>2, <2>1, <3>1 DEF PipelineInv, OtherTypes
    <2> QED BY <1>3, <2>2, <2>3, <2>4 DEF ConfigStep
  <1>4. CASE Schedule
    BY <1>1, <1>4, SchedulePairs DEF PipelineInv, OtherTypes, Schedule, ScheduleAgents
  <1>5. CASE ConfigRestarts
    <2>1. OtherTypes'
      BY <1>5, PollingAssumption DEF PipelineInv, OtherTypes, ConfigRestarts
    <2>2. OncePerPair'
      BY <1>5, HitsOfEmpty
         DEF OncePerPair, Waiting, Listed, Scheduled, Dropped, Expected, ConfigRestarts
    <2> QED BY <1>1, <2>1, <2>2 DEF PipelineInv
  <1>6. CASE SchedulerStops
    BY <1>1, <1>2, <1>6 DEF PipelineInv, OtherTypes, SchedulerStops
  <1>7. CASE UNCHANGED pollingVars
    BY <1>1, <1>2, <1>7 DEF PipelineInv, OtherTypes, pollingVars, vars
  <1> QED BY <1>3, <1>4, <1>5, <1>6, <1>7 DEF PollingNext

(* The inductive invariant with the places of every pair.                  *)
THEOREM PipelineInvHolds == PollingSpec => []PipelineInv
  <1>1. PipelineInv /\ [PollingNext]_pollingVars => PipelineInv'
    BY NextPairs
  <1> QED BY <1>1, InitPairs, PTL DEF PollingSpec

(* Every variable of the routes and of the polls keeps its type.           *)
THEOREM PollingTypesHold == PollingSpec => []PollingTypeOK
  <1>1. PipelineInv => PollingTypeOK
    BY DEF PipelineInv, PollingInv, PollingTypes, OtherTypes, PollingTypeOK, TypeOK
  <1> QED BY <1>1, PipelineInvHolds, PTL

(* Each pair of the configuration that the startup read is in exactly one  *)
(* place of the routes, or was dropped by a failure: none is lost or       *)
(* scheduled twice, however many packages there are.                       *)
THEOREM EachPairOnceHolds == PollingSpec => []EachPairOnce
  <1>1. PipelineInv => EachPairOnce
    BY WaysAreHits DEF PipelineInv, PollingInv
  <1> QED BY <1>1, PipelineInvHolds, PTL
=============================================================================
