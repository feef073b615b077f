----------------------- MODULE MetricRepositoryProofs ------------------------
(***************************************************************************)
(* Theorems about MetricRepository, for any documents, arrays of URLs and  *)
(* readers, and any number of edits, updates and failures.                 *)
(***************************************************************************)
EXTENDS MetricRepository, TLAPS

(* The version of a document is at most the number of edits so far.        *)
EditsInv == edits \in 0..MaxEdits /\ \A u \in ConfigUrls \cup GroupUrls : version[u] <= edits

Complete(c) == c # Null => \A u \in Needs[c.url] : \E g \in c.groups : g.url = u

(* A configuration is built only from a cache with every group it includes, *)
(* nothing is built before refresh() is past its last fetch, and a thread  *)
(* that will publish null got there by a request that failed.              *)
BuiltInv ==
    /\ Complete(m_dataCollectionConfig)
    /\ \A p \in Threads :
          /\ Complete(config[p])
          /\ pc[p] # "publish" => config[p] = Null
          /\ pc[p] = "publish" /\ config[p] = Null => wiped

(* A reader past its check has seen a configuration, which is still there  *)
(* unless a request failed; so has one that threw.                         *)
ReadInv ==
    \A r \in Readers :
       /\ reader[r] = "threw" => wiped
       /\ reader[r] = "checked" => m_dataCollectionConfig # Null \/ wiped

RepositoryInv == TypeOK /\ EditsInv /\ BuiltInv /\ ReadInv

-----------------------------------------------------------------------------
LEMMA ArraysAreSequences == \A a \in Arrays \cup {<<>>} : a \in Seq(GroupUrls)
  <1>1. <<>> \in Seq(GroupUrls)
    OBVIOUS
  <1>2. \A a \in Arrays : a \in Seq(GroupUrls)
    BY RepositoryAssumption
  <1> QED BY <1>1, <1>2

LEMMA InitRepository == Init => RepositoryInv
  <1> SUFFICES ASSUME Init PROVE RepositoryInv
    OBVIOUS
  <1> USE RepositoryAssumption, NullAssumption DEF Init
  <1>1. TypeOK
    <2>1. m_dataCollectionConfig \in Config \cup {Null}
      <3>1. [url |-> DefaultUrl, version |-> 0, groups |-> {}] \in Config
        BY DEF Config
      <3> QED BY <3>1
    <2>2. version \in [ConfigUrls \cup GroupUrls -> 0..MaxEdits]
      OBVIOUS
    <2>3. properties \in [url : ConfigUrls \cup {Malformed, Null}, groups : Arrays \cup {Null}]
      OBVIOUS
    <2>4. todo \in [Threads -> Seq(GroupUrls)]
      OBVIOUS
    <2> QED BY <2>1, <2>2, <2>3, <2>4 DEF TypeOK
  <1>2. EditsInv
    BY DEF EditsInv
  <1>3. BuiltInv
    BY DEF BuiltInv, Complete
  <1>4. ReadInv
    BY DEF ReadInv
  <1> QED BY <1>1, <1>2, <1>3, <1>4 DEF RepositoryInv

(* What ending refresh() does to the local variables of a thread.          *)
LEMMA EndedLocals ==
    ASSUME RepositoryInv, NEW p \in Threads, Ended(p)
    PROVE  /\ pc' \in [Threads -> {"off", "idle", "configUrl", "groupUrls", "documents", "publish"}]
           /\ todo' \in [Threads -> Seq(GroupUrls)]
           /\ cache' \in [Threads -> SUBSET Document]
           /\ config' \in [Threads -> Config \cup {Null}]
           /\ pc'[p] # "publish" /\ config'[p] = Null
           /\ \A q \in Threads \ {p} : pc'[q] = pc[q] /\ config'[q] = config[q]
  BY DEF RepositoryInv, TypeOK, Ended

(* The steps of refresh() leave what others see alone, except the last.    *)
LEMMA RefreshTypes ==
    ASSUME RepositoryInv, NEW p \in Threads, Trigger(p) \/ Refreshing(p)
    PROVE  TypeOK'
  <1> USE DEF RepositoryInv, TypeOK, repository, bounds
  <1>1. CASE Trigger(p)
    <2>1. m_dataCollectionGroupURLs \in Seq(GroupUrls)
      BY ArraysAreSequences
    <2>2. todo' \in [Threads -> Seq(GroupUrls)]
      BY <1>1, <2>1 DEF Trigger
    <2> QED BY <1>1, <2>2 DEF Trigger
  <1>2. CASE FetchGroup(p)
    <2>1. Head(todo[p]) \in GroupUrls /\ Tail(todo[p]) \in Seq(GroupUrls)
      BY <1>2 DEF FetchGroup
    <2>2. Fetched(Head(todo[p])) \in Document
      BY <2>1 DEF Fetched, Document
    <2>3. cache' \in [Threads -> SUBSET Document] /\ todo' \in [Threads -> Seq(GroupUrls)]
      BY <1>2, <2>1, <2>2 DEF FetchGroup
    <2> QED BY <1>2, <2>3 DEF FetchGroup
  <1>3. CASE GroupUnreachable(p)
    <2>1. todo' \in [Threads -> Seq(GroupUrls)]
      BY <1>3 DEF GroupUnreachable
    <2> QED BY <1>3, <2>1 DEF GroupUnreachable
  <1>4. CASE BadDocument(p)
    BY <1>4, EndedLocals DEF BadDocument
  <1>5. CASE FetchConfig(p)
    <2>1. CASE Includes(p, m_dataCollectionConfigURL)
      <3> DEFINE c == [url |-> m_dataCollectionConfigURL,
                       version |-> version[m_dataCollectionConfigURL], groups |-> cache[p]]
      <3>1. c \in Config
        BY DEF Config
      <3>2. /\ config' = [config EXCEPT ![p] = c] /\ cache' = [cache EXCEPT ![p] = {}]
            /\ pc' = [pc EXCEPT ![p] = "publish"] /\ todo' = todo
        BY <1>5, <2>1 DEF FetchConfig
      <3> HIDE DEF c
      <3> QED BY <1>5, <3>1, <3>2 DEF FetchConfig
    <2>2. CASE ~Includes(p, m_dataCollectionConfigURL)
      BY <1>5, <2>2, EndedLocals DEF FetchConfig
    <2> QED BY <2>1, <2>2
  <1>6. CASE ConfigUnreachable(p)
    BY <1>6 DEF ConfigUnreachable
  <1>7. CASE Publish(p)
    BY <1>7, EndedLocals DEF Publish
  <1> QED BY <1>1, <1>2, <1>3, <1>4, <1>5, <1>6, <1>7 DEF Refreshing

LEMMA OtherTypes ==
    ASSUME RepositoryInv,
           \/ \E url \in ConfigUrls \cup {Malformed, Null}, groups \in Arrays \cup {Null} :
                 Update(url, groups)
           \/ Updating
           \/ \E r \in Readers : Check(r) \/ Use(r)
           \/ \E url \in ConfigUrls \cup GroupUrls : Edit(url)
    PROVE  TypeOK'
  <1> USE DEF RepositoryInv, TypeOK, repository, bounds
  <1>1. ASSUME NEW url \in ConfigUrls \cup {Malformed, Null}, NEW groups \in Arrays \cup {Null},
               Update(url, groups)
        PROVE  TypeOK'
    BY <1>1 DEF Update, Threads
  <1>2. CASE UpdateConfigUrl
    BY <1>2 DEF UpdateConfigUrl, Threads
  <1>3. CASE UpdateGroupUrls
    <2>1. m_dataCollectionGroupURLs' \in Arrays \cup {<<>>}
      BY <1>3 DEF UpdateGroupUrls
    <2>2. m_dataCollectionGroupURLs' \in Seq(GroupUrls)
      BY <2>1, ArraysAreSequences
    <2>3. todo' \in [Threads -> Seq(GroupUrls)]
      BY <1>3, <2>2 DEF UpdateGroupUrls, Threads
    <2>4. pc' \in [Threads -> {"off", "idle", "configUrl", "groupUrls", "documents", "publish"}]
      BY <1>3 DEF UpdateGroupUrls, Threads
    <2>5. properties' \in [url : ConfigUrls \cup {Malformed, Null}, groups : Arrays \cup {Null}]
      BY <1>3 DEF UpdateGroupUrls
    <2> QED BY <1>3, <2>1, <2>3, <2>4, <2>5 DEF UpdateGroupUrls
  <1>4. ASSUME NEW r \in Readers, Check(r) \/ Use(r)
        PROVE  TypeOK'
    BY <1>4 DEF Check, Use
  <1>5. ASSUME NEW url \in ConfigUrls \cup GroupUrls, Edit(url)
        PROVE  TypeOK'
    <2>1. version[url] + 1 \in 0..MaxEdits
      BY <1>5, RepositoryAssumption DEF Edit, EditsInv
    <2> QED BY <1>5, <2>1 DEF Edit
  <1> QED BY <1>1, <1>2, <1>3, <1>4, <1>5 DEF Updating

LEMMA NextEdits ==
    ASSUME RepositoryInv, Next
    PROVE  EditsInv'
  <1>1. ASSUME NEW url \in ConfigUrls \cup GroupUrls, Edit(url)
        PROVE  EditsInv'
    BY <1>1, RepositoryAssumption DEF RepositoryInv, EditsInv, TypeOK, Edit
  <1>2. CASE UNCHANGED <<version, edits>>
    BY <1>2 DEF RepositoryInv, EditsInv
  <1>3. Next => UNCHANGED <<version, edits>> \/ \E url \in ConfigUrls \cup GroupUrls : Edit(url)
    BY DEF Next, Trigger, Refreshing, FetchGroup, GroupUnreachable, BadDocument, FetchConfig,
           ConfigUnreachable, Publish, Update, Updating, UpdateConfigUrl, UpdateGroupUrls, Check,
           Use, bounds
  <1> QED BY <1>1, <1>2, <1>3

(* A configuration that a thread has built, and the one that is published. *)
LEMMA RefreshBuilt ==
    ASSUME RepositoryInv, NEW p \in Threads, Trigger(p) \/ Refreshing(p)
    PROVE  BuiltInv'
  <1> USE DEF RepositoryInv, BuiltInv
  <1>1. CASE Trigger(p)
    BY <1>1 DEF Trigger, TypeOK, repository, bounds
  <1>2. CASE FetchGroup(p)
    BY <1>2 DEF FetchGroup, repository, bounds
  <1>3. CASE GroupUnreachable(p)
    BY <1>3 DEF GroupUnreachable, repository
  <1>4. CASE BadDocument(p)
    <2>1. /\ pc'[p] # "publish" /\ config'[p] = Null
          /\ \A q \in Threads \ {p} : pc'[q] = pc[q] /\ config'[q] = config[q]
      BY <1>4, EndedLocals DEF BadDocument
    <2> QED BY <1>4, <2>1 DEF BadDocument, repository, Complete
  <1>5. CASE FetchConfig(p)
    <2>1. CASE Includes(p, m_dataCollectionConfigURL)
      <3> DEFINE c == [url |-> m_dataCollectionConfigURL,
                       version |-> version[m_dataCollectionConfigURL], groups |-> cache[p]]
      <3>1. c \in Config
        BY DEF Config, TypeOK
      <3>2. c # Null
        BY <3>1, NullAssumption
      <3>3. Complete(c)
        BY <2>1 DEF Complete, Includes
      <3>4. config' = [config EXCEPT ![p] = c] /\ pc' = [pc EXCEPT ![p] = "publish"]
        BY <1>5, <2>1 DEF FetchConfig
      <3>5. UNCHANGED <<m_dataCollectionConfig, wiped>>
        BY <1>5 DEF FetchConfig, repository, bounds
      <3> HIDE DEF c
      <3>6. /\ config'[p] = c /\ pc'[p] = "publish"
            /\ \A q \in Threads \ {p} : pc'[q] = pc[q] /\ config'[q] = config[q]
        BY <3>4 DEF TypeOK
      <3> QED BY <3>2, <3>3, <3>5, <3>6 DEF Complete
    <2>2. CASE ~Includes(p, m_dataCollectionConfigURL)
      <3>1. /\ pc'[p] # "publish" /\ config'[p] = Null
            /\ \A q \in Threads \ {p} : pc'[q] = pc[q] /\ config'[q] = config[q]
        BY <1>5, <2>2, EndedLocals DEF FetchConfig
      <3> QED BY <1>5, <3>1 DEF FetchConfig, repository, bounds, Complete
    <2> QED BY <2>1, <2>2
  <1>6. CASE ConfigUnreachable(p)
    BY <1>6 DEF ConfigUnreachable, TypeOK, repository
  <1>7. CASE Publish(p)
    <2>1. /\ pc'[p] # "publish" /\ config'[p] = Null
          /\ \A q \in Threads \ {p} : pc'[q] = pc[q] /\ config'[q] = config[q]
      BY <1>7, EndedLocals DEF Publish
    <2> QED BY <1>7, <2>1 DEF Publish, bounds, Complete
  <1> QED BY <1>1, <1>2, <1>3, <1>4, <1>5, <1>6, <1>7 DEF Refreshing

LEMMA OtherBuilt ==
    ASSUME RepositoryInv,
           \/ \E url \in ConfigUrls \cup {Malformed, Null}, groups \in Arrays \cup {Null} :
                 Update(url, groups)
           \/ Updating
           \/ \E r \in Readers : Check(r) \/ Use(r)
           \/ \E url \in ConfigUrls \cup GroupUrls : Edit(url)
    PROVE  BuiltInv'
  <1>1. UNCHANGED <<m_dataCollectionConfig, config, wiped>>
    BY DEF Update, Updating, UpdateConfigUrl, UpdateGroupUrls, Check, Use, Edit, repository, bounds
  <1>2. \A p \in Threads : pc'[p] = pc[p] \/ (pc[p] # "publish" /\ pc'[p] # "publish")
    <2> USE DEF RepositoryInv, TypeOK, Threads
    <2>1. ASSUME NEW url, NEW groups, Update(url, groups)
          PROVE  \A p \in Threads : pc'[p] = pc[p] \/ (pc[p] # "publish" /\ pc'[p] # "publish")
      BY <2>1 DEF Update
    <2>2. CASE UpdateConfigUrl
      BY <2>2 DEF UpdateConfigUrl
    <2>3. CASE UpdateGroupUrls
      BY <2>3 DEF UpdateGroupUrls
    <2>4. CASE UNCHANGED pc
      BY <2>4
    <2> QED BY <2>1, <2>2, <2>3, <2>4 DEF Updating, Check, Use, Edit
  <1> QED BY <1>1, <1>2 DEF RepositoryInv, BuiltInv, Complete

(* The configuration goes away only when null is published, and a thread   *)
(* publishes null only after a request failed.                             *)
LEMMA NextRead ==
    ASSUME RepositoryInv, Next
    PROVE  ReadInv'
  <1>1. wiped => wiped'
    BY DEF Next, Trigger, Refreshing, FetchGroup, GroupUnreachable, BadDocument, FetchConfig,
           ConfigUnreachable, Publish, Update, Updating, UpdateConfigUrl, UpdateGroupUrls, Check,
           Use, Edit, bounds
  <1>2. m_dataCollectionConfig # Null => m_dataCollectionConfig' # Null \/ wiped
    BY DEF Next, Trigger, Refreshing, FetchGroup, GroupUnreachable, BadDocument, FetchConfig,
           ConfigUnreachable, Publish, Update, Updating, UpdateConfigUrl, UpdateGroupUrls, Check,
           Use, Edit, repository, RepositoryInv, BuiltInv
  <1>3. ASSUME NEW r \in Readers, Check(r)
        PROVE  ReadInv'
    BY <1>1, <1>3 DEF Check, repository, RepositoryInv, ReadInv, TypeOK
  <1>4. ASSUME NEW r \in Readers, Use(r)
        PROVE  ReadInv'
    BY <1>1, <1>4 DEF Use, repository, RepositoryInv, ReadInv, TypeOK
  <1>5. CASE UNCHANGED reader
    BY <1>1, <1>2, <1>5 DEF RepositoryInv, ReadInv
  <1>6. UNCHANGED reader \/ \E r \in Readers : Check(r) \/ Use(r)
    BY DEF Next, Trigger, Refreshing, FetchGroup, GroupUnreachable, BadDocument, FetchConfig,
           ConfigUnreachable, Publish, Update, Updating, UpdateConfigUrl, UpdateGroupUrls, Edit
  <1> QED BY <1>3, <1>4, <1>5, <1>6

LEMMA NextRepository ==
    ASSUME RepositoryInv, [Next]_vars
    PROVE  RepositoryInv'
  <1>1. CASE Next
    <2>1. TypeOK' /\ BuiltInv'
      BY <1>1, RefreshTypes, OtherTypes, RefreshBuilt, OtherBuilt DEF Next
    <2> QED BY <1>1, <2>1, NextEdits, NextRead DEF RepositoryInv
  <1>2. CASE UNCHANGED vars
    BY <1>2 DEF vars, repository, bounds, RepositoryInv, TypeOK, EditsInv, BuiltInv, ReadInv
  <1> QED BY <1>1, <1>2

-----------------------------------------------------------------------------
(* The inductive invariant holds in every reachable state.                 *)
THEOREM RepositoryInvHolds == Spec => []RepositoryInv
  BY InitRepository, NextRepository, PTL DEF Spec

(* Every variable of the repository and its threads keeps its type.        *)
THEOREM TypeCorrect == Spec => []TypeOK
  <1>1. RepositoryInv => TypeOK
    BY DEF RepositoryInv
  <1> QED BY <1>1, RepositoryInvHolds, PTL

(* SnmpMetricRepository never publishes a configuration that lacks a group *)
(* it includes, whatever URLs change and groups fail while it is built.    *)
THEOREM IncludesAreMetHolds == Spec => []IncludesAreMet
  <1>1. RepositoryInv => IncludesAreMet
    BY DEF RepositoryInv, BuiltInv, Complete, IncludesAreMet
  <1> QED BY <1>1, RepositoryInvHolds, PTL

(* A reader finds null after its check only when a request for the         *)
(* configuration has failed, however many refreshes run at the same time.  *)
THEOREM ReadersFailHolds == Spec => []ReadersFailOnlyWhenUnreachable
  <1>1. RepositoryInv => ReadersFailOnlyWhenUnreachable
    BY DEF RepositoryInv, ReadInv, ReadersFailOnlyWhenUnreachable
  <1> QED BY <1>1, RepositoryInvHolds, PTL
=============================================================================
