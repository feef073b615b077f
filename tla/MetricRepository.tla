-------------------------- MODULE MetricRepository ---------------------------
(***************************************************************************)
(* org.opennms.netmgt.sampler.config.snmp.SnmpMetricRepository: the data   *)
(* collection configuration, which two timers of the blueprint and the     *)
(* configuration admin refresh on threads of their own, while others read  *)
(* it.  Nothing is synchronized.                                           *)
(*                                                                         *)
(* A document is known by its URL and its version; a configuration is what *)
(* it was built from.                                                      *)
(***************************************************************************)
EXTENDS Naturals, Sequences, SequencesExt

CONSTANTS
    ConfigUrls, GroupUrls,
    Arrays,         \* arrays of group URLs that an administrator may set
    DefaultUrl,     \* [[rest.root]]/config/datacollection
    Needs,          \* the groups that the configuration at a URL includes
    Readers,
    Malformed,      \* a property that is no URL
    Null,
    MaxEdits,       \* bound on the changes of documents
    MaxUpdates,     \* bound on the calls of updated()
    MaxFailures     \* bound on the requests that fail

ASSUME RepositoryAssumption ==
    /\ DefaultUrl \in ConfigUrls /\ Malformed \notin ConfigUrls
    /\ Arrays \subseteq Seq(GroupUrls)
    /\ Needs \in [ConfigUrls -> SUBSET GroupUrls] /\ Needs[DefaultUrl] = {}
    /\ MaxEdits \in Nat /\ MaxUpdates \in Nat /\ MaxFailures \in Nat

VARIABLES
    \* the repository
    m_dataCollectionConfigURL,
    m_dataCollectionGroupURLs,
    m_dataCollectionConfig,
    \* the threads that refresh it
    pc,             \* "off", "idle", "configUrl", "groupUrls", "documents", "publish"
    todo,           \* group URLs still to fetch (a local variable of refresh())
    cache,          \* groups fetched (likewise)
    config,         \* configuration built, not yet published (likewise)
    properties,     \* what updated() was called with
    \* the threads that read it
    reader,         \* "idle", "checked" (it was not null), "threw"
    \* the server
    version,        \* of each document
    edits, updates, failures,
    wiped           \* whether a request for the configuration failed (history)

repository == <<m_dataCollectionConfigURL, m_dataCollectionGroupURLs, m_dataCollectionConfig>>
bounds == <<edits, updates, failures, wiped>>
vars == <<repository, pc, todo, cache, config, properties, reader, version, bounds>>

(* The thread of each timer and of the configuration admin.                *)
Threads == {"startup", "reload", "admin"}

Document == [url : ConfigUrls \cup GroupUrls, version : 0..MaxEdits]
Config == [url : ConfigUrls, version : 0..MaxEdits, groups : SUBSET Document]

ASSUME NullAssumption == Null \notin Config

TypeOK ==
    /\ m_dataCollectionConfigURL \in ConfigUrls
    /\ m_dataCollectionGroupURLs \in Arrays \cup {<<>>}
    /\ m_dataCollectionConfig \in Config \cup {Null}
    /\ pc \in [Threads -> {"off", "idle", "configUrl", "groupUrls", "documents", "publish"}]
    /\ todo \in [Threads -> Seq(GroupUrls)]
    /\ cache \in [Threads -> SUBSET Document]
    /\ config \in [Threads -> Config \cup {Null}]
    /\ properties \in [url : ConfigUrls \cup {Malformed, Null}, groups : Arrays \cup {Null}]
    /\ reader \in [Readers -> {"idle", "checked", "threw"}]
    /\ version \in [ConfigUrls \cup GroupUrls -> 0..MaxEdits]
    /\ wiped \in BOOLEAN

(* The constructor has refreshed with the properties' defaults; its request*)
(* may have failed.                                                        *)
Init ==
    /\ version = [u \in ConfigUrls \cup GroupUrls |-> 0]
    /\ m_dataCollectionConfigURL = DefaultUrl /\ m_dataCollectionGroupURLs = <<>>
    /\ m_dataCollectionConfig \in {Null, [url |-> DefaultUrl, version |-> 0, groups |-> {}]}
    /\ pc = [p \in Threads |-> "idle"]
    /\ todo = [p \in Threads |-> <<>>] /\ cache = [p \in Threads |-> {}]
    /\ config = [p \in Threads |-> Null]
    /\ properties = [url |-> Null, groups |-> Null]
    /\ reader = [r \in Readers |-> "idle"]
    /\ edits = 0 /\ updates = 0 /\ failures = 0 /\ wiped = FALSE

-----------------------------------------------------------------------------
(* refresh() *)

(* Mutant: a timer's route is stopped with its first refresh. *)
EndedForGood(p) ==
    /\ pc' = [pc EXCEPT ![p] = IF p = "admin" THEN "idle" ELSE "off"]
    /\ todo' = [todo EXCEPT ![p] = <<>>]
    /\ cache' = [cache EXCEPT ![p] = {}]
    /\ config' = [config EXCEPT ![p] = Null]

(* refresh() ends, and its local variables with it; the startup's timer    *)
(* fires once.                                                             *)
Ended(p) ==
    /\ pc' = [pc EXCEPT ![p] = IF p = "startup" THEN "off" ELSE "idle"]
    /\ todo' = [todo EXCEPT ![p] = <<>>]
    /\ cache' = [cache EXCEPT ![p] = {}]
    /\ config' = [config EXCEPT ![p] = Null]

(* A timer fires: refresh() takes the array of groups.                     *)
Trigger(p) ==
    /\ p # "admin" /\ pc[p] = "idle"
    /\ todo' = [todo EXCEPT ![p] = m_dataCollectionGroupURLs]
    /\ pc' = [pc EXCEPT ![p] = "documents"]
    /\ UNCHANGED <<repository, cache, config, properties, reader, version, bounds>>

Fetched(url) == [url |-> url, version |-> version[url]]

FetchGroup(p) ==
    /\ pc[p] = "documents" /\ todo[p] # <<>>
    /\ cache' = [cache EXCEPT ![p] = @ \cup {Fetched(Head(todo[p]))}]
    /\ todo' = [todo EXCEPT ![p] = Tail(@)]
    /\ UNCHANGED <<repository, pc, config, properties, reader, version, bounds>>

(* The parser makes null of an IOException, and a null group is left out.  *)
GroupUnreachable(p) ==
    /\ pc[p] = "documents" /\ todo[p] # <<>> /\ failures < MaxFailures
    /\ todo' = [todo EXCEPT ![p] = Tail(@)]
    /\ failures' = failures + 1
    /\ UNCHANGED <<repository, pc, cache, config, properties, reader, version, edits, updates, wiped>>

(* A document that cannot be parsed ends refresh() with an exception.      *)
BadDocument(p) ==
    /\ pc[p] = "documents" /\ failures < MaxFailures
    /\ Ended(p)
    /\ failures' = failures + 1
    /\ UNCHANGED <<repository, properties, reader, version, edits, updates, wiped>>

(* Mutant: a group that is missing is skipped. *)
IncludesAny(p, url) == TRUE

(* initialize(): every included group is in the cache.                     *)
Includes(p, url) == \A u \in Needs[url] : \E g \in cache[p] : g.url = u

FetchConfig(p) ==
    /\ pc[p] = "documents" /\ todo[p] = <<>>
    /\ LET url == m_dataCollectionConfigURL
       IN  IF Includes(p, url)
           THEN /\ config' = [config EXCEPT ![p] =
                      [url |-> url, version |-> version[url], groups |-> cache[p]]]
                /\ cache' = [cache EXCEPT ![p] = {}]
                /\ pc' = [pc EXCEPT ![p] = "publish"]
                /\ UNCHANGED todo
           ELSE Ended(p)                       \* IllegalArgumentException
    /\ UNCHANGED <<repository, properties, reader, version, bounds>>

ConfigUnreachable(p) ==
    /\ pc[p] = "documents" /\ todo[p] = <<>> /\ failures < MaxFailures
    /\ pc' = [pc EXCEPT ![p] = "publish"]
    /\ cache' = [cache EXCEPT ![p] = {}]
    /\ failures' = failures + 1 /\ wiped' = TRUE
    /\ UNCHANGED <<repository, todo, config, properties, reader, version, edits, updates>>

(* Mutant: the configuration is taken away before the new one is set. *)
PublishCleared(p) ==
    /\ pc[p] = "publish"
    /\ m_dataCollectionConfig' = IF m_dataCollectionConfig # Null THEN Null ELSE config[p]
    /\ IF m_dataCollectionConfig # Null THEN UNCHANGED <<pc, todo, cache, config>> ELSE Ended(p)
    /\ UNCHANGED <<m_dataCollectionConfigURL, m_dataCollectionGroupURLs, properties, reader,
                   version, bounds>>

Publish(p) ==
    /\ pc[p] = "publish"
    /\ m_dataCollectionConfig' = config[p]
    /\ Ended(p)
    /\ UNCHANGED <<m_dataCollectionConfigURL, m_dataCollectionGroupURLs, properties, reader,
                   version, bounds>>

-----------------------------------------------------------------------------
(* updated() *)

(* The configuration admin delivers what an administrator wrote.           *)
Update(url, groups) ==
    /\ pc["admin"] = "idle" /\ updates < MaxUpdates
    /\ properties' = [url |-> url, groups |-> groups]
    /\ pc' = [pc EXCEPT !["admin"] = "configUrl"]
    /\ updates' = updates + 1
    /\ UNCHANGED <<repository, todo, cache, config, reader, version, edits, failures, wiped>>

(* Mutant: the URL is taken before it is parsed. *)
UpdateConfigUrlUnparsed ==
    /\ pc["admin"] = "configUrl" /\ properties.url # Null
    /\ m_dataCollectionConfigURL' = properties.url
    /\ pc' = [pc EXCEPT !["admin"] = "groupUrls"]
    /\ UNCHANGED <<m_dataCollectionGroupURLs, m_dataCollectionConfig, todo, cache, config,
                   properties, reader, version, bounds>>

(* A malformed URL ends updated(); the groups are not looked at.           *)
UpdateConfigUrl ==
    /\ pc["admin"] = "configUrl"
    /\ IF properties.url \in ConfigUrls THEN m_dataCollectionConfigURL' = properties.url
                                        ELSE UNCHANGED m_dataCollectionConfigURL
    /\ properties' = [properties EXCEPT !.url =
                         IF @ = m_dataCollectionConfigURL THEN Null ELSE @]  \* nothing new
    /\ pc' = [pc EXCEPT !["admin"] = IF properties.url = Malformed THEN "idle" ELSE "groupUrls"]
    /\ UNCHANGED <<m_dataCollectionGroupURLs, m_dataCollectionConfig, todo, cache, config, reader,
                   version, bounds>>

UpdateGroupUrls ==
    /\ pc["admin"] = "groupUrls"
    /\ IF properties.groups # Null THEN m_dataCollectionGroupURLs' = properties.groups
                                   ELSE UNCHANGED m_dataCollectionGroupURLs
    /\ IF properties.groups # Null \/ properties.url # Null
       THEN /\ todo' = [todo EXCEPT !["admin"] = m_dataCollectionGroupURLs']
            /\ pc' = [pc EXCEPT !["admin"] = "documents"]
       ELSE /\ pc' = [pc EXCEPT !["admin"] = "idle"]
            /\ UNCHANGED todo
    /\ properties' = [url |-> Null, groups |-> Null]
    /\ UNCHANGED <<m_dataCollectionConfigURL, m_dataCollectionConfig, cache, config, reader,
                   version, bounds>>

-----------------------------------------------------------------------------
(* createRequestForAgent(), getMetrics(), getMetric(): the field is read   *)
(* once for the check and once more for the call.  A reader that finds     *)
(* null at the check returns without it.                                   *)
Check(r) ==
    /\ reader[r] = "idle" /\ m_dataCollectionConfig # Null
    /\ reader' = [reader EXCEPT ![r] = "checked"]
    /\ UNCHANGED <<repository, pc, todo, cache, config, properties, version, bounds>>

Use(r) ==
    /\ reader[r] = "checked"
    /\ reader' = [reader EXCEPT ![r] = IF m_dataCollectionConfig = Null THEN "threw" ELSE "idle"]
    /\ UNCHANGED <<repository, pc, todo, cache, config, properties, version, bounds>>

(* A document is edited on the server.                                     *)
Edit(url) ==
    /\ edits < MaxEdits
    /\ version' = [version EXCEPT ![url] = @ + 1]
    /\ edits' = edits + 1
    /\ UNCHANGED <<repository, pc, todo, cache, config, properties, reader, updates, failures, wiped>>

Refreshing(p) ==
    \/ FetchGroup(p) \/ GroupUnreachable(p) \/ BadDocument(p)
    \/ FetchConfig(p) \/ ConfigUnreachable(p) \/ Publish(p)

Updating == UpdateConfigUrl \/ UpdateGroupUrls

Next ==
    \/ \E p \in Threads : Trigger(p) \/ Refreshing(p)
    \/ \E url \in ConfigUrls \cup {Malformed, Null}, groups \in Arrays \cup {Null} : Update(url, groups)
    \/ Updating
    \/ \E r \in Readers : Check(r) \/ Use(r)
    \/ \E url \in ConfigUrls \cup GroupUrls : Edit(url)

(* Camel's timer fires again and again, and a request is answered or times *)
(* out: a thread that has begun goes on.                                   *)
Fairness ==
    /\ WF_vars(Trigger("reload"))
    /\ WF_vars(Updating)
    /\ \A p \in Threads : WF_vars(Refreshing(p))

Spec == Init /\ [][Next]_vars /\ Fairness

-----------------------------------------------------------------------------
(* A configuration that is published has every group that it includes,     *)
(* although URLs change and groups fail to load while it is built: what    *)
(* cannot be completed never replaces what is there.                       *)
IncludesAreMet ==
    m_dataCollectionConfig # Null =>
       \A u \in Needs[m_dataCollectionConfig.url] :
          \E g \in m_dataCollectionConfig.groups : g.url = u

(* A reader fails, for the configuration went away between its check and   *)
(* its use, only after a request for the configuration document failed:    *)
(* refreshes that run at the same time, and documents that are malformed   *)
(* or incomplete, never take the configuration away.                       *)
ReadersFailOnlyWhenUnreachable == (\E r \in Readers : reader[r] = "threw") => wiped

(* What a refresh from scratch would build now.                            *)
Current ==
    [url     |-> m_dataCollectionConfigURL,
     version |-> version[m_dataCollectionConfigURL],
     groups  |-> {Fetched(u) : u \in ToSet(m_dataCollectionGroupURLs)}]

(* Whichever thread was the slowest, and whatever failed: in the end the   *)
(* repository has the configuration that the URLs set last stand for, and  *)
(* keeps it, provided that it is complete.  (Edits, updates and failures   *)
(* are bounded: they come to an end.)                                      *)
EventuallyCurrent ==
    <>[](Needs[m_dataCollectionConfigURL] \subseteq ToSet(m_dataCollectionGroupURLs)
           => m_dataCollectionConfig = Current)
=============================================================================
