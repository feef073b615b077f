---------------------------- MODULE SamplerConfig ----------------------------
(***************************************************************************)
(* The sampler-config routes: two timers load the collectd configuration   *)
(* from the OpenNMS server into a SingletonBeanFactory, and the one that   *)
(* fires only once also turns it into one PackageAgentList per package and *)
(* service and sends these to the scheduler.  Both fire at the same delay  *)
(* and run on threads of their own.                                        *)
(*                                                                         *)
(* A version of the configuration stands for what the server offered at a  *)
(* time.  Content[v] is the set of its package-and-service pairs, named by *)
(* the id of their PackageAgentList.                                       *)
(***************************************************************************)
EXTENDS Naturals, Sequences, FiniteSets, SequencesExt

CONSTANTS Ids,          \* package-and-service pairs
          MaxVersion,   \* bound on the versions the server offers
          Content,      \* version -> the pairs in it
          Null          \* no configuration

ASSUME SamplerConfigAssumption ==
    /\ IsFiniteSet(Ids)
    /\ MaxVersion \in Nat \ {0}
    /\ Content \in [1..MaxVersion -> SUBSET Ids]
    /\ Null \notin 1..MaxVersion

Versions == 1..MaxVersion
Timers == {"runOnce", "reloadConfigs"}

VARIABLES
    offered,     \* the version that the server offers now
    instance,    \* the bean collectdConfiguration
    pc,          \* timer -> "timer", "fetched", "packages" or "done"
    body,        \* timer -> the message body that was fetched
    packages,    \* seda:loadPackageAgents
    lists,       \* seda:scheduleAgents
    scheduled,   \* the ids for which schedule() was called
    schedulerUp, \* is a SchedulerService registered?
    read,        \* the version that loadCollectionPackages read, or Null (history)
    dropped      \* the ids that a failed request or the whiteboard dropped (history)

vars == <<offered, instance, pc, body, packages, lists, scheduled, schedulerUp,
          read, dropped>>

TypeOK ==
    /\ offered \in Versions
    /\ instance \in Versions \cup {Null}
    /\ pc \in [Timers -> {"timer", "fetched", "packages", "done"}]
    /\ body \in [Timers -> Versions \cup {Null}]
    /\ packages \in Seq(Ids)
    /\ lists \in Seq([id : Ids, empty : BOOLEAN])
    /\ scheduled \in SUBSET Ids
    /\ schedulerUp \in BOOLEAN
    /\ read \in Versions \cup {Null}
    /\ dropped \in SUBSET Ids

Init ==
    /\ offered = 1
    /\ instance = Null
    /\ pc = [t \in Timers |-> "timer"]
    /\ body = [t \in Timers |-> Null]
    /\ packages = <<>> /\ lists = <<>>
    /\ scheduled = {}
    /\ schedulerUp \in BOOLEAN
    /\ read = Null /\ dropped = {}

-----------------------------------------------------------------------------
(* The environment: the server's configuration is edited, and the bundle   *)
(* of the scheduler comes up.                                              *)
Edit ==
    /\ offered < MaxVersion
    /\ offered' = offered + 1
    /\ UNCHANGED <<instance, pc, body, packages, lists, scheduled, schedulerUp,
                   read, dropped>>

SchedulerAppears ==
    /\ ~schedulerUp
    /\ schedulerUp' = TRUE
    /\ UNCHANGED <<offered, instance, pc, body, packages, lists, scheduled, read,
                   dropped>>

(* Mutant: the timer "reloadConfigs" fires once, too. *)
AfterLoadingOnce(t) == IF t = "runOnce" THEN "packages" ELSE "done"

(* Where a timer's thread goes on once the configuration was loaded: only  *)
(* the one that fires once goes on to the packages.                        *)
AfterLoading(t) == IF t = "runOnce" THEN "packages" ELSE "timer"

(* loadCollectdConfiguration: parseJaxbXml answered, with a document or,   *)
(* when there was none or it could not be converted, with a null body.     *)
Fetch(t) ==
    /\ pc[t] = "timer"
    /\ \E v \in {offered, Null} : body' = [body EXCEPT ![t] = v]
    /\ pc' = [pc EXCEPT ![t] = "fetched"]
    /\ UNCHANGED <<offered, instance, packages, lists, scheduled, schedulerUp,
                   read, dropped>>

(* The server cannot be reached: the exception is handled and the exchange *)
(* stops; whether the multicast that called it goes on is left open.       *)
FetchFails(t) ==
    /\ pc[t] = "timer"
    /\ \E p \in {AfterLoading(t), IF t = "runOnce" THEN "done" ELSE "timer"} :
          pc' = [pc EXCEPT ![t] = p]
    /\ UNCHANGED <<offered, instance, body, packages, lists, scheduled,
                   schedulerUp, read, dropped>>

(* Mutant: no filter on the body. *)
AcceptAny(old, new) == new

(* The filter "${body} != null" in front of setInstance().                 *)
Accept(old, new) == IF new = Null THEN old ELSE new

SetInstance(t) ==
    /\ pc[t] = "fetched"
    /\ instance' = Accept(instance, body[t])
    /\ pc' = [pc EXCEPT ![t] = AfterLoading(t)]
    /\ UNCHANGED <<offered, body, packages, lists, scheduled, schedulerUp, read,
                   dropped>>

(* loadCollectionPackages: getInstance(), split by package, by service.    *)
Split(v) == SetToSeqs(Content[v])

(* Mutant: the startup timer has no repeatCount. *)
LoadCollectionPackagesAgain ==
    /\ pc["runOnce"] = "packages"
    /\ read' = instance
    /\ IF instance = Null THEN UNCHANGED packages
       ELSE \E s \in Split(instance) : packages' = packages \o s
    /\ pc' = [pc EXCEPT !["runOnce"] = "timer"]
    /\ UNCHANGED <<offered, instance, body, lists, scheduled, schedulerUp, dropped>>

LoadCollectionPackages ==
    /\ pc["runOnce"] = "packages"
    /\ read' = instance
    /\ IF instance = Null THEN UNCHANGED packages
       ELSE \E s \in Split(instance) : packages' = packages \o s
    /\ pc' = [pc EXCEPT !["runOnce"] = "done"]
    /\ UNCHANGED <<offered, instance, body, lists, scheduled, schedulerUp, dropped>>

(* The filter of loadPackageAgents.                                        *)
Pass(list) == ~list.empty

(* Mutant: the package goes on without its agents. *)
LoadPackageAgentsUnaggregated ==
    /\ packages # <<>>
    /\ packages' = Tail(packages)
    /\ lists' = Append(lists, Head(packages))
    /\ UNCHANGED <<offered, instance, pc, body, scheduled, schedulerUp, read, dropped>>

(* loadPackageAgents: the agents are fetched and aggregated with the       *)
(* package; a body that is null counts as an empty list.                   *)
LoadPackageAgents ==
    /\ packages # <<>>
    /\ packages' = Tail(packages)
    /\ \E e \in BOOLEAN :
          LET list == [id |-> Head(packages), empty |-> e]
          IN  /\ lists' = IF Pass(list) THEN Append(lists, list) ELSE lists
              /\ dropped' = IF Pass(list) THEN dropped ELSE dropped \cup {list.id}
    /\ UNCHANGED <<offered, instance, pc, body, scheduled, schedulerUp, read>>

(* The agents cannot be fetched: the exchange stops. *)
LoadPackageAgentsFails ==
    /\ packages # <<>>
    /\ packages' = Tail(packages)
    /\ dropped' = dropped \cup {Head(packages)}
    /\ UNCHANGED <<offered, instance, pc, body, lists, scheduled, schedulerUp, read>>

(* schedulingDispatcher: schedule(), or a drop when there is no scheduler. *)
ScheduleAgents ==
    /\ lists # <<>>
    /\ lists' = Tail(lists)
    /\ IF schedulerUp
       THEN scheduled' = scheduled \cup {Head(lists).id} /\ UNCHANGED dropped
       ELSE dropped' = dropped \cup {Head(lists).id} /\ UNCHANGED scheduled
    /\ UNCHANGED <<offered, instance, pc, body, packages, schedulerUp, read>>

TimerStep(t) == Fetch(t) \/ FetchFails(t) \/ SetInstance(t)

Next ==
    \/ Edit \/ SchedulerAppears
    \/ \E t \in Timers : TimerStep(t)
    \/ LoadCollectionPackages
    \/ LoadPackageAgents \/ LoadPackageAgentsFails \/ ScheduleAgents

Spec == Init /\ [][Next]_vars

(* Timers fire, routes go on with their messages, and a server that is     *)
(* asked again and again answers with the document now and then.           *)
Fairness ==
    /\ \A t \in Timers : WF_vars(TimerStep(t))
    /\ SF_vars(Fetch("reloadConfigs") /\ body'["reloadConfigs"] # Null)
    /\ WF_vars(LoadCollectionPackages)
    /\ WF_vars(LoadPackageAgents \/ LoadPackageAgentsFails)
    /\ WF_vars(ScheduleAgents)

FairSpec == Spec /\ Fairness

-----------------------------------------------------------------------------
(* Once the server's configuration stays the same, the bean ends up with   *)
(* it, although the two timers may set it in either order.                 *)
EventuallyCurrent ==
    \A v \in Versions : <>[](offered = v) => <>[](instance = v)

(* Once the startup has read the configuration, each of its pairs is in    *)
(* exactly one place of the pipeline: no pair is lost without a failure,   *)
(* and none is scheduled twice, since a second list for an id would cancel *)
(* the polls of the first.                                                 *)
EachPairOnce ==
    LET Ways(i) == Cardinality({k \in DOMAIN packages : packages[k] = i})
                   + Cardinality({k \in DOMAIN lists : lists[k].id = i})
                   + (IF i \in scheduled THEN 1 ELSE 0)
                   + (IF i \in dropped THEN 1 ELSE 0)
    IN  \A i \in Ids : Ways(i) = IF read # Null /\ i \in Content[read] THEN 1 ELSE 0
=============================================================================
