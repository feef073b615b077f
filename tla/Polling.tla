------------------------------- MODULE Polling -------------------------------
(***************************************************************************)
(* From the server's configuration to living polls: the routes of          *)
(* sampler-config (module SamplerConfig) send each list through their      *)
(* whiteboard to the scheduler, whose table of polls is abstracted to the  *)
(* version of the list that each id is polled by (OneGeneration and        *)
(* AllOrNothing of module Scheduler allow that).  Each of the two bundles  *)
(* may be restarted at any time, without the other.                        *)
(***************************************************************************)
EXTENDS SamplerConfig

CONSTANT MaxLives   \* bound on the lives of the bundle sampler-config

ASSUME PollingAssumption == MaxLives \in Nat \ {0}

VARIABLES
    polled,     \* id -> the version of its living polls, or Null
    lives,      \* number of lives of sampler-config
    forgotten   \* ids whose polls a restart of the scheduler ended in this life (history)

pollingVars == <<vars, polled, lives, forgotten>>

PollingInit ==
    /\ Init
    /\ polled = [i \in Ids |-> Null]
    /\ lives = 1
    /\ forgotten = {}

(* Mutant: a list is taken only for an id that is not polled. *)
ReplacedIfAbsent(list) ==
    IF schedulerUp /\ polled[list.id] = Null
    THEN [polled EXCEPT ![list.id] = read] ELSE polled

(* schedule(): the polls of the list replace those of its id.              *)
Replaced(list) ==
    IF schedulerUp THEN [polled EXCEPT ![list.id] = read] ELSE polled

Schedule ==
    /\ ScheduleAgents
    /\ polled' = Replaced(Head(lists))
    /\ UNCHANGED <<lives, forgotten>>

(* The bundle of sampler-config restarts: the bean and the seda queues are *)
(* gone, both timers start again, and the scheduler's polls go on.         *)
ConfigRestarts ==
    /\ lives < MaxLives
    /\ lives' = lives + 1
    /\ instance' = Null /\ read' = Null
    /\ pc' = [t \in Timers |-> "timer"] /\ body' = [t \in Timers |-> Null]
    /\ packages' = <<>> /\ lists' = <<>>
    /\ scheduled' = {} /\ dropped' = {} /\ forgotten' = {}
    /\ UNCHANGED <<offered, schedulerUp, polled>>

(* The bundle of the scheduler stops.  Nothing shuts its executor down, so *)
(* that its tasks go on, but the dispatchers are unbound and a task finds  *)
(* only the one that does nothing: no agent is polled any more, nobody     *)
(* sends the lists again, and a new scheduler knows nothing of the tasks.  *)
SchedulerStops ==
    /\ schedulerUp
    /\ schedulerUp' = FALSE
    /\ forgotten' = forgotten \cup {i \in Ids : polled[i] # Null}
    /\ polled' = [i \in Ids |-> Null]
    /\ UNCHANGED <<offered, instance, pc, body, packages, lists, scheduled, read,
                   dropped, lives>>

ConfigStep ==
    /\ \/ \E t \in Timers : TimerStep(t)
       \/ LoadCollectionPackages
       \/ LoadPackageAgents \/ LoadPackageAgentsFails
       \/ Edit \/ SchedulerAppears
    /\ UNCHANGED <<polled, lives, forgotten>>

PollingNext == ConfigStep \/ Schedule \/ ConfigRestarts \/ SchedulerStops

PollingSpec == PollingInit /\ [][PollingNext]_pollingVars /\ Fairness

-----------------------------------------------------------------------------
PollingTypeOK ==
    /\ TypeOK
    /\ polled \in [Ids -> Versions \cup {Null}]
    /\ lives \in 1..MaxLives
    /\ forgotten \subseteq Ids

(* A configuration that was loaded is never lost again before the bundle   *)
(* restarts, whatever the server answers later.                            *)
NeverBackToNull ==
    [][instance # Null /\ lives' = lives => instance' # Null]_pollingVars

(* The polls of an id are never replaced by those of an older version,     *)
(* whichever of the two timers was the slower one, and however often       *)
(* sampler-config restarts with lists under way.                           *)
NeverOlderPolls ==
    [][\A i \in Ids : polled[i] # Null /\ polled'[i] # Null
          => polled'[i] >= polled[i]]_pollingVars

(* Every pair of the configuration that the startup has read is polled as  *)
(* that configuration says, unless its agents could not be had, or the     *)
(* scheduler was not there, or restarted; or sampler-config starts anew.   *)
StartupPolls ==
    \A i \in Ids : \A v \in Versions :
       (read = v /\ i \in Content[v]) ~>
          (polled[i] = v \/ i \in dropped \cup forgotten \/ read # v)
=============================================================================
