-------------------------- MODULE MinionController ---------------------------
(***************************************************************************)
(* org.opennms.minion.controller.internal.MinionControllerImpl and its     *)
(* Blueprint container: how a Minion finds or draws its id, checks its     *)
(* configuration, opens its routes and reports that it started or stopped. *)
(*                                                                         *)
(* The configuration (ConfigurationAdmin, PID org.opennms.minion.          *)
(* controller) survives a crash; everything else is lost.  The container   *)
(* is reloaded whenever the configuration changes, also by saveProperty(): *)
(* a reload is a Stop followed by a new start.                             *)
(***************************************************************************)
EXTENDS Broker

CONSTANTS InitialIds,  \* what the id property may hold before the first start
          MaxStarts    \* bound on the starts of one Minion

ASSUME MinionAssumption == InitialIds \subseteq {NoId, BlankId}

VARIABLES
    saved,     \* minion -> the id property of the configuration
    located,   \* minion -> is the location property set?
    phase,     \* minion -> how far start() or stop() is
    m_id,      \* minion -> the field m_id
    readBack,  \* minion -> the location seen by saveProperty()'s getProperties()
    outgoing,  \* minion -> messages in the producer's threads and seda:sendMessage
    issued,    \* number of UUIDs drawn so far
    starts,    \* minion -> number of starts
    spoken     \* minion -> every id it ever put into a message (history)

minionVars == <<saved, located, phase, m_id, readBack, outgoing, issued, starts, spoken>>

Phases == {"down", "unsaved", "saving", "identified", "located", "routed",
           "running", "stopping", "failed"}

MinionTypeOK ==
    /\ saved \in [Minions -> MinionIds \cup {NoId}]
    /\ located \in [Minions -> BOOLEAN]
    /\ phase \in [Minions -> Phases]
    /\ m_id \in [Minions -> MinionIds \cup {NoId}]
    /\ readBack \in [Minions -> BOOLEAN]
    /\ outgoing \in [Minions -> SUBSET StatusMessage]
    /\ issued \in 0..MaxIds
    /\ starts \in [Minions -> Nat]
    /\ spoken \in [Minions -> SUBSET MinionIds]

MinionInit ==
    /\ saved \in [Minions -> InitialIds]
    /\ located \in [Minions -> BOOLEAN]
    /\ phase = [m \in Minions |-> "down"]
    /\ m_id = [m \in Minions |-> NoId]
    /\ readBack = [m \in Minions |-> FALSE]
    /\ outgoing = [m \in Minions |-> {}]
    /\ issued = 0
    /\ starts = [m \in Minions |-> 0]
    /\ spoken = [m \in Minions |-> {}]

Enter(m, p) == phase' = [phase EXCEPT ![m] = p]

-----------------------------------------------------------------------------
(* start() *)

(* Mutant: a Minion without an id goes on without one. *)
LoadIdUndrawn(m) ==
    /\ phase[m] = "down" /\ starts[m] < MaxStarts
    /\ starts' = [starts EXCEPT ![m] = @ + 1]
    /\ m_id' = [m_id EXCEPT ![m] = saved[m]]
    /\ Enter(m, "identified")
    /\ UNCHANGED <<saved, located, issued, readBack, outgoing, spoken, brokerVars>>

(* Mutant: every start draws a UUID. *)
LoadIdFresh(m) ==
    /\ phase[m] = "down" /\ starts[m] < MaxStarts /\ issued < MaxIds
    /\ starts' = [starts EXCEPT ![m] = @ + 1]
    /\ issued' = issued + 1
    /\ m_id' = [m_id EXCEPT ![m] = issued + 1]
    /\ Enter(m, "unsaved")
    /\ UNCHANGED <<saved, located, readBack, outgoing, spoken, brokerVars>>

(* loadProperty("id"); a Minion without an id draws a random UUID.         *)
LoadId(m) ==
    /\ phase[m] = "down" /\ starts[m] < MaxStarts
    /\ starts' = [starts EXCEPT ![m] = @ + 1]
    /\ IF saved[m] = NoId
       THEN /\ issued < MaxIds
            /\ issued' = issued + 1
            /\ m_id' = [m_id EXCEPT ![m] = issued + 1]
            /\ Enter(m, "unsaved")
       ELSE /\ m_id' = [m_id EXCEPT ![m] = saved[m]]
            /\ Enter(m, "identified")
            /\ UNCHANGED issued
    /\ UNCHANGED <<saved, located, readBack, outgoing, spoken, brokerVars>>

(* Mutant: the id is used before it is saved. *)
SaveReadSkipped(m) ==
    /\ phase[m] = "unsaved"
    /\ readBack' = [readBack EXCEPT ![m] = located[m]]
    /\ Enter(m, "identified")
    /\ UNCHANGED <<saved, located, m_id, outgoing, issued, starts, spoken, brokerVars>>

(* saveProperty() reads all properties ...                                 *)
SaveRead(m) ==
    /\ phase[m] = "unsaved"
    /\ readBack' = [readBack EXCEPT ![m] = located[m]]
    /\ Enter(m, "saving")
    /\ UNCHANGED <<saved, located, m_id, outgoing, issued, starts, spoken, brokerVars>>

(* ... and writes them all, the new id among them.                         *)
SaveUpdate(m) ==
    /\ phase[m] = "saving"
    /\ saved' = [saved EXCEPT ![m] = m_id[m]]
    /\ located' = [located EXCEPT ![m] = readBack[m]]
    /\ Enter(m, "identified")
    /\ UNCHANGED <<m_id, readBack, outgoing, issued, starts, spoken, brokerVars>>

(* The configuration registry fails: start() throws.                       *)
ConfigFails(m) ==
    /\ phase[m] \in {"unsaved", "saving", "identified"}
    /\ Enter(m, "failed")
    /\ UNCHANGED <<saved, located, m_id, readBack, outgoing, issued, starts,
                   spoken, brokerVars>>

(* A Minion without a location does not start; its id stays saved.         *)
LoadLocation(m) ==
    /\ phase[m] = "identified"
    /\ Enter(m, IF located[m] THEN "located" ELSE "failed")
    /\ UNCHANGED <<saved, located, m_id, readBack, outgoing, issued, starts,
                   spoken, brokerVars>>

(* assertCamelContextInitialized(): the routes are added, or it throws.    *)
AddRoutes(m) ==
    /\ phase[m] = "located"
    /\ \E p \in {"routed", "failed"} : Enter(m, p)
    /\ UNCHANGED <<saved, located, m_id, readBack, outgoing, issued, starts,
                   spoken, brokerVars>>

(* createStatusMessage() and asyncRequestBody("seda:sendMessage", ...).    *)
SendMessage(m, s) ==
    /\ outgoing' = [outgoing EXCEPT
          ![m] = @ \cup {[from |-> m, id |-> m_id[m], status |-> s]}]
    /\ spoken' = [spoken EXCEPT ![m] = @ \cup {m_id[m]}]

(* Mutant: start() ends without a message. *)
SendStartMessageSilent(m) ==
    /\ phase[m] = "routed"
    /\ Enter(m, "running")
    /\ UNCHANGED <<saved, located, m_id, readBack, outgoing, issued, starts, spoken,
                   brokerVars>>

SendStartMessage(m) ==
    /\ phase[m] = "routed"
    /\ SendMessage(m, "Started")
    /\ Enter(m, "running")
    /\ UNCHANGED <<saved, located, m_id, readBack, issued, starts, brokerVars>>

-----------------------------------------------------------------------------
(* stop(), failures and the configuration's other writer *)

(* The bundle is stopped, or its container reloaded: sendStopMessage().    *)
Stop(m) ==
    /\ phase[m] = "running"
    /\ SendMessage(m, "Stopped")
    /\ Enter(m, "stopping")
    /\ UNCHANGED <<saved, located, m_id, readBack, issued, starts, brokerVars>>

(* Mutant: the old context goes on sending after the new one has started.  *)
ContextDownLater(m) ==
    /\ phase[m] = "stopping"
    /\ Enter(m, "down")
    /\ UNCHANGED <<saved, located, m_id, readBack, outgoing, issued, starts,
                   spoken, brokerVars>>

(* Three seconds later the Camel context goes down, with whatever it could *)
(* not hand to the broker in that time.                                    *)
ContextDown(m) ==
    /\ phase[m] = "stopping"
    /\ Enter(m, "down")
    /\ outgoing' = [outgoing EXCEPT ![m] = {}]
    /\ UNCHANGED <<saved, located, m_id, readBack, issued, starts, spoken, brokerVars>>

(* A crash, or the restart of a container whose start() failed.            *)
Crash(m) ==
    /\ phase[m] # "down"
    /\ Enter(m, "down")
    /\ outgoing' = [outgoing EXCEPT ![m] = {}]
    /\ UNCHANGED <<saved, located, m_id, readBack, issued, starts, spoken, brokerVars>>

(* The operator sets the location property.                                *)
SetLocation(m) ==
    /\ ~located[m]
    /\ located' = [located EXCEPT ![m] = TRUE]
    /\ UNCHANGED <<saved, phase, m_id, readBack, outgoing, issued, starts,
                   spoken, brokerVars>>

-----------------------------------------------------------------------------
(* The routes *)

ContextUp(m) == phase[m] \in {"routed", "running", "stopping"}

(* sendMinionMessage: the producer's threads hand messages to the route in *)
(* any order, and the route to the queue.                                  *)
Forward(m, msg) ==
    /\ msg \in outgoing[m]
    /\ outgoing' = [outgoing EXCEPT ![m] = @ \ {msg}]
    /\ initialization' = Append(initialization, msg)
    /\ UNCHANGED <<saved, located, phase, m_id, readBack, issued, starts, spoken, control>>

(* The broker cannot be reached: the exchange fails and nobody retries.    *)
ForwardFails(m, msg) ==
    /\ msg \in outgoing[m]
    /\ outgoing' = [outgoing EXCEPT ![m] = @ \ {msg}]
    /\ UNCHANGED <<saved, located, phase, m_id, readBack, issued, starts, spoken, brokerVars>>

(* receiveMinionMessage: onMessage() only logs.                            *)
ReceiveInit(m) ==
    /\ ContextUp(m)
    /\ control[m_id[m]] > 0
    /\ control' = [control EXCEPT ![m_id[m]] = @ - 1]
    /\ UNCHANGED <<minionVars, initialization>>

-----------------------------------------------------------------------------
StartStep(m) ==
    \/ LoadId(m) \/ SaveRead(m) \/ SaveUpdate(m) \/ ConfigFails(m)
    \/ LoadLocation(m) \/ AddRoutes(m) \/ SendStartMessage(m)

EndStep(m) == Stop(m) \/ ContextDown(m) \/ Crash(m)

RouteStep(m) ==
    \/ \E msg \in outgoing[m] : Forward(m, msg) \/ ForwardFails(m, msg)
    \/ ReceiveInit(m)

MinionNext == \E m \in Minions : StartStep(m) \/ EndStep(m) \/ SetLocation(m) \/ RouteStep(m)

-----------------------------------------------------------------------------
(* A Minion has one identity: whatever it was interrupted by, every        *)
(* message it ever sent carries the id that its configuration holds now.   *)
(* start() saves a new id before anything else can fail.                   *)
OneIdentity == \A m \in Minions : spoken[m] \subseteq {saved[m]}

(* An id is saved once and for all: no restart draws another one.          *)
IdKept == [][\A m \in Minions : saved[m] # NoId => saved'[m] = saved[m]]_saved
=============================================================================
