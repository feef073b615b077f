------------------------------- MODULE Broker --------------------------------
(***************************************************************************)
(* The ActiveMQ queues between Minions and the Dominion, as the routes use *)
(* them: queue "initialization" carries status messages, in order, from    *)
(* the Minions; a queue "control-<id>" per Minion carries initialization   *)
(* messages back.  Queues are persistent: they survive a restart of either *)
(* side.                                                                   *)
(***************************************************************************)
EXTENDS Naturals, Sequences

CONSTANTS
    Minions,  \* the Minion installations
    MaxIds,   \* bound on the UUIDs that are drawn
    BlankId,  \* an id property of the configuration that holds only blanks
    NoId      \* no id property in the configuration

ASSUME BrokerAssumption ==
    /\ MaxIds \in Nat
    /\ BlankId \notin Nat /\ NoId \notin Nat /\ BlankId # NoId

(* UUIDs are numbered in the order in which they are drawn.                *)
MinionIds == 1..MaxIds \cup {BlankId}

(* A status message.  "from" names the installation that sent it: it is    *)
(* not part of the message and no action of the Dominion depends on it.    *)
StatusMessage ==
    [from : Minions, id : MinionIds, status : {"Started", "Stopped"}]

VARIABLES
    initialization,  \* the status messages under way to the Dominion
    control          \* id -> number of initialization messages in its queue

brokerVars == <<initialization, control>>

BrokerTypeOK ==
    /\ initialization \in Seq(StatusMessage)
    /\ control \in [MinionIds -> Nat]

BrokerInit ==
    /\ initialization = <<>>
    /\ control = [i \in MinionIds |-> 0]
=============================================================================
