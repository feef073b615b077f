------------------------- MODULE DominionController --------------------------
(***************************************************************************)
(* org.opennms.minion.dominion.controller.internal.DominionControllerImpl, *)
(* its MinionQueueNameProcessor and the status writer behind it, as far as *)
(* the handshake with the Minions goes.  The database survives a crash.    *)
(*                                                                         *)
(* The JMS consumer acknowledges a message when it takes it, so that a     *)
(* failure in onMessage(), or a crash, loses the message.                  *)
(***************************************************************************)
EXTENDS Broker

CONSTANTS NoRecord,  \* the database has no OnmsMinion with this id
          NoMessage  \* no message was received yet

ASSUME DominionAssumption ==
    NoRecord \notin {"Started", "Stopped"} /\ NoMessage \notin StatusMessage

VARIABLES
    dphase,   \* "down", "idle", or how far onMessage() is
    message,  \* the message that onMessage() handles
    minions,  \* id -> status of the OnmsMinion record in the database
    replies,  \* id -> messages in the producer's threads and seda:sendMessage
    dummy     \* number of messages in the queue "dummy", which nobody reads

dominionVars == <<dphase, message, minions, replies, dummy>>

DominionTypeOK ==
    /\ dphase \in {"down", "idle", "writing", "replying"}
    /\ message \in StatusMessage \cup {NoMessage}
    /\ minions \in [MinionIds -> {"Started", "Stopped", NoRecord}]
    /\ replies \in [MinionIds -> Nat]
    /\ dummy \in Nat

DominionInit ==
    /\ dphase = "down"
    /\ message = NoMessage
    /\ minions = [i \in MinionIds |-> NoRecord]
    /\ replies = [i \in MinionIds |-> 0]
    /\ dummy = 0

(* start(): the routes are added. *)
StartDominion ==
    /\ dphase = "down"
    /\ dphase' = "idle"
    /\ UNCHANGED <<message, minions, replies, dummy, brokerVars>>

(* receiveMinionMessage takes the next message and calls onMessage().      *)
Receive ==
    /\ dphase = "idle" /\ initialization # <<>>
    /\ message' = Head(initialization)
    /\ initialization' = Tail(initialization)
    /\ dphase' = "writing"
    /\ UNCHANGED <<minions, replies, dummy, control>>

(* StatusMessageWriter.write(): creates the record or updates it, whatever *)
(* the dates of the record and of the message are.                         *)
WriteStatus ==
    /\ dphase = "writing"
    /\ minions' = [minions EXCEPT ![message.id] = message.status]
    /\ dphase' = "replying"
    /\ UNCHANGED <<message, replies, dummy, brokerVars>>

(* Mutant: the exception of the writer is swallowed. *)
WriteFailsQuietly ==
    /\ dphase = "writing"
    /\ dphase' = "replying"
    /\ UNCHANGED <<message, minions, replies, dummy, brokerVars>>

(* The writer throws: onMessage() ends, and no initialization is sent.     *)
WriteFails ==
    /\ dphase = "writing"
    /\ dphase' = "idle"
    /\ UNCHANGED <<message, minions, replies, dummy, brokerVars>>

(* sendInitializationMessage(): handed to the producer's threads.          *)
SendInitialization ==
    /\ dphase = "replying"
    /\ replies' = [replies EXCEPT ![message.id] = @ + 1]
    /\ dphase' = "idle"
    /\ UNCHANGED <<message, minions, dummy, brokerVars>>

(* sendMinionMessage: MinionQueueNameProcessor names the queue control-id; *)
(* for a blank id it leaves the endpoint's own queue, "dummy".             *)
Reply(i) ==
    /\ replies[i] > 0
    /\ replies' = [replies EXCEPT ![i] = @ - 1]
    /\ IF i = BlankId
       THEN dummy' = dummy + 1 /\ UNCHANGED control
       ELSE control' = [control EXCEPT ![i] = @ + 1] /\ UNCHANGED dummy
    /\ UNCHANGED <<dphase, message, minions, initialization>>

(* The broker cannot be reached: the exchange fails and nobody retries.    *)
ReplyFails(i) ==
    /\ replies[i] > 0
    /\ replies' = [replies EXCEPT ![i] = @ - 1]
    /\ UNCHANGED <<dphase, message, minions, dummy, brokerVars>>

CrashDominion ==
    /\ dphase # "down"
    /\ dphase' = "down"
    /\ replies' = [i \in MinionIds |-> 0]
    /\ UNCHANGED <<message, minions, dummy, brokerVars>>

DominionNext ==
    \/ StartDominion \/ Receive \/ WriteStatus \/ WriteFails
    \/ SendInitialization \/ CrashDominion
    \/ \E i \in MinionIds : Reply(i) \/ ReplyFails(i)
=============================================================================
