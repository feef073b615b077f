----------------------------- MODULE Handshake -------------------------------
(***************************************************************************)
(* Minions, the broker and the Dominion together: a Minion reports that it *)
(* started, the Dominion records it and sends the initialization message   *)
(* back.                                                                   *)
(***************************************************************************)
EXTENDS MinionController, DominionController

VARIABLE lost  \* the Minions one of whose messages was lost since their last
               \* start, on the way there or back (history)

handshakeVars == <<brokerVars, minionVars, dominionVars, lost>>

Owners(i) == {m \in Minions : m_id[m] = i}

HandshakeTypeOK ==
    /\ BrokerTypeOK /\ MinionTypeOK /\ DominionTypeOK
    /\ lost \in SUBSET Minions

HandshakeInit == BrokerInit /\ MinionInit /\ DominionInit /\ lost = {}

(* What a crash of the Dominion loses: replies that it has yet to send, and *)
(* the message that it is handling.                                        *)
Unanswered == {m \in Minions : m_id[m] \in MinionIds /\ replies[m_id[m]] > 0}
Handled == IF dphase = "idle" THEN {} ELSE {message.from}

(* The steps of a Minion, with what they lose. *)
MinionSteps ==
    \E m \in Minions :
       /\ \/ StartStep(m) \/ EndStep(m) \/ SetLocation(m) \/ RouteStep(m)
       /\ lost' = IF starts'[m] # starts[m] THEN lost \ {m}
                  ELSE IF /\ outgoing'[m] # outgoing[m]
                          /\ outgoing'[m] \subseteq outgoing[m]
                          /\ initialization' = initialization
                       THEN lost \cup {m}
                       ELSE lost
       /\ UNCHANGED dominionVars

DominionSteps ==
    /\ \/ /\ StartDominion \/ Receive \/ WriteStatus \/ SendInitialization
          /\ UNCHANGED lost
       \/ /\ WriteFails
          /\ lost' = lost \cup {message.from}
       \/ /\ CrashDominion
          /\ lost' = lost \cup Unanswered \cup Handled
       \/ \E i \in MinionIds :
             \/ Reply(i) /\ lost' = IF i = BlankId THEN lost \cup Owners(i) ELSE lost
             \/ ReplyFails(i) /\ lost' = lost \cup Owners(i)
    /\ UNCHANGED minionVars

HandshakeNext == MinionSteps \/ DominionSteps

HandshakeSpec == HandshakeInit /\ [][HandshakeNext]_handshakeVars

(* Every party goes on with what it has begun.  The Dominion is started    *)
(* again after a crash and, however often it crashes, stays up now and     *)
(* then for long enough to take the next message.  Whether a Minion is     *)
(* started, stopped, crashes or is configured is left open.                *)
HandshakeFairness ==
    /\ \A m \in Minions :
          /\ WF_handshakeVars(MinionSteps /\ \E msg \in outgoing[m] :
                                 Forward(m, msg) \/ ForwardFails(m, msg))
          /\ WF_handshakeVars(MinionSteps /\ ReceiveInit(m))
    /\ WF_handshakeVars(DominionSteps /\ StartDominion)
    /\ SF_handshakeVars(DominionSteps /\ Receive)
    /\ WF_handshakeVars(DominionSteps /\ (WriteStatus \/ WriteFails \/ SendInitialization))
    /\ WF_handshakeVars(DominionSteps /\ \E i \in MinionIds : Reply(i) \/ ReplyFails(i))

FairHandshakeSpec == HandshakeSpec /\ HandshakeFairness

-----------------------------------------------------------------------------
(* An initialization message is a reply to a recorded Minion: wherever one *)
(* is under way, the database already has the record of its addressee.     *)
RecordBeforeInit ==
    \A i \in MinionIds : replies[i] + control[i] > 0 => minions[i] # NoRecord

InTransit(m) ==
    \/ outgoing[m] # {}
    \/ \E k \in DOMAIN initialization : initialization[k].from = m
    \/ dphase = "writing" /\ message.from = m

(* When the messages of a running Minion have all arrived, the database    *)
(* says that it is started: the "Stopped" of an earlier life never         *)
(* overtakes the "Started" of this one.                                    *)
RecordIsCurrent ==
    \A m \in Minions :
       /\ phase[m] = "running" /\ ~InTransit(m) /\ m \notin lost
       /\ \A n \in Minions \ {m} : m_id[n] # m_id[m]
       => minions[m_id[m]] = "Started"

(* A Minion that keeps running is recorded as started, unless a message    *)
(* was lost: nobody repeats a lost one.                                    *)
RunningIsRecorded ==
    \A m \in Minions :
       phase[m] = "running"
         ~> \/ phase[m] # "running" \/ m \in lost
            \/ minions[m_id[m]] = "Started"
=============================================================================
