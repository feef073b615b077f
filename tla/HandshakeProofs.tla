--------------------------- MODULE HandshakeProofs ---------------------------
(***************************************************************************)
(* Theorems about Handshake, for every number of Minions, ids and starts,  *)
(* with crashes of both sides and lost messages.                           *)
(***************************************************************************)
EXTENDS Handshake, TLAPS

-----------------------------------------------------------------------------
(* The steps of a Minion leave the variables of the Dominion alone, and the *)
(* other way round: each side is typed by itself.                          *)

(* A Minion that speaks has an id; the type of a message needs it.         *)
IdentityInv ==
    \A m \in Minions :
       /\ phase[m] \in {"unsaved", "saving"} => saved[m] = NoId /\ m_id[m] # NoId
       /\ phase[m] \in {"identified", "located", "routed", "running", "stopping"}
             => m_id[m] = saved[m] /\ saved[m] # NoId
       /\ saved[m] = NoId => spoken[m] = {}
       /\ spoken[m] \subseteq {saved[m]}

MinionTypes == BrokerTypeOK /\ MinionTypeOK
MinionInv == MinionTypes /\ IdentityInv

(* The start of a Minion. *)
LEMMA StartTypes ==
  ASSUME MinionInv, NEW m \in Minions, StartStep(m)
  PROVE  MinionTypes'
<1>1. CASE LoadId(m)
  <2>1. m_id' \in [Minions -> MinionIds \cup {NoId}] /\ issued' \in 0..MaxIds
    <3>1. CASE saved[m] = NoId
      <4>1. /\ issued' = issued + 1 /\ issued < MaxIds
            /\ m_id' = [m_id EXCEPT ![m] = issued + 1]
        BY <1>1, <3>1 DEF LoadId
      <4>2. issued + 1 \in MinionIds /\ issued + 1 \in 0..MaxIds
        BY <4>1, BrokerAssumption DEF MinionInv, MinionTypes, MinionTypeOK, MinionIds
      <4> QED
        BY <4>1, <4>2 DEF MinionInv, MinionTypes, MinionTypeOK
    <3>2. CASE saved[m] # NoId
      BY <1>1, <3>2 DEF LoadId, MinionInv, MinionTypes, MinionTypeOK
    <3> QED
      BY <3>1, <3>2
  <2>2. phase' \in [Minions -> Phases] /\ starts' \in [Minions -> Nat]
    BY <1>1 DEF LoadId, MinionInv, MinionTypes, MinionTypeOK, Enter, Phases
  <2>3. UNCHANGED <<saved, located, readBack, outgoing, spoken, brokerVars>>
    BY <1>1 DEF LoadId
  <2> QED
    BY <2>1, <2>2, <2>3 DEF MinionInv, MinionTypes, BrokerTypeOK, MinionTypeOK, brokerVars
<1>2. CASE SaveRead(m)
  BY <1>2 DEF MinionInv, MinionTypes, BrokerTypeOK, MinionTypeOK, SaveRead, Enter, Phases, brokerVars
<1>3. CASE SaveUpdate(m)
  BY <1>3 DEF MinionInv, MinionTypes, BrokerTypeOK, MinionTypeOK, SaveUpdate, Enter, Phases, brokerVars
<1>4. CASE ConfigFails(m)
  BY <1>4 DEF MinionInv, MinionTypes, BrokerTypeOK, MinionTypeOK, ConfigFails, Enter, Phases, brokerVars
<1>5. CASE LoadLocation(m)
  BY <1>5 DEF MinionInv, MinionTypes, BrokerTypeOK, MinionTypeOK, LoadLocation, Enter, Phases, brokerVars
<1>6. CASE AddRoutes(m)
  BY <1>6 DEF MinionInv, MinionTypes, BrokerTypeOK, MinionTypeOK, AddRoutes, Enter, Phases, brokerVars
<1>7. CASE SendStartMessage(m)
  <2>1. m_id[m] \in MinionIds
    BY <1>7 DEF MinionInv, MinionTypes, MinionTypeOK, IdentityInv, SendStartMessage
  <2>2. [from |-> m, id |-> m_id[m], status |-> "Started"] \in StatusMessage
    BY <2>1 DEF StatusMessage
  <2> QED
    BY <1>7, <2>1, <2>2 DEF MinionInv, MinionTypes, BrokerTypeOK, MinionTypeOK,
       SendStartMessage, SendMessage, Enter, Phases, brokerVars
<1> QED
  BY <1>1, <1>2, <1>3, <1>4, <1>5, <1>6, <1>7 DEF StartStep

(* The end of a Minion, and the operator. *)
LEMMA EndTypes ==
  ASSUME MinionInv, NEW m \in Minions, EndStep(m) \/ SetLocation(m)
  PROVE  MinionTypes'
<1>1. CASE Stop(m)
  <2>1. m_id[m] \in MinionIds
    BY <1>1 DEF MinionInv, MinionTypes, MinionTypeOK, IdentityInv, Stop
  <2>2. [from |-> m, id |-> m_id[m], status |-> "Stopped"] \in StatusMessage
    BY <2>1 DEF StatusMessage
  <2> QED
    BY <1>1, <2>1, <2>2 DEF MinionInv, MinionTypes, BrokerTypeOK, MinionTypeOK,
       Stop, SendMessage, Enter, Phases, brokerVars
<1>2. CASE ContextDown(m)
  BY <1>2 DEF MinionInv, MinionTypes, BrokerTypeOK, MinionTypeOK, ContextDown, Enter, Phases, brokerVars
<1>3. CASE Crash(m)
  BY <1>3 DEF MinionInv, MinionTypes, BrokerTypeOK, MinionTypeOK, Crash, Enter, Phases, brokerVars
<1>4. CASE SetLocation(m)
  BY <1>4 DEF MinionInv, MinionTypes, BrokerTypeOK, MinionTypeOK, SetLocation, brokerVars
<1> QED
  BY <1>1, <1>2, <1>3, <1>4 DEF EndStep

(* The routes of a Minion. *)
LEMMA RouteTypes ==
  ASSUME MinionInv, NEW m \in Minions, RouteStep(m)
  PROVE  MinionTypes'
<1>1. ASSUME NEW msg \in outgoing[m], Forward(m, msg) PROVE MinionTypes'
  <2>1. msg \in StatusMessage
    BY DEF MinionInv, MinionTypes, MinionTypeOK
  <2>2. initialization' \in Seq(StatusMessage)
    BY <1>1, <2>1 DEF MinionInv, MinionTypes, BrokerTypeOK, Forward
  <2> QED
    BY <1>1, <2>2 DEF MinionInv, MinionTypes, BrokerTypeOK, MinionTypeOK, Forward
<1>2. ASSUME NEW msg \in outgoing[m], ForwardFails(m, msg) PROVE MinionTypes'
  BY <1>2 DEF MinionInv, MinionTypes, BrokerTypeOK, MinionTypeOK, ForwardFails, brokerVars
<1>3. CASE ReceiveInit(m)
  <2>1. UNCHANGED <<minionVars, initialization>>
    BY <1>3 DEF ReceiveInit
  <2>2. control' \in [MinionIds -> Nat]
    <3> DEFINE k == m_id[m]
    <3>1. control' = [control EXCEPT ![k] = control[k] - 1] /\ control[k] > 0
      BY <1>3 DEF ReceiveInit
    <3>2. CASE k \in MinionIds
      BY <3>1, <3>2 DEF MinionInv, MinionTypes, BrokerTypeOK
    <3>3. CASE k \notin MinionIds
      BY <3>1, <3>3 DEF MinionInv, MinionTypes, BrokerTypeOK
    <3> QED
      BY <3>2, <3>3
  <2> QED
    BY <2>1, <2>2 DEF MinionInv, MinionTypes, BrokerTypeOK, MinionTypeOK, minionVars
<1> QED
  BY <1>1, <1>2, <1>3 DEF RouteStep

(* A Minion's id is saved before it is used: whatever fails, a message     *)
(* carries the id that is in the configuration.                            *)
LEMMA IdentityStep ==
  ASSUME MinionInv, NEW m \in Minions,
         StartStep(m) \/ EndStep(m) \/ SetLocation(m) \/ RouteStep(m)
  PROVE  /\ IdentityInv'
         /\ \A n \in Minions : saved[n] # NoId => saved'[n] = saved[n]
<1> USE DEF MinionInv, MinionTypes, MinionTypeOK, IdentityInv
<1>1. CASE LoadId(m)
  BY <1>1, BrokerAssumption DEF LoadId, Enter, MinionIds
<1>2. CASE SaveRead(m)
  BY <1>2 DEF SaveRead, Enter
<1>3. CASE SaveUpdate(m)
  BY <1>3 DEF SaveUpdate, Enter
<1>4. CASE ConfigFails(m) \/ LoadLocation(m) \/ AddRoutes(m)
  BY <1>4 DEF ConfigFails, LoadLocation, AddRoutes, Enter
<1>5. CASE SendStartMessage(m)
  BY <1>5 DEF SendStartMessage, SendMessage, Enter
<1>6. CASE Stop(m)
  BY <1>6 DEF Stop, SendMessage, Enter
<1>7. CASE ContextDown(m) \/ Crash(m)
  BY <1>7 DEF ContextDown, Crash, Enter
<1>8. CASE SetLocation(m) \/ RouteStep(m)
  BY <1>8 DEF SetLocation, RouteStep, Forward, ForwardFails, ReceiveInit, minionVars
<1> QED
  BY <1>1, <1>2, <1>3, <1>4, <1>5, <1>6, <1>7, <1>8 DEF StartStep, EndStep

-----------------------------------------------------------------------------
(* The Dominion handles a message it received, and replies only to a Minion *)
(* that it has recorded.                                                   *)
RecordInv ==
    /\ dphase \in {"writing", "replying"} => message \in StatusMessage
    /\ dphase = "replying" => minions[message.id] # NoRecord
    /\ \A i \in MinionIds : replies[i] > 0 => minions[i] # NoRecord
    /\ \A i \in MinionIds : control[i] > 0 => minions[i] # NoRecord

DominionTypes == BrokerTypeOK /\ DominionTypeOK

(* A status, once written, is never taken back, and replies come after it. *)
LEMMA DominionStep ==
  ASSUME DominionTypes, RecordInv, DominionNext
  PROVE  DominionTypes' /\ RecordInv'
<1> USE DominionAssumption DEF DominionTypes, BrokerTypeOK, DominionTypeOK, RecordInv, brokerVars
<1>1. CASE StartDominion
  BY <1>1 DEF StartDominion
<1>2. CASE Receive
  <2>1. Head(initialization) \in StatusMessage /\ Tail(initialization) \in Seq(StatusMessage)
    BY <1>2 DEF Receive
  <2> QED
    BY <1>2, <2>1 DEF Receive
<1>3. CASE WriteStatus
  <2>1. message.id \in MinionIds /\ message.status \in {"Started", "Stopped"}
    BY <1>3 DEF WriteStatus, StatusMessage
  <2>2. minions' = [minions EXCEPT ![message.id] = message.status]
    BY <1>3 DEF WriteStatus
  <2>3. /\ minions' \in [MinionIds -> {"Started", "Stopped", NoRecord}]
        /\ minions'[message.id] # NoRecord
        /\ \A i \in MinionIds : minions[i] # NoRecord => minions'[i] # NoRecord
    BY <2>1, <2>2
  <2> QED
    BY <1>3, <2>3 DEF WriteStatus
<1>4. CASE WriteFails
  BY <1>4 DEF WriteFails
<1>5. CASE SendInitialization
  <2>1. message.id \in MinionIds
    BY <1>5 DEF SendInitialization, StatusMessage
  <2>2. replies' = [replies EXCEPT ![message.id] = @ + 1]
    BY <1>5 DEF SendInitialization
  <2>3. /\ replies' \in [MinionIds -> Nat]
        /\ \A i \in MinionIds : replies'[i] > 0 => replies[i] > 0 \/ i = message.id
    BY <2>1, <2>2
  <2> QED
    BY <1>5, <2>3 DEF SendInitialization
<1>6. CASE CrashDominion
  BY <1>6 DEF CrashDominion
<1>7. ASSUME NEW i \in MinionIds, Reply(i) \/ ReplyFails(i)
      PROVE  DominionTypes' /\ RecordInv'
  <2>1. /\ replies[i] > 0 /\ minions[i] # NoRecord
        /\ replies' = [replies EXCEPT ![i] = @ - 1]
        /\ UNCHANGED <<dphase, message, minions, initialization>>
    BY <1>7 DEF Reply, ReplyFails
  <2>2. /\ replies' \in [MinionIds -> Nat]
        /\ \A j \in MinionIds : replies'[j] > 0 => replies[j] > 0
    BY <2>1
  <2>3. \/ control' = [control EXCEPT ![i] = @ + 1] /\ dummy' = dummy
        \/ control' = control /\ dummy' \in {dummy, dummy + 1}
    BY <1>7 DEF Reply, ReplyFails
  <2>4. /\ control' \in [MinionIds -> Nat] /\ dummy' \in Nat
        /\ \A j \in MinionIds : control'[j] > 0 => control[j] > 0 \/ j = i
    BY <2>3
  <2> QED
    BY <2>1, <2>2, <2>4
<1> QED
  BY <1>1, <1>2, <1>3, <1>4, <1>5, <1>6, <1>7 DEF DominionNext

-----------------------------------------------------------------------------
(* Both sides together. *)

HandshakeInv == MinionInv /\ DominionTypes /\ RecordInv

(* A step of a Minion only takes from its control queue. *)
LEMMA MinionSide ==
  ASSUME HandshakeInv, MinionSteps
  PROVE  HandshakeInv' /\ \A n \in Minions : saved[n] # NoId => saved'[n] = saved[n]
<1> PICK m \in Minions : StartStep(m) \/ EndStep(m) \/ SetLocation(m) \/ RouteStep(m)
  BY DEF MinionSteps
<1>1. MinionTypes'
  BY StartTypes, EndTypes, RouteTypes DEF HandshakeInv
<1>2. IdentityInv' /\ \A n \in Minions : saved[n] # NoId => saved'[n] = saved[n]
  BY IdentityStep DEF HandshakeInv
<1>3. UNCHANGED <<dphase, message, minions, replies, dummy>>
  BY DEF MinionSteps, dominionVars
<1>4. \A i \in MinionIds : control'[i] > 0 => control[i] > 0
  <2>1. CASE ReceiveInit(m)
    <3>1. control' = [control EXCEPT ![m_id[m]] = control[m_id[m]] - 1] /\ control[m_id[m]] > 0
      BY <2>1 DEF ReceiveInit
    <3> QED
      BY <3>1 DEF HandshakeInv, DominionTypes, BrokerTypeOK
  <2>2. CASE control' = control
    BY <2>2
  <2>3. ReceiveInit(m) \/ control' = control
    BY DEF StartStep, EndStep, RouteStep, LoadId, SaveRead, SaveUpdate, ConfigFails,
       LoadLocation, AddRoutes, SendStartMessage, Stop, ContextDown, Crash,
       SetLocation, Forward, ForwardFails, brokerVars
  <2> QED
    BY <2>1, <2>2, <2>3
<1>5. DominionTypes' /\ RecordInv'
  BY <1>1, <1>3, <1>4
     DEF HandshakeInv, DominionTypes, DominionTypeOK, RecordInv, MinionTypes
<1> QED
  BY <1>1, <1>2, <1>5 DEF HandshakeInv, MinionInv

(* A step of the Dominion leaves the Minions alone. *)
LEMMA DominionSide ==
  ASSUME HandshakeInv, DominionSteps
  PROVE  HandshakeInv' /\ saved' = saved
<1>1. DominionNext /\ UNCHANGED minionVars
  BY DEF DominionSteps, DominionNext
<1>2. DominionTypes' /\ RecordInv'
  BY <1>1, DominionStep DEF HandshakeInv
<1>3. MinionInv' /\ saved' = saved
  BY <1>1, <1>2 DEF HandshakeInv, MinionInv, MinionTypes, MinionTypeOK, IdentityInv,
     DominionTypes, minionVars
<1> QED
  BY <1>2, <1>3 DEF HandshakeInv

(* The invariant of the handshake, and that saved ids stay, in every step. *)
LEMMA HandshakeStep ==
  HandshakeInv /\ [HandshakeNext]_handshakeVars
    => HandshakeInv' /\ \A n \in Minions : saved[n] # NoId => saved'[n] = saved[n]
<1>1. CASE UNCHANGED handshakeVars
  BY <1>1 DEF HandshakeInv, MinionInv, MinionTypes, BrokerTypeOK, MinionTypeOK, IdentityInv,
     DominionTypes, DominionTypeOK, RecordInv, handshakeVars, brokerVars, minionVars, dominionVars
<1> QED
  BY <1>1, MinionSide, DominionSide DEF HandshakeNext

(* The invariant holds at the beginning. *)
LEMMA HandshakeStart == HandshakeInit => HandshakeInv
<1> USE DEF HandshakeInit, BrokerInit, MinionInit, DominionInit
<1>1. HandshakeInit => BrokerTypeOK /\ DominionTypeOK /\ RecordInv
  BY DEF BrokerTypeOK, DominionTypeOK, RecordInv
<1>2. HandshakeInit => MinionTypeOK
  BY BrokerAssumption, MinionAssumption DEF MinionTypeOK, MinionIds, Phases
<1>3. HandshakeInit => IdentityInv
  BY DEF IdentityInv
<1> QED
  BY <1>1, <1>2, <1>3 DEF HandshakeInv, MinionInv, MinionTypes, DominionTypes

(* The inductive invariant of the handshake holds in every reachable state. *)
THEOREM HandshakeInvHolds == HandshakeSpec => []HandshakeInv
  BY HandshakeStart, HandshakeStep, PTL DEF HandshakeSpec

(* Whatever interrupts a Minion between drawing its UUID and saving it, all *)
(* its messages carry the id that its configuration holds.                 *)
THEOREM OneIdentityHolds == HandshakeSpec => []OneIdentity
<1>1. HandshakeInv => OneIdentity
  BY DEF HandshakeInv, MinionInv, IdentityInv, OneIdentity
<1> QED
  BY <1>1, HandshakeInvHolds, PTL

(* An id that was saved is never replaced, by no restart and no failure.   *)
THEOREM IdKeptHolds == HandshakeSpec => IdKept
<1>1. HandshakeInv /\ [HandshakeNext]_handshakeVars
        => [\A m \in Minions : saved[m] # NoId => saved'[m] = saved[m]]_saved
  BY HandshakeStep
<1> QED
  BY <1>1, HandshakeInvHolds, PTL DEF HandshakeSpec, IdKept

(* An initialization message is under way only to a Minion that the        *)
(* database knows, however the two sides crash.                            *)
THEOREM RecordBeforeInitHolds == HandshakeSpec => []RecordBeforeInit
<1>1. HandshakeInv => RecordBeforeInit
  <2> SUFFICES ASSUME HandshakeInv, NEW i \in MinionIds, replies[i] + control[i] > 0
               PROVE  minions[i] # NoRecord
    BY DEF RecordBeforeInit
  <2>1. replies[i] \in Nat /\ control[i] \in Nat
    BY DEF HandshakeInv, DominionTypes, BrokerTypeOK, DominionTypeOK
  <2>2. replies[i] > 0 \/ control[i] > 0
    BY <2>1
  <2> QED
    BY <2>2 DEF HandshakeInv, RecordInv
<1> QED
  BY <1>1, HandshakeInvHolds, PTL

-----------------------------------------------------------------------------
(* What is under way from a Minion, and what the database says of it.      *)

(* A Minion sends only under the id it now has, and only while its context *)
(* is up; before it stops it has nothing to send but "Started".            *)
SpeechInv ==
    /\ \A m \in Minions :
          /\ spoken[m] \subseteq {m_id[m]}
          /\ \A msg \in outgoing[m] : msg.from = m /\ msg.id \in spoken[m]
          /\ phase[m] \notin {"running", "stopping"} => outgoing[m] = {}
          /\ phase[m] = "running" => \A msg \in outgoing[m] : msg.status = "Started"
    /\ \A k \in DOMAIN initialization : initialization[k].id \in spoken[initialization[k].from]
    /\ dphase = "writing" => message.id \in spoken[message.from]

(* No other Minion has ever used the id of m. *)
Quiet(m) == \A n \in Minions \ {m} : m_id[m] \notin spoken[n]

(* The k-th message of a queue is the last one from m. *)
LastOf(q, k, m) == q[k].from = m /\ \A j \in DOMAIN q : j > k => q[j].from # m

(* Once a running Minion has handed its message over, the last message     *)
(* from it, wherever it is, says "Started".                                *)
CurrentInv ==
    \A m \in Minions :
       phase[m] = "running" /\ m \notin lost /\ Quiet(m) /\ outgoing[m] = {} =>
          /\ \A k \in DOMAIN initialization :
                LastOf(initialization, k, m) => initialization[k].status = "Started"
          /\ (\A k \in DOMAIN initialization : initialization[k].from # m) =>
                IF dphase = "writing" /\ message.from = m THEN message.status = "Started"
                                                          ELSE minions[m_id[m]] = "Started"

RecordedInv == HandshakeInv /\ SpeechInv /\ CurrentInv /\ lost \in SUBSET Minions

(* What every proof about a Minion's step needs of the types. *)
LEMMA MessageTypes ==
  ASSUME HandshakeInv
  PROVE  /\ outgoing \in [Minions -> SUBSET StatusMessage] /\ spoken \in [Minions -> SUBSET MinionIds]
         /\ phase \in [Minions -> Phases] /\ m_id \in [Minions -> MinionIds \cup {NoId}]
         /\ saved \in [Minions -> MinionIds \cup {NoId}] /\ starts \in [Minions -> Nat]
         /\ initialization \in Seq(StatusMessage)
         /\ minions \in [MinionIds -> {"Started", "Stopped", NoRecord}]
         /\ dphase \in {"writing", "replying"} => message \in StatusMessage
  BY DEF HandshakeInv, MinionInv, MinionTypes, MinionTypeOK, BrokerTypeOK, DominionTypes,
     DominionTypeOK, RecordInv

(* Starting and stopping. *)
LEMMA LifeSpeech ==
  ASSUME HandshakeInv, SpeechInv, NEW m \in Minions,
         StartStep(m) \/ EndStep(m) \/ SetLocation(m), UNCHANGED dominionVars
  PROVE  SpeechInv'
<1> USE MessageTypes DEF SpeechInv, dominionVars, brokerVars
<1>1. CASE LoadId(m)
  <2>1. spoken[m] \subseteq {m_id'[m]}
    BY <1>1 DEF LoadId, HandshakeInv, MinionInv, IdentityInv
  <2>2. /\ \A n \in Minions \ {m} : m_id'[n] = m_id[n] /\ phase'[n] = phase[n]
        /\ phase'[m] \in {"unsaved", "identified"} /\ phase[m] = "down"
    BY <1>1 DEF LoadId, Enter
  <2>3. UNCHANGED <<outgoing, spoken, initialization, dphase, message>>
    BY <1>1 DEF LoadId
  <2> QED
    BY <2>1, <2>2, <2>3
<1>2. CASE SaveRead(m) \/ SaveUpdate(m) \/ ConfigFails(m) \/ LoadLocation(m) \/ AddRoutes(m)
  <2>1. /\ \A n \in Minions \ {m} : phase'[n] = phase[n]
        /\ phase[m] \notin {"running", "stopping"} /\ phase'[m] \notin {"running", "stopping"}
    BY <1>2 DEF SaveRead, SaveUpdate, ConfigFails, LoadLocation, AddRoutes, Enter
  <2>2. UNCHANGED <<outgoing, spoken, m_id, initialization, dphase, message>>
    BY <1>2 DEF SaveRead, SaveUpdate, ConfigFails, LoadLocation, AddRoutes
  <2> QED
    BY <2>1, <2>2
<1>3. ASSUME NEW s \in {"Started", "Stopped"}, SendMessage(m, s),
             phase' = [phase EXCEPT ![m] = IF s = "Started" THEN "running" ELSE "stopping"],
             s = "Started" => outgoing[m] = {},
             UNCHANGED <<m_id, initialization, dphase, message>>
      PROVE  SpeechInv'
  <2> DEFINE msg == [from |-> m, id |-> m_id[m], status |-> s]
  <2>1. msg.from = m /\ msg.id = m_id[m] /\ msg.status = s
    OBVIOUS
  <2>2. /\ outgoing' = [outgoing EXCEPT ![m] = @ \cup {msg}]
        /\ spoken' = [spoken EXCEPT ![m] = @ \cup {m_id[m]}]
    BY <1>3 DEF SendMessage
  <2> HIDE DEF msg
  <2>3. /\ outgoing'[m] = outgoing[m] \cup {msg} /\ spoken'[m] = spoken[m] \cup {m_id[m]}
        /\ \A n \in Minions \ {m} : outgoing'[n] = outgoing[n] /\ spoken'[n] = spoken[n]
    BY <2>2
  <2>4. /\ phase'[m] = IF s = "Started" THEN "running" ELSE "stopping"
        /\ \A n \in Minions \ {m} : phase'[n] = phase[n]
    BY <1>3
  <2>5. \A n \in Minions : spoken[n] \subseteq spoken'[n] /\ spoken'[n] \subseteq {m_id[n]}
    BY <2>3
  <2>6. ASSUME NEW n \in Minions
        PROVE  /\ \A x \in outgoing'[n] : x.from = n /\ x.id \in spoken'[n]
               /\ phase'[n] \notin {"running", "stopping"} => outgoing'[n] = {}
               /\ phase'[n] = "running" => \A x \in outgoing'[n] : x.status = "Started"
    <3>1. CASE n = m
      <4>1. ASSUME NEW x \in outgoing'[m] PROVE x.from = m /\ x.id \in spoken'[m]
        BY <2>1, <2>3, <4>1
      <4>2. phase'[m] \in {"running", "stopping"}
        BY <2>4
      <4>3. phase'[m] = "running" => \A x \in outgoing'[m] : x.status = "Started"
        <5> SUFFICES ASSUME phase'[m] = "running", NEW x \in outgoing'[m]
                     PROVE  x.status = "Started"
          OBVIOUS
        <5>1. s = "Started"
          BY <2>4
        <5>2. x = msg
          BY <1>3, <2>3, <5>1
        <5> QED
          BY <2>1, <5>1, <5>2
      <4> QED
        BY <3>1, <4>1, <4>2, <4>3
    <3>2. CASE n # m
      BY <2>3, <2>4, <3>2
    <3> QED
      BY <3>1, <3>2
  <2>7. ASSUME NEW k \in DOMAIN initialization PROVE initialization[k].from \in Minions
    <3>1. initialization[k] \in StatusMessage
      OBVIOUS
    <3> QED
      BY <3>1 DEF StatusMessage
  <2>8. dphase = "writing" => message.from \in Minions
    BY DEF StatusMessage
  <2> QED
    BY <1>3, <2>5, <2>6, <2>7, <2>8
<1>4. CASE SendStartMessage(m)
  BY <1>3, <1>4 DEF SendStartMessage, Enter
<1>5. CASE Stop(m)
  BY <1>3, <1>5 DEF Stop, Enter
<1>6. CASE ContextDown(m) \/ Crash(m)
  <2>1. /\ outgoing' = [outgoing EXCEPT ![m] = {}] /\ phase' = [phase EXCEPT ![m] = "down"]
        /\ UNCHANGED <<m_id, spoken, initialization, dphase, message>>
    BY <1>6 DEF ContextDown, Crash, Enter
  <2> QED
    BY <2>1
<1>7. CASE SetLocation(m)
  BY <1>7 DEF SetLocation
<1> QED
  BY <1>1, <1>2, <1>4, <1>5, <1>6, <1>7 DEF StartStep, EndStep

LEMMA RouteSpeech ==
  ASSUME HandshakeInv, SpeechInv, NEW m \in Minions, RouteStep(m), UNCHANGED dominionVars
  PROVE  SpeechInv'
<1> USE MessageTypes DEF SpeechInv, dominionVars, brokerVars
<1>1. ASSUME NEW msg \in outgoing[m], Forward(m, msg) PROVE SpeechInv'
  <2>1. initialization' = Append(initialization, msg) /\ msg \in StatusMessage
    BY <1>1 DEF Forward
  <2>2. /\ DOMAIN initialization' = 1 .. Len(initialization) + 1
        /\ \A k \in 1 .. Len(initialization) : initialization'[k] = initialization[k]
        /\ initialization'[Len(initialization) + 1] = msg
        /\ DOMAIN initialization = 1 .. Len(initialization) /\ Len(initialization) \in Nat
    BY <2>1
  <2>3. ASSUME NEW k \in DOMAIN initialization'
        PROVE  initialization'[k].id \in spoken[initialization'[k].from]
    <3>1. CASE k = Len(initialization) + 1
      BY <2>2, <3>1
    <3>2. CASE k \in DOMAIN initialization
      BY <2>2, <3>2
    <3> QED
      BY <2>2, <3>1, <3>2
  <2> QED
    BY <1>1, <2>3 DEF Forward
<1>2. ASSUME NEW msg \in outgoing[m], ForwardFails(m, msg) PROVE SpeechInv'
  BY <1>2 DEF ForwardFails
<1>3. CASE ReceiveInit(m)
  BY <1>3 DEF ReceiveInit, minionVars
<1> QED
  BY <1>1, <1>2, <1>3 DEF RouteStep

LEMMA DominionSpeech ==
  ASSUME HandshakeInv, SpeechInv, DominionSteps
  PROVE  SpeechInv'
<1> USE MessageTypes DEF SpeechInv, minionVars, brokerVars
<1>1. UNCHANGED <<spoken, m_id, outgoing, phase>>
  BY DEF DominionSteps
<1>2. CASE Receive
  <2>1. /\ message' = initialization[1]
        /\ DOMAIN initialization' = 1 .. Len(initialization) - 1
        /\ \A k \in 1 .. Len(initialization) - 1 : initialization'[k] = initialization[k + 1]
        /\ DOMAIN initialization = 1 .. Len(initialization) /\ Len(initialization) \in Nat
        /\ 1 \in DOMAIN initialization
    BY <1>2 DEF Receive
  <2>2. message'.id \in spoken[message'.from]
    BY <2>1
  <2>3. ASSUME NEW k \in DOMAIN initialization'
        PROVE  initialization'[k].id \in spoken[initialization'[k].from]
    <3>1. k + 1 \in DOMAIN initialization /\ initialization'[k] = initialization[k + 1]
      BY <2>1
    <3> QED
      BY <3>1
  <2> QED
    BY <1>1, <2>2, <2>3
<1>3. CASE /\ UNCHANGED <<initialization, message>>
           /\ dphase' = "writing" => dphase = "writing"
  BY <1>1, <1>3
<1> QED
  BY <1>2, <1>3 DEF DominionSteps, StartDominion, WriteStatus, WriteFails, SendInitialization,
     CrashDominion, Reply, ReplyFails

-----------------------------------------------------------------------------
(* The Minion that takes a step. *)
LEMMA MinionCurrent ==
  ASSUME RecordedInv, MinionSteps
  PROVE  CurrentInv' /\ lost' \in SUBSET Minions
<1> PICK m \in Minions :
       /\ \/ StartStep(m) \/ EndStep(m) \/ SetLocation(m) \/ RouteStep(m)
       /\ lost' = IF starts'[m] # starts[m] THEN lost \ {m}
                  ELSE IF /\ outgoing'[m] # outgoing[m]
                          /\ outgoing'[m] \subseteq outgoing[m]
                          /\ initialization' = initialization
                       THEN lost \cup {m}
                       ELSE lost
  BY DEF MinionSteps
<1> DEFINE L == Len(initialization)
<1>0. /\ SpeechInv /\ CurrentInv /\ lost \in SUBSET Minions
      /\ outgoing \in [Minions -> SUBSET StatusMessage] /\ spoken \in [Minions -> SUBSET MinionIds]
      /\ phase \in [Minions -> Phases] /\ m_id \in [Minions -> MinionIds \cup {NoId}]
      /\ starts \in [Minions -> Nat] /\ initialization \in Seq(StatusMessage)
  BY MessageTypes DEF RecordedInv
<1>1. lost' \in SUBSET Minions
  BY <1>0
<1>2. UNCHANGED <<dphase, message, minions>>
  BY DEF MinionSteps, dominionVars
<1>3. \A n \in Minions : spoken[n] \subseteq spoken'[n]
  <2>1. spoken' = spoken \/ \E s \in {"Started", "Stopped"} : SendMessage(m, s)
    BY DEF StartStep, EndStep, RouteStep, LoadId, SaveRead, SaveUpdate, ConfigFails, LoadLocation,
       AddRoutes, SendStartMessage, Stop, ContextDown, Crash, SetLocation, Forward, ForwardFails,
       ReceiveInit, minionVars
  <2> QED
    BY <1>0, <2>1 DEF SendMessage
<1>4. \A n \in Minions \ {m} :
         phase'[n] = phase[n] /\ m_id'[n] = m_id[n] /\ outgoing'[n] = outgoing[n]
  BY <1>0 DEF StartStep, EndStep, RouteStep, LoadId, SaveRead, SaveUpdate, ConfigFails, LoadLocation,
     AddRoutes, SendStartMessage, Stop, ContextDown, Crash, SetLocation, Forward, ForwardFails,
     ReceiveInit, minionVars, Enter, SendMessage
<1>5. ASSUME NEW msg \in outgoing[m], Forward(m, msg)
      PROVE  CurrentInv'
  <2>1. /\ initialization' = Append(initialization, msg) /\ msg \in StatusMessage
        /\ UNCHANGED <<phase, m_id, spoken>> /\ outgoing[m] # {}
    BY <1>0, <1>5 DEF Forward
  <2>2. /\ DOMAIN initialization' = 1 .. L + 1
        /\ DOMAIN initialization = 1 .. L /\ L \in Nat
        /\ \A k \in 1 .. L : initialization'[k] = initialization[k]
        /\ initialization'[L + 1] = msg
    BY <1>0, <2>1
  <2> HIDE DEF L
  <2>3. msg.from = m /\ (phase[m] = "running" => msg.status = "Started")
    BY <1>0 DEF SpeechInv
  <2>4. lost \subseteq lost'
    BY <1>5 DEF Forward
  <2>5. ASSUME NEW n \in Minions, phase'[n] = "running", n \notin lost', Quiet(n)', outgoing'[n] = {}
        PROVE  /\ \A k \in DOMAIN initialization' :
                     LastOf(initialization', k, n) => initialization'[k].status = "Started"
               /\ (\A k \in DOMAIN initialization' : initialization'[k].from # n) =>
                     IF dphase' = "writing" /\ message'.from = n THEN message'.status = "Started"
                                                                 ELSE minions'[m_id'[n]] = "Started"
    <3>1. CASE n = m
      <4>1. initialization'[L + 1].from = n
        BY <2>2, <2>3, <3>1
      <4>2. ASSUME NEW k \in DOMAIN initialization', LastOf(initialization', k, n)
            PROVE  k = L + 1
        <5>1. k \in 1 .. L + 1 /\ L + 1 \in DOMAIN initialization'
          BY <2>2
        <5>2. ~(L + 1 > k)
          BY <4>1, <4>2, <5>1 DEF LastOf
        <5> QED
          BY <2>2, <5>1, <5>2
      <4>3. phase[m] = "running"
        BY <2>1, <2>5, <3>1
      <4> QED
        BY <2>2, <2>3, <4>1, <4>2, <4>3
    <3>2. CASE n # m
      <4>1. phase[n] = "running" /\ n \notin lost /\ Quiet(n) /\ outgoing[n] = {}
        BY <1>4, <2>1, <2>4, <2>5, <3>2 DEF Quiet
      <4>2. ASSUME NEW k \in DOMAIN initialization', initialization'[k].from = n
            PROVE  k \in DOMAIN initialization /\ initialization'[k] = initialization[k]
        BY <2>2, <2>3, <3>2, <4>2
      <4>3. ASSUME NEW k \in DOMAIN initialization', LastOf(initialization', k, n)
            PROVE  LastOf(initialization, k, n)
        <5>1. \A j \in DOMAIN initialization :
                 j \in DOMAIN initialization' /\ initialization'[j] = initialization[j]
          BY <2>2
        <5> QED
          BY <4>2, <4>3, <5>1 DEF LastOf
      <4>4. (\A k \in DOMAIN initialization' : initialization'[k].from # n)
              => \A k \in DOMAIN initialization : initialization[k].from # n
        BY <2>2
      <4>5. \A k \in DOMAIN initialization' :
               LastOf(initialization', k, n) => initialization'[k].status = "Started"
        <5> SUFFICES ASSUME NEW k \in DOMAIN initialization', LastOf(initialization', k, n)
                     PROVE  initialization'[k].status = "Started"
          OBVIOUS
        <5>1. initialization'[k].from = n
          BY DEF LastOf
        <5> QED
          BY <1>0, <4>1, <4>2, <4>3, <5>1 DEF CurrentInv
      <4> QED
        BY <1>0, <1>2, <2>1, <4>1, <4>4, <4>5 DEF CurrentInv
    <3> QED
      BY <3>1, <3>2
  <2> QED
    BY <2>5 DEF CurrentInv
<1>6. ASSUME initialization' = initialization
      PROVE  CurrentInv'
  <2>1. ASSUME NEW n \in Minions, phase'[n] = "running", n \notin lost', Quiet(n)', outgoing'[n] = {}
        PROVE  /\ phase[n] = "running" /\ n \notin lost /\ outgoing[n] = {}
               /\ m_id'[n] = m_id[n]
    <3>1. CASE n # m
      BY <1>4, <2>1, <3>1
    <3>2. CASE n = m
      <4>1. ~LoadId(m) /\ ~Stop(m) /\ ~ContextDown(m) /\ ~Crash(m)
        BY <1>0, <2>1, <3>2 DEF LoadId, Stop, ContextDown, Crash, Enter
      <4>2. ~SaveRead(m) /\ ~SaveUpdate(m) /\ ~ConfigFails(m) /\ ~LoadLocation(m) /\ ~AddRoutes(m)
        BY <1>0, <2>1, <3>2 DEF SaveRead, SaveUpdate, ConfigFails, LoadLocation, AddRoutes, Enter
      <4>5. ~SendStartMessage(m)
        BY <1>0, <2>1, <3>2 DEF SendStartMessage, SendMessage
      <4>3. SetLocation(m) \/ RouteStep(m)
        BY <4>1, <4>2, <4>5 DEF StartStep, EndStep
      <4>4. UNCHANGED <<phase, m_id, starts>>
        BY <4>3 DEF SetLocation, RouteStep, Forward, ForwardFails, ReceiveInit, minionVars
      <4>6. outgoing[m] = {} \/ (outgoing'[m] # outgoing[m] /\ outgoing'[m] \subseteq outgoing[m])
        BY <2>1, <3>2
      <4> QED
        BY <1>0, <1>6, <2>1, <3>2, <4>4, <4>6
    <3> QED
      BY <3>1, <3>2
  <2>2. \A n \in Minions : Quiet(n)' /\ m_id'[n] = m_id[n] => Quiet(n)
    BY <1>3 DEF Quiet
  <2>3. ASSUME NEW n \in Minions, phase'[n] = "running", n \notin lost', Quiet(n)', outgoing'[n] = {}
        PROVE  /\ phase[n] = "running" /\ n \notin lost /\ outgoing[n] = {} /\ Quiet(n)
               /\ m_id'[n] = m_id[n]
    BY <2>1, <2>2, <2>3
  <2>4. ASSUME NEW n \in Minions, phase'[n] = "running", n \notin lost', Quiet(n)', outgoing'[n] = {}
        PROVE  /\ \A k \in DOMAIN initialization' :
                     LastOf(initialization', k, n) => initialization'[k].status = "Started"
               /\ (\A k \in DOMAIN initialization' : initialization'[k].from # n) =>
                     IF dphase' = "writing" /\ message'.from = n THEN message'.status = "Started"
                                                                ELSE minions'[m_id'[n]] = "Started"
    <3>1. /\ phase[n] = "running" /\ n \notin lost /\ outgoing[n] = {} /\ Quiet(n)
          /\ m_id'[n] = m_id[n]
      BY <2>3, <2>4
    <3> QED
      BY <1>0, <1>2, <1>6, <3>1 DEF CurrentInv
  <2> QED
    BY <2>4 DEF CurrentInv
<1>7. initialization' = initialization \/ \E msg \in outgoing[m] : Forward(m, msg)
  BY DEF StartStep, EndStep, RouteStep, LoadId, SaveRead, SaveUpdate, ConfigFails, LoadLocation,
     AddRoutes, SendStartMessage, Stop, ContextDown, Crash, SetLocation, ForwardFails,
     ReceiveInit, brokerVars
<1> QED
  BY <1>1, <1>5, <1>6, <1>7

(* The Dominion's steps. *)
LEMMA DominionCurrent ==
  ASSUME RecordedInv, DominionSteps
  PROVE  CurrentInv' /\ lost' \in SUBSET Minions
<1> USE MessageTypes DEF RecordedInv
<1>0. lost \in SUBSET Minions
  OBVIOUS
<1>1. UNCHANGED <<phase, m_id, spoken, outgoing>>
  BY DEF DominionSteps, minionVars
<1>2. lost' \in SUBSET Minions /\ lost \subseteq lost'
  <2>1. dphase \in {"writing", "replying"} => message.from \in Minions
    BY DEF StatusMessage
  <2>2. dphase \in {"down", "idle", "writing", "replying"}
    BY DEF HandshakeInv, DominionTypes, DominionTypeOK
  <2>3. \A i \in MinionIds : Owners(i) \subseteq Minions
    BY DEF Owners
  <2>4. CASE WriteFails /\ lost' = lost \cup {message.from}
    BY <2>1, <2>4 DEF WriteFails
  <2>5. CASE CrashDominion /\ lost' = (lost \cup Unanswered) \cup Handled
    <3>1. Handled \subseteq Minions
      BY <2>1, <2>2, <2>5 DEF CrashDominion, Handled
    <3>2. Unanswered \subseteq Minions
      BY DEF Unanswered
    <3> QED
      BY <1>0, <2>5, <3>1, <3>2
  <2>6. CASE \E i \in MinionIds : lost' \in {lost, lost \cup Owners(i)}
    BY <2>3, <2>6
  <2>7. CASE lost' = lost
    BY <2>7
  <2> QED
    BY <2>4, <2>5, <2>6, <2>7 DEF DominionSteps
<1>3. ASSUME NEW n \in Minions, phase'[n] = "running", n \notin lost', Quiet(n)', outgoing'[n] = {}
      PROVE  /\ \A k \in DOMAIN initialization' :
                   LastOf(initialization', k, n) => initialization'[k].status = "Started"
             /\ (\A k \in DOMAIN initialization' : initialization'[k].from # n) =>
                   IF dphase' = "writing" /\ message'.from = n THEN message'.status = "Started"
                                                               ELSE minions'[m_id'[n]] = "Started"
  <2>1. phase[n] = "running" /\ n \notin lost /\ Quiet(n) /\ outgoing[n] = {}
    BY <1>1, <1>2, <1>3 DEF Quiet
  <2>2. CASE Receive
    <3>1. /\ message' = initialization[1] /\ dphase' = "writing" /\ dphase = "idle"
          /\ DOMAIN initialization' = 1 .. Len(initialization) - 1
          /\ DOMAIN initialization = 1 .. Len(initialization) /\ Len(initialization) \in Nat
          /\ \A k \in 1 .. Len(initialization) - 1 : initialization'[k] = initialization[k + 1]
          /\ 1 \in DOMAIN initialization /\ minions' = minions
      BY <2>2 DEF Receive
    <3>2. ASSUME NEW k \in DOMAIN initialization', LastOf(initialization', k, n)
          PROVE  initialization'[k].status = "Started"
      <4>1. k + 1 \in DOMAIN initialization /\ initialization'[k] = initialization[k + 1]
        BY <3>1
      <4>2. ASSUME NEW j \in DOMAIN initialization, j > k + 1
            PROVE  initialization[j].from # n
        <5>1. j - 1 \in DOMAIN initialization' /\ j - 1 > k /\ initialization'[j - 1] = initialization[j]
          BY <3>1, <4>2
        <5> QED
          BY <3>2, <5>1 DEF LastOf
      <4>3. LastOf(initialization, k + 1, n)
        BY <3>2, <4>1, <4>2 DEF LastOf
      <4> QED
        BY <2>1, <4>1, <4>3 DEF CurrentInv
    <3>3. ASSUME \A k \in DOMAIN initialization' : initialization'[k].from # n
          PROVE  IF message'.from = n THEN message'.status = "Started"
                                      ELSE minions'[m_id'[n]] = "Started"
      <4>1. ASSUME NEW j \in DOMAIN initialization, j > 1 PROVE initialization[j].from # n
        <5>1. j - 1 \in DOMAIN initialization' /\ initialization'[j - 1] = initialization[j]
          BY <3>1, <4>1
        <5> QED
          BY <3>3, <5>1
      <4>2. CASE initialization[1].from = n
        <5>1. LastOf(initialization, 1, n)
          BY <4>1, <4>2 DEF LastOf
        <5> QED
          BY <2>1, <3>1, <4>2, <5>1 DEF CurrentInv
      <4>3. CASE initialization[1].from # n
        <5>1. \A k \in DOMAIN initialization : initialization[k].from # n
          BY <3>1, <4>1, <4>3
        <5> QED
          BY <1>1, <2>1, <3>1, <4>3, <5>1 DEF CurrentInv
      <4> QED
        BY <4>2, <4>3
    <3> QED
      BY <3>1, <3>2, <3>3
  <2>3. CASE WriteStatus
    <3>1. /\ minions' = [minions EXCEPT ![message.id] = message.status]
          /\ dphase = "writing" /\ dphase' = "replying" /\ UNCHANGED <<message, initialization>>
      BY <2>3 DEF WriteStatus, brokerVars
    <3>2. /\ message \in StatusMessage
          /\ message.from \in Minions /\ message.id \in MinionIds
      BY <3>1 DEF StatusMessage
    <3>3. message.id \in spoken[message.from]
      BY <3>1 DEF SpeechInv
    <3>4. message.from = n => message.id = m_id[n]
      BY <3>3 DEF SpeechInv
    <3>5. message.from # n => message.id # m_id[n]
      BY <2>1, <3>2, <3>3 DEF Quiet
    <3>6. minions'[m_id[n]] = IF message.from = n THEN message.status ELSE minions[m_id[n]]
      BY <3>1, <3>2, <3>4, <3>5
    <3> QED
      BY <1>1, <2>1, <3>1, <3>6 DEF CurrentInv
  <2>4. CASE UNCHANGED <<initialization, message, minions>> /\ dphase' # "writing" /\ dphase # "writing"
    BY <1>1, <2>1, <2>4 DEF CurrentInv
  <2>5. CASE WriteFails \/ CrashDominion
    <3>1. /\ UNCHANGED <<initialization, message, minions>>
          /\ dphase' \in {"idle", "down"} /\ dphase # "down" /\ replies' \in {replies, [i \in MinionIds |-> 0]}
      BY <2>5 DEF WriteFails, CrashDominion, brokerVars
    <3>2. dphase = "writing" => message.from \in lost'
      <4>1. ~StartDominion /\ ~Receive /\ ~WriteStatus
        BY <2>5 DEF WriteFails, CrashDominion, StartDominion, Receive, WriteStatus
      <4>2. SendInitialization => dphase = "replying"
        BY DEF SendInitialization
      <4>3. \A i \in MinionIds : ~Reply(i) /\ ~ReplyFails(i)
        BY <2>5 DEF WriteFails, CrashDominion, Reply, ReplyFails
      <4>4. \/ dphase = "replying"
            \/ lost' = lost \cup {message.from}
            \/ lost' = (lost \cup Unanswered) \cup Handled
        BY <4>1, <4>2, <4>3 DEF DominionSteps
      <4>5. dphase = "writing" => message.from \in Handled
        BY DEF Handled
      <4> QED
        BY <4>4, <4>5
    <3>3. dphase' # "writing"
      BY <3>1
    <3> QED
      BY <1>1, <1>3, <2>1, <3>1, <3>2, <3>3 DEF CurrentInv
  <2>6. CASE UNCHANGED <<initialization, message, minions, dphase>>
    BY <1>1, <2>1, <2>6 DEF CurrentInv
  <2> QED
    BY <2>2, <2>3, <2>4, <2>5, <2>6 DEF DominionSteps, StartDominion, SendInitialization, Reply,
       ReplyFails, brokerVars
<1> QED
  BY <1>2, <1>3 DEF CurrentInv

LEMMA RecordedStart == HandshakeInit => RecordedInv
<1> SUFFICES ASSUME HandshakeInit PROVE RecordedInv
  OBVIOUS
<1> USE DEF HandshakeInit, BrokerInit, MinionInit, DominionInit
<1>1. SpeechInv
  BY DEF SpeechInv
<1>2. CurrentInv
  BY DEF CurrentInv
<1> QED
  BY <1>1, <1>2, HandshakeStart DEF RecordedInv

LEMMA RecordedStep == RecordedInv /\ [HandshakeNext]_handshakeVars => RecordedInv'
<1> SUFFICES ASSUME RecordedInv, [HandshakeNext]_handshakeVars PROVE RecordedInv'
  OBVIOUS
<1>1. HandshakeInv'
  BY HandshakeStep DEF RecordedInv
<1>2. CASE MinionSteps
  <2>1. SpeechInv'
    <3>1. PICK m \in Minions : StartStep(m) \/ EndStep(m) \/ SetLocation(m) \/ RouteStep(m)
      BY <1>2 DEF MinionSteps
    <3>2. UNCHANGED dominionVars
      BY <1>2 DEF MinionSteps
    <3> QED
      BY <3>1, <3>2, LifeSpeech, RouteSpeech DEF RecordedInv
  <2> QED
    BY <1>1, <1>2, <2>1, MinionCurrent DEF RecordedInv
<1>3. CASE DominionSteps
  BY <1>1, <1>3, DominionSpeech, DominionCurrent DEF RecordedInv
<1>4. CASE UNCHANGED handshakeVars
  BY <1>1, <1>4 DEF RecordedInv, SpeechInv, CurrentInv, Quiet, LastOf, handshakeVars, brokerVars,
     minionVars, dominionVars
<1> QED
  BY <1>2, <1>3, <1>4 DEF HandshakeNext

-----------------------------------------------------------------------------
(* The invariant about what the database says of running Minions holds in  *)
(* every reachable state.                                                  *)
THEOREM RecordedInvHolds == HandshakeSpec => []RecordedInv
  BY RecordedStart, RecordedStep, PTL DEF HandshakeSpec

(* Every variable of the handshake keeps its type.                         *)
THEOREM HandshakeTypesHold == HandshakeSpec => []HandshakeTypeOK
<1>1. RecordedInv => HandshakeTypeOK
  BY DEF RecordedInv, HandshakeInv, MinionInv, MinionTypes, DominionTypes, HandshakeTypeOK
<1> QED
  BY <1>1, RecordedInvHolds, PTL

(* When the messages of a running Minion have arrived, its record says     *)
(* "Started": no message of an earlier life is written after it, however   *)
(* often both sides crash and restart.                                     *)
THEOREM RecordIsCurrentHolds == HandshakeSpec => []RecordIsCurrent
<1>1. RecordedInv => RecordIsCurrent
  <2> SUFFICES ASSUME RecordedInv, NEW m \in Minions,
                      phase[m] = "running", ~InTransit(m), m \notin lost,
                      \A n \in Minions \ {m} : m_id[n] # m_id[m]
               PROVE  minions[m_id[m]] = "Started"
    BY DEF RecordIsCurrent
  <2>1. Quiet(m)
    <3> SUFFICES ASSUME NEW n \in Minions \ {m}, m_id[m] \in spoken[n] PROVE FALSE
      BY DEF Quiet
    <3> QED
      BY DEF RecordedInv, SpeechInv
  <2>2. /\ outgoing[m] = {} /\ \A k \in DOMAIN initialization : initialization[k].from # m
        /\ ~(dphase = "writing" /\ message.from = m)
    BY DEF InTransit
  <2> QED
    BY <2>1, <2>2 DEF RecordedInv, CurrentInv
<1> QED
  BY <1>1, RecordedInvHolds, PTL
=============================================================================
