--------------------------- MODULE PipelineProofs ----------------------------
(***************************************************************************)
(* Theorems about the whiteboard of the receiver and the route around it,  *)
(* for any number of sample sets, consumers, repositories and restarts:    *)
(* order, repetition, and the refinement of the abstract Delivery.         *)
(***************************************************************************)
EXTENDS Pipeline, SequenceLemmas, TLAPS

Increasing(q) == \A i, j \in DOMAIN q : i < j => q[i] < q[j]

Below(q, n) == \A i \in DOMAIN q : q[i] < n

MessageTypes ==
    /\ registered \subseteq WbServices
    /\ sent \in Nat /\ message \in 0..sent
    /\ endpoint \in Seq(Nat)
    /\ pc \in {"idle", "checked", "invoking"}
    /\ todo \in Seq(WbServices)
    /\ received \in [WbServices -> Seq(Nat)]

(* What waits was sent after the message being dispatched, in order.       *)
EndpointInOrder ==
    /\ Increasing(endpoint)
    /\ \A i \in DOMAIN endpoint : message < endpoint[i] /\ endpoint[i] <= sent

(* No service has seen a later message, and those still to be invoked, of  *)
(* which each is named once, have not seen this one.                       *)
ReceivedInOrder ==
    /\ \A s \in WbServices : Increasing(received[s]) /\ Below(received[s], message + 1)
    /\ pc = "checked" => \A s \in WbServices : Below(received[s], message)
    /\ pc = "invoking" =>
          /\ \A k \in DOMAIN todo : Below(received[todo[k]], message)
          /\ \A k, l \in DOMAIN todo : k # l => todo[k] # todo[l]

OrderInv == MessageTypes /\ EndpointInOrder /\ ReceivedInOrder

-----------------------------------------------------------------------------
(* A message that is appended to lower ones keeps their order.             *)
LEMMA AppendIncreasing ==
    ASSUME NEW q \in Seq(Nat), NEW n \in Nat, Increasing(q), Below(q, n)
    PROVE  /\ Append(q, n) \in Seq(Nat)
           /\ Increasing(Append(q, n)) /\ Below(Append(q, n), n + 1)
  <1>1. Append(q, n) \in Seq(Nat)
    OBVIOUS
  <1>2. /\ DOMAIN Append(q, n) = 1..(Len(q) + 1) /\ DOMAIN q = 1..Len(q) /\ Len(q) \in Nat
        /\ \A i \in 1..(Len(q) + 1) : Append(q, n)[i] = IF i = Len(q) + 1 THEN n ELSE q[i]
        /\ \A i \in 1..Len(q) : q[i] \in Nat
    OBVIOUS
  <1>3. Increasing(Append(q, n))
    BY <1>2, SMT DEF Increasing, Below
  <1>4. Below(Append(q, n), n + 1)
    BY <1>2, SMT DEF Below
  <1> QED BY <1>1, <1>3, <1>4

(* The arrays that getServices() may return name each service once.        *)
LEMMA ArrayOnce ==
    ASSUME registered \subseteq WbServices, NEW a \in ServiceArrays
    PROVE  /\ a \in Seq(WbServices)
           /\ \A k, l \in DOMAIN a : k # l => a[k] # a[l]
  <1>1. IsFiniteSet(registered)
    BY WhiteboardAssumption, FS_Subset
  <1>2. Cardinality(registered) \in Nat
    BY <1>1, FS_CardinalityType
  <1>3. /\ a \in [1..Cardinality(registered) -> registered]
        /\ \A k, l \in 1..Cardinality(registered) : k # l => a[k] # a[l]
    BY DEF ServiceArrays, SetToSeqs
  <1>4. a \in Seq(registered)
    BY <1>2, <1>3
  <1> QED BY <1>3, <1>4

LEMMA InitOrder == Init => OrderInv
  BY DEF Init, OrderInv, MessageTypes, EndpointInOrder, ReceivedInOrder, Increasing, Below

(* A new message is the latest one.                                        *)
LEMMA SendOrder == OrderInv /\ Send => OrderInv'
  <1> SUFFICES ASSUME OrderInv, Send PROVE OrderInv'
    OBVIOUS
  <1>1. /\ endpoint \in Seq(Nat) /\ sent \in Nat /\ message \in 0..sent
        /\ Increasing(endpoint) /\ Below(endpoint, sent + 1)
    BY SMT DEF OrderInv, MessageTypes, EndpointInOrder, Below
  <1>2. /\ Append(endpoint, sent + 1) \in Seq(Nat)
        /\ Increasing(Append(endpoint, sent + 1))
    BY <1>1, AppendIncreasing
  <1>3. MessageTypes'
    BY <1>1, <1>2, SMT DEF OrderInv, MessageTypes, Send
  <1>4. \A i \in DOMAIN endpoint' : message' < endpoint'[i] /\ endpoint'[i] <= sent'
    BY <1>1, SMT DEF OrderInv, EndpointInOrder, Send
  <1>5. EndpointInOrder'
    BY <1>2, <1>4 DEF EndpointInOrder, Send
  <1>6. ReceivedInOrder'
    BY DEF OrderInv, ReceivedInOrder, Send
  <1> QED BY <1>3, <1>5, <1>6 DEF OrderInv

(* The message that is taken is later than any seen so far.                *)
LEMMA EnterOrder == OrderInv /\ Enter => OrderInv'
  <1> SUFFICES ASSUME OrderInv, Enter PROVE OrderInv'
    OBVIOUS
  <1>1. /\ endpoint \in Seq(Nat) /\ endpoint # <<>>
        /\ message' = Head(endpoint) /\ endpoint' = Tail(endpoint)
        /\ sent' = sent /\ sent \in Nat /\ message \in 0..sent
        /\ received' = received /\ received \in [WbServices -> Seq(Nat)]
        /\ pc' \in {"idle", "checked"}
    BY DEF OrderInv, MessageTypes, Enter
  <1>2. /\ Head(endpoint) = endpoint[1] /\ endpoint[1] \in Nat /\ 1 \in DOMAIN endpoint
        /\ Tail(endpoint) \in Seq(Nat)
        /\ \A i \in DOMAIN Tail(endpoint) :
              i \in Nat /\ i + 1 \in DOMAIN endpoint /\ 1 < i + 1
                /\ Tail(endpoint)[i] = endpoint[i + 1]
    BY <1>1, TailOf
  <1>3. message < message' /\ message' \in 0..sent'
    BY <1>1, <1>2, SMT DEF OrderInv, EndpointInOrder
  <1>4. MessageTypes'
    BY <1>1, <1>2, <1>3 DEF OrderInv, MessageTypes, Enter
  <1>5. Increasing(endpoint')
    BY <1>1, <1>2, SMT DEF OrderInv, EndpointInOrder, Increasing
  <1>6. \A i \in DOMAIN endpoint' : message' < endpoint'[i] /\ endpoint'[i] <= sent'
    BY <1>1, <1>2, SMT DEF OrderInv, EndpointInOrder, Increasing
  <1>7. \A s \in WbServices : \A i \in DOMAIN received[s] :
           received[s][i] \in Nat /\ received[s][i] < message'
    <2>1. ASSUME NEW s \in WbServices, NEW i \in DOMAIN received[s]
          PROVE  received[s][i] \in Nat /\ received[s][i] < message + 1 /\ message \in Nat
      BY <1>1, SMT DEF OrderInv, MessageTypes, ReceivedInOrder, Below
    <2>2. message' \in Nat
      BY <1>1, <1>3 DEF OrderInv, MessageTypes
    <2> QED BY <1>3, <2>1, <2>2
  <1>8. \A s \in WbServices : Increasing(received'[s])
    BY <1>1 DEF OrderInv, ReceivedInOrder
  <1>9. ReceivedInOrder'
    BY <1>1, <1>3, <1>7, <1>8, SMT DEF ReceivedInOrder, Below
  <1> QED BY <1>4, <1>5, <1>6, <1>9 DEF OrderInv, EndpointInOrder

(* Whoever is in the array has not seen the message.                       *)
LEMMA IterateOrder == OrderInv /\ Iterate => OrderInv'
  <1> SUFFICES ASSUME OrderInv, Iterate PROVE OrderInv'
    OBVIOUS
  <1>1. CASE registered = {}
    <2>1. MessageTypes'
      BY <1>1 DEF OrderInv, MessageTypes, Iterate
    <2> QED BY <1>1, <2>1 DEF OrderInv, EndpointInOrder, ReceivedInOrder, Iterate
  <1>2. CASE registered # {}
    <2>1. todo' \in Seq(WbServices) /\ \A k, l \in DOMAIN todo' : k # l => todo'[k] # todo'[l]
      BY <1>2, ArrayOnce DEF OrderInv, MessageTypes, Iterate
    <2>2. MessageTypes'
      BY <1>2, <2>1 DEF OrderInv, MessageTypes, Iterate
    <2>3. \A k \in DOMAIN todo' : Below(received[todo'[k]], message)
      <3>1. \A k \in DOMAIN todo' : todo'[k] \in WbServices
        BY <2>1
      <3> QED BY <3>1 DEF OrderInv, ReceivedInOrder, Iterate
    <2>4. ReceivedInOrder'
      BY <1>2, <2>1, <2>3 DEF OrderInv, ReceivedInOrder, Iterate
    <2> QED BY <2>2, <2>4 DEF OrderInv, EndpointInOrder, Iterate
  <1> QED BY <1>1, <1>2

(* An invocation, whether it returns or throws.                            *)
LEMMA InvokeOrder == OrderInv /\ (Invoke \/ InvokeThrows) => OrderInv'
  <1> SUFFICES ASSUME OrderInv, Invoke \/ InvokeThrows PROVE OrderInv'
    OBVIOUS
  <1> DEFINE s == Head(todo)
             q == Append(received[s], message)
  <1>1. /\ todo \in Seq(WbServices) /\ todo # <<>> /\ pc = "invoking"
        /\ received \in [WbServices -> Seq(Nat)] /\ message \in Nat /\ sent \in Nat
        /\ received' = [received EXCEPT ![s] = q]
        /\ message' = message /\ sent' = sent /\ endpoint' = endpoint
        /\ \/ pc' = "invoking" /\ todo' = Tail(todo)
           \/ pc' = "idle" /\ todo' = <<>>
    BY SMT DEF OrderInv, MessageTypes, Invoke, InvokeThrows
  <1>2. /\ s = todo[1] /\ todo[1] \in WbServices /\ 1 \in DOMAIN todo
        /\ Tail(todo) \in Seq(WbServices)
        /\ \A k \in DOMAIN Tail(todo) :
              k \in Nat /\ k + 1 \in DOMAIN todo /\ 1 < k + 1 /\ Tail(todo)[k] = todo[k + 1]
    BY <1>1, TailOf
  <1> HIDE DEF s
  <1>3. Increasing(received[s]) /\ Below(received[s], message) /\ received[s] \in Seq(Nat)
    BY <1>1, <1>2 DEF OrderInv, ReceivedInOrder
  <1>4. q \in Seq(Nat) /\ Increasing(q) /\ Below(q, message + 1)
    BY <1>1, <1>3, AppendIncreasing
  <1> HIDE DEF q
  <1>5. MessageTypes'
    <2>1. registered' = registered
      BY DEF Invoke, InvokeThrows
    <2>2. received' \in [WbServices -> Seq(Nat)]
      BY <1>1, <1>4
    <2>3. CASE pc' = "invoking" /\ todo' = Tail(todo)
      BY <1>1, <1>2, <2>1, <2>2, <2>3 DEF OrderInv, MessageTypes
    <2>4. CASE pc' = "idle" /\ todo' = <<>>
      BY <1>1, <2>1, <2>2, <2>4 DEF OrderInv, MessageTypes
    <2> QED BY <1>1, <2>3, <2>4
  <1>6. EndpointInOrder'
    BY <1>1 DEF OrderInv, EndpointInOrder
  <1>7. ASSUME NEW r \in WbServices
        PROVE  received'[r] = IF r = s THEN q ELSE received[r]
    BY <1>1, <1>2
  <1>8. \A r \in WbServices : Increasing(received'[r]) /\ Below(received'[r], message' + 1)
    BY <1>1, <1>4, <1>7 DEF OrderInv, ReceivedInOrder
  <1>9. ASSUME pc' = "invoking"
        PROVE  /\ \A k \in DOMAIN todo' : Below(received'[todo'[k]], message')
               /\ \A k, l \in DOMAIN todo' : k # l => todo'[k] # todo'[l]
    <2>1. todo' = Tail(todo)
      BY <1>1, <1>9
    <2>2. ASSUME NEW k \in DOMAIN todo'
          PROVE  Below(received'[todo'[k]], message')
      <3>1. /\ todo'[k] = todo[k + 1] /\ k + 1 \in DOMAIN todo /\ k + 1 # 1
        BY <1>2, <2>1, <2>2, SMT
      <3>2. todo[k + 1] \in WbServices /\ todo[k + 1] # s
        BY <1>1, <1>2, <3>1 DEF OrderInv, ReceivedInOrder
      <3> QED BY <1>1, <1>7, <3>1, <3>2 DEF OrderInv, ReceivedInOrder
    <2>3. ASSUME NEW k \in DOMAIN todo', NEW l \in DOMAIN todo', k # l
          PROVE  todo'[k] # todo'[l]
      <3>1. /\ k + 1 \in DOMAIN todo /\ l + 1 \in DOMAIN todo /\ k + 1 # l + 1
            /\ todo'[k] = todo[k + 1] /\ todo'[l] = todo[l + 1]
        BY <1>2, <2>1, <2>3, SMT
      <3> QED BY <1>1, <3>1 DEF OrderInv, ReceivedInOrder
    <2> QED BY <2>2, <2>3
  <1>10. pc' # "checked"
    BY <1>1
  <1> QED BY <1>5, <1>6, <1>8, <1>9, <1>10 DEF OrderInv, ReceivedInOrder

(* Steps that touch neither the messages nor what services have seen.      *)
LEMMA OtherOrder ==
    ASSUME OrderInv, UNCHANGED <<endpoint, sent, message, received>>,
           registered' \subseteq WbServices,
           UNCHANGED <<pc, todo>> \/ (pc' = "idle" /\ UNCHANGED todo)
    PROVE  OrderInv'
  <1>1. MessageTypes'
    BY DEF OrderInv, MessageTypes
  <1>2. EndpointInOrder'
    BY DEF OrderInv, EndpointInOrder
  <1>3. ReceivedInOrder'
    BY DEF OrderInv, ReceivedInOrder
  <1> QED BY <1>1, <1>2, <1>3 DEF OrderInv

(* A restart of the receiver drops what waits.                             *)
LEMMA RestartOrder == OrderInv /\ ReceiverRestarts => OrderInv'
  <1> SUFFICES ASSUME OrderInv, ReceiverRestarts PROVE OrderInv'
    OBVIOUS
  <1>1. /\ endpoint' = <<>> /\ pc' = "idle" /\ todo' = <<>>
        /\ registered' = registered /\ sent' = sent
        /\ message' = message /\ received' = received
    BY Zenon DEF ReceiverRestarts
  <1>2. MessageTypes'
    BY <1>1 DEF OrderInv, MessageTypes
  <1>3. EndpointInOrder'
    BY <1>1 DEF EndpointInOrder, Increasing
  <1>4. ReceivedInOrder'
    BY <1>1 DEF OrderInv, ReceivedInOrder
  <1> QED BY <1>2, <1>3, <1>4 DEF OrderInv

(* What a step of the pipeline does with the whiteboard.                   *)
LEMMA WhiteboardCases ==
    ASSUME [PipelineNext]_pipelineVars
    PROVE  \/ UNCHANGED vars \/ Send \/ Enter \/ Iterate \/ Invoke \/ InvokeThrows \/ Finish
           \/ (\E s \in WbServices : Register(s) \/ Unregister(s)) \/ ReceiverRestarts
  BY DEF PipelineNext, pipelineVars, Dispatch, BrokerRestarts, Services, ConsumerStep,
         Take, PassOn, PassOnFails, WhiteboardStep, WhiteboardEnter, WhiteboardIterate,
         Store, Forward, StoreThrows, WhiteboardFinish

(* Every step of the pipeline keeps the order.                             *)
LEMMA NextOrder == OrderInv /\ [PipelineNext]_pipelineVars => OrderInv'
  <1> SUFFICES ASSUME OrderInv, [PipelineNext]_pipelineVars PROVE OrderInv'
    OBVIOUS
  <1>0. registered \subseteq WbServices
    BY DEF OrderInv, MessageTypes
  <1>1. CASE UNCHANGED vars
    BY <1>0, <1>1, OtherOrder DEF vars
  <1>2. CASE Send
    BY <1>2, SendOrder
  <1>3. CASE Enter
    BY <1>3, EnterOrder
  <1>4. CASE Iterate
    BY <1>4, IterateOrder
  <1>5. CASE Invoke \/ InvokeThrows
    BY <1>5, InvokeOrder
  <1>6. CASE Finish
    BY <1>0, <1>6, OtherOrder DEF Finish
  <1>7. CASE \E s \in WbServices : Register(s) \/ Unregister(s)
    BY <1>0, <1>7, OtherOrder DEF Register, Unregister
  <1>8. CASE ReceiverRestarts
    BY <1>8, RestartOrder
  <1> QED BY <1>1, <1>2, <1>3, <1>4, <1>5, <1>6, <1>7, <1>8, WhiteboardCases

LEMMA OrderHolds == PipelineSpec => []OrderInv
  <1>1. PipelineInit => OrderInv
    BY InitOrder DEF PipelineInit
  <1> QED BY <1>1, NextOrder, PTL DEF PipelineSpec

(* A service sees messages in the order in which they were sent, and none  *)
(* twice, whatever throws, whoever comes and goes and whatever restarts.   *)
THEOREM InOrderOnceHolds == PipelineSpec => []InOrderOnce
  <1>1. OrderInv => InOrderOnce
    BY DEF OrderInv, ReceivedInOrder, Increasing, InOrderOnce
  <1> QED BY <1>1, OrderHolds, PTL

-----------------------------------------------------------------------------
(* Who is reached by a dispatch(). *)

(* Between the two calls of getServices() the services that have stayed    *)
(* are among the registered ones; then each has the message, or is still   *)
(* in the array.                                                           *)
StableInv ==
    /\ stable \subseteq WbServices /\ missed = {}
    /\ pc = "checked" => stable \subseteq registered
    /\ pc = "invoking" => \A s \in stable : Got(s) \/ \E k \in DOMAIN todo : todo[k] = s

(* The arrays that getServices() may return name every service.            *)
LEMMA ArrayOfAll ==
    ASSUME registered \subseteq WbServices, NEW a \in ServiceArrays, NEW s \in registered
    PROVE  \E k \in DOMAIN a : a[k] = s
  <1> DEFINE D == 1..Cardinality(registered)
  <1>1. IsFiniteSet(registered)
    BY WhiteboardAssumption, FS_Subset
  <1>2. Cardinality(registered) \in Nat /\ IsFiniteSet(D) /\ Cardinality(D) = Cardinality(registered)
    BY <1>1, FS_CardinalityType, FS_Interval
  <1>3. a \in [D -> registered] /\ \A k, l \in D : k # l => a[k] # a[l]
    BY DEF ServiceArrays, SetToSeqs
  <1> HIDE DEF D
  <1>4. a \in Injection(D, registered)
    BY <1>3, Fun_IsInj
  <1>5. a \in Surjection(D, registered)
    BY <1>1, <1>2, <1>4, FS_Injection
  <1>6. \A t \in registered : \E k \in D : a[k] = t
    BY <1>5, Fun_SurjectionProperties
  <1> QED BY <1>3, <1>6

(* The message reaches the first of the array.                             *)
LEMMA InvokeStable == OrderInv /\ StableInv /\ Invoke => StableInv'
  <1> SUFFICES ASSUME OrderInv, StableInv, Invoke PROVE StableInv'
    OBVIOUS
  <1> DEFINE h == Head(todo)
  <1>1. /\ pc = "invoking" /\ pc' = pc /\ todo # <<>> /\ todo' = Tail(todo) /\ message' = message
        /\ received' = [received EXCEPT ![h] = Append(received[h], message)]
        /\ UNCHANGED <<stable, missed, registered>>
    BY DEF Invoke
  <1>2. /\ todo \in Seq(WbServices) /\ received \in [WbServices -> Seq(Nat)] /\ message \in Nat
    BY SMT DEF OrderInv, MessageTypes
  <1>3. h \in WbServices /\ h = todo[1]
    BY <1>1, <1>2, TailOf
  <1> HIDE DEF h
  <1>4. ASSUME NEW s \in stable
        PROVE  Got(s)' \/ \E k \in DOMAIN todo' : todo'[k] = s
    <2>1. s \in WbServices
      BY DEF StableInv
    <2>2. CASE s = h
      <3>1. received'[s] = Append(received[s], message) /\ received[s] \in Seq(Nat)
        BY <1>1, <1>2, <1>3, <2>2
      <3>2. Len(received[s]) + 1 \in 1..Len(received'[s])
            /\ received'[s][Len(received[s]) + 1] = message
        BY <1>2, <3>1
      <3> QED BY <1>1, <3>2 DEF Got, Contains
    <2>3. CASE s # h /\ Got(s)
      <3>1. received'[s] = received[s]
        BY <1>1, <1>2, <2>1, <2>3
      <3> QED BY <1>1, <2>3, <3>1 DEF Got, Contains
    <2>4. CASE s # h /\ \E k \in DOMAIN todo : todo[k] = s
      <3>1. PICK k \in DOMAIN todo : todo[k] = s
        BY <2>4
      <3>2. k \in 2..Len(todo)
        BY <1>2, <1>3, <2>4, <3>1
      <3>3. k - 1 \in DOMAIN Tail(todo) /\ Tail(todo)[k - 1] = todo[k]
        BY <1>1, <1>2, <3>2
      <3> QED BY <1>1, <3>1, <3>3
    <2> QED BY <1>1, <2>2, <2>3, <2>4 DEF StableInv
  <1> QED BY <1>1, <1>4 DEF StableInv

LEMMA NextStable == OrderInv /\ StableInv /\ [PipelineNext]_pipelineVars => StableInv'
  <1> SUFFICES ASSUME OrderInv, StableInv, [PipelineNext]_pipelineVars PROVE StableInv'
    OBVIOUS
  <1>0. registered \subseteq WbServices
    BY DEF OrderInv, MessageTypes
  <1>1. CASE UNCHANGED vars
    BY <1>1 DEF StableInv, Got, vars
  <1>2. CASE Send
    BY <1>2 DEF StableInv, Got, Send
  <1>3. CASE Enter
    BY <1>0, <1>3 DEF StableInv, Enter
  <1>4. CASE Iterate
    <2>1. CASE registered = {}
      BY <1>4, <2>1 DEF StableInv, Iterate
    <2>2. CASE registered # {}
      <3>1. /\ pc = "checked" /\ pc' = "invoking" /\ todo' \in ServiceArrays
            /\ stable' = stable /\ missed' = missed
        BY <1>4, <2>2 DEF Iterate
      <3>2. \A s \in registered : \E k \in DOMAIN todo' : todo'[k] = s
        BY <1>0, <3>1, ArrayOfAll
      <3> QED BY <3>1, <3>2 DEF StableInv
    <2> QED BY <2>1, <2>2
  <1>5. CASE Invoke
    BY <1>5, InvokeStable
  <1>6. CASE InvokeThrows
    BY <1>6 DEF StableInv, InvokeThrows
  <1>7. CASE Finish
    <2>1. \A s \in stable : Got(s)
      BY <1>7 DEF StableInv, Finish
    <2> QED BY <1>7, <2>1 DEF StableInv, Finish
  <1>8. CASE \E s \in WbServices : Register(s) \/ Unregister(s)
    BY <1>8 DEF StableInv, Got, Register, Unregister
  <1>9. CASE ReceiverRestarts
    <2>1. UNCHANGED <<stable, missed>> /\ pc' = "idle"
      BY <1>9, Zenon DEF ReceiverRestarts
    <2> QED BY <2>1 DEF StableInv
  <1> QED BY <1>1, <1>2, <1>3, <1>4, <1>5, <1>6, <1>7, <1>8, <1>9, WhiteboardCases

LEMMA StableHolds == PipelineSpec => []StableInv
  <1>1. PipelineInit => StableInv
    BY DEF PipelineInit, Init, StableInv
  <1> QED BY <1>1, NextStable, OrderHolds, PTL DEF PipelineSpec

(* dispatch() reaches every service that was registered all the time, when *)
(* nothing throws: no registration between its two calls of getServices()  *)
(* can push one out.                                                       *)
THEOREM ReachesStableServicesHolds == PipelineSpec => []ReachesStableServices
  <1>1. StableInv => ReachesStableServices
    BY DEF StableInv, ReachesStableServices
  <1> QED BY <1>1, StableHolds, PTL
-----------------------------------------------------------------------------
(* What the route keeps.                                                   *)

RouteTypes ==
    /\ sets \in 0..MaxSets
    /\ queue \in Seq(Sets)
    /\ taken \in [Consumers -> Seq(Sets)]
    /\ lives \in 1..MaxLives
    /\ sent \in 0..MaxMessages
    /\ content \in Seq(Sets) /\ Len(content) = sent
    /\ lost \subseteq Repositories \X Sets

(* Messages are numbered from 1.                                           *)
Numbered ==
    /\ \A i \in DOMAIN endpoint : endpoint[i] >= 1
    /\ pc # "idle" => message >= 1
    /\ \A s \in WbServices : \A i \in DOMAIN received[s] : received[s][i] >= 1

RouteInv == RouteTypes /\ Numbered

LEMMA LoseKeeps ==
    ASSUME lost \subseteq Repositories \X Sets,
           NEW S \in SUBSET Repositories, NEW x \in SUBSET Sets, Lose(S, x)
    PROVE  lost' \subseteq Repositories \X Sets
  BY DEF Lose

(* There are finitely many places of messages that were prefetched.        *)
LEMMA PrefetchedAreFinite ==
    ASSUME RouteTypes
    PROVE  /\ IsFiniteSet(Prefetched) /\ Cardinality(Prefetched) \in Nat
           /\ \A p \in Prefetched : taken[p[1]][p[2]] \in Sets
  <1> DEFINE f == [c \in Consumers |-> Len(taken[c])]
  <1>1. \A c \in Consumers : taken[c] \in Seq(Sets) /\ Len(taken[c]) \in Nat
    BY DEF RouteTypes
  <1>2. \A p \in Prefetched :
           p[1] \in Consumers /\ p[2] \in 2..Len(taken[p[1]]) /\ p \in Consumers \X Nat
    BY <1>1 DEF Prefetched
  <1>3. IsFiniteSet(Prefetched) /\ Cardinality(Prefetched) \in Nat
    <2>1. f \in [Consumers -> Nat]
      BY <1>1
    <2>2. IsFiniteSet({p \in Consumers \X Nat : p[2] \in 1..f[p[1]]})
      BY <2>1, PlacesAreFinite, PipelineAssumption
    <2>3. Prefetched \in SUBSET {p \in Consumers \X Nat : p[2] \in 1..f[p[1]]}
      BY <1>1, <1>2
    <2> QED BY <2>2, <2>3, FS_Subset, FS_CardinalityType
  <1>4. \A p \in Prefetched : taken[p[1]][p[2]] \in Sets
    BY <1>1, <1>2
  <1> QED BY <1>3, <1>4

(* A restart puts what was prefetched in front of the queue, every place   *)
(* once.                                                                   *)
LEMMA RestartQueue ==
    ASSUME RouteTypes, ReceiverRestarts
    PROVE  \E n \in Nat : \E order \in [1..n -> Prefetched] : \E back \in Seq(Sets) :
              /\ Len(back) = n /\ queue' = back \o queue
              /\ \A k \in 1..n : back[k] = taken[order[k][1]][order[k][2]]
              /\ \A k, l \in 1..n : k # l => order[k] # order[l]
              /\ \A k, l \in 1..n : k < l => back[k] <= back[l]
  <1> DEFINE n == Cardinality(Prefetched)
             Back(o) == [k \in DOMAIN o |-> taken[o[k][1]][o[k][2]]]
  <1>1. n \in Nat /\ \A p \in Prefetched : taken[p[1]][p[2]] \in Sets
    BY PrefetchedAreFinite
  <1>2. PICK order \in SetToSeqs(Prefetched) :
           /\ \A i, j \in DOMAIN Back(order) : i < j => Back(order)[i] <= Back(order)[j]
           /\ queue' = Back(order) \o queue
    BY Zenon DEF ReceiverRestarts
  <1>3. /\ order \in [1..n -> Prefetched]
        /\ \A k, l \in 1..n : k # l => order[k] # order[l]
    BY DEF SetToSeqs
  <1>4. \A k \in 1..n : taken[order[k][1]][order[k][2]] \in Sets
    BY <1>1, <1>3
  <1>5. Back(order) \in Seq(Sets) /\ Len(Back(order)) = n /\ DOMAIN Back(order) = 1..n
    BY <1>1, <1>3, <1>4
  <1>6. \A k \in 1..n : Back(order)[k] = taken[order[k][1]][order[k][2]]
    BY <1>3
  <1>7. n \in Nat /\ \A k, l \in 1..n : k < l => Back(order)[k] <= Back(order)[l]
    BY <1>1, <1>2, <1>5
  <1> HIDE DEF n, Back
  <1> QED BY <1>2, <1>3, <1>5, <1>6, <1>7

(* A consumer takes one more set, or is through with its first.            *)
LEMMA TakenKeeps ==
    ASSUME taken \in [Consumers -> Seq(Sets)], NEW c \in Consumers, NEW q \in Seq(Sets),
           taken' = [taken EXCEPT ![c] = q]
    PROVE  /\ taken' \in [Consumers -> Seq(Sets)] /\ taken'[c] = q
           /\ \A d \in Consumers : d # c => taken'[d] = taken[d]
  OBVIOUS

(* The set that a message carries.                                         *)
LEMMA ContentType ==
    ASSUME RouteTypes
    PROVE  \A n \in 1..sent : content[n] \in Sets
  BY DEF RouteTypes

(* The message being dispatched and those that wait have been sent.        *)
LEMMA MessagesSent ==
    ASSUME OrderInv, RouteInv
    PROVE  /\ pc # "idle" => message \in 1..sent
           /\ \A i \in DOMAIN endpoint : endpoint[i] \in 1..sent
  <1>1. pc # "idle" => message \in 1..sent
    BY SMT DEF OrderInv, MessageTypes, RouteInv, Numbered
  <1>2. \A i \in DOMAIN endpoint : endpoint[i] \in Nat
    BY DEF OrderInv, MessageTypes
  <1>3. \A i \in DOMAIN endpoint : endpoint[i] \in 1..sent
    BY <1>2, SMT DEF OrderInv, MessageTypes, EndpointInOrder, RouteInv, Numbered
  <1> QED BY <1>1, <1>3

LEMMA DispatchRoute == OrderInv /\ RouteInv /\ Dispatch => RouteInv'
  <1> SUFFICES ASSUME OrderInv, RouteInv, Dispatch PROVE RouteInv'
    OBVIOUS
  <1> USE PipelineAssumption
  <1>1. Numbered'
    BY DEF RouteInv, Numbered, Dispatch, vars
  <1>2. /\ sets' = sets + 1 /\ sets + 1 \in Sets /\ sets' \in 0..MaxSets
        /\ UNCHANGED <<sent, taken, lives, content>>
    BY DEF RouteInv, RouteTypes, Dispatch, Sets, vars
  <1>3. queue' \in Seq(Sets)
    <2>1. queue \in Seq(Sets) /\ (queue' = queue \/ queue' = Append(queue, sets + 1))
      BY DEF RouteInv, RouteTypes, Dispatch
    <2> QED BY <1>2, <2>1, AppendType
  <1>4. lost' \subseteq Repositories \X Sets
    <2>1. CASE UNCHANGED lost
      BY <2>1 DEF RouteInv, RouteTypes
    <2>2. CASE Lose(Repositories, {sets + 1})
      BY <1>2, <2>2, LoseKeeps DEF RouteInv, RouteTypes
    <2> QED BY <2>1, <2>2 DEF Dispatch
  <1> QED BY <1>1, <1>2, <1>3, <1>4 DEF RouteInv, RouteTypes

LEMMA BrokerRoute == OrderInv /\ RouteInv /\ BrokerRestarts => RouteInv'
  <1> SUFFICES ASSUME OrderInv, RouteInv, BrokerRestarts PROVE RouteInv'
    OBVIOUS
  <1>1. /\ UNCHANGED <<vars, sets, lives, content>> /\ queue' = <<>>
        /\ taken \in [Consumers -> Seq(Sets)] /\ queue \in Seq(Sets)
    BY DEF RouteInv, RouteTypes, BrokerRestarts
  <1>2. Numbered'
    BY <1>1 DEF RouteInv, Numbered, vars
  <1>3. PICK keep \in SUBSET Busy :
          /\ taken' = [c \in Consumers |-> IF c \in keep THEN <<Head(taken[c])>> ELSE <<>>]
          /\ Lose(Repositories, ToSet(queue) \cup
                UNION {ToSet(taken[c]) \ ToSet(taken'[c]) : c \in Consumers})
    BY Zenon DEF BrokerRestarts
  <1>4. \A c \in Busy : c \in Consumers /\ Head(taken[c]) \in Sets
    BY <1>1 DEF Busy
  <1>5. taken' \in [Consumers -> Seq(Sets)]
    BY <1>3, <1>4
  <1>6. lost' \subseteq Repositories \X Sets
    <2>1. ToSet(queue) \in SUBSET Sets
      BY <1>1, ToSetType
    <2>2. \A c \in Consumers : ToSet(taken[c]) \in SUBSET Sets
      BY <1>1, ToSetType
    <2>3. (ToSet(queue) \cup UNION {ToSet(taken[c]) \ ToSet(taken'[c]) : c \in Consumers})
             \in SUBSET Sets
      BY <2>1, <2>2, Zenon
    <2> QED BY <1>3, <2>3, LoseKeeps DEF RouteInv, RouteTypes
  <1>7. queue' \in Seq(Sets)
    BY <1>1
  <1> QED BY <1>1, <1>2, <1>5, <1>6, <1>7 DEF RouteInv, RouteTypes, vars

LEMMA ReceiverRoute == OrderInv /\ RouteInv /\ ReceiverRestarts => RouteInv'
  <1> SUFFICES ASSUME OrderInv, RouteInv, ReceiverRestarts PROVE RouteInv'
    OBVIOUS
  <1>1. /\ lives < MaxLives /\ lives' = lives + 1
        /\ taken' = [c \in Consumers |-> <<>>]
        /\ endpoint' = <<>> /\ pc' = "idle"
        /\ UNCHANGED <<sent, message, received, sets, content>>
    BY Zenon DEF ReceiverRestarts
  <1>2. Numbered'
    BY <1>1 DEF RouteInv, Numbered
  <1>3. queue' \in Seq(Sets)
    <2>1. \E back \in Seq(Sets) : queue' = back \o queue
      BY RestartQueue, Zenon DEF RouteInv
    <2> QED BY <2>1 DEF RouteInv, RouteTypes
  <1>4. lives' \in 1..MaxLives
    BY <1>1, PipelineAssumption DEF RouteInv, RouteTypes
  <1>5. taken' \in [Consumers -> Seq(Sets)]
    BY <1>1
  <1>6. lost' \subseteq Repositories \X Sets
    <2> DEFINE A == {Head(taken[c]) : c \in Busy}
               B == {content[n] : n \in ToSet(endpoint)}
               C == IF pc = "idle" THEN {} ELSE ToReach \X {content[message]}
    <2>1. A \in SUBSET Sets
      BY DEF Busy, RouteInv, RouteTypes
    <2>2. B \in SUBSET Sets
      <3>1. ToSet(endpoint) \in SUBSET (1..sent)
        BY MessagesSent DEF ToSet
      <3> QED BY <3>1, ContentType DEF RouteInv
    <2>3. C \subseteq Repositories \X Sets
      BY MessagesSent, ContentType DEF RouteInv, ToReach
    <2>4. lost' = lost \cup (Repositories \X (A \cup B)) \cup C
      BY Zenon DEF ReceiverRestarts
    <2>5. lost \subseteq Repositories \X Sets
      BY DEF RouteInv, RouteTypes
    <2> HIDE DEF A, B, C
    <2> QED BY <2>1, <2>2, <2>3, <2>4, <2>5
  <1> QED BY <1>1, <1>2, <1>3, <1>4, <1>5, <1>6 DEF RouteInv, RouteTypes

LEMMA ConsumerRoute ==
    ASSUME OrderInv, RouteInv, NEW c \in Consumers, ConsumerStep(c)
    PROVE  RouteInv'
  <1>1. /\ taken \in [Consumers -> Seq(Sets)] /\ queue \in Seq(Sets) /\ taken[c] \in Seq(Sets)
        /\ content \in Seq(Sets) /\ Len(content) = sent /\ sent \in 0..MaxMessages
        /\ MaxMessages \in Nat
    BY WhiteboardAssumption DEF RouteInv, RouteTypes
  <1>2. CASE Take(c)
    <2>1. Head(queue) \in Sets /\ Tail(queue) \in Seq(Sets)
      BY <1>1, <1>2, HeadAndTail DEF Take
    <2>2. taken' \in [Consumers -> Seq(Sets)]
      BY <1>1, <1>2, <2>1 DEF Take
    <2> QED BY <1>2, <2>1, <2>2 DEF RouteInv, RouteTypes, Numbered, Take, vars
  <1>3. ASSUME taken[c] # <<>>
        PROVE  /\ Head(taken[c]) \in Sets
               /\ [taken EXCEPT ![c] = Tail(@)] \in [Consumers -> Seq(Sets)]
    BY <1>1, <1>3, HeadAndTail
  <1>4. CASE PassOn(c)
    <2>1. /\ Head(taken[c]) \in Sets /\ taken' \in [Consumers -> Seq(Sets)]
          /\ content' = Append(content, Head(taken[c])) /\ sent' = sent + 1
          /\ endpoint' = Append(endpoint, sent + 1) /\ sent < MaxMessages
          /\ UNCHANGED <<pc, message, received, sets, queue, lives, lost>>
      BY <1>3, <1>4 DEF PassOn, Send
    <2>2. content' \in Seq(Sets) /\ Len(content') = sent' /\ sent' \in 0..MaxMessages
      BY <1>1, <2>1
    <2>3. \A i \in DOMAIN endpoint' : endpoint'[i] >= 1
      <3>1. endpoint \in Seq(Nat)
        BY DEF OrderInv, MessageTypes
      <3> QED BY <1>1, <2>1, <3>1 DEF RouteInv, Numbered
    <2>4. Numbered'
      BY <2>1, <2>3 DEF RouteInv, Numbered
    <2> QED BY <2>1, <2>2, <2>4 DEF RouteInv, RouteTypes
  <1>5. CASE PassOnFails(c)
    <2>1. /\ Head(taken[c]) \in Sets /\ taken' \in [Consumers -> Seq(Sets)]
          /\ Lose(Repositories, {Head(taken[c])})
          /\ UNCHANGED <<vars, sets, queue, lives, content>>
      BY <1>3, <1>5 DEF PassOnFails
    <2>2. lost' \subseteq Repositories \X Sets
      BY <2>1, LoseKeeps DEF RouteInv, RouteTypes
    <2> QED BY <2>1, <2>2 DEF RouteInv, RouteTypes, Numbered, vars
  <1> QED BY <1>2, <1>4, <1>5 DEF ConsumerStep

(* An invocation appends the message being dispatched.                     *)
LEMMA InvokeNumbered ==
    ASSUME OrderInv, RouteInv, Invoke \/ InvokeThrows
    PROVE  Numbered'
  <1> DEFINE h == Head(todo)
  <1>1. /\ todo \in Seq(WbServices) /\ todo # <<>> /\ pc = "invoking"
        /\ received \in [WbServices -> Seq(Nat)] /\ message \in Nat
        /\ message' = message /\ endpoint' = endpoint
        /\ received' = [received EXCEPT ![h] = Append(received[h], message)]
    BY SMT DEF OrderInv, MessageTypes, Invoke, InvokeThrows
  <1>2. h \in WbServices
    BY <1>1, TailOf
  <1>3. message >= 1
    BY <1>1 DEF RouteInv, Numbered
  <1> HIDE DEF h
  <1>4. ASSUME NEW s \in WbServices, NEW i \in DOMAIN received'[s]
        PROVE  received'[s][i] >= 1
    <2>1. CASE s = h
      <3>1. received'[s] = Append(received[s], message) /\ received[s] \in Seq(Nat)
        BY <1>1, <1>2, <2>1
      <3> QED BY <1>1, <1>3, <1>4, <3>1 DEF RouteInv, Numbered
    <2>2. CASE s # h
      <3>1. received'[s] = received[s]
        BY <1>1, <1>2, <2>2
      <3> QED BY <1>4, <3>1 DEF RouteInv, Numbered
    <2> QED BY <2>1, <2>2
  <1> QED BY <1>1, <1>3, <1>4 DEF RouteInv, Numbered

LEMMA WhiteboardRoute == OrderInv /\ RouteInv /\ WhiteboardStep => RouteInv'
  <1> SUFFICES ASSUME OrderInv, RouteInv, WhiteboardStep PROVE RouteInv'
    OBVIOUS
  <1>0. pc # "idle" => content[message] \in Sets
    BY MessagesSent, ContentType DEF RouteInv
  <1>1. CASE WhiteboardEnter
    <2>1. /\ endpoint \in Seq(Nat) /\ endpoint # <<>> /\ endpoint' = Tail(endpoint)
          /\ message' = Head(endpoint) /\ sent' = sent /\ received' = received
      BY <1>1 DEF OrderInv, MessageTypes, WhiteboardEnter, Enter
    <2>2. Head(endpoint) = endpoint[1] /\ 1 \in DOMAIN endpoint
          /\ \A i \in DOMAIN Tail(endpoint) :
                i + 1 \in DOMAIN endpoint /\ Tail(endpoint)[i] = endpoint[i + 1]
      BY <2>1, TailOf
    <2>3. content[Head(endpoint)] \in Sets
      BY <2>2, MessagesSent, ContentType DEF RouteInv
    <2>4. Numbered'
      BY <2>1, <2>2 DEF RouteInv, Numbered
    <2>5. lost' \subseteq Repositories \X Sets
      <3>1. (IF registered = {} THEN Repositories ELSE {}) \in SUBSET Repositories
        OBVIOUS
      <3> QED BY <1>1, <2>3, <3>1, LoseKeeps DEF WhiteboardEnter, RouteInv, RouteTypes
    <2> QED BY <1>1, <2>1, <2>4, <2>5 DEF WhiteboardEnter, routeVars, RouteInv, RouteTypes
  <1>2. CASE WhiteboardIterate
    <2>1. pc = "checked" /\ UNCHANGED <<endpoint, sent, message, received>>
      BY <1>2 DEF WhiteboardIterate, Iterate
    <2>2. Numbered'
      BY <2>1 DEF RouteInv, Numbered
    <2>3. lost' \subseteq Repositories \X Sets
      BY <1>0, <1>2, <2>1, LoseKeeps DEF WhiteboardIterate, RouteInv, RouteTypes
    <2> QED BY <1>2, <2>1, <2>2, <2>3 DEF WhiteboardIterate, routeVars, RouteInv, RouteTypes
  <1>3. CASE Store
    BY <1>3, InvokeNumbered DEF Store, Invoke, routeVars, RouteInv, RouteTypes
  <1>4. CASE Forward
    <2>1. queue' \in Seq(Sets)
      BY <1>0, <1>4 DEF Forward, Invoke, RouteInv, RouteTypes
    <2> QED BY <1>4, <2>1, InvokeNumbered DEF Forward, Invoke, RouteInv, RouteTypes
  <1>5. CASE StoreThrows
    <2>1. lost' \subseteq Repositories \X Sets
      <3> DEFINE S == Repositories \cap ToSet(Tail(todo))
                 x == {content[message]}
      <3>1. S \in SUBSET Repositories
        OBVIOUS
      <3>2. Lose(S, x) /\ x \in SUBSET Sets
        BY <1>0, <1>5 DEF StoreThrows, InvokeThrows
      <3> HIDE DEF S, x
      <3> QED BY <3>1, <3>2, LoseKeeps DEF RouteInv, RouteTypes
    <2> QED BY <1>5, <2>1, InvokeNumbered
            DEF StoreThrows, InvokeThrows, routeVars, RouteInv, RouteTypes
  <1>6. CASE WhiteboardFinish
    BY <1>6 DEF WhiteboardFinish, Finish, routeVars, RouteInv, RouteTypes, Numbered
  <1> QED BY <1>1, <1>2, <1>3, <1>4, <1>5, <1>6 DEF WhiteboardStep

LEMMA NextRoute == OrderInv /\ RouteInv /\ [PipelineNext]_pipelineVars => RouteInv'
  <1> SUFFICES ASSUME OrderInv, RouteInv, [PipelineNext]_pipelineVars PROVE RouteInv'
    OBVIOUS
  <1>1. CASE Services
    BY <1>1 DEF Services, Register, Unregister, routeVars, RouteInv, RouteTypes, Numbered
  <1>2. CASE UNCHANGED pipelineVars
    BY <1>2 DEF pipelineVars, routeVars, vars, RouteInv, RouteTypes, Numbered
  <1> QED BY <1>1, <1>2, DispatchRoute, BrokerRoute, ReceiverRoute, ConsumerRoute,
             WhiteboardRoute DEF PipelineNext

LEMMA RouteHolds == PipelineSpec => []RouteInv
  <1>1. PipelineInit => RouteInv
    BY PipelineAssumption, WhiteboardAssumption
       DEF PipelineInit, Init, RouteInv, RouteTypes, Numbered
  <1> QED BY <1>1, NextRoute, OrderHolds, PTL DEF PipelineSpec

(* The variables of the route and of its whiteboard have their types: what *)
(* waits and what services have seen are messages that were sent, each     *)
(* carries a set, and only sets that samplers may send are lost.           *)
THEOREM PipelineTypesHold == PipelineSpec => []PipelineTypeOK
  <1>1. OrderInv /\ RouteInv /\ StableInv => PipelineTypeOK
    <2> SUFFICES ASSUME OrderInv, RouteInv, StableInv PROVE PipelineTypeOK
      OBVIOUS
    <2>0. /\ sent \in 0..MaxMessages /\ MaxMessages \in Nat /\ message \in 0..sent
          /\ received \in [WbServices -> Seq(Nat)] /\ endpoint \in Seq(Nat)
      BY WhiteboardAssumption DEF OrderInv, MessageTypes, RouteInv, RouteTypes
    <2>1. endpoint \in Seq(1..MaxMessages)
      <3>1. \A i \in DOMAIN endpoint : endpoint[i] \in 1..MaxMessages
        BY <2>0, MessagesSent
      <3> QED BY <2>0, <3>1, Retyped
    <2>2. received \in [WbServices -> Seq(1..MaxMessages)]
      <3>1. ASSUME NEW s \in WbServices PROVE received[s] \in Seq(1..MaxMessages)
        <4>1. received[s] \in Seq(Nat)
          BY <2>0
        <4>2. \A i \in DOMAIN received[s] : received[s][i] \in Nat
          BY <4>1
        <4>3. \A i \in DOMAIN received[s] : received[s][i] \in 1..MaxMessages
          BY <2>0, <4>2, SMT DEF OrderInv, ReceivedInOrder, Below, RouteInv, Numbered
        <4> QED BY <4>1, <4>3, Retyped
      <3> QED BY <2>0, <3>1
    <2>3. TypeOK
      BY <2>0, <2>1, <2>2 DEF TypeOK, OrderInv, MessageTypes, StableInv
    <2> QED BY <2>3 DEF PipelineTypeOK, RouteInv, RouteTypes
  <1> QED BY <1>1, OrderHolds, RouteHolds, StableHolds, PTL
-----------------------------------------------------------------------------
(* How many copies of a set there are. *)

(* The places at consumers that hold the set x.                            *)
TakenPlaces(x) == {p \in Consumers \X Nat : p[2] \in DOMAIN taken[p[1]] /\ taken[p[1]][p[2]] = x}

InQueue(x) == Cardinality(Hits(queue, {x}))
AtConsumers(x) == Cardinality(TakenPlaces(x))
PassedOn(x) == Cardinality(Hits(content, {x}))
SentAgain(x) == Cardinality(Hits(SetsOf(activemq), {x}))

(* Of a set that was dispatched there is one copy, and one more each time  *)
(* the receiver has sent it again.                                         *)
CopiesInv ==
    \A x \in Sets :
       InQueue(x) + AtConsumers(x) + PassedOn(x) <= (IF x <= sets THEN 1 ELSE 0) + SentAgain(x)

LEMMA TakenPlacesAreFinite ==
    ASSUME RouteTypes, NEW x
    PROVE  IsFiniteSet(TakenPlaces(x)) /\ AtConsumers(x) \in Nat
  <1> DEFINE f == [c \in Consumers |-> Len(taken[c])]
             F == {p \in Consumers \X Nat : p[2] \in 1..f[p[1]]}
  <1>1. \A c \in Consumers : Len(taken[c]) \in Nat /\ DOMAIN taken[c] = 1..Len(taken[c])
    BY DEF RouteTypes
  <1>2. f \in [Consumers -> Nat]
    BY <1>1
  <1>3. IsFiniteSet(F)
    BY <1>2, PlacesAreFinite, PipelineAssumption
  <1>4. TakenPlaces(x) \in SUBSET F
    BY <1>1 DEF TakenPlaces
  <1> HIDE DEF F
  <1>5. IsFiniteSet(TakenPlaces(x))
    BY <1>3, <1>4, FS_Subset
  <1> QED BY <1>5, FS_CardinalityType DEF AtConsumers

(* The sets that services were invoked with are sets.                      *)
LEMMA SetsOfType ==
    ASSUME OrderInv, RouteInv, NEW s \in WbServices
    PROVE  SetsOf(s) \in Seq(Sets) /\ DOMAIN SetsOf(s) = DOMAIN received[s]
           /\ \A k \in DOMAIN received[s] :
                 received[s][k] \in 1..sent /\ SetsOf(s)[k] = content[received[s][k]]
  <1>1. received[s] \in Seq(Nat) /\ message \in 0..sent /\ sent \in Nat
    BY DEF OrderInv, MessageTypes
  <1>2. \A k \in DOMAIN received[s] : received[s][k] \in Nat
    BY <1>1
  <1>3. \A k \in DOMAIN received[s] : received[s][k] \in 1..sent
    BY <1>1, <1>2, SMT DEF OrderInv, ReceivedInOrder, Below, RouteInv, Numbered
  <1>4. \A k \in DOMAIN received[s] : content[received[s][k]] \in Sets
    BY <1>3, ContentType DEF RouteInv
  <1>5. DOMAIN received[s] = 1..Len(received[s]) /\ Len(received[s]) \in Nat
    BY <1>1
  <1>6. SetsOf(s) = [k \in 1..Len(received[s]) |-> content[received[s][k]]]
    BY <1>5 DEF SetsOf
  <1>7. SetsOf(s) \in [1..Len(received[s]) -> Sets]
    BY <1>4, <1>5, <1>6
  <1>8. SetsOf(s) \in Seq(Sets)
    BY <1>5, <1>7
  <1> QED BY <1>3, <1>5, <1>6, <1>8

LEMMA CountTypes ==
    ASSUME OrderInv, RouteInv, NEW x
    PROVE  InQueue(x) \in Nat /\ AtConsumers(x) \in Nat /\ PassedOn(x) \in Nat /\ SentAgain(x) \in Nat
  <1>1. queue \in Seq(Sets) /\ content \in Seq(Sets)
    BY DEF RouteInv, RouteTypes
  <1>2. InQueue(x) \in Nat /\ PassedOn(x) \in Nat
    BY <1>1, HitsAreFinite DEF InQueue, PassedOn
  <1>3. SentAgain(x) \in Nat
    BY SetsOfType, PipelineAssumption, HitsAreFinite DEF SentAgain
  <1> QED BY <1>2, <1>3, TakenPlacesAreFinite DEF RouteInv

(* A message that is new changes nothing for those that were seen.         *)
LEMMA SentAgainKeeps ==
    ASSUME OrderInv, RouteInv, received' = received,
           \/ content' = content
           \/ \E x \in Sets : content' = Append(content, x)
    PROVE  \A s \in WbServices : SetsOf(s)' = SetsOf(s)
  <1> SUFFICES ASSUME NEW s \in WbServices PROVE SetsOf(s)' = SetsOf(s)
    OBVIOUS
  <1>1. \A n \in 1..sent : content'[n] = content[n]
    <2>1. content \in Seq(Sets) /\ Len(content) = sent
      BY DEF RouteInv, RouteTypes
    <2> QED BY <2>1, AppendElements
  <1>2. \A k \in DOMAIN received[s] : content'[received[s][k]] = content[received[s][k]]
    BY <1>1, SetsOfType
  <1> QED BY <1>2 DEF SetsOf

(* A consumer that gets a set has one more place.                          *)
LEMMA TakePlaces ==
    ASSUME RouteTypes, NEW c \in Consumers, Take(c), NEW x
    PROVE  AtConsumers(x)' = AtConsumers(x) + (IF Head(queue) = x THEN 1 ELSE 0)
  <1> DEFINE n == Len(taken[c]) + 1
             h == Head(queue)
  <1>1. /\ taken \in [Consumers -> Seq(Sets)] /\ h \in Sets
        /\ taken' = [taken EXCEPT ![c] = Append(taken[c], h)]
    BY HeadAndTail DEF RouteTypes, Take
  <1>2. taken[c] \in Seq(Sets) /\ taken'[c] = Append(taken[c], h)
        /\ \A d \in Consumers : d # c => taken'[d] = taken[d]
    BY <1>1
  <1>3. /\ n \in Nat \ {0} /\ DOMAIN taken[c] = 1..(n - 1) /\ DOMAIN taken'[c] = 1..n
        /\ taken'[c][n] = h /\ \A k \in 1..(n - 1) : taken'[c][k] = taken[c][k]
    BY <1>1, <1>2
  <1> HIDE DEF n, h
  <1>4. TakenPlaces(x)' = {p \in Consumers \X Nat : p[2] \in DOMAIN taken'[p[1]]
                                                      /\ taken'[p[1]][p[2]] = x}
    BY DEF TakenPlaces
  <1>5. IsFiniteSet(TakenPlaces(x)) /\ AtConsumers(x) \in Nat
    BY TakenPlacesAreFinite
  <1>6. <<c, n>> \notin TakenPlaces(x)
    BY <1>3 DEF TakenPlaces
  <1>7. ASSUME NEW p \in Consumers \X Nat, p # <<c, n>>
        PROVE  p \in TakenPlaces(x)' <=> p \in TakenPlaces(x)
    <2>1. CASE p[1] = c
      <3>1. p[2] \in Nat /\ p[2] # n
        BY <1>7, <2>1
      <3>2. p[2] \in DOMAIN taken'[c] <=> p[2] \in DOMAIN taken[c]
        BY <1>3, <3>1
      <3>3. p[2] \in DOMAIN taken[c] => taken'[c][p[2]] = taken[c][p[2]]
        BY <1>3
      <3> QED BY <1>4, <2>1, <3>2, <3>3 DEF TakenPlaces
    <2>2. CASE p[1] # c
      BY <1>2, <1>4, <2>2 DEF TakenPlaces
    <2> QED BY <2>1, <2>2
  <1>8. <<c, n>> \in TakenPlaces(x)' <=> h = x
    BY <1>3, <1>4
  <1>9. TakenPlaces(x)' \subseteq Consumers \X Nat /\ TakenPlaces(x) \subseteq Consumers \X Nat
        /\ <<c, n>> \in Consumers \X Nat
    BY <1>3, <1>4 DEF TakenPlaces
  <1>10. CASE h = x
    <2>1. TakenPlaces(x)' = TakenPlaces(x) \cup {<<c, n>>}
      BY <1>7, <1>8, <1>9, <1>10
    <2>2. Cardinality(TakenPlaces(x) \cup {<<c, n>>}) = Cardinality(TakenPlaces(x)) + 1
      BY <1>5, <1>6, FS_AddElement
    <2> QED BY <1>10, <2>1, <2>2 DEF AtConsumers, h
  <1>11. CASE h # x
    <2>1. TakenPlaces(x)' = TakenPlaces(x)
      BY <1>6, <1>7, <1>8, <1>9, <1>11
    <2> QED BY <1>5, <1>11, <2>1 DEF AtConsumers, h
  <1> QED BY <1>10, <1>11

(* A consumer that is through with its first set has one place less.       *)
LEMMA DropPlaces ==
    ASSUME RouteTypes, NEW c \in Consumers, taken[c] # <<>>,
           taken' = [taken EXCEPT ![c] = Tail(@)], NEW x
    PROVE  AtConsumers(x)' = AtConsumers(x) - (IF Head(taken[c]) = x THEN 1 ELSE 0)
  <1> DEFINE n == Len(taken[c])
             A == TakenPlaces(x) \ {<<c, 1>>}
             B == TakenPlaces(x)'
             f == [p \in A |-> IF p[1] = c THEN <<c, p[2] - 1>> ELSE p]
  <1>1. /\ taken[c] \in Seq(Sets) /\ taken'[c] = Tail(taken[c])
        /\ \A d \in Consumers : d # c => taken'[d] = taken[d]
    BY DEF RouteTypes
  <1>2. /\ n \in Nat \ {0} /\ DOMAIN taken[c] = 1..n /\ DOMAIN taken'[c] = 1..(n - 1)
        /\ \A k \in 1..(n - 1) : taken'[c][k] = taken[c][k + 1]
        /\ Head(taken[c]) = taken[c][1]
    BY <1>1, TailElements
  <1> HIDE DEF n
  <1>3. B = {p \in Consumers \X Nat : p[2] \in DOMAIN taken'[p[1]] /\ taken'[p[1]][p[2]] = x}
    BY DEF TakenPlaces
  <1>4. ASSUME NEW p \in A
        PROVE  f[p] \in B /\ (p[1] = c => p[2] \in Nat /\ f[p] = <<c, p[2] - 1>>)
               /\ (p[1] # c => f[p] = p)
    <2>1. p \in Consumers \X Nat /\ p[2] \in DOMAIN taken[p[1]] /\ taken[p[1]][p[2]] = x
          /\ p # <<c, 1>>
      BY DEF TakenPlaces
    <2>2. CASE p[1] = c
      <3>1. p[2] \in 2..n /\ f[p] = <<c, p[2] - 1>>
        BY <1>2, <2>1, <2>2
      <3>2. p[2] - 1 \in DOMAIN taken'[c] /\ taken'[c][p[2] - 1] = x /\ p[2] - 1 \in Nat
        BY <1>2, <2>1, <2>2, <3>1
      <3> QED BY <1>3, <2>2, <3>1, <3>2
    <2>3. CASE p[1] # c
      <3>1. f[p] = p
        BY <2>3
      <3>2. p \in B
        BY <1>1, <1>3, <2>1, <2>3
      <3> QED BY <2>3, <3>1, <3>2
    <2> QED BY <2>2, <2>3
  <1>5. ASSUME NEW q \in B PROVE \E p \in A : f[p] = q
    <2>1. q \in Consumers \X Nat /\ q[2] \in DOMAIN taken'[q[1]] /\ taken'[q[1]][q[2]] = x
      BY <1>3
    <2>2. CASE q[1] = c
      <3> DEFINE p == <<c, q[2] + 1>>
      <3>1. q[2] \in 1..(n - 1) /\ q[2] + 1 \in 2..n /\ taken[c][q[2] + 1] = x
        BY <1>2, <2>1, <2>2
      <3>2. p \in A
        BY <1>2, <3>1 DEF TakenPlaces
      <3>3. f[p] = <<c, (q[2] + 1) - 1>>
        BY <1>4, <3>2
      <3>4. q = <<c, q[2]>> /\ (q[2] + 1) - 1 = q[2]
        BY <2>1, <2>2, <3>1
      <3> QED BY <3>2, <3>3, <3>4
    <2>3. CASE q[1] # c
      <3>1. q \in A
        BY <1>1, <2>1, <2>3 DEF TakenPlaces
      <3> QED BY <1>4, <2>3, <3>1
    <2> QED BY <2>2, <2>3
  <1>6. ASSUME NEW p \in A, NEW q \in A, f[p] = f[q] PROVE p = q
    <2>1. p \in Consumers \X Nat /\ q \in Consumers \X Nat
      BY DEF TakenPlaces
    <2>2. p[1] = c <=> q[1] = c
      BY <1>4, <1>6, <2>1
    <2>3. CASE p[1] = c
      <3>1. p[2] - 1 = q[2] - 1 /\ p[2] \in Nat /\ q[2] \in Nat
        BY <1>4, <1>6, <2>1, <2>2, <2>3
      <3> QED BY <2>1, <2>2, <2>3, <3>1
    <2>4. CASE p[1] # c
      BY <1>4, <1>6, <2>2, <2>4
    <2> QED BY <2>3, <2>4
  <1>7. f \in [A -> B]
    <2>1. f = [p \in A |-> f[p]]
      OBVIOUS
    <2> HIDE DEF f
    <2> QED BY <1>4, <2>1
  <1>8. IsFiniteSet(TakenPlaces(x)) /\ AtConsumers(x) \in Nat
    BY TakenPlacesAreFinite
  <1>9. IsFiniteSet(A)
    BY <1>8, FS_RemoveElement
  <1>10. <<c, 1>> \in TakenPlaces(x) <=> Head(taken[c]) = x
    BY <1>2 DEF TakenPlaces
  <1>11. Cardinality(A) = AtConsumers(x) - (IF Head(taken[c]) = x THEN 1 ELSE 0)
    <2>1. Cardinality(A) = IF <<c, 1>> \in TakenPlaces(x)
                           THEN Cardinality(TakenPlaces(x)) - 1
                           ELSE Cardinality(TakenPlaces(x))
      BY <1>8, FS_RemoveElement
    <2> QED BY <1>8, <1>10, <2>1 DEF AtConsumers
  <1> HIDE DEF A, B, f
  <1>12. Cardinality(A) = Cardinality(B)
    <2>1. f \in Bijection(A, B)
      BY <1>5, <1>6, <1>7, Fun_IsBij
    <2>2. ExistsBijection(A, B)
      BY <2>1 DEF ExistsBijection
    <2> QED BY <1>9, <2>2, FS_Bijection
  <1> QED BY <1>11, <1>12 DEF AtConsumers, B

(* What the broker's restart leaves with the consumers was there.          *)
LEMMA BrokerKeeps ==
    ASSUME RouteTypes, BrokerRestarts, NEW c \in Consumers, NEW k \in DOMAIN taken'[c]
    PROVE  k \in DOMAIN taken[c] /\ taken'[c][k] = taken[c][k]
  <1>1. PICK keep \in SUBSET Busy :
          taken' = [d \in Consumers |-> IF d \in keep THEN <<Head(taken[d])>> ELSE <<>>]
    BY Zenon DEF BrokerRestarts
  <1>2. CASE c \in keep
    <2>1. taken[c] \in Seq(Sets) /\ taken[c] # <<>> /\ taken'[c] = <<Head(taken[c])>>
      BY <1>1, <1>2 DEF Busy, RouteTypes
    <2>2. Head(taken[c]) = taken[c][1] /\ 1 \in DOMAIN taken[c] /\ k = 1
      BY <2>1, TailOf
    <2> QED BY <2>1, <2>2
  <1>3. CASE c \notin keep
    BY <1>1, <1>3
  <1> QED BY <1>2, <1>3

LEMMA BrokerPlaces ==
    ASSUME RouteTypes, BrokerRestarts, NEW x
    PROVE  AtConsumers(x)' <= AtConsumers(x) /\ AtConsumers(x)' \in Nat
  <1>1. TakenPlaces(x)' \in SUBSET TakenPlaces(x)
    <2> SUFFICES ASSUME NEW p \in TakenPlaces(x)' PROVE p \in TakenPlaces(x)
      OBVIOUS
    <2>1. p \in Consumers \X Nat /\ p[2] \in DOMAIN taken'[p[1]] /\ taken'[p[1]][p[2]] = x
      BY DEF TakenPlaces
    <2>2. p[2] \in DOMAIN taken[p[1]] /\ taken'[p[1]][p[2]] = taken[p[1]][p[2]]
      BY <2>1, BrokerKeeps
    <2> QED BY <2>1, <2>2 DEF TakenPlaces
  <1>2. IsFiniteSet(TakenPlaces(x)) /\ AtConsumers(x) \in Nat
    BY TakenPlacesAreFinite
  <1> QED BY <1>1, <1>2, FS_Subset, FS_CardinalityType DEF AtConsumers

(* The receiver's restart puts no set back more often than consumers held  *)
(* it.                                                                     *)
LEMMA RestartPlaces ==
    ASSUME RouteTypes, ReceiverRestarts, NEW x
    PROVE  /\ AtConsumers(x)' = 0
           /\ InQueue(x)' <= InQueue(x) + AtConsumers(x) /\ InQueue(x)' \in Nat
  <1>0. PICK n \in Nat : \E o \in [1..n -> Prefetched] : \E b \in Seq(Sets) :
              /\ Len(b) = n /\ queue' = b \o queue
              /\ \A k \in 1..n : b[k] = taken[o[k][1]][o[k][2]]
              /\ \A k, l \in 1..n : k # l => o[k] # o[l]
    BY RestartQueue, Zenon
  <1>1. PICK order \in [1..n -> Prefetched], back \in Seq(Sets) :
              /\ Len(back) = n /\ queue' = back \o queue
              /\ \A k \in 1..n : back[k] = taken[order[k][1]][order[k][2]]
              /\ \A k, l \in 1..n : k # l => order[k] # order[l]
    BY <1>0, Zenon
  <1> DEFINE A == Hits(back, {x})
             B == TakenPlaces(x)
             f == [k \in A |-> order[k]]
  <1>2. queue \in Seq(Sets) /\ \A c \in Consumers : taken[c] \in Seq(Sets)
    BY DEF RouteTypes
  <1>3. A \subseteq 1..n /\ \A k \in A : back[k] = x
    BY <1>1 DEF Hits
  <1>4. \A p \in Prefetched : p \in Consumers \X Nat /\ p[2] \in DOMAIN taken[p[1]]
    BY <1>2 DEF Prefetched
  <1>5. \A k \in A : order[k] \in B
    BY <1>1, <1>3, <1>4 DEF TakenPlaces
  <1>6. f \in [A -> B]
    BY <1>5
  <1>7. \A k, l \in A : f[k] = f[l] => k = l
    BY <1>1, <1>3
  <1>8. IsFiniteSet(B) /\ AtConsumers(x) \in Nat
    BY TakenPlacesAreFinite
  <1>9. IsFiniteSet(A) /\ Cardinality(A) \in Nat
    BY HitsAreFinite
  <1>10. Cardinality(Hits(queue', {x})) = Cardinality(A) + Cardinality(Hits(queue, {x}))
         /\ Cardinality(Hits(queue, {x})) \in Nat
    BY <1>1, <1>2, HitsOfConcat, HitsAreFinite
  <1> HIDE DEF A, B, f
  <1>11. Cardinality(A) <= Cardinality(B)
    <2>1. f \in Injection(A, B)
      BY <1>6, <1>7, Fun_IsInj
    <2> QED BY <1>8, <2>1, FS_Injection
  <1>12. AtConsumers(x)' = 0
    <2>1. taken' = [c \in Consumers |-> <<>>]
      BY Zenon DEF ReceiverRestarts
    <2>2. TakenPlaces(x)' = {}
      BY <2>1 DEF TakenPlaces
    <2> QED BY <2>2, FS_EmptySet DEF AtConsumers
  <1> QED BY <1>8, <1>9, <1>10, <1>11, <1>12 DEF InQueue, AtConsumers, B

(* An invocation of the dispatcher to the broker.                          *)
LEMMA InvokeSentAgain ==
    ASSUME OrderInv, RouteInv, Invoke \/ InvokeThrows, content' = content, NEW x
    PROVE  SentAgain(x)' = SentAgain(x)
              + (IF Head(todo) = activemq /\ content[message] = x THEN 1 ELSE 0)
  <1> DEFINE h == Head(todo)
             q == received[activemq]
  <1>1. /\ todo \in Seq(WbServices) /\ todo # <<>> /\ pc = "invoking"
        /\ received \in [WbServices -> Seq(Nat)] /\ message \in Nat
        /\ received' = [received EXCEPT ![h] = Append(received[h], message)]
    BY SMT DEF OrderInv, MessageTypes, Invoke, InvokeThrows
  <1>2. activemq \in WbServices /\ q \in Seq(Nat)
    BY <1>1, PipelineAssumption
  <1>3. content[message] \in Sets
    BY <1>1, MessagesSent, ContentType DEF RouteInv
  <1> HIDE DEF h
  <1>4. CASE h = activemq
    <2>1. received'[activemq] = Append(q, message)
      BY <1>1, <1>2, <1>4
    <2>2. SetsOf(activemq) = [k \in 1..Len(q) |-> content[q[k]]]
          /\ SetsOf(activemq) \in Seq(Sets) /\ Len(q) \in Nat
      BY <1>2, SetsOfType DEF SetsOf
    <2>3. SetsOf(activemq)' = [k \in 1..(Len(q) + 1) |-> content[Append(q, message)[k]]]
      BY <1>1, <1>2, <2>1, AppendElements DEF SetsOf
    <2>4. \A k \in 1..(Len(q) + 1) : Append(q, message)[k] = IF k = Len(q) + 1 THEN message ELSE q[k]
      BY <1>1, <1>2
    <2>5. SetsOf(activemq)' = Append(SetsOf(activemq), content[message])
      <3>1. Append(SetsOf(activemq), content[message])
              = [k \in 1..(Len(q) + 1) |-> IF k = Len(q) + 1 THEN content[message] ELSE content[q[k]]]
        BY <1>3, <2>2
      <3>2. SetsOf(activemq)'
              = [k \in 1..(Len(q) + 1) |-> IF k = Len(q) + 1 THEN content[message] ELSE content[q[k]]]
        BY <2>3, <2>4
      <3> QED BY <3>1, <3>2
    <2>6. Cardinality(Hits(Append(SetsOf(activemq), content[message]), {x}))
            = Cardinality(Hits(SetsOf(activemq), {x})) + (IF content[message] \in {x} THEN 1 ELSE 0)
      <3>1. SetsOf(activemq) \in Seq(Sets) /\ content[message] \in Sets
        BY <1>3, <2>2
      <3> QED BY <3>1, HitsOfAppend, Zenon
    <2>7. SentAgain(x)' = SentAgain(x) + (IF content[message] = x THEN 1 ELSE 0)
      BY <2>5, <2>6 DEF SentAgain
    <2> QED BY <1>4, <2>7 DEF h
  <1>5. CASE h # activemq
    <2>1. received'[activemq] = received[activemq]
      BY <1>1, <1>2, <1>5
    <2>2. SetsOf(activemq)' = SetsOf(activemq)
      BY <2>1 DEF SetsOf
    <2>3. SentAgain(x) \in Nat
      BY CountTypes
    <2> QED BY <1>5, <2>2, <2>3 DEF SentAgain, h
  <1> QED BY <1>4, <1>5

LEMMA DispatchCopies == OrderInv /\ RouteInv /\ CopiesInv /\ Dispatch => CopiesInv'
  <1> SUFFICES ASSUME OrderInv, RouteInv, CopiesInv, Dispatch, NEW x \in Sets
               PROVE  InQueue(x)' + AtConsumers(x)' + PassedOn(x)'
                        <= (IF x <= sets' THEN 1 ELSE 0) + SentAgain(x)'
    BY DEF CopiesInv
  <1>1. /\ sets' = sets + 1 /\ sets + 1 \in Sets /\ sets \in Nat /\ x \in Nat
        /\ queue' = queue \/ queue' = Append(queue, sets + 1)
        /\ queue \in Seq(Sets)
        /\ UNCHANGED <<taken, content, received>>
    BY PipelineAssumption DEF RouteInv, RouteTypes, Dispatch, Sets, vars
  <1>2. /\ AtConsumers(x)' = AtConsumers(x) /\ PassedOn(x)' = PassedOn(x)
        /\ SentAgain(x)' = SentAgain(x)
    BY <1>1 DEF AtConsumers, TakenPlaces, PassedOn, SentAgain, SetsOf
  <1>3. InQueue(x)' <= InQueue(x) + (IF x = sets + 1 THEN 1 ELSE 0) /\ InQueue(x)' \in Nat
    <2>0. InQueue(x) \in Nat
      BY CountTypes
    <2>1. CASE queue' = queue
      <3>1. InQueue(x)' = InQueue(x)
        BY <2>1 DEF InQueue
      <3> QED BY <2>0, <3>1
    <2>2. CASE queue' = Append(queue, sets + 1)
      <3>1. Cardinality(Hits(Append(queue, sets + 1), {x}))
              = Cardinality(Hits(queue, {x})) + (IF sets + 1 \in {x} THEN 1 ELSE 0)
        BY <1>1, HitsOfAppend
      <3>2. InQueue(x)' = InQueue(x) + (IF x = sets + 1 THEN 1 ELSE 0)
        BY <2>2, <3>1 DEF InQueue
      <3> QED BY <2>0, <3>2
    <2> QED BY <1>1, <2>1, <2>2
  <1>4. InQueue(x) + AtConsumers(x) + PassedOn(x) <= (IF x <= sets THEN 1 ELSE 0) + SentAgain(x)
    BY DEF CopiesInv
  <1>5. /\ InQueue(x) \in Nat /\ AtConsumers(x) \in Nat /\ PassedOn(x) \in Nat
        /\ SentAgain(x) \in Nat
    BY CountTypes
  <1> QED BY <1>1, <1>2, <1>3, <1>4, <1>5

LEMMA RestartCopies ==
    OrderInv /\ RouteInv /\ CopiesInv /\ (BrokerRestarts \/ ReceiverRestarts) => CopiesInv'
  <1> SUFFICES ASSUME OrderInv, RouteInv, CopiesInv, BrokerRestarts \/ ReceiverRestarts,
                      NEW x \in Sets
               PROVE  InQueue(x)' + AtConsumers(x)' + PassedOn(x)'
                        <= (IF x <= sets' THEN 1 ELSE 0) + SentAgain(x)'
    BY DEF CopiesInv
  <1>1. UNCHANGED <<sets, content, received>>
    <2>1. CASE BrokerRestarts
      BY <2>1 DEF BrokerRestarts, vars
    <2>2. CASE ReceiverRestarts
      BY <2>2, Zenon DEF ReceiverRestarts
    <2> QED BY <2>1, <2>2
  <1>2. PassedOn(x)' = PassedOn(x) /\ SentAgain(x)' = SentAgain(x)
    BY <1>1 DEF PassedOn, SentAgain, SetsOf
  <1>3. InQueue(x) + AtConsumers(x) + PassedOn(x) <= (IF x <= sets THEN 1 ELSE 0) + SentAgain(x)
    BY DEF CopiesInv
  <1>4. /\ InQueue(x) \in Nat /\ AtConsumers(x) \in Nat /\ PassedOn(x) \in Nat
        /\ SentAgain(x) \in Nat
    BY CountTypes
  <1>5. InQueue(x)' \in Nat /\ AtConsumers(x)' \in Nat
        /\ InQueue(x)' + AtConsumers(x)' <= InQueue(x) + AtConsumers(x)
    <2>1. CASE BrokerRestarts
      <3>1. InQueue(x)' = 0
        <4>1. queue' = <<>>
          BY <2>1 DEF BrokerRestarts
        <4> QED BY <4>1, HitsOfEmpty DEF InQueue
      <3> QED BY <1>4, <2>1, <3>1, BrokerPlaces DEF RouteInv
    <2>2. CASE ReceiverRestarts
      BY <1>4, <2>2, RestartPlaces DEF RouteInv
    <2> QED BY <2>1, <2>2
  <1> QED BY <1>1, <1>2, <1>3, <1>4, <1>5

LEMMA ConsumerCopies ==
    ASSUME OrderInv, RouteInv, CopiesInv, NEW c \in Consumers, ConsumerStep(c)
    PROVE  CopiesInv'
  <1> SUFFICES ASSUME NEW x \in Sets
               PROVE  InQueue(x)' + AtConsumers(x)' + PassedOn(x)'
                        <= (IF x <= sets' THEN 1 ELSE 0) + SentAgain(x)'
    BY DEF CopiesInv
  <1>1. UNCHANGED <<sets, received>>
    BY DEF ConsumerStep, Take, PassOn, PassOnFails, Send, vars
  <1>2. queue \in Seq(Sets) /\ content \in Seq(Sets) /\ taken[c] \in Seq(Sets)
    BY DEF RouteInv, RouteTypes
  <1>3. taken[c] # <<>> => Head(taken[c]) \in Sets
    BY <1>2, HeadAndTail
  <1>4. SentAgain(x)' = SentAgain(x)
    <2>1. content' = content \/ \E y \in Sets : content' = Append(content, y)
      BY <1>3 DEF ConsumerStep, Take, PassOn, PassOnFails
    <2>2. SetsOf(activemq)' = SetsOf(activemq)
      BY <1>1, <2>1, SentAgainKeeps, PipelineAssumption
    <2> QED BY <2>2 DEF SentAgain
  <1>5. InQueue(x) + AtConsumers(x) + PassedOn(x) <= (IF x <= sets THEN 1 ELSE 0) + SentAgain(x)
    BY DEF CopiesInv
  <1>6. /\ InQueue(x) \in Nat /\ AtConsumers(x) \in Nat /\ PassedOn(x) \in Nat
        /\ SentAgain(x) \in Nat
    BY CountTypes
  <1>7. /\ InQueue(x)' \in Int /\ AtConsumers(x)' \in Int /\ PassedOn(x)' \in Int
        /\ InQueue(x)' + AtConsumers(x)' + PassedOn(x)'
             <= InQueue(x) + AtConsumers(x) + PassedOn(x)
    <2>1. CASE Take(c)
      <3>1. queue # <<>> /\ queue' = Tail(queue) /\ content' = content
        BY <2>1 DEF Take
      <3>2. Cardinality(Hits(Tail(queue), {x}))
              = Cardinality(Hits(queue, {x})) - (IF Head(queue) \in {x} THEN 1 ELSE 0)
        BY <1>2, <3>1, HitsOfTail
      <3>3. InQueue(x)' = InQueue(x) - (IF Head(queue) = x THEN 1 ELSE 0)
        BY <3>1, <3>2 DEF InQueue
      <3>4. AtConsumers(x)' = AtConsumers(x) + (IF Head(queue) = x THEN 1 ELSE 0)
        BY <2>1, TakePlaces DEF RouteInv
      <3>5. PassedOn(x)' = PassedOn(x)
        BY <3>1 DEF PassedOn
      <3> QED BY <1>6, <3>3, <3>4, <3>5
    <2>2. ASSUME taken[c] # <<>>, taken' = [taken EXCEPT ![c] = Tail(@)]
          PROVE  AtConsumers(x)' = AtConsumers(x) - (IF Head(taken[c]) = x THEN 1 ELSE 0)
      BY <2>2, DropPlaces DEF RouteInv
    <2>3. CASE PassOn(c)
      <3>1. /\ taken[c] # <<>> /\ queue' = queue
            /\ content' = Append(content, Head(taken[c]))
            /\ AtConsumers(x)' = AtConsumers(x) - (IF Head(taken[c]) = x THEN 1 ELSE 0)
        BY <2>2, <2>3 DEF PassOn
      <3>2. Cardinality(Hits(Append(content, Head(taken[c])), {x}))
              = Cardinality(Hits(content, {x})) + (IF Head(taken[c]) \in {x} THEN 1 ELSE 0)
        BY <1>2, <1>3, <3>1, HitsOfAppend
      <3>3. PassedOn(x)' = PassedOn(x) + (IF Head(taken[c]) = x THEN 1 ELSE 0)
        BY <3>1, <3>2 DEF PassedOn
      <3>4. InQueue(x)' = InQueue(x)
        BY <3>1 DEF InQueue
      <3> QED BY <1>6, <3>1, <3>3, <3>4
    <2>4. CASE PassOnFails(c)
      <3>1. /\ queue' = queue /\ content' = content
            /\ AtConsumers(x)' = AtConsumers(x) - (IF Head(taken[c]) = x THEN 1 ELSE 0)
        BY <2>2, <2>4 DEF PassOnFails
      <3>2. InQueue(x)' = InQueue(x) /\ PassedOn(x)' = PassedOn(x)
        BY <3>1 DEF InQueue, PassedOn
      <3> QED BY <1>6, <3>1, <3>2
    <2> QED BY <2>1, <2>3, <2>4 DEF ConsumerStep
  <1> QED BY <1>1, <1>4, <1>5, <1>6, <1>7

(* What is sent again is counted.                                          *)
LEMMA InvokeCopies ==
    ASSUME OrderInv, RouteInv, CopiesInv, Store \/ Forward \/ StoreThrows
    PROVE  CopiesInv'
  <1> SUFFICES ASSUME NEW x \in Sets
               PROVE  InQueue(x)' + AtConsumers(x)' + PassedOn(x)'
                        <= (IF x <= sets' THEN 1 ELSE 0) + SentAgain(x)'
    BY DEF CopiesInv
  <1>1. /\ Invoke \/ InvokeThrows
        /\ pc = "invoking"
        /\ UNCHANGED <<sets, taken, content>>
        /\ \/ queue' = queue
           \/ queue' = Append(queue, content[message]) /\ Head(todo) = activemq
    BY DEF Store, Forward, StoreThrows, Invoke, InvokeThrows, routeVars
  <1>2. queue \in Seq(Sets) /\ content[message] \in Sets
    BY <1>1, MessagesSent, ContentType DEF RouteInv, RouteTypes
  <1> DEFINE again == IF Head(todo) = activemq /\ content[message] = x THEN 1 ELSE 0
  <1>3. SentAgain(x)' = SentAgain(x) + again
    BY <1>1, InvokeSentAgain
  <1>4. AtConsumers(x)' = AtConsumers(x) /\ PassedOn(x)' = PassedOn(x)
    BY <1>1 DEF AtConsumers, TakenPlaces, PassedOn
  <1>5. InQueue(x) + AtConsumers(x) + PassedOn(x) <= (IF x <= sets THEN 1 ELSE 0) + SentAgain(x)
    BY DEF CopiesInv
  <1>6. /\ InQueue(x) \in Nat /\ AtConsumers(x) \in Nat /\ PassedOn(x) \in Nat
        /\ SentAgain(x) \in Nat
    BY CountTypes
  <1>7. InQueue(x)' <= InQueue(x) + again /\ InQueue(x)' \in Nat
    <2>1. CASE queue' = queue
      BY <1>6, <2>1 DEF InQueue
    <2>2. CASE queue' = Append(queue, content[message]) /\ Head(todo) = activemq
      <3>1. Cardinality(Hits(Append(queue, content[message]), {x}))
              = Cardinality(Hits(queue, {x})) + (IF content[message] \in {x} THEN 1 ELSE 0)
        BY <1>2, HitsOfAppend
      <3>2. InQueue(x)' = InQueue(x) + again
        BY <2>2, <3>1 DEF InQueue
      <3> QED BY <1>6, <3>2
    <2> QED BY <1>1, <2>1, <2>2
  <1> HIDE DEF again
  <1>8. again \in Nat
    BY DEF again
  <1> QED BY <1>1, <1>3, <1>4, <1>5, <1>6, <1>7, <1>8

LEMMA NextCopies ==
    OrderInv /\ RouteInv /\ CopiesInv /\ [PipelineNext]_pipelineVars => CopiesInv'
  <1> SUFFICES ASSUME OrderInv, RouteInv, CopiesInv, [PipelineNext]_pipelineVars PROVE CopiesInv'
    OBVIOUS
  <1>1. ASSUME UNCHANGED <<sets, queue, taken, content, received>> PROVE CopiesInv'
    BY <1>1 DEF CopiesInv, InQueue, AtConsumers, TakenPlaces, PassedOn, SentAgain, SetsOf
  <1>2. CASE WhiteboardEnter \/ WhiteboardIterate \/ WhiteboardFinish \/ Services
    BY <1>1, <1>2 DEF WhiteboardEnter, WhiteboardIterate, WhiteboardFinish, Services,
       Enter, Iterate, Finish, Register, Unregister, routeVars
  <1>3. CASE UNCHANGED pipelineVars
    BY <1>1, <1>3 DEF pipelineVars, routeVars, vars
  <1> QED BY <1>2, <1>3, DispatchCopies, RestartCopies, ConsumerCopies, InvokeCopies
          DEF PipelineNext, WhiteboardStep

LEMMA CopiesHold == PipelineSpec => []CopiesInv
  <1>1. PipelineInit => CopiesInv
    <2> SUFFICES ASSUME PipelineInit, NEW x \in Sets
                 PROVE  InQueue(x) + AtConsumers(x) + PassedOn(x)
                          <= (IF x <= sets THEN 1 ELSE 0) + SentAgain(x)
      BY DEF CopiesInv
    <2>1. /\ queue = <<>> /\ content = <<>> /\ taken = [c \in Consumers |-> <<>>]
          /\ received = [s \in WbServices |-> <<>>] /\ sets = 0
      BY DEF PipelineInit, Init
    <2>2. InQueue(x) = 0 /\ PassedOn(x) = 0
      BY <2>1, HitsOfEmpty DEF InQueue, PassedOn
    <2>3. AtConsumers(x) = 0
      <3>1. TakenPlaces(x) = {}
        BY <2>1 DEF TakenPlaces
      <3> QED BY <3>1, FS_EmptySet DEF AtConsumers
    <2>4. SentAgain(x) = 0
      <3>1. Hits(SetsOf(activemq), {x}) = {}
        BY <2>1, PipelineAssumption DEF SetsOf, Hits
      <3> QED BY <3>1, FS_EmptySet DEF SentAgain
    <2>5. (IF x <= sets THEN 1 ELSE 0) \in Nat
      OBVIOUS
    <2> QED BY <2>2, <2>3, <2>4, <2>5
  <1> QED BY <1>1, NextCopies, OrderHolds, RouteHolds, PTL DEF PipelineSpec

(* A repository stores each sample set once, and once more each time the   *)
(* receiver itself has sent it to the broker again: neither the restarts   *)
(* of the broker and of the receiver nor the consumers that run            *)
(* concurrently multiply a set.                                            *)
THEOREM OnceUnlessForwardedHolds == PipelineSpec => []OnceUnlessForwarded
  <1>1. OrderInv /\ RouteInv /\ CopiesInv => OnceUnlessForwarded
    <2> SUFFICES ASSUME OrderInv, RouteInv, CopiesInv, NEW r \in Repositories, NEW x \in Sets
                 PROVE  Times(x, SetsOf(r)) <= 1 + Times(x, SetsOf(activemq))
      BY DEF OnceUnlessForwarded
    <2> DEFINE A == Hits(SetsOf(r), {x})
               B == Hits(content, {x})
               f == [k \in A |-> received[r][k]]
    <2>1. r \in WbServices /\ content \in Seq(Sets) /\ Len(content) = sent /\ x \in Sets
      BY DEF Repositories, RouteInv, RouteTypes
    <2>2. /\ SetsOf(r) \in Seq(Sets) /\ DOMAIN SetsOf(r) = DOMAIN received[r]
          /\ \A k \in DOMAIN received[r] :
                received[r][k] \in 1..sent /\ SetsOf(r)[k] = content[received[r][k]]
      BY <2>1, SetsOfType
    <2>3. \A k \in A : k \in DOMAIN received[r] /\ SetsOf(r)[k] = x
      BY <2>2 DEF Hits
    <2>4. \A k \in A : received[r][k] \in B
      BY <2>1, <2>2, <2>3 DEF Hits
    <2>5. f \in [A -> B]
      BY <2>4
    <2>6. \A k, l \in A : f[k] = f[l] => k = l
      <3>1. Increasing(received[r]) /\ received[r] \in Seq(Nat)
        BY <2>1 DEF OrderInv, MessageTypes, ReceivedInOrder
      <3>2. \A k, l \in DOMAIN received[r] : k # l => received[r][k] # received[r][l]
        BY <3>1 DEF Increasing
      <3> QED BY <2>3, <3>2
    <2>7. IsFiniteSet(B) /\ Cardinality(B) \in Nat
      BY <2>1, HitsAreFinite
    <2>8. Cardinality(A) \in Nat
      BY <2>2, HitsAreFinite
    <2> HIDE DEF A, B, f
    <2>9. Cardinality(A) <= Cardinality(B)
      <3>1. f \in Injection(A, B)
        BY <2>5, <2>6, Fun_IsInj
      <3> QED BY <2>7, <3>1, FS_Injection
    <2>10. Cardinality(B) <= 1 + SentAgain(x)
      <3>1. InQueue(x) + AtConsumers(x) + PassedOn(x) <= (IF x <= sets THEN 1 ELSE 0) + SentAgain(x)
        BY DEF CopiesInv
      <3>2. (IF x <= sets THEN 1 ELSE 0) \in 0..1
        OBVIOUS
      <3>3. InQueue(x) + AtConsumers(x) + PassedOn(x) <= 1 + SentAgain(x)
        BY <3>1, <3>2, CountTypes
      <3> QED BY <3>3, CountTypes DEF PassedOn, B
    <2>11. \A q : Times(x, q) = Cardinality(Hits(q, {x}))
      <3> SUFFICES ASSUME NEW q PROVE Times(x, q) = Cardinality(Hits(q, {x}))
        OBVIOUS
      <3>1. {k \in DOMAIN q : q[k] = x} = Hits(q, {x})
        BY DEF Hits
      <3> QED BY <3>1 DEF Times
    <2>12. Times(x, SetsOf(r)) = Cardinality(A) /\ Times(x, SetsOf(activemq)) = SentAgain(x)
      BY <2>11 DEF A, SentAgain
    <2> QED BY <2>7, <2>8, <2>9, <2>10, <2>12, CountTypes
  <1> QED BY <1>1, OrderHolds, RouteHolds, CopiesHold, PTL
-----------------------------------------------------------------------------
(* In which order the sets are passed on. *)

(* What waits is in the order of the samplers: the queue, what each        *)
(* consumer holds, and the queue behind that.                              *)
Waiting ==
    /\ Increasing(queue) /\ \A j \in DOMAIN queue : queue[j] <= sets
    /\ \A c \in Consumers : Increasing(taken[c])
    /\ \A c \in Consumers : \A k \in DOMAIN taken[c] :
          taken[c][k] <= sets /\ \A j \in DOMAIN queue : taken[c][k] < queue[j]
    /\ \A c, d \in Consumers : \A k \in DOMAIN taken[c], l \in DOMAIN taken[d] :
          taken[c][k] = taken[d][l] => c = d /\ k = l
    /\ \A n \in 1..sent : content[n] <= sets

(* Message n was passed on by consumer w[n][1] in the life w[n][2] of the  *)
(* receiver; what one consumer passes on in one life is in order.          *)
By(w) ==
    /\ w \in [1..sent -> Consumers \X (1..lives)]
    /\ \A m, n \in 1..sent : m < n /\ w[m] = w[n] => content[m] < content[n]
    /\ \A n \in 1..sent : \A c \in Consumers : w[n] = <<c, lives>> =>
          \A k \in DOMAIN taken[c] : content[n] < taken[c][k]
    /\ \A n \in 1..sent : w[n][2] = lives => \A j \in DOMAIN queue : content[n] < queue[j]

(* All of this as long as nothing is sent again.                           *)
LineInv == received[activemq] = <<>> => Waiting /\ \E w : By(w)

(* The types of what is compared.                                          *)
LEMMA WaitingTypes ==
    ASSUME RouteTypes
    PROVE  /\ sets \in Nat /\ sent \in Nat /\ lives \in Nat \ {0}
           /\ queue \in Seq(Nat) /\ content \in Seq(Nat) /\ Len(content) = sent
           /\ \A c \in Consumers : taken[c] \in Seq(Nat)
           /\ \A j \in DOMAIN queue : queue[j] \in Nat
           /\ \A n \in 1..sent : content[n] \in Nat
           /\ \A c \in Consumers : \A k \in DOMAIN taken[c] : k \in Nat /\ taken[c][k] \in Nat
  <1>1. Sets \subseteq Nat
    BY PipelineAssumption DEF Sets
  <1>2. queue \in Seq(Nat) /\ content \in Seq(Nat) /\ \A c \in Consumers : taken[c] \in Seq(Nat)
    <2>1. ASSUME NEW q \in Seq(Sets) PROVE q \in Seq(Nat)
      <3>1. \A k \in DOMAIN q : q[k] \in Nat
        BY <1>1, ElementType
      <3> QED BY <3>1, Retyped
    <2> QED BY <2>1 DEF RouteTypes
  <1>3. sets \in Nat /\ sent \in Nat /\ lives \in Nat \ {0}
    BY PipelineAssumption, WhiteboardAssumption DEF RouteTypes
  <1>4. \A q \in Seq(Nat) : \A k \in DOMAIN q : k \in Nat /\ q[k] \in Nat
    OBVIOUS
  <1>5. DOMAIN content = 1..sent /\ Len(content) = sent
    BY <1>2 DEF RouteTypes
  <1> QED BY <1>2, <1>3, <1>4, <1>5

LEMMA DispatchLine ==
    ASSUME RouteTypes, Waiting, Dispatch
    PROVE  Waiting' /\ \A w : By(w) => By(w)'
  <1>1. /\ sets' = sets + 1 /\ UNCHANGED <<sent, taken, lives, content>>
        /\ queue' = queue \/ queue' = Append(queue, sets + 1)
    BY DEF Dispatch, vars
  <1>2. ASSUME NEW j \in DOMAIN queue'
        PROVE  j \in Nat /\ \/ j \in DOMAIN queue /\ queue'[j] = queue[j]
                            \/ queue'[j] = sets + 1 /\ \A i \in DOMAIN queue : i < j
    <2>1. CASE queue' = queue
      BY <1>2, <2>1, WaitingTypes
    <2>2. CASE queue' = Append(queue, sets + 1)
      <3>1. queue \in Seq(Nat) /\ sets + 1 \in Nat
        BY WaitingTypes
      <3>2. /\ Len(queue) \in Nat /\ DOMAIN queue = 1..Len(queue)
            /\ DOMAIN queue' = 1..(Len(queue) + 1) /\ queue'[Len(queue) + 1] = sets + 1
            /\ \A i \in 1..Len(queue) : queue'[i] = queue[i]
        BY <2>2, <3>1, AppendElements
      <3> QED BY <1>2, <3>2
    <2> QED BY <1>1, <2>1, <2>2
  <1>3. \A i, j \in DOMAIN queue' : i < j => queue'[i] < queue'[j]
    <2>1. ASSUME NEW i \in DOMAIN queue', NEW j \in DOMAIN queue', i < j
          PROVE  queue'[i] < queue'[j]
      <3>1. i \in DOMAIN queue /\ queue'[i] = queue[i]
        <4>1. CASE queue' = queue
          BY <2>1, <4>1
        <4>2. CASE queue' = Append(queue, sets + 1)
          BY <2>1, <4>2, WaitingTypes, AppendElements
        <4> QED BY <1>1, <4>1, <4>2
      <3>2. queue[i] <= sets /\ queue[i] \in Nat /\ sets \in Nat
        BY <3>1, WaitingTypes DEF Waiting
      <3>3. CASE j \in DOMAIN queue /\ queue'[j] = queue[j]
        BY <2>1, <3>1, <3>3 DEF Waiting, Increasing
      <3>4. CASE queue'[j] = sets + 1
        BY <3>1, <3>2, <3>4
      <3> QED BY <1>2, <2>1, <3>3, <3>4
    <2> QED BY <2>1
  <1>4. Waiting'
    <2>1. Increasing(queue)'
      BY <1>3 DEF Increasing
    <2>2. \A j \in DOMAIN queue' : queue'[j] <= sets'
      BY <1>1, <1>2, WaitingTypes DEF Waiting
    <2>3. ASSUME NEW c \in Consumers, NEW k \in DOMAIN taken'[c]
          PROVE  taken'[c][k] <= sets' /\ \A j \in DOMAIN queue' : taken'[c][k] < queue'[j]
      <3>1. taken'[c] = taken[c] /\ k \in DOMAIN taken[c] /\ sets \in Nat
        BY <1>1, <2>3, WaitingTypes
      <3>2. /\ taken[c][k] \in Nat /\ taken[c][k] <= sets
            /\ \A j \in DOMAIN queue : taken[c][k] < queue[j]
        BY <3>1, WaitingTypes DEF Waiting
      <3>3. \A j \in DOMAIN queue' : taken[c][k] < queue'[j]
        BY <1>2, <3>1, <3>2
      <3> QED BY <1>1, <3>1, <3>2, <3>3
    <2>4. \A n \in 1..sent' : content'[n] <= sets'
      BY <1>1, WaitingTypes DEF Waiting
    <2> QED BY <1>1, <2>1, <2>2, <2>3, <2>4 DEF Waiting, Increasing
  <1>5. ASSUME NEW w, By(w) PROVE By(w)'
    <2>1. ASSUME NEW n \in 1..sent, w[n][2] = lives, NEW j \in DOMAIN queue'
          PROVE  content[n] < queue'[j]
      <3>1. content[n] <= sets /\ content[n] \in Nat /\ sets \in Nat
            /\ \A i \in DOMAIN queue : content[n] < queue[i]
        BY <1>5, <2>1, WaitingTypes DEF Waiting, By
      <3> QED BY <1>2, <2>1, <3>1
    <2> QED BY <1>1, <1>5, <2>1 DEF By
  <1> QED BY <1>4, <1>5

LEMMA TakeLine ==
    ASSUME RouteTypes, Waiting, NEW c \in Consumers, Take(c)
    PROVE  Waiting' /\ \A w : By(w) => By(w)'
  <1> DEFINE h == Head(queue)
             n == Len(taken[c]) + 1
  <1>1. /\ queue # <<>> /\ queue' = Tail(queue)
        /\ taken' = [taken EXCEPT ![c] = Append(@, h)]
        /\ UNCHANGED <<sets, sent, lives, content>>
    BY DEF Take, vars
  <1>2. /\ h = queue[1] /\ 1 \in DOMAIN queue /\ h \in Nat
        /\ \A j \in DOMAIN queue' : j \in Nat /\ j + 1 \in DOMAIN queue /\ 1 < j + 1
                                      /\ queue'[j] = queue[j + 1]
    BY <1>1, WaitingTypes, TailOf
  <1>3. taken'[c] = Append(taken[c], h) /\ \A d \in Consumers : d # c => taken'[d] = taken[d]
    BY <1>1 DEF RouteTypes
  <1>4. /\ n \in Nat \ {0} /\ DOMAIN taken[c] = 1..(n - 1) /\ DOMAIN taken'[c] = 1..n
        /\ \A k \in 1..(n - 1) : taken'[c][k] = taken[c][k]
        /\ taken'[c][n] = h
    <2>1. taken[c] \in Seq(Nat) /\ h \in Nat
      BY <1>2, WaitingTypes
    <2>2. /\ DOMAIN taken[c] = 1..Len(taken[c]) /\ Len(taken[c]) \in Nat
          /\ DOMAIN taken'[c] = 1..(Len(taken[c]) + 1) /\ taken'[c][Len(taken[c]) + 1] = h
          /\ \A k \in 1..Len(taken[c]) : taken'[c][k] = taken[c][k]
      <3> HIDE DEF h, n
      <3> QED BY <1>3, <2>1, AppendElements
    <2> QED BY <2>2
  <1> HIDE DEF h, n
  <1>5. ASSUME NEW d \in Consumers, NEW k \in DOMAIN taken'[d]
        PROVE  \/ k \in DOMAIN taken[d] /\ taken'[d][k] = taken[d][k]
               \/ d = c /\ k = n /\ taken'[d][k] = h
    <2>1. CASE d = c
      BY <1>4, <1>5, <2>1
    <2>2. CASE d # c
      BY <1>3, <1>5, <2>2
    <2> QED BY <2>1, <2>2
  <1>6. ASSUME NEW d \in Consumers, NEW k \in DOMAIN taken[d]
        PROVE  taken[d][k] \in Nat /\ taken[d][k] < h
    BY <1>2, WaitingTypes DEF Waiting
  <1>7. Increasing(queue)'
    BY <1>2, WaitingTypes DEF Waiting, Increasing
  <1>8. \A j \in DOMAIN queue' : queue'[j] <= sets' /\ h < queue'[j]
    BY <1>1, <1>2, WaitingTypes DEF Waiting, Increasing
  <1>9. ASSUME NEW d \in Consumers PROVE Increasing(taken[d])'
    <2>1. CASE d = c
      <3>1. \A i, j \in 1..(n - 1) : i < j => taken[c][i] < taken[c][j]
        BY <1>4 DEF Waiting, Increasing
      <3>2. \A i, j \in 1..n : i < j => taken'[c][i] < taken'[c][j]
        BY <1>4, <1>6, <3>1
      <3> QED BY <1>4, <2>1, <3>2 DEF Increasing
    <2>2. CASE d # c
      BY <1>3, <2>2 DEF Waiting, Increasing
    <2> QED BY <2>1, <2>2
  <1>10. ASSUME NEW d \in Consumers, NEW k \in DOMAIN taken'[d]
         PROVE  taken'[d][k] <= sets' /\ \A j \in DOMAIN queue' : taken'[d][k] < queue'[j]
    <2>1. CASE k \in DOMAIN taken[d] /\ taken'[d][k] = taken[d][k]
      <3>1. taken[d][k] <= sets /\ taken[d][k] \in Nat /\ taken[d][k] < h
        BY <1>6, <2>1 DEF Waiting
      <3>2. ASSUME NEW j \in DOMAIN queue' PROVE taken[d][k] < queue'[j]
        <4>1. h < queue'[j] /\ queue'[j] \in Nat
          BY <1>2, <1>8, WaitingTypes
        <4> QED BY <1>2, <3>1, <4>1
      <3> QED BY <1>1, <2>1, <3>1, <3>2
    <2>2. CASE taken'[d][k] = h
      BY <1>1, <1>2, <1>8, <2>2, WaitingTypes DEF Waiting
    <2> QED BY <1>5, <1>10, <2>1, <2>2
  <1>11. ASSUME NEW d \in Consumers, NEW e \in Consumers,
                NEW k \in DOMAIN taken'[d], NEW l \in DOMAIN taken'[e],
                taken'[d][k] = taken'[e][l]
         PROVE  d = e /\ k = l
    <2>1. CASE k \in DOMAIN taken[d] /\ taken'[d][k] = taken[d][k]
                 /\ l \in DOMAIN taken[e] /\ taken'[e][l] = taken[e][l]
      <3>1. taken[d][k] = taken[e][l] /\ k \in DOMAIN taken[d] /\ l \in DOMAIN taken[e]
        BY <1>11, <2>1
      <3> QED BY <3>1 DEF Waiting
    <2>2. CASE k \in DOMAIN taken[d] /\ taken'[d][k] = taken[d][k] /\ taken'[e][l] = h
      <3>1. taken[d][k] < h /\ taken[d][k] \in Nat
        BY <1>6, <2>2
      <3>2. taken[d][k] = h
        BY <1>11, <2>2
      <3> QED BY <1>2, <3>1, <3>2
    <2>3. CASE taken'[d][k] = h /\ l \in DOMAIN taken[e] /\ taken'[e][l] = taken[e][l]
      <3>1. taken[e][l] < h /\ taken[e][l] \in Nat
        BY <1>6, <2>3
      <3>2. taken[e][l] = h
        BY <1>11, <2>3
      <3> QED BY <1>2, <3>1, <3>2
    <2> QED BY <1>5, <1>11, <2>1, <2>2, <2>3
  <1>12. \A m \in 1..sent' : content'[m] <= sets'
    BY <1>1 DEF Waiting
  <1>13. Waiting'
    BY <1>7, <1>8, <1>9, <1>10, <1>11, <1>12 DEF Waiting
  <1>14. ASSUME NEW w, By(w) PROVE By(w)'
    <2>1. ASSUME NEW m \in 1..sent, NEW d \in Consumers, w[m] = <<d, lives>>,
                 NEW k \in DOMAIN taken'[d]
          PROVE  content[m] < taken'[d][k]
      <3>1. CASE k \in DOMAIN taken[d] /\ taken'[d][k] = taken[d][k]
        BY <1>14, <2>1, <3>1 DEF By
      <3>2. CASE taken'[d][k] = h
        <4>1. w[m][2] = lives
          BY <2>1
        <4> QED BY <1>2, <1>14, <3>2, <4>1 DEF By
      <3> QED BY <1>5, <2>1, <3>1, <3>2
    <2>2. ASSUME NEW m \in 1..sent, w[m][2] = lives, NEW j \in DOMAIN queue'
          PROVE  content[m] < queue'[j]
      BY <1>2, <1>14, <2>2 DEF By
    <2> QED BY <1>1, <1>14, <2>1, <2>2 DEF By
  <1> QED BY <1>13, <1>14

(* A consumer is through with its first set.                               *)
LEMMA DropWaiting ==
    ASSUME RouteTypes, Waiting, NEW c \in Consumers, taken[c] # <<>>,
           taken' = [taken EXCEPT ![c] = Tail(@)], UNCHANGED <<sets, queue>>
    PROVE  /\ Waiting' <=> \A n \in 1..sent' : content'[n] <= sets
           /\ \A d \in Consumers : \A k \in DOMAIN taken'[d] :
                 IF d = c THEN k + 1 \in DOMAIN taken[c] /\ 1 < k + 1 /\ k \in Nat
                                 /\ taken'[c][k] = taken[c][k + 1]
                          ELSE k \in DOMAIN taken[d] /\ taken'[d][k] = taken[d][k]
           /\ 1 \in DOMAIN taken[c] /\ Head(taken[c]) = taken[c][1]
  <1>1. taken'[c] = Tail(taken[c]) /\ \A d \in Consumers : d # c => taken'[d] = taken[d]
    BY DEF RouteTypes
  <1>2. /\ 1 \in DOMAIN taken[c] /\ Head(taken[c]) = taken[c][1]
        /\ \A k \in DOMAIN taken'[c] : k \in Nat /\ k + 1 \in DOMAIN taken[c] /\ 1 < k + 1
                                         /\ taken'[c][k] = taken[c][k + 1]
    <2>1. taken[c] \in Seq(Nat)
      BY WaitingTypes
    <2>2. /\ 1 \in DOMAIN taken[c] /\ Head(taken[c]) = taken[c][1]
          /\ \A k \in DOMAIN Tail(taken[c]) : k \in Nat /\ k + 1 \in DOMAIN taken[c] /\ 1 < k + 1
                                               /\ Tail(taken[c])[k] = taken[c][k + 1]
      BY <2>1, TailOf
    <2> QED BY <1>1, <2>2
  <1>3. ASSUME NEW d \in Consumers PROVE Increasing(taken[d])'
    <2>1. CASE d = c
      <3>1. \A i, j \in DOMAIN taken[c] : i < j => taken[c][i] < taken[c][j]
        BY DEF Waiting, Increasing
      <3>2. \A i, j \in DOMAIN taken'[c] : i < j => taken'[c][i] < taken'[c][j]
        BY <1>2, <3>1
      <3> QED BY <2>1, <3>2 DEF Increasing
    <2>2. CASE d # c
      BY <1>1, <2>2 DEF Waiting, Increasing
    <2> QED BY <2>1, <2>2
  <1>4. ASSUME NEW d \in Consumers, NEW k \in DOMAIN taken'[d]
        PROVE  taken'[d][k] <= sets' /\ \A j \in DOMAIN queue' : taken'[d][k] < queue'[j]
    <2>1. CASE d = c
      BY <1>2, <1>4, <2>1 DEF Waiting
    <2>2. CASE d # c
      BY <1>1, <1>4, <2>2 DEF Waiting
    <2> QED BY <2>1, <2>2
  <1>5. ASSUME NEW d \in Consumers, NEW e \in Consumers,
               NEW k \in DOMAIN taken'[d], NEW l \in DOMAIN taken'[e],
               taken'[d][k] = taken'[e][l]
        PROVE  d = e /\ k = l
    <2>1. CASE d = c /\ e = c
      <3>1. k + 1 = l + 1 /\ k \in Nat /\ l \in Nat
        BY <1>2, <1>5, <2>1 DEF Waiting
      <3> QED BY <2>1, <3>1
    <2>2. CASE d = c /\ e # c
      BY <1>1, <1>2, <1>5, <2>2 DEF Waiting
    <2>3. CASE d # c /\ e = c
      BY <1>1, <1>2, <1>5, <2>3 DEF Waiting
    <2>4. CASE d # c /\ e # c
      BY <1>1, <1>5, <2>4 DEF Waiting
    <2> QED BY <2>1, <2>2, <2>3, <2>4
  <1>6. Increasing(queue)' /\ \A j \in DOMAIN queue' : queue'[j] <= sets'
    BY DEF Waiting, Increasing
  <1>7. Waiting' <=> \A n \in 1..sent' : content'[n] <= sets
    BY <1>3, <1>4, <1>5, <1>6 DEF Waiting
  <1> QED BY <1>1, <1>2, <1>7

(* A set that consumer c passes on is its next one.                        *)
LEMMA PassOnLine ==
    ASSUME RouteTypes, Waiting, NEW c \in Consumers, PassOn(c), NEW w, By(w)
    PROVE  Waiting' /\ \E v : By(v)'
  <1> DEFINE h == Head(taken[c])
  <1>1. /\ taken[c] # <<>> /\ taken' = [taken EXCEPT ![c] = Tail(@)]
        /\ sent' = sent + 1 /\ content' = Append(content, h)
        /\ UNCHANGED <<sets, queue, lives>>
    BY DEF PassOn, Send
  <1>2. /\ \A d \in Consumers : \A k \in DOMAIN taken'[d] :
                 IF d = c THEN k + 1 \in DOMAIN taken[c] /\ 1 < k + 1 /\ k \in Nat
                                 /\ taken'[c][k] = taken[c][k + 1]
                          ELSE k \in DOMAIN taken[d] /\ taken'[d][k] = taken[d][k]
        /\ 1 \in DOMAIN taken[c] /\ h = taken[c][1]
        /\ Waiting' <=> \A n \in 1..sent' : content'[n] <= sets
    BY <1>1, DropWaiting
  <1>3. h \in Nat /\ h <= sets /\ \A j \in DOMAIN queue : h < queue[j]
    BY <1>2, WaitingTypes DEF Waiting
  <1> HIDE DEF h
  <1>4. \A n \in 1..(sent + 1) : content'[n] = IF n = sent + 1 THEN h ELSE content[n]
    BY <1>1, <1>3, WaitingTypes, AppendElements
  <1>5. sent \in Nat /\ \A n \in 1..(sent + 1) : n # sent + 1 => n \in 1..sent
    BY WaitingTypes
  <1>6. Waiting'
    BY <1>1, <1>2, <1>3, <1>4, <1>5 DEF Waiting
  <1>v. PICK v : v = [n \in 1..(sent + 1) |-> IF n = sent + 1 THEN <<c, lives>> ELSE w[n]]
    OBVIOUS
  <1>7. \A n \in 1..(sent + 1) : v[n] = IF n = sent + 1 THEN <<c, lives>> ELSE w[n]
    BY <1>v
  <1>8. v \in [1..(sent + 1) -> Consumers \X (1..lives)]
    <2>1. <<c, lives>> \in Consumers \X (1..lives)
      BY WaitingTypes
    <2>2. \A n \in 1..sent : w[n] \in Consumers \X (1..lives)
      BY DEF By
    <2> QED BY <1>v, <1>5, <2>1, <2>2
  <1>9. ASSUME NEW m \in 1..(sent + 1), NEW n \in 1..(sent + 1), m < n, v[m] = v[n]
        PROVE  content'[m] < content'[n]
    <2>1. m # sent + 1 /\ m \in 1..sent
      BY <1>5, <1>9
    <2>2. CASE n = sent + 1
      <3>1. w[m] = <<c, lives>>
        BY <1>7, <1>9, <2>1, <2>2
      <3>2. content[m] < taken[c][1]
        BY <1>2, <2>1, <3>1 DEF By
      <3> QED BY <1>2, <1>4, <2>1, <2>2, <3>2
    <2>3. CASE n # sent + 1
      <3>1. n \in 1..sent /\ w[m] = w[n]
        BY <1>5, <1>7, <1>9, <2>1, <2>3
      <3>2. content[m] < content[n]
        BY <1>9, <2>1, <3>1 DEF By
      <3> QED BY <1>4, <2>1, <2>3, <3>2
    <2> QED BY <2>2, <2>3
  <1>10. ASSUME NEW n \in 1..(sent + 1), NEW d \in Consumers, v[n] = <<d, lives>>,
                NEW k \in DOMAIN taken'[d]
         PROVE  content'[n] < taken'[d][k]
    <2>1. CASE n = sent + 1
      <3>1. d = c
        BY <1>7, <1>10, <2>1
      <3>2. k + 1 \in DOMAIN taken[c] /\ 1 < k + 1 /\ taken'[c][k] = taken[c][k + 1]
        BY <1>2, <1>10, <3>1
      <3>3. taken[c][1] < taken[c][k + 1]
        BY <1>2, <3>2 DEF Waiting, Increasing
      <3> QED BY <1>2, <1>4, <2>1, <3>1, <3>2, <3>3
    <2>2. CASE n # sent + 1
      <3>1. n \in 1..sent /\ w[n] = <<d, lives>> /\ content'[n] = content[n]
        BY <1>4, <1>5, <1>7, <1>10, <2>2
      <3>2. \A i \in DOMAIN taken[d] : content[n] < taken[d][i]
        BY <3>1 DEF By
      <3> QED BY <1>2, <1>10, <3>1, <3>2
    <2> QED BY <2>1, <2>2
  <1>11. ASSUME NEW n \in 1..(sent + 1), v[n][2] = lives, NEW j \in DOMAIN queue
         PROVE  content'[n] < queue[j]
    <2>1. CASE n = sent + 1
      BY <1>3, <1>4, <2>1
    <2>2. CASE n # sent + 1
      <3>1. n \in 1..sent /\ w[n][2] = lives /\ content'[n] = content[n]
        BY <1>4, <1>5, <1>7, <1>11, <2>2
      <3> QED BY <3>1 DEF By
    <2> QED BY <2>1, <2>2
  <1>12. By(v)'
    BY <1>1, <1>8, <1>9, <1>10, <1>11 DEF By
  <1> QED BY <1>6, <1>12

LEMMA PassOnFailsLine ==
    ASSUME RouteTypes, Waiting, NEW c \in Consumers, PassOnFails(c)
    PROVE  Waiting' /\ \A w : By(w) => By(w)'
  <1>1. /\ taken[c] # <<>> /\ taken' = [taken EXCEPT ![c] = Tail(@)]
        /\ UNCHANGED <<sets, queue, lives, content, sent>>
    BY DEF PassOnFails, vars
  <1>2. /\ \A d \in Consumers : \A k \in DOMAIN taken'[d] :
                 IF d = c THEN k + 1 \in DOMAIN taken[c] /\ 1 < k + 1 /\ k \in Nat
                                 /\ taken'[c][k] = taken[c][k + 1]
                          ELSE k \in DOMAIN taken[d] /\ taken'[d][k] = taken[d][k]
        /\ Waiting' <=> \A n \in 1..sent' : content'[n] <= sets
    BY <1>1, DropWaiting
  <1>3. Waiting'
    BY <1>1, <1>2 DEF Waiting
  <1>4. ASSUME NEW w, By(w) PROVE By(w)'
    <2>1. ASSUME NEW n \in 1..sent, NEW d \in Consumers, w[n] = <<d, lives>>,
                 NEW k \in DOMAIN taken'[d]
          PROVE  content[n] < taken'[d][k]
      <3>1. \A i \in DOMAIN taken[d] : content[n] < taken[d][i]
        BY <1>4, <2>1 DEF By
      <3> QED BY <1>2, <2>1, <3>1
    <2> QED BY <1>1, <1>4, <2>1 DEF By
  <1> QED BY <1>3, <1>4

LEMMA BrokerLine ==
    ASSUME RouteTypes, Waiting, BrokerRestarts
    PROVE  Waiting' /\ \A w : By(w) => By(w)'
  <1>1. queue' = <<>> /\ UNCHANGED <<sets, lives, content, sent>>
    BY DEF BrokerRestarts, vars
  <1>2. \A c \in Consumers : \A k \in DOMAIN taken'[c] :
           k \in DOMAIN taken[c] /\ taken'[c][k] = taken[c][k]
    BY BrokerKeeps
  <1>3. Increasing(queue)' /\ \A j \in DOMAIN queue' : FALSE
    BY <1>1 DEF Increasing
  <1>4. ASSUME NEW c \in Consumers PROVE Increasing(taken[c])'
    <2>1. \A i, j \in DOMAIN taken[c] : i < j => taken[c][i] < taken[c][j]
      BY DEF Waiting, Increasing
    <2>2. \A i, j \in DOMAIN taken'[c] : i < j => taken'[c][i] < taken'[c][j]
      BY <1>2, <2>1
    <2> QED BY <2>2 DEF Increasing
  <1>5. \A c \in Consumers : \A k \in DOMAIN taken'[c] : taken'[c][k] <= sets'
    BY <1>1, <1>2 DEF Waiting
  <1>6. \A c, d \in Consumers : \A k \in DOMAIN taken'[c], l \in DOMAIN taken'[d] :
           taken'[c][k] = taken'[d][l] => c = d /\ k = l
    BY <1>2 DEF Waiting
  <1>7. Waiting'
    BY <1>1, <1>3, <1>4, <1>5, <1>6 DEF Waiting
  <1>8. ASSUME NEW w, By(w) PROVE By(w)'
    <2>1. \A n \in 1..sent : \A c \in Consumers : w[n] = <<c, lives>> =>
             \A k \in DOMAIN taken'[c] : content[n] < taken'[c][k]
      BY <1>2, <1>8 DEF By
    <2> QED BY <1>1, <1>3, <1>8, <2>1 DEF By
  <1> QED BY <1>7, <1>8

(* The receiver's restart: what was prefetched is in order again, in front *)
(* of the queue, and nobody has passed anything on in the new life.        *)
LEMMA ReceiverLine ==
    ASSUME RouteTypes, Waiting, ReceiverRestarts
    PROVE  Waiting' /\ \A w : By(w) => By(w)'
  <1>1. /\ lives' = lives + 1 /\ taken' = [c \in Consumers |-> <<>>]
        /\ UNCHANGED <<sets, content, sent>>
    BY Zenon DEF ReceiverRestarts
  <1>2. PICK n \in Nat : \E o \in [1..n -> Prefetched] : \E b \in Seq(Sets) :
              /\ Len(b) = n /\ queue' = b \o queue
              /\ \A k \in 1..n : b[k] = taken[o[k][1]][o[k][2]]
              /\ \A k, l \in 1..n : k # l => o[k] # o[l]
              /\ \A k, l \in 1..n : k < l => b[k] <= b[l]
    BY RestartQueue, Zenon
  <1>3. PICK order \in [1..n -> Prefetched], back \in Seq(Sets) :
              /\ Len(back) = n /\ queue' = back \o queue
              /\ \A k \in 1..n : back[k] = taken[order[k][1]][order[k][2]]
              /\ \A k, l \in 1..n : k # l => order[k] # order[l]
              /\ \A k, l \in 1..n : k < l => back[k] <= back[l]
    BY <1>2, Zenon
  <1>4. \A p \in Prefetched : /\ p = <<p[1], p[2]>> /\ p[1] \in Consumers
                              /\ p[2] \in DOMAIN taken[p[1]]
    <2>1. \A c \in Consumers : DOMAIN taken[c] = 1..Len(taken[c])
      BY WaitingTypes
    <2> QED BY <2>1 DEF Prefetched
  <1>5. ASSUME NEW k \in 1..n
        PROVE  back[k] \in Nat /\ back[k] <= sets /\ \A j \in DOMAIN queue : back[k] < queue[j]
    <2>1. order[k] \in Prefetched
      BY <1>3
    <2>2. order[k][1] \in Consumers /\ order[k][2] \in DOMAIN taken[order[k][1]]
          /\ back[k] = taken[order[k][1]][order[k][2]]
      BY <1>3, <1>4, <2>1
    <2> QED BY <2>2, WaitingTypes DEF Waiting
  <1>6. ASSUME NEW k \in 1..n, NEW l \in 1..n, k < l PROVE back[k] < back[l]
    <2>1. order[k] \in Prefetched /\ order[l] \in Prefetched /\ order[k] # order[l]
      BY <1>3, <1>6
    <2>2. back[k] # back[l]
      <3>1. order[k][1] # order[l][1] \/ order[k][2] # order[l][2]
        BY <1>4, <2>1
      <3>2. /\ order[k][1] \in Consumers /\ order[k][2] \in DOMAIN taken[order[k][1]]
            /\ order[l][1] \in Consumers /\ order[l][2] \in DOMAIN taken[order[l][1]]
        BY <1>4, <2>1
      <3>3. back[k] = taken[order[k][1]][order[k][2]] /\ back[l] = taken[order[l][1]][order[l][2]]
        BY <1>3
      <3>4. PICK c, d, i, j : /\ c = order[k][1] /\ i = order[k][2]
                              /\ d = order[l][1] /\ j = order[l][2]
        OBVIOUS
      <3>5. c \in Consumers /\ i \in DOMAIN taken[c] /\ d \in Consumers /\ j \in DOMAIN taken[d]
            /\ (c # d \/ i # j) /\ back[k] = taken[c][i] /\ back[l] = taken[d][j]
        BY <3>1, <3>2, <3>3, <3>4, Zenon
      <3>6. taken[c][i] # taken[d][j]
        <4>1. \A e, f \in Consumers : \A m \in DOMAIN taken[e], n1 \in DOMAIN taken[f] :
                 taken[e][m] = taken[f][n1] => e = f /\ m = n1
          BY DEF Waiting
        <4> QED BY <3>5, <4>1
      <3> QED BY <3>5, <3>6, Zenon
    <2>3. back[k] <= back[l] /\ back[k] \in Nat /\ back[l] \in Nat
      BY <1>3, <1>5, <1>6
    <2> QED BY <2>2, <2>3
  <1>7. /\ DOMAIN queue = 1..Len(queue) /\ DOMAIN queue' = 1..(n + Len(queue)) /\ Len(queue) \in Nat
        /\ \A k \in 1..n : queue'[k] = back[k]
        /\ \A k \in (n + 1)..(n + Len(queue)) : queue'[k] = queue[k - n]
    <2>1. back \in Seq(Sets) /\ queue \in Seq(Sets) /\ queue' = back \o queue /\ Len(back) = n
      BY <1>3 DEF RouteTypes
    <2>2. /\ Len(queue) \in Nat /\ DOMAIN queue = 1..Len(queue)
          /\ DOMAIN (back \o queue) = 1..(Len(back) + Len(queue))
          /\ \A k \in 1..Len(back) : (back \o queue)[k] = back[k]
          /\ \A k \in (Len(back) + 1)..(Len(back) + Len(queue)) :
                (back \o queue)[k] = queue[k - Len(back)]
      <3> HIDE <1>3
      <3>1. back \in Seq(Sets) /\ queue \in Seq(Sets)
        BY <2>1
      <3> QED BY <3>1, ConcatElements
    <2> QED BY <2>1, <2>2, Zenon
  <1>8. ASSUME NEW k \in DOMAIN queue'
        PROVE  /\ k \in Nat
               /\ \/ k \in 1..n /\ queue'[k] = back[k]
                  \/ k > n /\ k - n \in DOMAIN queue /\ queue'[k] = queue[k - n]
    <2>1. n \in Nat /\ k \in 1..(n + Len(queue)) /\ Len(queue) \in Nat
      BY <1>7, <1>8
    <2>2. CASE k <= n
      BY <1>7, <2>1, <2>2
    <2>3. CASE k > n
      <3>1. k \in (n + 1)..(n + Len(queue)) /\ k - n \in 1..Len(queue)
        BY <2>1, <2>3
      <3> QED BY <1>7, <2>3, <3>1
    <2> QED BY <2>1, <2>2, <2>3
  <1>9. \A j \in DOMAIN queue' : queue'[j] <= sets'
    BY <1>1, <1>5, <1>8 DEF Waiting
  <1>10. ASSUME NEW i \in DOMAIN queue', NEW j \in DOMAIN queue', i < j
         PROVE  queue'[i] < queue'[j]
    <2>1. CASE i \in 1..n /\ j \in 1..n
      BY <1>6, <1>7, <1>10, <2>1
    <2>2. CASE i \in 1..n /\ j > n /\ j - n \in DOMAIN queue /\ queue'[j] = queue[j - n]
      BY <1>5, <1>7, <2>2
    <2>3. CASE i > n /\ j > n
      <3>1. i - n \in DOMAIN queue /\ j - n \in DOMAIN queue /\ i - n < j - n
            /\ queue'[i] = queue[i - n] /\ queue'[j] = queue[j - n]
        BY <1>8, <1>10, <2>3
      <3> QED BY <3>1 DEF Waiting, Increasing
    <2> QED BY <1>8, <1>10, <2>1, <2>2, <2>3
  <1>11. \A c \in Consumers : taken'[c] = <<>>
    BY <1>1
  <1>12. Waiting'
    <2>1. Increasing(queue)'
      BY <1>10 DEF Increasing
    <2> QED BY <1>1, <1>9, <1>11, <2>1 DEF Waiting, Increasing
  <1>13. ASSUME NEW w, By(w) PROVE By(w)'
    <2>1. \A m \in 1..sent : w[m] \in Consumers \X (1..lives)
      BY <1>13 DEF By
    <2>2. lives \in Nat
      BY WaitingTypes
    <2>3. \A m \in 1..sent : w[m] \in Consumers \X (1..(lives + 1)) /\ w[m][2] # lives + 1
      BY <2>1, <2>2
    <2>4. w \in [1..sent -> Consumers \X (1..(lives + 1))]
      BY <1>13, <2>3 DEF By
    <2>5. \A m \in 1..sent : \A c : w[m] # <<c, lives + 1>>
      BY <2>3
    <2> QED BY <1>1, <1>13, <2>3, <2>4, <2>5 DEF By
  <1> QED BY <1>12, <1>13

LEMMA NextLine ==
    OrderInv /\ RouteInv /\ LineInv /\ [PipelineNext]_pipelineVars => LineInv'
  <1> SUFFICES ASSUME OrderInv, RouteInv, LineInv, [PipelineNext]_pipelineVars,
                      received'[activemq] = <<>>
               PROVE  Waiting' /\ \E w : By(w)'
    BY DEF LineInv
  <1>1. received[activemq] = <<>>
    <2>1. CASE received' = received
      BY <2>1
    <2>2. CASE Invoke \/ InvokeThrows
      <3> DEFINE h == Head(todo)
      <3>1. /\ received' = [received EXCEPT ![h] = Append(received[h], message)]
            /\ received \in [WbServices -> Seq(Nat)] /\ message \in Nat
        BY <2>2, SMT DEF OrderInv, MessageTypes, Invoke, InvokeThrows
      <3> HIDE DEF h
      <3>2. CASE h = activemq
        <4>1. received'[activemq] = Append(received[activemq], message)
              /\ received[activemq] \in Seq(Nat)
          BY <3>1, <3>2, PipelineAssumption
        <4>2. DOMAIN received'[activemq] # {}
          BY <3>1, <4>1, AppendElements
        <4> QED BY <4>2
      <3>3. CASE h # activemq
        BY <3>1, <3>3, PipelineAssumption
      <3> QED BY <3>2, <3>3
    <2>3. CASE ReceiverRestarts
      <3>1. received' = received
        BY <2>3, Zenon DEF ReceiverRestarts
      <3> QED BY <3>1
    <2> QED BY <2>1, <2>2, <2>3, WhiteboardCases
            DEF vars, Send, Enter, Iterate, Finish, Register, Unregister
  <1>2. Waiting /\ RouteTypes
    BY <1>1 DEF LineInv, RouteInv
  <1>3. PICK w : By(w)
    BY <1>1 DEF LineInv
  <1>4. CASE Dispatch
    BY <1>2, <1>3, <1>4, DispatchLine
  <1>5. CASE BrokerRestarts
    BY <1>2, <1>3, <1>5, BrokerLine
  <1>6. CASE ReceiverRestarts
    BY <1>2, <1>3, <1>6, ReceiverLine
  <1>7. ASSUME NEW c \in Consumers, ConsumerStep(c) PROVE Waiting' /\ \E v : By(v)'
    <2>1. CASE Take(c)
      BY <1>2, <1>3, <2>1, TakeLine
    <2>2. CASE PassOn(c)
      BY <1>2, <1>3, <2>2, PassOnLine
    <2>3. CASE PassOnFails(c)
      BY <1>2, <1>3, <2>3, PassOnFailsLine
    <2> QED BY <1>7, <2>1, <2>2, <2>3 DEF ConsumerStep
  <1>8. ASSUME UNCHANGED <<sets, queue, taken, lives, content, sent>>
        PROVE  Waiting' /\ \E v : By(v)'
    <2>1. Waiting'
      BY <1>2, <1>8 DEF Waiting, Increasing
    <2>2. By(w)'
      BY <1>3, <1>8 DEF By
    <2> QED BY <2>1, <2>2
  <1>9. CASE Forward
    <2>1. pc = "invoking" /\ todo # <<>> /\ Head(todo) = activemq
          /\ received' = [received EXCEPT ![activemq] = Append(@, message)]
      BY <1>9 DEF Forward, Invoke
    <2>2. received'[activemq] = Append(received[activemq], message)
          /\ received[activemq] \in Seq(Nat) /\ message \in Nat
      BY <2>1, PipelineAssumption DEF OrderInv, MessageTypes
    <2>3. DOMAIN received'[activemq] # {}
      BY <2>2, AppendElements
    <2> QED BY <2>3
  <1>10. CASE WhiteboardEnter \/ WhiteboardIterate \/ Store \/ StoreThrows \/ WhiteboardFinish
              \/ Services \/ UNCHANGED pipelineVars
    BY <1>8, <1>10 DEF WhiteboardEnter, WhiteboardIterate, Store, StoreThrows, WhiteboardFinish,
       Services, Enter, Iterate, Invoke, InvokeThrows, Finish, Register, Unregister,
       pipelineVars, routeVars, vars
  <1> QED BY <1>4, <1>5, <1>6, <1>7, <1>9, <1>10 DEF PipelineNext, WhiteboardStep

LEMMA LineHolds == PipelineSpec => []LineInv
  <1>1. PipelineInit => LineInv
    <2> SUFFICES ASSUME PipelineInit PROVE Waiting /\ \E w : By(w)
      BY DEF LineInv
    <2>1. /\ queue = <<>> /\ sent = 0 /\ taken = [c \in Consumers |-> <<>>]
      BY DEF PipelineInit, Init
    <2>2. Waiting
      BY <2>1 DEF Waiting, Increasing
    <2>3. PICK w : w = [n \in 1..0 |-> <<>>]
      OBVIOUS
    <2>4. By(w)
      BY <2>1, <2>3 DEF By
    <2> QED BY <2>2, <2>4
  <1> QED BY <1>1, NextLine, OrderHolds, RouteHolds, PTL DEF PipelineSpec

(* As long as nothing is sent again, the sets that a repository stores in  *)
(* descending order are at most as many as there are consumers in all the  *)
(* lives of the receiver: two of them come from different consumers, or    *)
(* from different lives.                                                   *)
THEOREM FewOutOfOrderHolds == PipelineSpec => []FewOutOfOrder
  <1>1. OrderInv /\ RouteInv /\ LineInv => FewOutOfOrder
    <2> SUFFICES ASSUME OrderInv, RouteInv, LineInv, received[activemq] = <<>>,
                        NEW r \in Repositories, NEW D \in SUBSET DOMAIN SetsOf(r),
                        \A i, j \in D : i < j => SetsOf(r)[i] > SetsOf(r)[j]
                 PROVE  Cardinality(D) <= lives * Cardinality(Consumers)
      BY DEF FewOutOfOrder
    <2>1. PICK w : By(w)
      BY DEF LineInv
    <2>2. r \in WbServices
      BY DEF Repositories
    <2>3. /\ DOMAIN SetsOf(r) = DOMAIN received[r]
          /\ \A k \in DOMAIN received[r] :
                received[r][k] \in 1..sent /\ SetsOf(r)[k] = content[received[r][k]]
      BY <2>2, SetsOfType
    <2> DEFINE P == Consumers \X (1..lives)
               f == [i \in D |-> w[received[r][i]]]
    <2>4. Increasing(received[r]) /\ DOMAIN received[r] \subseteq Nat
          /\ sent \in Nat /\ lives \in Nat /\ \A n \in 1..sent : content[n] \in Nat
      <3>1. RouteTypes
        BY DEF RouteInv
      <3>2. sent \in Nat /\ lives \in Nat /\ \A n \in 1..sent : content[n] \in Nat
        BY <3>1, WaitingTypes
      <3>3. Increasing(received[r]) /\ received[r] \in Seq(Nat)
        BY <2>2 DEF OrderInv, MessageTypes, ReceivedInOrder
      <3> QED BY <3>2, <3>3
    <2>5. \A i \in D : received[r][i] \in 1..sent /\ i \in Nat
      BY <2>3, <2>4
    <2>6. f \in [D -> P]
      BY <2>1, <2>5 DEF By
    <2>7. ASSUME NEW i \in D, NEW j \in D, i < j PROVE f[i] # f[j]
      <3>1. received[r][i] < received[r][j]
        BY <2>3, <2>4, <2>7 DEF Increasing
      <3>2. content[received[r][i]] > content[received[r][j]]
        BY <2>3, <2>7
      <3>3. received[r][i] \in 1..sent /\ received[r][j] \in 1..sent
            /\ content[received[r][i]] \in Nat /\ content[received[r][j]] \in Nat
        BY <2>4, <2>5
      <3>4. ASSUME w[received[r][i]] = w[received[r][j]] PROVE FALSE
        <4>1. content[received[r][i]] < content[received[r][j]]
          BY <2>1, <3>1, <3>3, <3>4 DEF By
        <4> QED BY <3>2, <3>3, <4>1
      <3> QED BY <3>4
    <2>8. \A i, j \in D : f[i] = f[j] => i = j
      BY <2>5, <2>7
    <2>9. IsFiniteSet(P) /\ Cardinality(P) = Cardinality(Consumers) * lives
      <3>1. IsFiniteSet(1..lives) /\ Cardinality(1..lives) = lives
        <4>1. 1 \in Int /\ lives \in Int /\ lives >= 1
          BY WaitingTypes DEF RouteInv
        <4> QED BY <4>1, FS_Interval
      <3> QED BY <3>1, FS_Product, PipelineAssumption
    <2> HIDE DEF P, f
    <2>10. Cardinality(D) <= Cardinality(P)
      <3>1. f \in Injection(D, P)
        BY <2>6, <2>8, Fun_IsInj
      <3> QED BY <2>9, <3>1, FS_Injection
    <2>11. Cardinality(Consumers) * lives = lives * Cardinality(Consumers)
      BY <2>4, FS_CardinalityType, PipelineAssumption
    <2> QED BY <2>9, <2>10, <2>11
  <1> QED BY <1>1, OrderHolds, RouteHolds, LineHolds, PTL

-----------------------------------------------------------------------------
(* The abstract delivery, step by step. *)

(* What happens to the copies of x for r in a step that neither sends nor  *)
(* stores: they go on, or are lost; so in a step that stores, but for P.   *)
OnlyLost(r, x, P) ==
    /\ UnderWay(r, x)' => UnderWay(r, x)
    /\ UnderWay(r, x) => UnderWay(r, x)' \/ <<r, x>> \in lost' \/ <<r, x>> \in P
    /\ <<r, x>> \in lost => <<r, x>> \in lost'
    /\ <<r, x>> \in lost' => <<r, x>> \in lost \/ UnderWay(r, x)

LEMMA LeavesStep ==
    ASSUME RouteInv, RouteInv', NEW P,
           \A r \in Repositories, x \in Sets : OnlyLost(r, x, P)
    PROVE  Way!Leaves(P)
  <1>1. lost \subseteq Repositories \X Sets /\ lost' \subseteq Repositories \X Sets
    BY DEF RouteInv, RouteTypes
  <1>2. \A p \in Repositories \X Sets : p[1] \in Repositories /\ p[2] \in Sets /\ p = <<p[1], p[2]>>
    OBVIOUS
  <1>3. \A p \in Repositories \X Sets : /\ p \in Open <=> UnderWay(p[1], p[2])
                                        /\ p \in Open' <=> UnderWay(p[1], p[2])'
    BY DEF Open
  <1>4. Open \subseteq Repositories \X Sets /\ Open' \subseteq Repositories \X Sets
    BY DEF Open
  <1>5. \A p \in Repositories \X Sets :
           /\ p \in Open' => p \in Open
           /\ p \in Open => p \in Open' \/ p \in lost' \/ p \in P
           /\ p \in lost => p \in lost'
           /\ p \in lost' => p \in lost \/ p \in Open
    <2> TAKE p \in Repositories \X Sets
    <2>1. OnlyLost(p[1], p[2], P) /\ p = <<p[1], p[2]>>
      BY <1>2
    <2> QED BY <1>3, <2>1 DEF OnlyLost
  <1>6. /\ Open' \subseteq Open /\ Open \ Open' \subseteq P \cup lost'
        /\ lost \subseteq lost' /\ lost' \subseteq lost \cup Open
    BY <1>1, <1>4, <1>5
  <1> QED BY <1>6 DEF Way!Leaves

(* What a repository was given stays.                                      *)
LEMMA StoredStays ==
    ASSUME OrderInv, RouteInv, UNCHANGED received,
           UNCHANGED content \/ \E s \in Sets : content' = Append(content, s)
    PROVE  UNCHANGED Stored
  <1>1. \A n \in 1..sent : content'[n] = content[n]
    <2>1. content \in Seq(Sets) /\ Len(content) = sent
      BY DEF RouteInv, RouteTypes
    <2>2. ASSUME NEW s \in Sets, content' = Append(content, s)
          PROVE  \A n \in 1..sent : content'[n] = content[n]
      BY <2>1, <2>2, AppendElements
    <2> QED BY <2>2
  <1>2. ASSUME NEW r \in Repositories PROVE SetsOf(r)' = SetsOf(r)
    <2>1. \A k \in DOMAIN received[r] : received[r][k] \in 1..sent
      BY SetsOfType DEF Repositories
    <2> QED BY <1>1, <2>1 DEF SetsOf
  <1> QED BY <1>2 DEF Stored

(* A step in which sets may be lost, and nothing is sent or stored.        *)
LEMMA DropStep ==
    ASSUME OrderInv, RouteInv, RouteInv', UNCHANGED <<sets, received>>,
           UNCHANGED content \/ \E s \in Sets : content' = Append(content, s),
           \A r \in Repositories, x \in Sets : OnlyLost(r, x, {})
    PROVE  Way!Drop
  BY LeavesStep, StoredStays DEF Way!Drop

LEMMA LoseLoses ==
    ASSUME NEW S, NEW X, Lose(S, X), NEW r, NEW x
    PROVE  <<r, x>> \in lost' <=> <<r, x>> \in lost \/ (r \in S /\ x \in X)
  BY DEF Lose

(* A new set is submitted.                                                 *)
LEMMA DispatchStep ==
    ASSUME OrderInv, RouteInv, Dispatch
    PROVE  Way!Submit
  <1>1. /\ sets' = sets + 1 /\ sets + 1 \in Sets /\ queue \in Seq(Sets)
        /\ UNCHANGED <<vars, taken, lives, content>>
    BY PipelineAssumption DEF RouteInv, RouteTypes, Dispatch, Sets
  <1>2. UNCHANGED <<received, endpoint, pc, message, todo>>
    BY <1>1 DEF vars
  <1>3. UNCHANGED Stored
    BY <1>1, <1>2, StoredStays
  <1> DEFINE new == Repositories \X {sets + 1}
  <1>4. CASE queue' = Append(queue, sets + 1) /\ UNCHANGED lost
    <2>1. \A x : Contains(queue', x) <=> Contains(queue, x) \/ x = sets + 1
      BY <1>1, <1>4, ContainsAppend
    <2>2. \A r, x : UnderWay(r, x)' <=> UnderWay(r, x) \/ x = sets + 1
      BY <1>1, <1>2, <2>1 DEF UnderWay
    <2>3. Open' = Open \cup new
      BY <1>1, <2>2 DEF Open
    <2> QED BY <1>1, <1>3, <1>4, <2>3 DEF Way!Submit
  <1>5. CASE Lose(Repositories, {sets + 1}) /\ UNCHANGED queue
    <2>1. \A r, x : UnderWay(r, x)' <=> UnderWay(r, x)
      BY <1>1, <1>2, <1>5 DEF UnderWay
    <2>2. UNCHANGED Open
      BY <2>1 DEF Open
    <2>3. lost' = lost \cup new
      BY <1>5 DEF Lose
    <2> QED BY <1>1, <1>3, <2>2, <2>3 DEF Way!Submit
  <1> QED BY <1>4, <1>5 DEF Dispatch

(* Consumers keep what they had, after a restart of the broker...          *)
LEMMA BrokerContains ==
    ASSUME RouteInv, RouteInv', BrokerRestarts, NEW c \in Consumers, NEW x, Contains(taken'[c], x)
    PROVE  Contains(taken[c], x)
  <1>1. taken[c] \in Seq(Sets) /\ taken'[c] \in Seq(Sets)
    BY DEF RouteInv, RouteTypes
  <1>2. PICK k \in DOMAIN taken'[c] : taken'[c][k] = x
    BY <1>1, ContainsDomain
  <1>3. k \in DOMAIN taken[c] /\ taken[c][k] = x
    BY <1>2, BrokerKeeps DEF RouteInv
  <1> QED BY <1>1, <1>3, ContainsDomain

(* ... which loses what it drops.                                          *)
LEMMA BrokerStep ==
    ASSUME OrderInv, RouteInv, RouteInv', BrokerRestarts
    PROVE  Way!Drop
  <1>1. /\ UNCHANGED <<vars, sets, lives, content>> /\ queue' = <<>>
        /\ taken \in [Consumers -> Seq(Sets)] /\ queue \in Seq(Sets)
        /\ taken' \in [Consumers -> Seq(Sets)]
    BY DEF RouteInv, RouteTypes, BrokerRestarts
  <1>2. UNCHANGED <<received, endpoint, pc, message, todo>>
    BY <1>1 DEF vars
  <1> DEFINE D(c) == ToSet(taken[c]) \ ToSet(taken'[c])
             X == ToSet(queue) \cup UNION {D(c) : c \in Consumers}
  <1>3. Lose(Repositories, X)
    BY Zenon DEF BrokerRestarts
  <1>4. \A x : x \in X <=> x \in ToSet(queue) \/ \E c \in Consumers : x \in D(c)
    <2> HIDE DEF D
    <2> QED OBVIOUS
  <1>5. \A x : x \in ToSet(queue) <=> Contains(queue, x)
    BY <1>1, ContainsDomain DEF ToSet
  <1>6. \A c \in Consumers : \A x : /\ x \in ToSet(taken[c]) <=> Contains(taken[c], x)
                                    /\ x \in ToSet(taken'[c]) <=> Contains(taken'[c], x)
    BY <1>1, ContainsDomain DEF ToSet
  <1>7. \A c \in Consumers : \A x : Contains(taken'[c], x) => Contains(taken[c], x)
    BY BrokerContains
  <1>8. \A x : ~Contains(queue', x)
    BY <1>1 DEF Contains
  <1>9. ASSUME NEW r \in Repositories, NEW x \in Sets PROVE OnlyLost(r, x, {})
    <2>1. <<r, x>> \in lost' <=> <<r, x>> \in lost \/ x \in X
      BY <1>3, LoseLoses
    <2> HIDE DEF X
    <2>2. UnderWay(r, x)' => UnderWay(r, x)
      BY <1>1, <1>2, <1>7, <1>8 DEF UnderWay
    <2>3. \A c \in Consumers : Contains(taken[c], x) => Contains(taken'[c], x) \/ x \in X
      BY <1>4, <1>6
    <2>4. UnderWay(r, x) => UnderWay(r, x)' \/ x \in X
      BY <1>1, <1>2, <1>4, <1>5, <2>3 DEF UnderWay
    <2>5. x \in X => UnderWay(r, x)
      BY <1>4, <1>5, <1>6 DEF UnderWay
    <2> QED BY <2>1, <2>2, <2>4, <2>5 DEF OnlyLost
  <1> QED BY <1>1, <1>2, <1>9, DropStep

(* A consumer takes the first set of the queue.                            *)
LEMMA TakeMoves ==
    ASSUME RouteTypes, NEW c \in Consumers, Take(c), NEW x
    PROVE  Contains(queue, x) \/ (\E d \in Consumers : Contains(taken[d], x))
             <=> Contains(queue', x) \/ (\E d \in Consumers : Contains(taken'[d], x))
  <1>1. /\ taken \in [Consumers -> Seq(Sets)] /\ taken[c] \in Seq(Sets) /\ queue \in Seq(Sets)
        /\ queue # <<>> /\ taken' = [taken EXCEPT ![c] = Append(taken[c], Head(queue))]
        /\ queue' = Tail(queue)
    BY DEF RouteTypes, Take
  <1>2. Head(queue) \in Sets /\ Append(taken[c], Head(queue)) \in Seq(Sets)
    BY <1>1, HeadAndTail, AppendType
  <1>3. taken'[c] = Append(taken[c], Head(queue)) /\ \A d \in Consumers : d # c => taken'[d] = taken[d]
    BY <1>1, <1>2, TakenKeeps
  <1>4. Contains(queue, x) <=> x = Head(queue) \/ Contains(queue', x)
    BY <1>1, ContainsTail
  <1>5. Contains(taken'[c], x) <=> Contains(taken[c], x) \/ x = Head(queue)
    BY <1>1, <1>2, <1>3, ContainsAppend
  <1> QED BY <1>3, <1>4, <1>5, Zenon

(* A consumer is through with its first set.                               *)
LEMMA DropFirst ==
    ASSUME RouteTypes, NEW c \in Consumers, taken[c] # <<>>,
           taken' = [taken EXCEPT ![c] = Tail(taken[c])], NEW x
    PROVE  /\ Head(taken[c]) \in Sets
           /\ (\E d \in Consumers : Contains(taken[d], x))
                 <=> x = Head(taken[c]) \/ \E d \in Consumers : Contains(taken'[d], x)
  <1>1. taken \in [Consumers -> Seq(Sets)] /\ taken[c] \in Seq(Sets)
    BY DEF RouteTypes
  <1>2. Head(taken[c]) \in Sets /\ Tail(taken[c]) \in Seq(Sets)
    BY <1>1, HeadAndTail
  <1>3. taken'[c] = Tail(taken[c]) /\ \A d \in Consumers : d # c => taken'[d] = taken[d]
    BY <1>1, <1>2, TakenKeeps
  <1>4. Contains(taken[c], x) <=> x = Head(taken[c]) \/ Contains(taken'[c], x)
    BY <1>1, <1>3, ContainsTail
  <1> QED BY <1>2, <1>3, <1>4, Zenon

LEMMA ConsumerDrops ==
    ASSUME OrderInv, RouteInv, RouteInv', NEW c \in Consumers, ConsumerStep(c)
    PROVE  Way!Drop
  <1>1. /\ taken \in [Consumers -> Seq(Sets)] /\ taken[c] \in Seq(Sets) /\ queue \in Seq(Sets)
        /\ content \in Seq(Sets) /\ Len(content) = sent /\ sent \in Nat /\ RouteTypes
    BY DEF RouteInv, RouteTypes
  <1>2. CASE Take(c)
    <2>1. /\ queue # <<>> /\ taken' = [taken EXCEPT ![c] = Append(taken[c], Head(queue))]
          /\ queue' = Tail(queue)
          /\ UNCHANGED <<received, endpoint, pc, message, todo, content, lost, sets>>
      BY <1>2 DEF Take, vars
    <2>2. \A x : Contains(queue, x) \/ (\E d \in Consumers : Contains(taken[d], x))
                   <=> Contains(queue', x) \/ (\E d \in Consumers : Contains(taken'[d], x))
      BY <1>1, <1>2, TakeMoves
    <2>3. \A r \in Repositories, x \in Sets : OnlyLost(r, x, {})
      BY <2>1, <2>2 DEF OnlyLost, UnderWay
    <2> QED BY <2>1, <2>3, DropStep
  <1>3. CASE PassOn(c)
    <2>1. /\ taken[c] # <<>> /\ taken' = [taken EXCEPT ![c] = Tail(taken[c])]
          /\ content' = Append(content, Head(taken[c]))
          /\ endpoint' = Append(endpoint, sent + 1)
          /\ UNCHANGED <<received, pc, message, todo, queue, lost, sets>>
      BY <1>3 DEF PassOn, Send
    <2>2. Head(taken[c]) \in Sets
      BY <1>1, <2>1, DropFirst
    <2>3. content'[sent + 1] = Head(taken[c]) /\ \A n \in 1..sent : content'[n] = content[n]
      BY <1>1, <2>1, <2>2, AppendElements
    <2>4. endpoint \in Seq(Nat) /\ \A k \in DOMAIN endpoint : endpoint[k] \in 1..sent
      BY MessagesSent DEF OrderInv, MessageTypes
    <2>5. /\ DOMAIN endpoint = 1..Len(endpoint) /\ DOMAIN endpoint' = 1..(Len(endpoint) + 1)
          /\ Len(endpoint) \in Nat
          /\ \A k \in 1..Len(endpoint) : endpoint'[k] = endpoint[k]
          /\ endpoint'[Len(endpoint) + 1] = sent + 1
      <3>1. sent + 1 \in Nat
        BY <1>1
      <3> QED BY <2>1, <2>4, <3>1, AppendElements
    <2>6. ASSUME NEW x
          PROVE  (\E k \in DOMAIN endpoint' : content'[endpoint'[k]] = x)
                   <=> (\E k \in DOMAIN endpoint : content[endpoint[k]] = x) \/ x = Head(taken[c])
      <3>1. ASSUME NEW k \in DOMAIN endpoint'
            PROVE  \/ k \in DOMAIN endpoint /\ content'[endpoint'[k]] = content[endpoint[k]]
                   \/ content'[endpoint'[k]] = Head(taken[c])
        <4>1. k \in 1..Len(endpoint) \/ k = Len(endpoint) + 1
          BY <2>5
        <4> QED BY <2>3, <2>4, <2>5, <4>1
      <3>2. ASSUME NEW k \in DOMAIN endpoint
            PROVE  k \in DOMAIN endpoint' /\ content'[endpoint'[k]] = content[endpoint[k]]
        BY <2>3, <2>4, <2>5
      <3>3. /\ Len(endpoint) + 1 \in DOMAIN endpoint'
            /\ content'[endpoint'[Len(endpoint) + 1]] = Head(taken[c])
        BY <2>3, <2>5
      <3> QED BY <3>1, <3>2, <3>3, Zenon
    <2>7. pc # "idle" => content'[message] = content[message]
      BY <2>3, MessagesSent
    <2>8. \A x : (\E d \in Consumers : Contains(taken[d], x))
                     <=> x = Head(taken[c]) \/ \E d \in Consumers : Contains(taken'[d], x)
      BY <1>1, <2>1, DropFirst
    <2>9. ASSUME NEW r \in Repositories, NEW x \in Sets PROVE UnderWay(r, x)' <=> UnderWay(r, x)
      BY <2>1, <2>6, <2>7, <2>8 DEF UnderWay
    <2>10. \A r \in Repositories, x \in Sets : OnlyLost(r, x, {})
      BY <2>1, <2>9 DEF OnlyLost
    <2> QED BY <2>1, <2>2, <2>10, DropStep
  <1>4. CASE PassOnFails(c)
    <2>1. /\ taken[c] # <<>> /\ taken' = [taken EXCEPT ![c] = Tail(taken[c])]
          /\ Lose(Repositories, {Head(taken[c])})
          /\ UNCHANGED <<received, endpoint, content, pc, message, todo, queue, sets>>
      BY <1>4 DEF PassOnFails, vars
    <2>2. ASSUME NEW r \in Repositories, NEW x \in Sets PROVE OnlyLost(r, x, {})
      <3>1. (\E d \in Consumers : Contains(taken[d], x))
                     <=> x = Head(taken[c]) \/ \E d \in Consumers : Contains(taken'[d], x)
        BY <1>1, <2>1, DropFirst
      <3>2. <<r, x>> \in lost' <=> <<r, x>> \in lost \/ x = Head(taken[c])
        BY <2>1, LoseLoses
      <3> QED BY <2>1, <3>1, <3>2 DEF OnlyLost, UnderWay
    <2> QED BY <2>1, <2>2, DropStep
  <1> QED BY <1>2, <1>3, <1>4 DEF ConsumerStep

(* A restart of the receiver puts back what was prefetched, all of it.     *)
LEMMA RestartReturns ==
    ASSUME RouteTypes, ReceiverRestarts
    PROVE  \A x : Contains(queue', x)
              <=> Contains(queue, x) \/ \E p \in Prefetched : taken[p[1]][p[2]] = x
  <1> DEFINE n == Cardinality(Prefetched)
             Back(o) == [k \in DOMAIN o |-> taken[o[k][1]][o[k][2]]]
  <1>1. /\ IsFiniteSet(Prefetched) /\ n \in Nat /\ queue \in Seq(Sets)
        /\ \A p \in Prefetched : taken[p[1]][p[2]] \in Sets
    BY PrefetchedAreFinite DEF RouteTypes
  <1>2. PICK order \in SetToSeqs(Prefetched) : queue' = Back(order) \o queue
    BY Zenon DEF ReceiverRestarts
  <1>3. order \in [1..n -> Prefetched] /\ \A k, l \in 1..n : k # l => order[k] # order[l]
    BY DEF SetToSeqs
  <1>4. /\ DOMAIN Back(order) = 1..n
        /\ \A k \in 1..n : Back(order)[k] = taken[order[k][1]][order[k][2]]
    BY <1>3
  <1>5. Back(order) \in Seq(Sets)
    <2>1. \A k \in 1..n : order[k] \in Prefetched
      BY <1>3
    <2>2. Back(order) \in [1..n -> Sets]
      BY <1>1, <1>3, <2>1
    <2> QED BY <1>1, <2>2
  <1>6. IsFiniteSet(1..n) /\ Cardinality(1..n) = n
    BY <1>1, FS_Interval
  <1> HIDE DEF n, Back
  <1>7. \A p \in Prefetched : \E k \in 1..n : order[k] = p
    <2> DEFINE D == 1..n
    <2>1. order \in [D -> Prefetched] /\ \A k, l \in D : k # l => order[k] # order[l]
      BY <1>3
    <2>2. IsFiniteSet(D) /\ Cardinality(D) = Cardinality(Prefetched)
      BY <1>6 DEF n
    <2> HIDE DEF D
    <2>3. order \in Injection(D, Prefetched)
      BY <2>1, Fun_IsInj
    <2>4. order \in Surjection(D, Prefetched)
      BY <1>1, <2>2, <2>3, FS_Injection
    <2>5. \A p \in Prefetched : \E k \in D : order[k] = p
      BY <2>4, Fun_SurjectionProperties
    <2> QED BY <2>5 DEF D
  <1>8. \A x : Contains(queue', x) <=> Contains(Back(order), x) \/ Contains(queue, x)
    BY <1>1, <1>2, <1>5, ContainsConcat
  <1>9. ASSUME NEW x
        PROVE  Contains(Back(order), x) <=> \E p \in Prefetched : taken[p[1]][p[2]] = x
    <2>1. Contains(Back(order), x) <=> \E k \in 1..n : taken[order[k][1]][order[k][2]] = x
      <3>1. Contains(Back(order), x) <=> \E k \in DOMAIN Back(order) : Back(order)[k] = x
        BY <1>5, ContainsDomain
      <3> QED BY <1>4, <3>1
    <2>2. \A k \in 1..n : order[k] \in Prefetched
      BY <1>3
    <2> QED BY <1>7, <2>1, <2>2, Zenon
  <1> QED BY <1>8, <1>9

LEMMA PrefetchedTaken ==
    ASSUME RouteTypes, NEW p \in Prefetched
    PROVE  p[1] \in Consumers /\ Contains(taken[p[1]], taken[p[1]][p[2]])
  <1>1. p[1] \in Consumers /\ p[2] \in 2..Len(taken[p[1]])
    BY DEF Prefetched
  <1>2. taken[p[1]] \in Seq(Sets)
    BY <1>1 DEF RouteTypes
  <1>3. p[2] \in DOMAIN taken[p[1]]
    BY <1>1, <1>2
  <1> QED BY <1>1, <1>2, <1>3, ContainsDomain

(* What is being worked on and what waits at the whiteboard is lost.       *)
LEMMA ReceiverStep ==
    ASSUME OrderInv, RouteInv, RouteInv', ReceiverRestarts
    PROVE  Way!Drop
  <1>1. /\ taken \in [Consumers -> Seq(Sets)] /\ UNCHANGED <<received, content, sets>>
        /\ taken' = [c \in Consumers |-> <<>>] /\ endpoint' = <<>> /\ pc' = "idle"
    BY Zenon DEF RouteInv, RouteTypes, ReceiverRestarts
  <1> DEFINE begun == {Head(taken[c]) : c \in Busy}
             waiting == {content[n] : n \in ToSet(endpoint)}
             reached == IF pc = "idle" THEN {} ELSE ToReach \X {content[message]}
  <1>2. lost' = lost \cup (Repositories \X (begun \cup waiting)) \cup reached
    BY Zenon DEF ReceiverRestarts
  <1>3. \A r \in Repositories : \A x :
           <<r, x>> \in lost' <=> <<r, x>> \in lost \/ x \in begun \/ x \in waiting \/ <<r, x>> \in reached
    <2> HIDE DEF begun, waiting, reached
    <2> QED BY <1>2
  <1>4. \A x : x \in waiting <=> \E k \in DOMAIN endpoint : content[endpoint[k]] = x
    <2>1. \A n : n \in ToSet(endpoint) <=> \E k \in DOMAIN endpoint : endpoint[k] = n
      BY DEF ToSet
    <2> QED BY <2>1
  <1>5. \A r \in Repositories : \A x :
           <<r, x>> \in reached <=> \/ pc = "checked" /\ content[message] = x
                                    \/ pc = "invoking" /\ content[message] = x /\ Contains(todo, r)
    <2>1. todo \in Seq(WbServices) /\ pc \in {"idle", "checked", "invoking"}
      BY DEF OrderInv, MessageTypes
    <2>2. \A r : r \in ToSet(todo) <=> Contains(todo, r)
      BY <2>1, ContainsDomain DEF ToSet
    <2> QED BY <2>1, <2>2 DEF ToReach
  <1>6. ASSUME NEW x
        PROVE  (\E c \in Consumers : Contains(taken[c], x))
                 <=> x \in begun \/ \E p \in Prefetched : taken[p[1]][p[2]] = x
    <2>1. ASSUME NEW c \in Consumers, Contains(taken[c], x)
          PROVE  x \in begun \/ \E p \in Prefetched : taken[p[1]][p[2]] = x
      <3>1. taken[c] \in Seq(Sets)
        BY <1>1
      <3>2. PICK k \in DOMAIN taken[c] : taken[c][k] = x
        BY <2>1, <3>1, ContainsDomain
      <3>3. taken[c] # <<>> /\ Head(taken[c]) = taken[c][1] /\ k \in Nat
            /\ (k = 1 \/ k \in 2..Len(taken[c]))
        BY <3>1, <3>2
      <3>4. CASE k = 1
        BY <3>2, <3>3, <3>4 DEF Busy
      <3>5. CASE k \in 2..Len(taken[c])
        <4>1. <<c, k>> \in Prefetched /\ taken[<<c, k>>[1]][<<c, k>>[2]] = x
          BY <3>2, <3>5 DEF Prefetched
        <4> QED BY <4>1
      <3> QED BY <3>3, <3>4, <3>5
    <2>2. ASSUME NEW c \in Busy, x = Head(taken[c])
          PROVE  \E d \in Consumers : Contains(taken[d], x)
      <3>1. taken[c] \in Seq(Sets) /\ taken[c] # <<>> /\ c \in Consumers
        BY <1>1 DEF Busy
      <3> QED BY <2>2, <3>1, ContainsTail
    <2>3. \A p \in Prefetched : taken[p[1]][p[2]] = x => \E d \in Consumers : Contains(taken[d], x)
      BY PrefetchedTaken DEF RouteInv
    <2> QED BY <2>1, <2>2, <2>3
  <1>7. \A x : Contains(queue', x)
              <=> Contains(queue, x) \/ \E p \in Prefetched : taken[p[1]][p[2]] = x
    BY RestartReturns DEF RouteInv
  <1>8. \A c \in Consumers : \A x : ~Contains(taken'[c], x)
    BY <1>1 DEF Contains
  <1> HIDE DEF begun, waiting, reached
  <1>9. \A r \in Repositories, x \in Sets : UnderWay(r, x)' <=> Contains(queue', x)
    BY <1>1, <1>8 DEF UnderWay
  <1>10. \A r \in Repositories, x \in Sets :
            UnderWay(r, x) <=> Contains(queue', x) \/ x \in begun \/ x \in waiting \/ <<r, x>> \in reached
    BY <1>4, <1>5, <1>6, <1>7 DEF UnderWay
  <1>11. \A r \in Repositories, x \in Sets : OnlyLost(r, x, {})
    BY <1>3, <1>9, <1>10 DEF OnlyLost
  <1> QED BY <1>1, <1>11, DropStep

(* The repository that is invoked stores the set; those after it may lose  *)
(* it.                                                                     *)
LEMMA InvokeStores ==
    ASSUME OrderInv, RouteInv, Invoke \/ InvokeThrows, UNCHANGED content
    PROVE  IF Head(todo) = activemq THEN UNCHANGED Stored
           ELSE /\ Head(todo) \in Repositories
                /\ Stored' = [Stored EXCEPT ![Head(todo)] = Append(@, content[message])]
  <1>0. PICK h : h = Head(todo)
    OBVIOUS
  <1> DEFINE q == received[h]
  <1>1. /\ todo \in Seq(WbServices) /\ todo # <<>> /\ pc = "invoking"
        /\ received \in [WbServices -> Seq(Nat)] /\ message \in Nat
        /\ received' = [received EXCEPT ![h] = Append(received[h], message)]
    BY <1>0, SMT DEF OrderInv, MessageTypes, Invoke, InvokeThrows
  <1>2. h \in WbServices /\ q \in Seq(Nat)
    BY <1>0, <1>1, HeadAndTail
  <1>3. content[message] \in Sets
    BY <1>1, MessagesSent, ContentType DEF RouteInv
  <1>4. received'[h] = Append(q, message) /\ \A r \in WbServices : r # h => received'[r] = received[r]
    BY <1>1, <1>2
  <1>5. \A r \in Repositories : r # h => SetsOf(r)' = SetsOf(r)
    BY <1>4 DEF SetsOf, Repositories
  <1>6. SetsOf(h)' = Append(SetsOf(h), content[message])
    <2>1. SetsOf(h) = [k \in 1..Len(q) |-> content[q[k]]]
          /\ SetsOf(h) \in Seq(Sets) /\ Len(q) \in Nat
      BY <1>2, SetsOfType DEF SetsOf
    <2>2. SetsOf(h)' = [k \in 1..(Len(q) + 1) |-> content[Append(q, message)[k]]]
      <3>1. DOMAIN received'[h] = 1..(Len(q) + 1)
        BY <1>1, <1>2, <1>4, AppendElements
      <3> QED BY <1>4, <3>1 DEF SetsOf
    <2>3. \A k \in 1..(Len(q) + 1) : Append(q, message)[k] = IF k = Len(q) + 1 THEN message ELSE q[k]
      BY <1>1, <1>2
    <2>4. Append(SetsOf(h), content[message])
            = [k \in 1..(Len(q) + 1) |-> IF k = Len(q) + 1 THEN content[message] ELSE content[q[k]]]
      BY <1>3, <2>1
    <2>5. SetsOf(h)'
            = [k \in 1..(Len(q) + 1) |-> IF k = Len(q) + 1 THEN content[message] ELSE content[q[k]]]
      BY <2>2, <2>3
    <2> QED BY <2>4, <2>5
  <1>7. CASE h = activemq
    <2>1. \A r \in Repositories : SetsOf(r)' = SetsOf(r)
      BY <1>5, <1>7 DEF Repositories
    <2> QED BY <1>0, <1>7, <2>1 DEF Stored
  <1>8. CASE h # activemq
    <2>1. h \in Repositories
      BY <1>2, <1>8 DEF Repositories
    <2>2. Stored' = [Stored EXCEPT ![h] = Append(Stored[h], content[message])]
      BY <1>5, <1>6, <2>1 DEF Stored
    <2> QED BY <1>0, <1>8, <2>1, <2>2
  <1> QED BY <1>7, <1>8

-----------------------------------------------------------------------------
(* Wherever there is a set, it was sent. *)

Somewhere(x) ==
    \/ Contains(queue, x)
    \/ \E c \in Consumers : Contains(taken[c], x)
    \/ Contains(content, x)

SentInv == \A x \in Sets : Somewhere(x) => x <= sets

LEMMA NextSent ==
    OrderInv /\ RouteInv /\ SentInv /\ [PipelineNext]_pipelineVars => SentInv'
  <1> SUFFICES ASSUME OrderInv, RouteInv, SentInv, [PipelineNext]_pipelineVars,
                      NEW x \in Sets, Somewhere(x)'
               PROVE  x <= sets'
    BY DEF SentInv
  <1>1. RouteInv'
    BY NextRoute
  <1>2. /\ taken \in [Consumers -> Seq(Sets)] /\ queue \in Seq(Sets)
        /\ content \in Seq(Sets) /\ Len(content) = sent /\ RouteTypes /\ sets \in Nat /\ x \in Nat
    BY PipelineAssumption DEF RouteInv, RouteTypes, Sets
  <1>3. CASE Dispatch
    <2>1. sets' = sets + 1 /\ UNCHANGED <<taken, content>> /\ sets + 1 \in Sets
          /\ (queue' = Append(queue, sets + 1) \/ UNCHANGED queue)
      BY <1>2, <1>3, PipelineAssumption DEF Dispatch, Sets
    <2>2. Contains(queue', x) => Contains(queue, x) \/ x = sets + 1
      <3>1. Contains(Append(queue, sets + 1), x) <=> Contains(queue, x) \/ x = sets + 1
        BY <1>2, <2>1, ContainsAppend
      <3> QED BY <2>1, <3>1, Zenon
    <2>3. x <= sets \/ x = sets + 1
      BY <2>1, <2>2 DEF SentInv, Somewhere
    <2> QED BY <1>2, <2>1, <2>3
  <1>4. CASE ~Dispatch
    <2>1. UNCHANGED sets
      BY <1>4, Zenon DEF PipelineNext, pipelineVars, routeVars, BrokerRestarts, ReceiverRestarts,
         Services, ConsumerStep, Take, PassOn, PassOnFails, WhiteboardStep, WhiteboardEnter,
         WhiteboardIterate, Store, Forward, StoreThrows, WhiteboardFinish
    <2>2. CASE BrokerRestarts
      <3>1. queue' = <<>> /\ UNCHANGED content
        BY <2>2 DEF BrokerRestarts
      <3>2. ~Contains(queue', x)
        BY <3>1 DEF Contains
      <3>3. Somewhere(x)
        BY <1>1, <2>2, <3>1, <3>2, BrokerContains DEF Somewhere
      <3> QED BY <2>1, <3>3 DEF SentInv
    <2>3. CASE ReceiverRestarts
      <3>1. taken' = [c \in Consumers |-> <<>>] /\ UNCHANGED content
        BY <2>3, Zenon DEF ReceiverRestarts
      <3>2. \A c \in Consumers : ~Contains(taken'[c], x)
        BY <3>1 DEF Contains
      <3>3. Contains(queue', x) => Contains(queue, x) \/ \E p \in Prefetched : taken[p[1]][p[2]] = x
        BY <1>2, <2>3, RestartReturns
      <3>4. (\E p \in Prefetched : taken[p[1]][p[2]] = x) => \E c \in Consumers : Contains(taken[c], x)
        BY <1>2, PrefetchedTaken
      <3>5. Somewhere(x)
        BY <3>1, <3>2, <3>3, <3>4 DEF Somewhere
      <3> QED BY <2>1, <3>5 DEF SentInv
    <2>4. ASSUME NEW c \in Consumers, ConsumerStep(c) PROVE x <= sets'
      <3>1. CASE Take(c)
        <4>1. Somewhere(x)
          BY <1>2, <3>1, TakeMoves DEF Take, Somewhere
        <4> QED BY <2>1, <4>1 DEF SentInv
      <3>2. ASSUME taken[c] # <<>>, taken' = [taken EXCEPT ![c] = Tail(taken[c])]
            PROVE  /\ Head(taken[c]) \in Sets
                   /\ (\E d \in Consumers : Contains(taken'[d], x)) \/ x = Head(taken[c])
                        => \E d \in Consumers : Contains(taken[d], x)
        BY <1>2, <3>2, DropFirst
      <3>3. CASE PassOn(c)
        <4>1. /\ taken[c] # <<>> /\ taken' = [taken EXCEPT ![c] = Tail(taken[c])]
              /\ content' = Append(content, Head(taken[c])) /\ UNCHANGED queue
          BY <3>3 DEF PassOn
        <4>2. Contains(content', x) => Contains(content, x) \/ x = Head(taken[c])
          BY <1>2, <3>2, <4>1, ContainsAppend
        <4>3. Somewhere(x)
          BY <3>2, <4>1, <4>2 DEF Somewhere
        <4> QED BY <2>1, <4>3 DEF SentInv
      <3>4. CASE PassOnFails(c)
        <4>1. Somewhere(x)
          BY <3>2, <3>4 DEF PassOnFails, Somewhere
        <4> QED BY <2>1, <4>1 DEF SentInv
      <3> QED BY <2>4, <3>1, <3>3, <3>4 DEF ConsumerStep
    <2>5. CASE Forward
      <3>1. pc = "invoking" /\ queue' = Append(queue, content[message]) /\ UNCHANGED <<taken, content>>
        BY <2>5 DEF Forward, Invoke
      <3>2. message \in 1..sent /\ content[message] \in Sets
        BY <1>2, <3>1, MessagesSent, ContentType
      <3>3. Contains(content, content[message])
        BY <1>2, <3>2 DEF Contains
      <3>4. Contains(queue', x) => Contains(queue, x) \/ x = content[message]
        BY <1>2, <3>1, <3>2, ContainsAppend
      <3>5. Somewhere(x)
        BY <3>1, <3>3, <3>4 DEF Somewhere
      <3> QED BY <2>1, <3>5 DEF SentInv
    <2>6. CASE UNCHANGED <<queue, taken, content>>
      <3>1. Somewhere(x)
        BY <2>6 DEF Somewhere
      <3> QED BY <2>1, <3>1 DEF SentInv
    <2> QED BY <1>4, <2>2, <2>3, <2>4, <2>5, <2>6 DEF PipelineNext, pipelineVars, routeVars,
              Services, WhiteboardStep, WhiteboardEnter, WhiteboardIterate, Store, StoreThrows,
              WhiteboardFinish
  <1> QED BY <1>3, <1>4

LEMMA SentHolds == PipelineSpec => []SentInv
  <1>1. PipelineInit => SentInv
    BY DEF PipelineInit, SentInv, Somewhere, Contains
  <1> QED BY <1>1, NextSent, OrderHolds, RouteHolds, PTL DEF PipelineSpec

-----------------------------------------------------------------------------
(* The whiteboard's steps. *)

(* The message that is taken is on its way to all repositories that are    *)
(* there, or lost to all of them.                                          *)
LEMMA EnterStep ==
    ASSUME OrderInv, RouteInv, RouteInv', WhiteboardEnter
    PROVE  Way!Drop
  <1>1. /\ pc = "idle" /\ endpoint # <<>> /\ message' = Head(endpoint)
        /\ endpoint' = Tail(endpoint) /\ pc' = IF registered = {} THEN "idle" ELSE "checked"
        /\ Lose(IF registered = {} THEN Repositories ELSE {}, {content[Head(endpoint)]})
        /\ UNCHANGED <<received, content, queue, taken, sets>> /\ endpoint \in Seq(Nat)
    BY DEF WhiteboardEnter, Enter, routeVars, OrderInv, MessageTypes
  <1>2. ASSUME NEW x
        PROVE  (\E k \in DOMAIN endpoint : content[endpoint[k]] = x)
                 <=> content[message'] = x \/ \E k \in DOMAIN endpoint' : content[endpoint'[k]] = x
    <2>1. /\ message' = endpoint[1] /\ DOMAIN endpoint = 1..Len(endpoint)
          /\ DOMAIN endpoint' = 1..(Len(endpoint) - 1) /\ Len(endpoint) \in Nat \ {0}
          /\ \A i \in 1..(Len(endpoint) - 1) : endpoint'[i] = endpoint[i + 1]
      BY <1>1, TailElements
    <2>2. ASSUME NEW k \in DOMAIN endpoint
          PROVE  endpoint[k] = message' \/ \E i \in DOMAIN endpoint' : endpoint'[i] = endpoint[k]
      <3>1. CASE k = 1
        BY <2>1, <3>1
      <3>2. CASE k # 1
        <4>1. k - 1 \in 1..(Len(endpoint) - 1) /\ (k - 1) + 1 = k
          BY <2>1, <3>2
        <4>2. k - 1 \in DOMAIN endpoint' /\ endpoint'[k - 1] = endpoint[k]
          BY <2>1, <4>1
        <4> QED BY <4>2, Zenon
      <3> QED BY <3>1, <3>2
    <2>3. ASSUME NEW i \in DOMAIN endpoint'
          PROVE  \E k \in DOMAIN endpoint : endpoint'[i] = endpoint[k]
      <3>1. i + 1 \in DOMAIN endpoint /\ endpoint'[i] = endpoint[i + 1]
        BY <2>1
      <3> QED BY <3>1, Zenon
    <2>4. \E k \in DOMAIN endpoint : endpoint[k] = message'
      <3>1. 1 \in DOMAIN endpoint
        BY <2>1
      <3> QED BY <2>1, <3>1
    <2>5. ASSUME \E k \in DOMAIN endpoint : content[endpoint[k]] = x
          PROVE  content[message'] = x \/ \E k \in DOMAIN endpoint' : content[endpoint'[k]] = x
      <3>1. PICK k \in DOMAIN endpoint : content[endpoint[k]] = x
        BY <2>5
      <3>2. endpoint[k] = message' \/ \E i \in DOMAIN endpoint' : endpoint'[i] = endpoint[k]
        BY <2>2
      <3> QED BY <3>1, <3>2
    <2>6. ASSUME NEW i \in DOMAIN endpoint', content[endpoint'[i]] = x
          PROVE  \E k \in DOMAIN endpoint : content[endpoint[k]] = x
      <3>1. PICK k \in DOMAIN endpoint : endpoint'[i] = endpoint[k]
        BY <2>3
      <3> QED BY <2>6, <3>1
    <2> QED BY <2>4, <2>5, <2>6
  <1>3. CASE registered = {}
    <2>1. pc' = "idle" /\ Lose(Repositories, {content[message']})
      BY <1>1, <1>3
    <2>2. ASSUME NEW r \in Repositories, NEW x \in Sets PROVE OnlyLost(r, x, {})
      <3>1. <<r, x>> \in lost' <=> <<r, x>> \in lost \/ x = content[message']
        BY <2>1, LoseLoses
      <3> QED BY <1>1, <1>2, <2>1, <3>1 DEF OnlyLost, UnderWay
    <2> QED BY <1>1, <2>2, DropStep
  <1>4. CASE registered # {}
    <2>1. pc' = "checked" /\ UNCHANGED lost
      BY <1>1, <1>4 DEF Lose
    <2>2. \A r \in Repositories, x \in Sets : UnderWay(r, x)' <=> UnderWay(r, x)
      BY <1>1, <1>2, <2>1 DEF UnderWay
    <2>3. \A r \in Repositories, x \in Sets : OnlyLost(r, x, {})
      BY <2>1, <2>2 DEF OnlyLost
    <2> QED BY <1>1, <2>3, DropStep
  <1> QED BY <1>3, <1>4

(* It is lost to those that the array does not name.                       *)
LEMMA IterateStep ==
    ASSUME OrderInv, RouteInv, RouteInv', WhiteboardIterate
    PROVE  Way!Drop
  <1>1. /\ pc = "checked" /\ UNCHANGED <<endpoint, message, received, content, queue, taken, sets>>
        /\ Lose(Repositories \ ToSet(todo'), {content[message]})
        /\ \/ pc' = "idle" /\ todo' = <<>>
           \/ pc' = "invoking" /\ todo' \in ServiceArrays
        /\ registered \subseteq WbServices
    BY DEF WhiteboardIterate, Iterate, routeVars, OrderInv, MessageTypes
  <1>2. todo' \in Seq(WbServices)
    <2>1. CASE todo' = <<>>
      BY <2>1
    <2>2. CASE todo' \in ServiceArrays
      BY <1>1, <2>2, ArrayOnce
    <2> QED BY <1>1, <2>1, <2>2
  <1>3. \A r : Contains(todo', r) <=> r \in ToSet(todo')
    BY <1>2, ContainsDomain DEF ToSet
  <1>4. pc' = "idle" => \A r : ~Contains(todo', r)
    BY <1>1 DEF Contains
  <1>5. ASSUME NEW r \in Repositories, NEW x \in Sets PROVE OnlyLost(r, x, {})
    <2>1. <<r, x>> \in lost' <=> <<r, x>> \in lost \/ (~Contains(todo', r) /\ x = content[message])
      BY <1>1, <1>3, <1>5, LoseLoses
    <2>2. UnderWay(r, x)' => UnderWay(r, x)
      BY <1>1 DEF UnderWay
    <2>3. UnderWay(r, x) => UnderWay(r, x)' \/ (~Contains(todo', r) /\ x = content[message])
      BY <1>1, <1>4 DEF UnderWay
    <2>4. x = content[message] => UnderWay(r, x)
      BY <1>1 DEF UnderWay
    <2> QED BY <2>1, <2>2, <2>3, <2>4 DEF OnlyLost
  <1> QED BY <1>1, <1>5, DropStep

(* A service is invoked: a repository is given the set...                  *)
LEMMA InvokeStep ==
    ASSUME OrderInv, RouteInv, RouteInv', SentInv, Store \/ StoreThrows
    PROVE  Way!Drop \/ \E r \in Repositories : \E x \in 1..sets : Way!Deliver(r, x)
  <1>1. /\ pc = "invoking" /\ todo # <<>> /\ todo \in Seq(WbServices)
        /\ UNCHANGED <<endpoint, message, content, queue, taken, sets>>
        /\ Invoke \/ InvokeThrows
    BY DEF Store, StoreThrows, Invoke, InvokeThrows, routeVars, OrderInv, MessageTypes
  <1>2. PICK h, m : h = Head(todo) /\ m = content[message]
    OBVIOUS
  <1>3. m \in Sets /\ m \in 1..sets
    <2>1. message \in 1..sent /\ m \in Sets
      BY <1>1, <1>2, MessagesSent, ContentType DEF RouteInv
    <2>2. Contains(content, m)
      BY <1>2, <2>1 DEF RouteInv, RouteTypes, Contains
    <2> QED BY <2>1, <2>2 DEF SentInv, Somewhere, Sets
  <1>4. \A r : Contains(todo, r) <=> r = h \/ Contains(Tail(todo), r)
    BY <1>1, <1>2, ContainsTail
  <1>5. \A r \in Repositories, x \in Sets : OnlyLost(r, x, {<<h, m>>})
    <2>1. CASE Store
      <3>1. todo' = Tail(todo) /\ pc' = pc /\ UNCHANGED lost
        BY <2>1 DEF Store, Invoke
      <3> QED BY <1>1, <1>2, <1>4, <3>1 DEF OnlyLost, UnderWay
    <2>2. CASE StoreThrows
      <3>1. /\ todo' = <<>> /\ pc' = "idle" /\ Lose(Repositories \cap ToSet(Tail(todo)), {m})
            /\ Tail(todo) \in Seq(WbServices)
        BY <1>1, <1>2, <2>2 DEF StoreThrows, InvokeThrows
      <3>2. ASSUME NEW r \in Repositories, NEW x \in Sets PROVE OnlyLost(r, x, {<<h, m>>})
        <4>1. r \in ToSet(Tail(todo)) <=> Contains(Tail(todo), r)
          BY <3>1, ContainsDomain DEF ToSet
        <4>2. <<r, x>> \in lost' <=> <<r, x>> \in lost \/ (Contains(Tail(todo), r) /\ x = m)
          BY <3>1, <3>2, <4>1, LoseLoses
        <4> QED BY <1>1, <1>2, <1>4, <3>1, <4>2 DEF OnlyLost, UnderWay
      <3> QED BY <3>2
    <2> QED BY <2>1, <2>2
  <1>6. CASE h = activemq
    <2>1. UNCHANGED Stored
      BY <1>1, <1>2, <1>6, InvokeStores
    <2>2. \A r \in Repositories, x \in Sets : OnlyLost(r, x, {})
      <3>1. \A r \in Repositories : \A x : <<r, x>> # <<h, m>>
        BY <1>6 DEF Repositories
      <3> QED BY <1>5, <3>1 DEF OnlyLost
    <2> QED BY <1>1, <2>1, <2>2, LeavesStep DEF Way!Drop
  <1>7. CASE h # activemq
    <2>1. h \in Repositories /\ Stored' = [Stored EXCEPT ![h] = Append(@, m)]
      BY <1>1, <1>2, <1>7, InvokeStores
    <2>2. <<h, m>> \in Open
      BY <1>1, <1>2, <1>3, <1>4, <2>1 DEF Open, UnderWay
    <2>3. Way!Leaves({<<h, m>>})
      BY <1>5, LeavesStep
    <2>4. Way!Deliver(h, m)
      BY <1>1, <2>1, <2>2, <2>3 DEF Way!Deliver
    <2> QED BY <1>3, <2>1, <2>4
  <1> QED BY <1>6, <1>7

(* ... and the dispatcher to the broker sends it again.                    *)
LEMMA ForwardStep ==
    ASSUME OrderInv, RouteInv, RouteInv', SentInv, Forward
    PROVE  \E x \in 1..sets : Way!SendAgain(x)
  <1>1. /\ pc = "invoking" /\ pc' = pc /\ todo # <<>> /\ todo \in Seq(WbServices)
        /\ todo' = Tail(todo) /\ Head(todo) = activemq
        /\ queue' = Append(queue, content[message]) /\ queue \in Seq(Sets)
        /\ UNCHANGED <<endpoint, message, content, taken, sets, lost>> /\ Invoke
    BY DEF Forward, Invoke, OrderInv, MessageTypes, RouteInv, RouteTypes
  <1>2. PICK m : m = content[message]
    OBVIOUS
  <1>3. m \in Sets /\ m \in 1..sets
    <2>1. message \in 1..sent /\ m \in Sets
      BY <1>1, <1>2, MessagesSent, ContentType DEF RouteInv
    <2>2. Contains(content, m)
      BY <1>2, <2>1 DEF RouteInv, RouteTypes, Contains
    <2> QED BY <2>1, <2>2 DEF SentInv, Somewhere, Sets
  <1>4. \A r \in Repositories : Contains(todo, r) <=> Contains(todo', r)
    BY <1>1, ContainsTail DEF Repositories
  <1>5. \A x : Contains(queue', x) <=> Contains(queue, x) \/ x = m
    BY <1>1, <1>2, <1>3, ContainsAppend
  <1>6. \A r \in Repositories, x \in Sets : UnderWay(r, x)' <=> UnderWay(r, x) \/ x = m
    BY <1>1, <1>2, <1>4, <1>5 DEF UnderWay
  <1>7. Open' = Open \cup (Repositories \X {m})
    <2>1. \A p \in Repositories \X Sets :
             /\ UnderWay(p[1], p[2])' <=> UnderWay(p[1], p[2]) \/ p[2] = m
             /\ p \in Repositories \X {m} <=> p[2] = m
      BY <1>6
    <2>2. Repositories \X {m} \subseteq Repositories \X Sets
      BY <1>3
    <2> QED BY <2>1, <2>2 DEF Open
  <1>8. UNCHANGED Stored
    BY <1>1, InvokeStores
  <1>9. Way!SendAgain(m)
    BY <1>1, <1>7, <1>8 DEF Way!SendAgain
  <1> QED BY <1>3, <1>9

LEMMA WayStep ==
    ASSUME OrderInv, RouteInv, RouteInv', SentInv, [PipelineNext]_pipelineVars
    PROVE  [Way!DeliveryNext]_Way!DeliveryVars
  <1>1. CASE Dispatch
    BY <1>1, DispatchStep DEF Way!DeliveryNext
  <1>2. CASE BrokerRestarts
    BY <1>2, BrokerStep DEF Way!DeliveryNext
  <1>3. CASE ReceiverRestarts
    BY <1>3, ReceiverStep DEF Way!DeliveryNext
  <1>4. ASSUME NEW c \in Consumers, ConsumerStep(c) PROVE Way!DeliveryNext
    BY <1>4, ConsumerDrops DEF Way!DeliveryNext
  <1>5. CASE WhiteboardEnter \/ WhiteboardIterate
    BY <1>5, EnterStep, IterateStep DEF Way!DeliveryNext
  <1>6. CASE Store \/ StoreThrows
    BY <1>6, InvokeStep DEF Way!DeliveryNext
  <1>7. CASE Forward
    BY <1>7, ForwardStep DEF Way!DeliveryNext
  <1>8. CASE WhiteboardFinish
    <2>1. /\ pc = "invoking" /\ pc' = "idle" /\ todo = <<>>
          /\ UNCHANGED <<received, endpoint, content, queue, taken, lost, sets>>
      BY <1>8 DEF WhiteboardFinish, Finish, routeVars
    <2>2. \A r : ~Contains(todo, r)
      BY <2>1 DEF Contains
    <2>3. \A r, x : UnderWay(r, x)' <=> UnderWay(r, x)
      BY <2>1, <2>2 DEF UnderWay
    <2>4. UNCHANGED Open /\ UNCHANGED Stored
      BY <2>1, <2>3, StoredStays DEF Open
    <2> QED BY <2>1, <2>4 DEF Way!DeliveryVars
  <1>9. CASE Services \/ UNCHANGED pipelineVars
    <2>1. UNCHANGED <<received, endpoint, content, queue, taken, lost, pc, message, todo, sets>>
      BY <1>9 DEF Services, Register, Unregister, pipelineVars, routeVars, vars
    <2>2. \A r, x : UnderWay(r, x)' <=> UnderWay(r, x)
      BY <2>1 DEF UnderWay
    <2>3. UNCHANGED Open /\ UNCHANGED Stored
      BY <2>1, <2>2, StoredStays DEF Open
    <2> QED BY <2>1, <2>3 DEF Way!DeliveryVars
  <1> QED BY <1>1, <1>2, <1>3, <1>4, <1>5, <1>6, <1>7, <1>8, <1>9 DEF PipelineNext, WhiteboardStep

(* The way of the sample sets implements the abstract delivery: what is    *)
(* sent is on its way to each repository until it is stored there or lost, *)
(* and nothing else is stored or lost.                                     *)
THEOREM DeliveryImplemented == PipelineSpec => ImplementsDelivery
  <1>1. PipelineInit => Way!DeliveryInit
    <2> SUFFICES ASSUME PipelineInit PROVE Way!DeliveryInit
      OBVIOUS
    <2>1. /\ queue = <<>> /\ taken = [c \in Consumers |-> <<>>] /\ endpoint = <<>> /\ pc = "idle"
          /\ received = [s \in WbServices |-> <<>>] /\ sets = 0 /\ lost = {}
      BY DEF PipelineInit, Init
    <2>2. \A r, x : ~UnderWay(r, x)
      BY <2>1 DEF UnderWay, Contains
    <2>3. Open = {}
      BY <2>2 DEF Open
    <2>4. \A r \in Repositories : SetsOf(r) = <<>>
      BY <2>1 DEF SetsOf, Repositories
    <2>5. Stored = [r \in Repositories |-> <<>>]
      BY <2>4 DEF Stored
    <2> QED BY <2>1, <2>3, <2>5 DEF Way!DeliveryInit
  <1> QED BY <1>1, WayStep, OrderHolds, RouteHolds, SentHolds, PTL
          DEF PipelineSpec, ImplementsDelivery, Way!DeliverySpec

-----------------------------------------------------------------------------
(* What the abstract delivery promises. *)

WayTypes == sets \in Nat /\ Stored \in [Repositories -> Seq(Nat)]

LEMMA NoneVanishesStep ==
    ASSUME WayTypes, Way!NoneVanishes, [Way!DeliveryNext]_Way!DeliveryVars
    PROVE  WayTypes' /\ Way!NoneVanishes'
  <1> DEFINE Has(r, x) == \E k \in DOMAIN Stored[r] : Stored[r][k] = x
  <1>1. \A r \in Repositories : \A x \in 1..sets : Has(r, x) \/ <<r, x>> \in Open \/ <<r, x>> \in lost
    BY DEF Way!NoneVanishes
  <1>2. SUFFICES WayTypes' /\ \A r \in Repositories : \A x \in 1..sets' :
                    Has(r, x)' \/ <<r, x>> \in Open' \/ <<r, x>> \in lost'
    BY DEF Way!NoneVanishes
  <1>3. CASE Way!Submit
    <2>1. /\ sets' = sets + 1 /\ UNCHANGED Stored
          /\ \/ Open' = Open \cup (Repositories \X {sets + 1}) /\ UNCHANGED lost
             \/ lost' = lost \cup (Repositories \X {sets + 1}) /\ UNCHANGED Open
      BY <1>3 DEF Way!Submit
    <2>2. sets \in Nat /\ \A x \in 1..(sets + 1) : x \in 1..sets \/ x = sets + 1
      BY DEF WayTypes
    <2>3. ASSUME NEW r \in Repositories, NEW x \in 1..sets'
          PROVE  Has(r, x)' \/ <<r, x>> \in Open' \/ <<r, x>> \in lost'
      <3>1. CASE x \in 1..sets
        <4>1. Has(r, x) \/ <<r, x>> \in Open \/ <<r, x>> \in lost
          BY <1>1, <3>1
        <4>2. Open \subseteq Open' /\ lost \subseteq lost'
          BY <2>1
        <4> QED BY <2>1, <4>1, <4>2
      <3>2. CASE x = sets + 1
        BY <2>1, <3>2
      <3> QED BY <2>1, <2>2, <3>1, <3>2
    <2> HIDE DEF Has
    <2> QED BY <2>1, <2>2, <2>3 DEF WayTypes
  <1>4. CASE Way!Drop
    <2>1. /\ UNCHANGED <<sets, Stored>> /\ lost \subseteq lost'
          /\ Open \ Open' \subseteq lost'
      BY <1>4 DEF Way!Drop, Way!Leaves
    <2> QED BY <1>1, <2>1 DEF WayTypes
  <1>5. ASSUME NEW s \in Repositories, NEW y \in 1..sets, Way!Deliver(s, y)
        PROVE  WayTypes' /\ \A r \in Repositories : \A x \in 1..sets' :
                    Has(r, x)' \/ <<r, x>> \in Open' \/ <<r, x>> \in lost'
    <2>1. /\ UNCHANGED sets /\ lost \subseteq lost' /\ Open \ Open' \subseteq {<<s, y>>} \cup lost'
          /\ Stored' = [Stored EXCEPT ![s] = Append(Stored[s], y)]
      BY <1>5 DEF Way!Deliver, Way!Leaves
    <2>2. Stored \in [Repositories -> Seq(Nat)] /\ y \in Nat /\ Stored[s] \in Seq(Nat)
      BY DEF WayTypes
    <2>3. /\ Stored'[s] = Append(Stored[s], y)
          /\ \A r \in Repositories : r # s => Stored'[r] = Stored[r]
          /\ Stored' \in [Repositories -> Seq(Nat)]
      BY <2>1, <2>2
    <2>4. /\ \A k \in DOMAIN Stored[s] : k \in DOMAIN Stored'[s] /\ Stored'[s][k] = Stored[s][k]
          /\ Len(Stored[s]) + 1 \in DOMAIN Stored'[s] /\ Stored'[s][Len(Stored[s]) + 1] = y
      BY <2>2, <2>3, AppendElements
    <2>5. ASSUME NEW r \in Repositories, NEW x \in 1..sets
          PROVE  Has(r, x)' \/ <<r, x>> \in Open' \/ <<r, x>> \in lost'
      <3>1. CASE r = s /\ x = y
        BY <2>4, <3>1
      <3>2. CASE ~(r = s /\ x = y)
        <4>1. Has(r, x) => Has(r, x)'
          BY <2>3, <2>4
        <4>2. <<r, x>> \in Open => <<r, x>> \in Open' \/ <<r, x>> \in lost'
          BY <2>1, <3>2
        <4> QED BY <1>1, <2>1, <4>1, <4>2
      <3> QED BY <3>1, <3>2
    <2> HIDE DEF Has
    <2> QED BY <2>1, <2>3, <2>5 DEF WayTypes
  <1>6. ASSUME NEW y \in 1..sets, Way!SendAgain(y)
        PROVE  WayTypes' /\ \A r \in Repositories : \A x \in 1..sets' :
                    Has(r, x)' \/ <<r, x>> \in Open' \/ <<r, x>> \in lost'
    <2>1. Open \subseteq Open' /\ UNCHANGED <<sets, Stored, lost>>
      BY <1>6 DEF Way!SendAgain
    <2> QED BY <1>1, <2>1 DEF WayTypes
  <1>7. CASE UNCHANGED Way!DeliveryVars
    <2>1. UNCHANGED <<sets, Stored, Open, lost>>
      BY <1>7 DEF Way!DeliveryVars
    <2> QED BY <1>1, <2>1 DEF WayTypes
  <1> QED BY <1>3, <1>4, <1>5, <1>6, <1>7 DEF Way!DeliveryNext

(* No set vanishes: whatever restarts, throws, comes and goes, a set that  *)
(* was sent is stored by each repository, was lost on the way to it, or is *)
(* still under way.  It is the abstract delivery that promises this.       *)
THEOREM NoneVanishesHolds == PipelineSpec => []Way!NoneVanishes
  <1>1. Way!DeliveryInit => WayTypes /\ Way!NoneVanishes
    <2> SUFFICES ASSUME Way!DeliveryInit PROVE WayTypes /\ Way!NoneVanishes
      OBVIOUS
    <2>1. sets = 0 /\ Stored = [r \in Repositories |-> <<>>]
      BY DEF Way!DeliveryInit
    <2> QED BY <2>1 DEF WayTypes, Way!NoneVanishes
  <1> QED BY <1>1, NoneVanishesStep, DeliveryImplemented, PTL
          DEF ImplementsDelivery, Way!DeliverySpec

=============================================================================
