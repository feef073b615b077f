------------------------------ MODULE Pipeline -------------------------------
(***************************************************************************)
(* The way of a sample set from a sampler to the repositories: the         *)
(* dispatcher of sampler-routes sends it to a queue of the broker, several *)
(* consumers take it from there and pass it to the endpoint of a           *)
(* whiteboard (module Whiteboard), which hands it to every                 *)
(* SampleSetDispatcher of the receiver's container.  When the dispatcher   *)
(* to the broker is registered there too, the set is sent once more.       *)
(*                                                                         *)
(* Sample sets are numbered in the order in which the sampler sends them.  *)
(***************************************************************************)
EXTENDS Whiteboard

CONSTANTS Consumers,    \* the concurrent consumers of the queue (8 in the blueprint)
          activemq,     \* the dispatcher to the broker, one of WbServices
          MaxSets,      \* bound on the sample sets
          MaxForwards,  \* bound on those that are sent again
          MaxLives      \* bound on the lives of the receiver's container

ASSUME PipelineAssumption ==
    /\ activemq \in WbServices /\ IsFiniteSet(Consumers)
    /\ MaxSets \in Nat /\ MaxForwards \in Nat /\ MaxLives \in Nat \ {0}
    /\ MaxMessages = MaxSets + MaxForwards

VARIABLES
    sets,      \* number of sample sets that samplers have dispatched
    queue,     \* the broker's queue, of sample sets
    taken,     \* consumer -> the sets that the broker has given it: the route runs on the
               \* first, which is acknowledged, the others are prefetched
    lives,     \* number of lives of the receiver's container
    content,   \* the n-th message of the whiteboard carries the set content[n]
    lost       \* <<r, set>>: a copy of the set was lost on its way to repository r (history)

routeVars == <<sets, queue, taken, lives, content>>
pipelineVars == <<vars, routeVars, lost>>

Sets == 1..MaxSets

Repositories == WbServices \ {activemq}

(* The sets that a service was invoked with, in order.                     *)
SetsOf(s) == [k \in DOMAIN received[s] |-> content[received[s][k]]]

Lose(S, x) == lost' = lost \cup (S \X x)

Busy == {c \in Consumers : taken[c] # <<>>}

PipelineInit ==
    /\ Init
    /\ sets = 0 /\ queue = <<>>
    /\ taken = [c \in Consumers |-> <<>>]
    /\ lives = 1
    /\ content = <<>>
    /\ lost = {}
-----------------------------------------------------------------------------
(* sendSampleSet: the sampler's set is marshalled and sent.  The exception *)
(* of a broker that is away ends in the sampler's whiteboard.              *)
Dispatch ==
    /\ sets < MaxSets
    /\ sets' = sets + 1
    /\ \/ queue' = Append(queue, sets + 1) /\ UNCHANGED lost
       \/ Lose(Repositories, {sets + 1}) /\ UNCHANGED queue
    /\ UNCHANGED <<vars, taken, lives, content>>

(* Messages are not persistent: a broker that restarts has none, and       *)
(* consumers keep at most the one that they work on.                       *)
BrokerRestarts ==
    /\ \E keep \in SUBSET Busy :
          /\ taken' = [c \in Consumers |->
                IF c \in keep THEN <<Head(taken[c])>> ELSE <<>>]
          /\ Lose(Repositories, ToSet(queue) \cup
                UNION {ToSet(taken[c]) \ ToSet(taken'[c]) : c \in Consumers})
    /\ queue' = <<>>
    /\ <<queue, taken>> # <<queue', taken'>>
    /\ UNCHANGED <<vars, sets, lives, content>>

(* Mutant: messages of one queue have priorities. *)
TakeAny(c) ==
    /\ \E k \in DOMAIN queue :
          /\ taken' = [taken EXCEPT ![c] = Append(@, queue[k])]
          /\ queue' = RemoveAt(queue, k)
    /\ UNCHANGED <<vars, sets, lives, content, lost>>

(* receiveSampleSet: the broker gives the next message to some consumer,   *)
(* also to one that is busy;                                               *)
Take(c) ==
    /\ queue # <<>>
    /\ taken' = [taken EXCEPT ![c] = Append(@, Head(queue))]
    /\ queue' = Tail(queue)
    /\ UNCHANGED <<vars, sets, lives, content, lost>>

(* Mutant: the message is acknowledged after the route, and comes again    *)
(* when that fails. *)
PassOnRedelivered(c) ==
    /\ taken[c] # <<>>
    /\ Send
    /\ content' = Append(content, Head(taken[c]))
    /\ UNCHANGED <<sets, queue, taken, lives, lost>>

(* the consumer converts it and passes it on to the whiteboard,            *)
PassOn(c) ==
    /\ taken[c] # <<>>
    /\ Send
    /\ content' = Append(content, Head(taken[c]))
    /\ taken' = [taken EXCEPT ![c] = Tail(@)]
    /\ UNCHANGED <<sets, queue, lives, lost>>

(* or fails to.                                                            *)
PassOnFails(c) ==
    /\ taken[c] # <<>>
    /\ Lose(Repositories, {Head(taken[c])})
    /\ taken' = [taken EXCEPT ![c] = Tail(@)]
    /\ UNCHANGED <<vars, sets, queue, lives, content>>

(* Mutant: the message after the first counts as begun. *)
PrefetchedLater == UNION {{<<c, k>> : k \in 3..Len(taken[c])} : c \in Consumers}

(* The places of the messages that consumers have been given and not begun.*)
Prefetched == UNION {{<<c, k>> : k \in 2..Len(taken[c])} : c \in Consumers}

(* The repositories that the message being dispatched has yet to reach.    *)
ToReach == IF pc = "checked" THEN Repositories ELSE Repositories \cap ToSet(todo)

(* The receiver's container restarts.  What was prefetched goes back to    *)
(* the queue, in front; the repositories keep what they have stored.       *)
ReceiverRestarts ==
    /\ lives < MaxLives
    /\ lives' = lives + 1
    /\ \E order \in SetToSeqs(Prefetched) :
          LET back == [k \in DOMAIN order |-> taken[order[k][1]][order[k][2]]]
          IN  /\ \A i, j \in DOMAIN back : i < j => back[i] <= back[j]
              /\ queue' = back \o queue
    /\ LET begun == {Head(taken[c]) : c \in Busy}
           waiting == {content[n] : n \in ToSet(endpoint)}
       IN  lost' = lost \cup (Repositories \X (begun \cup waiting))
                        \cup (IF pc = "idle" THEN {} ELSE ToReach \X {content[message]})
    /\ taken' = [c \in Consumers |-> <<>>]
    /\ endpoint' = <<>> /\ pc' = "idle" /\ todo' = <<>>
    /\ UNCHANGED <<registered, sent, message, received, stable, missed, sets, content>>
-----------------------------------------------------------------------------
(* The whiteboard's steps.  A set is lost to a repository that is not there. *)
WhiteboardEnter ==
    /\ Enter
    /\ Lose(IF registered = {} THEN Repositories ELSE {}, {content[Head(endpoint)]})
    /\ UNCHANGED routeVars

WhiteboardIterate ==
    /\ Iterate
    /\ Lose(Repositories \ ToSet(todo'), {content[message]})
    /\ UNCHANGED routeVars

(* The invocation of a repository stores the set; that of the dispatcher   *)
(* to the broker sends it to the queue from which it came.                 *)
Store ==
    /\ Invoke
    /\ Head(todo) # activemq
    /\ UNCHANGED <<routeVars, lost>>

Forward ==
    /\ Invoke
    /\ Head(todo) = activemq
    /\ Len(received[activemq]) < MaxForwards
    /\ queue' = Append(queue, content[message])
    /\ UNCHANGED <<sets, taken, lives, content, lost>>

(* An invocation throws: Newts has stored the samples before the one that  *)
(* cannot be converted, and the services behind it do not see the set.     *)
StoreThrows ==
    /\ InvokeThrows
    /\ Lose(Repositories \cap ToSet(Tail(todo)), {content[message]})
    /\ UNCHANGED routeVars

WhiteboardFinish == Finish /\ UNCHANGED <<routeVars, lost>>

Services ==
    /\ \E s \in WbServices : Register(s) \/ Unregister(s)
    /\ UNCHANGED <<routeVars, lost>>

ConsumerStep(c) == Take(c) \/ PassOn(c) \/ PassOnFails(c)

WhiteboardStep ==
    WhiteboardEnter \/ WhiteboardIterate \/ Store \/ Forward \/ StoreThrows \/ WhiteboardFinish

PipelineNext ==
    \/ Dispatch \/ BrokerRestarts \/ ReceiverRestarts \/ Services
    \/ \E c \in Consumers : ConsumerStep(c)
    \/ WhiteboardStep

(* Consumers and the whiteboard's thread go on with what they find.        *)
PipelineSpec ==
    /\ PipelineInit /\ [][PipelineNext]_pipelineVars
    /\ \A c \in Consumers : WF_pipelineVars(ConsumerStep(c))
    /\ WF_pipelineVars(WhiteboardStep)
-----------------------------------------------------------------------------
PipelineTypeOK ==
    /\ TypeOK
    /\ sets \in 0..MaxSets
    /\ queue \in Seq(Sets)
    /\ taken \in [Consumers -> Seq(Sets)]
    /\ lives \in 1..MaxLives
    /\ content \in Seq(Sets) /\ Len(content) = sent
    /\ lost \subseteq Repositories \X Sets

(* Consumers overtake one another, but what each takes stays in order: as  *)
(* long as nothing is sent again, the sets that a repository sees in       *)
(* descending order are at most as many as there are consumers in all the  *)
(* lives of the receiver.                                                  *)
FewOutOfOrder ==
    received[activemq] = <<>> =>
       \A r \in Repositories : \A D \in SUBSET DOMAIN SetsOf(r) :
          (\A i, j \in D : i < j => SetsOf(r)[i] > SetsOf(r)[j])
             => Cardinality(D) <= lives * Cardinality(Consumers)

(* How often x is in a sequence.                                           *)
Times(x, q) == Cardinality({k \in DOMAIN q : q[k] = x})

(* A repository stores a set once, and once more each time the receiver    *)
(* itself has sent it to the broker again.                                 *)
OnceUnlessForwarded ==
    \A r \in Repositories : \A x \in Sets :
       Times(x, SetsOf(r)) <= 1 + Times(x, SetsOf(activemq))

(* Every set reaches each repository, unless a restart, a failure or the   *)
(* repository's absence has cost a copy of it.                             *)
StoredUnlessLost ==
    \A r \in Repositories : \A x \in Sets :
       sets >= x ~> Contains(SetsOf(r), x) \/ <<r, x>> \in lost

-----------------------------------------------------------------------------
(* A copy of set x is on its way to repository r: in the queue, with a     *)
(* consumer, at the whiteboard's endpoint, or in the message that is being *)
(* dispatched, with r among the services still to be invoked.              *)
UnderWay(r, x) ==
    \/ Contains(queue, x)
    \/ \E c \in Consumers : Contains(taken[c], x)
    \/ \E k \in DOMAIN endpoint : content[endpoint[k]] = x
    \/ pc = "checked" /\ content[message] = x
    \/ pc = "invoking" /\ content[message] = x /\ Contains(todo, r)

Open == {p \in Repositories \X Sets : UnderWay(p[1], p[2])}

Stored == [r \in Repositories |-> SetsOf(r)]

(* The route implements the abstract delivery: no set vanishes on its way  *)
(* and none appears from nowhere, whatever restarts, throws, comes and     *)
(* goes.                                                                   *)
Way == INSTANCE Delivery WITH submitted <- sets, open <- Open, stored <- Stored

ImplementsDelivery == Way!DeliverySpec
=============================================================================
