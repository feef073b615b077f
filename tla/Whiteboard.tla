----------------------------- MODULE Whiteboard ------------------------------
(***************************************************************************)
(* org.opennms.netmgt.api.sample.support.DispatcherWhiteboard: takes       *)
(* messages from its seda endpoint, one at a time, and invokes the method  *)
(* on every OSGi service that the tracker knows, while services come and   *)
(* go concurrently.                                                        *)
(***************************************************************************)
EXTENDS Naturals, Sequences, FiniteSets, SequencesExt

CONSTANTS WbServices,   \* the services that may be registered
          MaxMessages   \* bound on the messages sent; message n is the n-th

ASSUME WhiteboardAssumption == IsFiniteSet(WbServices) /\ MaxMessages \in Nat

VARIABLES
    registered,  \* the services that the tracker knows
    endpoint,    \* the messages that wait in the seda queue
    sent,        \* number of messages sent
    pc,          \* "idle", "checked" (after line 98) or "invoking"
    message,     \* the message being dispatched
    todo,        \* the rest of the array that line 99 iterates over
    received,    \* service -> the messages it was invoked with, in order
    stable,      \* the services registered ever since dispatch() was entered (history)
    missed       \* services that a dispatch() without an exception left out (history)

vars == <<registered, endpoint, sent, pc, message, todo, received, stable, missed>>

TypeOK ==
    /\ registered \in SUBSET WbServices
    /\ endpoint \in Seq(1..MaxMessages)
    /\ sent \in 0..MaxMessages
    /\ pc \in {"idle", "checked", "invoking"}
    /\ message \in 0..MaxMessages
    /\ todo \in Seq(WbServices)
    /\ received \in [WbServices -> Seq(1..MaxMessages)]
    /\ stable \in SUBSET WbServices
    /\ missed \in SUBSET WbServices

Init ==
    /\ registered \in SUBSET WbServices
    /\ endpoint = <<>> /\ sent = 0
    /\ pc = "idle" /\ message = 0 /\ todo = <<>>
    /\ received = [s \in WbServices |-> <<>>]
    /\ stable = {} /\ missed = {}

Send ==
    /\ sent < MaxMessages
    /\ sent' = sent + 1
    /\ endpoint' = Append(endpoint, sent + 1)
    /\ UNCHANGED <<registered, pc, message, todo, received, stable, missed>>

Register(s) ==
    /\ registered' = registered \cup {s}
    /\ s \notin registered
    /\ UNCHANGED <<endpoint, sent, pc, message, todo, received, stable, missed>>

Unregister(s) ==
    /\ s \in registered
    /\ registered' = registered \ {s}
    /\ stable' = stable \ {s}
    /\ UNCHANGED <<endpoint, sent, pc, message, todo, received, missed>>

(* Mutant: dispatch() waits for a service. *)
EnterWaits ==
    /\ pc = "idle" /\ endpoint # <<>> /\ registered # {}
    /\ message' = Head(endpoint)
    /\ endpoint' = Tail(endpoint)
    /\ pc' = "checked"
    /\ stable' = registered
    /\ UNCHANGED <<registered, sent, todo, received, missed>>

(* dispatch(): the first getServices().  Without a service the message is  *)
(* dropped with a warning.                                                 *)
Enter ==
    /\ pc = "idle" /\ endpoint # <<>>
    /\ message' = Head(endpoint)
    /\ endpoint' = Tail(endpoint)
    /\ pc' = IF registered = {} THEN "idle" ELSE "checked"
    /\ stable' = registered
    /\ UNCHANGED <<registered, sent, todo, received, missed>>

(* Mutant: only the service of the highest rank is invoked. *)
BestService == {<<s>> : s \in registered}

(* Mutant: the tracker's service references in place of its services. *)
ServiceReferences == {<<{s}>> : s \in registered}

(* The arrays that getServices() may return: every service that is         *)
(* registered, in any order.                                               *)
ServiceArrays == SetToSeqs(registered)

(* The second getServices().  When the last service has gone in between,   *)
(* it is null and the loop throws: the message is dropped.                 *)
Iterate ==
    /\ pc = "checked"
    /\ IF registered = {}
       THEN pc' = "idle" /\ todo' = <<>>
       ELSE pc' = "invoking" /\ todo' \in ServiceArrays
    /\ UNCHANGED <<registered, endpoint, sent, message, received, stable, missed>>

(* One invocation that returns.  A service that was unregistered since is  *)
(* still invoked.                                                          *)
Invoke ==
    /\ pc = "invoking" /\ todo # <<>>
    /\ received' = [received EXCEPT ![Head(todo)] = Append(@, message)]
    /\ todo' = Tail(todo)
    /\ UNCHANGED <<registered, endpoint, sent, pc, message, stable, missed>>

Got(s) == Contains(received[s], message)

Finish ==
    /\ pc = "invoking" /\ todo = <<>>
    /\ pc' = "idle"
    /\ missed' = missed \cup {s \in stable : ~Got(s)}
    /\ UNCHANGED <<registered, endpoint, sent, message, todo, received, stable>>

(* Mutant: the loop is retried when an invocation throws. *)
InvokeThrowsRetry ==
    /\ pc = "invoking" /\ todo # <<>>
    /\ received' = [received EXCEPT ![Head(todo)] = Append(@, message)]
    /\ pc' = "checked" /\ todo' = <<>>
    /\ UNCHANGED <<registered, endpoint, sent, message, stable, missed>>

(* An invocation throws: the exception is logged, and the services behind  *)
(* it do not see the message.                                              *)
InvokeThrows ==
    /\ pc = "invoking" /\ todo # <<>>
    /\ received' = [received EXCEPT ![Head(todo)] = Append(@, message)]
    /\ pc' = "idle" /\ todo' = <<>>
    /\ UNCHANGED <<registered, endpoint, sent, message, stable, missed>>

Next ==
    \/ Send \/ Enter \/ Iterate \/ Invoke \/ Finish \/ InvokeThrows
    \/ \E s \in WbServices : Register(s) \/ Unregister(s)

Spec == Init /\ [][Next]_vars

-----------------------------------------------------------------------------
(* A service sees messages in the order in which they were sent, and none  *)
(* twice, whatever throws and whoever comes and goes.                      *)
InOrderOnce ==
    \A s \in WbServices : \A i, j \in DOMAIN received[s] :
       i < j => received[s][i] < received[s][j]

(* A dispatch() in which nothing throws reaches every service that was     *)
(* registered all the time.                                                *)
ReachesStableServices == missed = {}
=============================================================================
