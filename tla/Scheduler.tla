------------------------------ MODULE Scheduler ------------------------------
(***************************************************************************)
(* The sampler's scheduler: org.opennms.netmgt.sampler.scheduler.Scheduler *)
(* and the java.util.concurrent executor behind it, as far as the code     *)
(* relies on it.  Three parties run concurrently: the thread that calls    *)
(* schedule(), the pool threads that run the periodic tasks, and the OSGi  *)
(* registry that binds and unbinds dispatchers.                            *)
(*                                                                         *)
(* schedule() is called by one thread at a time: the only caller is the    *)
(* single consumer of seda:scheduleAgents (module SamplerConfig).          *)
(* Time is abstracted: a task that waits in the delay queue may start      *)
(* whenever a pool thread is free.                                         *)
(***************************************************************************)
EXTENDS Naturals, Sequences, FiniteSets

CONSTANTS
    Ids,              \* PackageAgentList.getId()
    Services,         \* service names
    ServiceOf,        \* the service of a PackageAgentList id
    Agents,           \* the agents that packages select
    AgentLists,       \* the agent lists that callers pass
    Dispatchers,      \* the AgentDispatcher services of the OSGi registry
    ServiceName,      \* their property sampler.scheduler.serviceName
    Workers,          \* the threads of the pool
    MaxCalls,         \* bound on the calls of schedule()
    NULL_DISPATCHER,  \* the dispatcher that drops every request
    NoDispatcher,     \* ConcurrentHashMap.get() found nothing
    NoTask,           \* a pool thread that runs no task
    NotLookedUp       \* a task that has not called getDispatcher() yet

ASSUME SchedulerAssumption ==
    /\ ServiceOf \in [Ids -> Services]
    /\ ServiceName \in [Dispatchers -> Services]
    /\ AgentLists \subseteq Seq(Agents)
    /\ MaxCalls \in Nat
    /\ {NULL_DISPATCHER, NoDispatcher, NotLookedUp} \cap Dispatchers = {}
    /\ NULL_DISPATCHER # NoDispatcher
    /\ NULL_DISPATCHER # NotLookedUp
    /\ NoDispatcher # NotLookedUp

(* getInterval() is a Long.  What matters is whether it can be unboxed and *)
(* whether scheduleAtFixedRate() accepts it as a period.                   *)
Intervals == {"null", "nonpositive", "positive"}

(* A ScheduledFuture: position pos of the list of the call-th schedule().  *)
Future == [call : Nat, pos : Nat, id : Ids, agent : Agents]

Positions == UNION {DOMAIN list : list \in AgentLists}

ASSUME NoTaskAssumption == NoTask \notin Future

VARIABLES
    m_dispatchers,  \* service name -> the dispatcher bound last, if it is still there
    m_schedules,    \* id -> the futures of the last list that was accepted
    \* the executor
    queued,         \* the futures that wait in the delay queue
    cancelled,      \* the futures whose cancel() took effect
    failed,         \* the futures whose task threw: never run again
    running,        \* pool thread -> the future it runs
    target,         \* pool thread -> the dispatcher its run looked up
    \* the call of schedule() in progress
    pc,             \* "idle", or "busy" between entry and return
    curId, curList, curInterval,
    cancelling,     \* the old futures that are still to be cancelled
    futures,        \* the local list of new futures
    calls,          \* number of calls so far
    \* the OSGi registry
    registered,     \* the dispatchers that are bound
    lastBound       \* service -> the dispatcher that was bound last

tableVars == <<m_dispatchers, registered, lastBound>>
execVars  == <<queued, cancelled, failed, running, target>>
callVars  == <<pc, curId, curList, curInterval, cancelling, futures, calls>>
vars      == <<tableVars, m_schedules, execVars, callVars>>

Started == {running[w] : w \in Workers} \ {NoTask}

(* The futures that still poll: waiting or running, and not cancelled.     *)
Live == (queued \cup Started) \ cancelled

TypeOK ==
    /\ m_dispatchers \in [Services -> Dispatchers \cup {NoDispatcher}]
    /\ m_schedules \in [Ids -> SUBSET Future]
    /\ queued \in SUBSET Future
    /\ cancelled \in SUBSET Future
    /\ failed \in SUBSET Future
    /\ running \in [Workers -> Future \cup {NoTask}]
    /\ target \in [Workers -> Dispatchers \cup {NULL_DISPATCHER, NotLookedUp}]
    /\ pc \in {"idle", "busy"}
    /\ curId \in Ids
    /\ curList \in Seq(Agents)
    /\ curInterval \in Intervals
    /\ cancelling \in SUBSET Future
    /\ futures \in SUBSET Future /\ IsFiniteSet(futures)
    /\ calls \in Nat
    /\ registered \in SUBSET Dispatchers
    /\ lastBound \in [Services -> Dispatchers \cup {NoDispatcher}]

Init ==
    /\ m_dispatchers = [s \in Services |-> NoDispatcher]
    /\ m_schedules = [i \in Ids |-> {}]
    /\ queued = {} /\ cancelled = {} /\ failed = {}
    /\ running = [w \in Workers |-> NoTask]
    /\ target = [w \in Workers |-> NotLookedUp]
    /\ pc = "idle"
    /\ curId \in Ids /\ curList = <<>> /\ curInterval = "positive"
    /\ cancelling = {} /\ futures = {} /\ calls = 0
    /\ registered = {}
    /\ lastBound = [s \in Services |-> NoDispatcher]

-----------------------------------------------------------------------------
(* The dispatcher table. *)

(* Mutant: a missing dispatcher is returned as it is. *)
getDispatcherNoFallback(s) == m_dispatchers[s]

getDispatcher(s) ==
    IF m_dispatchers[s] = NoDispatcher THEN NULL_DISPATCHER ELSE m_dispatchers[s]

setDispatcher(s, d) == m_dispatchers' = [m_dispatchers EXCEPT ![s] = d]

(* Mutant: remove(service) in place of remove(service, dispatcher). *)
removeDispatcherByKey(s, d) ==
    m_dispatchers' = [m_dispatchers EXCEPT ![s] = NoDispatcher]

(* ConcurrentHashMap.remove(key, value): only if d is the current value.   *)
removeDispatcher(s, d) ==
    m_dispatchers' = [m_dispatchers EXCEPT ![s] = IF @ = d THEN NoDispatcher ELSE @]

(* The registry offers a dispatcher.  The reference-list's filter lets no  *)
(* service through that has no service name.                               *)
onDispatcherBind(d) ==
    /\ d \notin registered
    /\ setDispatcher(ServiceName[d], d)
    /\ registered' = registered \cup {d}
    /\ lastBound' = [lastBound EXCEPT ![ServiceName[d]] = d]
    /\ UNCHANGED <<m_schedules, execVars, callVars>>

onDispatcherUnbind(d) ==
    /\ d \in registered
    /\ removeDispatcher(ServiceName[d], d)
    /\ registered' = registered \ {d}
    /\ UNCHANGED <<lastBound, m_schedules, execVars, callVars>>

-----------------------------------------------------------------------------
(* schedule(agentSchedule), step by step. *)

(* Mutant: the futures of an existing schedule are left alone. *)
ExistingForgotten(i) == {}

(* Mutant: the loop over the existing futures misses the first one. *)
ExistingButFirst(i) == {f \in m_schedules[i] : f.pos # 1}

Existing(i) == m_schedules[i]

(* Entry: a null interval throws before anything is touched.               *)
ScheduleEnter(i, list, interval) ==
    /\ pc = "idle"
    /\ calls < MaxCalls
    /\ calls' = calls + 1
    /\ curId' = i /\ curList' = list /\ curInterval' = interval
    /\ futures' = {}
    /\ IF interval = "null"
       THEN pc' = "idle" /\ cancelling' = {}
       ELSE pc' = "busy" /\ cancelling' = Existing(i)
    /\ UNCHANGED <<tableVars, m_schedules, execVars>>

(* future.cancel(false): no effect on a task that already threw; a run in  *)
(* progress goes on, and is the last one.                                  *)
CancelOne(f) ==
    /\ pc = "busy" /\ f \in cancelling
    /\ cancelling' = cancelling \ {f}
    /\ cancelled' = cancelled \cup ({f} \ failed)
    /\ UNCHANGED <<tableVars, m_schedules, queued, failed, running, target,
                   pc, curId, curList, curInterval, futures, calls>>

NextPos == Cardinality(futures) + 1

(* scheduleAtFixedRate() for the next agent; a period that is not positive *)
(* throws out of schedule() and m_schedules keeps the old futures.         *)
SubmitOne ==
    /\ pc = "busy" /\ cancelling = {} /\ NextPos <= Len(curList)
    /\ IF curInterval = "positive"
       THEN LET f == [call |-> calls, pos |-> NextPos,
                      id |-> curId, agent |-> curList[NextPos]]
            IN  queued' = queued \cup {f} /\ futures' = futures \cup {f}
                /\ UNCHANGED pc
       ELSE pc' = "idle" /\ UNCHANGED <<queued, futures>>
    /\ UNCHANGED <<tableVars, m_schedules, cancelled, failed, running, target,
                   curId, curList, curInterval, cancelling, calls>>

(* Mutant: putIfAbsent() in place of put(). *)
PutFuturesIfAbsent(i) ==
    IF m_schedules[i] = {} THEN [m_schedules EXCEPT ![i] = futures] ELSE m_schedules

PutFutures(i) == [m_schedules EXCEPT ![i] = futures]

Publish ==
    /\ pc = "busy" /\ cancelling = {} /\ NextPos > Len(curList)
    /\ m_schedules' = PutFutures(curId)
    /\ pc' = "idle"
    /\ UNCHANGED <<tableVars, execVars, curId, curList, curInterval, cancelling,
                   futures, calls>>

-----------------------------------------------------------------------------
(* The pool threads. *)

(* A thread takes a task from the queue; FutureTask runs it only while it  *)
(* has not been cancelled.                                                 *)
StartRun(w, f) ==
    /\ running[w] = NoTask
    /\ f \in queued \ cancelled
    /\ queued' = queued \ {f}
    /\ running' = [running EXCEPT ![w] = f]
    /\ target' = [target EXCEPT ![w] = NotLookedUp]
    /\ UNCHANGED <<tableVars, m_schedules, cancelled, failed, callVars>>

(* A cancelled task leaves the queue only when its delay has elapsed and a *)
(* thread takes it.                                                        *)
Purge(f) ==
    /\ \E w \in Workers : running[w] = NoTask
    /\ f \in queued \cap cancelled
    /\ queued' = queued \ {f}
    /\ UNCHANGED <<tableVars, m_schedules, cancelled, failed, running, target,
                   callVars>>

(* run(): the dispatcher is looked up here and called in the next step.    *)
LookUp(w) ==
    /\ running[w] # NoTask
    /\ target[w] = NotLookedUp
    /\ target' = [target EXCEPT ![w] = getDispatcher(ServiceOf[running[w].id])]
    /\ UNCHANGED <<tableVars, m_schedules, queued, cancelled, failed, running,
                   callVars>>

Dispatching(w) == running[w] # NoTask /\ target[w] # NotLookedUp

(* Mutant: schedule() in place of scheduleAtFixedRate(). *)
RequeueNever(f) == queued

(* scheduleAtFixedRate(): a task that returned waits for its next period. *)
Requeue(f) == IF f \in cancelled THEN queued ELSE queued \cup {f}

(* dispatch() returned: the period is started again unless cancelled.      *)
DispatchReturns(w) ==
    /\ Dispatching(w)
    /\ queued' = Requeue(running[w])
    /\ running' = [running EXCEPT ![w] = NoTask]
    /\ target' = [target EXCEPT ![w] = NotLookedUp]
    /\ UNCHANGED <<tableVars, m_schedules, cancelled, failed, callVars>>

(* dispatch() threw: the executor suppresses every later execution.  The   *)
(* null dispatcher only logs.                                              *)
DispatchThrows(w) ==
    /\ Dispatching(w) /\ target[w] # NULL_DISPATCHER
    /\ failed' = failed \cup ({running[w]} \ cancelled)
    /\ running' = [running EXCEPT ![w] = NoTask]
    /\ target' = [target EXCEPT ![w] = NotLookedUp]
    /\ UNCHANGED <<tableVars, m_schedules, queued, cancelled, callVars>>

-----------------------------------------------------------------------------
Bindings == \E d \in Dispatchers : onDispatcherBind(d) \/ onDispatcherUnbind(d)

Scheduling ==
    \/ \E i \in Ids, list \in AgentLists, interval \in Intervals :
          ScheduleEnter(i, list, interval)
    \/ \E f \in cancelling : CancelOne(f)
    \/ SubmitOne
    \/ Publish

Execution ==
    \/ \E w \in Workers, f \in queued : StartRun(w, f)
    \/ \E f \in queued : Purge(f)
    \/ \E w \in Workers : LookUp(w) \/ DispatchReturns(w) \/ DispatchThrows(w)

Next == Bindings \/ Scheduling \/ Execution

Spec == Init /\ [][Next]_vars

(* A call of schedule() that was begun and a run that was started go on;   *)
(* and the delay queue, ordered by time, lets no due task be overtaken for *)
(* ever, however often the threads are busy.  Nothing obliges anybody to   *)
(* call schedule(), to bind or to unbind.                                  *)
Fairness ==
    /\ WF_vars(SubmitOne \/ Publish \/ \E f \in cancelling : CancelOne(f))
    /\ \A w \in Workers : WF_vars(LookUp(w) \/ DispatchReturns(w) \/ DispatchThrows(w))
    /\ \A i \in Ids, k \in Positions :
          SF_vars(\E w \in Workers, f \in queued :
                     f.id = i /\ f.pos = k /\ StartRun(w, f))

FairSpec == Spec /\ Fairness

-----------------------------------------------------------------------------
(* Properties. *)

(* The polls of one package and service that are alive come from one call  *)
(* of schedule(), at every moment: in the middle of a replacement, after a *)
(* replacement that failed, and with runs of the old list in flight.       *)
OneGeneration == \A f, g \in Live : f.id = g.id => f.call = g.call

(* No orphan: whatever polls can be cancelled by the next schedule(), since *)
(* m_schedules holds its future, or the call in progress will put it there. *)
NoOrphan ==
    \A f \in Live : f \in m_schedules[f.id] \/ (pc = "busy" /\ f \in futures)

(* Between calls the futures of an id are all cancelled or none of them is: *)
(* a call that fails leaves no half of a list polling.                      *)
AllOrNothing ==
    pc = "idle" => \A i \in Ids : \/ m_schedules[i] \cap cancelled = {}
                                  \/ m_schedules[i] \subseteq cancelled \cup failed

(* The table never points to a dispatcher that was unbound, and the one    *)
(* bound last is found as long as it is there, in whatever order others    *)
(* were unbound.                                                           *)
DispatcherTable ==
    \A s \in Services :
       /\ m_dispatchers[s] \in registered \cup {NoDispatcher}
       /\ lastBound[s] \in registered => m_dispatchers[s] = lastBound[s]

(* A poll that is in the table, neither cancelled nor failed, keeps         *)
(* reaching the dispatcher of its service: if one stays bound, the poll is *)
(* dispatched to it, even after runs that found no dispatcher.             *)
PollsReachDispatcher ==
    \A c \in 1..MaxCalls, k \in Positions, d \in Dispatchers :
       LET Waiting == \E i \in Ids : /\ m_dispatchers[ServiceOf[i]] = d
                                    /\ \E f \in m_schedules[i] \ (cancelled \cup failed) :
                                          f.call = c /\ f.pos = k
           Reached == \E w \in Workers : /\ running[w] # NoTask
                                         /\ running[w].call = c
                                         /\ running[w].pos = k
                                         /\ target[w] = d
       IN  Waiting ~> Reached \/ ~Waiting

(* The scheduler implements the table of polls.                            *)
Table == INSTANCE PollTable WITH live <- Live, retired <- cancelled \cup failed
ImplementsPollTable == Table!TableSpec
-----------------------------------------------------------------------------
(* The inductive invariant: why OneGeneration, NoOrphan and AllOrNothing   *)
(* hold.                                                                   *)

(* Every future that the executor ever got.                                *)
Known == queued \cup Started \cup cancelled \cup failed

(* A future is in one place: it waits, or one thread runs it, or it failed. *)
OnePlace ==
    /\ queued \cap Started = {}
    /\ failed \cap (queued \cup Started) = {}
    /\ \A v, w \in Workers : running[v] = running[w] => v = w \/ running[v] = NoTask

(* Futures are numbered by their call; while a call is in progress, those  *)
(* with its number are exactly the ones it submitted, in the order of its  *)
(* list, and none of them was cancelled.                                   *)
Numbered ==
    /\ \A f \in Known : f.call <= calls
    /\ pc = "busy" =>
          /\ \A f \in futures : /\ f.call = calls /\ f.id = curId
                                /\ f.pos <= Cardinality(futures)
                                /\ f \notin cancelled
          /\ \A f \in Known : f.call = calls => f \in futures

(* The table holds, per id, the futures of one call, and not of the call   *)
(* in progress.                                                            *)
Filed ==
    \A i \in Ids :
       /\ \A f \in m_schedules[i] :
             f.id = i /\ f.call <= calls /\ (pc = "busy" => f.call < calls)
       /\ \A f, g \in m_schedules[i] : f.call = g.call

(* The old futures are all cancelled before the first new one is submitted, *)
(* and a period that is refused is refused for the first of them.          *)
CancelFirst ==
    pc = "busy" =>
       /\ cancelling \subseteq m_schedules[curId]
       /\ m_schedules[curId] \subseteq cancelled \cup failed \cup cancelling
       /\ futures # {} => cancelling = {} /\ curInterval = "positive"

(* Ids that no call is replacing are whole. *)
OthersWhole ==
    \A i \in Ids : \/ pc = "busy" /\ i = curId
                   \/ m_schedules[i] \cap cancelled = {}
                   \/ m_schedules[i] \subseteq cancelled \cup failed

(* No future of the table or of the call in progress was forgotten by the  *)
(* executor.                                                               *)
Accounted ==
    /\ \A i \in Ids : m_schedules[i] \subseteq Known
    /\ pc = "busy" => futures \subseteq Known

Inductive == /\ OnePlace /\ Numbered /\ Filed /\ CancelFirst
             /\ OthersWhole /\ NoOrphan /\ Accounted
=============================================================================
