--------------------------- MODULE SchedulerProofs ---------------------------
(***************************************************************************)
(* Theorems about Scheduler, for every number of packages, services,       *)
(* agents, dispatchers, pool threads and calls of schedule().              *)
(***************************************************************************)
EXTENDS Scheduler, FiniteSetTheorems, TLAPS

-----------------------------------------------------------------------------
(* Type correctness. *)

(* The next position of a list is a position. *)
LEMMA NextPosType == TypeOK => NextPos \in Nat \ {0}
  BY FS_CardinalityType DEF TypeOK, NextPos

(* The future that SubmitOne creates. *)
NewFuture == [call |-> calls, pos |-> NextPos, id |-> curId, agent |-> curList[NextPos]]

(* SubmitOne passes an agent of the list to the executor. *)
LEMMA NewFutureType ==
  ASSUME TypeOK, NextPos <= Len(curList)
  PROVE  NewFuture \in Future
<1>1. NextPos \in 1..Len(curList)
  BY NextPosType
<1>2. curList[NextPos] \in Agents
  BY <1>1 DEF TypeOK
<1> QED
  BY <1>2, NextPosType DEF TypeOK, NewFuture, Future

(* A dispatcher that is looked up is a bound one or the null dispatcher.   *)
LEMMA LookUpType ==
  ASSUME TypeOK, NEW w \in Workers, running[w] # NoTask
  PROVE  getDispatcher(ServiceOf[running[w].id]) \in Dispatchers \cup {NULL_DISPATCHER}
<1>1. running[w] \in Future
  BY DEF TypeOK
<1>2. ServiceOf[running[w].id] \in Services
  BY <1>1, SchedulerAssumption DEF Future
<1> QED
  BY <1>2 DEF TypeOK, getDispatcher

(* Every variable keeps its type: in particular no thread ever calls        *)
(* dispatch() on a dispatcher that is not there, because getDispatcher()    *)
(* falls back on the null dispatcher.                                       *)
LEMMA TypeStep == TypeOK /\ [Next]_vars => TypeOK'
<1> SUFFICES ASSUME TypeOK, [Next]_vars PROVE TypeOK'
  OBVIOUS
<1>1. ASSUME NEW d \in Dispatchers, onDispatcherBind(d) PROVE TypeOK'
  BY <1>1, SchedulerAssumption
     DEF TypeOK, onDispatcherBind, setDispatcher, execVars, callVars
<1>2. ASSUME NEW d \in Dispatchers, onDispatcherUnbind(d) PROVE TypeOK'
  BY <1>2, SchedulerAssumption
     DEF TypeOK, onDispatcherUnbind, removeDispatcher, execVars, callVars
<1>3. ASSUME NEW i \in Ids, NEW list \in AgentLists, NEW interval \in Intervals,
             ScheduleEnter(i, list, interval)
      PROVE  TypeOK'
  BY <1>3, SchedulerAssumption, FS_EmptySet
     DEF TypeOK, ScheduleEnter, Existing, tableVars, execVars
<1>4. ASSUME NEW f \in cancelling, CancelOne(f) PROVE TypeOK'
  BY <1>4 DEF TypeOK, CancelOne, tableVars
<1>5. CASE SubmitOne
  <2>1. CASE curInterval = "positive"
    <3>1. futures' = futures \cup {NewFuture} /\ queued' = queued \cup {NewFuture}
      BY <1>5, <2>1 DEF SubmitOne, NewFuture
    <3>2. NewFuture \in Future
      BY <1>5, NewFutureType DEF SubmitOne
    <3>3. IsFiniteSet(futures')
      BY <3>1, FS_AddElement DEF TypeOK
    <3> QED
      BY <1>5, <2>1, <3>1, <3>2, <3>3 DEF TypeOK, SubmitOne, tableVars
  <2>2. CASE curInterval # "positive"
    BY <1>5, <2>2 DEF TypeOK, SubmitOne, tableVars
  <2> QED
    BY <2>1, <2>2
<1>6. CASE Publish
  BY <1>6 DEF TypeOK, Publish, PutFutures, tableVars, execVars
<1>7. ASSUME NEW w \in Workers, NEW f \in queued, StartRun(w, f) PROVE TypeOK'
  BY <1>7 DEF TypeOK, StartRun, tableVars, callVars
<1>8. ASSUME NEW f \in queued, Purge(f) PROVE TypeOK'
  BY <1>8 DEF TypeOK, Purge, tableVars, callVars
<1>9. ASSUME NEW w \in Workers, LookUp(w) PROVE TypeOK'
  BY <1>9, LookUpType DEF TypeOK, LookUp, tableVars, callVars
<1>10. ASSUME NEW w \in Workers, DispatchReturns(w) PROVE TypeOK'
  BY <1>10 DEF TypeOK, DispatchReturns, Dispatching, Requeue, tableVars, callVars
<1>11. ASSUME NEW w \in Workers, DispatchThrows(w) PROVE TypeOK'
  BY <1>11 DEF TypeOK, DispatchThrows, Dispatching, tableVars, callVars
<1>12. CASE UNCHANGED vars
  BY <1>12 DEF TypeOK, vars, tableVars, execVars, callVars
<1> QED
  BY <1>1, <1>2, <1>3, <1>4, <1>5, <1>6, <1>7, <1>8, <1>9, <1>10, <1>11, <1>12
     DEF Next, Bindings, Scheduling, Execution

(* Every variable of the scheduler has its type in every reachable state,  *)
(* and the list of new futures stays finite.                               *)
THEOREM TypeCorrect == Spec => []TypeOK
<1>1. Init => TypeOK
  BY FS_EmptySet, SchedulerAssumption DEF Init, TypeOK, Intervals
<1> QED
  BY <1>1, TypeStep, PTL DEF Spec

-----------------------------------------------------------------------------
(* The inductive invariant, one lemma per action. *)

(* Binding and unbinding does not touch futures.                           *)
LEMMA BindingsStep ==
  ASSUME Inductive, UNCHANGED <<m_schedules, execVars, callVars>>
  PROVE  Inductive'
  BY DEF Inductive, OnePlace, Numbered, Filed, CancelFirst, OthersWhole, NoOrphan,
         Accounted, Known, Live, Started, execVars, callVars

(* Entry: a number that no future has, and the old futures to be cancelled. *)
LEMMA ScheduleEnterStep ==
  ASSUME TypeOK, Inductive, NEW i \in Ids, NEW list \in AgentLists,
         NEW interval \in Intervals, ScheduleEnter(i, list, interval)
  PROVE  Inductive'
<1>1. calls \in Nat /\ calls' = calls + 1 /\ pc = "idle" /\ futures' = {}
  BY DEF TypeOK, ScheduleEnter
<1>2. UNCHANGED <<m_schedules, queued, running, cancelled, failed>>
  BY DEF ScheduleEnter, execVars
<1>3. OnePlace'
  BY <1>2 DEF Inductive, OnePlace, Started
<1>4. Numbered'
  <2>1. Known' = Known /\ \A f \in Known : f \in Future
    BY <1>2 DEF TypeOK, Known, Started
  <2>2. \A f \in Known : f.call <= calls /\ f.call \in Nat
    BY <2>1 DEF Inductive, Numbered, Future
  <2> QED
    BY <1>1, <2>1, <2>2 DEF Numbered
<1>5. Filed'
  <2>1. \A j \in Ids : \A f \in m_schedules[j] : f.call \in Nat
    BY DEF TypeOK, Future
  <2> QED
    BY <1>1, <1>2, <2>1 DEF Inductive, Filed
<1>6. CancelFirst'
  BY <1>1, <1>2 DEF CancelFirst, ScheduleEnter, Existing
<1>7. OthersWhole'
  BY <1>1, <1>2 DEF Inductive, OthersWhole
<1>8. NoOrphan'
  BY <1>1, <1>2 DEF Inductive, NoOrphan, Live, Started
<1>9. Accounted'
  BY <1>1, <1>2 DEF Inductive, Accounted, Known, Started
<1> QED
  BY <1>3, <1>4, <1>5, <1>6, <1>7, <1>8, <1>9 DEF Inductive

(* What is cancelled is of an earlier call and of the id being replaced.   *)
LEMMA CancelOneStep ==
  ASSUME TypeOK, Inductive, NEW f \in cancelling, CancelOne(f)
  PROVE  Inductive'
<1>1. /\ UNCHANGED <<m_schedules, queued, running, failed, pc, calls, futures, curId>>
      /\ cancelled' = cancelled \cup ({f} \ failed) /\ pc = "busy"
      /\ cancelling' = cancelling \ {f} /\ curInterval' = curInterval
  BY DEF CancelOne
<1>2. f \in m_schedules[curId] /\ f.id = curId /\ f.call < calls /\ f.call \in Nat
  BY <1>1 DEF TypeOK, Inductive, CancelFirst, Filed, Future
<1>3. f \notin futures
  BY <1>1, <1>2 DEF TypeOK, Inductive, Numbered
<1>4. OnePlace'
  BY <1>1 DEF Inductive, OnePlace, Started
<1>5. Numbered'
  BY <1>1, <1>2, <1>3 DEF TypeOK, Inductive, Numbered, Known, Started
<1>6. Filed'
  BY <1>1 DEF Inductive, Filed
<1>7. CancelFirst'
  BY <1>1 DEF Inductive, CancelFirst
<1>8. OthersWhole'
  BY <1>1, <1>2 DEF Inductive, OthersWhole, Filed
<1>9. NoOrphan'
  BY <1>1 DEF Inductive, NoOrphan, Live, Started
<1>10. Accounted'
  BY <1>1 DEF Inductive, Accounted, Known, Started
<1> QED
  BY <1>4, <1>5, <1>6, <1>7, <1>8, <1>9, <1>10 DEF Inductive

(* The future that is submitted is new: its position is greater than those *)
(* of the other futures of the call.                                       *)
LEMMA SubmitOneStep ==
  ASSUME TypeOK, Inductive, SubmitOne
  PROVE  Inductive'
<1>1. /\ UNCHANGED <<m_schedules, running, failed, cancelled, calls, curId>>
      /\ cancelling = {} /\ cancelling' = {} /\ curInterval' = curInterval
      /\ pc = "busy"
  BY DEF SubmitOne
<1>2. m_schedules[curId] \subseteq cancelled \cup failed
  BY <1>1 DEF Inductive, CancelFirst
<1>3. CASE curInterval = "positive"
  <2>1. /\ futures' = futures \cup {NewFuture} /\ queued' = queued \cup {NewFuture}
        /\ pc' = "busy"
    BY <1>1, <1>3 DEF SubmitOne, NewFuture
  <2>2. NewFuture.call = calls /\ NewFuture.id = curId /\ NewFuture.pos = NextPos
    BY DEF NewFuture
  <2>3. NextPos = Cardinality(futures) + 1 /\ Cardinality(futures) \in Nat
    BY FS_CardinalityType DEF TypeOK, NextPos
  <2>4. NewFuture \notin futures
    BY <1>1, <2>2, <2>3 DEF TypeOK, Inductive, Numbered, Future
  <2>5. NewFuture \notin Known
    BY <1>1, <2>2, <2>4 DEF Inductive, Numbered
  <2>6. Cardinality(futures') = Cardinality(futures) + 1
    BY <2>1, <2>4, FS_AddElement DEF TypeOK
  <2>7. OnePlace'
    BY <1>1, <2>1, <2>5 DEF Inductive, OnePlace, Known, Started
  <2>8. Numbered'
    <3>1. calls \in Nat /\ \A f \in futures : f.pos \in Nat
      BY DEF TypeOK, Future
    <3> QED
      BY <1>1, <2>1, <2>2, <2>3, <2>5, <2>6, <3>1 DEF Inductive, Numbered, Known, Started
  <2>9. Filed'
    BY <1>1, <2>1 DEF Inductive, Filed
  <2>10. CancelFirst'
    BY <1>1, <1>2, <1>3, <2>1 DEF CancelFirst
  <2>11. OthersWhole'
    BY <1>1, <2>1 DEF Inductive, OthersWhole
  <2>12. NoOrphan'
    BY <1>1, <2>1 DEF Inductive, NoOrphan, Live, Started
  <2>13. Accounted'
    BY <1>1, <2>1 DEF Inductive, Accounted, Known, Started
  <2> QED
    BY <2>7, <2>8, <2>9, <2>10, <2>11, <2>12, <2>13 DEF Inductive
<1>4. CASE curInterval # "positive"
  <2>1. futures = {} /\ futures' = {} /\ queued' = queued /\ pc' = "idle"
    BY <1>1, <1>4 DEF SubmitOne, Inductive, CancelFirst
  <2>2. OnePlace' /\ CancelFirst'
    BY <1>1, <2>1 DEF Inductive, OnePlace, CancelFirst, Started
  <2>3. Numbered'
    BY <1>1, <2>1 DEF Inductive, Numbered, Known, Started
  <2>4. Filed'
    BY <1>1, <2>1 DEF Inductive, Filed
  <2>5. OthersWhole'
    BY <1>1, <1>2, <2>1 DEF Inductive, OthersWhole
  <2>6. NoOrphan'
    BY <1>1, <2>1 DEF Inductive, NoOrphan, Live, Started
  <2>7. Accounted'
    BY <1>1, <2>1 DEF Inductive, Accounted, Known, Started
  <2> QED
    BY <2>2, <2>3, <2>4, <2>5, <2>6, <2>7 DEF Inductive
<1> QED
  BY <1>3, <1>4

(* What put() drops from the table was cancelled or had failed.            *)
LEMMA PublishStep ==
  ASSUME TypeOK, Inductive, Publish
  PROVE  Inductive'
<1>1. /\ UNCHANGED <<queued, running, failed, cancelled, calls, futures>>
      /\ m_schedules' = [m_schedules EXCEPT ![curId] = futures]
      /\ pc = "busy" /\ pc' = "idle" /\ cancelling = {}
  BY DEF Publish, PutFutures, execVars
<1>2. m_schedules[curId] \subseteq cancelled \cup failed
  BY <1>1 DEF Inductive, CancelFirst
<1>3. m_schedules' \in [Ids -> SUBSET Future] /\ curId \in Ids
  BY <1>1 DEF TypeOK
<1>4. /\ m_schedules'[curId] = futures
      /\ \A i \in Ids \ {curId} : m_schedules'[i] = m_schedules[i]
  BY <1>1 DEF TypeOK
<1>5. calls \in Nat /\ \A f \in futures : /\ f \in Future /\ f.id = curId
                                        /\ f.call = calls /\ f \notin cancelled
  BY <1>1 DEF TypeOK, Inductive, Numbered
<1>6. OnePlace'
  BY <1>1 DEF Inductive, OnePlace, Started
<1>7. Numbered'
  BY <1>1 DEF Inductive, Numbered, Known, Started
<1>8. Filed'
  <2> SUFFICES ASSUME NEW i \in Ids
               PROVE  /\ \A f \in m_schedules'[i] : f.id = i /\ f.call <= calls
                      /\ \A f, g \in m_schedules'[i] : f.call = g.call
    BY <1>1 DEF Filed
  <2>1. CASE i = curId
    BY <2>1, <1>4, <1>5
  <2>2. CASE i # curId
    BY <2>2, <1>4 DEF Inductive, Filed
  <2> QED
    BY <2>1, <2>2
<1>9. CancelFirst'
  BY <1>1 DEF CancelFirst
<1>10. OthersWhole'
  <2> SUFFICES ASSUME NEW i \in Ids
               PROVE  \/ m_schedules'[i] \cap cancelled = {}
                      \/ m_schedules'[i] \subseteq cancelled \cup failed
    BY <1>1 DEF OthersWhole
  <2>1. CASE i = curId
    BY <2>1, <1>4, <1>5
  <2>2. CASE i # curId
    BY <2>2, <1>4 DEF Inductive, OthersWhole
  <2> QED
    BY <2>1, <2>2
<1>11. NoOrphan'
  <2> SUFFICES ASSUME NEW f \in Live PROVE f \in m_schedules'[f.id]
    BY <1>1 DEF NoOrphan, Live, Started
  <2>1. f \in Future /\ f.id \in Ids
    BY DEF TypeOK, Live, Started, Future
  <2>2. CASE f \in m_schedules[f.id]
    <3>1. f \notin cancelled \cup failed
      BY DEF Inductive, OnePlace, Live
    <3>2. f.id # curId
      BY <1>2, <2>2, <3>1
    <3> QED
      BY <1>4, <2>1, <2>2, <3>2
  <2>3. CASE f \in futures
    BY <2>3, <1>4, <1>5
  <2> QED
    BY <1>1, <2>2, <2>3 DEF Inductive, NoOrphan
<1>12. Accounted'
  <2>1. Known' = Known
    BY <1>1 DEF Known, Started
  <2> QED
    BY <1>1, <1>4, <2>1 DEF Inductive, Accounted
<1> QED
  BY <1>6, <1>7, <1>8, <1>9, <1>10, <1>11, <1>12 DEF Inductive

(* Futures that change place or go, while schedule() stands still.         *)
LEMMA ExecutionStep ==
  ASSUME TypeOK, Inductive, UNCHANGED <<m_schedules, callVars, cancelled>>,
         Live' \subseteq Live, Known' = Known, failed \subseteq failed', OnePlace'
  PROVE  Inductive'
<1>1. UNCHANGED <<m_schedules, calls, pc, curId, curInterval, cancelling, futures, cancelled>>
  BY DEF callVars
<1>2. Numbered'
  BY <1>1 DEF Inductive, Numbered
<1>3. Filed'
  BY <1>1 DEF Inductive, Filed
<1>4. CancelFirst' /\ OthersWhole'
  BY <1>1 DEF Inductive, CancelFirst, OthersWhole
<1>5. NoOrphan' /\ Accounted'
  BY <1>1 DEF Inductive, NoOrphan, Accounted
<1> QED
  BY <1>2, <1>3, <1>4, <1>5 DEF Inductive

(* A thread that takes a task runs it in addition to the others.           *)
LEMMA StartedTake ==
  ASSUME TypeOK, NEW w \in Workers, NEW f \in Future, running[w] = NoTask,
         running' = [running EXCEPT ![w] = f]
  PROVE  Started' = Started \cup {f}
<1>1. /\ running'[w] = f
      /\ \A v \in Workers \ {w} : running'[v] = running[v]
  BY DEF TypeOK
<1>2. f # NoTask
  BY NoTaskAssumption
<1> QED
  BY <1>1, <1>2 DEF Started

(* A thread that is done no longer runs its task, and nobody else does.    *)
LEMMA StartedDrop ==
  ASSUME TypeOK, OnePlace, NEW w \in Workers, running[w] # NoTask,
         running' = [running EXCEPT ![w] = NoTask]
  PROVE  Started' = Started \ {running[w]}
<1>1. /\ running'[w] = NoTask
      /\ \A v \in Workers \ {w} : running'[v] = running[v]
  BY DEF TypeOK
<1>2. \A v \in Workers \ {w} : running[v] # running[w]
  BY DEF OnePlace
<1> QED
  BY <1>1, <1>2 DEF Started

(* A thread takes a task: its future moves from the queue to the thread.   *)
LEMMA StartRunStep ==
  ASSUME TypeOK, Inductive, NEW w \in Workers, NEW f \in queued, StartRun(w, f)
  PROVE  Inductive'
<1>1. /\ UNCHANGED <<m_schedules, callVars, cancelled, failed>>
      /\ queued' = queued \ {f} /\ running[w] = NoTask
      /\ running' = [running EXCEPT ![w] = f] /\ f \in Future
  BY DEF StartRun, TypeOK
<1>2. Started' = Started \cup {f}
  BY <1>1, StartedTake
<1>3. Live' = Live /\ Known' = Known
  BY <1>1, <1>2 DEF Live, Known
<1>4. OnePlace'
  <2>1. queued' \cap Started' = {} /\ failed' \cap (queued' \cup Started') = {}
    BY <1>1, <1>2 DEF Inductive, OnePlace
  <2>2. \A v \in Workers : running[v] # f
    BY <1>1, NoTaskAssumption DEF Inductive, OnePlace, Started
  <2>3. /\ running'[w] = f
        /\ \A v \in Workers \ {w} : running'[v] = running[v]
    BY <1>1 DEF TypeOK
  <2> QED
    BY <2>1, <2>2, <2>3 DEF Inductive, OnePlace
<1> QED
  BY <1>1, <1>3, <1>4, ExecutionStep

(* A thread drops a cancelled task. *)
LEMMA PurgeStep ==
  ASSUME TypeOK, Inductive, NEW f \in queued, Purge(f)
  PROVE  Inductive'
<1>1. UNCHANGED <<m_schedules, callVars, cancelled, failed, running>> /\ queued' \subseteq queued
  BY DEF Purge
<1>2. Live' = Live /\ Known' = Known
  BY <1>1 DEF Purge, Live, Known, Started
<1>3. OnePlace'
  BY <1>1 DEF Inductive, OnePlace, Started
<1> QED
  BY <1>1, <1>2, <1>3, ExecutionStep

(* A look-up does not touch futures. *)
LEMMA LookUpStep ==
  ASSUME TypeOK, Inductive, NEW w \in Workers, LookUp(w)
  PROVE  Inductive'
<1>1. UNCHANGED <<m_schedules, callVars, cancelled, failed, running, queued>>
  BY DEF LookUp
<1>2. Live' = Live /\ Known' = Known /\ OnePlace'
  BY <1>1 DEF Live, Known, Started, Inductive, OnePlace
<1> QED
  BY <1>1, <1>2, ExecutionStep

(* Where the future of a run is after it: without an exception it is back  *)
(* in the queue unless it was cancelled, with one it failed or was cancelled. *)
LEMMA RunEnds ==
  ASSUME TypeOK, Inductive, NEW w \in Workers, DispatchReturns(w) \/ DispatchThrows(w)
  PROVE  /\ UNCHANGED <<m_schedules, callVars, cancelled>>
         /\ running[w] \in Started \ (queued \cup failed)
         /\ Started' = Started \ {running[w]}
         /\ running'[w] = NoTask
         /\ \A v \in Workers \ {w} : running'[v] = running[v]
         /\ DispatchReturns(w) => failed' = failed /\ queued' = Requeue(running[w])
         /\ DispatchThrows(w) => /\ failed' = failed \cup ({running[w]} \ cancelled)
                                 /\ queued' = queued
<1>1. /\ UNCHANGED <<m_schedules, callVars, cancelled>>
      /\ running[w] # NoTask
      /\ running' = [running EXCEPT ![w] = NoTask]
      /\ DispatchReturns(w) => failed' = failed /\ queued' = Requeue(running[w])
      /\ DispatchThrows(w) => /\ failed' = failed \cup ({running[w]} \ cancelled)
                              /\ queued' = queued
  BY DEF DispatchReturns, DispatchThrows, Dispatching
<1>2. running[w] \in Started \ (queued \cup failed)
  BY <1>1 DEF Inductive, OnePlace, Started
<1>3. Started' = Started \ {running[w]}
  BY <1>1, StartedDrop DEF Inductive
<1>4. /\ running'[w] = NoTask
      /\ \A v \in Workers \ {w} : running'[v] = running[v]
  BY <1>1 DEF TypeOK
<1> QED
  BY <1>1, <1>2, <1>3, <1>4

(* The end of a run keeps the inductive invariant. *)
LEMMA RunEndsStep ==
  ASSUME TypeOK, Inductive, NEW w \in Workers, DispatchReturns(w) \/ DispatchThrows(w)
  PROVE  Inductive'
<1> DEFINE f == running[w]
<1>1. /\ UNCHANGED <<m_schedules, callVars, cancelled>>
      /\ f \in Started \ (queued \cup failed)
      /\ Started' = Started \ {f}
      /\ \/ failed' = failed /\ queued' = Requeue(f)
         \/ failed' = failed \cup ({f} \ cancelled) /\ queued' = queued
  BY RunEnds
<1>2. Live' \subseteq Live /\ Known' = Known /\ failed \subseteq failed'
  BY <1>1 DEF Live, Known, Requeue
<1>3. OnePlace'
  <2>1. queued' \cap Started' = {} /\ failed' \cap (queued' \cup Started') = {}
    BY <1>1 DEF Inductive, OnePlace, Requeue
  <2>2. /\ running'[w] = NoTask
        /\ \A v \in Workers \ {w} : running'[v] = running[v]
    BY RunEnds
  <2> QED
    BY <2>1, <2>2 DEF Inductive, OnePlace
<1> QED
  BY <1>1, <1>2, <1>3, ExecutionStep

(* Every step of the scheduler keeps the inductive invariant.              *)
LEMMA InductiveStep == TypeOK /\ Inductive /\ [Next]_vars => Inductive'
<1> SUFFICES ASSUME TypeOK, Inductive, [Next]_vars PROVE Inductive'
  OBVIOUS
<1>1. CASE Bindings
  BY <1>1, BindingsStep DEF Bindings, onDispatcherBind, onDispatcherUnbind
<1>2. CASE Scheduling
  BY <1>2, ScheduleEnterStep, CancelOneStep, SubmitOneStep, PublishStep DEF Scheduling
<1>3. CASE Execution
  BY <1>3, StartRunStep, PurgeStep, LookUpStep, RunEndsStep DEF Execution
<1>4. CASE UNCHANGED vars
  BY <1>4, BindingsStep DEF vars
<1> QED
  BY <1>1, <1>2, <1>3, <1>4 DEF Next

(* The inductive invariant holds in every reachable state: no future is in *)
(* two places, new ones are submitted only when the old ones are cancelled, *)
(* and m_schedules knows whatever can still run.                           *)
THEOREM InductiveHolds == Spec => [](TypeOK /\ Inductive)
<1>1. Init => Inductive
  BY FS_EmptySet
     DEF Init, Inductive, OnePlace, Numbered, Filed, CancelFirst, OthersWhole,
         NoOrphan, Accounted, Known, Live, Started
<1>2. Inductive /\ TypeOK /\ [Next]_vars => Inductive'
  BY InductiveStep
<1> QED
  BY <1>1, <1>2, TypeCorrect, PTL DEF Spec

-----------------------------------------------------------------------------
(* What follows from it. *)

(* All living polls of an id come from one call of schedule(), although    *)
(* the call replaces them one by one while pool threads run them.          *)
THEOREM OneGenerationHolds == Spec => []OneGeneration
<1>1. TypeOK /\ Inductive => OneGeneration
  <2> SUFFICES ASSUME TypeOK, Inductive, NEW f \in Live, NEW g \in Live, f.id = g.id
               PROVE  f.call = g.call
    BY DEF OneGeneration
  <2>1. f \in Future /\ g \in Future /\ f.id \in Ids
    BY DEF TypeOK, Live, Started, Future
  <2>2. f \notin cancelled \cup failed /\ g \notin cancelled \cup failed
    BY DEF Inductive, OnePlace, Live
  <2>3. CASE f \in m_schedules[f.id] /\ g \in m_schedules[f.id]
    BY <2>1, <2>3 DEF Inductive, Filed
  <2>4. CASE pc = "busy" /\ f \in futures /\ g \in futures
    BY <2>4 DEF Inductive, Numbered
  <2>5. CASE pc = "busy" /\ (f \in futures \/ g \in futures)
             /\ (f \in m_schedules[f.id] \/ g \in m_schedules[f.id])
    <3>1. f.id = curId
      BY <2>5 DEF Inductive, Numbered
    <3>2. m_schedules[curId] \subseteq cancelled \cup failed
      BY <2>5 DEF Inductive, CancelFirst
    <3> QED
      BY <2>2, <2>5, <3>1, <3>2
  <2> QED
    BY <2>3, <2>4, <2>5 DEF Inductive, NoOrphan
<1> QED
  BY <1>1, InductiveHolds, PTL

(* Every poll that is alive is known to the table, or will be when the     *)
(* call in progress returns: the next schedule() can cancel it.            *)
THEOREM NoOrphanHolds == Spec => []NoOrphan
<1>1. Inductive => NoOrphan
  BY DEF Inductive
<1> QED
  BY <1>1, InductiveHolds, PTL

(* A call of schedule() that fails half-way leaves no half of a list.      *)
THEOREM AllOrNothingHolds == Spec => []AllOrNothing
<1>1. Inductive => AllOrNothing
  BY DEF Inductive, OthersWhole, AllOrNothing
<1> QED
  BY <1>1, InductiveHolds, PTL

-----------------------------------------------------------------------------
(* The dispatcher table. *)

(* Dispatchers are filed under their own service name. *)
FiledByName ==
    \A s \in Services :
       /\ m_dispatchers[s] \in Dispatchers => ServiceName[m_dispatchers[s]] = s
       /\ lastBound[s] \in Dispatchers => ServiceName[lastBound[s]] = s

(* A bind and an unbind keep the table right, whichever service they are   *)
(* about.                                                                  *)
LEMMA DispatcherTableStep ==
  TypeOK /\ DispatcherTable /\ FiledByName /\ [Next]_vars => DispatcherTable' /\ FiledByName'
<1> SUFFICES ASSUME TypeOK, DispatcherTable, FiledByName, [Next]_vars
             PROVE  DispatcherTable' /\ FiledByName'
  OBVIOUS
<1>1. ASSUME NEW d \in Dispatchers, onDispatcherBind(d)
      PROVE  DispatcherTable' /\ FiledByName'
  BY <1>1, SchedulerAssumption
     DEF TypeOK, DispatcherTable, FiledByName, onDispatcherBind, setDispatcher
<1>2. ASSUME NEW d \in Dispatchers, onDispatcherUnbind(d)
      PROVE  DispatcherTable' /\ FiledByName'
  BY <1>2, SchedulerAssumption
     DEF TypeOK, DispatcherTable, FiledByName, onDispatcherUnbind, removeDispatcher
<1>3. CASE UNCHANGED tableVars
  BY <1>3 DEF DispatcherTable, FiledByName, tableVars
<1>4. CASE Scheduling \/ Execution \/ UNCHANGED vars
  BY <1>3, <1>4 DEF Scheduling, Execution, ScheduleEnter, CancelOne, SubmitOne, Publish,
        StartRun, Purge, LookUp, DispatchReturns, DispatchThrows, vars
<1> QED
  BY <1>1, <1>2, <1>4 DEF Next, Bindings

(* The table never points to a dispatcher that is gone, and finds the one  *)
(* that was bound last, in whatever order dispatchers come and go.         *)
THEOREM DispatcherTableHolds == Spec => []DispatcherTable
<1>1. Init => DispatcherTable /\ FiledByName
  BY SchedulerAssumption DEF Init, DispatcherTable, FiledByName
<1> QED
  BY <1>1, DispatcherTableStep, TypeCorrect, PTL DEF Spec

-----------------------------------------------------------------------------
(* The refinement. *)

(* The table of polls does not see a step that keeps every poll as it is.  *)
LEMMA Stutter ==
  ASSUME Live' = Live, UNCHANGED <<cancelled, failed>>
  PROVE  UNCHANGED Table!TableVars
  BY DEF Table!TableVars

(* cancel(false) retires a living poll, or does nothing. *)
LEMMA CancelOneRefines ==
  ASSUME TypeOK, Inductive, NEW f \in cancelling, CancelOne(f)
  PROVE  [Table!TableNext]_Table!TableVars
<1>1. /\ UNCHANGED <<queued, running, failed>> /\ pc = "busy"
      /\ cancelled' = cancelled \cup ({f} \ failed)
  BY DEF CancelOne
<1>2. f \in Known
  BY <1>1 DEF TypeOK, Inductive, CancelFirst, Accounted
<1>3. CASE f \in cancelled \cup failed
  <2>1. cancelled' = cancelled
    BY <1>1, <1>3
  <2> QED
    BY <1>1, <2>1, Stutter DEF Live, Started
<1>4. CASE f \notin cancelled \cup failed
  <2>1. f \in Live /\ Live' = Live \ {f} /\ (cancelled \cup failed)' = cancelled \cup failed \cup {f}
    BY <1>1, <1>2, <1>4 DEF Live, Known, Started
  <2> QED
    BY <2>1 DEF Table!TableNext, Table!Retire
<1> QED
  BY <1>3, <1>4

(* Submitting admits a poll next to polls of its own call only. *)
LEMMA SubmitOneRefines ==
  ASSUME TypeOK, Inductive, SubmitOne, OneGeneration'
  PROVE  [Table!TableNext]_Table!TableVars
<1>1. UNCHANGED <<running, failed, cancelled>> /\ pc = "busy"
  BY DEF SubmitOne
<1>2. CASE curInterval = "positive"
  <2>1. queued' = queued \cup {NewFuture}
    BY <1>2 DEF SubmitOne, NewFuture
  <2>2. NewFuture \notin Known
    <3>1. NewFuture.call = calls /\ NewFuture.pos = NextPos
      BY DEF NewFuture
    <3>2. NextPos = Cardinality(futures) + 1 /\ Cardinality(futures) \in Nat
      BY FS_CardinalityType DEF TypeOK, NextPos
    <3> QED
      BY <1>1, <3>1, <3>2 DEF Inductive, Numbered
  <2>3. NewFuture \notin Live \cup (cancelled \cup failed) /\ Live' = Live \cup {NewFuture}
    BY <1>1, <2>1, <2>2 DEF Known, Live, Started
  <2>4. \A q \in Live : q.id = NewFuture.id => q.call = NewFuture.call
    BY <2>3 DEF OneGeneration
  <2> QED
    BY <1>1, <2>3, <2>4 DEF Table!TableNext, Table!Admit
<1>3. CASE curInterval # "positive"
  BY <1>1, <1>3, Stutter DEF SubmitOne, Live, Started
<1> QED
  BY <1>2, <1>3

(* A run that ends retires its poll if it threw, and else changes nothing. *)
LEMMA RunEndsRefines ==
  ASSUME TypeOK, Inductive, NEW w \in Workers, DispatchReturns(w) \/ DispatchThrows(w)
  PROVE  [Table!TableNext]_Table!TableVars
<1> DEFINE f == running[w]
<1>1. /\ cancelled' = cancelled
      /\ f \in Started \ (queued \cup failed)
      /\ Started' = Started \ {f}
  BY RunEnds
<1>2. CASE DispatchReturns(w)
  BY <1>1, <1>2, RunEnds, Stutter DEF Live, Requeue
<1>3. CASE DispatchThrows(w)
  <2>1. failed' = failed \cup ({f} \ cancelled) /\ queued' = queued
    BY <1>3, RunEnds
  <2>2. CASE f \in cancelled
    BY <1>1, <2>1, <2>2, Stutter DEF Live
  <2>3. CASE f \notin cancelled
    <3>1. f \in Live /\ Live' = Live \ {f} /\ (cancelled \cup failed)' = cancelled \cup failed \cup {f}
      BY <1>1, <2>1, <2>3 DEF Live
    <3> QED
      BY <3>1 DEF Table!TableNext, Table!Retire
  <2> QED
    BY <2>2, <2>3
<1> QED
  BY <1>2, <1>3

(* Every step of the scheduler is a step of the table of polls or leaves   *)
(* it alone.                                                               *)
LEMMA TableStep ==
  TypeOK /\ Inductive /\ OneGeneration' /\ [Next]_vars => [Table!TableNext]_Table!TableVars
<1> SUFFICES ASSUME TypeOK, Inductive, OneGeneration', [Next]_vars
             PROVE  [Table!TableNext]_Table!TableVars
  OBVIOUS
<1>1. CASE UNCHANGED execVars
  BY <1>1, Stutter DEF execVars, Live, Started
<1>2. ASSUME NEW f \in cancelling, CancelOne(f) PROVE [Table!TableNext]_Table!TableVars
  BY <1>2, CancelOneRefines
<1>3. CASE SubmitOne
  BY <1>3, SubmitOneRefines
<1>4. ASSUME NEW w \in Workers, NEW f \in queued, StartRun(w, f)
      PROVE  [Table!TableNext]_Table!TableVars
  <2>1. Started' = Started \cup {f}
    BY <1>4, StartedTake DEF StartRun, TypeOK
  <2> QED
    BY <1>4, <2>1, Stutter DEF StartRun, Live
<1>5. ASSUME NEW f \in queued, Purge(f) PROVE [Table!TableNext]_Table!TableVars
  BY <1>5, Stutter DEF Purge, Live, Started
<1>6. ASSUME NEW w \in Workers, LookUp(w) PROVE [Table!TableNext]_Table!TableVars
  BY <1>6, Stutter DEF LookUp, Live, Started
<1>7. ASSUME NEW w \in Workers, DispatchReturns(w) \/ DispatchThrows(w)
      PROVE  [Table!TableNext]_Table!TableVars
  BY <1>7, RunEndsRefines
<1>8. CASE Bindings \/ Publish \/ UNCHANGED vars
  BY <1>1, <1>8 DEF Bindings, onDispatcherBind, onDispatcherUnbind, Publish, vars
<1>9. ASSUME NEW i \in Ids, NEW list \in AgentLists, NEW interval \in Intervals,
             ScheduleEnter(i, list, interval)
      PROVE  [Table!TableNext]_Table!TableVars
  BY <1>1, <1>9 DEF ScheduleEnter
<1> QED
  BY <1>2, <1>3, <1>4, <1>5, <1>6, <1>7, <1>8, <1>9 DEF Next, Scheduling, Execution

(* The scheduler implements the table of polls: a poll starts only next to *)
(* polls of its own list, and one that was stopped never comes back.       *)
THEOREM TableImplemented == Spec => ImplementsPollTable
<1>1. Init => Table!TableInit
  BY DEF Init, Table!TableInit, Live, Started
<1> QED
  BY <1>1, TableStep, InductiveHolds, OneGenerationHolds, PTL
     DEF Spec, ImplementsPollTable, Table!TableSpec
=============================================================================
