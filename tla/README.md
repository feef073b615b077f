# Specifications of the OpenNMS Minion and its sampler

TLA+ models of this repository: the Minion (a small OSGi container that runs at
a remote site), the Dominion (its counterpart next to the OpenNMS server), and
the sampler that runs in the Minion and collects performance data.  Every
definition is translated from the code under `src/`; `PROJECT.json` maps each
one to its lines.

## 1. The system

| Component | State | Operations | Talks to |
|---|---|---|---|
| minion-controller | id and location in ConfigurationAdmin; Camel context, routes | start, stop, saveProperty, onMessage | Dominion, over ActiveMQ |
| dominion-controller | Camel context, routes | start, stop, onMessage, sendInitializationMessage | Minions, status writer |
| dominion-status-writer | OnmsMinion records in the database | write | database |
| minion-api, minion-impl | none (messages and their XML form) | | |
| sampler-config | the bean collectdConfiguration; two timers | load, reload, split, load agents | OpenNMS REST server; scheduler, through a whiteboard |
| sampler-scheduler | table of dispatchers, table of schedules, thread pool | schedule, bind, unbind | samplers (AgentDispatcher services) |
| DispatcherWhiteboard | service tracker, seda queue | dispatch | any OSGi service of a given class |
| sampler-config-snmp | the SNMP and data collection configurations; two timers | refresh, updated, createRequestForAgent | REST server; sampler-snmp |
| sampler-snmp, sampler-jmx | none (routes) | collect | agents; whiteboard of SampleSetDispatchers |
| sample-api: SampleSet | list of samples, three lazy indexes | addMeasurement, getters | one thread at a time |
| sample-api: values, math | rows of samples | delta, roll-up, interpolation, rate | none |
| sample-api: SimpleFileRepository | two files | save, find | file system |
| sampler-routes, sample-storage-* | ActiveMQ queue, RRD, Newts | dispatch, receive, save | broker, storage libraries |
| sample-graphs | the chart of a page, requests under way | getSamples (REST); plotSamples, toSeries, drawGraph | repository, browser |
| collection-sampler | none (adapters) | | |
| camel-trap-processor | pool of five threads | process, parse | logs only |
| scripts, features | none | | |

**The handshake.**  A Minion that starts finds its id in its configuration or
draws a UUID and saves it, checks its location, opens its routes and sends a
status message "Started" to the queue `initialization`.  The Dominion takes it,
writes the record and sends an initialization message to `control-<id>`.  What
makes this hard: Minions crash and are reloaded between any two steps, the
producer is asynchronous, the broker may be away, nobody repeats a message, and
the Dominion acknowledges a message before it handles it.

**The polling.**  sampler-config loads the collectd configuration from the
server and, once, after startup, splits it into one PackageAgentList per package
and service.  These go through a whiteboard to the scheduler, which replaces the
polls of the list's id.  A pool thread runs a poll by looking up the dispatcher
of its service and calling it; the sampler collects from the agent and sends a
SampleSet through another whiteboard to the repositories.  What makes this hard:
the replacement of a list takes many steps and no lock while pool threads run its
polls, OSGi services come and go between any two steps, calls throw half-way,
and two timers load the same configuration at the same time.

**The sample sets.**  A set goes to every SampleSetDispatcher of the Minion; the
one of sampler-routes sends it to a queue of the broker, from which eight
consumers of a receiver pass it to a whiteboard in front of the repositories.
What makes this hard: messages are not persistent and are acknowledged before
they are stored, the consumers prefetch and overtake one another, a repository
may be away, and a receiver that also holds the dispatcher to the broker sends
its own sets back to the queue (a TODO in its blueprint).

`PROJECT.json` lists the hazards, each at its line, with the properties that
catch it going wrong.

## 2. Modules

| Module | Models | State and actions |
|---|---|---|
| `PollTable` | what `SchedulerService.schedule` promises | the polls that are alive and those that were stopped; `Admit`, `Retire` |
| `Scheduler` | `Scheduler.java` and the executor as the code relies on it | `m_dispatchers`, `m_schedules`; the executor's `queued`, `cancelled`, `failed`, `running`, `target`; the call of `schedule()` in progress; the OSGi registry |
| `SchedulerProofs` | | theorems about `Scheduler` |
| `Broker` | the ActiveMQ queues, from how the routes use them (external) | `initialization`, `control` |
| `MinionController` | `MinionControllerImpl.java` | per Minion the saved configuration, the phase of `start()`/`stop()`, the field `m_id`, messages in the producer's threads |
| `DominionController` | `DominionControllerImpl.java`, `MinionQueueNameProcessor.java`, the status writer | phase of `onMessage()`, records, replies in the producer's threads |
| `Handshake` | the composition of the three modules above | every step of either side, and which messages were lost |
| `HandshakeProofs` | | theorems about `Handshake` |
| `SampleSet` | `SampleSet.java` | the list, the indexes (`Null` or a map), the dirty flags; additions, queries, copies |
| `Whiteboard` | `DispatcherWhiteboard.java` | queue, tracker, position in `dispatch()`, what each service received |
| `Delivery` | what the way of a sample set to the repositories promises | which sets are on their way to which repository, stored, lost; `Submit`, `Deliver`, `Drop`, `SendAgain` |
| `Pipeline` | `sampler-routes/blueprint-activemq-*.xml` around `Whiteboard`, the repositories | the broker's queue, what each consumer has taken, which set each message of the whiteboard carries |
| `PipelineProofs` | | theorems about `Pipeline` |
| `FileRepository` | `SimpleFileRepository.save()` | the two files, position and locals of each caller |
| `StorageProofs` | | theorems about `SampleSet` and `FileRepository`, and the types of `MCStorage` |
| `SamplerConfig` | `blueprint-sampler-config.xml` and its Java beans | the bean, one position per timer, the two seda queues |
| `Polling` | the composition of `SamplerConfig` and the scheduler, with restarts | by which version of its list each id is polled |
| `PollingProofs` | | theorems about `Polling` |
| `MetricRepository` | `SnmpMetricRepository.java`, its timers in `blueprint-sampler-config-snmp.xml`, `Parser.java` | the three fields, one position in `refresh()` per thread with its local variables, readers, the versions of the server's documents |
| `MetricRepositoryProofs` | | theorems about `MetricRepository` |
| `SequenceLemmas` | | lemmas about sequences, counting in them and recursive functions, for the proofs |
| `SampleRows` | rows of gauges and the arithmetic of `GaugeValue.java`, step boundaries of `Timestamp.java` | operators only |
| `RollUp` | `RollUp.java` | the fields, the stream, what was returned; one action per turn of the loop in `next()` |
| `Lerp` | `Lerp.java` | the fields, the stream, what was returned; one action per entry of `next()`, which calls itself |
| `CounterValue` | `CounterValue.delta()` | operators only |
| `Rate` | `Rate.java` over counters that an agent counts up | the row before, the row returned, the agent's registers |
| `Plot` | `plot.js` and `SampleResource.java` | requests under way, the graphs in the chart |
| `ProcessorsProofs` | | theorems about `RollUp`, `Lerp`, `Rate`, `CounterValue` and `Plot`, as `MCProcessors` runs them |

`MC...` modules declare the model values of the TLC runs.  In each module the
definitions marked "Mutant" are faulty versions of the definition that follows
them; no action uses them, and each breaks one property.

### How the actions correspond to the code

*Scheduler.*  `schedule()` is four kinds of steps: entry (`ScheduleEnter`; a null
interval throws here), one cancellation (`CancelOne`), one submission
(`SubmitOne`; an interval that is not positive throws here), and the `put`
(`Publish`).  Pool threads interleave with each of them: `StartRun`, `LookUp`,
then `DispatchReturns` or `DispatchThrows`.  A future is the record of the call
that created it and its position in the list.  The executor is modelled from
what its documentation promises the code: a task runs on one thread at a time, a
run that throws is the last one, `cancel(false)` does not interrupt a run, and a
cancelled task stays in the queue until it is due.

*Handshake.*  `start()` is one step per interaction with the outside: `LoadId`,
`SaveRead` and `SaveUpdate` (the two halves of `saveProperty`), `LoadLocation`,
`AddRoutes`, `SendStartMessage`; each may be followed by `Crash`, and those that
touch the registry may fail (`ConfigFails`).  `Stop` sends "Stopped" and
`ContextDown` takes away what did not leave within three seconds.  A reload of
the container, which every change of its configuration causes, is a `Stop` and a
new start.  The Dominion's `onMessage()` is `Receive`, `WriteStatus` or
`WriteFails`, `SendInitialization`; routes are `Forward`, `Reply` and their
failures.

*SampleSet.*  A query builds an index when it is null or dirty; the build
*appends* to the map that is there.  Copies drop the maps; Java serialization
keeps the flags, XML resets them.

*Whiteboard.*  `dispatch()` asks the tracker twice, so `Enter` and `Iterate` are
two steps, and services come and go around them and between invocations.

*Pipeline.*  `Dispatch` is the route of the sampler's container; `Take` is the
broker giving a message to a consumer, which it also does when that one is busy;
`PassOn` converts the set and sends it to the seda endpoint of `Whiteboard`,
`PassOnFails` loses it.  From there each step of `Whiteboard` is a step of
`Pipeline` (`WhiteboardEnter`, `WhiteboardIterate`, `Store`, `Forward`,
`StoreThrows`, `WhiteboardFinish`): `Forward` is the invocation of the dispatcher
to the broker, which appends the set to the queue again.  `Forward` is bounded by
`MaxForwards`; beyond the bound that invocation can only throw.  The history
variable `lost` records for which repository a copy of a set was lost, at the step
that loses it: a restart of the receiver costs the message that is being
dispatched only those repositories that it had yet to reach (`ToReach`).

*FileRepository.*  `save()` opens the file of samples (`Save`), writes its lines
in two pieces, as a full buffer and the closing of the writer do
(`AppendPiece`), reads and merges the attributes (`LoadAndMerge`), opens the
attributes file, which empties it (`Truncate`), and writes it (`Store`).  A
`PrintWriter` reports no error, so that a piece may be lost and `save()` goes on;
`AttributesFail` and `Crash` end it.  Two calls that write the attributes at the
same time each start at the beginning of the file: what one has written may stick
out behind the other.

*SamplerConfig.*  Each timer's exchange is a fetch and a `setInstance`, on a
thread of its own; the startup's goes on to `LoadCollectionPackages`.

*Polling.*  `Schedule` is `ScheduleAgents` with the effect of `schedule()` on the
living polls of the list's id, in one step: `OneGeneration` and `AllOrNothing` of
`Scheduler` show that no other list's polls are mixed in.  (A list whose interval
is invalid, which ends with no poll, is left to `Scheduler`.)  `ConfigRestarts`
clears the bean, the queues and the timers and leaves the polls alone;
`SchedulerStops` ends the polls and leaves sampler-config alone, which never sends
their lists again.  (The code does not shut the executor down: its tasks go on, but
the container has unbound the dispatchers, so that each finds only the dispatcher
that does nothing.  No agent is polled, which is what `polled` says.)

*MetricRepository.*  `refresh()` takes the array of group URLs (`Trigger`, or
`UpdateGroupUrls` when `updated()` calls it), requests one group per step
(`FetchGroup`), then the configuration document (`FetchConfig`, which also checks
that every included group was found), and publishes (`Publish`).  The two timers
and the configuration admin do this on three threads without a lock.  The parser
turns an IOException into null: a group is left out (`GroupUnreachable`), but the
whole configuration is replaced by null (`ConfigUnreachable`); any other
exception ends `refresh()` and leaves what is there (`BadDocument`).  A document is
its URL and its version.

*The processors.*  A stream is any sequence of rows with increasing times, known
and unknown values.  RollUp's `next()` is a loop that takes rows until a step is
complete (`Initialize`, `Consume`, `Exhausted`); its data point is the value at
the step's end on the line between the cumulative averages of the step's rows, or
unknown when too much of the step's time is late.  The late time is an `int` to which
a `long` is added (`Unknown`), and `minus()` casts the time that it subtracts, which
is what Lerp compares with its heart beat: both keep what is left in an int (`ToInt`),
whose range, from `-HalfInt` to `HalfInt - 1`, is a parameter counted in the same unit
as the times.
Lerp's `next()` moves the rows or the step, or both (`PastStep`, `Within`, `Skip`,
`Ended`).  Rate reads what an agent's counters of 32 or 64 bits have counted;
between two rows a counter counts at most `MostSeen`, which is 2^32 - 1 for the
narrow one and 2^64 - 2^32 - 1 for the wide one: beyond it, or across a reset of
the agent, two readings do not tell the increase.  `MCProcessors` runs one of the three, or `Plot`, at a time.

*Plot.*  `plotSamples` clears the chart and sends a request; `Draw` is the
callback of an answer, which draws into whatever chart is there; `DrawFails` is
an answer that is no table, or one on which `toSeries` throws (a metric named like
a field of every array, such as "length").  `getSamples` is the resource's answer:
one triple per row and metric, row by row, "null" for NaN; it fails when the first
metric is unknown, and on the first row when another one is.

### Assumptions

* `schedule()` is called by one thread at a time: its only caller is the single
  consumer of `seda:scheduleAgents`.
* A JMS consumer acknowledges before its listener runs (Camel's default).
* UUIDs are distinct; they are numbered in the order in which they are drawn.
* An id of blanks is possible: the configuration may hold one, and the Dominion
  then answers to the queue "dummy".
* When an exception is handled by `onException` it is left open whether the
  multicast that called the route goes on.
* The broker gives a consumer messages while it works on another one (prefetch),
  delivers a queue in order, and puts what a closed consumer had only prefetched
  back in front of the queue, in order.  A broker that restarts has lost every
  message, since none is persistent.
* Metrics of one request are distinct.
* In the scheduler and in `SamplerConfig` time is abstracted: what is due may
  happen at any time.

## 3. Runs

| Run | Asks | Instance |
|---|---|---|
| `Scheduler` | Are lists replaced as a whole, is every living poll known, does the scheduler implement `PollTable`? | 2 threads, 1 id, 3 calls, lists of 0 to 2 agents with one repeated, 1 dispatcher |
| `SchedulerLive` | Does the table point to the right dispatcher, and is a living poll dispatched again and again? | 1 thread (as `blueprint.xml` says), 2 ids, 2 calls, 2 dispatchers |
| `Handshake` | One identity per Minion, record before initialization, current record, id kept; is a running Minion recorded in the end? | 1 Minion, 3 lives, 2 UUIDs |
| `Storage` | Do indexes agree with the list? Is a `save()` that nothing disturbs atomic, whatever earlier ones have left in the files? | 3 samples, 2 resources, 2 groups; 2 savers, 3 calls, 2 attributes |
| `SampleSetRebuild` | Is a stale index rebuilt, as its comment says? (It is not.) | the same samples |
| `Pipeline` | Order and repetition at the whiteboard, stable services reached; how far out of order, how often and whether at all is a set stored; does the route implement `Delivery`? | 3 sets, 2 consumers, 1 repository and the dispatcher to the broker, 1 set sent again, 2 lives of the receiver |
| `Polling` | Is the configuration kept and current, is each pair sent once, is it polled as the startup read it, and never by an older list? | 3 versions, 2 pairs, 3 lives of sampler-config, any number of the scheduler |
| `MetricRepository` | Is what is published complete, when can a reader fail, and is the repository current in the end? | 2 configuration and 2 group URLs, one update, one edit, one failure, 1 reader |
| `Processors` | Is each returned row what its stream defines, is none skipped; are rates those of the true increase; does the chart show what was asked for? | every stream of up to 4 rows at 7 times, an int of -6 to 5; counters of 3 and 8 values; 3 requests, tables of up to 2 rows |
| `RollUpSparse` | Are rows that are a step apart left alone, as the comment says? (They are not.) | streams of up to 3 rows |
| `RollUpLate` | Is a data point with too much late time unknown, as the comment says? (It is not, once the late time outgrows an int.) | streams of up to 3 rows, an int of 3 bits |
| `LerpCast` | Are only long gaps refused, as the comment says? (They are not, once times outgrow an int.) | streams of up to 3 rows, an int of 3 bits |

**Why the bounds are enough.**  Three calls of `schedule()` let a list be
replaced, the replacement fail, and a third call meet what the failure left; two
agents are needed for "half a list"; two dispatchers for a bind that overtakes an
unbind.  Three lives of a Minion are one to draw an id, one to be interrupted and
one to find what was saved; two UUIDs are enough to see a second identity.  Three
samples show an addition between two queries on top of a first one.  Three
sets are the fewest that can arrive in the wrong order at more places than two
consumers have, and one that throws between two others; one set sent again makes
a fourth message.  Three calls of `save()` are two that overlap and one that finds
what they left.  Three lives of sampler-config meet an addition to and a removal
from the configuration; three requests are one that is late, one that it joins,
and a third chart.  One update, one
edit and one failure meet two refreshes of timers in any order, which is what a
slow refresh needs to overtake a newer one.  Four rows at seven times and steps of
two units make every case of RollUp and Lerp: several rows in a step, none in a
step, rows on a boundary, late ones (the heart beat is four units), the first and
the last steps; an int of -6 to 5 holds some of the gaps and times and not others,
so that late time becomes negative and casts change times; values are multiples of
25200 so that the integer division of the
model is exact where the code divides doubles.  `MaxCalls`, `MaxStarts`, `MaxIds`,
`MaxSamples`, `MaxSaves`, `MaxSets`, `MaxForwards`, `MaxMessages` (their sum),
`MaxLives`, `MaxRequests`, `MaxVersion`, `MaxUpdates`, `MaxEdits`,
`MaxFailures`, `MaxRows`, `MaxInterval` and `MaxTime` are the only bounds, and
each is a guard of the action that would exceed it.  Runs check deadlock except
those of the processors, where the end of the stream is the end: elsewhere
services, dispatchers, crashes and timers keep each model moving.

**Fairness.**  `Scheduler`: pool threads go on (weak fairness of taking a task,
looking up and dispatching); the pool's queue is ordered by due time, so a task
that waits is taken although others are due again (strong fairness per task).
Callers and bundles are left free.  `Handshake`: each side finishes what it has
begun; the Dominion is restarted after a crash and takes the next message when it
stays up now and then; starting, stopping and configuring Minions is left free.
`Pipeline`: each consumer of the queue and the whiteboard's thread go on with
what they find; broker, restarts and services are left free.  `Polling` (the
fairness of `SamplerConfig`): timers fire, routes go
on, and a server that is asked again and again answers now and then.
`MetricRepository`: the reload's timer fires again and again, and a thread that
has begun goes on, since a request is answered or times out; `Lerp`: the caller
calls `next()` while `hasNext()`.  No run
assumes that a message arrives, that a dispatcher returns normally, or that a
call succeeds.

## 4. Proofs

`SchedulerProofs` (for any sets of ids, services, agents, dispatchers and
threads, any lists and any number of calls):

* `TypeCorrect`: `TypeOK`.
* `InductiveHolds`: the inductive invariant.  The safety properties alone are not
  inductive: they say nothing of cancelled futures, nor why a new future cannot
  meet an old one.  `Inductive` adds that a future is in one place (`OnePlace`),
  that futures are numbered by call and position and the numbers of the current
  call are used up in order (`Numbered`), that `m_schedules` files a future under
  its id (`Filed`), that submission starts after the last cancellation
  (`CancelFirst`), that what the table holds for ids not being replaced is whole
  (`OthersWhole`), and that whatever can still run is known to the table or to
  the call in progress (`Accounted`).
* `OneGenerationHolds`, `NoOrphanHolds`, `AllOrNothingHolds` follow from it;
  `DispatcherTableHolds` has an invariant of its own.
* `TableImplemented`: the refinement of `PollTable`.  Only `SubmitOne` admits a
  poll, only `CancelOne` and `DispatchThrows` retire one; every other step
  stutters.

`HandshakeProofs` (for any number of Minions, lives and UUIDs):
`HandshakeInvHolds`, then `OneIdentityHolds`, `IdKeptHolds`,
`RecordBeforeInitHolds`.  The invariant ties the phase of a Minion to its field
`m_id` and to what is saved, says that ids in messages have been saved, and that
every reply under way has a record.  `RecordedInvHolds` adds to it what
`HandshakeTypesHold` and `RecordIsCurrentHolds` follow from.  `RecordIsCurrent`
(which the run checks with one Minion, and the theorem shows for those that share
a Dominion) speaks of a Minion none of whose messages is under way any more, and says nothing
of those that are: `CurrentInv` follows them.  For a running Minion that has handed
over what it had to say, the last of its messages in the queue says "Started"; when
the queue holds none of them, the one that the Dominion is about to write does; and
when it writes none of them, the record does.  `SpeechInv` says why: a Minion speaks
with one voice, so that what it hands over when it runs is "Started", and with
nothing left in its producer's threads no "Stopped" can come behind.

`ProcessorsProofs` (for any times, values, step, heart beat and first and last step;
any forms and tables; any metrics and readings):

* `Plot`: `PlotInvHolds`, then `GraphsAreAnswersHolds`.  The heart of it is not the
  order of the answers but the loop of `toSeries`: triple by triple it opens a series
  in the first row of an answer and appends to one in the others.  The loop is a
  recursive function, and `SeriesAreColumns` proves by induction over the triples
  (row and metric of the n-th are quotient and remainder by the number of metrics)
  that its result is the columns of the table, for every table and every form.
* `Lerp`: `LerpInvHolds`, then `OnTheLineHolds` and `OnlyLongGapsAreRefused`.  The
  rows in hand are neighbours in the stream with what is left after them
  (`LerpPlace`), and the step in hand has not been overtaken by them (`LerpStep`):
  so the first row at or after the step is found when it is returned.  `OnTheLineHolds`
  has no hypothesis: the gap is as long as `minus()` says, cast and all.  What that
  means depends on the times of the stream, and two theorems say it of the behaviours
  of either kind: while all times fit into an int (`TimesFit`), only long gaps are
  refused; when all lie above an int by more than the heart beat (`TimesOfToday`, as
  milliseconds since 1970 do), Lerp interpolates nothing at all (`NoValueToday`).
  The run `LerpCast` finds the disagreement with the comment.  `EveryStepOnceHolds` is the safety
  half of `EveryStep`: the rows returned are those of the first steps, one for each,
  and when `hasNext()` is false there is one for every step up to the finish's.
* `RollUp`: `RollInvHolds`, then `NoStepSkippedHolds`: one data point for each step
  in order, up to the step that the last row but one is in.  (Those between the last
  two rows are lost, see section 5.)  The current row is a row of
  the stream with exactly those left that come after it, whichever of the rows is
  kept back by `consume()`, and the step in hand is the one after those returned
  (`RollPlace`, `RollSteps`).  `RollsUpHolds` is about the values: the code adds row
  after row to an average, `RollsUp` speaks of the rows of the step all at once.
  `Averages` says of the data point in hand which rows it has taken in and that it
  holds their mean, and that what it holds as unknown is what an int keeps of the sum
  of their late intervals (the code narrows at every turn; `ToIntAdds` shows that once
  at the end is the same); `AccumulatedAverages` shows that one more turn of the loop
  keeps it so.  `LateIsUnknownHolds`: while the rows of a step span less than an int
  holds (`SpansFit`), nothing is narrowed and the comment of the class is right.  The model divides integers where the code divides doubles, so that the two
  are equal only when every division is exact; `AveragesExact` assumes of the values
  that each is a multiple of every count of rows.  It excludes no stream of
  fractions: in a small enough unit all their values are such multiples (as those of
  the run are, multiples of 25200).
* `Rate`: `InductiveHolds` (each register shows the reading of the row before plus
  what was counted since, wrapped at most once), from which `ReadingsTellHolds` and
  `RateOfIncreaseHolds` follow with the arithmetic lemma `DeltaOfCounted`: the
  difference of two readings, modulo the width that the readings give away, is the
  true increase.  The widths themselves are parameters (`B32`, `B64`); the
  assumptions on them are those that 2^32 and 2^64 satisfy.
* `ProcessorsTypeOKHolds` for all four.

The assumptions are that the values which stand for "no row", null and NaN are
different from rows and numbers, and that a form names at least one metric and none
twice.

`PipelineProofs` (for any finite sets of services and consumers, any number of
messages and restarts) proves every safety property of the run:

* `InOrderOnceHolds`.  `InOrderOnce` speaks of what services have received and is
  not inductive.  `OrderInv` adds why the next message fits: messages wait in the
  order they were sent, above the one being dispatched; no service has seen a
  later one; and the array of services that are still to be invoked, none of which
  has seen this one, names each service once.
* `ReachesStableServicesHolds`.  A service that has stayed registered is among the
  registered ones when the tracker is asked for the second time, and from then on
  has the message or is still in the array (`StableInv`).
* `OnceUnlessForwardedHolds`.  `CopiesInv` counts the copies of a set in the queue,
  at the consumers and behind the whiteboard: one for a set that was dispatched,
  and one more for each time the receiver has sent it again.  That a restart of
  the receiver puts back exactly what was prefetched is a lemma of its own
  (`RestartQueue`).
* `FewOutOfOrderHolds`.  As long as nothing is sent again, what a consumer passes on
  in one life of the receiver is in order, and what waits comes after it
  (`LineInv`; `By(w)` names for each message the consumer and the life that passed
  it on, a witness that the model does not keep).  Sets in descending order come
  from different pairs of consumer and life, and of those there are
  `lives * Cardinality(Consumers)`.
* `DeliveryImplemented`: the refinement of `Delivery`.  A copy is on its way to a
  repository when it is in the queue, with a consumer, at the whiteboard, or in the
  message being dispatched while that repository is still to be invoked
  (`UnderWay`).  `Dispatch` submits (or drops, when the broker cannot be reached),
  `Store` delivers, `Forward` sends again; restarts and failures drop, and every
  other step stutters.  What has to be shown of each step is that what leaves is
  lost (`OnlyLost`): an exception ends the array of services, so that it must be
  counted as lost for exactly those behind.  `SentInv` says that nothing is under
  way that was not sent.
* `NoneVanishesHolds`: what follows from the abstract delivery alone, that a set
  which was sent is for each repository stored, lost or on its way.
* `PipelineTypesHold`.

`PollingProofs` (for any finite set of ids, any number of versions, lives of
sampler-config and restarts of the scheduler): `PollingInvHolds`, then
`NeverOlderPollsHolds` and `NeverBackToNullHolds`.  The invariant says that the
startup's timer reads once per life and that no list is under way before it has
(`ReadOnce`), that whatever was loaded had been offered by the server
(`LoadedWasOffered`), and that no poll is of a newer version than the one that the
startup has read or, before that, may come to read (`PollsNotNewer`): the list that
replaces it is as new or newer.  `EachPairOnceHolds` has an invariant of its own
(`PipelineInv`), in which the property itself is the heart: each step takes a pair
out of one place and puts it into the next, which is counted with the lemmas of
`SequenceLemmas`; `PollingTypesHold` comes with it.

`MetricRepositoryProofs` (for any documents, arrays of URLs and readers):
`RepositoryInvHolds`, then `TypeCorrect`, `IncludesAreMetHolds` and
`ReadersFailHolds`.  The invariant follows the three threads of `refresh()`: a
configuration in anyone's hands is complete, a thread that is about to publish null
got there by a failed request, and a reader past its check has a configuration in
front of it unless there was such a request (`BuiltInv`, `ReadInv`).  Nothing is
assumed of how the threads interleave.

`StorageProofs`, of the files (for any set of threads and attributes and any number
of calls): `FileInvHolds`, then `AloneIsAtomicHolds`.  The invariant follows a call
that nothing has disturbed: no other call is in progress, and the files hold what it
found and exactly the pieces that it has written so far, so that nothing sticks out
behind the attributes when it stores them.  Of the sample set (for lists of any
length): `SampleSetInvHolds`, then `GettersAgreeHolds`.  `IndexInv` says of an index
that was built that it holds samples of the list only, all of them unless it is
marked, each once and in order unless one came late.  `StorageTypesHold` puts both
together.

The loop that builds an index is a recursive function (`Filed`), and what it
computes for every list is proved.  The library's induction over natural numbers
takes a predicate as a parameter, which the provers cannot instantiate;
`SequenceLemmas` derives an induction rule that takes the *set* of the numbers
for which something holds (`SetInduction`), from the well-foundedness of `<`, and
from it that a recursive function exists and is unique (`RecursionExists`).

The assumptions are the `ASSUME`s of the modules: types of the constants, special
values that differ from ordinary ones, and finitely many services, consumers and
ids; and the hypothesis `AveragesExact` where it is named above.  `TimesFit`,
`TimesOfToday` and `SpansFit` are no assumptions: they are state predicates inside the
theorems, which split the behaviours.

The inductive invariants and `ReadingsTell` are checked by no run of their own:
the theorems are about every instance.

**Only model-checked:** the liveness properties (`PollsReachDispatcher`,
`RunningIsRecorded`, `StoredUnlessLost`, `StartupPolls`, `EveryStep` and the two
named `EventuallyCurrent`), since liveness and ENABLED are outside what the proof system
handles.  Of `StoredUnlessLost` and `EveryStep` the safety halves are proved
(`NoneVanishesHolds`, `EveryStepOnceHolds`); what TLC adds is that the steps are
taken.

## 5. What the checks show

The properties that the code is meant to have hold, with four disagreements
between comments and code:

1. `SampleSet.java:97`: a stale index is completed, not rebuilt, so that samples
   appear twice after query, addition, query (`SampleSetRebuild`).
   `GettersAgree` shows that nothing else goes wrong: collectors, which add
   everything before anyone queries, are not affected, and copies are not either.
2. `RollUp.java:265`: the first row of a step is averaged with the one that ended
   the step before, also when rows are a step or more apart, where the comment
   promises that they stay as they are (`RollUpSparse`).  `RollsUp` shows what is
   computed instead.
3. `Timestamp.java:148`: `minus()` casts milliseconds since 1970 to an int, so that
   Lerp's comparison with the heart beat refuses any two samples of today
   (`LerpCast`).  `OnTheLine` shows the interpolation where it is not refused;
   `NoValueToday` proves that with the times of today it always is, and
   `OnlyLongGapsAreRefused` that the comment is right for times that fit.
4. `RollUp.java:224`: the late time of a step is added up in an `int`.  A gap of 2^31 to
   2^32 milliseconds, 25 to 49 days, makes it negative, and the data point is
   interpolated across the gap where the comment of the class promises that it is
   unknown (`RollUpLate`).  `RollsUp` shows what is computed, and
   `LateIsUnknownHolds` proves the comment right for shorter steps.

The steps of four more disagreements are in the models, without a run of their
own: an exception of one service keeps the message from the services behind it
(`InvokeThrows`; SAMPLER.adoc:213 says that all registered services are invoked);
a poll goes to the dispatcher bound last (`getDispatcher`; SAMPLER.adoc:231 says
all registered dispatchers); RollUp's `hasNext()` asks the producer only, so that
the iteration ends after the step that the last row but one is in and the steps
between the last two rows are lost (`NoStepSkipped` says so; with rows at 0 and 7 and
a step of 2, those that end at 4 and 6), although the comment at RollUp.java:100
says of a row beyond the step that there is more work to do; and a stream of one row makes RollUp's `next()` add
to a floor that is null (`InitializeFails`; RollUp.java:117 promises that the end
of the stream is reported).  Two weaknesses that nothing in the repository denies:
a metric that the row before lacks makes `Rate.next()` fail (`nextThrows`), and a
failed request for the configuration document takes the whole SNMP configuration
away until the next reload (`ConfigUnreachable`).

Of the way of a sample set: with `n` consumers, at most `n` sets stand in
descending order at a repository per life of the receiver (`FewOutOfOrder`); a set
is stored once, and once more for each time the receiver itself sent it back
(`OnceUnlessForwarded`), which nothing in the code ends when the dispatcher to the
broker is registered there; what is lost is lost at a restart, a failure or an
absent service, and nowhere else (`ImplementsDelivery`), and the rest arrives
(`StoredUnlessLost`).  Of the files:
`AloneIsAtomic` holds after any history of crashes and overlapping calls, but a
call that is overlapped or interrupted may leave attributes of neither, and a line
cut by a crash is joined by the next one.  Of the polls: they are never replaced
by an older list (`NeverOlderPolls`), yet a scheduler that restarts gets no lists
(the exception in `StartupPolls`), and an id that has left the configuration is
polled on after sampler-config has restarted (no action stops it).  Of the chart:
a late answer of an older request is drawn into the newer chart, and no other
graph is (`GraphsAreAnswers`).

Besides, SAMPLER.adoc speaks of a reload every 30 seconds where the default of
`refreshInterval` is 300000 ms, and a reload only replaces the bean: polls are
scheduled from the configuration that the startup read.

## 6. Not modelled

* Poll times (initial offsets and periods): no property here depends on them.
* The XML form of messages and configurations; HTTP; the OSGi container itself.
* `InitializationListener`: wired into no blueprint.
* The record's location, date and properties in the status writer: nothing
  compares dates, and status messages carry no properties.
* Values of mixed types in the processors (a counter next to a gauge, where NaN
  becomes 0), their binary form, and the stubs `DeriveValue` and `AbsoluteValue`.
* How the groups, tables and types of a data collection configuration refer to
  each other, beyond which groups it includes; `snmpConfigFactory`, which loads
  like the collectd configuration of `SamplerConfig`.
* `SimpleFileRepository.find()`, which parses the file for tests.
* sampler-snmp and sampler-jmx: each turns one request into one walk and one
  sample set, without state; the walk and its timeout (after which
  `DefaultSnmpCollector` returns what came in time as a success) are in libraries.
  `Pipeline` starts with the set that they dispatch.
* What RRD and Newts do with a set beyond storing it or throwing: an exception of
  `NewtsSampleSetDispatcher` leaves the samples before it in the batch.
* camel-trap-processor: parses a trap and logs it; the conversion to an event is
  not written yet.
* jQuery, jQuery UI and D3 under `sample-graphs/src/main/resources/html`: copies of
  other projects.  `plot.js`, the only JavaScript of this one, is modelled by `Plot`.
* Adapters without state (collection-sampler), scripts, tests.

## 7. Plan

Every component with state of its own that the code drives is modelled, and every
safety property of the runs is proved.  What could follow:

1. The two routes of sampler-snmp and sampler-jmx, when they get state: today they
   turn one request into one walk, and its timeout is the library's.
2. `snmpConfigFactory`, as a second instance of the loading in `SamplerConfig`.
3. A whole-system composition of `Scheduler` and `Pipeline`: each poll that returns
   submits a set.  The two share no state besides that, which is why each is checked
   with the other left free.
