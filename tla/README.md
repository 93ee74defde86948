# TLA+ model of the event delivery simulator

The repository simulates a small monitoring network: a host is polled by an
agent, which sends events hop by hop to a monitor, over a primary route
(`local-agent -> r1 -> r2 -> monitor`) and, if that fails, over a backup route
(`local-agent -> r1b -> r2b -> monitor`). Each node is one asyncio process; a
controller sends it commands (start, pause, reset, shutdown, delays, faults) and
collects its status. This directory holds a TLA+ model of the nodes, of the routes
they form and of the controller and supervisor above them, the TLC configurations
that check it, and proofs about each of them for TLAPS.

## The system

| Component | State | Operations | Talks to |
|---|---|---|---|
| Relay (`relay.py`) | id cache, pending tables, reset generation, delay, shared last result, counters; per connection: the event, the attempt, the failures seen | receive, suppress a duplicate, attempt/retry/fail, ACK or ERROR upstream, set_delay, reset | upstream and downstream node: one connection per request |
| Monitor (`monitor.py`) | id cache, log (50), total, recent list (8), host table, last sequence numbers, counters, drop_next_ack | record, ignore a duplicate, drop an ACK, reset | r2, r2b |
| Agent (`local_agent.py`) | sequence number, signatures of what was reported, last event, last result, routing detail | poll, detect, suppress, emit, primary then backup, reset | host, r1, r1b |
| Routing (`routing.py`) | none | edges, trace entries, fault localisation | used by agent, relays, monitor |
| Node base (`base.py`) | running, stopped, control queue, traffic captures | dispatch of a connection, control loop, status loop, stop | controller |
| Host (`host_simulator.py`) | tick, fault, its end, observed state | tick, set/inject fault, answer | agent |
| Controller (`controller_ui.py`, `controller_client.py`) | last status and time per node, activity logs | parse a command, broadcast, take a status, render | all nodes |
| Supervisor, web runtime (`system.py`, `web_ui/server.py`) | processes, power lock and transition window | start, stop, power | all processes |

What is hard here:

* **Interleaving at awaits.** A node serves several connections and its control
  loop in one event loop; every `await` (a status publish, a sleep, a request)
  lets the others run, and state read before one is used after it.
* **Retries against duplicates.** Every hop retries, the agent adds a second
  route, and an answer may come after the asker gave up: copies of an event
  travel for a long time.
* **Reset** empties a node while its deliveries continue; ids are used again.
* **Crashes** lose the caches, which are only in memory.
* **Commands** go to the nodes one after the other, are acknowledged when they are
  queued and executed later; several broadcasts may overlap, and a node may die
  between the two.
* **Processes** are started, terminated and awaited one by one while others of
  them are killed, crash or are started by hand, and while the runtime ends.
* **Locating a failure** is done twice, by the agent from the answer it got and
  by the monitor from the trace, and both must come to the same hop.

What makes each component correct: a relay vouches upstream only for what was
acknowledged below, sends an id on only once at a time, never leaves a pending
entry behind and always answers; the monitor logs each id once, acknowledges only
what it logged and counts exactly; the agent keeps silent only about what it
reported, reports a lasting fault once, and blames one and the same hop; the two
routes together settle every event, acknowledge only what was logged, and never look
for a fault below the place where it is; the controller hides no command that was
not obeyed, and the screen comes to show the nodes as they are; the supervisor starts
no process where it could see one, does no half of a request, and leaves no process
behind.

`PROJECT.json` lists the hazards line by line, with the property that covers each.

## Modules

| Module | Models | Kind |
|---|---|---|
| `Routing` | `routing.py` | operators |
| `Hop` | what one hop promises the node above | abstract specification |
| `Relay` | `RelayNode`, with what it inherits | detailed; implements `Hop` |
| `RelayProof` | | theorems about `Relay` |
| `Monitor` | `Monitor` | detailed; implements `Hop` |
| `MonitorProof` | | theorems about `Monitor` |
| `Faults` | how a fault is told from a state of the host (`_detect_fault`) | operators |
| `Agent` | `LocalAgent` | detailed |
| `AgentProof` | | theorems about `Agent` |
| `Host` | `HostSimulator` | detailed |
| `HostProof` | | theorems about `Host` |
| `EndToEnd` | what both routes promise the agent | abstract specification |
| `Delivery` | agent, four relays and monitor, composed | composition; implements `EndToEnd` |
| `DeliveryProof` | | theorems about `Delivery` |
| `Commands` | what a line of a user asks for (`build_requests`) | operators |
| `Control` | `ControllerUI`'s broadcast and status table; the control queue and status loop of `BaseNode` | detailed |
| `Power` | `LocalProcessSupervisor`, `WebRuntime`'s power requests and end | detailed |
| `Runtime` | `Control` and `Power` together | composition |
| `SupervisorProof` | | theorems about the processes in `Runtime` |
| `GatewayProof` | | theorems about gateway and control queues in `Runtime`; extends `SupervisorProof` |
| `MCRelay`, `MCMonitor`, `MCAgent`, `MCRuntime` | | instances for TLC |

**Granularity.** asyncio runs a coroutine without interruption up to its next
await that suspends. An action is the code between two such awaits, and `pc` names
the await at which a connection, or the agent's loop, is suspended. In `Relay` each
task is one upstream connection (`_handle_connection` with
`handle_network_message` and `_deliver_with_retry`); the header of the module lists
the lines. Awaits that end a handler with nothing after them but the response are
one state, `replying`.

**Relay.** `Receive` is the code up to the publish of the receipt; `ReplayAck`,
`ReportPending` and `StartDelivery` are the three ways on from there; `Wake`,
`Send`, `NextAttempt` are the loop; `AckResponse`, `ErrorResponse`, `NoResponse`,
`Timeout`, `ConnectionFailed` are the ways a request ends; `Commit` and `Finish`
end the delivery. `Interrupt` is the three tests of the generation.
`last_downstream_result` is a dictionary of which the code reads back only
`downstream_error`, so the variable holds that. What is below and above a relay is
free: any event may come at any time and every attempt may end in any way.

**Monitor.** A handler awaits only in its last publish, so an event is one step
(`Record` or `Duplicate`) and the response another. `arrived` is a history variable,
against which the log is compared.

**Agent.** The loop is sequential; what interleaves with it is the control loop.
`event` is the event being delivered, with its trace and routing; `stale` marks
one begun before a reset. r1 is free to answer anything it can answer, including
evidence about another event, since its connections share that record.

**Host.** No handler uses after an await what it read before, so a tick and a command
are one step each. `fault_end` holds the time left until the code's
`_fault_end_monotonic`; `Elapse` lets it run down, for a paused host too. `ordered` is a
history variable: the fault the accepted commands ask for; `void` marks what follows
a rejected injection until the next command that sets or clears the fault.

**Hop.** A request is taken in and answered ACK, ERROR or not at all, and an ACK
is given only for what was acknowledged from below (by the monitor: logged).
`Relay` and `Monitor` implement it with a refinement mapping (`Promise` in both).

**Delivery.** Here the neighbours of a node are the real ones: each request of the
agent or a relay makes a slot of the node below work on it, and the answer, the end
of the connection or the timeout comes back. To keep the state space in reach a step
is what a node does with one request or one answer; the awaits inside a handler are
left to the module of each node. The agent is a node with one slot, whose first
attempt goes to r1 and whose second goes to r1b. An asker that gives up closes its
connection, and the work below goes on unheard: that is where stray copies come
from. `GiveUp` stands for every late answer, `LoggedSilently` also for a dropped ACK.
The bodies of events are their order of emission, so that an id used again after a
reset of the agent names two bodies. `EndToEnd` knows nothing of hops: an event is
emitted, may be recorded, and ends acknowledged, failed or lost; it is
acknowledged only if it, or an earlier event with its id, was logged. The second half
of that sentence is what the code promises: after a reset of the agent alone, a new
event with an old id is taken for a duplicate and acknowledged without being
logged (`local_agent.py:74`).

**Control.** A caller is a coroutine that broadcasts: one for each line submitted to
the Web UI, for the line typed in the terminal viewer, or for a connection of an
external controller. `Accepted`, `Refused` and `TimedOut` are the ways a command to one
node ends; a connection that is closed without an answer counts as accepted, as in
the code (`controller_ui.py:1344` looks at dictionaries only). `failed` is the set of
nodes with a failure in the control log. `wanted` and `erased` are history
variables: what the commands given to a node ask of it (`either` while two broadcasts
of start or pause overlap at it, for then nobody can tell), and whether `reset_all`
wiped a failure off the log. `reports` are the status reports under way, of which any
may arrive next. `elapsed` is the age of the last report in three steps, as
`derive_node_liveness` tells them apart. A report carries whether its connection was
accepted when the gateway was already deaf (`deaf`): one accepted before still has one
request processed after a quit, a report as well as a command, because the flag is
tested only before the next line is read (`controller_ui.py:1143`).

**Power.** Requests of the HTTP threads run as coroutines that take the lock in any
order; request 0 is the end of the runtime, which takes none. `up` tells whether
a node's process is there and listens, `processes` which roles are on the supervisor's
list, `foreign` which processes somebody started by hand, at any moment. A start may
fail at any role (`SpawnFails`): the request ends, and what it started stays. A role
that someone started by hand after the ports were probed gets a second process, which
cannot listen on the port and ends at once (`Spawn`). `fallen`, `raced` and `late` are
history variables: roles whose process ended unasked or could not be started since the
last start, those a start put on the list while the runtime was already stopping, and
those started by hand since the last probe of the ports that let a start through.

**Runtime.** `Control` and `Power` are instances that share `up` and the bound `spent`. A
process that leaves, crashes or is terminated empties its control queue in the same step;
a process that is started begins with an empty one. `viewer` is fixed at the
beginning: the runtime of the terminal viewer (`run_simulation`) takes no power requests,
reads lines one at a time and ends when `stop_requested` is set; the Web runtime ends
only by a signal or a quit of its own. `ObservedLiveness` is what the screen shows of a
node: the Web UI shows all nodes offline while its supervisor has no process and the
window is closed (`PoweredOff`, `server.py:113-122`), and else what the gateway derives
from the reports.

Names that start a comment with "A slip" are mistakes one could make in the
definition below them; no action uses them. They serve to see that a property
fails when the code is wrong.

## What TLC checks

| Run | Instance | Shows |
|---|---|---|
| `relay` | r2b, 2 connections, copies of 1 event, 2 receipts, 2 attempts, 1 reset, fairness | `AckSound`, `PendingOwned`, `NoConcurrentDelivery`, `Accounting`, `HopPromise` (refinement), and `Answered` (liveness) |
| `monitor` | 2 hosts, 3 sequence numbers, 2 contents, 2 connections, a log of 1, a recent list of 2, 3 arrivals | `LogExact`, `OutOfOrderExact`, and `SinkPromise` (refinement) |
| `agent` | 6 host states, 2 reasons, 3 events, with and without a backup | `LocalisationAgrees`, `DetailAgrees`, `SilentOnlyIfReported`, `NoRepeatedFault` |
| `host` | durations up to 2, 2 timed faults, fairness | `DetectedIsOrdered`, and `TimedFaultEnds` (liveness) |
| `delivery` | both routes, 2 events, 2 slots, 2 attempts, 2 faults, fairness | `SuspectAtOrAboveFault`, `CacheSound`, `RoutePromise` (refinement), and `Settles` (liveness) |
| `runtime` | local-agent and r2, 7 lines, 2 callers, 2 power requests, 3 things users do or that go wrong | `Obeys`, `WholeOrNothing`, `NoOrphan`, `NoSecondProcess` |
| `runtime_live` | the same with 2 of them, the reports of r2 followed, fairness | `Converges`, `PowerAnswered`, `QuitEnds` (liveness) |
| `relay_stale_commit` | | fails: a reset is undone for an id whose ACK was being published |
| `relay_evidence` | | fails: evidence of a failure is lost or replaced |
| `monitor_latest` | | fails: the table of latest states shows an older one |
| `agent_reset` | | fails: a reset is undone by the delivery it interrupted |
| `host_rejected` | | fails: an injection answered with an error starts its fault |

Bounds, and why they are enough:

* *Connections (2).* The properties of the relay relate at most two deliveries; a
  third connection repeats what the second does. `RelayProof` has no such bound.
* *Events (1), receipts (2).* The properties relate copies of one id; another id
  interferes only through the shared record of evidence, which the violating run
  `relay_evidence` shows with two events. `MaxReceived` bounds the receipts in the life
  of a process, not the copies in flight. An instance with 2 events, 3 receipts and no
  reset was checked by hand.
* *Attempts (2).* A first and a last; the code has three, of which the middle one
  behaves like the first.
* *Resets (1).* A delivery is stale or not.
* *Monitor.* Log 1, recent 2 and 3 arrivals, so that both windows overflow (the
  code has 50 and 8) and a copy comes of an event that left the log; 3 numbers, so
  that two late events come after one early one. Contents of events differ, so that an id can be used again for
  another event after a reset of the agent.
* *Agent.* The six states are two healthy ones, two of one fault, another
  fault, and one in which a fault hides another; 3 events in a generation are a
  fault, its end and its return.

* *Host.* The tick is counted modulo 20: a multiple of the four phases of the values,
  and long enough that values that grew without end would look like a fault.
  A duration is over, over after one unit, or after more; of two timed faults the
  second comes after the first has ended, or in place of it.

* *Delivery.* Two events, so that an id can be used twice and a leftover copy of the first
  meets the second; 2 slots, so that a node serves a copy while it still works on
  another; 2 faults (`MaxFault`), which is what it takes to lose an answer and then
  the memory of it, or to have one fault on each route. The same instance with 3
  faults (982 thousand states), without `Settles`, was checked by hand.
* *Runtime.* Two nodes stand for the seven, in different orders for broadcast and start:
  every property relates one node to another, or to its own process. `MaxSpent` bounds
  together the lines, power requests, crashes, timeouts and lost reports; nodes, reports
  and time are not bounded by it, nor are the processes that end after a shutdown. Three
  suffice for pause, kill and power start; for two overlapping lines and a fault; for
  a stop, a start and a process started by hand between the probe and its turn, or a
  start that fails half way; for a start request, the end of the runtime and a process
  started by hand. `MaxCaller` and `MaxRequest` are 2, since
  two of a kind compete. `Watched` are the nodes whose reports are followed, each on
  its own, `MaxReport` (2) how many of a node are under way: enough for a newer to
  arrive before an older.

Control commands are unbounded in the modules of the nodes, except resets of a relay.
The two cfgs of `MCRuntime` switch off the deadlock check: the runtime really ends.
Symmetry is used for safety properties only.

**Fairness.** `Answered`: weak fairness of `Proceed(t)` for each
connection, that is, every await of a handler ends. Sleeps end; a publish has a
timeout of one second (`base.py:96`); a request has one (`relay.py:105`); the event
loop runs what is ready. Nothing is assumed of control commands, of the network, or
of new requests. `TimedFaultEnds`: weak fairness of `Tick` and of `Elapse`, that is, the
loop wakes after each `TICK_SECONDS` (`host_simulator.py:177`) and the clock advances.
`Settles`: weak fairness of `Proceed(n, t)` for each node and slot, for the reasons given for
`Answered`; a paused or dead node answers too, with an ERROR or a refused connection.
`Converges`, `PowerAnswered` and `QuitEnds`: weak fairness of what the event loops of the
gateway and the nodes have ready (`Send`, `Work`, `Leave`, `Serve`, `Spawn`, and the poll
of the flag, `NoticeStop`); of `Report`, `Deliver` and `Age`, because a node reports again
and again (`base.py:308`), only a bounded number of reports is lost, and time passes;
and of `Die`, because no node handles the signal that tells it to end. Lines, power
requests, signals, crashes, starts that fail and the hand that starts a process are not
fair.

What the checks take for granted of the environment:

* The token a node or the gateway expects is the one it is given: the runtime
  hands out one to all it starts.
* A process listens as soon as it is started. The half second between two starts
  (`system.py:79`) is there for that; a shutting-down process that does not listen any
  more is taken as ended.
* Of two processes of one node the one that was there first has the port; the other
  ends before it reports.
* The runtime begins with all processes started.
* The control log keeps 12 lines (`config.py:70`); `failed` forgets none of them, so `Obeys`
  speaks of what has been shown.
* A process an ended runtime has left behind is not followed any further.

Things the model shows that a user may not expect, and that the properties are
therefore worded around:

* A quit from an external controller leaves the Web runtime running with a deaf
  gateway: a connection that waits already gets one more request through, and then
  every node fades to offline, and commands of external controllers are ignored
  (`controller_ui.py:1316`). `Converges` says that this is what happens.
* After a power stop the Web UI shows every node offline, also one started by hand that
  reports (`server.py:119`). `Converges` excludes just that (`foreign`, `PoweredOff`): every
  other node that is up is shown live again and again.
* The ports are probed once, and the processes started over more than three seconds
  (`server.py:186`, `system.py:43`): a role started by hand in between gets a second
  process. `NoSecondProcess` says that this is the only way to a second one.
* A `create_subprocess_exec` that raises leaves a part of the roles started, and the next
  start does not complete them. `WholeOrNothing` excludes roles that could not be
  started (`fallen`).
* `reset_all` clears the control log after its broadcast, and with it the failures of that
  broadcast, and records that all was reset (`controller_ui.py:1310`). `Obeys` excludes
  logs from which a failure was wiped (`erased`).
* A power start while one process is left alive is answered ok and starts
  nothing (`system.py:39`); the killed nodes stay away until a stop and a start.
  `WholeOrNothing` excludes processes that ended unasked (`fallen`).

A smaller one: `delay relay-r1 1` goes to r2, because the command takes no aliases and
everything it does not know stands for r2 (`controller_client.py:135`).

## What is proved

Every invariant, action property and refinement that a passing run checks is a theorem,
for all values of the constants. The proofs have one shape: an
inductive invariant, one lemma for each group of steps, and a last lemma that takes
the steps of `Next` apart.

`RelayProof`: any sets of connections, events and reasons, any number of
attempts, resets and receipts, and each of the four relays.

* `TypeCorrect`: `Spec => []TypeOK`. The type invariant is inductive because
  of its last part, which ties `pc` to the job (a suspended handler has an event,
  an attempt is below the bound where the loop goes on).
* `AckSoundness`: `Spec => []AckSound`. Inductive with `TypeOK`: an ACK comes from
  the cache or from a delivery past its ACK, so the invariant speaks of these two
  as well as of the reply.
* `PendingOwnership`: `Spec => []PendingOwned`. Both tables change together, and an
  entry names the connection that made it. A delivery that began before a reset may
  remove a younger entry but leaves none, because reset empties the tables.
* `DuplicatesSuppressed`: `Spec => []NoConcurrentDelivery`, by the stronger
  `DeliveryOwned`: until a reset, every delivery under way has its entry in the
  detail table, which can name only one connection.
* `EventsAccounted`: `Spec => []Accounting`. The invariant `Book` adds to the equation
  that the cache and the set of connections in progress are finite, however many
  connections there may be, and that until the first reset no delivery is of another
  generation, so that none is interrupted. `DeliveryOwned` is needed too: it makes the id
  that `Commit` enters a new one. Each step is then one of three moves in the books: a
  connection opens, stays, or closes and is counted (`MovesOn`, `IsCounted`).
* `RelayIsHop`: `Spec => HopPromise`: each step of the relay is a step of `Hop` or
  a stutter under the mapping of `Promise`. It uses `AckSound`.
* `RelayEdgeAllowed`: the hop a relay writes is an edge of its own route.

`MonitorProof`: any connections, hosts, contents, limits of the two windows and
number of arrivals.

* `MonitorTypeCorrect`: `Spec => []TypeOK`, with the lemmas that a bounded append at
  either end keeps to the bound.
* `MonitorIsHop`: `Spec => SinkPromise`. The invariant `Settled` says what the mapping
  needs: an idle connection carries nothing, and the cache of ids, which a reset
  empties, never holds more than was logged.
* `NothingLoggedTwiceOrLost`: `Spec => []LogExact`. The property compares log, recent
  list and counters with the history of arrivals place by place: the entry at a
  place of the log is the arrival at the corresponding place among the first copies. The
  invariant adds `Cached`, that the cache is the set of ids that arrived, which is what
  makes the code's test for a duplicate the right one.
* `OutOfOrderCounted`: `Spec => []OutOfOrderExact`. The invariant adds `Highest`: the last
  sequence number of a host is the highest that arrived from it, and a first copy
  bears it. So a later copy never counts, and an event is late just when it is
  below the number kept.

`HostProof`: any durations and any number of faults.

* `HostTypeCorrect`: `Spec => []TypeOK`: however many ticks there are, the host shows one
  of the states made of four phases and the faults, since its values depend on
  the tick through its phase only.
* `FaultsAsOrdered`: `Spec => []DetectedIsOrdered`. The property speaks of the state
  shown; the invariant `Agreement` adds what the next tick reads, the type and
  the end: the type is the one ordered, and a manual fault has no end.

`AgentProof`: any states of a host, reasons of the relays and number of events. One
invariant carries all five: `TypeOK`, `Trail`, `Memory`, `Shown` and
`SilentOnlyIfReported`.

* `AgentTypeCorrect`: `Spec => []TypeOK`: every event, trace, routing and detail the
  agent builds is well formed.
* `Localisation`: `Spec => []LocalisationAgrees`. `Trail` lists the two forms that trace
  and routing of an event on the backup route can have: failed at r1, or failed at
  r2 on the word of r1. For each, the last failed entry of the trace, after the
  entry the backup attempt appends, names the hop the agent wrote.
* `DetailAgreement`: `Spec => []DetailAgrees`, by `Shown`. Event and detail are written by
  separate calls with separate arguments, before and after the await of the backup route;
  the detail is that of the event on its way there, and else of the last one emitted.
* `Silence`: `Spec => []SilentOnlyIfReported`, and `NoRepetition`: `Spec => NoRepeatedFault`,
  an action property, both by `Memory`: the two signatures are those of the event
  acknowledged last, and a fault on its way is a new one. `NoRepeatedFault` speaks of the
  step that acknowledges, so a repeat with the very same state would be seen too. A delivery that a reset has
  crossed (`crossed`) spoils both, as the run `agent_reset` shows.

`SupervisorProof`: any nodes, any order of start, any number of power requests and of
mishaps, with any steps of the gateway between (`PowerStep` is all they do to the processes).

* `OneProcessPerNode`: `Spec => NoSecondProcess`, by `Exclusive` (the lock has one holder,
  and who is at work holds it) and `Vacant`: a role still to be started has no process,
  or one started by hand since the probe, and none is to be started twice. Nothing keeps
  `ByHand` from a role whose turn is to come; that a process by hand is always one
  since the last probe (`late = foreign`) holds because a start is let through only when no
  port answers.
* `AllOrNone`: `Spec => []WholeOrNothing`, by `Whole`: unless a stop is at work,
  every role is alive, has fallen or could not be started, or is about to be started, or
  the list is empty.
* `NoOrphans`: `Spec => []NoOrphan`, by `Listed`: each process is on the list, foreign or
  raced, and what was listed when a stop began is told to end.

`GatewayProof`: any nodes, lines, callers and mishaps, in the runtime as a whole.

* `RuntimeTypeCorrect`: `Spec => []TypeOK`. Besides the types it needs `Afresh`, that a
  node without a process has no commands, and `Broadcasts`, that a broadcast has
  an end of the list of nodes before it, or one node.
* `ObeysOrders`: `Spec => []Obeys`. A command is acknowledged when it is queued, and the
  property is about the node that has worked its queue off. The invariant `Obeying`
  says of every queue what it comes to: the last start or pause in it decides, and
  without one the state the node has (`ComesTo`). `Switching` says that at most
  one caller is still to switch a node, and to what is wanted of it, unless `wanted` is `either`.

`DeliveryProof`: any number of events, attempts, slots and faults. Here too one
invariant, of eight parts, carries the four theorems. TLC has checked it on the instance of
the run `delivery` and on that with 3 faults.

* `CacheSoundness`: `Spec => []CacheSound`, by `Vouches`: an ACK under way says no more than
  the caches do, and no cache holds an id that the monitor has not logged.
* `SuspicionSound`: `Spec => []SuspectAtOrAboveFault`, by `Explanations`: whatever has
  failed, or is about to be called a failure, has a fault at or below the place where it
  is looked for, or the agent's own. A relay also answers ERROR for an id that is pending; that this
  never befalls a delivery for want of any fault takes `Connections` (who waits
  for a relay has one connection there), `Pending` (an id is pending only while it is
  worked on) and `Copies` (an event comes to a route once, and a relay meets its own
  earlier copy below only after a timeout).
* `DeliveryTypeCorrect`: `Spec => []TypeOK`, with `Resting` (a free slot counts no attempts).
* `RouteRefinement`: `Spec => RoutePromise`: each step of the six nodes is a step of
  `EndToEnd` or a stutter. It uses `Vouches`, for an ACK that reaches the agent, and
  `Emissions`, for the ids: they count from 1, and from 1 again only after a reset of the agent.

**Assumptions.** Those named in the modules, all of them about constants. Attempts
(`MaxRetry`), slots and the limits of the monitor's windows are positive and the other bounds
are numbers; `NodeId` is a relay; host states are records of numbers and a
service that is up or down; broadcasts and starts go through finite
lists without repetition, not empty, of the same nodes; the target of a line is a node of the list, all or
none (`BuildRequest` makes no other); at least one report of a node may be under way; `None`
is not one of the values it is compared with. TLC evaluates them in every run.

**Only model-checked.** The liveness properties (`Answered`, `TimedFaultEnds`, `Settles`,
`Converges`, `PowerAnswered`, `QuitEnds`): fairness and `ENABLED` are outside what the prover
does. The five claims that fail are refuted by TLC's counterexamples. The proofs are
about the modules; that a module says what the code does rests on reading both.

## What is not modelled

The layout, widths, colours and raw input of the terminal viewer, the web front end,
static files, JSON bodies and status codes of the HTTP server, the choice of free ports
and argument parsing are presentation and I/O. JSON encoding is left out: no
property depends on it. Except in `Host`, and in three steps in `Control`, time is left
out: an await may end at any moment and in any way, which includes every timing the
timeouts allow, but cannot tell which timeout fires first. So the run of waits along
the backup route, where r1b gives up on r2b while that still waits for the monitor
(`relay.py:106`), is allowed but not singled out. Traffic captures and the
last-this, last-that fields that only the display reads are left out: they are
bounded deques and copies that nothing reads back. The automatic scenario of the
viewer issues four commands in turn and adds none of its own.

## Plan

1. After a reset: `Accounting` and `NoConcurrentDelivery` speak of the time until the first
   one. A version of both for the deliveries of the present generation, with a
   history variable for what the reset discarded, checked by TLC and then proved.
2. Hops in a chain: that two modules which keep the promise of `Hop`, one above the other, keep it
   together, so that the results about `Relay` and `Monitor` carry over to a route of any length.
3. Lemmas about `Routing` for every node and reason: that a trace entry for an allowed edge
   is accepted, and that localisation finds the last failed hop of any trace, not only
   of the traces the agent builds.
4. A module `Budget` with the timeouts as numbers, for the worst case of each hop
   (`relay.py:105`, `config.py:80`), which would cover the hazard of timeouts in the wrong order.
