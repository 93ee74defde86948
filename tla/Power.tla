--------------------------------- MODULE Power ---------------------------------
(***************************************************************************)
(* The life of the node processes: LocalProcessSupervisor, the power       *)
(* requests of the Web UI (WebRuntime._set_node_power) and the end of the  *)
(* Web runtime.                                                            *)
(*                                                                         *)
(* A power request waits for the lock, is refused if the window of the     *)
(* request before it is still open, and else starts the processes one by   *)
(* one, half a second apart, or drains, terminates and awaits them.  The   *)
(* ports are probed once, before the first process is started, so that a   *)
(* process started by hand in the meantime is met by a second one.  The    *)
(* end of the runtime stops the processes too, but without the lock.       *)
(* A process of a node is identified with the node.                        *)
(***************************************************************************)
EXTENDS Naturals, FiniteSets, SequencesExt

CONSTANTS
    START_ORDER,    \* system.ROLE_START_ORDER, as nodes
    MaxRequest,     \* bound on the power requests at a time
    MaxSpent        \* bound on what users do and what goes wrong

Role == ToSet(START_ORDER)
Request == 1..MaxRequest

\* What the parameters are; Runtime assumes it.
PowerParameters ==
    /\ START_ORDER \in Seq(Role) /\ IsInjective(START_ORDER) /\ START_ORDER # <<>>
    /\ MaxRequest \in Nat /\ MaxSpent \in Nat

VARIABLES
    up,             \* per node: its process is there and listens
    processes,      \* supervisor.processes: the roles on the list
    requests,       \* per request, and for the runtime: how far it is
    lock,           \* the holder of _power_lock, or the empty set of holders
    transition,     \* _power_transition_until is in the future
    runtime,        \* serving, stopping, ended
    foreign,        \* the nodes whose process was started by hand
    late,           \* history: nodes that have a process started by hand since the
                    \* last probe of the ports that let a start through
    fallen,         \* history: roles whose process ended unasked, or could not be
                    \* started, since the last start
    raced,          \* history: roles started while the runtime was stopping
    spent           \* history: counts what users did and what went wrong

supervisor == <<processes, requests, lock, transition, runtime>>
vars == <<up, supervisor, foreign, late, fallen, raced, spent>>

NoRequest == [phase |-> "idle", action |-> "none", todo |-> <<>>, doomed |-> {}]

\* The runtime's own stop is request 0, which needs no lock.
Stopper == 0..MaxRequest

\* The supervisor has started all roles before the first request can come.
Init ==
    /\ up = [n \in Role |-> TRUE]
    /\ processes = Role
    /\ requests = [q \in Stopper |-> NoRequest]
    /\ lock = {}
    /\ transition = FALSE
    /\ runtime = "serving"
    /\ foreign = {}
    /\ late = {}
    /\ fallen = {}
    /\ raced = {}
    /\ spent = 0

Spend == spent < MaxSpent /\ spent' = spent + 1

Alive == {n \in processes \ foreign : up[n]}
IsRunning == Alive # {}

\* node_power_status, of the Web UI's own supervisor.
NodePower ==
    CASE transition -> "transitioning"
      [] ~transition /\ IsRunning -> "running"
      [] ~transition /\ ~IsRunning -> "stopped"

\* Processes do not end in these steps.
Quiet == UNCHANGED <<up, foreign, late, fallen, raced, spent>>

-----------------------------------------------------------------------------
(* Power requests                                                          *)

Ask(q, action) ==
    /\ runtime = "serving"
    /\ requests[q].phase = "idle" /\ \A r \in 1..(q - 1) : requests[r].phase # "idle"
    /\ Spend
    /\ requests' = [requests EXCEPT ![q] = [NoRequest EXCEPT !.phase = "locking", !.action = action]]
    /\ UNCHANGED <<up, processes, lock, transition, runtime, foreign, late, fallen, raced>>

\* A slip: nobody waits for the lock.
Unlocked(q) == runtime # "ended"

HasLock(q) == runtime # "ended" /\ lock = {}

Enters(q, action) ==
    requests[q].phase = "locking" /\ requests[q].action = action /\ HasLock(q)

\* A slip: the lock is not given back.
ReplyHoldingLock(q) == requests' = [requests EXCEPT ![q] = NoRequest] /\ UNCHANGED lock

Reply(q) ==
    /\ requests' = [requests EXCEPT ![q] = NoRequest]
    /\ lock' = lock \ {q}

\* transition_in_progress
Postponed(q) ==
    /\ \E action \in {"start", "stop"} : Enters(q, action)
    /\ transition
    /\ Reply(q)
    /\ UNCHANGED <<processes, transition, runtime>>
    /\ Quiet

\* A slip: the list is cleared before it is looked at.
ListClearedFirst(q) ==
    /\ Enters(q, "start")
    /\ ~transition /\ IsRunning
    /\ transition' = TRUE
    /\ processes' = {}
    /\ Reply(q)
    /\ UNCHANGED runtime
    /\ Quiet

\* Some process is alive: the supervisor has nothing to do, whatever became of the others.
AlreadyRunning(q) ==
    /\ Enters(q, "start")
    /\ ~transition /\ IsRunning
    /\ transition' = TRUE
    /\ Reply(q)
    /\ UNCHANGED <<processes, runtime>>
    /\ Quiet

\* A slip: the ports of the nodes are not probed.
NoProbe == {}

\* Nodes whose port answers although their process is not on the list.
Conflicts == {n \in Role : up[n]}

PortConflict(q) ==
    /\ Enters(q, "start")
    /\ ~transition /\ ~IsRunning
    /\ Conflicts # {}
    /\ Reply(q)
    /\ UNCHANGED <<processes, transition, runtime>>
    /\ Quiet

Starts(q) ==
    /\ Enters(q, "start")
    /\ ~transition /\ ~IsRunning /\ Conflicts = {}
    /\ transition' = TRUE
    /\ processes' = {}
    /\ late' = {}
    /\ fallen' = {}
    /\ lock' = lock \cup {q}
    /\ requests' = [requests EXCEPT ![q].phase = "spawning", ![q].todo = START_ORDER]
    /\ UNCHANGED <<up, runtime, foreign, raced, spent>>

\* The process of the next role goes on the list.  If someone else's has the port it
\* cannot listen, and ends at once.
Spawn(q, n) ==
    /\ runtime # "ended"
    /\ requests[q].phase = "spawning" /\ requests[q].todo # <<>>
    /\ n = Head(requests[q].todo)
    /\ requests' = [requests EXCEPT ![q].todo = Tail(@)]
    /\ processes' = processes \cup {n}
    /\ up' = [up EXCEPT ![n] = TRUE]
    /\ fallen' = IF up[n] THEN fallen \cup {n} ELSE fallen
    /\ raced' = IF up[n] \/ runtime = "serving" THEN raced ELSE raced \cup {n}
    /\ UNCHANGED <<lock, transition, runtime, foreign, late, spent>>

\* The system cannot start a process: the request ends half way, and the roles left
\* are not started.
SpawnFails(q) ==
    /\ runtime # "ended"
    /\ requests[q].phase = "spawning" /\ requests[q].todo # <<>>
    /\ Spend
    /\ fallen' = fallen \cup ToSet(requests[q].todo)
    /\ Reply(q)
    /\ UNCHANGED <<up, processes, transition, runtime, foreign, late, raced>>

Started(q) ==
    /\ runtime # "ended"
    /\ requests[q].phase = "spawning" /\ requests[q].todo = <<>>
    /\ Reply(q)
    /\ UNCHANGED <<processes, transition, runtime>>
    /\ Quiet

\* The window opens, and POWER_STOP_DRAIN_SECONDS begin.
Stops(q) ==
    /\ Enters(q, "stop")
    /\ ~transition
    /\ transition' = TRUE
    /\ lock' = lock \cup {q}
    /\ requests' = [requests EXCEPT ![q].phase = "draining"]
    /\ UNCHANGED <<processes, runtime>>
    /\ Quiet

WindowCloses ==
    /\ transition
    /\ transition' = FALSE
    /\ UNCHANGED <<processes, requests, lock, runtime>>
    /\ Quiet

-----------------------------------------------------------------------------
(* LocalProcessSupervisor.stop, for a request or for the runtime           *)

\* All processes on the list are told to end.
Terminate(s) ==
    /\ runtime # "ended"
    /\ requests[s].phase = "draining"
    /\ requests' = [requests EXCEPT ![s].phase = "awaiting", ![s].doomed = Alive]
    /\ UNCHANGED <<processes, lock, transition, runtime>>
    /\ Quiet

\* A slip: the loop leaves the first role out.
TerminatedButFirst(n) ==
    n # Head(START_ORDER) /\ \E s \in Stopper : n \in requests[s].doomed

Terminated(n) == \E s \in Stopper : n \in requests[s].doomed

Die(n) ==
    /\ up[n] /\ n \notin foreign /\ Terminated(n)
    /\ up' = [up EXCEPT ![n] = FALSE]
    /\ UNCHANGED <<supervisor, foreign, late, fallen, raced, spent>>

\* A process ends unasked: killed through the gateway, or by a fault of its own.
Fall(n) ==
    /\ up[n]
    /\ up' = [up EXCEPT ![n] = FALSE]
    /\ fallen' = IF n \in foreign THEN fallen ELSE fallen \cup {n}
    /\ foreign' = foreign \ {n}
    /\ late' = late \ {n}
    /\ UNCHANGED <<supervisor, raced>>

\* Someone runs main.py --role, on the port of the node.
ByHand(n) ==
    /\ ~up[n]
    /\ Spend
    /\ up' = [up EXCEPT ![n] = TRUE]
    /\ foreign' = foreign \cup {n}
    /\ late' = late \cup {n}
    /\ UNCHANGED <<supervisor, fallen, raced>>

\* All it told to end have ended, and the list is cleared, with what was put on it
\* in the meantime.
Stopped(s) ==
    /\ runtime # "ended"
    /\ requests[s].phase = "awaiting"
    /\ requests[s].doomed \cap Alive = {}
    /\ processes' = {}
    /\ Reply(s)
    /\ runtime' = IF s = 0 THEN "ended" ELSE runtime
    /\ UNCHANGED <<up, transition, foreign, late, fallen, raced, spent>>

\* A signal, the end of the duration or a quit.  No further request comes in, but
\* those that came go on.
StopRuntime ==
    /\ runtime = "serving"
    /\ runtime' = "stopping"
    /\ requests' = [requests EXCEPT ![0].phase = "draining"]
    /\ UNCHANGED <<up, processes, lock, transition, foreign, late, fallen, raced>>

\* What the request's coroutine does without starting a process.
Serve(s) ==
    \/ Postponed(s) \/ AlreadyRunning(s) \/ PortConflict(s)
    \/ Starts(s) \/ Started(s) \/ Stops(s) \/ Terminate(s) \/ Stopped(s)

-----------------------------------------------------------------------------
TypeOK ==
    /\ processes \subseteq Role /\ foreign \subseteq Role /\ late \subseteq Role
    /\ \A s \in Stopper :
          /\ requests[s].phase \in {"idle", "locking", "spawning", "draining", "awaiting"}
          /\ IsSuffix(requests[s].todo, START_ORDER)
          /\ requests[s].doomed \subseteq Role
    /\ lock \subseteq Request /\ Cardinality(lock) <= 1
    /\ \A q \in Request : q \in lock <=> requests[q].phase \in {"spawning", "draining", "awaiting"}
    /\ transition \in BOOLEAN
    /\ runtime \in {"serving", "stopping", "ended"}
    /\ fallen \subseteq Role /\ raced \subseteq Role

\* Request q starts the process of the first role it has left.
Spawns(q) ==
    /\ requests[q].todo # <<>>
    /\ requests'[q].phase = "spawning" /\ requests'[q].todo = Tail(requests[q].todo)

\* A process is started for a node that has one only if that one was started by hand
\* after the ports were probed: no other request, no process left over, none that is
\* not on the list is met by a second one (server.py:130, server.py:186, system.py:43).
NoSecondProcess ==
    [][\A q \in Request : Spawns(q) => LET n == Head(requests[q].todo) IN up[n] => n \in late]_vars

\* Between requests either all processes run or none, but for those that ended
\* unasked or could not be started: a start and a stop never do half of each other's
\* work (server.py:181).
WholeOrNothing ==
    lock = {} /\ runtime = "serving" /\ IsRunning => Role \subseteq Alive \cup fallen

\* When the runtime is over no process of its is left, except those a start
\* request put on the list behind its back (server.py:93, system.py:84).
NoOrphan ==
    runtime = "ended" => \A n \in Role : up[n] => n \in foreign \cup raced

\* Every power request is answered, or the runtime ends.
PowerAnswered ==
    \A q \in Request : requests[q].phase # "idle" ~> requests[q].phase = "idle" \/ runtime = "ended"

=============================================================================
