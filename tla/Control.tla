-------------------------------- MODULE Control --------------------------------
(***************************************************************************)
(* How commands reach the nodes and statuses reach the screen: the gateway *)
(* of ControllerUI, as the Web UI, the terminal viewer and external        *)
(* controllers use it, and the control queue and status loop every node    *)
(* has from BaseNode.                                                      *)
(*                                                                         *)
(* A command is sent to its targets one after the other by a coroutine of  *)
(* the gateway (a caller); a node acknowledges it when it is queued, and   *)
(* executes its queue one command at a time.  A report has a connection of *)
(* its own and nobody waits for it, so that reports of one node arrive in  *)
(* any order, those of a process that has ended included.                  *)
(*                                                                         *)
(* Processes begin and end (Boot, Down) by someone else's hand: see Power. *)
(***************************************************************************)
EXTENDS Commands, FiniteSets, Functions, SequencesExt

CONSTANTS
    NODE_ORDER,     \* config.NODE_ORDER: the nodes, in the order of a broadcast
    Line,           \* the lines users type
    Watched,        \* the nodes whose reports are followed: each is on its own
    MaxCaller,      \* bound on the coroutines that broadcast at a time
    MaxReport,      \* bound on the reports of a node under way
    MaxSpent        \* bound on what users do and what goes wrong

Node == ToSet(NODE_ORDER)
Caller == 1..MaxCaller

\* What the parameters are; Runtime assumes it.
ControlParameters ==
    /\ NODE_ORDER \in Seq(NodeIds) /\ IsInjective(NODE_ORDER) /\ NODE_ORDER # <<>>
    /\ \A line \in Line : BuildRequest(line).target \in Node \cup {"all", "none"}
    /\ Watched \subseteq Node
    /\ MaxCaller \in Nat /\ MaxReport \in Nat \ {0} /\ MaxSpent \in Nat

VARIABLES
    up,             \* per node: its process is there and listens
    running,        \* per node: it is not paused
    control_queue,  \* per node: commands acknowledged and not executed
    executing,      \* per node: it publishes what a command did: a "shutdown", a
                    \* "command" of another kind, or None
    reports,        \* the reports under way
    node_status,    \* per node: the status the gateway heard last
    elapsed,        \* per node: how old it is: 0 live, 1 stale, 2 offline
    casts,          \* per caller: the broadcast it is busy with
    failed,         \* the nodes with a failure in the control activity log
    stop_requested, \* the gateway's flag
    wanted,         \* history: what the commands given to a node ask of it
    erased,         \* history: failures were wiped off the log
    spent           \* history: counts what users did and what went wrong

nodes == <<running, control_queue, executing>>
screen == <<node_status, elapsed>>
gateway == <<casts, failed, stop_requested, erased>>
vars == <<up, nodes, reports, screen, gateway, wanted, spent>>

NoCast == [kind |-> "none", command |-> "none", left |-> <<>>, typed |-> FALSE]

\* deaf: its connection is opened when the gateway reads none any more.
ControlReport(n, r, killed) ==
    [node |-> n, running |-> r, killed |-> killed, deaf |-> stop_requested]
Reports == [node : Node, running : BOOLEAN, killed : BOOLEAN, deaf : BOOLEAN]

Init ==
    /\ up = [n \in Node |-> TRUE]
    /\ running = [n \in Node |-> TRUE]
    /\ control_queue = [n \in Node |-> <<>>]
    /\ executing = [n \in Node |-> None]
    /\ reports = {}
    /\ node_status = [n \in Node |-> None]
    /\ elapsed = [n \in Node |-> 0]
    /\ casts = [c \in Caller |-> NoCast]
    /\ failed = {}
    /\ stop_requested = FALSE
    /\ wanted = [n \in Node |-> "start"]
    /\ erased = FALSE
    /\ spent = 0

Spend == spent < MaxSpent /\ spent' = spent + 1

-----------------------------------------------------------------------------
(* The gateway                                                             *)

Targets(target) == IF target = "all" THEN NODE_ORDER ELSE <<target>>

Switches(command) == command \in {"start", "pause"}

\* A start or pause is still to be sent to node n.
BeingSwitched(n) == \E c \in Caller : Switches(casts[c].command) /\ n \in ToSet(casts[c].left)

\* What node n is to do after one more command: nobody can tell when two
\* broadcasts are under way at a time.
Want(request) ==
    wanted' = [n \in Node |->
        IF ~Switches(request.command) \/ n \notin ToSet(Targets(request.target)) THEN wanted[n]
        ELSE IF BeingSwitched(n) THEN "either" ELSE request.command]

\* _apply_remote_request.  An external controller asks for a plain broadcast when
\* all nodes are to be reset; only lines typed here ask for reset_all.  typed: the
\* task that reads the terminal broadcasts, and not one of a connection.
Apply(c, request, here, typed) ==
    /\ casts[c] = NoCast /\ \A d \in 1..(c - 1) : casts[d] # NoCast
    /\ CASE request.kind = "shutdown" ->
                stop_requested' = TRUE /\ UNCHANGED <<casts, wanted>>
         [] request.kind = "message" -> UNCHANGED <<casts, wanted, stop_requested>>
         [] OTHER ->
                /\ casts' = [casts EXCEPT ![c] =
                        [kind |-> IF here THEN request.kind ELSE "control",
                         command |-> request.command, left |-> Targets(request.target),
                         typed |-> typed]]
                /\ Want(request)
                /\ UNCHANGED stop_requested
    /\ Spend
    /\ UNCHANGED <<up, nodes, reports, screen, failed, erased>>

\* A line of the Web UI; several may be under way.
SubmitCommandLine(c, line) == Apply(c, BuildRequest(line), TRUE, FALSE)

\* A line typed in the terminal viewer, which reads the next one when the broadcast
\* is over.
HandleLocalCommand(c, line) ==
    (\A d \in Caller : ~casts[d].typed) /\ Apply(c, BuildRequest(line), TRUE, TRUE)

\* A line typed at an external controller.  After a stop was requested a new connection
\* is closed unread, but each that is open has one request more carried out.
RemoteCommand(c, line) == Apply(c, BuildRequest(line), FALSE, FALSE)

\* The viewer ends: its tasks are cancelled, a broadcast half way included.
CancelTasks ==
    /\ stop_requested' = TRUE
    /\ casts' = [c \in Caller |-> IF casts[c].typed THEN NoCast ELSE casts[c]]
    /\ UNCHANGED <<nodes, reports, screen, failed, erased, wanted>>

\* A slip: a failure is passed over in silence.
GoOnSilently(c, failure) ==
    /\ casts' = [casts EXCEPT ![c] =
            IF Len(@.left) = 1 THEN NoCast ELSE [@ EXCEPT !.left = Tail(@)]]
    /\ UNCHANGED <<failed, erased>>

\* The broadcast goes on behind node n; behind the last node, reset_all wipes the
\* activity logs.
GoOn(c, failure) ==
    LET left == Tail(casts[c].left)
        log == failed \cup failure
    IN  IF left = <<>>
        THEN /\ casts' = [casts EXCEPT ![c] = NoCast]
             /\ failed' = IF casts[c].kind = "reset_all" THEN {} ELSE log
             /\ erased' = (erased \/ (casts[c].kind = "reset_all" /\ log # {}))
        ELSE /\ casts' = [casts EXCEPT ![c].left = left]
             /\ failed' = log
             /\ UNCHANGED erased

Busy(c) == casts[c].left # <<>>

Queue(n, command) == control_queue' = [control_queue EXCEPT ![n] = Append(@, command)]

\* The node below answers as soon as the command is in its queue.
Accepted(c) ==
    LET n == Head(casts[c].left)
    IN  /\ Busy(c) /\ up[n]
        /\ Queue(n, casts[c].command)
        /\ GoOn(c, {})
        /\ UNCHANGED <<up, running, executing, reports, screen, stop_requested, wanted, spent>>

\* Nobody listens.
Refused(c) ==
    LET n == Head(casts[c].left)
    IN  /\ Busy(c) /\ ~up[n]
        /\ GoOn(c, {n})
        /\ UNCHANGED <<up, nodes, reports, screen, stop_requested, wanted, spent>>

\* No answer within CONTROL_REQUEST_TIMEOUT_SECONDS, whether the node took the
\* command or not.  The bytes of a request may also be read after a later one; that
\* needs no step of its own, since nothing is promised of a node in the log.
TimedOut(c) ==
    LET n == Head(casts[c].left)
    IN  /\ Busy(c) /\ up[n]
        /\ Spend
        /\ Queue(n, casts[c].command) \/ UNCHANGED control_queue
        /\ GoOn(c, {n})
        /\ UNCHANGED <<up, running, executing, reports, screen, stop_requested, wanted>>

\* _apply_status: what arrives last is what is shown.
Shown(r) ==
    /\ node_status' = [node_status EXCEPT ![r.node] = r]
    /\ elapsed' = [elapsed EXCEPT ![r.node] = 0]

\* After a stop was requested a report is still read on a connection that was waiting
\* for it by then.
Deliver(r) ==
    /\ r \in reports
    /\ reports' = reports \ {r}
    /\ (~r.deaf /\ Shown(r)) \/ (stop_requested /\ UNCHANGED screen)
    /\ UNCHANGED <<up, nodes, gateway, wanted, spent>>

\* publish_status swallows a timeout or an error of the connection.
Lose(r) ==
    /\ r \in reports
    /\ Spend
    /\ reports' = reports \ {r}
    /\ UNCHANGED <<up, nodes, screen, gateway, wanted>>

\* A slip: no status is ever old enough to be called offline.
AgeToStale(n) ==
    /\ node_status[n] # None /\ elapsed[n] < 1
    /\ elapsed' = [elapsed EXCEPT ![n] = @ + 1]
    /\ UNCHANGED <<up, nodes, reports, node_status, gateway, wanted, spent>>

\* Time passes and nothing is heard.
Age(n) ==
    /\ node_status[n] # None /\ elapsed[n] < 2
    /\ elapsed' = [elapsed EXCEPT ![n] = @ + 1]
    /\ UNCHANGED <<up, nodes, reports, node_status, gateway, wanted, spent>>

-----------------------------------------------------------------------------
(* A node                                                                  *)

Publish(n, r, killed) ==
    LET own == {x \in reports : x.node = n}
    IN  IF n \notin Watched THEN UNCHANGED reports
        ELSE /\ Cardinality(own \cup {ControlReport(n, r, killed)}) <= MaxReport
             /\ reports' = reports \cup {ControlReport(n, r, killed)}

\* _control_loop and on_control, up to the report of what was done.
Execute(n) ==
    LET command == Head(control_queue[n])
    IN  /\ up[n] /\ executing[n] = None
        /\ control_queue[n] # <<>>
        /\ control_queue' = [control_queue EXCEPT ![n] = Tail(@)]
        /\ running' = [running EXCEPT ![n] =
                IF Switches(command) THEN command = "start" ELSE @]
        /\ executing' = [executing EXCEPT ![n] =
                IF command = "shutdown" THEN "shutdown" ELSE "command"]
        /\ Publish(n, running'[n], command = "shutdown")
        /\ UNCHANGED <<up, screen, gateway, wanted, spent>>

\* The report went out, or its second is over.
Executed(n) ==
    /\ up[n] /\ executing[n] = "command"
    /\ executing' = [executing EXCEPT ![n] = None]
    /\ UNCHANGED <<up, running, control_queue, reports, screen, gateway, wanted, spent>>

\* _status_loop.
Report(n) ==
    /\ up[n] /\ n \in Watched
    /\ Publish(n, running[n], executing[n] = "shutdown")
    /\ UNCHANGED <<up, nodes, screen, gateway, wanted, spent>>

\* A shutdown was executed: the process is to end.
Leaving(n) == up[n] /\ executing[n] = "shutdown"

\* A new process of the node.
Boot(n) ==
    /\ ~up[n]
    /\ up' = [up EXCEPT ![n] = TRUE]
    /\ wanted' = [wanted EXCEPT ![n] = IF BeingSwitched(n) THEN "either" ELSE "start"]
    /\ UNCHANGED <<nodes, reports, screen, gateway>>

\* A slip: what was acknowledged outlives the process.
DownButQueue(n) ==
    /\ up[n]
    /\ up' = [up EXCEPT ![n] = FALSE]
    /\ running' = [running EXCEPT ![n] = TRUE]
    /\ executing' = [executing EXCEPT ![n] = None]
    /\ UNCHANGED <<control_queue, reports, screen, gateway, wanted>>

\* The process ends, and all it knows with it.
Down(n) ==
    /\ up[n]
    /\ up' = [up EXCEPT ![n] = FALSE]
    /\ running' = [running EXCEPT ![n] = TRUE]
    /\ control_queue' = [control_queue EXCEPT ![n] = <<>>]
    /\ executing' = [executing EXCEPT ![n] = None]
    /\ UNCHANGED <<reports, screen, gateway, wanted>>

-----------------------------------------------------------------------------
TypeOK ==
    /\ up \in [Node -> BOOLEAN] /\ running \in [Node -> BOOLEAN]
    /\ \A n \in Node : ~up[n] => running[n] /\ control_queue[n] = <<>> /\ executing[n] = None
    /\ reports \subseteq Reports
    /\ \A n \in Node : Cardinality({r \in reports : r.node = n}) <= MaxReport
    /\ \A n \in Node : node_status[n] # None => node_status[n] \in {r \in Reports : r.node = n}
    /\ elapsed \in [Node -> 0..2]
    /\ \A c \in Caller : IsSuffix(casts[c].left, NODE_ORDER) \/ Len(casts[c].left) = 1
    /\ \A c \in Caller : Busy(c) <=> casts[c] # NoCast
    /\ failed \subseteq Node
    /\ wanted \in [Node -> {"start", "pause", "either"}]
    /\ stop_requested \in BOOLEAN /\ erased \in BOOLEAN
    /\ spent \in 0..MaxSpent

Settled(n) == up[n] /\ control_queue[n] = <<>> /\ executing[n] = None /\ ~BeingSwitched(n)

\* The operator may rely on what is on the screen: when a node has worked off what
\* it acknowledged, it runs or pauses as the last start or pause of all the
\* callers asks, unless a failure of the node is in the log, or reset_all wiped
\* one off it, or two of them were under way to it at a time
\* (controller_ui.py:1331, base.py:283).
Obeys ==
    \A n \in Node :
        Settled(n) /\ n \notin failed /\ ~erased /\ wanted[n] # "either"
            => running[n] = (wanted[n] = "start")

\* derive_node_liveness
Liveness(n) ==
    CASE node_status[n] = None -> "unknown"
      [] node_status[n] # None /\ elapsed[n] = 2 -> "offline"
      [] node_status[n] # None /\ elapsed[n] = 1 -> "stale"
      [] node_status[n] # None /\ elapsed[n] = 0 ->
            IF node_status[n].killed THEN "kill_requested" ELSE "live"

Seen(n) == node_status[n] = ControlReport(n, running[n], FALSE)

=============================================================================
