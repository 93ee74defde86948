-------------------------------- MODULE Runtime --------------------------------
(***************************************************************************)
(* The runtime as a whole: the gateway and the nodes' control queues       *)
(* (Control) and the life of the node processes (Power).  The two share    *)
(* up, which tells the nodes that have a process, and the bound on what    *)
(* users do.  A process begins when the supervisor or someone's hand       *)
(* starts it and ends when it is terminated, when it has executed a        *)
(* shutdown, or by itself.                                                 *)
(*                                                                         *)
(* The runtime is that of the terminal viewer (system.run_simulation) or   *)
(* that of the Web UI (web_ui.server).  They differ in who takes power     *)
(* requests, in how lines come in, and in who looks at stop_requested.     *)
(***************************************************************************)
EXTENDS Naturals

CONSTANTS
    None, Numeral, NODE_ORDER, START_ORDER, Line, Watched,
    MaxCaller, MaxRequest, MaxReport, MaxSpent

VARIABLES
    up, spent,
    running, control_queue, executing, reports, node_status, elapsed,
    casts, failed, stop_requested, wanted, erased,
    processes, requests, lock, transition, runtime, foreign, late, fallen, raced,
    viewer          \* the runtime is that of the terminal viewer

C == INSTANCE Control
P == INSTANCE Power

ASSUME RuntimeAssumption ==
    C!ControlParameters /\ P!PowerParameters /\ C!Node = P!Role

controlled == <<running, control_queue, executing, reports, node_status, elapsed,
                casts, failed, stop_requested, wanted, erased>>
powered == <<processes, requests, lock, transition, runtime, foreign, late, fallen, raced>>
vars == <<up, spent, controlled, powered, viewer>>

Node == C!Node

Init == C!Init /\ P!Init /\ viewer \in BOOLEAN

-----------------------------------------------------------------------------
(* The gateway; it is gone when the runtime has ended                      *)

\* A quit in the Web UI stops the runtime; one from elsewhere only makes the
\* gateway deaf.
CommandLine(c, line) ==
    /\ runtime = "serving" /\ ~viewer
    /\ C!SubmitCommandLine(c, line)
    /\ IF C!BuildRequest(line) = C!Shutdown THEN P!StopRuntime ELSE UNCHANGED powered

TypedLine(c, line) ==
    runtime = "serving" /\ viewer /\ C!HandleLocalCommand(c, line) /\ UNCHANGED powered

\* ControllerUI.run looks at the flag twice a second, or when its duration is over.
NoticeStop ==
    /\ viewer /\ stop_requested
    /\ P!StopRuntime /\ C!CancelTasks
    /\ UNCHANGED <<up, spent>>

RemoteCommand(c, line) ==
    runtime # "ended" /\ C!RemoteCommand(c, line) /\ UNCHANGED powered

Send(c) ==
    runtime # "ended" /\ (C!Accepted(c) \/ C!Refused(c)) /\ UNCHANGED powered

SendTimesOut(c) == runtime # "ended" /\ C!TimedOut(c) /\ UNCHANGED powered

Deliver(n) ==
    /\ runtime # "ended"
    /\ \E r \in reports : r.node = n /\ C!Deliver(r)
    /\ UNCHANGED powered

Lose(n) == \E r \in reports : r.node = n /\ C!Lose(r) /\ UNCHANGED powered

Age(n) == C!Age(n) /\ UNCHANGED powered

-----------------------------------------------------------------------------
(* The nodes                                                               *)

\* A node that executed a shutdown is gone.
Leave(n) == C!Leaving(n) /\ C!Down(n) /\ P!Fall(n) /\ UNCHANGED spent

Work(n) == (C!Execute(n) \/ C!Executed(n)) /\ UNCHANGED powered

Report(n) == C!Report(n) /\ UNCHANGED powered

Crash(n) == C!Down(n) /\ P!Fall(n) /\ P!Spend

StartByHand(n) == P!ByHand(n) /\ C!Boot(n)

-----------------------------------------------------------------------------
(* The supervisor                                                          *)

AskPower(q, action) == ~viewer /\ P!Ask(q, action) /\ UNCHANGED controlled

\* A signal, or the end of the duration.
Signal ==
    /\ P!StopRuntime /\ P!Spend
    /\ IF viewer THEN C!CancelTasks ELSE UNCHANGED controlled
    /\ UNCHANGED up

\* The second process of a node changes nothing for the first.
Spawn(q) ==
    \E n \in Node : P!Spawn(q, n) /\ (C!Boot(n) \/ (up[n] /\ UNCHANGED controlled))

SpawnFails(q) == P!SpawnFails(q) /\ UNCHANGED controlled

Serve(s) == P!Serve(s) /\ UNCHANGED controlled

Die(n) == P!Die(n) /\ C!Down(n)

WindowCloses == P!WindowCloses /\ UNCHANGED controlled

-----------------------------------------------------------------------------
Step ==
    \/ \E c \in C!Caller :
          \/ \E line \in Line : CommandLine(c, line) \/ TypedLine(c, line) \/ RemoteCommand(c, line)
          \/ Send(c) \/ SendTimesOut(c)
    \/ \E n \in Node :
          \/ Deliver(n) \/ Lose(n) \/ Age(n)
          \/ Work(n) \/ Leave(n) \/ Report(n) \/ Crash(n) \/ StartByHand(n) \/ Die(n)
    \/ \E q \in P!Request :
          \/ \E action \in {"start", "stop"} : AskPower(q, action)
          \/ Spawn(q) \/ SpawnFails(q)
    \/ \E s \in P!Stopper : Serve(s)
    \/ NoticeStop \/ Signal \/ WindowCloses

Next == Step /\ UNCHANGED viewer

Spec == Init /\ [][Next]_vars

\* The event loops of the gateway and of the nodes run what is ready, time passes,
\* a report under way arrives, and a process told to end ends.  Nothing that users
\* do or that goes wrong is fair.
FairSpec ==
    /\ Spec
    /\ \A c \in C!Caller : WF_vars(Send(c) /\ UNCHANGED viewer)
    /\ \A n \in Node :
          /\ WF_vars((Work(n) \/ Leave(n)) /\ UNCHANGED viewer)
          /\ WF_vars(Die(n) /\ UNCHANGED viewer)
    /\ \A n \in Watched :
          /\ WF_vars(Report(n) /\ UNCHANGED viewer)
          /\ WF_vars(Deliver(n) /\ UNCHANGED viewer)
          /\ WF_vars(Age(n) /\ UNCHANGED viewer)
    /\ \A q \in P!Request : WF_vars((Serve(q) \/ Spawn(q)) /\ UNCHANGED viewer)
    /\ WF_vars(Serve(0) /\ UNCHANGED viewer)
    /\ WF_vars(NoticeStop /\ UNCHANGED viewer)

-----------------------------------------------------------------------------
\* Every variable has its type.
TypeOK == C!TypeOK /\ P!TypeOK

\* What the gateway did not report as failed is obeyed, across restarts too, until
\* the end of the viewer cuts a broadcast short.
Obeys == runtime = "serving" => C!Obeys

\* No second process of a node, no half of a power request, no orphans.
NoSecondProcess == P!NoSecondProcess
WholeOrNothing == P!WholeOrNothing
NoOrphan == P!NoOrphan

\* What the screen shows of node n.  The Web UI shows every node offline while its
\* supervisor has no process (WebRuntime.snapshot).
PoweredOff == ~viewer /\ P!NodePower = "stopped"
ObservedLiveness(n) == IF PoweredOff THEN "offline" ELSE C!Liveness(n)

\* The screen comes to tell the truth while the runtime serves: it shows each node
\* that is up as it is, and live again and again, and each other node offline, or never
\* heard of, whatever reports are late or lost, and whatever is killed and started
\* again.  Two exceptions: a node started by hand is shown offline while the Web UI
\* takes the power for off, and once a quit from elsewhere made the gateway deaf all
\* nodes fade (controller_ui.py:1143, base.py:88, server.py:113).
Converges ==
    \A n \in Watched :
        /\ <>[](\/ runtime # "serving"
                \/ IF up[n] /\ ~stop_requested
                   THEN C!Seen(n)
                   ELSE ObservedLiveness(n) \in {"unknown", "offline"})
        /\ []<>(\/ runtime # "serving" \/ ~up[n] \/ stop_requested
                \/ n \in foreign /\ PoweredOff
                \/ ObservedLiveness(n) = "live")

\* In the terminal viewer a quit ends the runtime, whoever typed it: the supervisor
\* does not wait for processes it did not start (system.py:84, controller_ui.py:1114).
QuitEnds == viewer /\ stop_requested ~> runtime = "ended"

\* No power request waits for ever.
PowerAnswered == P!PowerAnswered

=============================================================================
