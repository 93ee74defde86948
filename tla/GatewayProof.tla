----------------------------- MODULE GatewayProof -----------------------------
(***************************************************************************)
(* Theorems about the gateway and the nodes' control queues, in the        *)
(* runtime as a whole: for any nodes, any lines that users type, any       *)
(* number of broadcasts at a time, and processes that end and begin        *)
(* between the sending, the queueing and the execution of a command.       *)
(***************************************************************************)
EXTENDS SupervisorProof

-----------------------------------------------------------------------------
(* The invariant.                                                          *)

Commands == {"start", "pause", "reset", "shutdown", "drop_next_ack", "set_fault",
             "inject_fault", "set_delay", "none", "quit"}

Cast == [kind : {"control", "reset_all", "none"}, command : Commands, left : Seq(C!Node),
         typed : BOOLEAN]

ControlTypes ==
    /\ running \in [C!Node -> BOOLEAN]
    /\ control_queue \in [C!Node -> Seq(Commands)]
    /\ executing \in [C!Node -> {None, "shutdown", "command"}]
    /\ casts \in [C!Caller -> Cast]
    /\ failed \subseteq C!Node
    /\ wanted \in [C!Node -> {"start", "pause", "either"}]
    /\ stop_requested \in BOOLEAN /\ erased \in BOOLEAN
    /\ spent \in 0..MaxSpent

\* A node without a process has nothing left of the last one.
Afresh == \A n \in C!Node :
    ~up[n] => running[n] /\ control_queue[n] = <<>> /\ executing[n] = None

\* A broadcast is busy with the end of the list of nodes, or with one node.
Broadcasts ==
    \A c \in C!Caller :
        /\ C!IsSuffix(casts[c].left, NODE_ORDER) \/ Len(casts[c].left) = 1
        /\ casts[c].left # <<>> <=> casts[c] # C!NoCast

\* Reports under way and on the screen.
Statuses ==
    /\ IsFiniteSet(reports) /\ reports \subseteq C!Reports
    /\ \A n \in C!Node : Cardinality({r \in reports : r.node = n}) <= MaxReport
    /\ node_status \in [C!Node -> C!Reports \cup {None}]
    /\ \A n \in C!Node : node_status[n] # None => node_status[n].node = n
    /\ elapsed \in [C!Node -> 0..2]

\* Caller c is still to switch node n.
Pending(c, n) == C!Switches(casts[c].command) /\ n \in C!ToSet(casts[c].left)

\* At most one caller is to switch a node, and to what is wanted of it, unless
\* nobody can tell what is.
Switching ==
    \A n \in C!Node : \A c, d \in C!Caller :
        Pending(c, n) /\ Pending(d, n) /\ wanted[n] # "either" =>
            c = d /\ casts[c].command = wanted[n]

\* What a node that runs or not comes to when it has worked off a queue: the last
\* start or pause in it decides.
ComesTo(queue, runs, value) ==
    \/ \E i \in DOMAIN queue :
          /\ C!Switches(queue[i]) /\ (value <=> queue[i] = "start")
          /\ \A j \in DOMAIN queue : j > i => ~C!Switches(queue[j])
    \/ /\ \A i \in DOMAIN queue : ~C!Switches(queue[i])
       /\ value <=> runs

WillRun(n, value) == ComesTo(control_queue[n], running[n], value)

Trusted(n) == up[n] /\ n \notin failed /\ ~erased /\ wanted[n] # "either"

Obeying ==
    runtime = "serving" =>
        \A n \in C!Node :
            Trusted(n) /\ ~C!BeingSwitched(n) => WillRun(n, wanted[n] = "start")

ControlInvariant ==
    ControlTypes /\ Afresh /\ Broadcasts /\ Statuses /\ Switching /\ Obeying

-----------------------------------------------------------------------------
(* Steps of the gateway and the nodes in the steps of the runtime.         *)

Spends == spent' = spent \/ (spent < MaxSpent /\ spent' = spent + 1)

Serving == runtime' = "serving" => runtime = "serving"

Applies ==
    \E c \in C!Caller, line \in Line, here \in BOOLEAN, typed \in BOOLEAN :
        C!Apply(c, C!BuildRequest(line), here, typed)

Sends == \E c \in C!Caller : C!Accepted(c) \/ C!Refused(c) \/ C!TimedOut(c)

Shows == \/ \E r \in reports : C!Deliver(r) \/ C!Lose(r)
         \/ \E n \in C!Node : C!Age(n)

Works == \E n \in C!Node : C!Execute(n) \/ C!Executed(n) \/ C!Report(n)

Lives == \E n \in C!Node : C!Boot(n) \/ C!Down(n)

Cancels == C!CancelTasks /\ UNCHANGED up /\ runtime' # "serving"

ControlStep ==
    \/ Applies \/ Sends \/ Shows \/ Works \/ Lives \/ Cancels
    \/ UNCHANGED <<up, controlled>>

\* The supervisor touches the gateway and the nodes only by beginning and ending
\* processes.
LEMMA StepIsControlStep ==
    ASSUME Invariant, [Next]_vars PROVE ControlStep /\ Spends /\ Serving
<1> USE DEF ControlStep, Spends, Serving
<1> DEFINE Goal == ControlStep /\ Spends /\ Serving
<1>1. C!Node = P!Role
  BY RuntimeAssumption
<1>2. ASSUME NEW c \in C!Caller, NEW line \in Line, CommandLine(c, line) PROVE Goal
  BY <1>2 DEF CommandLine, C!SubmitCommandLine, C!Apply, C!Spend, Applies, P!StopRuntime,
              powered
<1>3. ASSUME NEW c \in C!Caller, NEW line \in Line,
             TypedLine(c, line) \/ RemoteCommand(c, line)
      PROVE  Goal
  BY <1>3 DEF TypedLine, RemoteCommand, C!HandleLocalCommand, C!RemoteCommand, C!Apply,
              C!Spend, Applies, powered
<1>4. ASSUME NEW c \in C!Caller, Send(c) \/ SendTimesOut(c) PROVE Goal
  <2>1. Sends /\ runtime' = runtime
    BY <1>4 DEF Send, SendTimesOut, Sends, powered
  <2>2. Spends
    BY <1>4 DEF Send, SendTimesOut, C!Accepted, C!Refused, C!TimedOut, C!Spend
  <2> QED
    BY <2>1, <2>2
<1>5. ASSUME NEW n \in Node, Deliver(n) \/ Lose(n) \/ Age(n) PROVE Goal
  <2>1. Shows /\ runtime' = runtime
    BY <1>5 DEF Deliver, Lose, Age, Shows, Node, powered
  <2>2. Spends
    BY <1>5 DEF Deliver, Lose, Age, C!Deliver, C!Lose, C!Age, C!Spend
  <2> QED
    BY <2>1, <2>2
<1>6. ASSUME NEW n \in Node, Work(n) \/ Report(n) PROVE Goal
  <2>1. Works /\ runtime' = runtime
    BY <1>6 DEF Work, Report, Works, Node, powered
  <2>2. Spends
    BY <1>6 DEF Work, Report, C!Execute, C!Executed, C!Report
  <2> QED
    BY <2>1, <2>2
<1>7. ASSUME NEW n \in Node, Leave(n) \/ Crash(n) \/ Die(n) PROVE Goal
  <2>1. Lives /\ runtime' = runtime
    BY <1>7 DEF Leave, Crash, Die, P!Fall, P!Die, P!supervisor, Lives, Node
  <2>2. Spends
    BY <1>7 DEF Leave, Crash, Die, P!Die, P!Spend
  <2> QED
    BY <2>1, <2>2
<1>8. ASSUME NEW n \in Node, StartByHand(n) PROVE Goal
  <2>1. Lives /\ runtime' = runtime
    BY <1>8 DEF StartByHand, P!ByHand, P!supervisor, Lives, Node
  <2>2. Spends
    BY <1>8 DEF StartByHand, P!ByHand, P!Spend
  <2> QED
    BY <2>1, <2>2
<1>9. ASSUME NEW q \in P!Request, NEW action, AskPower(q, action) PROVE Goal
  BY <1>9 DEF AskPower, P!Ask, P!Spend
<1>10. ASSUME NEW q \in P!Request, Spawn(q) PROVE Goal
  <2>1. PICK n \in Node : P!Spawn(q, n) /\ (C!Boot(n) \/ (up[n] /\ UNCHANGED controlled))
    BY <1>10 DEF Spawn
  <2>2. spent' = spent /\ runtime' = runtime /\ up' = [up EXCEPT ![n] = TRUE]
    BY <2>1 DEF P!Spawn
  <2>3. up \in [C!Node -> BOOLEAN] /\ n \in C!Node
    BY <1>1 DEF Invariant, PowerTypes, Node
  <2>4. CASE C!Boot(n)
    BY <2>2, <2>3, <2>4 DEF Lives
  <2>5. CASE up[n] /\ UNCHANGED controlled
    <3>1. up' = up
      BY <2>2, <2>3, <2>5
    <3> QED
      BY <2>2, <2>5, <3>1
  <2> QED
    BY <2>1, <2>4, <2>5
<1>11. ASSUME NEW q \in P!Request, SpawnFails(q) PROVE Goal
  BY <1>11 DEF SpawnFails, P!SpawnFails, P!Spend
<1>12. ASSUME NEW s \in P!Stopper, Serve(s) PROVE Goal
  <2>1. UNCHANGED <<up, spent>>
    BY <1>12 DEF Serve, P!Serve, P!Postponed, P!AlreadyRunning, P!PortConflict, P!Starts,
                 P!Started, P!Stops, P!Terminate, P!Stopped, P!Quiet
  <2>2. Serving
    BY <1>12 DEF Serve, P!Serve, P!Postponed, P!AlreadyRunning, P!PortConflict, P!Starts,
                 P!Started, P!Stops, P!Terminate, P!Stopped, P!Quiet
  <2>3. UNCHANGED controlled
    BY <1>12 DEF Serve
  <2> QED
    BY <2>1, <2>2, <2>3
<1>13. ASSUME NoticeStop PROVE Goal
  BY <1>13 DEF NoticeStop, P!StopRuntime, Cancels
<1>14. ASSUME Signal PROVE Goal
  <2>1. CASE viewer
    BY <1>14, <2>1 DEF Signal, P!StopRuntime, P!Spend, Cancels
  <2>2. CASE ~viewer
    BY <1>14, <2>2 DEF Signal, P!StopRuntime, P!Spend
  <2> QED
    BY <2>1, <2>2
<1>15. ASSUME WindowCloses PROVE Goal
  BY <1>15 DEF WindowCloses, P!WindowCloses, P!Quiet
<1>16. ASSUME UNCHANGED vars PROVE Goal
  BY <1>16 DEF vars, powered
<1> HIDE DEF Goal
<1>17. Goal
  BY <1>2, <1>3, <1>4, <1>5, <1>6, <1>7, <1>8, <1>9, <1>10, <1>11, <1>12, <1>13, <1>14,
     <1>15, <1>16
  DEF Next, Step
<1> QED
  BY <1>17 DEF Goal

-----------------------------------------------------------------------------
(* What lines ask for.                                                     *)

\* A request with something to send says what, and to whom.
Fine(r) ==
    /\ r.command \in Commands
    /\ r.kind \notin {"shutdown", "message"} =>
          r.kind \in {"control", "reset_all"} /\ r.target # "none"

LEMMA NodeRequestFine ==
    ASSUME NEW line, NEW command \in Commands
    PROVE  Fine(C!ForNode(line, command))
<1> DEFINE target == C!ResolveTarget(C!Word(line, 2, "all"))
<1>1. target # None => target # "none"
  BY DEF C!ResolveTarget, C!NodeIds, C!RelayName
<1> HIDE DEF target
<1>2. C!ForNode(line, command) = IF target = None THEN C!Message ELSE C!Control(command, target)
  BY DEF C!ForNode, target
<1> QED
  BY <1>1, <1>2 DEF C!Message, C!Control, Commands, Fine

LEMMA KillRequestFine ==
    ASSUME NEW line PROVE Fine(C!ForKill(line))
<1> DEFINE target == C!ResolveTarget(C!Word(line, 2, "all"))
<1>1. target # None => target # "none"
  BY DEF C!ResolveTarget, C!NodeIds, C!RelayName
<1> HIDE DEF target
<1>2. C!ForKill(line) =
         IF target \in {None, "all"} THEN C!Message ELSE C!Control("shutdown", target)
  BY DEF C!ForKill, target
<1> QED
  BY <1>1, <1>2 DEF C!Message, C!Control, Commands, Fine

LEMMA RequestFine ==
    ASSUME NEW line PROVE Fine(C!BuildRequest(line))
<1>1. Fine(C!Shutdown) /\ Fine(C!ResetAll) /\ Fine(C!Message)
  BY DEF C!Shutdown, C!ResetAll, C!Message, Fine, Commands
<1>2. ASSUME line[1] \in {"start", "pause"} PROVE Fine(C!ForNode(line, line[1]))
  BY <1>2, NodeRequestFine DEF Commands
<1>3. Fine(C!ForReset(line))
  BY <1>1, NodeRequestFine DEF C!ForReset, Commands
<1>4. Fine(C!Control("drop_next_ack", "monitor"))
  BY DEF C!Control, Fine, Commands
<1>5. Fine(C!ForFault(line))
  <2>1. Fine(C!Control("set_fault", "host-simulator"))
        /\ Fine(C!Control("inject_fault", "host-simulator"))
    BY DEF C!Control, Fine, Commands
  <2> QED
    BY <1>1, <2>1 DEF C!ForFault
<1>6. Fine(C!ForDelay(line))
  <2> DEFINE relay == C!Word(line, 2, "r1")
             known == IF relay \in C!RelayName THEN relay ELSE "r2"
  <2>1. known # "none"
    BY DEF C!RelayName
  <2> HIDE DEF known
  <2>2. Fine(C!Control("set_delay", known))
    BY <2>1 DEF C!Control, Fine, Commands
  <2> QED
    BY <1>1, <2>2 DEF C!ForDelay, known
<1> QED
  BY <1>1, <1>2, <1>3, <1>4, <1>5, <1>6, KillRequestFine DEF C!BuildRequest

\* The nodes a request is for.
LEMMA TargetsTyped ==
    ASSUME NEW line \in Line, C!BuildRequest(line).kind \notin {"shutdown", "message"}
    PROVE  LET targets == C!Targets(C!BuildRequest(line).target)
           IN  /\ targets \in Seq(C!Node) /\ targets # <<>>
               /\ targets = NODE_ORDER \/ Len(targets) = 1
<1> DEFINE target == C!BuildRequest(line).target
<1>1. target \in C!Node \cup {"all"}
  BY RequestFine, RuntimeAssumption DEF C!ControlParameters, Fine
<1>2. NODE_ORDER \in Seq(C!Node) /\ NODE_ORDER # <<>>
  BY RuntimeAssumption DEF C!ControlParameters, C!Node, C!ToSet
<1> HIDE DEF target
<1>3. C!Targets(target) \in Seq(C!Node) /\ C!Targets(target) # <<>>
      /\ (C!Targets(target) = NODE_ORDER \/ Len(C!Targets(target)) = 1)
  BY <1>1, <1>2 DEF C!Targets
<1> QED
  BY <1>3 DEF target

LEMMA SameSuffix ==
    ASSUME NEW s, NEW t PROVE C!IsSuffix(s, t) = P!IsSuffix(s, t)
  BY DEF C!IsSuffix, P!IsSuffix, C!IsPrefix, P!IsPrefix, C!Reverse, P!Reverse

LEMMA NodeOrder ==
    /\ NODE_ORDER \in Seq(C!Node)
    /\ C!IsSuffix(<<>>, NODE_ORDER) /\ C!IsSuffix(NODE_ORDER, NODE_ORDER)
    /\ \A s \in Seq(C!Node) :
          s # <<>> /\ C!IsSuffix(s, NODE_ORDER) => C!IsSuffix(Tail(s), NODE_ORDER)
<1>1. NODE_ORDER \in Seq(C!Node)
  BY RuntimeAssumption DEF C!ControlParameters, C!Node, C!ToSet
<1> QED
  BY <1>1, Suffixes, SameSuffix

LEMMA Parameters ==
    C!Node = P!Role /\ MaxSpent \in Nat /\ MaxReport \in Nat \ {0}
  BY RuntimeAssumption DEF C!ControlParameters

-----------------------------------------------------------------------------
(* Working off a queue.                                                    *)

\* One command more.
LEMMA ComesToAppend ==
    ASSUME NEW queue \in Seq(Commands), NEW command \in Commands,
           NEW runs \in BOOLEAN, NEW value \in BOOLEAN
    PROVE  /\ C!Switches(command) /\ (value <=> command = "start")
                 => ComesTo(Append(queue, command), runs, value)
           /\ ~C!Switches(command) /\ ComesTo(queue, runs, value)
                 => ComesTo(Append(queue, command), runs, value)
<1> DEFINE longer == Append(queue, command)
<1>1. /\ Len(queue) \in Nat /\ DOMAIN queue = 1..Len(queue)
      /\ DOMAIN longer = 1..(Len(queue) + 1) /\ longer[Len(queue) + 1] = command
      /\ \A i \in DOMAIN queue : longer[i] = queue[i]
  OBVIOUS
<1> HIDE DEF longer
<1>2. Len(queue) + 1 \in DOMAIN longer /\ \A j \in DOMAIN longer : ~(j > Len(queue) + 1)
  BY <1>1
<1>3. \A j \in DOMAIN longer : j \in DOMAIN queue \/ j = Len(queue) + 1
  BY <1>1
<1>4. DOMAIN queue \subseteq DOMAIN longer
  BY <1>1
<1>5. C!Switches(command) /\ (value <=> command = "start") => ComesTo(longer, runs, value)
  BY <1>1, <1>2 DEF ComesTo
<1>6. ASSUME ~C!Switches(command), ComesTo(queue, runs, value)
      PROVE  ComesTo(longer, runs, value)
  <2>1. \A j \in DOMAIN longer : j \in DOMAIN queue \/ ~C!Switches(longer[j])
    BY <1>1, <1>3, <1>6
  <2>2. CASE \A i \in DOMAIN queue : ~C!Switches(queue[i])
    BY <1>1, <1>6, <2>1, <2>2 DEF ComesTo
  <2>3. CASE \E i \in DOMAIN queue : C!Switches(queue[i])
    <3>1. PICK i \in DOMAIN queue :
              /\ C!Switches(queue[i]) /\ (value <=> queue[i] = "start")
              /\ \A j \in DOMAIN queue : j > i => ~C!Switches(queue[j])
      BY <1>6, <2>3 DEF ComesTo
    <3> QED
      BY <1>1, <1>4, <2>1, <3>1 DEF ComesTo
  <2> QED
    BY <2>2, <2>3
<1> QED
  BY <1>5, <1>6 DEF longer

\* One command less.
LEMMA ComesToTail ==
    ASSUME NEW queue \in Seq(Commands), queue # <<>>,
           NEW runs \in BOOLEAN, NEW value \in BOOLEAN, NEW next \in BOOLEAN,
           next <=> IF C!Switches(Head(queue)) THEN Head(queue) = "start" ELSE runs,
           ComesTo(queue, runs, value)
    PROVE  ComesTo(Tail(queue), next, value)
<1> DEFINE rest == Tail(queue)
<1>1. /\ Len(queue) \in Nat /\ DOMAIN queue = 1..Len(queue) /\ 1 \in DOMAIN queue
      /\ queue[1] = Head(queue)
      /\ DOMAIN rest = 1..(Len(queue) - 1)
      /\ \A i \in DOMAIN rest : rest[i] = queue[i + 1]
  OBVIOUS
<1> HIDE DEF rest
<1>2. /\ \A i \in DOMAIN rest : i + 1 \in DOMAIN queue /\ i + 1 > 1
      /\ \A i \in DOMAIN queue : i # 1 => i - 1 \in DOMAIN rest /\ rest[i - 1] = queue[i]
  BY <1>1
<1>3. ASSUME \A i \in DOMAIN queue : ~C!Switches(queue[i])
      PROVE  ComesTo(rest, next, value)
  <2>1. \A i \in DOMAIN rest : ~C!Switches(rest[i])
    BY <1>1, <1>2, <1>3
  <2>2. value <=> next
    BY <1>1, <1>3 DEF ComesTo
  <2> QED
    BY <2>1, <2>2 DEF ComesTo
<1>4. ASSUME \E i \in DOMAIN queue : C!Switches(queue[i])
      PROVE  ComesTo(rest, next, value)
  <2>1. PICK i \in DOMAIN queue :
            /\ C!Switches(queue[i]) /\ (value <=> queue[i] = "start")
            /\ \A j \in DOMAIN queue : j > i => ~C!Switches(queue[j])
    BY <1>4 DEF ComesTo
  <2>2. CASE i = 1
    <3>1. \A j \in DOMAIN rest : ~C!Switches(rest[j])
      BY <1>1, <1>2, <2>1, <2>2
    <3>2. value <=> next
      BY <1>1, <2>1, <2>2
    <3> QED
      BY <3>1, <3>2 DEF ComesTo
  <2>3. CASE i # 1
    <3>1. \A j \in DOMAIN rest : j > i - 1 => ~C!Switches(rest[j])
      BY <1>1, <1>2, <2>1
    <3>2. i - 1 \in DOMAIN rest /\ rest[i - 1] = queue[i]
      BY <1>2, <2>3
    <3> QED
      BY <2>1, <3>1, <3>2 DEF ComesTo
  <2> QED
    BY <2>2, <2>3
<1> QED
  BY <1>3, <1>4 DEF rest

-----------------------------------------------------------------------------
(* The initial states.                                                     *)

LEMMA ControlInvariantInit == Init => ControlInvariant
<1> SUFFICES ASSUME C!Init PROVE ControlInvariant
  BY DEF Init
<1>1. ControlTypes
  <2>1. C!NoCast \in Cast
    BY DEF C!NoCast, Cast, Commands
  <2>2. spent \in 0..MaxSpent
    BY Parameters DEF C!Init
  <2>3. control_queue \in [C!Node -> Seq(Commands)]
    BY DEF C!Init
  <2>4. casts \in [C!Caller -> Cast]
    BY <2>1 DEF C!Init
  <2> QED
    BY <2>2, <2>3, <2>4 DEF C!Init, ControlTypes
<1>2. Broadcasts
  BY NodeOrder DEF C!Init, C!NoCast, Broadcasts
<1>3. Statuses
  <2>1. \A n \in C!Node : {r \in reports : r.node = n} = {}
    BY DEF C!Init
  <2>2. \A n \in C!Node : Cardinality({r \in reports : r.node = n}) = 0
    BY <2>1, FS_EmptySet
  <2> QED
    BY <2>2, FS_EmptySet, Parameters DEF C!Init, Statuses
<1>4. Afresh /\ Switching
  BY DEF C!Init, C!NoCast, Afresh, Switching, Pending, C!ToSet
<1>5. Obeying
  BY DEF C!Init, Obeying, WillRun, ComesTo
<1> QED
  BY <1>1, <1>2, <1>3, <1>4, <1>5 DEF ControlInvariant

-----------------------------------------------------------------------------
(* The steps of the gateway.                                               *)

\* A broadcast begins.
LEMMA AppliesKeeps ==
    ASSUME ControlInvariant, Spends, Serving, Applies
    PROVE  ControlInvariant'
<1> USE DEF ControlInvariant
<1> PICK c \in C!Caller, line \in Line, here \in BOOLEAN, typed \in BOOLEAN :
        C!Apply(c, C!BuildRequest(line), here, typed)
  BY DEF Applies
<1> DEFINE request == C!BuildRequest(line)
           targets == C!Targets(request.target)
           cast == [kind |-> IF here THEN request.kind ELSE "control",
                    command |-> request.command, left |-> targets, typed |-> typed]
<1>1. /\ casts[c] = C!NoCast
      /\ UNCHANGED <<up, running, control_queue, executing, reports, node_status, elapsed,
                     failed, erased>>
  BY DEF C!Apply, C!nodes, C!screen
<1>2. spent' \in 0..MaxSpent
  BY Parameters DEF Spends, ControlTypes
<1>3. CASE request.kind \in {"shutdown", "message"}
  <2>1. UNCHANGED <<casts, wanted>> /\ stop_requested' \in BOOLEAN
    BY <1>3 DEF C!Apply, ControlTypes
  <2>2. ControlTypes'
    BY <1>1, <1>2, <2>1 DEF ControlTypes
  <2>3. Afresh' /\ Broadcasts' /\ Statuses' /\ Switching'
    BY <1>1, <2>1 DEF Afresh, Broadcasts, Statuses, Switching, Pending
  <2>4. Obeying'
    BY <1>1, <2>1 DEF Obeying, Serving, Trusted, C!BeingSwitched, WillRun
  <2> QED
    BY <2>2, <2>3, <2>4
<1>4. CASE request.kind \notin {"shutdown", "message"}
  <2>1. /\ targets \in Seq(C!Node) /\ targets # <<>>
        /\ targets = NODE_ORDER \/ Len(targets) = 1
    BY <1>4, TargetsTyped
  <2>2. request.command \in Commands /\ request.kind \in {"control", "reset_all"}
    BY <1>4, RequestFine DEF Fine
  <2>3. casts' = [casts EXCEPT ![c] = cast] /\ C!Want(request) /\ UNCHANGED stop_requested
    BY <1>4 DEF C!Apply
  <2> HIDE DEF request, targets
  <2>4. /\ cast \in Cast /\ cast # C!NoCast
        /\ cast.left = targets /\ cast.command = request.command
    BY <2>1, <2>2 DEF Cast, C!NoCast
  <2> HIDE DEF cast
  <2>5. /\ casts' \in [C!Caller -> Cast] /\ casts'[c] = cast
        /\ \A d \in C!Caller \ {c} : casts'[d] = casts[d]
    BY <2>3, <2>4 DEF ControlTypes
  <2>6. \A n \in C!Node :
            wanted'[n] = IF ~C!Switches(cast.command) \/ n \notin C!ToSet(targets)
                         THEN wanted[n]
                         ELSE IF C!BeingSwitched(n) THEN "either" ELSE cast.command
    BY <2>3, <2>4 DEF C!Want, targets
  <2>7. wanted' \in [C!Node -> {"start", "pause", "either"}]
    <3>1. DOMAIN wanted' = C!Node /\ wanted' = [n \in C!Node |-> wanted'[n]]
      BY <2>3 DEF C!Want
    <3>2. \A n \in C!Node : wanted'[n] \in {"start", "pause", "either"}
      BY <2>6 DEF ControlTypes, C!Switches
    <3> QED
      BY <3>1, <3>2
  <2>8. ControlTypes'
    BY <1>1, <1>2, <2>3, <2>5, <2>7 DEF ControlTypes
  <2>9. Afresh' /\ Statuses'
    BY <1>1 DEF Afresh, Statuses
  <2>10. Broadcasts'
    BY <2>1, <2>4, <2>5, NodeOrder DEF Broadcasts
  <2>11. /\ \A d \in C!Caller \ {c}, n \in C!Node : Pending(d, n)' <=> Pending(d, n)
         /\ \A n \in C!Node : ~Pending(c, n)
         /\ \A n \in C!Node :
               Pending(c, n)' <=> C!Switches(cast.command) /\ n \in C!ToSet(targets)
    BY <1>1, <2>4, <2>5 DEF Pending, C!NoCast, C!Switches
  <2>12. Switching'
    <3>1. SUFFICES ASSUME NEW n \in C!Node, NEW d \in C!Caller, NEW e \in C!Caller,
                          Pending(d, n)', Pending(e, n)', wanted'[n] # "either"
                   PROVE  d = e /\ casts'[d].command = wanted'[n]
      BY DEF Switching
    <3>2. CASE Pending(c, n)'
      <4>1. ~C!BeingSwitched(n) /\ wanted'[n] = cast.command
        BY <2>6, <2>11, <3>1, <3>2
      <4>2. \A x \in C!Caller : ~Pending(x, n)
        BY <4>1 DEF C!BeingSwitched, Pending
      <4> QED
        BY <2>5, <2>11, <3>1, <4>1, <4>2
    <3>3. CASE ~Pending(c, n)'
      <4>1. d # c /\ e # c /\ wanted'[n] = wanted[n]
        BY <2>6, <2>11, <3>1, <3>3
      <4> QED
        BY <2>5, <2>11, <3>1, <4>1 DEF Switching
    <3> QED
      BY <3>2, <3>3
  <2>13. Obeying'
    <3>1. SUFFICES ASSUME runtime = "serving", NEW n \in C!Node,
                          Trusted(n)', ~C!BeingSwitched(n)'
                   PROVE  WillRun(n, wanted[n] = "start")'
      BY DEF Obeying, Serving
    <3>2. \A d \in C!Caller : ~Pending(d, n)'
      BY <3>1 DEF C!BeingSwitched, Pending
    <3>3. wanted'[n] = wanted[n] /\ ~C!BeingSwitched(n)
      <4>1. \A d \in C!Caller : ~Pending(d, n)
        BY <2>11, <3>2
      <4> QED
        BY <2>6, <2>11, <3>2, <4>1 DEF C!BeingSwitched, Pending
    <3>4. Trusted(n)
      BY <1>1, <3>1, <3>3 DEF Trusted
    <3> QED
      BY <1>1, <3>1, <3>3, <3>4 DEF Obeying, WillRun
  <2> QED
    BY <2>8, <2>9, <2>10, <2>12, <2>13
<1> QED
  BY <1>3, <1>4

\* A caller has done with the node at the head of its list.
Moved(c) ==
    /\ casts' \in [C!Caller -> Cast]
    /\ \A d \in C!Caller \ {c} : casts'[d] = casts[d]
    /\ Broadcasts'
    /\ \A d \in C!Caller, n \in C!Node : Pending(d, n)' => Pending(d, n)
    /\ \A d \in C!Caller : C!Switches(casts'[d].command) => casts'[d].command = casts[d].command
    /\ \A d \in C!Caller, n \in C!Node :
          Pending(d, n) /\ (d # c \/ n # Head(casts[c].left)) => Pending(d, n)'

LEMMA GoOnMoves ==
    ASSUME ControlInvariant, NEW c \in C!Caller, C!Busy(c),
           NEW failure \in SUBSET C!Node, C!GoOn(c, failure)
    PROVE  /\ Moved(c) /\ Head(casts[c].left) \in C!Node
           /\ failed' \subseteq C!Node /\ erased' \in BOOLEAN
           /\ \A n \in C!Node : n \notin failed' /\ ~erased' =>
                 n \notin failed \cup failure /\ ~erased
<1> USE DEF ControlInvariant
<1> DEFINE left == casts[c].left
<1>1. left \in Seq(C!Node) /\ left # <<>> /\ casts[c] \in Cast
  BY DEF ControlTypes, Cast, C!Busy
<1>2. /\ Head(left) \in C!Node /\ Tail(left) \in Seq(C!Node)
      /\ Head(left) = left[1] /\ DOMAIN left \subseteq Nat
      /\ \A i \in DOMAIN left : i # 1 => i - 1 \in DOMAIN Tail(left) /\ Tail(left)[i - 1] = left[i]
      /\ \A i \in DOMAIN Tail(left) : i + 1 \in DOMAIN left /\ Tail(left)[i] = left[i + 1]
  BY <1>1
<1>3. C!ToSet(left) \subseteq C!ToSet(Tail(left)) \cup {Head(left)}
  <2> HIDE DEF left
  <2>1. ASSUME NEW i \in DOMAIN left
        PROVE  left[i] = Head(left) \/ \E j \in DOMAIN Tail(left) : left[i] = Tail(left)[j]
    BY <1>2
  <2> QED
    BY <2>1 DEF C!ToSet
<1>4. C!ToSet(Tail(left)) \subseteq C!ToSet(left)
  BY <1>2 DEF C!ToSet
<1>5. failed' \subseteq C!Node /\ erased' \in BOOLEAN
  BY DEF C!GoOn, ControlTypes
<1>6. \A n \in C!Node : n \notin failed' /\ ~erased' => n \notin failed \cup failure /\ ~erased
  BY DEF C!GoOn
<1>7. C!IsSuffix(Tail(left), NODE_ORDER) \/ Tail(left) = <<>>
  <2>1. Len(left) = 1 => Tail(left) = <<>>
    <3>1. Len(left) = 1 => Len(Tail(left)) = 0
      BY <1>1
    <3> QED
      BY <1>2, <3>1, EmptySeq
  <2> QED
    BY <1>1, <2>1, NodeOrder DEF Broadcasts
<1>8. CASE Tail(left) = <<>>
  <2>1. casts' = [casts EXCEPT ![c] = C!NoCast]
    BY <1>8 DEF C!GoOn
  <2>2. C!NoCast \in Cast /\ C!NoCast.left = <<>> /\ ~C!Switches(C!NoCast.command)
    BY DEF C!NoCast, Cast, Commands, C!Switches
  <2>3. /\ casts' \in [C!Caller -> Cast] /\ casts'[c] = C!NoCast
        /\ \A d \in C!Caller \ {c} : casts'[d] = casts[d]
    BY <2>1, <2>2 DEF ControlTypes
  <2>4. Broadcasts'
    BY <2>2, <2>3, NodeOrder DEF Broadcasts
  <2>5. C!ToSet(left) \subseteq {Head(left)}
    <3>1. C!ToSet(<<>>) = {}
      BY DEF C!ToSet
    <3> QED
      BY <1>3, <1>8, <3>1
  <2>6. \A d \in C!Caller, n \in C!Node :
            /\ Pending(d, n)' => d # c /\ Pending(d, n)
            /\ Pending(d, n) /\ (d # c \/ n # Head(left)) => Pending(d, n)'
    BY <2>2, <2>3, <2>5 DEF Pending
  <2>7. \A d \in C!Caller :
            C!Switches(casts'[d].command) => casts'[d].command = casts[d].command
    BY <2>2, <2>3
  <2> QED
    BY <1>2, <1>5, <1>6, <2>3, <2>4, <2>6, <2>7 DEF Moved
<1>9. CASE Tail(left) # <<>>
  <2> DEFINE cast == [casts[c] EXCEPT !.left = Tail(left)]
  <2>1. casts' = [casts EXCEPT ![c] = cast]
    BY <1>9 DEF C!GoOn, ControlTypes
  <2>2. /\ cast \in Cast /\ cast.left = Tail(left) /\ cast.command = casts[c].command
        /\ cast # C!NoCast
    BY <1>1, <1>2, <1>9 DEF Cast, C!NoCast
  <2> HIDE DEF cast
  <2>3. /\ casts' \in [C!Caller -> Cast] /\ casts'[c] = cast
        /\ \A d \in C!Caller \ {c} : casts'[d] = casts[d]
    BY <2>1, <2>2 DEF ControlTypes
  <2>4. Broadcasts'
    BY <1>7, <1>9, <2>2, <2>3 DEF Broadcasts
  <2> QED
    BY <1>2, <1>3, <1>4, <1>5, <1>6, <2>2, <2>3, <2>4 DEF Moved, Pending
<1> QED
  BY <1>8, <1>9

\* What is left of the orders when a caller has done with a node: no caller has
\* become one that switches, and only to the node done with may one have ceased to.
LEMMA MovedKeepsSwitching ==
    ASSUME ControlInvariant, NEW c \in C!Caller, Moved(c), UNCHANGED wanted
    PROVE  Switching'
<1> SUFFICES ASSUME NEW n \in C!Node, NEW d \in C!Caller, NEW e \in C!Caller,
                    Pending(d, n)', Pending(e, n)', wanted'[n] # "either"
             PROVE  d = e /\ casts'[d].command = wanted'[n]
  BY DEF Switching
<1>1. Pending(d, n) /\ Pending(e, n)
  BY DEF Moved
<1>2. casts'[d].command = casts[d].command
  BY DEF Moved, Pending
<1> QED
  BY <1>1, <1>2 DEF ControlInvariant, Switching

LEMMA SendsKeeps ==
    ASSUME ControlInvariant, Spends, Serving, Sends
    PROVE  ControlInvariant'
<1> USE DEF ControlInvariant
<1> PICK c \in C!Caller : C!Accepted(c) \/ C!Refused(c) \/ C!TimedOut(c)
  BY DEF Sends
<1> DEFINE n == Head(casts[c].left)
           command == casts[c].command
<1>1. PICK failure \in SUBSET C!Node :
          /\ C!Busy(c) /\ C!GoOn(c, failure) /\ n \in C!Node
          /\ n \in failure \/ C!Accepted(c)
          /\ failure = {} \/ failure = {n}
  <2>1. C!Busy(c)
    BY DEF C!Accepted, C!Refused, C!TimedOut
  <2>2. n \in C!Node
    BY <2>1 DEF ControlTypes, Cast, C!Busy
  <2>3. C!Accepted(c) => C!GoOn(c, {})
    BY DEF C!Accepted
  <2>4. C!Refused(c) \/ C!TimedOut(c) => C!GoOn(c, {n})
    BY DEF C!Refused, C!TimedOut
  <2> HIDE DEF n
  <2> QED
    BY <2>1, <2>2, <2>3, <2>4
<1>2. /\ UNCHANGED <<up, running, executing, reports, node_status, elapsed, stop_requested,
                     wanted>>
      /\ \/ up[n] /\ control_queue' = [control_queue EXCEPT ![n] = Append(@, command)]
         \/ ~C!Accepted(c) /\ UNCHANGED control_queue
  BY DEF C!Accepted, C!Refused, C!TimedOut, C!Queue, C!screen, C!nodes
<1>3. /\ Moved(c) /\ failed' \subseteq C!Node /\ erased' \in BOOLEAN
      /\ \A m \in C!Node : m \notin failed' /\ ~erased' =>
            m \notin failed \cup failure /\ ~erased
  BY <1>1, GoOnMoves
<1>4. command \in Commands
  BY DEF ControlTypes, Cast
<1>5. /\ control_queue' \in [C!Node -> Seq(Commands)]
      /\ \A m \in C!Node : m # n => control_queue'[m] = control_queue[m]
      /\ ~up[n] => control_queue'[n] = control_queue[n]
      /\ C!Accepted(c) => control_queue'[n] = Append(control_queue[n], command)
  <2>1. Append(control_queue[n], command) \in Seq(Commands)
    BY <1>1, <1>4 DEF ControlTypes
  <2> HIDE DEF n, command
  <2> QED
    BY <1>1, <1>2, <2>1 DEF ControlTypes
<1> HIDE DEF n
<1>6. ControlTypes'
  <2>1. spent' \in 0..MaxSpent
    BY Parameters DEF Spends, ControlTypes
  <2> QED
    BY <1>2, <1>3, <1>5, <2>1 DEF ControlTypes, Moved
<1>7. Afresh'
  BY <1>2, <1>5 DEF Afresh
<1>8. Broadcasts' /\ Statuses'
  BY <1>2, <1>3 DEF Moved, Statuses
<1>9. Switching'
  BY <1>2, <1>3, MovedKeepsSwitching
<1>10. Obeying'
  <2>1. SUFFICES ASSUME runtime = "serving", NEW m \in C!Node,
                        Trusted(m)', ~C!BeingSwitched(m)'
                 PROVE  WillRun(m, wanted[m] = "start")'
    BY DEF Obeying, Serving
  <2>2. Trusted(m) /\ m \notin failure
    BY <1>2, <1>3, <2>1 DEF Trusted
  <2>3. \A d \in C!Caller : ~Pending(d, m)'
    BY <2>1 DEF C!BeingSwitched, Pending
  <2>4. \A d \in C!Caller : d # c \/ m # n => ~Pending(d, m)
    BY <1>3, <2>3 DEF Moved, n
  <2>5. CASE m # n \/ ~C!Switches(command)
    <3>1. \A d \in C!Caller : ~Pending(d, m)
      BY <2>4, <2>5 DEF Pending
    <3>2. WillRun(m, wanted[m] = "start")
      BY <2>1, <2>2, <3>1 DEF Obeying, C!BeingSwitched, Pending
    <3>3. CASE m # n
      BY <1>2, <1>5, <3>2, <3>3 DEF WillRun
    <3>4. CASE m = n /\ ~C!Switches(command)
      <4>1. control_queue'[m] = Append(control_queue[m], command)
        BY <1>1, <1>5, <2>2, <3>4
      <4>2. control_queue[m] \in Seq(Commands) /\ running[m] \in BOOLEAN
        BY DEF ControlTypes
      <4> HIDE DEF command
      <4>3. ComesTo(Append(control_queue[m], command), running[m], wanted[m] = "start")
        BY <1>4, <3>2, <3>4, <4>2, ComesToAppend DEF WillRun
      <4> QED
        BY <1>2, <4>1, <4>3 DEF WillRun
    <3> QED
      BY <2>5, <3>3, <3>4
  <2>6. CASE m = n /\ C!Switches(command)
    <3>1. control_queue'[m] = Append(control_queue[m], command)
      BY <1>1, <1>5, <2>2, <2>6
    <3>2. Pending(c, m)
      <4>1. casts[c].left \in Seq(C!Node) /\ casts[c].left # <<>>
        BY <1>1 DEF ControlTypes, Cast, C!Busy
      <4>2. n \in C!ToSet(casts[c].left)
        BY <4>1 DEF C!ToSet, n
      <4> QED
        BY <2>6, <4>2 DEF Pending
    <3>3. wanted[m] = command
      BY <2>2, <3>2 DEF Switching, Trusted
    <3>4. control_queue[m] \in Seq(Commands) /\ running[m] \in BOOLEAN
      BY DEF ControlTypes
    <3> HIDE DEF command
    <3>5. ComesTo(Append(control_queue[m], command), running[m], wanted[m] = "start")
      BY <1>4, <2>6, <3>3, <3>4, ComesToAppend
    <3> QED
      BY <1>2, <3>1, <3>5 DEF WillRun
  <2> QED
    BY <2>5, <2>6
<1> QED
  BY <1>6, <1>7, <1>8, <1>9, <1>10

-----------------------------------------------------------------------------
(* Reports.                                                                *)

\* What keeps the rest of the invariant.
LEMMA RestOfControlKeeps ==
    ASSUME ControlInvariant, Spends, Serving,
           UNCHANGED <<up, running, control_queue, executing, casts, failed, stop_requested,
                       erased, wanted>>
    PROVE  ControlTypes' /\ Afresh' /\ Broadcasts' /\ Switching' /\ Obeying'
<1> USE DEF ControlInvariant
<1>1. spent' \in 0..MaxSpent
  BY Parameters DEF Spends, ControlTypes
<1>2. ControlTypes'
  BY <1>1 DEF ControlTypes
<1>3. Afresh' /\ Broadcasts' /\ Switching'
  BY DEF Afresh, Broadcasts, Switching, Pending
<1>4. Obeying'
  BY DEF Obeying, Serving, Trusted, C!BeingSwitched, WillRun
<1> QED
  BY <1>2, <1>3, <1>4

LEMMA FewerReports ==
    ASSUME Statuses, reports' \subseteq reports
    PROVE  /\ IsFiniteSet(reports') /\ reports' \subseteq C!Reports
           /\ \A n \in C!Node : Cardinality({r \in reports' : r.node = n}) <= MaxReport
<1>1. IsFiniteSet(reports')
  BY FS_Subset DEF Statuses
<1>2. ASSUME NEW n \in C!Node
      PROVE  Cardinality({r \in reports' : r.node = n}) <= MaxReport
  <2> DEFINE new == {r \in reports' : r.node = n}
             old == {r \in reports : r.node = n}
  <2>1. new \subseteq old /\ old \subseteq reports
    OBVIOUS
  <2>2. IsFiniteSet(old)
    BY <2>1, FS_Subset DEF Statuses
  <2>3. IsFiniteSet(new) /\ Cardinality(new) <= Cardinality(old)
    BY <2>1, <2>2, FS_Subset
  <2>4. Cardinality(new) \in Nat /\ Cardinality(old) \in Nat
    BY <2>2, <2>3, FS_CardinalityType
  <2>5. Cardinality(old) <= MaxReport
    BY DEF Statuses
  <2> HIDE DEF new, old
  <2>6. Cardinality(new) <= MaxReport
    BY <2>3, <2>4, <2>5, Parameters
  <2> QED
    BY <2>6 DEF new
<1> QED
  BY <1>1, <1>2 DEF Statuses

LEMMA SameCardinality ==
    ASSUME NEW S PROVE C!Cardinality(S) = Cardinality(S)
  BY DEF C!Cardinality, Cardinality

\* A node sends a report unless too many of its own are under way.
LEMMA PublishKeeps ==
    ASSUME Statuses, NEW n \in C!Node, NEW r \in BOOLEAN, NEW killed \in BOOLEAN,
           stop_requested \in BOOLEAN,
           C!Publish(n, r, killed), UNCHANGED <<node_status, elapsed>>
    PROVE  Statuses'
<1> DEFINE new == C!ControlReport(n, r, killed)
           own == {x \in reports : x.node = n}
<1>1. CASE UNCHANGED reports
  BY <1>1 DEF Statuses
<1>2. CASE ~UNCHANGED reports
  <2>1. reports' = reports \cup {new} /\ C!Cardinality(own \cup {new}) <= MaxReport
    BY <1>2 DEF C!Publish
  <2>2. new \in C!Reports /\ new.node = n
    BY DEF C!ControlReport, C!Reports
  <2>3. IsFiniteSet(reports')
    BY <2>1, FS_AddElement DEF Statuses
  <2>4. Cardinality(own \cup {new}) <= MaxReport
    BY <2>1, SameCardinality
  <2> HIDE DEF new
  <2>5. ASSUME NEW m \in C!Node
        PROVE  Cardinality({x \in reports' : x.node = m}) <= MaxReport
    <3>1. CASE m = n
      <4>1. {x \in reports' : x.node = m} = own \cup {new}
        BY <2>1, <2>2, <3>1
      <4> QED
        BY <2>4, <4>1
    <3>2. CASE m # n
      <4>1. {x \in reports' : x.node = m} = {x \in reports : x.node = m}
        BY <2>1, <2>2, <3>2
      <4> QED
        BY <4>1 DEF Statuses
    <3> QED
      BY <3>1, <3>2
  <2> QED
    BY <2>1, <2>2, <2>3, <2>5 DEF Statuses
<1> QED
  BY <1>1, <1>2

LEMMA ShowsKeeps ==
    ASSUME ControlInvariant, Spends, Serving, Shows
    PROVE  ControlInvariant'
<1>1. UNCHANGED <<up, running, control_queue, executing, casts, failed, stop_requested,
                  erased, wanted>>
  BY DEF Shows, C!Deliver, C!Lose, C!Age, C!nodes, C!gateway
<1>2. Statuses
  BY DEF ControlInvariant
<1>3. Statuses'
  <2>1. ASSUME NEW r \in reports, C!Deliver(r) PROVE Statuses'
    <3>1. r \in C!Reports /\ r.node \in C!Node /\ reports' \subseteq reports
      BY <1>2, <2>1 DEF Statuses, C!Deliver, C!Reports
    <3>2. \/ UNCHANGED <<node_status, elapsed>>
          \/ /\ node_status' = [node_status EXCEPT ![r.node] = r]
             /\ elapsed' = [elapsed EXCEPT ![r.node] = 0]
      BY <2>1 DEF C!Deliver, C!Shown, C!screen
    <3>3. /\ node_status' \in [C!Node -> C!Reports \cup {None}]
          /\ \A n \in C!Node : node_status'[n] # None => node_status'[n].node = n
          /\ elapsed' \in [C!Node -> 0..2]
      BY <1>2, <3>1, <3>2 DEF Statuses
    <3> QED
      BY <1>2, <3>1, <3>3, FewerReports DEF Statuses
  <2>2. ASSUME NEW r \in reports, C!Lose(r) PROVE Statuses'
    <3>1. reports' \subseteq reports /\ UNCHANGED <<node_status, elapsed>>
      BY <2>2 DEF C!Lose, C!screen
    <3> QED
      BY <1>2, <3>1, FewerReports DEF Statuses
  <2>3. ASSUME NEW n \in C!Node, C!Age(n) PROVE Statuses'
    <3>1. elapsed' \in [C!Node -> 0..2] /\ UNCHANGED <<reports, node_status>>
      BY <1>2, <2>3 DEF C!Age, Statuses
    <3> QED
      BY <1>2, <3>1 DEF Statuses
  <2> QED
    BY <2>1, <2>2, <2>3 DEF Shows
<1> QED
  BY <1>1, <1>3, RestOfControlKeeps DEF ControlInvariant

-----------------------------------------------------------------------------
(* The steps of the nodes.                                                 *)

LEMMA WorksKeeps ==
    ASSUME ControlInvariant, Spends, Serving, Works
    PROVE  ControlInvariant'
<1> USE DEF ControlInvariant
<1> PICK n \in C!Node : C!Execute(n) \/ C!Executed(n) \/ C!Report(n)
  BY DEF Works
<1>1. ASSUME C!Execute(n) PROVE ControlInvariant'
  <2> DEFINE command == Head(control_queue[n])
  <2>1. /\ up[n] /\ control_queue[n] # <<>> /\ control_queue[n] \in Seq(Commands)
        /\ UNCHANGED <<up, node_status, elapsed, casts, failed, stop_requested, erased,
                       wanted, spent>>
        /\ control_queue' = [control_queue EXCEPT ![n] = Tail(@)]
        /\ running' = [running EXCEPT ![n] =
                          IF C!Switches(command) THEN command = "start" ELSE @]
        /\ executing' = [executing EXCEPT ![n] =
                            IF command = "shutdown" THEN "shutdown" ELSE "command"]
        /\ C!Publish(n, running'[n], command = "shutdown")
    BY <1>1 DEF C!Execute, C!screen, C!gateway, ControlTypes
  <2>2. command \in Commands /\ Tail(control_queue[n]) \in Seq(Commands)
    BY <2>1
  <2> HIDE DEF command
  <2>3. /\ control_queue' \in [C!Node -> Seq(Commands)]
        /\ control_queue'[n] = Tail(control_queue[n])
        /\ running' \in [C!Node -> BOOLEAN]
        /\ running'[n] <=> IF C!Switches(command) THEN command = "start" ELSE running[n]
        /\ executing' \in [C!Node -> {None, "shutdown", "command"}]
        /\ \A m \in C!Node : m # n =>
              /\ control_queue'[m] = control_queue[m] /\ running'[m] = running[m]
              /\ executing'[m] = executing[m]
    BY <2>1, <2>2 DEF ControlTypes
  <2>4. ControlTypes'
    BY <2>1, <2>3 DEF ControlTypes
  <2>5. Afresh'
    BY <2>1, <2>3 DEF Afresh
  <2>6. Broadcasts' /\ Switching'
    BY <2>1 DEF Broadcasts, Switching, Pending
  <2>7. Statuses'
    <3>1. /\ running'[n] \in BOOLEAN /\ (command = "shutdown") \in BOOLEAN
          /\ stop_requested \in BOOLEAN
      BY <2>3 DEF ControlTypes
    <3> QED
      BY <2>1, <3>1, PublishKeeps
  <2>8. Obeying'
    <3>1. SUFFICES ASSUME runtime = "serving", NEW m \in C!Node,
                          Trusted(m)', ~C!BeingSwitched(m)'
                   PROVE  WillRun(m, wanted[m] = "start")'
      BY DEF Obeying, Serving
    <3>2. WillRun(m, wanted[m] = "start")
      BY <2>1, <3>1 DEF Obeying, Trusted, C!BeingSwitched
    <3>3. CASE m # n
      BY <2>1, <2>3, <3>2, <3>3 DEF WillRun
    <3>4. CASE m = n
      <4>1. ComesTo(Tail(control_queue[n]), running'[n], wanted[n] = "start")
        <5>1. running[n] \in BOOLEAN /\ running'[n] \in BOOLEAN
          BY <2>3 DEF ControlTypes
        <5>2. ComesTo(control_queue[n], running[n], wanted[n] = "start")
          BY <3>2, <3>4 DEF WillRun
        <5>3. running'[n] <=> IF C!Switches(Head(control_queue[n]))
                              THEN Head(control_queue[n]) = "start" ELSE running[n]
          BY <2>3 DEF command
        <5> QED
          BY <2>1, <5>1, <5>2, <5>3, ComesToTail
      <4> QED
        BY <2>1, <2>3, <3>4, <4>1 DEF WillRun
    <3> QED
      BY <3>3, <3>4
  <2> QED
    BY <2>4, <2>5, <2>6, <2>7, <2>8
<1>2. ASSUME C!Executed(n) PROVE ControlInvariant'
  <2>1. /\ UNCHANGED <<up, running, control_queue, reports, node_status, elapsed, casts,
                       failed, stop_requested, erased, wanted, spent>>
        /\ executing' = [executing EXCEPT ![n] = None]
    BY <1>2 DEF C!Executed, C!screen, C!gateway
  <2>2. ControlTypes'
    BY <2>1 DEF ControlTypes
  <2>3. Afresh'
    BY <2>1 DEF Afresh, ControlTypes
  <2>4. Broadcasts' /\ Switching' /\ Statuses'
    BY <2>1 DEF Broadcasts, Switching, Pending, Statuses
  <2>5. Obeying'
    BY <2>1 DEF Obeying, Serving, Trusted, C!BeingSwitched, WillRun
  <2> QED
    BY <2>2, <2>3, <2>4, <2>5
<1>3. ASSUME C!Report(n) PROVE ControlInvariant'
  <2>1. /\ UNCHANGED <<up, running, control_queue, executing, node_status, elapsed, casts,
                       failed, stop_requested, erased, wanted>>
        /\ C!Publish(n, running[n], executing[n] = "shutdown")
    BY <1>3 DEF C!Report, C!screen, C!gateway, C!nodes
  <2>2. /\ running[n] \in BOOLEAN /\ (executing[n] = "shutdown") \in BOOLEAN
        /\ stop_requested \in BOOLEAN
    BY DEF ControlTypes
  <2>3. Statuses'
    BY <2>1, <2>2, PublishKeeps
  <2> QED
    BY <2>1, <2>3, RestOfControlKeeps
<1> QED
  BY <1>1, <1>2, <1>3

-----------------------------------------------------------------------------
(* Processes begin and end.                                                *)

LEMMA LivesKeeps ==
    ASSUME ControlInvariant, up \in [C!Node -> BOOLEAN], Spends, Serving, Lives
    PROVE  ControlInvariant'
<1> USE DEF ControlInvariant
<1> PICK n \in C!Node : C!Boot(n) \/ C!Down(n)
  BY DEF Lives
<1>1. spent' \in 0..MaxSpent
  BY Parameters DEF Spends, ControlTypes
<1>2. ASSUME C!Boot(n) PROVE ControlInvariant'
  <2>1. /\ UNCHANGED <<running, control_queue, executing, reports, node_status, elapsed,
                       casts, failed, stop_requested, erased>>
        /\ ~up[n] /\ up' = [up EXCEPT ![n] = TRUE]
        /\ wanted' = [wanted EXCEPT ![n] = IF C!BeingSwitched(n) THEN "either" ELSE "start"]
    BY <1>2 DEF C!Boot, C!nodes, C!screen, C!gateway
  <2>2. /\ wanted' \in [C!Node -> {"start", "pause", "either"}]
        /\ wanted'[n] = IF C!BeingSwitched(n) THEN "either" ELSE "start"
        /\ \A m \in C!Node : m # n => wanted'[m] = wanted[m] /\ up'[m] = up[m]
        /\ up'[n]
    BY <2>1 DEF ControlTypes
  <2>3. ControlTypes'
    BY <1>1, <2>1, <2>2 DEF ControlTypes
  <2>4. Afresh' /\ Broadcasts' /\ Statuses'
    BY <2>1, <2>2 DEF Afresh, Broadcasts, Statuses
  <2>5. Switching'
    BY <2>1, <2>2 DEF Switching, Pending, C!BeingSwitched
  <2>6. Obeying'
    <3>1. SUFFICES ASSUME runtime = "serving", NEW m \in C!Node,
                          Trusted(m)', ~C!BeingSwitched(m)'
                   PROVE  WillRun(m, wanted[m] = "start")'
      BY DEF Obeying, Serving
    <3>2. ~C!BeingSwitched(m)
      BY <2>1, <3>1 DEF C!BeingSwitched
    <3>3. CASE m # n
      BY <2>1, <2>2, <3>1, <3>2, <3>3 DEF Obeying, Trusted, WillRun
    <3>4. CASE m = n
      <4>1. running[n] /\ control_queue[n] = <<>> /\ wanted'[n] = "start"
        BY <2>1, <2>2, <3>2, <3>4 DEF Afresh
      <4> QED
        BY <2>1, <3>4, <4>1 DEF WillRun, ComesTo
    <3> QED
      BY <3>3, <3>4
  <2> QED
    BY <2>3, <2>4, <2>5, <2>6
<1>3. ASSUME C!Down(n) PROVE ControlInvariant'
  <2>1. /\ UNCHANGED <<reports, node_status, elapsed, casts, failed, stop_requested, erased,
                       wanted>>
        /\ up' = [up EXCEPT ![n] = FALSE] /\ running' = [running EXCEPT ![n] = TRUE]
        /\ control_queue' = [control_queue EXCEPT ![n] = <<>>]
        /\ executing' = [executing EXCEPT ![n] = None]
    BY <1>3 DEF C!Down, C!screen, C!gateway
  <2>2. /\ running' \in [C!Node -> BOOLEAN] /\ running'[n]
        /\ control_queue' \in [C!Node -> Seq(Commands)] /\ control_queue'[n] = <<>>
        /\ executing' \in [C!Node -> {None, "shutdown", "command"}] /\ executing'[n] = None
        /\ ~up'[n]
        /\ \A m \in C!Node : m # n =>
              /\ up'[m] = up[m] /\ running'[m] = running[m]
              /\ control_queue'[m] = control_queue[m] /\ executing'[m] = executing[m]
    BY <2>1 DEF ControlTypes
  <2>3. ControlTypes'
    BY <1>1, <2>1, <2>2 DEF ControlTypes
  <2>4. Afresh'
    BY <2>2 DEF Afresh
  <2>5. Broadcasts' /\ Statuses' /\ Switching'
    BY <2>1 DEF Broadcasts, Statuses, Switching, Pending
  <2>6. Obeying'
    BY <2>1, <2>2 DEF Obeying, Serving, Trusted, C!BeingSwitched, WillRun
  <2> QED
    BY <2>3, <2>4, <2>5, <2>6
<1> QED
  BY <1>2, <1>3

\* The end of the viewer cuts broadcasts short, and ends what is promised.
LEMMA CancelsKeeps ==
    ASSUME ControlInvariant, Spends, Cancels
    PROVE  ControlInvariant'
<1> USE DEF ControlInvariant
<1>1. /\ UNCHANGED <<up, running, control_queue, executing, reports, node_status, elapsed,
                     failed, erased, wanted>>
      /\ stop_requested' = TRUE
      /\ casts' = [c \in C!Caller |-> IF casts[c].typed THEN C!NoCast ELSE casts[c]]
  BY DEF Cancels, C!CancelTasks, C!nodes, C!screen
<1>2. /\ C!NoCast \in Cast /\ C!NoCast.left = <<>> /\ ~C!Switches(C!NoCast.command)
  BY DEF C!NoCast, Cast, Commands, C!Switches
<1>3. \A c \in C!Caller : casts'[c] = C!NoCast \/ casts'[c] = casts[c]
  BY <1>1
<1>4. casts' \in [C!Caller -> Cast]
  BY <1>1, <1>2 DEF ControlTypes
<1>5. spent' \in 0..MaxSpent
  BY Parameters DEF Spends, ControlTypes
<1>6. ControlTypes'
  BY <1>1, <1>4, <1>5 DEF ControlTypes
<1>7. Afresh' /\ Statuses'
  BY <1>1 DEF Afresh, Statuses
<1>8. Broadcasts'
  BY <1>2, <1>3, NodeOrder DEF Broadcasts
<1>9. Switching'
  BY <1>1, <1>2, <1>3 DEF Switching, Pending
<1>10. Obeying'
  BY DEF Obeying, Cancels
<1> QED
  BY <1>6, <1>7, <1>8, <1>9, <1>10

-----------------------------------------------------------------------------
(* The theorems.                                                           *)

LEMMA ControlInvariantStep ==
    ASSUME Invariant, ControlInvariant, [Next]_vars
    PROVE  ControlInvariant'
<1>1. ControlStep /\ Spends /\ Serving
  BY StepIsControlStep
<1>2. up \in [C!Node -> BOOLEAN]
  BY Parameters DEF Invariant, PowerTypes
<1>3. CASE UNCHANGED <<up, controlled>>
  <2>1. Statuses'
    BY <1>3 DEF ControlInvariant, Statuses, controlled
  <2> QED
    BY <1>1, <1>3, <2>1, RestOfControlKeeps DEF ControlInvariant, controlled
<1> QED
  BY <1>1, <1>2, <1>3, AppliesKeeps, SendsKeeps, ShowsKeeps, WorksKeeps, LivesKeeps,
     CancelsKeeps
  DEF ControlStep

LEMMA ControlInvariantAlways == Spec => []ControlInvariant
<1>1. Init => ControlInvariant
  BY ControlInvariantInit DEF Init
<1> QED
  BY <1>1, InvariantAlways, ControlInvariantStep, PTL DEF Spec

\* Every variable of the gateway, the nodes and the supervisor has its type: no
\* broadcast is left with nothing to send, no node without a process has commands
\* (controller_ui.py:1331, base.py:283).
THEOREM RuntimeTypeCorrect == Spec => []TypeOK
<1>1. ASSUME Invariant, ControlInvariant PROVE C!TypeOK
  <2> USE <1>1 DEF ControlInvariant
  <2>1. up \in [C!Node -> BOOLEAN] /\ running \in [C!Node -> BOOLEAN]
    BY Parameters DEF Invariant, PowerTypes, ControlTypes
  <2>2. /\ \A n \in C!Node : C!Cardinality({r \in reports : r.node = n}) <= MaxReport
        /\ \A n \in C!Node : node_status[n] # None =>
              node_status[n] \in {r \in C!Reports : r.node = n}
    BY SameCardinality DEF Statuses
  <2>3. \A c \in C!Caller : C!Busy(c) <=> casts[c] # C!NoCast
    BY DEF Broadcasts, C!Busy
  <2> QED
    BY <2>1, <2>2, <2>3 DEF C!TypeOK, ControlTypes, Afresh, Broadcasts, Statuses
<1> QED
  BY <1>1, InvariantAlways, ControlInvariantAlways, PowerTypeCorrect, PTL DEF TypeOK

\* A node that has worked off what it acknowledged runs or pauses as the last start
\* or pause of all the callers asks, unless the log shows a failure of it, or
\* showed one and was wiped, or two of them were under way to it at a time
\* (controller_ui.py:1331, base.py:283).
THEOREM ObeysOrders == Spec => []Obeys
<1>1. ASSUME ControlInvariant PROVE Obeys
  <2>1. SUFFICES ASSUME runtime = "serving", NEW n \in C!Node,
                        C!Settled(n), n \notin failed, ~erased, wanted[n] # "either"
                 PROVE  running[n] = (wanted[n] = "start")
    BY DEF Obeys, C!Obeys
  <2>2. WillRun(n, wanted[n] = "start") /\ control_queue[n] = <<>>
    BY <1>1, <2>1 DEF ControlInvariant, Obeying, Trusted, C!Settled
  <2>3. running[n] \in BOOLEAN
    BY <1>1 DEF ControlInvariant, ControlTypes
  <2>4. running[n] <=> (wanted[n] = "start")
    BY <2>2 DEF WillRun, ComesTo
  <2> QED
    BY <2>3, <2>4
<1> QED
  BY <1>1, ControlInvariantAlways, PTL

=============================================================================
