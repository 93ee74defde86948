---------------------------- MODULE SupervisorProof ----------------------------
(***************************************************************************)
(* Theorems about the life of the node processes, for any nodes, any order *)
(* of start, and any number of power requests and mishaps.  They are about *)
(* the runtime as a whole: the gateway and the nodes may take their steps  *)
(* at any time, and end processes by a shutdown.                           *)
(***************************************************************************)
EXTENDS Runtime, Sequences, SequenceTheorems, FiniteSetTheorems, TLAPS

-----------------------------------------------------------------------------
(* Suffixes of a sequence.                                                 *)

\* A suffix is the end of the sequence, element by element.
LEMMA SuffixElements ==
    ASSUME NEW S, NEW s \in Seq(S), NEW t \in Seq(S)
    PROVE  P!IsSuffix(s, t) <=>
              /\ Len(s) <= Len(t)
              /\ \A i \in 1..Len(s) : s[Len(s) - i + 1] = t[Len(t) - i + 1]
<1> DEFINE r == P!Reverse(s)
           u == P!Reverse(t)
<1>1. /\ r \in Seq(S) /\ Len(r) = Len(s)
      /\ \A i \in 1..Len(s) : r[i] = s[Len(s) - i + 1]
  BY DEF P!Reverse
<1>2. /\ u \in Seq(S) /\ Len(u) = Len(t)
      /\ \A i \in 1..Len(t) : u[i] = t[Len(t) - i + 1]
  BY DEF P!Reverse
<1>3. P!IsSuffix(s, t) <=>
         Len(r) <= Len(u) /\ SubSeq(r, 1, Len(r)) = SubSeq(u, 1, Len(r))
  BY DEF P!IsSuffix, P!IsPrefix
<1> HIDE DEF r, u
<1>4. ASSUME Len(s) <= Len(t)
      PROVE  SubSeq(r, 1, Len(s)) = SubSeq(u, 1, Len(s)) <=>
                \A i \in 1..Len(s) : r[i] = u[i]
  <2> DEFINE a == SubSeq(r, 1, Len(s))
             b == SubSeq(u, 1, Len(s))
  <2>1. /\ a \in Seq(S) /\ Len(a) = Len(s) /\ \A i \in 1..Len(s) : a[i] = r[i]
        /\ b \in Seq(S) /\ Len(b) = Len(s) /\ \A i \in 1..Len(s) : b[i] = u[i]
    BY <1>1, <1>2, <1>4
  <2> HIDE DEF a, b
  <2>2. a = b <=> \A i \in 1..Len(s) : a[i] = b[i]
    BY <2>1, SeqEqual
  <2> QED
    BY <2>1, <2>2 DEF a, b
<1>5. Len(s) <= Len(t) =>
         ((\A i \in 1..Len(s) : r[i] = u[i]) <=>
          (\A i \in 1..Len(s) : s[Len(s) - i + 1] = t[Len(t) - i + 1]))
  <2>1. Len(s) <= Len(t) => \A i \in 1..Len(s) : i \in 1..Len(t)
    OBVIOUS
  <2> QED
    BY <1>1, <1>2, <2>1
<1> QED
  BY <1>1, <1>2, <1>3, <1>4, <1>5

LEMMA Suffixes ==
    ASSUME NEW S, NEW t \in Seq(S)
    PROVE  /\ P!IsSuffix(<<>>, t) /\ P!IsSuffix(t, t)
           /\ \A s \in Seq(S) : s # <<>> /\ P!IsSuffix(s, t) => P!IsSuffix(Tail(s), t)
<1> DEFINE Agrees(s) == /\ Len(s) <= Len(t)
                        /\ \A i \in 1..Len(s) : s[Len(s) - i + 1] = t[Len(t) - i + 1]
<1>0. \A s \in Seq(S) : P!IsSuffix(s, t) <=> Agrees(s)
  BY SuffixElements
<1>1. P!IsSuffix(<<>>, t)
  <2>1. <<>> \in Seq(S) /\ Agrees(<<>>)
    OBVIOUS
  <2> QED
    BY <1>0, <2>1
<1>2. P!IsSuffix(t, t)
  BY <1>0
<1>3. ASSUME NEW s \in Seq(S), s # <<>>, P!IsSuffix(s, t) PROVE P!IsSuffix(Tail(s), t)
  <2>1. /\ Len(s) <= Len(t)
        /\ \A i \in 1..Len(s) : s[Len(s) - i + 1] = t[Len(t) - i + 1]
    BY <1>0, <1>3
  <2>2. /\ Tail(s) \in Seq(S) /\ Len(Tail(s)) = Len(s) - 1
        /\ \A i \in 1..Len(Tail(s)) : Tail(s)[i] = s[i + 1]
    BY <1>3
  <2>3. \A i \in 1..Len(Tail(s)) :
            Tail(s)[Len(Tail(s)) - i + 1] = t[Len(t) - i + 1]
    BY <2>1, <2>2
  <2>4. Len(Tail(s)) <= Len(t)
    BY <2>1, <2>2
  <2>5. Agrees(Tail(s))
    BY <2>3, <2>4
  <2> HIDE DEF Agrees
  <2> QED
    BY <1>0, <2>2, <2>5
<1> QED
  BY <1>1, <1>2, <1>3

-----------------------------------------------------------------------------
(* The invariant.                                                          *)

Phase == {"idle", "locking", "spawning", "draining", "awaiting"}

RequestState ==
    [phase : Phase, action : {"none", "start", "stop"}, todo : Seq(P!Role),
     doomed : SUBSET P!Role]

PowerTypes ==
    /\ up \in [P!Role -> BOOLEAN]
    /\ processes \subseteq P!Role /\ foreign \subseteq P!Role
    /\ fallen \subseteq P!Role /\ raced \subseteq P!Role
    /\ requests \in [P!Stopper -> RequestState]
    /\ lock \in SUBSET P!Request
    /\ transition \in BOOLEAN
    /\ runtime \in {"serving", "stopping", "ended"}

\* The lock is held by the one request that is at work.
Exclusive ==
    /\ \A q \in lock, r \in lock : q = r
    /\ \A q \in P!Request : q \in lock <=> requests[q].phase \in {"spawning", "draining", "awaiting"}

\* What a request knows depends on how far it is; request 0 is the end of the runtime.
Stages ==
    /\ \A s \in P!Stopper :
          /\ requests[s].todo # <<>> => requests[s].phase = "spawning"
          /\ requests[s].doomed # {} => requests[s].phase = "awaiting"
          /\ P!IsSuffix(requests[s].todo, START_ORDER)
    /\ requests[0].phase \in {"idle", "draining", "awaiting"}
    /\ requests[0].phase = "idle" <=> runtime # "stopping"

\* A node about to be started has no process, or one started by hand since the probe,
\* which every process started by hand is; and no node is to be started twice.
Vacant ==
    /\ late = foreign
    /\ \A q \in P!Request :
          \A i \in DOMAIN requests[q].todo :
              /\ up[requests[q].todo[i]] => requests[q].todo[i] \in foreign
              /\ \A j \in DOMAIN requests[q].todo :
                    requests[q].todo[i] = requests[q].todo[j] => i = j

\* Every process is on the list, someone else's, or raced; those on the list
\* when a stop began are told to end.
Listed ==
    /\ \A n \in P!Role : up[n] => n \in foreign \cup raced \cup processes
    /\ \A n \in foreign : up[n]
    /\ \A q \in P!Request : requests[q].phase = "awaiting" => P!Alive \subseteq requests[q].doomed
    /\ requests[0].phase = "awaiting" => P!Alive \subseteq requests[0].doomed \cup raced
    /\ runtime = "ended" => processes = {}

\* While the runtime serves, and no stop is at work, the list is empty or each role
\* is alive, has fallen, or is about to be started.
Whole ==
    runtime = "serving" /\ (\A q \in P!Request : requests[q].phase # "awaiting") =>
        \/ processes = {} /\ \A q \in P!Request : requests[q].phase # "spawning"
        \/ \A n \in P!Role :
              \/ n \in P!Alive \cup fallen
              \/ \E q \in P!Request : \E i \in DOMAIN requests[q].todo : n = requests[q].todo[i]

Invariant == PowerTypes /\ Exclusive /\ Stages /\ Vacant /\ Listed /\ Whole

-----------------------------------------------------------------------------
(* Steps of the supervisor in the steps of the runtime.                    *)

Serves == \E s \in P!Stopper : P!Serve(s)

Spawns == \E q \in P!Request : P!SpawnFails(q) \/ \E n \in P!Role : P!Spawn(q, n)

Ends == \E n \in P!Role : P!Die(n) \/ P!Fall(n)

Begins ==
    \/ \E q \in P!Request, action \in {"start", "stop"} : P!Ask(q, action)
    \/ \E n \in P!Role : P!ByHand(n)
    \/ P!StopRuntime
    \/ P!WindowCloses

PowerStep == Serves \/ Spawns \/ Ends \/ Begins \/ UNCHANGED <<up, powered>>

\* The gateway and the nodes touch the processes only by ending one of them.
LEMMA StepIsPowerStep ==
    ASSUME [Next]_vars PROVE PowerStep
<1> USE DEF PowerStep
<1>1. C!Node = P!Role
  BY RuntimeAssumption
<1>2. ASSUME NEW c, NEW line, CommandLine(c, line) PROVE PowerStep
  BY <1>2 DEF CommandLine, C!SubmitCommandLine, C!Apply, Begins
<1>3. ASSUME NEW c, NEW line, TypedLine(c, line) \/ RemoteCommand(c, line) PROVE PowerStep
  BY <1>3 DEF TypedLine, RemoteCommand, C!HandleLocalCommand, C!RemoteCommand, C!Apply
<1>4. ASSUME NEW c, Send(c) \/ SendTimesOut(c) PROVE PowerStep
  BY <1>4 DEF Send, SendTimesOut, C!Accepted, C!Refused, C!TimedOut
<1>5. ASSUME NEW n, Deliver(n) \/ Lose(n) \/ Age(n) \/ Work(n) \/ Report(n) PROVE PowerStep
  BY <1>5 DEF Deliver, Lose, Age, Work, Report, C!Deliver, C!Lose, C!Age, C!Execute,
              C!Executed, C!Report
<1>6. ASSUME NEW n \in Node, Leave(n) \/ Crash(n) \/ Die(n) PROVE PowerStep
  BY <1>1, <1>6 DEF Leave, Crash, Die, Ends, Node
<1>7. ASSUME NEW n \in Node, StartByHand(n) PROVE PowerStep
  BY <1>1, <1>7 DEF StartByHand, Begins, Node
<1>8. ASSUME NEW q \in P!Request, NEW action \in {"start", "stop"}, AskPower(q, action)
      PROVE  PowerStep
  BY <1>8 DEF AskPower, Begins
<1>9. ASSUME NEW q \in P!Request, Spawn(q) \/ SpawnFails(q) PROVE PowerStep
  BY <1>1, <1>9 DEF Spawn, SpawnFails, Spawns, Node
<1>10. ASSUME NEW s \in P!Stopper, Serve(s) PROVE PowerStep
  BY <1>10 DEF Serve, Serves
<1>11. ASSUME NoticeStop \/ Signal \/ WindowCloses PROVE PowerStep
  BY <1>11 DEF NoticeStop, Signal, WindowCloses, Begins
<1>12. ASSUME UNCHANGED vars PROVE PowerStep
  BY <1>12 DEF vars
<1> HIDE DEF PowerStep
<1> QED
  BY <1>2, <1>3, <1>4, <1>5, <1>6, <1>7, <1>8, <1>9, <1>10, <1>11, <1>12 DEF Next, Step

LEMMA Stoppers ==
    /\ P!Request \subseteq P!Stopper /\ 0 \in P!Stopper /\ 0 \notin P!Request
    /\ \A s \in P!Stopper : s = 0 \/ s \in P!Request
  BY RuntimeAssumption DEF P!PowerParameters, P!Request, P!Stopper

LEMMA Order ==
    START_ORDER \in Seq(P!Role) /\ START_ORDER # <<>>
    /\ \A i, j \in DOMAIN START_ORDER : START_ORDER[i] = START_ORDER[j] => i = j
  BY RuntimeAssumption DEF P!PowerParameters, P!IsInjective

LEMMA Idle ==
    /\ P!NoRequest \in RequestState
    /\ P!NoRequest.phase = "idle" /\ P!NoRequest.todo = <<>> /\ P!NoRequest.doomed = {}
  BY DEF P!NoRequest, RequestState, Phase

LEMMA InvariantInit == Init => Invariant
<1> SUFFICES ASSUME P!Init PROVE Invariant
  BY DEF Init
<1>1. PowerTypes
  BY Idle DEF P!Init, PowerTypes
<1>2. \A s \in P!Stopper : /\ requests[s].phase = "idle" /\ requests[s].todo = <<>>
                           /\ requests[s].doomed = {}
  BY Idle DEF P!Init
<1>3. P!IsSuffix(<<>>, START_ORDER)
  BY Order, Suffixes
<1>4. Exclusive /\ Stages /\ Vacant
  BY <1>2, <1>3, Stoppers DEF P!Init, Exclusive, Stages, Vacant
<1>5. Listed /\ Whole
  BY <1>2, Stoppers DEF P!Init, Listed, Whole, P!Alive
<1> QED
  BY <1>1, <1>4, <1>5 DEF Invariant

-----------------------------------------------------------------------------
(* The steps of a request.                                                 *)

\* A request that has no processes to start or to end is answered.
LEMMA AnswerKeeps ==
    ASSUME Invariant, NEW q \in P!Request, P!Reply(q), P!Quiet,
           requests[q].phase \in {"locking", "spawning"}, requests[q].todo = <<>>,
           UNCHANGED <<processes, runtime>>, transition' \in BOOLEAN
    PROVE  Invariant'
<1> USE DEF Invariant
<1>1. /\ requests' \in [P!Stopper -> RequestState]
      /\ \A s \in P!Stopper \ {q} : requests'[s] = requests[s]
      /\ requests'[q].phase = "idle" /\ requests'[q].todo = <<>> /\ requests'[q].doomed = {}
  BY Stoppers DEF PowerTypes, P!Reply, P!NoRequest, RequestState, Phase
<1>2. PowerTypes'
  BY <1>1 DEF PowerTypes, P!Reply, P!Quiet
<1>3. Exclusive'
  BY <1>1, Stoppers DEF Exclusive, P!Reply
<1>4. Stages'
  BY <1>1, Stoppers, Order, Suffixes DEF Stages
<1>5. Vacant'
  BY <1>1, Stoppers DEF Vacant, P!Quiet
<1>6. P!Alive' = P!Alive
  BY DEF P!Alive, P!Quiet
<1>7. Listed'
  BY <1>1, <1>6, Stoppers DEF Listed, P!Quiet
<1>8. Whole'
  BY <1>1, <1>6, Stoppers DEF Whole, P!Quiet
<1> QED
  BY <1>2, <1>3, <1>4, <1>5, <1>7, <1>8

\* A request that waits for the lock, and for nothing else, begins.
LEMMA AskKeeps ==
    ASSUME Invariant, NEW q \in P!Request, NEW action \in {"start", "stop"}, P!Ask(q, action)
    PROVE  Invariant'
<1> USE DEF Invariant
<1>1. /\ requests' \in [P!Stopper -> RequestState]
      /\ \A s \in P!Stopper \ {q} : requests'[s] = requests[s]
      /\ requests'[q].phase = "locking" /\ requests'[q].todo = <<>>
      /\ requests'[q].doomed = {}
  <2> DEFINE asked == [P!NoRequest EXCEPT !.phase = "locking", !.action = action]
  <2>1. /\ asked \in RequestState
        /\ asked.phase = "locking" /\ asked.todo = <<>> /\ asked.doomed = {}
    BY Idle DEF RequestState, Phase
  <2>2. requests' = [requests EXCEPT ![q] = asked]
    BY DEF P!Ask
  <2> HIDE DEF asked
  <2> QED
    BY <2>1, <2>2, Stoppers DEF PowerTypes
<1>2. requests[q].phase = "idle" /\ requests[q].todo = <<>>
  BY Stoppers DEF P!Ask, Stages
<1>3. PowerTypes'
  BY <1>1 DEF PowerTypes, P!Ask
<1>4. Exclusive'
  BY <1>1, <1>2, Stoppers DEF Exclusive, P!Ask
<1>5. Stages'
  BY <1>1, Stoppers, Order, Suffixes DEF Stages, P!Ask
<1>6. Vacant'
  BY <1>1, Stoppers DEF Vacant, P!Ask
<1>7. P!Alive' = P!Alive
  BY DEF P!Alive, P!Ask
<1>8. Listed'
  BY <1>1, <1>7, Stoppers DEF Listed, P!Ask
<1>9. Whole'
  BY <1>1, <1>2, <1>7, Stoppers DEF Whole, P!Ask
<1> QED
  BY <1>3, <1>4, <1>5, <1>6, <1>8, <1>9

\* A start takes the lock when no process of any node is there.
LEMMA StartsKeeps ==
    ASSUME Invariant, NEW q \in P!Request, P!Starts(q)
    PROVE  Invariant'
<1> USE DEF Invariant
<1>1. requests[q].phase = "locking" /\ lock = {} /\ runtime # "ended"
  BY DEF P!Starts, P!Enters, P!HasLock
<1>2. \A n \in P!Role : ~up[n]
  BY DEF P!Starts, P!Conflicts
<1>3. /\ requests' \in [P!Stopper -> RequestState]
      /\ \A s \in P!Stopper \ {q} : requests'[s] = requests[s]
      /\ requests'[q].phase = "spawning" /\ requests'[q].todo = START_ORDER
      /\ requests'[q].doomed = requests[q].doomed
  BY Stoppers, Order DEF PowerTypes, P!Starts, RequestState, Phase
<1>4. PowerTypes'
  BY <1>3 DEF PowerTypes, P!Starts
<1>5. Exclusive'
  BY <1>1, <1>3, Stoppers DEF Exclusive, P!Starts
<1>6. Stages'
  BY <1>1, <1>3, Stoppers, Order, Suffixes DEF Stages, P!Starts
<1>7. Vacant'
  <2>1. \A i \in DOMAIN START_ORDER : START_ORDER[i] \in P!Role
    BY Order
  <2>2. \A r \in P!Request \ {q} : requests[r].todo = <<>>
    BY <1>1, Stoppers DEF Stages, Exclusive
  <2>3. foreign = {}
    BY <1>2 DEF Listed, PowerTypes
  <2> QED
    BY <1>2, <1>3, <2>1, <2>2, <2>3, Stoppers, Order DEF Vacant, P!Starts
<1>8. Listed'
  BY <1>1, <1>2, <1>3, Stoppers DEF Listed, Stages, Exclusive, P!Starts, P!Alive, PowerTypes
<1>9. Whole'
  <2>1. \A n \in P!Role : \E i \in DOMAIN START_ORDER : n = START_ORDER[i]
    BY DEF P!Role, P!ToSet
  <2> QED
    BY <1>3, <2>1, Stoppers DEF Whole, P!Starts
<1> QED
  BY <1>4, <1>5, <1>6, <1>7, <1>8, <1>9

\* A stop takes the lock; its time to drain begins.
LEMMA StopsKeeps ==
    ASSUME Invariant, NEW q \in P!Request, P!Stops(q)
    PROVE  Invariant'
<1> USE DEF Invariant
<1>1. requests[q].phase = "locking" /\ lock = {}
  BY DEF P!Stops, P!Enters, P!HasLock
<1>2. /\ requests' \in [P!Stopper -> RequestState]
      /\ \A s \in P!Stopper \ {q} : requests'[s] = requests[s]
      /\ requests'[q].phase = "draining" /\ requests'[q].todo = requests[q].todo
      /\ requests'[q].doomed = requests[q].doomed
  BY Stoppers DEF PowerTypes, P!Stops, RequestState, Phase
<1>3. PowerTypes'
  BY <1>2 DEF PowerTypes, P!Stops, P!Quiet
<1>4. Exclusive'
  BY <1>1, <1>2, Stoppers DEF Exclusive, P!Stops
<1>5. Stages'
  BY <1>1, <1>2, Stoppers DEF Stages, P!Stops
<1>6. Vacant'
  BY <1>2, Stoppers DEF Vacant, P!Stops, P!Quiet
<1>7. P!Alive' = P!Alive
  BY DEF P!Alive, P!Stops, P!Quiet
<1>8. Listed'
  BY <1>2, <1>7, Stoppers DEF Listed, P!Stops, P!Quiet
<1>9. Whole'
  BY <1>1, <1>2, <1>7, Stoppers DEF Whole, P!Stops, P!Quiet
<1> QED
  BY <1>3, <1>4, <1>5, <1>6, <1>8, <1>9

\* Whoever stops, a request or the end of the runtime, tells all that are alive to end.
LEMMA TerminateKeeps ==
    ASSUME Invariant, NEW s \in P!Stopper, P!Terminate(s)
    PROVE  Invariant'
<1> USE DEF Invariant
<1>1. requests[s].phase = "draining" /\ P!Alive \subseteq P!Role
  BY DEF P!Terminate, P!Alive, PowerTypes
<1>2. /\ requests' \in [P!Stopper -> RequestState]
      /\ \A r \in P!Stopper \ {s} : requests'[r] = requests[r]
      /\ requests'[s].phase = "awaiting" /\ requests'[s].todo = requests[s].todo
      /\ requests'[s].doomed = P!Alive
  BY <1>1, Stoppers DEF PowerTypes, P!Terminate, RequestState, Phase
<1>3. PowerTypes'
  BY <1>2 DEF PowerTypes, P!Terminate, P!Quiet
<1>4. Exclusive'
  BY <1>1, <1>2, Stoppers DEF Exclusive, P!Terminate
<1>5. Stages'
  BY <1>1, <1>2, Stoppers DEF Stages, P!Terminate
<1>6. Vacant'
  BY <1>2, Stoppers DEF Vacant, P!Terminate, P!Quiet
<1>7. P!Alive' = P!Alive
  BY DEF P!Alive, P!Terminate, P!Quiet
<1>8. Listed'
  BY <1>2, <1>7, Stoppers DEF Listed, P!Terminate, P!Quiet
<1>9. Whole'
  BY <1>1, <1>2, <1>7, Stoppers DEF Whole, Stages, P!Terminate, P!Quiet
<1> QED
  BY <1>3, <1>4, <1>5, <1>6, <1>8, <1>9

\* When they have ended nothing on the list was forgotten.
LEMMA StoppedKeeps ==
    ASSUME Invariant, NEW s \in P!Stopper, P!Stopped(s)
    PROVE  Invariant'
<1> USE DEF Invariant
<1>1. requests[s].phase = "awaiting" /\ requests[s].doomed \cap P!Alive = {}
  BY DEF P!Stopped
<1>2. /\ requests' \in [P!Stopper -> RequestState]
      /\ \A r \in P!Stopper \ {s} : requests'[r] = requests[r]
      /\ requests'[s].phase = "idle" /\ requests'[s].todo = <<>> /\ requests'[s].doomed = {}
  BY Stoppers DEF PowerTypes, P!Stopped, P!Reply, P!NoRequest, RequestState, Phase
<1>3. PowerTypes'
  BY <1>2 DEF PowerTypes, P!Stopped, P!Reply
<1>4. Exclusive'
  BY <1>1, <1>2, Stoppers DEF Exclusive, P!Stopped, P!Reply, PowerTypes
<1>5. Stages'
  BY <1>1, <1>2, Stoppers, Order, Suffixes DEF Stages, P!Stopped
<1>6. Vacant'
  BY <1>2, Stoppers DEF Vacant, P!Stopped
<1>7. P!Alive' = {}
  BY DEF P!Alive, P!Stopped
<1>8. Listed'
  <2>1. \A n \in P!Role : n \in P!Alive => n \in raced
    BY <1>1, Stoppers DEF Listed
  <2>2. \A n \in P!Role : up[n] => n \in foreign \cup raced
    BY <2>1 DEF Listed, P!Alive
  <2> QED
    BY <1>2, <1>7, <2>2, Stoppers DEF Listed, P!Stopped
<1>9. Whole'
  <2>1. ASSUME runtime' = "serving", NEW r \in P!Request PROVE requests'[r].phase # "spawning"
    <3>1. s \in P!Request
      BY <2>1, Stoppers DEF P!Stopped
    <3> QED
      BY <1>1, <1>2, <3>1, Stoppers DEF Exclusive
  <2> QED
    BY <2>1 DEF Whole, P!Stopped
<1> QED
  BY <1>3, <1>4, <1>5, <1>6, <1>8, <1>9

LEMMA ServesKeeps ==
    ASSUME Invariant, Serves PROVE Invariant'
<1> PICK s \in P!Stopper : P!Serve(s)
  BY DEF Serves
<1>1. CASE s = 0
  <2>1. requests[s].phase \in {"idle", "draining", "awaiting"}
    BY <1>1 DEF Invariant, Stages
  <2>2. P!Terminate(s) \/ P!Stopped(s)
    BY <2>1 DEF P!Serve, P!Postponed, P!AlreadyRunning, P!PortConflict, P!Starts,
                P!Started, P!Stops, P!Enters
  <2> QED
    BY <2>2, TerminateKeeps, StoppedKeeps
<1>2. CASE s # 0
  <2>1. s \in P!Request /\ s \in P!Stopper
    BY <1>2, Stoppers
  <2>2. ASSUME P!Postponed(s) \/ P!AlreadyRunning(s) \/ P!PortConflict(s) PROVE Invariant'
    <3>1. requests[s].phase = "locking" /\ requests[s].todo = <<>>
      BY <2>1, <2>2 DEF P!Postponed, P!AlreadyRunning, P!PortConflict, P!Enters, Invariant, Stages
    <3>2. /\ P!Reply(s) /\ P!Quiet /\ UNCHANGED <<processes, runtime>>
          /\ transition' \in BOOLEAN
      BY <2>2 DEF P!Postponed, P!AlreadyRunning, P!PortConflict, Invariant, PowerTypes
    <3> QED
      BY <2>1, <3>1, <3>2, AnswerKeeps
  <2>3. ASSUME P!Started(s) PROVE Invariant'
    <3>1. /\ P!Reply(s) /\ P!Quiet /\ UNCHANGED <<processes, runtime>>
          /\ transition' \in BOOLEAN
      BY <2>3 DEF P!Started, Invariant, PowerTypes
    <3> QED
      BY <2>1, <2>3, <3>1, AnswerKeeps DEF P!Started
  <2> QED
    BY <2>1, <2>2, <2>3, StartsKeeps, StopsKeeps, TerminateKeeps, StoppedKeeps DEF P!Serve
<1> QED
  BY <1>1, <1>2

\* Who is about to be started and has no process gets one; it goes on the list.
LEMMA SpawnKeeps ==
    ASSUME Invariant, NEW q \in P!Request, NEW n \in P!Role, P!Spawn(q, n)
    PROVE  Invariant'
<1> USE DEF Invariant
<1> DEFINE todo == requests[q].todo
<1>1. /\ requests[q].phase = "spawning" /\ todo \in Seq(P!Role) /\ todo # <<>>
      /\ n = todo[1] /\ runtime # "ended"
  BY Stoppers DEF P!Spawn, PowerTypes, RequestState
<1>2. /\ requests' \in [P!Stopper -> RequestState]
      /\ \A s \in P!Stopper \ {q} : requests'[s] = requests[s]
      /\ requests'[q].phase = "spawning" /\ requests'[q].todo = Tail(todo)
      /\ requests'[q].doomed = requests[q].doomed
  <2>1. Tail(todo) \in Seq(P!Role)
    BY <1>1
  <2>2. requests' = [requests EXCEPT ![q].todo = Tail(todo)]
    BY DEF P!Spawn
  <2> HIDE DEF todo
  <2> QED
    BY <1>1, <2>1, <2>2, Stoppers DEF PowerTypes, RequestState
<1>3. /\ 1 \in DOMAIN todo
      /\ \A i \in DOMAIN Tail(todo) : i + 1 \in DOMAIN todo /\ Tail(todo)[i] = todo[i + 1]
      /\ \A i \in DOMAIN todo : i # 1 => i - 1 \in DOMAIN Tail(todo) /\ Tail(todo)[i - 1] = todo[i]
      /\ DOMAIN todo \subseteq Nat /\ DOMAIN Tail(todo) \subseteq Nat
  BY <1>1
<1>4. up[n] <=> n \in foreign
  BY <1>1, <1>3, Stoppers DEF Vacant, Listed, PowerTypes
<1>5. \A r \in P!Request \ {q} : requests[r].phase \notin {"spawning", "draining", "awaiting"}
  BY <1>1, Stoppers DEF Exclusive
<1>6. PowerTypes'
  BY <1>2 DEF PowerTypes, P!Spawn
<1>7. Exclusive'
  BY <1>1, <1>2, Stoppers DEF Exclusive, P!Spawn
<1>8. Stages'
  <2>1. P!IsSuffix(Tail(todo), START_ORDER)
    BY <1>1, Order, Suffixes, Stoppers DEF Stages
  <2> QED
    BY <1>1, <1>2, <2>1, Stoppers DEF Stages, P!Spawn
<1>9. Vacant'
  <2>1. \A i \in DOMAIN todo, j \in DOMAIN todo : todo[i] = todo[j] => i = j
    BY DEF Vacant
  <2>2. \A i \in DOMAIN todo : todo[i] \in P!Role /\ (up[todo[i]] => todo[i] \in foreign)
    BY <1>1 DEF Vacant
  <2>3. up' = [up EXCEPT ![n] = TRUE]
    BY DEF P!Spawn
  <2>4. ASSUME NEW i \in DOMAIN Tail(todo)
        PROVE  /\ up'[Tail(todo)[i]] => Tail(todo)[i] \in foreign
               /\ \A j \in DOMAIN Tail(todo) : Tail(todo)[i] = Tail(todo)[j] => i = j
    <3>1. i + 1 # 1 /\ todo[i + 1] # n
      BY <1>1, <1>3, <2>1
    <3> QED
      BY <1>3, <2>1, <2>2, <2>3, <3>1 DEF PowerTypes
  <2>5. \A r \in P!Request \ {q} : requests'[r].todo = <<>>
    BY <1>2, <1>5, Stoppers DEF Stages
  <2>6. requests'[q].todo = Tail(todo)
    BY <1>2
  <2> HIDE DEF todo
  <2>7. ASSUME NEW r \in P!Request, NEW i \in DOMAIN requests'[r].todo
        PROVE  /\ up'[requests'[r].todo[i]] => requests'[r].todo[i] \in foreign
               /\ \A j \in DOMAIN requests'[r].todo :
                     requests'[r].todo[i] = requests'[r].todo[j] => i = j
    <3>1. r = q
      BY <2>5, <2>7
    <3> QED
      BY <2>4, <2>6, <2>7, <3>1
  <2> QED
    BY <2>7 DEF Vacant, P!Spawn
<1>10. /\ P!Alive' = IF up[n] THEN P!Alive ELSE P!Alive \cup {n}
       /\ fallen \subseteq fallen' /\ (up[n] => n \in fallen')
  BY <1>4 DEF P!Alive, P!Spawn, PowerTypes
<1>11. Listed'
  <2>1. \A r \in P!Request : requests'[r].phase # "awaiting"
    BY <1>2, <1>5, Stoppers
  <2>2. requests'[0].phase = "awaiting" => P!Alive' \subseteq requests'[0].doomed \cup raced'
    <3>1. requests'[0] = requests[0]
      BY <1>2, Stoppers
    <3>2. requests[0].phase = "awaiting" => up[n] \/ n \in raced'
      BY DEF Stages, P!Spawn
    <3>3. raced \subseteq raced'
      BY DEF P!Spawn
    <3> QED
      BY <1>10, <3>1, <3>2, <3>3 DEF Listed
  <2>3. \A m \in P!Role : up'[m] => m \in foreign' \cup raced' \cup processes'
    BY DEF Listed, P!Spawn, PowerTypes
  <2>4. \A m \in foreign' : up'[m]
    BY DEF Listed, P!Spawn, PowerTypes
  <2> QED
    BY <1>1, <2>1, <2>2, <2>3, <2>4 DEF Listed, P!Spawn
<1>12. Whole'
  <2>1. ASSUME runtime' = "serving", NEW m \in P!Role
        PROVE  \/ m \in P!Alive' \cup fallen'
               \/ \E r \in P!Request : \E i \in DOMAIN requests'[r].todo :
                     m = requests'[r].todo[i]
    <3>1. runtime = "serving"
      BY <2>1 DEF P!Spawn
    <3>2. \A r \in P!Request : requests[r].phase # "awaiting"
      BY <1>1, <1>5
    <3>3. PICK r \in P!Request :
              m \in P!Alive \cup fallen
              \/ \E i \in DOMAIN requests[r].todo : m = requests[r].todo[i]
      BY <1>1, <3>1, <3>2 DEF Whole
    <3>4. CASE m \in P!Alive \cup fallen
      BY <1>10, <3>1, <3>4
    <3>5. CASE \E i \in DOMAIN requests[r].todo : m = requests[r].todo[i]
      <4>1. r = q
        BY <1>5, <3>5, Stoppers DEF Stages
      <4>2. PICK i \in DOMAIN todo : m = todo[i]
        BY <3>5, <4>1
      <4>3. CASE i = 1
        BY <1>1, <1>10, <4>2, <4>3
      <4>4. CASE i # 1
        BY <1>2, <1>3, <4>2, <4>4
      <4> QED
        BY <4>3, <4>4
    <3> QED
      BY <3>3, <3>4, <3>5
  <2> QED
    BY <2>1 DEF Whole
<1> QED
  BY <1>6, <1>7, <1>8, <1>9, <1>11, <1>12

\* The system cannot start a process: what is left to start has fallen.
LEMMA SpawnFailsKeeps ==
    ASSUME Invariant, NEW q \in P!Request, P!SpawnFails(q)
    PROVE  Invariant'
<1> USE DEF Invariant
<1> DEFINE left == P!ToSet(requests[q].todo)
<1>1. /\ requests[q].phase = "spawning" /\ requests[q].todo \in Seq(P!Role)
      /\ P!Reply(q) /\ fallen' = fallen \cup left
      /\ UNCHANGED <<up, processes, transition, runtime, foreign, late, raced>>
  BY Stoppers DEF P!SpawnFails, PowerTypes, RequestState
<1>2. /\ requests' \in [P!Stopper -> RequestState]
      /\ \A s \in P!Stopper \ {q} : requests'[s] = requests[s]
      /\ requests'[q].phase = "idle" /\ requests'[q].todo = <<>> /\ requests'[q].doomed = {}
  BY <1>1, Stoppers DEF PowerTypes, P!Reply, P!NoRequest, RequestState, Phase
<1>3. /\ left \subseteq P!Role
      /\ \A i \in DOMAIN requests[q].todo : requests[q].todo[i] \in left
  BY <1>1 DEF P!ToSet
<1>4. \A r \in P!Request \ {q} : requests[r].phase \notin {"spawning", "draining", "awaiting"}
  BY <1>1, Stoppers DEF Exclusive
<1> HIDE DEF left
<1>5. PowerTypes'
  BY <1>1, <1>2, <1>3 DEF PowerTypes, P!Reply
<1>6. Exclusive'
  BY <1>1, <1>2, Stoppers DEF Exclusive, P!Reply
<1>7. Stages'
  BY <1>1, <1>2, Stoppers, Order, Suffixes DEF Stages
<1>8. Vacant'
  BY <1>1, <1>2, Stoppers DEF Vacant
<1>9. P!Alive' = P!Alive
  BY <1>1 DEF P!Alive
<1>10. Listed'
  BY <1>1, <1>2, <1>9, Stoppers DEF Listed
<1>11. Whole'
  <2>1. ASSUME runtime' = "serving", NEW m \in P!Role PROVE m \in P!Alive' \cup fallen'
    <3>1. \A r \in P!Request : requests[r].phase # "awaiting"
      BY <1>1, <1>4
    <3>2. PICK r \in P!Request :
              m \in P!Alive \cup fallen
              \/ \E i \in DOMAIN requests[r].todo : m = requests[r].todo[i]
      BY <1>1, <2>1, <3>1 DEF Whole
    <3>3. CASE r = q
      BY <1>1, <1>3, <1>9, <3>2, <3>3
    <3>4. CASE r # q
      <4>1. requests[r].todo = <<>>
        BY <1>4, <3>4, Stoppers DEF Stages
      <4> QED
        BY <1>1, <1>9, <3>2, <4>1
    <3> QED
      BY <3>3, <3>4
  <2> QED
    BY <2>1 DEF Whole
<1> QED
  BY <1>5, <1>6, <1>7, <1>8, <1>10, <1>11

-----------------------------------------------------------------------------
(* The steps of others.                                                    *)

\* A process ends, because it was told to or unasked.
LEMMA EndsKeeps ==
    ASSUME Invariant, NEW n \in P!Role, P!Die(n) \/ P!Fall(n)
    PROVE  Invariant'
<1> USE DEF Invariant
<1>1. /\ up[n] /\ up' = [up EXCEPT ![n] = FALSE]
      /\ UNCHANGED <<processes, requests, lock, transition, runtime, raced>>
      /\ foreign' = foreign \ {n} /\ late' = foreign'
      /\ fallen \subseteq fallen' /\ fallen' \subseteq P!Role
  BY DEF P!Die, P!Fall, P!supervisor, PowerTypes, Vacant
<1>2. PowerTypes'
  BY <1>1 DEF PowerTypes
<1>3. Exclusive' /\ Stages'
  BY <1>1 DEF Exclusive, Stages
<1>4. \A m \in P!Role : up'[m] <=> up[m] /\ m # n
  BY <1>1 DEF PowerTypes
<1>5. Vacant'
  <2>1. \A q \in P!Request : \A i \in DOMAIN requests[q].todo : requests[q].todo[i] \in P!Role
    BY Stoppers DEF PowerTypes, RequestState
  <2> QED
    BY <1>1, <1>4, <2>1 DEF Vacant
<1>6. P!Alive' = P!Alive \ {n}
  BY <1>1, <1>4 DEF P!Alive, PowerTypes
<1>7. Listed'
  <2>1. \A m \in P!Role : up'[m] => m \in foreign' \cup raced' \cup processes'
    BY <1>1, <1>4 DEF Listed
  <2>2. \A m \in foreign' : up'[m]
    BY <1>1, <1>4 DEF Listed, PowerTypes
  <2> QED
    BY <1>1, <1>6, <2>1, <2>2 DEF Listed
<1>8. Whole'
  <2>1. ASSUME runtime = "serving", \A q \in P!Request : requests[q].phase # "awaiting"
        PROVE  n \in P!Alive => n \in fallen'
    <3>1. CASE P!Fall(n)
      BY <3>1 DEF P!Fall, P!Alive
    <3>2. CASE P!Die(n)
      <4>1. PICK s \in P!Stopper : requests[s].phase = "awaiting"
        BY <3>2 DEF P!Die, P!Terminated, Stages
      <4>2. s # 0
        BY <2>1, <4>1 DEF Stages
      <4> QED
        BY <2>1, <4>1, <4>2, Stoppers
    <3> QED
      BY <3>1, <3>2
  <2> QED
    BY <1>1, <1>6, <2>1 DEF Whole
<1> QED
  BY <1>2, <1>3, <1>5, <1>7, <1>8

\* Someone starts a process, also of a node about to be started.
LEMMA ByHandKeeps ==
    ASSUME Invariant, NEW n \in P!Role, P!ByHand(n)
    PROVE  Invariant'
<1> USE DEF Invariant
<1>1. /\ ~up[n] /\ up' = [up EXCEPT ![n] = TRUE] /\ foreign' = foreign \cup {n}
      /\ late' = foreign'
      /\ UNCHANGED <<processes, requests, lock, transition, runtime, raced, fallen>>
  BY DEF P!ByHand, P!supervisor, Vacant
<1>2. PowerTypes'
  BY <1>1 DEF PowerTypes
<1>3. Exclusive' /\ Stages'
  BY <1>1 DEF Exclusive, Stages
<1>4. Vacant'
  <2>1. \A q \in P!Request : \A i \in DOMAIN requests[q].todo : requests[q].todo[i] \in P!Role
    BY Stoppers DEF PowerTypes, RequestState
  <2>2. \A m \in P!Role : up'[m] <=> up[m] \/ m = n
    BY <1>1 DEF PowerTypes
  <2> QED
    BY <1>1, <2>1, <2>2 DEF Vacant
<1>5. P!Alive' = P!Alive
  BY <1>1 DEF P!Alive, PowerTypes
<1>6. Listed'
  BY <1>1, <1>5 DEF Listed, PowerTypes
<1>7. Whole'
  BY <1>1, <1>5 DEF Whole
<1> QED
  BY <1>2, <1>3, <1>4, <1>6, <1>7

\* The end of the runtime begins; it waits for nobody.
LEMMA StopRuntimeKeeps ==
    ASSUME Invariant, P!StopRuntime
    PROVE  Invariant'
<1> USE DEF Invariant
<1>1. requests[0].phase = "idle" /\ runtime = "serving" /\ runtime' = "stopping"
  BY DEF P!StopRuntime, Stages
<1>2. /\ requests' \in [P!Stopper -> RequestState]
      /\ \A s \in P!Request : requests'[s] = requests[s]
      /\ requests'[0].phase = "draining" /\ requests'[0].todo = requests[0].todo
      /\ requests'[0].doomed = requests[0].doomed
  BY Stoppers DEF PowerTypes, P!StopRuntime, RequestState, Phase
<1>3. PowerTypes'
  BY <1>1, <1>2 DEF PowerTypes, P!StopRuntime
<1>4. Exclusive'
  BY <1>2, Stoppers DEF Exclusive, P!StopRuntime
<1>5. Stages'
  BY <1>1, <1>2, Stoppers DEF Stages
<1>6. Vacant'
  BY <1>2 DEF Vacant, P!StopRuntime
<1>7. P!Alive' = P!Alive
  BY DEF P!Alive, P!StopRuntime
<1>8. Listed'
  BY <1>1, <1>2, <1>7 DEF Listed, P!StopRuntime
<1>9. Whole'
  BY <1>1 DEF Whole
<1> QED
  BY <1>3, <1>4, <1>5, <1>6, <1>8, <1>9

LEMMA RestKeeps ==
    ASSUME Invariant, P!WindowCloses \/ UNCHANGED <<up, powered>>
    PROVE  Invariant'
<1> USE DEF Invariant
<1>1. /\ UNCHANGED <<up, processes, requests, lock, runtime, foreign, late, fallen, raced>>
      /\ transition' \in BOOLEAN
  BY DEF P!WindowCloses, P!Quiet, powered, PowerTypes
<1>2. P!Alive' = P!Alive
  BY <1>1 DEF P!Alive
<1>3. PowerTypes' /\ Exclusive' /\ Stages' /\ Vacant'
  BY <1>1 DEF PowerTypes, Exclusive, Stages, Vacant
<1>4. Listed' /\ Whole'
  BY <1>1, <1>2 DEF Listed, Whole
<1> QED
  BY <1>3, <1>4

LEMMA InvariantStep == ASSUME Invariant, [Next]_vars PROVE Invariant'
<1>1. PowerStep
  BY StepIsPowerStep
<1> QED
  BY <1>1, ServesKeeps, SpawnKeeps, SpawnFailsKeeps, EndsKeeps, AskKeeps, ByHandKeeps, StopRuntimeKeeps,
     RestKeeps
  DEF PowerStep, Spawns, Ends, Begins

LEMMA InvariantAlways == Spec => []Invariant
  BY InvariantInit, InvariantStep, PTL DEF Spec

-----------------------------------------------------------------------------
(* The theorems.                                                           *)

\* What the supervisor keeps has its type, and the lock one holder at most
\* (system.py:27-101, server.py:181-250).
LEMMA PowerTypeCorrect == Spec => []P!TypeOK
<1>1. ASSUME NEW S, NEW x, S \subseteq {x} PROVE P!Cardinality(S) <= 1
  <2>1. P!Cardinality(S) = Cardinality(S)
    BY DEF P!Cardinality, Cardinality
  <2>2. Cardinality({}) = 0 /\ Cardinality({x}) = 1
    BY FS_EmptySet, FS_Singleton
  <2>3. S = {} \/ S = {x}
    BY <1>1
  <2>4. Cardinality(S) \in {0, 1}
    BY <2>2, <2>3
  <2> QED
    BY <2>1, <2>4
<1>2. ASSUME Invariant PROVE P!TypeOK
  <2>1. P!Cardinality(lock) <= 1
    <3>1. \E q : lock \subseteq {q}
      BY <1>2 DEF Invariant, Exclusive
    <3> QED
      BY <1>1, <3>1
  <2>2. \A s \in P!Stopper :
            /\ requests[s].phase \in {"idle", "locking", "spawning", "draining", "awaiting"}
            /\ P!IsSuffix(requests[s].todo, START_ORDER)
            /\ requests[s].doomed \subseteq P!Role
    BY <1>2 DEF Invariant, PowerTypes, RequestState, Phase, Stages
  <2> QED
    BY <1>2, <2>1, <2>2 DEF Invariant, PowerTypes, Exclusive, Vacant, P!TypeOK
<1> QED
  BY <1>2, InvariantAlways, PTL

\* The next node of a request that starts processes has none, or one started by hand
\* since the probe.
LEMMA NoSecondProcessStep ==
    ASSUME Invariant
    PROVE  \A q \in P!Request :
              P!Spawns(q) => LET n == Head(requests[q].todo) IN up[n] => n \in late
<1> SUFFICES ASSUME NEW q \in P!Request, requests[q].todo # <<>>, up[Head(requests[q].todo)]
             PROVE  Head(requests[q].todo) \in late
  BY DEF P!Spawns
<1>1. requests[q].todo \in Seq(P!Role)
  BY Stoppers DEF Invariant, PowerTypes, RequestState
<1>2. 1 \in DOMAIN requests[q].todo /\ Head(requests[q].todo) = requests[q].todo[1]
  BY <1>1
<1> QED
  BY <1>2 DEF Invariant, Vacant

\* A process is started for a node that has one only if that one was started by hand
\* after the ports were probed (server.py:130, server.py:186, system.py:43).
THEOREM OneProcessPerNode == Spec => NoSecondProcess
<1>1. ASSUME Invariant, [Next]_vars
      PROVE  [\A q \in P!Request :
                P!Spawns(q) => LET n == Head(requests[q].todo) IN up[n] => n \in late]_(P!vars)
  BY <1>1, NoSecondProcessStep
<1> QED
  BY <1>1, InvariantAlways, PTL DEF Spec, NoSecondProcess, P!NoSecondProcess

\* Between requests either all processes run or none, but for those that ended
\* unasked or could not be started (server.py:181-250).
THEOREM AllOrNone == Spec => []WholeOrNothing
<1>1. ASSUME Invariant PROVE WholeOrNothing
  <2>1. SUFFICES ASSUME lock = {}, runtime = "serving", P!IsRunning
                 PROVE  P!Role \subseteq P!Alive \cup fallen
    BY DEF WholeOrNothing, P!WholeOrNothing
  <2>2. \A q \in P!Request : requests[q].phase \notin {"spawning", "draining", "awaiting"}
    BY <1>1, <2>1 DEF Invariant, Exclusive
  <2>3. \A q \in P!Request : requests[q].todo = <<>>
    BY <1>1, <2>2, Stoppers DEF Invariant, Stages
  <2>4. processes # {}
    BY <2>1 DEF P!IsRunning, P!Alive
  <2> QED
    BY <1>1, <2>1, <2>2, <2>3, <2>4 DEF Invariant, Whole
<1> QED
  BY <1>1, InvariantAlways, PTL

\* When the runtime is over no process of its is left, except those a start put on
\* the list behind its back (server.py:93, system.py:84).
THEOREM NoOrphans == Spec => []NoOrphan
<1>1. Invariant => NoOrphan
  BY DEF Invariant, Listed, NoOrphan, P!NoOrphan
<1> QED
  BY <1>1, InvariantAlways, PTL

=============================================================================
