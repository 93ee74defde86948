--------------------------------- MODULE Hop ---------------------------------
(***************************************************************************)
(* What one hop of the network promises the node above it: a request is    *)
(* answered at most once, and it is answered ACK only if the event it      *)
(* carries was acknowledged from below.  How a hop finds that out, by      *)
(* attempts, retries and a cache of delivered ids, is not said here.       *)
(***************************************************************************)
CONSTANTS Task, Event, None

VARIABLES
    asked,      \* the event each open request carries
    answer,     \* the answer on its way to each request
    acked       \* the events acknowledged from below

vars == <<asked, answer, acked>>

TypeOK ==
    /\ asked \in [Task -> Event \cup {None}]
    /\ answer \in [Task -> {"ACK", "ERROR", None}]
    /\ acked \subseteq Event

Init ==
    /\ asked = [t \in Task |-> None]
    /\ answer = [t \in Task |-> None]
    /\ acked = {}

\* A request arrives and is taken up.
Ask(t, e) ==
    /\ asked[t] = None /\ answer[t] = None
    /\ asked' = [asked EXCEPT ![t] = e]
    /\ UNCHANGED <<answer, acked>>

\* A request arrives and is refused without being looked into.
Refuse(t) ==
    /\ asked[t] = None /\ answer[t] = None
    /\ answer' = [answer EXCEPT ![t] = "ERROR"]
    /\ UNCHANGED <<asked, acked>>

\* The event of an open request is acknowledged from below.
Learn(t) ==
    /\ asked[t] # None /\ answer[t] = None
    /\ acked' = acked \cup {asked[t]}
    /\ UNCHANGED <<asked, answer>>

GiveAck(t) ==
    /\ asked[t] \in acked /\ answer[t] = None
    /\ answer' = [answer EXCEPT ![t] = "ACK"]
    /\ UNCHANGED <<asked, acked>>

GiveError(t) ==
    /\ asked[t] # None /\ answer[t] = None
    /\ answer' = [answer EXCEPT ![t] = "ERROR"]
    /\ UNCHANGED <<asked, acked>>

\* A sink takes an event in: it acknowledges it itself, and may answer at once.
TakeIn(t, e) ==
    /\ asked[t] = None /\ answer[t] = None
    /\ asked' = [asked EXCEPT ![t] = e]
    /\ acked' = acked \cup {e}
    /\ \E response \in {"ACK", None} : answer' = [answer EXCEPT ![t] = response]

\* A request is dropped without an answer.
Drop(t) ==
    /\ asked[t] # None /\ answer[t] = None
    /\ asked' = [asked EXCEPT ![t] = None]
    /\ UNCHANGED <<answer, acked>>

\* The answer is handed over.
Close(t) ==
    /\ answer[t] # None
    /\ asked' = [asked EXCEPT ![t] = None]
    /\ answer' = [answer EXCEPT ![t] = None]
    /\ UNCHANGED acked

\* The node goes down and its connections end without an answer.
Vanish ==
    /\ asked' = [t \in Task |-> None]
    /\ answer' = [t \in Task |-> None]
    /\ UNCHANGED acked

Next ==
    \/ Vanish
    \/ \E t \in Task :
          \/ \E e \in Event : Ask(t, e) \/ TakeIn(t, e)
          \/ Refuse(t) \/ Learn(t) \/ GiveAck(t) \/ GiveError(t) \/ Drop(t) \/ Close(t)

Spec == Init /\ [][Next]_vars

=============================================================================
