------------------------------- MODULE EndToEnd -------------------------------
(***************************************************************************)
(* What the two routes together promise the agent: events go out one at a  *)
(* time; each ends acknowledged or failed, or is lost with the agent, and  *)
(* its fate is never revised.  An event is acknowledged only if the        *)
(* monitor logged it, or logged an earlier event that had the same id.     *)
(* Nothing is said of hops, copies, retries or of how long it takes; an    *)
(* event that failed may still be logged, because copies of it travel on.  *)
(***************************************************************************)
EXTENDS Naturals

CONSTANT MaxEvent       \* bound on the events emitted

Body == 1..MaxEvent     \* the events, in the order the agent emits them

VARIABLES
    ids,        \* the id of each event; 0 until it is emitted
    status,     \* what became of each event
    logged      \* the events the monitor logged

vars == <<ids, status, logged>>

Status == {"unsent", "sent", "acknowledged", "failed", "lost"}

Init ==
    /\ ids = [b \in Body |-> 0]
    /\ status = [b \in Body |-> "unsent"]
    /\ logged = {}

\* An id may be given again: the numbers begin at 1 after a reset of the agent.
Emit(b, id) ==
    /\ status[b] = "unsent"
    /\ \A a \in Body : status[a] # "sent" /\ (a < b => status[a] # "unsent")
    /\ ids' = [ids EXCEPT ![b] = id]
    /\ status' = [status EXCEPT ![b] = "sent"]
    /\ UNCHANGED logged

Record(b) ==
    /\ status[b] # "unsent"
    /\ logged' = logged \cup {b}
    /\ UNCHANGED <<ids, status>>

\* The event, or an earlier one that had its id, was logged.
Vouched(b) == \E a \in logged : a <= b /\ ids[a] = ids[b]

Acknowledge(b) ==
    /\ status[b] = "sent"
    /\ Vouched(b)
    /\ status' = [status EXCEPT ![b] = "acknowledged"]
    /\ UNCHANGED <<ids, logged>>

Abandon(b) ==
    /\ status[b] = "sent"
    /\ status' \in {[status EXCEPT ![b] = "failed"], [status EXCEPT ![b] = "lost"]}
    /\ UNCHANGED <<ids, logged>>

Next ==
    \E b \in Body :
        \/ \E id \in Body : Emit(b, id)
        \/ Record(b) \/ Acknowledge(b) \/ Abandon(b)

Spec == Init /\ [][Next]_vars

=============================================================================
