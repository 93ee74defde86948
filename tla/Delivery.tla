------------------------------ MODULE Delivery ------------------------------
(***************************************************************************)
(* The two routes as a whole: the agent, r1 and r2, r1b and r2b, and the   *)
(* monitor, with the copies of events that travel between them.  Relay,    *)
(* Monitor and Agent show each node alone, await by await, with free       *)
(* neighbours; here the neighbours are the real ones and a step is what a  *)
(* node does with one request or one answer.                               *)
(*                                                                         *)
(* Every node above the monitor asks the node below: work[n][t] is what    *)
(* the t-th connection of node n is about.                                 *)
(*   idle         nothing                                                  *)
(*   ready        to make its next attempt                                 *)
(*   asking       a connection of the node below works on it, which has    *)
(*                this slot as its "from"                                  *)
(*   unanswered   the request was handled, but no answer will come         *)
(*   closed       the node below went down, and the connection with it     *)
(*   answering    the answer has not been read above                       *)
(* The agent is a node with one slot, whose first attempt goes to r1 and   *)
(* whose second goes to r1b.                                               *)
(*                                                                         *)
(* An asker that gives up closes its connection, but the work it asked     *)
(* for goes on, unheard.  Any answer may come too late (GiveUp).  Pauses,  *)
(* resets, crashes, dropped ACKs and late answers are faults; their number *)
(* is bounded by MaxFault, and faulty tells which nodes had one.           *)
(***************************************************************************)
EXTENDS Routing, FiniteSets

CONSTANTS
    MaxEvent,       \* bound on the events the agent emits
    MaxRetry,       \* config.MAX_RETRY_COUNT
    MaxSlot,        \* bound on the connections a relay serves at a time
    MaxFault        \* bound on faults

ASSUME DeliveryAssumption ==
    /\ MaxEvent \in Nat /\ MaxFault \in Nat
    /\ MaxRetry \in Nat \ {0} /\ MaxSlot \in Nat \ {0}

VARIABLES
    up, running,        \* per node: the process is there; it is not paused
    work,
    received_id_cache,  \* per relay
    pending_ack_table,  \* per relay
    event_log,          \* the events in the monitor's log
    seq_no,             \* the agent's
    ids, status,        \* per event: its id, and what became of it
    suspected_node,     \* per event: the node the agent suspects last
    logged,             \* history: the events any process of the monitor logged
    faults, faulty      \* history: how many faults there were, and at which nodes

nodes == <<up, running>>
tables == <<received_id_cache, pending_ack_table>>
events == <<seq_no, ids, status, suspected_node>>
sink == <<event_log, logged>>
history == <<faults, faulty>>
vars == <<nodes, work, tables, events, sink, history>>

Agent == "local-agent"
Asker == {Agent} \cup RelayNodes
Slot == 1..MaxSlot
Body == 1..MaxEvent

Edges == PrimaryEdges \cup BackupEdges

\* The one node a relay sends to, and the one that sends to it.
Below(n) == CHOOSE m \in Nodes : <<n, m>> \in Edges
Above(n) == CHOOSE m \in Nodes : <<m, n>> \in Edges

NoWork == [phase |-> "idle", event |-> 0, from |-> 0, heard |-> FALSE, attempt |-> 0,
           stale |-> FALSE, evidence |-> FALSE, reply |-> None]

\* Where the current attempt goes.
Target(n, t) ==
    IF n # Agent THEN Below(n) ELSE IF work[n][t].attempt = 1 THEN "r1" ELSE "r1b"

LastAttempt(n, t) == work[n][t].attempt = IF n = Agent THEN 2 ELSE MaxRetry

IdOf(n, t) == ids[work[n][t].event]

Waiting == {"asking", "unanswered", "closed"}
Working == {"ready"} \cup Waiting

Init ==
    /\ up = [n \in Nodes |-> TRUE]
    /\ running = [n \in Nodes |-> TRUE]
    /\ work = [n \in Asker |-> [t \in Slot |-> NoWork]]
    /\ received_id_cache = [n \in RelayNodes |-> {}]
    /\ pending_ack_table = [n \in RelayNodes |-> {}]
    /\ event_log = {}
    /\ seq_no = 0
    /\ ids = [b \in Body |-> 0]
    /\ status = [b \in Body |-> "unsent"]
    /\ suspected_node = [b \in Body |-> None]
    /\ logged = {}
    /\ faults = 0
    /\ faulty = {}

Fault(n) ==
    /\ faults < MaxFault
    /\ faults' = faults + 1
    /\ faulty' = faulty \cup {n}

-----------------------------------------------------------------------------
(* How an attempt ends.  base is work as the rest of the step leaves it.   *)

\* A slip: the result is kept for a connection that is closed.
AnswerAnyway(w, reply, evidence) ==
    [w EXCEPT !.phase = "answering", !.reply = reply, !.evidence = evidence]

\* A relay has its result; if nobody waits for it any more, it is dropped.
Answer(w, reply, evidence) ==
    IF w.heard THEN [w EXCEPT !.phase = "answering", !.reply = reply, !.evidence = evidence]
    ELSE NoWork

\* The finally clause of _deliver_with_retry.
PopPending(n, t) ==
    pending_ack_table' = [pending_ack_table EXCEPT ![n] = @ \ {IdOf(n, t)}]

Settle(n, t, outcome) ==
    status' = [status EXCEPT ![work[n][t].event] = outcome]

\* A slip: a relay remembers an id when it gives up on it.
RememberAlways(n, t) ==
    received_id_cache' = [received_id_cache EXCEPT ![n] = @ \cup {IdOf(n, t)}]

Forget(n, t) == UNCHANGED received_id_cache

\* An answer to a delivery that a reset overtook is not looked at.
Interrupted(n, t, base) ==
    /\ work' = [base EXCEPT ![n][t] = Answer(work[n][t], "ERROR", FALSE)]
    /\ PopPending(n, t)
    /\ UNCHANGED <<received_id_cache, events>>

Acknowledged(n, t, base) ==
    \/ /\ n = Agent
       /\ work' = [base EXCEPT ![n][t] = NoWork]
       /\ Settle(n, t, "acknowledged")
       /\ UNCHANGED <<tables, seq_no, ids, suspected_node>>
    \/ /\ n # Agent /\ work[n][t].stale
       /\ Interrupted(n, t, base)
    \/ /\ n # Agent /\ ~work[n][t].stale
       /\ received_id_cache' = [received_id_cache EXCEPT ![n] = @ \cup {IdOf(n, t)}]
       /\ PopPending(n, t)
       /\ work' = [base EXCEPT ![n][t] = Answer(work[n][t], "ACK", FALSE)]
       /\ UNCHANGED events

\* A slip: a new attempt is counted as the old one.
AgainUncounted(n, t, base, evidence) ==
    work' = [base EXCEPT ![n][t] = [@ EXCEPT !.phase = "ready", !.evidence = evidence]]

Again(n, t, base, evidence) ==
    LET w == work[n][t]
    IN  work' = [base EXCEPT ![n][t] = [w EXCEPT !.phase = "ready",
                                                 !.attempt = w.attempt + 1,
                                                 !.evidence = evidence]]

\* A slip: what a relay quotes counts for the hop above it.
SuspectWithoutEvidence(quoted) == Below("r1")

\* _validated_downstream_error: r1 can only quote its own hop.
Suspect(quoted) == IF quoted THEN Below("r1") ELSE "r1"

\* The agent goes over to the backup route, or gives up.
AgentFailed(t, base, quoted) ==
    \/ /\ ~LastAttempt(Agent, t)
       /\ Again(Agent, t, base, FALSE)
       /\ suspected_node' = [suspected_node EXCEPT ![work[Agent][t].event] = Suspect(quoted)]
       /\ UNCHANGED <<tables, seq_no, ids, status>>
    \/ /\ LastAttempt(Agent, t)
       /\ work' = [base EXCEPT ![Agent][t] = NoWork]
       /\ suspected_node' = [suspected_node EXCEPT ![work[Agent][t].event] = "r1b"]
       /\ Settle(Agent, t, "failed")
       /\ UNCHANGED <<tables, seq_no, ids>>

\* A relay tries again, or gives up with the evidence it gathered on its own hop.
\* A timeout or connection error (raised) of the last attempt does not look at
\* the generation.
RelayFailed(n, t, base, own, raised) ==
    LET w == work[n][t]
        evidence == w.evidence \/ own
    IN  \/ /\ ~LastAttempt(n, t) /\ (raised \/ ~w.stale)
           /\ Again(n, t, base, evidence)
           /\ UNCHANGED <<tables, events>>
        \/ /\ LastAttempt(n, t) /\ (raised \/ ~w.stale)
           /\ work' = [base EXCEPT ![n][t] = Answer(w, "ERROR", evidence)]
           /\ PopPending(n, t)
           /\ Forget(n, t)
           /\ UNCHANGED events
        \/ /\ ~raised /\ w.stale
           /\ Interrupted(n, t, base)

\* own: the relay has evidence of this failure; quoted: the answer quotes some.
Failed(n, t, base, own, quoted, raised) ==
    \/ n = Agent /\ AgentFailed(t, base, quoted)
    \/ n # Agent /\ RelayFailed(n, t, base, own, raised)

-----------------------------------------------------------------------------
(* Requests                                                                *)

\* A node asks the node below; the top of the loop tests the generation.
Asks(n, t) == up[n] /\ work[n][t].phase = "ready" /\ ~work[n][t].stale

Interrupt(n, t) ==
    /\ n # Agent /\ work[n][t].phase = "ready" /\ work[n][t].stale
    /\ Interrupted(n, t, work)
    /\ UNCHANGED <<nodes, sink, history>>

\* Nobody listens.
Refused(n, t) ==
    /\ Asks(n, t)
    /\ ~up[Target(n, t)]
    /\ Failed(n, t, work, TRUE, FALSE, TRUE)
    /\ UNCHANGED <<nodes, sink, history>>

Heard(n, t) == up[Target(n, t)] /\ running[Target(n, t)]

\* A slip: an event on its way down counts as delivered.
KnownOrPending(n, t) ==
    IdOf(n, t) \in received_id_cache[Target(n, t)] \cup pending_ack_table[Target(n, t)]

Known(n, t) == IdOf(n, t) \in received_id_cache[Target(n, t)]

IsPending(n, t) == IdOf(n, t) \in pending_ack_table[Target(n, t)]

\* The node below is paused, or is delivering the event already.
Rejected(n, t) ==
    /\ Asks(n, t)
    /\ up[Target(n, t)]
    /\ \/ ~running[Target(n, t)]
       \/ Target(n, t) # "monitor" /\ ~Known(n, t) /\ IsPending(n, t)
    /\ Failed(n, t, work, TRUE, FALSE, FALSE)
    /\ UNCHANGED <<nodes, sink, history>>

Replayed(n, t) ==
    /\ Asks(n, t) /\ Target(n, t) # "monitor" /\ Heard(n, t)
    /\ Known(n, t)
    /\ Acknowledged(n, t, work)
    /\ UNCHANGED <<nodes, sink, history>>

FreeSlot(m) == {s \in Slot : work[m][s].phase = "idle"}

\* The relay below begins a delivery.
TakenOn(n, t) ==
    LET m == Target(n, t)
        s == CHOOSE x \in FreeSlot(m) : \A y \in FreeSlot(m) : x <= y
    IN  /\ Asks(n, t) /\ m # "monitor" /\ Heard(n, t)
        /\ ~Known(n, t) /\ ~IsPending(n, t)
        /\ FreeSlot(m) # {}
        /\ pending_ack_table' = [pending_ack_table EXCEPT ![m] = @ \cup {IdOf(n, t)}]
        /\ work' = [work EXCEPT
                ![n][t].phase = "asking",
                ![m][s] = [NoWork EXCEPT !.phase = "ready", !.event = work[n][t].event,
                                         !.from = t, !.heard = TRUE, !.attempt = 1]]
        /\ UNCHANGED <<nodes, received_id_cache, events, sink, history>>

\* The monitor logs an event whose id it does not know, and acknowledges any.
TakeIn(b) ==
    IF ids[b] \in {ids[a] : a \in event_log} THEN UNCHANGED sink
    ELSE event_log' = event_log \cup {b} /\ logged' = logged \cup {b}

AsksMonitor(n, t) == Asks(n, t) /\ Target(n, t) = "monitor" /\ Heard(n, t)

Logged(n, t) ==
    /\ AsksMonitor(n, t)
    /\ TakeIn(work[n][t].event)
    /\ Acknowledged(n, t, work)
    /\ UNCHANGED <<nodes, history>>

\* drop_next_ack, or an answer that comes too late.
LoggedSilently(n, t) ==
    /\ AsksMonitor(n, t)
    /\ Fault("monitor")
    /\ TakeIn(work[n][t].event)
    /\ work' = [work EXCEPT ![n][t].phase = "unanswered"]
    /\ UNCHANGED <<nodes, tables, events>>

-----------------------------------------------------------------------------
(* Answers                                                                 *)

\* The slot of node m that works for slot t of node n.
Serves(m, s, t) == work[m][s].phase # "idle" /\ work[m][s].heard /\ work[m][s].from = t

Hear(n, t) ==
    LET m == Target(n, t)
    IN  /\ work[n][t].phase = "asking"
        /\ \E s \in Slot :
              /\ Serves(m, s, t) /\ work[m][s].phase = "answering"
              /\ LET base == [work EXCEPT ![m][s] = NoWork]
                 IN  \/ work[m][s].reply = "ACK" /\ Acknowledged(n, t, base)
                     \/ work[m][s].reply = "ERROR"
                        /\ Failed(n, t, base, TRUE, work[m][s].evidence, FALSE)
        /\ UNCHANGED <<nodes, sink, history>>

\* What becomes of work nobody waits for any more.
Unheard(w) == IF w.phase = "answering" THEN NoWork ELSE [w EXCEPT !.heard = FALSE]

\* The timeout comes before the answer.
GiveUp(n, t) ==
    LET m == Target(n, t)
    IN  /\ work[n][t].phase = "asking"
        /\ Fault(m)
        /\ \E s \in Slot :
              /\ Serves(m, s, t)
              /\ Failed(n, t, [work EXCEPT ![m][s] = Unheard(@)], TRUE, FALSE, TRUE)
        /\ UNCHANGED <<nodes, sink>>

TimedOut(n, t) ==
    /\ work[n][t].phase = "unanswered"
    /\ Failed(n, t, work, TRUE, FALSE, TRUE)
    /\ UNCHANGED <<nodes, sink, history>>

\* An end of file is no answer, and no evidence; a reset connection is an OSError.
Closed(n, t) ==
    /\ work[n][t].phase = "closed"
    /\ \/ Failed(n, t, work, FALSE, FALSE, FALSE)
       \/ Failed(n, t, work, TRUE, FALSE, TRUE)
    /\ UNCHANGED <<nodes, sink, history>>

-----------------------------------------------------------------------------
(* The agent's loop, control commands and the life of the processes        *)

Emit ==
    LET b == Cardinality({a \in Body : status[a] # "unsent"}) + 1
    IN  /\ up[Agent] /\ running[Agent]
        /\ work[Agent][1].phase = "idle"
        /\ b <= MaxEvent
        /\ seq_no' = seq_no + 1
        /\ ids' = [ids EXCEPT ![b] = seq_no + 1]
        /\ status' = [status EXCEPT ![b] = "sent"]
        /\ work' = [work EXCEPT ![Agent][1] =
                        [NoWork EXCEPT !.phase = "ready", !.event = b, !.attempt = 1]]
        /\ UNCHANGED <<nodes, tables, suspected_node, sink, history>>

\* A poll that finds nothing to report, or a sleep while paused.
Poll ==
    /\ work[Agent][1].phase = "idle"
    /\ UNCHANGED vars

Pause(n) ==
    /\ up[n] /\ running[n]
    /\ Fault(n)
    /\ running' = [running EXCEPT ![n] = FALSE]
    /\ UNCHANGED <<up, work, tables, events, sink>>

Resume(n) ==
    /\ up[n] /\ ~running[n]
    /\ running' = [running EXCEPT ![n] = TRUE]
    /\ UNCHANGED <<up, work, tables, events, sink, history>>

\* Everything node n remembers is gone.
Empty(n) ==
    /\ IF n = Agent THEN seq_no' = 0 ELSE UNCHANGED seq_no
    /\ IF n = "monitor" THEN event_log' = {} ELSE UNCHANGED event_log
    /\ IF n \in RelayNodes
       THEN /\ received_id_cache' = [received_id_cache EXCEPT ![n] = {}]
            /\ pending_ack_table' = [pending_ack_table EXCEPT ![n] = {}]
       ELSE UNCHANGED tables
    /\ UNCHANGED <<ids, suspected_node, logged>>

\* A delivery of a relay in progress is of an old generation from now on.
Reset(n) ==
    /\ up[n]
    /\ Fault(n)
    /\ Empty(n)
    /\ work' = IF n \notin RelayNodes THEN work
               ELSE [work EXCEPT ![n] = [t \in Slot |->
                        IF work[n][t].phase \in Working
                        THEN [work[n][t] EXCEPT !.stale = TRUE] ELSE work[n][t]]]
    /\ UNCHANGED <<nodes, status>>

Shutdown(n) ==
    /\ up[n]
    /\ Fault(n)
    /\ up' = [up EXCEPT ![n] = FALSE]
    /\ running' = [running EXCEPT ![n] = TRUE]
    /\ Empty(n)
    /\ status' = IF n = Agent /\ work[Agent][1].phase # "idle"
                 THEN [status EXCEPT ![work[Agent][1].event] = "lost"] ELSE status
    /\ work' = [m \in Asker |-> [t \in Slot |->
                    LET w == work[m][t]
                    IN  IF m = n THEN NoWork
                        ELSE IF w.phase \in Waiting /\ Target(m, t) = n
                             THEN [w EXCEPT !.phase = "closed"]
                        ELSE IF w.heard /\ Above(m) = n THEN Unheard(w)
                        ELSE w]]

Restart(n) ==
    /\ ~up[n]
    /\ up' = [up EXCEPT ![n] = TRUE]
    /\ UNCHANGED <<running, work, tables, events, sink, history>>

-----------------------------------------------------------------------------
Proceed(n, t) ==
    \/ Interrupt(n, t) \/ Refused(n, t) \/ Rejected(n, t) \/ Replayed(n, t)
    \/ TakenOn(n, t) \/ Logged(n, t)
    \/ Hear(n, t) \/ TimedOut(n, t) \/ Closed(n, t)

Next ==
    \/ Emit \/ Poll
    \/ \E n \in Asker, t \in Slot : Proceed(n, t) \/ LoggedSilently(n, t) \/ GiveUp(n, t)
    \/ \E n \in Nodes : Pause(n) \/ Resume(n) \/ Reset(n) \/ Shutdown(n) \/ Restart(n)

Spec == Init /\ [][Next]_vars

\* Every await ends: sleeps and publishes do, and a request is answered, or its
\* connection ends, or its timeout comes.
FairSpec == Spec /\ \A n \in Asker, t \in Slot : WF_vars(Proceed(n, t))

-----------------------------------------------------------------------------
\* Every variable has its type, and every request that waits for a relay has one
\* connection there that works on its event.
TypeOK ==
    /\ up \in [Nodes -> BOOLEAN] /\ running \in [Nodes -> BOOLEAN]
    /\ \A n \in Asker, t \in Slot :
          LET w == work[n][t]
          IN  /\ w.phase \in Working \cup {"idle", "answering"}
              /\ w.phase # "idle" => w.event \in Body /\ status[w.event] # "unsent"
              /\ w.attempt \in 0..(IF n = Agent THEN 2 ELSE MaxRetry)
              /\ w.phase = "answering" => w.heard
              /\ w.phase = "asking" =>
                    \E s \in Slot : /\ Serves(Target(n, t), s, t)
                                    /\ work[Target(n, t)][s].event = w.event
    /\ received_id_cache \in [RelayNodes -> SUBSET Body]
    /\ pending_ack_table \in [RelayNodes -> SUBSET Body]
    /\ event_log \subseteq logged /\ logged \subseteq Body
    /\ seq_no \in 0..MaxEvent
    /\ ids \in [Body -> 0..MaxEvent]
    /\ status \in [Body -> {"unsent", "sent", "acknowledged", "failed", "lost"}]
    /\ suspected_node \in [Body -> Nodes \cup {None}]
    /\ faults \in 0..MaxFault /\ faulty \subseteq Nodes

\* A relay or the monitor, and what lies below it on its route.
AtOrBelow(n) ==
    {n} \cup (IF n = "monitor" THEN {} ELSE {Below(n), "monitor"})

\* The node suspected of a failure, or one below it, did fail, or the agent was
\* reset or restarted: however retries, late answers and leftover copies of
\* earlier events mix, a fault is never looked for below the place where it is
\* (local_agent.py:386, relay.py:453), and without a fault nothing fails.
SuspectAtOrAboveFault ==
    \A b \in Body : suspected_node[b] # None =>
        faulty \cap (AtOrBelow(suspected_node[b]) \cup {Agent}) # {}

\* A relay remembers as delivered only ids the monitor logged for some event,
\* whatever became of the nodes in between, and whichever route it is on.
CacheSound ==
    \A n \in RelayNodes : received_id_cache[n] \subseteq {ids[b] : b \in logged}

\* Every event the agent emits is acknowledged or fails, or is lost with the
\* agent, whatever the nodes below do: the loop never hangs in a delivery.
Settles == \A b \in Body : status[b] = "sent" ~> status[b] # "sent"

\* What the two routes together promise the agent.
Promise == INSTANCE EndToEnd

\* The composition of all nodes implements that promise: in particular an event
\* is acknowledged only if it, or an earlier one with its id, was logged.
RoutePromise == Promise!Spec

=============================================================================
