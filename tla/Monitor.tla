------------------------------- MODULE Monitor -------------------------------
(***************************************************************************)
(* The sink (nw_sim/monitor.py, class Monitor, with what it inherits from  *)
(* nw_sim/base.py).  It logs each event once, counts duplicates and events *)
(* that arrive out of order, keeps a state per host, and acknowledges what *)
(* it receives unless it was told to drop the next ACK.                    *)
(*                                                                         *)
(* handle_network_message awaits only once, in its last publish, so what   *)
(* it does to an event is one step (Duplicate or Record) and the response  *)
(* is written in another (Reply).  Other connections and control commands  *)
(* come in between.  Both relays that lead here may hold a copy of an      *)
(* event, and a copy may arrive long after later events, so any event may  *)
(* arrive at any time.                                                     *)
(*                                                                         *)
(* Left out, because they are display copies of the last message: the last *)
(* processed event, sink, ACK and route results, the traffic captures and  *)
(* the recent_event_summaries, which have the ids of recent_events.        *)
(***************************************************************************)
EXTENDS Naturals, SequencesExt

CONSTANTS
    None,           \* Python's None
    Task,           \* connections open at a time
    Host,           \* host ids
    MaxSeq,         \* bound on sequence numbers
    Kind,           \* what an event says: its type, severity and payload
    LogLimit,       \* maxlen of event_log
    RecentLimit,    \* config.RECENT_EVENT_LIMIT
    MaxArrived      \* bound on the events taken in between two resets

ASSUME LimitAssumption == LogLimit \in Nat \ {0} /\ RecentLimit \in Nat \ {0}
ASSUME BoundAssumption == MaxSeq \in Nat /\ MaxArrived \in Nat

Event == [host : Host, seq : 1..MaxSeq, kind : Kind]

\* The agent makes the id from host and sequence number; after a reset of the
\* agent another event may have the id of an earlier one.
EventId(e) == <<e.host, e.seq>>
Id == Host \X (1..MaxSeq)

VARIABLES
    stopped, running,
    received_id_cache, event_log, total_logged, recent_events,
    host_state_table, last_seq_by_host, duplicate_count, out_of_order_count,
    drop_next_ack,
    pc, job, reply,
    arrived,            \* history: the events taken in since the last reset
    ever_logged         \* history: the ids logged by any process so far

log == <<received_id_cache, event_log, total_logged, recent_events>>
tables == <<host_state_table, last_seq_by_host, duplicate_count, out_of_order_count>>
vars == <<stopped, running, log, tables, drop_next_ack, pc, job, reply, arrived, ever_logged>>

TypeOK ==
    /\ stopped \in BOOLEAN /\ running \in BOOLEAN /\ drop_next_ack \in BOOLEAN
    /\ received_id_cache \subseteq Id
    /\ event_log \in Seq(Event) /\ Len(event_log) <= LogLimit
    /\ recent_events \in Seq(Id) /\ Len(recent_events) <= RecentLimit
    /\ total_logged \in Nat /\ duplicate_count \in Nat /\ out_of_order_count \in Nat
    /\ host_state_table \in [Host -> Event \cup {None}]
    /\ last_seq_by_host \in [Host -> 0..MaxSeq]
    /\ pc \in [Task -> {"idle", "responding"}]
    /\ job \in [Task -> Id \cup {None}]
    /\ reply \in [Task -> {"ACK", "ERROR", None}]
    /\ arrived \in Seq(Event)
    /\ ever_logged \subseteq Id

-----------------------------------------------------------------------------
Init ==
    /\ stopped = FALSE
    /\ running = TRUE
    /\ received_id_cache = {}
    /\ event_log = <<>>
    /\ total_logged = 0
    /\ recent_events = <<>>
    /\ host_state_table = [h \in Host |-> None]
    /\ last_seq_by_host = [h \in Host |-> 0]
    /\ duplicate_count = 0
    /\ out_of_order_count = 0
    /\ drop_next_ack = FALSE
    /\ pc = [t \in Task |-> "idle"]
    /\ job = [t \in Task |-> None]
    /\ reply = [t \in Task |-> None]
    /\ arrived = <<>>
    /\ ever_logged = {}

\* A slip: maxlen is forgotten.
UnboundedAppend(q, x, limit) == Append(q, x)

\* deque(maxlen = limit): append drops the oldest, appendleft the newest at the end.
BoundedAppend(q, x, limit) ==
    IF Len(q) < limit THEN Append(q, x) ELSE Append(Tail(q), x)

BoundedAppendLeft(q, x, limit) ==
    IF Len(q) < limit THEN <<x>> \o q ELSE <<x>> \o Front(q)

-----------------------------------------------------------------------------
(* handle_network_message                                                  *)

Respond(t, id, response) ==
    /\ pc' = [pc EXCEPT ![t] = "responding"]
    /\ job' = [job EXCEPT ![t] = id]
    /\ reply' = [reply EXCEPT ![t] = response]

\* Paused, or not an EVENT.
Refuse(t) ==
    /\ pc[t] = "idle" /\ ~stopped
    /\ Respond(t, None, "ERROR")
    /\ UNCHANGED <<stopped, running, log, tables, drop_next_ack, arrived, ever_logged>>

\* will_drop_ack: the flag is spent on this event, which gets no response at all.
Acknowledge(t, e) ==
    /\ drop_next_ack' = FALSE
    /\ Respond(t, EventId(e), IF drop_next_ack THEN None ELSE "ACK")

TakeIn(t, e) ==
    /\ pc[t] = "idle" /\ ~stopped /\ running
    /\ Len(arrived) < MaxArrived
    /\ arrived' = Append(arrived, e)
    /\ Acknowledge(t, e)

\* A slip: only the events still in the log count as received.
InLog(e) == \E n \in DOMAIN event_log : EventId(event_log[n]) = EventId(e)

\* A slip: a sequence number that was passed counts as received.
Passed(e) == e.seq <= last_seq_by_host[e.host]

IsDuplicate(e) == EventId(e) \in received_id_cache

\* A slip: the last sequence number is that of the last event.
SeqOfLast(last, seq) == seq

HighestSeq(last, seq) == IF seq > last THEN seq ELSE last

Duplicate(t, e) ==
    /\ IsDuplicate(e)
    /\ TakeIn(t, e)
    /\ duplicate_count' = duplicate_count + 1
    /\ UNCHANGED <<stopped, running, log, host_state_table, last_seq_by_host,
                   out_of_order_count, ever_logged>>

Record(t, e) ==
    /\ ~IsDuplicate(e)
    /\ TakeIn(t, e)
    /\ LET last == last_seq_by_host[e.host]
       IN  /\ out_of_order_count' =
                  IF e.seq <= last THEN out_of_order_count + 1 ELSE out_of_order_count
           /\ last_seq_by_host' =
                  [last_seq_by_host EXCEPT ![e.host] = HighestSeq(last, e.seq)]
    /\ received_id_cache' = received_id_cache \cup {EventId(e)}
    /\ event_log' = BoundedAppend(event_log, e, LogLimit)
    /\ total_logged' = total_logged + 1
    /\ recent_events' = BoundedAppendLeft(recent_events, EventId(e), RecentLimit)
    /\ host_state_table' = [host_state_table EXCEPT ![e.host] = e]
    /\ ever_logged' = ever_logged \cup {EventId(e)}
    /\ UNCHANGED <<stopped, running, duplicate_count>>

\* The publish is over and the response, if there is one, is written.
Reply(t) ==
    /\ pc[t] = "responding"
    /\ pc' = [pc EXCEPT ![t] = "idle"]
    /\ job' = [job EXCEPT ![t] = None]
    /\ reply' = [reply EXCEPT ![t] = None]
    /\ UNCHANGED <<stopped, running, log, tables, drop_next_ack, arrived, ever_logged>>

-----------------------------------------------------------------------------
(* on_control, reset_state and the life of the process                     *)

SetRunning(value) ==
    /\ ~stopped
    /\ running' = value
    /\ UNCHANGED <<stopped, log, tables, drop_next_ack, pc, job, reply, arrived, ever_logged>>

\* A second request before the first is spent asks for nothing more.
DropNextAck ==
    /\ ~stopped
    /\ drop_next_ack' = TRUE
    /\ UNCHANGED <<stopped, running, log, tables, pc, job, reply, arrived, ever_logged>>

ResetState ==
    /\ received_id_cache' = {}
    /\ event_log' = <<>>
    /\ total_logged' = 0
    /\ recent_events' = <<>>
    /\ host_state_table' = [h \in Host |-> None]
    /\ last_seq_by_host' = [h \in Host |-> 0]
    /\ duplicate_count' = 0
    /\ out_of_order_count' = 0
    /\ drop_next_ack' = FALSE
    /\ arrived' = <<>>

Reset ==
    /\ ~stopped
    /\ ResetState
    /\ UNCHANGED <<stopped, running, pc, job, reply, ever_logged>>

Shutdown ==
    /\ ~stopped
    /\ stopped' = TRUE
    /\ running' = TRUE
    /\ ResetState
    /\ pc' = [t \in Task |-> "idle"]
    /\ job' = [t \in Task |-> None]
    /\ reply' = [t \in Task |-> None]
    /\ UNCHANGED ever_logged

Restart ==
    /\ stopped
    /\ stopped' = FALSE
    /\ UNCHANGED <<running, log, tables, drop_next_ack, pc, job, reply, arrived, ever_logged>>

Next ==
    \/ \E value \in BOOLEAN : SetRunning(value)
    \/ DropNextAck \/ Reset \/ Shutdown \/ Restart
    \/ \E t \in Task :
          \/ Refuse(t) \/ Reply(t)
          \/ \E e \in Event : Duplicate(t, e) \/ Record(t, e)

Spec == Init /\ [][Next]_vars

-----------------------------------------------------------------------------
\* The events that are no copies of an earlier one, by their place in the order of
\* arrival.
FirstCopies ==
    {i \in DOMAIN arrived : \A k \in 1..(i - 1) : EventId(arrived[k]) # EventId(arrived[i])}

\* The lists of a set of places in the order of arrival: there is one.
Listings(places) ==
    {at \in [1..Cardinality(places) -> places] :
        \A m, n \in DOMAIN at : m < n => at[m] < at[n]}

Smaller(m, n) == IF m < n THEN m ELSE n

\* The log, the total, the recent events and the duplicate count are exactly
\* those of the events received since the last reset with the copies taken out:
\* the total keeps counting past the window of the log, and no interleaving of
\* connections, pauses or dropped ACKs logs an event twice or loses one
\* (docs/PROJECT_OVERVIEW.md:35).
LogExact ==
    /\ total_logged = Cardinality(FirstCopies)
    /\ duplicate_count = Len(arrived) - total_logged
    /\ Len(event_log) = Smaller(total_logged, LogLimit)
    /\ Len(recent_events) = Smaller(total_logged, RecentLimit)
    /\ \E first \in Listings(FirstCopies) :
          /\ \A n \in DOMAIN event_log :
                event_log[n] = arrived[first[total_logged - Len(event_log) + n]]
          /\ \A n \in DOMAIN recent_events :
                recent_events[n] = EventId(arrived[first[total_logged + 1 - n]])

\* The events that came after one of the same host with a higher sequence number.
Overtaken ==
    {i \in FirstCopies : \E k \in FirstCopies :
        k < i /\ arrived[k].host = arrived[i].host /\ arrived[k].seq > arrived[i].seq}

\* An event counts as out of order exactly if an event of the same host with a
\* higher sequence number was logged before it since the last reset; copies
\* change neither this count nor the last sequence number.
OutOfOrderExact == out_of_order_count = Cardinality(Overtaken)

\* What the monitor promises the relay above it, with "acknowledged from below"
\* read as "logged".
Promise == INSTANCE Hop WITH
    Event <- Id, asked <- job, answer <- reply, acked <- ever_logged

\* The monitor acknowledges only what it has logged, whatever it is told to drop
\* and however it is reset or restarted while a response is being written.
SinkPromise == Promise!Spec

-----------------------------------------------------------------------------
(* A claim the code does not keep.                                         *)

\* The table shown as the latest state of each host (the heading of controller_ui.py:688) shows the
\* event with the highest sequence number logged for that host.
HostStateLatest ==
    \A h \in Host : host_state_table[h] # None =>
        host_state_table[h].seq = last_seq_by_host[h]

=============================================================================
