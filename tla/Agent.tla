-------------------------------- MODULE Agent --------------------------------
(***************************************************************************)
(* The agent (nw_sim/local_agent.py, class LocalAgent, with what it        *)
(* inherits from nw_sim/base.py).  Its one loop polls the host, decides    *)
(* whether the state is news, and sends an event over the primary route    *)
(* and, if that fails, over the backup route.  The loop is sequential, but *)
(* control commands are carried out whenever it awaits.  pc says where:    *)
(*   idle       the sleep between two polls, with the publish before it    *)
(*   fetching   the request to the host                      (line 498)    *)
(*   primary    the event is on its way to r1                (line 372)    *)
(*   backup     the event is on its way to r1b               (line 441)    *)
(* The host and the relays are free.                                       *)
(*                                                                         *)
(* Left out, because nothing but the display reads them: traffic captures, *)
(* latest_input_result, last_detected_fault, route_generation and the      *)
(* severity and timestamp of events.                                       *)
(***************************************************************************)
EXTENDS Routing

CONSTANTS
    HostState,      \* states the host reports: [cpu, memory, service, latency]
    Reason,         \* failure reasons relays give as evidence
    MaxSeq          \* bound on sequence numbers

ASSUME SeqAssumption == MaxSeq \in Nat
ASSUME HostStateAssumption ==
    HostState \subseteq [cpu : Nat, memory : Nat, service : {"UP", "DOWN"}, latency : Nat]

INSTANCE Faults

\* How an attempt to send fails.
SendFailure == {"timeout", "connection_error", "ack_missing"}

ASSUME NoneAssumption ==
    /\ None \notin HostState
    /\ None \notin Reason \cup FaultType \cup SendFailure \cup RouteIds
                    \cup {"suppressed_duplicate_fault", "idle", "HOST_STATE_UPDATE"}

\* _host_state_signature takes all four fields, so a state is its own signature.
HostStateSignature(s) == s

VARIABLES
    stopped, running,
    has_backup,                 \* whether a backup relay is configured
    seq_no, last_fault_signature, last_host_state_signature,
    latest_input_state, last_emitted_event,
    last_downstream_result,     \* its status
    last_routing_detail,
    pc,
    event,      \* routed_event of _deliver_event; stale: begun before the last reset
    acked,      \* history: the state in the last event acknowledged since the reset
    crossed     \* history: a delivery was under way when the agent was last reset

config == <<stopped, running, has_backup>>
status == <<last_downstream_result, last_routing_detail, last_emitted_event>>
signatures == <<last_fault_signature, last_host_state_signature>>
vars == <<config, seq_no, signatures, latest_input_state, status, pc, event, acked, crossed>>

-----------------------------------------------------------------------------
Routing(state, route, hop, suspect, reason) ==
    [state |-> state, route |-> route, hop |-> hop, suspect |-> suspect, reason |-> reason]

RouteStates == {"PRIMARY", "BYPASS_ACTIVE", "DEGRADED", "FAILED"}
RerouteReason == SendFailure \cup Reason \cup {None}

Routings ==
    [state : RouteStates, route : RouteIds, hop : (Nodes \X Nodes) \cup {None},
     suspect : Nodes \cup {None}, reason : RerouteReason]

\* default_event_routing
DefaultRouting == Routing("PRIMARY", "primary", None, None, None)

Detail(state, route, downstream, id, failed, reason) ==
    [state |-> state, route |-> route, downstream |-> downstream, event |-> id,
     failed |-> failed, reason |-> reason]

Details ==
    [state : RouteStates, route : RouteIds, downstream : {"r1", "r1b"},
     event : (1..MaxSeq) \cup {None}, failed : Nodes \cup {None}, reason : RerouteReason]

\* default_detail_routing
DefaultDetail == Detail("PRIMARY", "primary", "r1", None, None, None)

TraceEntries ==
    [from : Nodes, to : Nodes, route : RouteIds, reason : RerouteReason,
     result : SendFailure \cup {"acknowledged", "failed"}]

Event ==
    [id : 1..MaxSeq, type : FaultType \cup {"HOST_STATE_UPDATE"}, host_state : HostState,
     trace : Seq(TraceEntries), routing : Routings, stale : BOOLEAN]

ASSUME EventAssumption == None \notin Event

Init ==
    /\ stopped = FALSE
    /\ running = TRUE
    /\ has_backup \in BOOLEAN
    /\ seq_no = 0
    /\ last_fault_signature = None
    /\ last_host_state_signature = None
    /\ latest_input_state = None
    /\ last_emitted_event = None
    /\ last_downstream_result = None
    /\ last_routing_detail = DefaultDetail
    /\ pc = "idle"
    /\ event = None
    /\ acked = None
    /\ crossed = FALSE

-----------------------------------------------------------------------------
(* Polling the host (_run_loop)                                            *)

Poll ==
    /\ pc = "idle" /\ ~stopped /\ running
    /\ pc' = "fetching"
    /\ UNCHANGED <<config, seq_no, signatures, latest_input_state, status, event, acked, crossed>>

\* A timeout, a refused connection, a paused host or an answer without a state.
FetchFailed ==
    /\ pc = "fetching"
    /\ last_downstream_result' = "not_attempted"
    /\ pc' = "idle"
    /\ UNCHANGED <<config, seq_no, signatures, latest_input_state, last_routing_detail,
                   last_emitted_event, event, acked, crossed>>

\* A slip: a fault is news whenever any value of the state changed.
SelectBySignature(s) ==
    IF HostStateSignature(s) = last_host_state_signature THEN None
    ELSE IF DetectFault(s) # None THEN DetectFault(s) ELSE "HOST_STATE_UPDATE"

\* _select_event_type: the type of the event state s calls for, if any.
SelectEventType(s) ==
    LET fault == DetectFault(s)
    IN  IF fault # None
        THEN IF fault = last_fault_signature THEN None ELSE fault
        ELSE IF HostStateSignature(s) # last_host_state_signature THEN "HOST_STATE_UPDATE"
        ELSE None

\* _handle_no_selected_event, for a fault already reported.
SuppressFault(s) ==
    /\ pc = "fetching"
    /\ SelectEventType(s) = None /\ DetectFault(s) # None
    /\ latest_input_state' = s
    /\ last_downstream_result' = "suppressed_duplicate_fault"
    /\ pc' = "idle"
    /\ UNCHANGED <<config, seq_no, signatures, last_routing_detail, last_emitted_event,
                   event, acked, crossed>>

\* _handle_no_selected_event, for a state without a fault and already reported.
NoFault(s) ==
    /\ pc = "fetching"
    /\ SelectEventType(s) = None /\ DetectFault(s) = None
    /\ latest_input_state' = s
    /\ last_fault_signature' = None
    /\ last_emitted_event' = None
    /\ last_downstream_result' = "idle"
    /\ pc' = "idle"
    /\ UNCHANGED <<config, seq_no, last_host_state_signature, last_routing_detail,
                   event, acked, crossed>>

\* _build_event, then the request to r1.
Emit(s) ==
    /\ pc = "fetching"
    /\ SelectEventType(s) # None
    /\ seq_no < MaxSeq
    /\ latest_input_state' = s
    /\ seq_no' = seq_no + 1
    /\ event' = [id |-> seq_no + 1, type |-> SelectEventType(s), host_state |-> s,
                 trace |-> <<>>, routing |-> DefaultRouting, stale |-> FALSE]
    /\ pc' = "primary"
    /\ UNCHANGED <<config, signatures, status, acked, crossed>>

-----------------------------------------------------------------------------
(* Delivery (_deliver_event and the end of _run_loop)                      *)

\* A slip: what was reported is remembered by the type of the event.
FaultByType(e) == e.type

FaultReported(e) == DetectFault(e.host_state)

\* The signatures of the state an event reports, even if it reported it before a
\* reset.
Remember(e) ==
    /\ last_fault_signature' = FaultReported(e)
    /\ last_host_state_signature' = HostStateSignature(e.host_state)

\* After a failure the loop continues before it comes to that.
Forget(e) == UNCHANGED signatures

\* The event as it was delivered becomes the last one emitted.
Delivered(e) ==
    /\ last_emitted_event' = e
    /\ last_downstream_result' = "acknowledged"
    /\ Remember(e)
    /\ acked' = IF e.stale THEN acked ELSE e.host_state
    /\ event' = None
    /\ pc' = "idle"
    /\ UNCHANGED <<config, seq_no, latest_input_state, crossed>>

NotDelivered(e) ==
    /\ last_emitted_event' = e
    /\ last_downstream_result' = "send_failed"
    /\ Forget(e)
    /\ event' = None
    /\ pc' = "idle"
    /\ UNCHANGED <<config, seq_no, latest_input_state, acked, crossed>>

Traced(e, to, route, result, reason) ==
    [e EXCEPT !.trace = Append(@, TraceEntry("local-agent", to, route, result, reason))]

PrimaryAck ==
    /\ pc = "primary"
    /\ LET e == [Traced(event, "r1", "primary", "acknowledged", None)
                    EXCEPT !.routing = DefaultRouting]
       IN  /\ last_routing_detail' = Detail("PRIMARY", "primary", "r1", e.id, None, None)
           /\ Delivered(e)

\* _validated_downstream_error: evidence counts only if it names an edge of the
\* primary route and is about this event.
Valid(error, id) ==
    /\ error # None
    /\ RouteIdForEdge(error.hop[1], error.hop[2]) = "primary"
    /\ error.event = id

\* A slip: the evidence of the relay does not go into the trace.
WithoutEvidence(e, error) == e

WithEvidence(e, error) ==
    [e EXCEPT !.trace = Append(@,
        TraceEntry(error.hop[1], error.hop[2], "primary", "failed", error.reason))]

\* The primary route failed: locate the failure, then bypass it or give up.
PrimaryFails(reason, error) ==
    /\ pc = "primary"
    /\ LET valid == Valid(error, event.id)
           hop   == IF valid THEN error.hop ELSE <<"local-agent", "r1">>
           why   == IF valid THEN error.reason ELSE reason
           sent  == Traced(event, "r1", "primary", reason, reason)
           e     == IF valid THEN WithEvidence(sent, error) ELSE sent
           bypass == Routing("BYPASS_ACTIVE", "backup", hop, hop[2], why)
           fail   == Routing("FAILED", "primary", hop, hop[2], why)
       IN  \/ /\ has_backup
              /\ event' = [e EXCEPT !.routing = bypass]
              /\ last_routing_detail' =
                    Detail("BYPASS_ACTIVE", "backup", "r1b", e.id, hop[2], why)
              /\ pc' = "backup"
              /\ UNCHANGED <<config, seq_no, signatures, latest_input_state,
                             last_downstream_result, last_emitted_event, acked, crossed>>
           \/ /\ ~has_backup
              /\ last_routing_detail' =
                    Detail("FAILED", "primary", "r1", e.id, hop[2], why)
              /\ NotDelivered([e EXCEPT !.routing = fail])

BackupAck ==
    /\ pc = "backup"
    /\ Delivered(Traced(event, "r1b", "backup", "acknowledged", None))
    /\ UNCHANGED last_routing_detail

\* A slip: the status gives the reason of the second failure.
BackupDetailOfLast(reason) == Detail("FAILED", "backup", "r1b", event.id, "r1b", reason)

\* _set_routing_detail when both routes failed, the backup route for the given reason.
BackupDetail(reason) ==
    Detail("FAILED", "backup", "r1b", event.id, "r1b", event.trace[1].reason)

\* The first failure gives the reroute reason, whatever the second one was.
BackupFails(reason) ==
    /\ pc = "backup"
    /\ LET primary_reason == event.trace[1].reason
           fail == Routing("FAILED", "backup", <<"local-agent", "r1b">>, "r1b", primary_reason)
       IN  /\ last_routing_detail' = BackupDetail(reason)
           /\ NotDelivered([Traced(event, "r1b", "backup", reason, reason)
                               EXCEPT !.routing = fail])

-----------------------------------------------------------------------------
(* Control commands and the life of the process                            *)

SetRunning(value) ==
    /\ ~stopped
    /\ running' = value
    /\ UNCHANGED <<stopped, has_backup, seq_no, signatures, latest_input_state, status,
                   pc, event, acked, crossed>>

ResetState ==
    /\ seq_no' = 0
    /\ last_fault_signature' = None
    /\ last_host_state_signature' = None
    /\ latest_input_state' = None
    /\ last_emitted_event' = None
    /\ last_downstream_result' = None
    /\ last_routing_detail' = DefaultDetail
    /\ acked' = None

\* reset_state leaves the loop, and a delivery under way in it, as they are.
Reset ==
    /\ ~stopped
    /\ ResetState
    /\ event' = IF event = None THEN None ELSE [event EXCEPT !.stale = TRUE]
    /\ crossed' = (event # None)
    /\ UNCHANGED <<config, pc>>

Shutdown ==
    /\ ~stopped
    /\ stopped' = TRUE
    /\ running' = TRUE
    /\ ResetState
    /\ pc' = "idle"
    /\ event' = None
    /\ crossed' = FALSE
    /\ UNCHANGED has_backup

Restart ==
    /\ stopped
    /\ stopped' = FALSE
    /\ UNCHANGED <<running, has_backup, seq_no, signatures, latest_input_state, status,
                   pc, event, acked, crossed>>

-----------------------------------------------------------------------------
\* What r1 may quote in an ERROR: its own hop, for this event or, because it
\* quotes a record its connections share, for another one (0 is no event's number).
EvidenceFromR1 ==
    [hop : {<<"r1", "r2">>}, event : {event.id, 0}, reason : Reason]

Loop ==
    \/ Poll \/ FetchFailed
    \/ \E s \in HostState : SuppressFault(s) \/ NoFault(s) \/ Emit(s)
    \/ PrimaryAck \/ BackupAck
    \/ /\ pc = "primary"
       /\ \/ \E reason \in SendFailure : PrimaryFails(reason, None)
          \/ \E error \in EvidenceFromR1 : PrimaryFails("ack_missing", error)
    \/ \E reason \in SendFailure : BackupFails(reason)

Next ==
    \/ Loop
    \/ \E value \in BOOLEAN : SetRunning(value)
    \/ Reset \/ Shutdown \/ Restart

Spec == Init /\ [][Next]_vars

-----------------------------------------------------------------------------
TypeOK ==
    /\ stopped \in BOOLEAN /\ running \in BOOLEAN /\ has_backup \in BOOLEAN
    /\ seq_no \in 0..MaxSeq
    /\ last_fault_signature \in FaultType \cup {None}
    /\ last_host_state_signature \in HostState \cup {None}
    /\ latest_input_state \in HostState \cup {None}
    /\ last_downstream_result \in {"not_attempted", "suppressed_duplicate_fault", "idle",
                                   "acknowledged", "send_failed", None}
    /\ last_routing_detail \in Details
    /\ event \in Event \cup {None} /\ last_emitted_event \in Event \cup {None}
    /\ pc \in {"idle", "fetching", "primary", "backup"}
    /\ event # None <=> pc \in {"primary", "backup"}
    /\ acked \in HostState \cup {None}
    /\ crossed \in BOOLEAN

\* What the two backup relays add to the trace on the way to the monitor.
AtMonitor(trace) ==
    trace \o << TraceEntry("r1b", "r2b", "backup", "forwarded", None),
                TraceEntry("r2b", "monitor", "backup", "forwarded", None) >>

\* An event sent over the backup route says twice where the primary route failed,
\* in its routing and in its trace; the monitor, which works it out from the trace,
\* comes to the hop, the suspect and the reason the agent wrote into the routing,
\* and every entry names an edge of the route it claims (lines 386-406, 425-432).
LocalisationAgrees ==
    pc = "backup" =>
        /\ FaultLocalization(AtMonitor(event.trace)) =
              [hop |-> event.routing.hop, suspect |-> event.routing.suspect,
               reason |-> event.routing.reason]
        /\ \A n \in DOMAIN event.trace :
              AllowedEntry(event.trace[n].from, event.trace[n].to, event.trace[n].route)

\* The agent writes each outcome twice, into the event and into its status, in two calls
\* and on both sides of the await of the backup route: the status shows the event on its
\* way over that route, and else the last one emitted, with its route, outcome, suspect
\* and reason, unless a reset crossed a delivery (lines 377-483).
DetailAgrees ==
    LET e == IF pc = "backup" THEN event ELSE last_emitted_event
        downstream == IF e.routing.route = "backup" THEN "r1b" ELSE "r1"
    IN  e # None /\ ~crossed =>
            last_routing_detail = Detail(e.routing.state, e.routing.route, downstream,
                                         e.id, e.routing.suspect, e.routing.reason)

Silent == last_downstream_result \in {"suppressed_duplicate_fault", "idle"}

\* The event acknowledged last, since the reset, reported state s: the same fault,
\* and without a fault the same values.
Reported(s) ==
    /\ acked # None
    /\ DetectFault(acked) = DetectFault(s)
    /\ DetectFault(s) = None => acked = s

\* The agent keeps silent only about a state it has reported: failed deliveries,
\* pauses and polls that fail never make it take a fault, or the end of one, for
\* known (docs/PROJECT_OVERVIEW.md:22).
SilentOnlyIfReported ==
    pc \in {"idle", "fetching"} /\ Silent /\ ~crossed => Reported(latest_input_state)

\* A delivery is acknowledged.
Acknowledges == event # None /\ event' = None /\ last_downstream_result' = "acknowledged"

\* Between two resets the agent never has the same fault acknowledged twice in a
\* row: a fault that lasts is reported once, whether its metrics vary or not.
NoRepeatedFault ==
    [][Acknowledges /\ acked # None /\ ~crossed =>
            \/ DetectFault(event.host_state) = None
            \/ DetectFault(event.host_state) # DetectFault(acked)]_vars

-----------------------------------------------------------------------------
(* A claim the code does not keep.                                         *)

\* After a reset the agent starts afresh: it keeps silent only about what it has
\* reported since, also when the reset came in the middle of a delivery.
SilentAfterReset ==
    pc \in {"idle", "fetching"} /\ Silent => Reported(latest_input_state)

=============================================================================
