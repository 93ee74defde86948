-------------------------------- MODULE Relay --------------------------------
(***************************************************************************)
(* One relay process (nw_sim/relay.py, class RelayNode, with the parts of  *)
(* nw_sim/base.py it inherits).                                            *)
(*                                                                         *)
(* Every upstream connection is served by a coroutine of its own, a Task   *)
(* here; tasks interleave only where the code awaits.  pc[t] names the     *)
(* await at which task t is suspended, so one action is the code between   *)
(* two awaits:                                                             *)
(*   idle         no request on this connection                            *)
(*   receiving    publish of the receipt                     (line 238)    *)
(*   sleeping     processing delay                           (line 381)    *)
(*   announcing   publish before a send                      (399, 414)    *)
(*   waiting      send_request to the downstream node        (line 417)    *)
(*   backoff      publish after a failed attempt             (479,503,527) *)
(*   acked        publish of the downstream ACK              (line 451)    *)
(*   accepted     publish of a completed delivery            (line 536)    *)
(*   failed       publish of a failed delivery               (line 553)    *)
(*   interrupted  publish of an interrupted delivery         (line 373)    *)
(*   replying     the response is being written upstream                   *)
(* The upstream and the downstream node are free: any valid event may      *)
(* arrive at any time, also twice and also while it is being delivered,    *)
(* and every attempt may end in any way the network allows.                *)
(*                                                                         *)
(* last_downstream_result is reduced to its downstream_error, the one      *)
(* field the code reads back, and None where it has none.                  *)
(*                                                                         *)
(* Left out, because nothing but the display reads them: the traffic       *)
(* captures, last_forwarded_result, last_received_event, the recent ids,   *)
(* the notes and the fields of a pending detail.                           *)
(***************************************************************************)
EXTENDS Routing, FiniteSets

CONSTANTS
    Task,           \* upstream connections open at a time
    Event,          \* event ids
    Reason,         \* reasons of ERROR responses from the downstream node
    NodeId,         \* which relay this is
    MaxRetry,       \* config.MAX_RETRY_COUNT
    MaxReset,       \* bound on resets in the life of a process
    MaxReceived     \* bound on events received in the life of a process

ASSUME MaxRetryAssumption == MaxRetry \in Nat \ {0}
ASSUME BoundAssumption == MaxReset \in Nat /\ MaxReceived \in Nat
ASSUME NodeIdAssumption == NodeId \in RelayNodes
ASSUME NoneAssumption ==
    None \notin Task \cup Event \cup Reason \cup Nat \cup RouteIds \cup {"ACK", "ERROR"}

VARIABLES
    stopped, running, reset_generation, processing_delay,
    received_id_cache, pending_ack_table, pending_ack_detail,
    last_downstream_result,
    duplicate_dropped, retry_total, delivery_failures,
    pc, job, reply,
    received,           \* history: events received by this process
    downstream_acked    \* history: ids whose ACK the relay read and took

process == <<stopped, running, reset_generation, processing_delay>>
pending == <<pending_ack_table, pending_ack_detail>>
history == <<received, downstream_acked>>
vars == <<process, received_id_cache, pending, last_downstream_result,
          duplicate_dropped, retry_total, delivery_failures,
          pc, job, reply, history>>

-----------------------------------------------------------------------------
(* What a relay is by its name.                                            *)

DownstreamTarget ==
    IF NodeId \in {"r2", "r2b"} THEN "monitor"
    ELSE IF NodeId = "r1b" THEN "r2b"
    ELSE "r2"

RouteId == IF NodeId \in {"r1b", "r2b"} THEN "backup" ELSE "primary"

\* An event without routing, or without an active route, is taken by any relay.
RouteMatches(route) == route \in {None, RouteId}

-----------------------------------------------------------------------------
(* Records.                                                                *)

GenericReason == {"timeout", "connection_error"}

\* The locals of handle_network_message and _deliver_with_retry.
NoJob == [event |-> None, generation |-> 0, attempt |-> 0,
          preferred |-> None, generic |-> None]

\* _make_downstream_error
DownstreamError(e, reason) ==
    [hop |-> <<NodeId, DownstreamTarget>>, event |-> e, reason |-> reason]

\* preferred_downstream_error or generic_downstream_error
Evidence(j) ==
    IF j.preferred # None THEN DownstreamError(j.event, j.preferred)
    ELSE IF j.generic # None THEN DownstreamError(j.event, j.generic)
    ELSE None

\* make_ack and the ERROR responses.
Ack(e) == [type |-> "ACK", reason |-> None, event |-> e, error |-> None]
Error(reason, e, error) ==
    [type |-> "ERROR", reason |-> reason, event |-> e, error |-> error]

EvidenceRecord ==
    [hop : {<<NodeId, DownstreamTarget>>}, event : Event, reason : Reason \cup GenericReason]

ReplyRecord ==
    [type : {"ACK", "ERROR"},
     reason : {None, "paused", "invalid_event", "route_mismatch", "pending", "delivery_failed"},
     event : Event \cup {None}, error : EvidenceRecord \cup {None}]

JobRecord ==
    [event : Event \cup {None}, generation : Nat, attempt : 0..MaxRetry,
     preferred : Reason \cup {None}, generic : GenericReason \cup {None}]

\* Python's None is none of these dictionaries.
ASSUME RecordAssumption == None \notin EvidenceRecord /\ None \notin ReplyRecord

Delivering == {"sleeping", "announcing", "waiting", "backoff", "acked",
               "accepted", "failed", "interrupted"}
PC == {"idle", "receiving", "replying"} \cup Delivering

\* Task t began its delivery before the last reset.
Stale(t) == job[t].generation # reset_generation

Goto(t, label) == pc' = [pc EXCEPT ![t] = label]

-----------------------------------------------------------------------------
Init ==
    /\ stopped = FALSE
    /\ running = TRUE
    /\ reset_generation = 0
    /\ processing_delay = TRUE
    /\ received_id_cache = {}
    /\ pending_ack_table = [e \in Event |-> None]
    /\ pending_ack_detail = [e \in Event |-> None]
    /\ last_downstream_result = None
    /\ duplicate_dropped = 0
    /\ retry_total = 0
    /\ delivery_failures = 0
    /\ pc = [t \in Task |-> "idle"]
    /\ job = [t \in Task |-> NoJob]
    /\ reply = [t \in Task |-> None]
    /\ received = 0
    /\ downstream_acked = {}

-----------------------------------------------------------------------------
(* A request arrives (handle_network_message, up to its first await).      *)

Respond(t, response) ==
    /\ Goto(t, "replying")
    /\ reply' = [reply EXCEPT ![t] = response]

RejectPaused(t) ==
    /\ pc[t] = "idle" /\ ~stopped /\ ~running
    /\ Respond(t, Error("paused", None, None))
    /\ UNCHANGED <<process, received_id_cache, pending, last_downstream_result,
                   duplicate_dropped, retry_total, delivery_failures, job, history>>

Reject(t, reason) ==
    /\ pc[t] = "idle" /\ ~stopped /\ running
    /\ last_downstream_result' = None
    /\ Respond(t, Error(reason, None, None))
    /\ UNCHANGED <<process, received_id_cache, pending,
                   duplicate_dropped, retry_total, delivery_failures, job, history>>

RejectInvalid(t) == Reject(t, "invalid_event")

RejectRoute(t, route) == ~RouteMatches(route) /\ Reject(t, "route_mismatch")

Receive(t, e, route) ==
    /\ pc[t] = "idle" /\ ~stopped /\ running
    /\ RouteMatches(route)
    /\ received < MaxReceived
    /\ received' = received + 1
    /\ job' = [job EXCEPT ![t] = [NoJob EXCEPT !.event = e]]
    /\ Goto(t, "receiving")
    /\ UNCHANGED <<process, received_id_cache, pending, last_downstream_result,
                   duplicate_dropped, retry_total, delivery_failures, reply,
                   downstream_acked>>

-----------------------------------------------------------------------------
(* The receipt is published: suppress a duplicate or begin a delivery.     *)

\* A slip: an id that is only pending is taken for delivered.
KnownOrPending(t) ==
    job[t].event \in received_id_cache \/ pending_ack_table[job[t].event] # None

\* A slip: nothing is known, the cache is not looked into.
NothingKnown(t) == FALSE

Known(t) == job[t].event \in received_id_cache

\* A slip: the table of pending ids is not looked into.
NothingPending(t) == FALSE

IsPending(t) == pending_ack_table[job[t].event] # None

SuppressDuplicate(t, response) ==
    /\ duplicate_dropped' = duplicate_dropped + 1
    /\ last_downstream_result' = None
    /\ Respond(t, response)
    /\ UNCHANGED <<process, received_id_cache, pending, retry_total,
                   delivery_failures, job, history>>

ReplayAck(t) ==
    /\ pc[t] = "receiving"
    /\ Known(t)
    /\ SuppressDuplicate(t, Ack(job[t].event))

ReportPending(t) ==
    /\ pc[t] = "receiving"
    /\ ~Known(t) /\ IsPending(t)
    /\ SuppressDuplicate(t, Error("pending", job[t].event, None))

\* The send of the next attempt is published.
Announce(t, j) ==
    /\ job' = [job EXCEPT ![t] = [j EXCEPT !.attempt = j.attempt + 1]]
    /\ retry_total' = IF j.attempt >= 1 THEN retry_total + 1 ELSE retry_total
    /\ Goto(t, "announcing")

\* The top of the attempt loop; a delay that is not positive is no await.
EnterAttempt(t, j) ==
    \/ /\ processing_delay
       /\ job' = [job EXCEPT ![t] = j]
       /\ Goto(t, "sleeping")
       /\ UNCHANGED retry_total
    \/ /\ ~processing_delay
       /\ Announce(t, j)

StartDelivery(t) ==
    /\ pc[t] = "receiving"
    /\ ~Known(t) /\ ~IsPending(t)
    /\ pending_ack_table' = [pending_ack_table EXCEPT ![job[t].event] = reset_generation]
    /\ pending_ack_detail' = [pending_ack_detail EXCEPT ![job[t].event] = t]
    /\ EnterAttempt(t, [job[t] EXCEPT !.generation = reset_generation])
    /\ UNCHANGED <<process, received_id_cache, last_downstream_result,
                   duplicate_dropped, delivery_failures, reply, history>>

-----------------------------------------------------------------------------
(* The attempt loop of _deliver_with_retry.                                *)

\* mark_reset_interrupted, at each of the three places that test the generation.
Interrupt(t) ==
    /\ pc[t] \in {"sleeping", "waiting", "backoff"}
    /\ Stale(t)
    /\ last_downstream_result' = None
    /\ Goto(t, "interrupted")
    /\ UNCHANGED <<process, received_id_cache, pending, duplicate_dropped,
                   retry_total, delivery_failures, job, reply, history>>

\* A slip: a paused relay holds back the deliveries it has begun.
SleepOverWhileRunning(t) == pc[t] = "sleeping" /\ ~Stale(t) /\ running

SleepOver(t) == pc[t] = "sleeping" /\ ~Stale(t)

Wake(t) ==
    /\ SleepOver(t)
    /\ Announce(t, job[t])
    /\ UNCHANGED <<process, received_id_cache, pending, last_downstream_result,
                   duplicate_dropped, delivery_failures, reply, history>>

NextAttempt(t) ==
    /\ pc[t] = "backoff"
    /\ ~Stale(t)
    /\ EnterAttempt(t, job[t])
    /\ UNCHANGED <<process, received_id_cache, pending, last_downstream_result,
                   duplicate_dropped, delivery_failures, reply, history>>

\* The generation is not tested again between the publish and the send.
Send(t) ==
    /\ pc[t] = "announcing"
    /\ Goto(t, "waiting")
    /\ UNCHANGED <<process, received_id_cache, pending, last_downstream_result,
                   duplicate_dropped, retry_total, delivery_failures, job, reply,
                   history>>

AckResponse(t) ==
    /\ pc[t] = "waiting"
    /\ ~Stale(t)
    /\ downstream_acked' = downstream_acked \cup {job[t].event}
    /\ last_downstream_result' = None
    /\ Goto(t, "acked")
    /\ UNCHANGED <<process, received_id_cache, pending, duplicate_dropped,
                   retry_total, delivery_failures, job, reply, received>>

\* A slip: one attempt more than MAX_RETRY_COUNT.
PastLastAttempt(j) == j.attempt > MaxRetry

LastAttempt(j) == j.attempt = MaxRetry

\* An attempt failed: publish and try again, or, after the last one, give up.
\* Nothing awaits between the last failure and the end of the delivery.
RetryOrFail(t, j, error) ==
    /\ job' = [job EXCEPT ![t] = j]
    /\ \/ /\ ~LastAttempt(j)
          /\ last_downstream_result' = error
          /\ Goto(t, "backoff")
          /\ UNCHANGED delivery_failures
       \/ /\ LastAttempt(j)
          /\ last_downstream_result' = Evidence(j)
          /\ delivery_failures' = delivery_failures + 1
          /\ Goto(t, "failed")
    /\ UNCHANGED <<process, received_id_cache, pending, duplicate_dropped,
                   retry_total, reply, history>>

\* The downstream node answered ERROR.
ErrorResponse(t, reason) ==
    /\ pc[t] = "waiting"
    /\ ~Stale(t)
    /\ RetryOrFail(t, [job[t] EXCEPT !.preferred = reason], last_downstream_result)

\* The connection was closed without a response.
NoResponse(t) ==
    /\ pc[t] = "waiting"
    /\ ~Stale(t)
    /\ RetryOrFail(t, job[t], last_downstream_result)

\* TimeoutError or OSError: these two paths do not test the generation.
AttemptRaised(t, reason) ==
    /\ pc[t] = "waiting"
    /\ RetryOrFail(t, [job[t] EXCEPT !.generic = reason], None)

Timeout(t) == AttemptRaised(t, "timeout")

ConnectionFailed(t) == AttemptRaised(t, "connection_error")

\* The ACK is published: remember the id.
Commit(t) ==
    /\ pc[t] = "acked"
    /\ received_id_cache' = received_id_cache \cup {job[t].event}
    /\ Goto(t, "accepted")
    /\ UNCHANGED <<process, pending, last_downstream_result, duplicate_dropped,
                   retry_total, delivery_failures, job, reply, history>>

\* A slip: the detail shown in the status is left behind.
PopTableOnly(t) ==
    /\ pending_ack_table' = [pending_ack_table EXCEPT ![job[t].event] = None]
    /\ UNCHANGED pending_ack_detail

\* The finally clause removes the entries by id, whoever made them.
PopPending(t) ==
    /\ pending_ack_table' = [pending_ack_table EXCEPT ![job[t].event] = None]
    /\ pending_ack_detail' = [pending_ack_detail EXCEPT ![job[t].event] = None]

\* Then the caller answers; a failure quotes last_downstream_result as it is now.
Finish(t) ==
    /\ pc[t] \in {"accepted", "failed", "interrupted"}
    /\ PopPending(t)
    /\ Respond(t, IF pc[t] = "accepted" THEN Ack(job[t].event)
                  ELSE Error("delivery_failed", job[t].event, last_downstream_result))
    /\ UNCHANGED <<process, received_id_cache, last_downstream_result,
                   duplicate_dropped, retry_total, delivery_failures, job, history>>

Reply(t) ==
    /\ pc[t] = "replying"
    /\ Goto(t, "idle")
    /\ job' = [job EXCEPT ![t] = NoJob]
    /\ reply' = [reply EXCEPT ![t] = None]
    /\ UNCHANGED <<process, received_id_cache, pending, last_downstream_result,
                   duplicate_dropped, retry_total, delivery_failures, history>>

-----------------------------------------------------------------------------
(* Control commands (on_control, reset_state) and the life of the process. *)

SetRunning(value) ==
    /\ ~stopped
    /\ running' = value
    /\ UNCHANGED <<stopped, reset_generation, processing_delay, received_id_cache,
                   pending, last_downstream_result, duplicate_dropped, retry_total,
                   delivery_failures, pc, job, reply, history>>

\* set_delay; only whether the delay is positive matters.
SetDelay(value) ==
    /\ ~stopped
    /\ processing_delay' = value
    /\ UNCHANGED <<stopped, running, reset_generation, received_id_cache,
                   pending, last_downstream_result, duplicate_dropped, retry_total,
                   delivery_failures, pc, job, reply, history>>

Reset ==
    /\ ~stopped
    /\ reset_generation < MaxReset
    /\ reset_generation' = reset_generation + 1
    /\ pending_ack_table' = [e \in Event |-> None]
    /\ pending_ack_detail' = [e \in Event |-> None]
    /\ received_id_cache' = {}
    /\ last_downstream_result' = None
    /\ duplicate_dropped' = 0
    /\ retry_total' = 0
    /\ delivery_failures' = 0
    /\ processing_delay' = TRUE
    /\ UNCHANGED <<stopped, running, pc, job, reply, history>>

\* The process ends, by a shutdown command or a kill, and drops its connections;
\* everything it held is gone, so its variables already have their fresh values.
Shutdown ==
    /\ ~stopped
    /\ stopped' = TRUE
    /\ running' = TRUE
    /\ reset_generation' = 0
    /\ processing_delay' = TRUE
    /\ received_id_cache' = {}
    /\ pending_ack_table' = [e \in Event |-> None]
    /\ pending_ack_detail' = [e \in Event |-> None]
    /\ last_downstream_result' = None
    /\ duplicate_dropped' = 0
    /\ retry_total' = 0
    /\ delivery_failures' = 0
    /\ pc' = [t \in Task |-> "idle"]
    /\ job' = [t \in Task |-> NoJob]
    /\ reply' = [t \in Task |-> None]
    /\ received' = 0
    /\ UNCHANGED downstream_acked

\* A new process takes the port.
Restart ==
    /\ stopped
    /\ stopped' = FALSE
    /\ UNCHANGED <<running, reset_generation, processing_delay, received_id_cache,
                   pending, last_downstream_result, duplicate_dropped, retry_total,
                   delivery_failures, pc, job, reply, history>>

-----------------------------------------------------------------------------
Arrive(t) ==
    \/ RejectPaused(t)
    \/ RejectInvalid(t)
    \/ \E route \in RouteIds : RejectRoute(t, route)
    \/ \E e \in Event, route \in RouteIds \cup {None} : Receive(t, e, route)

Proceed(t) ==
    \/ ReplayAck(t) \/ ReportPending(t) \/ StartDelivery(t)
    \/ Interrupt(t) \/ Wake(t) \/ NextAttempt(t) \/ Send(t)
    \/ AckResponse(t) \/ NoResponse(t) \/ Timeout(t) \/ ConnectionFailed(t)
    \/ \E reason \in Reason : ErrorResponse(t, reason)
    \/ Commit(t) \/ Finish(t) \/ Reply(t)

Control ==
    \/ \E value \in BOOLEAN : SetRunning(value) \/ SetDelay(value)
    \/ Reset \/ Shutdown \/ Restart

Next == Control \/ \E t \in Task : Arrive(t) \/ Proceed(t)

Spec == Init /\ [][Next]_vars

\* Every await of a handler ends: sleeps end, a publish is bounded by its 1 s
\* timeout and send_request by the downstream response timeout.
FairSpec == Spec /\ \A t \in Task : WF_vars(Proceed(t))

-----------------------------------------------------------------------------
\* Every variable has its type, a suspended handler has an event to work on,
\* and the attempt loop never exceeds MAX_RETRY_COUNT sends.
TypeOK ==
    /\ stopped \in BOOLEAN /\ running \in BOOLEAN /\ processing_delay \in BOOLEAN
    /\ reset_generation \in Nat
    /\ received_id_cache \subseteq Event
    /\ pending_ack_table \in [Event -> Nat \cup {None}]
    /\ pending_ack_detail \in [Event -> Task \cup {None}]
    /\ last_downstream_result \in EvidenceRecord \cup {None}
    /\ duplicate_dropped \in Nat /\ retry_total \in Nat /\ delivery_failures \in Nat
    /\ pc \in [Task -> PC]
    /\ job \in [Task -> JobRecord]
    /\ reply \in [Task -> ReplyRecord \cup {None}]
    /\ received \in Nat
    /\ downstream_acked \subseteq Event
    /\ \A t \in Task :
          /\ pc[t] = "idle" => job[t] = NoJob
          /\ pc[t] \in Delivering \cup {"receiving"} => job[t].event \in Event
          /\ pc[t] \in {"receiving", "sleeping", "backoff"} => job[t].attempt < MaxRetry
          /\ reply[t] # None <=> pc[t] = "replying"

\* An event is acknowledged upstream, or remembered as delivered, only if the
\* downstream node acknowledged it: neither a duplicate, a timeout racing an
\* answer, a reset in the middle of a delivery nor a restart makes the relay
\* vouch for an event it did not get through (make_ack at lines 251 and 300).
AckSound ==
    /\ received_id_cache \subseteq downstream_acked
    /\ \A t \in Task :
          /\ pc[t] \in {"acked", "accepted"} => job[t].event \in downstream_acked
          /\ pc[t] = "replying" /\ reply[t].type = "ACK" => reply[t].event \in downstream_acked

\* The pending tables never hold an entry that nothing will remove: both have
\* the same ids, and each entry belongs to a delivery of that id which is still
\* running and began in the present generation.  An entry without an owner would
\* answer "pending" for its id for ever (lines 263 and 555).
PendingOwned ==
    \A e \in Event :
        IF pending_ack_table[e] = None THEN pending_ack_detail[e] = None
        ELSE /\ pending_ack_table[e] = reset_generation
             /\ \E t \in Task :
                   /\ pending_ack_detail[e] = t
                   /\ pc[t] \in Delivering
                   /\ job[t].event = e
                   /\ job[t].generation = reset_generation

\* As long as the relay was not reset, copies of an event that arrive while it
\* is being delivered, or afterwards, are never sent on: at most one delivery of
\* an id is under way and none of an id already delivered (lines 239-263).
NoConcurrentDelivery ==
    reset_generation = 0 =>
        \A t \in Task : pc[t] \in Delivering =>
            /\ job[t].event \in received_id_cache => pc[t] = "accepted"
            /\ \A u \in Task \ {t} : pc[u] \in Delivering => job[u].event # job[t].event

\* As long as the relay was not reset, every event it received is accounted for
\* exactly once: it is still in progress, or it is one of the duplicates dropped,
\* of the delivery failures or of the ids delivered.
Accounting ==
    reset_generation = 0 =>
        received = duplicate_dropped + delivery_failures + Cardinality(received_id_cache)
                   + Cardinality({t \in Task :
                        pc[t] \in {"receiving", "sleeping", "announcing", "waiting",
                                   "backoff", "acked", "interrupted"}})

\* Every request is answered, or its connection ends with the process, whatever
\* is paused, reset or lost meanwhile.
Answered == \A t \in Task : pc[t] # "idle" ~> pc[t] = "idle"

\* What one hop promises its upstream neighbour, whatever happens inside it.
Promise == INSTANCE Hop WITH
    asked  <- [t \in Task |-> job[t].event],
    answer <- [t \in Task |-> IF reply[t] = None THEN None ELSE reply[t].type],
    acked  <- downstream_acked

\* The relay implements the promise of a hop.
HopPromise == Promise!Spec

-----------------------------------------------------------------------------
(* Claims the code does not keep.                                          *)

\* After a reset the relay knows only what it learnt since ("reset" leaves the
\* state and the queues empty): a delivery begun before the reset adds nothing
\* to the ids known as delivered.
NoStaleCommit ==
    [][\A t \in Task : Stale(t) /\ job[t].event \notin received_id_cache /\ pc[t] = "acked"
            => job[t].event \notin received_id_cache' ]_vars

\* The answer to a failed delivery carries the evidence of that delivery.
EvidencePreserved ==
    [][\A t \in Task : pc[t] = "failed" /\ pc'[t] = "replying"
            => reply'[t].error = Evidence(job[t])]_vars

=============================================================================
