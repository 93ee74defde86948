----------------------------- MODULE RelayProof -----------------------------
(***************************************************************************)
(* Theorems about one relay, for every set of connections and of events    *)
(* and every number of retries, of resets and of events received.          *)
(***************************************************************************)
EXTENDS Relay, FiniteSetTheorems, TLAPS

USE DEF process, pending, history, Delivering, PC, RouteIds,
        Known, IsPending, SleepOver, LastAttempt, PopPending

-----------------------------------------------------------------------------
(* The relay's place in the network.                                       *)

\* A relay sends only over an edge of the route it belongs to, so
\* make_route_trace_entry never raises in _event_with_relay_trace.
THEOREM RelayEdgeAllowed ==
    AllowedEntry(NodeId, DownstreamTarget, RouteId)
  <1>1. CASE NodeId = "r1"
    BY <1>1, NoneAssumption DEF AllowedEntry, RouteIdForEdge, DownstreamTarget, RouteId, PrimaryEdges
  <1>2. CASE NodeId = "r2"
    BY <1>2, NoneAssumption DEF AllowedEntry, RouteIdForEdge, DownstreamTarget, RouteId, PrimaryEdges
  <1>3. CASE NodeId = "r1b"
    BY <1>3, NoneAssumption DEF AllowedEntry, RouteIdForEdge, DownstreamTarget, RouteId, PrimaryEdges, BackupEdges
  <1>4. CASE NodeId = "r2b"
    BY <1>4, NoneAssumption DEF AllowedEntry, RouteIdForEdge, DownstreamTarget, RouteId, PrimaryEdges, BackupEdges
  <1> QED BY <1>1, <1>2, <1>3, <1>4, NodeIdAssumption DEF RelayNodes

\* What _make_downstream_error builds from the locals of a delivery is a
\* well-formed record about the event of that delivery, or None.
LEMMA EvidenceType ==
    ASSUME NEW j \in JobRecord, j.event \in Event
    PROVE  Evidence(j) \in EvidenceRecord \cup {None}
  BY DEF JobRecord, Evidence, EvidenceRecord, DownstreamError

-----------------------------------------------------------------------------
(* Type correctness.                                                       *)

LEMMA NoJobType == NoJob \in JobRecord /\ NoJob.event = None /\ NoJob.attempt = 0
  BY MaxRetryAssumption DEF JobRecord, NoJob

LEMMA TypeInit == Init => TypeOK
  <1> SUFFICES ASSUME Init PROVE TypeOK
    OBVIOUS
  <1>1. \A t \in Task : pc[t] = "idle" /\ job[t] = NoJob /\ reply[t] = None
    BY DEF Init
  <1>2. pc \in [Task -> PC] /\ job \in [Task -> JobRecord]
    BY NoJobType DEF Init
  <1>3. reply \in [Task -> ReplyRecord \cup {None}]
    BY DEF Init
  <1> QED BY <1>1, <1>2, <1>3 DEF Init, TypeOK

\* Every response the relay writes is one of ReplyRecord.
LEMMA ReplyType ==
    ASSUME NEW e \in Event \cup {None}, NEW error \in EvidenceRecord \cup {None},
           NEW reason \in {"paused", "invalid_event", "route_mismatch", "pending",
                           "delivery_failed"}
    PROVE  /\ Ack(e) \in ReplyRecord /\ Ack(e) # None
           /\ Error(reason, e, error) \in ReplyRecord /\ Error(reason, e, error) # None
  <1>1. Ack(e) \in ReplyRecord /\ Error(reason, e, error) \in ReplyRecord
    BY DEF Ack, Error, ReplyRecord
  <1> QED BY <1>1, RecordAssumption

\* The next attempt is entered only by a delivery with an attempt left.
LEMMA EnterAttemptType ==
    ASSUME TypeOK, NEW t \in Task, NEW j \in JobRecord,
           j.event \in Event, j.attempt < MaxRetry,
           EnterAttempt(t, j),
           reply[t] = None, UNCHANGED reply
    PROVE  /\ pc' \in [Task -> PC]
           /\ job' \in [Task -> JobRecord]
           /\ retry_total' \in Nat
           /\ \A u \in Task :
                 /\ pc'[u] = "idle" => job'[u] = NoJob
                 /\ pc'[u] \in Delivering \cup {"receiving"} => job'[u].event \in Event
                 /\ pc'[u] \in {"receiving", "sleeping", "backoff"} => job'[u].attempt < MaxRetry
                 /\ reply'[u] # None <=> pc'[u] = "replying"
  <1>1. CASE processing_delay /\ UNCHANGED retry_total /\ Goto(t, "sleeping")
             /\ job' = [job EXCEPT ![t] = j]
    BY <1>1 DEF TypeOK, Goto
  <1>2. CASE Announce(t, j)
    <2>1. [j EXCEPT !.attempt = j.attempt + 1] \in JobRecord
      BY MaxRetryAssumption DEF JobRecord
    <2>2. [j EXCEPT !.attempt = j.attempt + 1].event = j.event
      BY DEF JobRecord
    <2> QED BY <1>2, <2>1, <2>2 DEF Announce, TypeOK, Goto
  <1> QED BY <1>1, <1>2 DEF EnterAttempt

LEMMA ArriveType ==
    ASSUME TypeOK, NEW t \in Task, Arrive(t)
    PROVE  TypeOK'
  <1>1. CASE RejectPaused(t)
    BY <1>1, ReplyType DEF TypeOK, RejectPaused, Respond, Goto
  <1>2. ASSUME NEW reason \in {"invalid_event", "route_mismatch"}, Reject(t, reason)
        PROVE  TypeOK'
    <2>1. /\ Error(reason, None, None) \in ReplyRecord
          /\ Error(reason, None, None) # None
      BY ReplyType
    <2> QED BY <1>2, <2>1 DEF TypeOK, Reject, Respond, Goto
  <1>3. ASSUME NEW e \in Event, NEW route \in RouteIds \cup {None}, Receive(t, e, route)
        PROVE  TypeOK'
    <2>1. /\ [NoJob EXCEPT !.event = e] \in JobRecord
          /\ [NoJob EXCEPT !.event = e].event = e
          /\ [NoJob EXCEPT !.event = e].attempt < MaxRetry
      BY MaxRetryAssumption DEF JobRecord, NoJob
    <2> QED BY <1>3, <2>1 DEF TypeOK, Receive, Goto
  <1> QED BY <1>1, <1>2, <1>3 DEF Arrive, RejectInvalid, RejectRoute

LEMMA SuppressType ==
    ASSUME TypeOK, NEW t \in Task, ReplayAck(t) \/ ReportPending(t)
    PROVE  TypeOK'
  <1>1. job[t].event \in Event
    BY DEF TypeOK, ReplayAck, ReportPending
  <1>2. CASE ReplayAck(t)
    <2>1. Ack(job[t].event) \in ReplyRecord /\ Ack(job[t].event) # None
      BY <1>1, ReplyType
    <2> QED BY <1>2, <2>1 DEF TypeOK, ReplayAck, SuppressDuplicate, Respond, Goto
  <1>3. CASE ReportPending(t)
    <2>1. /\ Error("pending", job[t].event, None) \in ReplyRecord
          /\ Error("pending", job[t].event, None) # None
      BY <1>1, ReplyType
    <2> QED BY <1>3, <2>1 DEF TypeOK, ReportPending, SuppressDuplicate, Respond, Goto
  <1> QED BY <1>2, <1>3

LEMMA LoopType ==
    ASSUME TypeOK, NEW t \in Task,
           \/ StartDelivery(t) \/ Interrupt(t) \/ Wake(t) \/ NextAttempt(t) \/ Send(t)
    PROVE  TypeOK'
  <1>1. CASE StartDelivery(t)
    <2> DEFINE j == [job[t] EXCEPT !.generation = reset_generation]
    <2>1. /\ j \in JobRecord /\ j.event \in Event /\ j.attempt < MaxRetry
          /\ reply[t] = None
      BY <1>1 DEF TypeOK, StartDelivery, JobRecord
    <2>2. EnterAttempt(t, j) /\ UNCHANGED reply
      BY <1>1 DEF StartDelivery
    <2> HIDE DEF j
    <2>3. /\ pc' \in [Task -> PC] /\ job' \in [Task -> JobRecord] /\ retry_total' \in Nat
          /\ \A u \in Task :
                /\ pc'[u] = "idle" => job'[u] = NoJob
                /\ pc'[u] \in Delivering \cup {"receiving"} => job'[u].event \in Event
                /\ pc'[u] \in {"receiving", "sleeping", "backoff"} => job'[u].attempt < MaxRetry
                /\ reply'[u] # None <=> pc'[u] = "replying"
      BY <2>1, <2>2, EnterAttemptType
    <2> QED BY <1>1, <2>3 DEF TypeOK, StartDelivery
  <1>2. CASE Interrupt(t)
    BY <1>2 DEF TypeOK, Interrupt, Goto
  <1>3. CASE Wake(t)
    <2>1. /\ [job[t] EXCEPT !.attempt = job[t].attempt + 1] \in JobRecord
          /\ [job[t] EXCEPT !.attempt = job[t].attempt + 1].event \in Event
      BY <1>3, MaxRetryAssumption DEF TypeOK, Wake, JobRecord
    <2> QED BY <1>3, <2>1 DEF TypeOK, Wake, Announce, Goto
  <1>4. CASE NextAttempt(t)
    <2>1. /\ job[t] \in JobRecord /\ job[t].event \in Event /\ job[t].attempt < MaxRetry
          /\ reply[t] = None /\ EnterAttempt(t, job[t]) /\ UNCHANGED reply
      BY <1>4 DEF TypeOK, NextAttempt
    <2>2. /\ pc' \in [Task -> PC] /\ job' \in [Task -> JobRecord] /\ retry_total' \in Nat
          /\ \A u \in Task :
                /\ pc'[u] = "idle" => job'[u] = NoJob
                /\ pc'[u] \in Delivering \cup {"receiving"} => job'[u].event \in Event
                /\ pc'[u] \in {"receiving", "sleeping", "backoff"} => job'[u].attempt < MaxRetry
                /\ reply'[u] # None <=> pc'[u] = "replying"
      BY <2>1, EnterAttemptType
    <2> QED BY <1>4, <2>2 DEF TypeOK, NextAttempt
  <1>5. CASE Send(t)
    BY <1>5 DEF TypeOK, Send, Goto
  <1> QED BY <1>1, <1>2, <1>3, <1>4, <1>5

LEMMA RetryOrFailType ==
    ASSUME TypeOK, NEW t \in Task, pc[t] = "waiting",
           NEW j \in JobRecord, j.event \in Event,
           NEW error \in EvidenceRecord \cup {None},
           RetryOrFail(t, j, error)
    PROVE  TypeOK'
  <1>1. Evidence(j) \in EvidenceRecord \cup {None}
    BY EvidenceType
  <1>2. CASE ~LastAttempt(j) /\ last_downstream_result' = error
             /\ Goto(t, "backoff") /\ UNCHANGED delivery_failures
    <2>1. j.attempt < MaxRetry
      BY <1>2, MaxRetryAssumption DEF JobRecord
    <2> QED BY <1>2, <2>1 DEF TypeOK, RetryOrFail, Goto
  <1>3. CASE LastAttempt(j) /\ last_downstream_result' = Evidence(j)
             /\ delivery_failures' = delivery_failures + 1 /\ Goto(t, "failed")
    BY <1>1, <1>3 DEF TypeOK, RetryOrFail, Goto
  <1> QED BY <1>2, <1>3 DEF RetryOrFail

LEMMA ResponseType ==
    ASSUME TypeOK, NEW t \in Task,
           \/ AckResponse(t) \/ NoResponse(t) \/ Timeout(t) \/ ConnectionFailed(t)
           \/ \E reason \in Reason : ErrorResponse(t, reason)
    PROVE  TypeOK'
  <1>1. /\ pc[t] = "waiting" /\ job[t] \in JobRecord /\ job[t].event \in Event
        /\ last_downstream_result \in EvidenceRecord \cup {None}
    BY DEF TypeOK, AckResponse, NoResponse, Timeout, ConnectionFailed, AttemptRaised,
           ErrorResponse
  <1>2. CASE AckResponse(t)
    BY <1>1, <1>2 DEF TypeOK, AckResponse, Goto
  <1>3. CASE NoResponse(t)
    BY <1>1, <1>3, RetryOrFailType DEF NoResponse
  <1>4. ASSUME NEW reason \in GenericReason, AttemptRaised(t, reason)
        PROVE  TypeOK'
    <2>1. /\ [job[t] EXCEPT !.generic = reason] \in JobRecord
          /\ [job[t] EXCEPT !.generic = reason].event = job[t].event
      BY <1>1 DEF JobRecord
    <2> QED BY <1>1, <1>4, <2>1, RetryOrFailType DEF AttemptRaised
  <1>5. ASSUME NEW reason \in Reason, ErrorResponse(t, reason)
        PROVE  TypeOK'
    <2>1. /\ [job[t] EXCEPT !.preferred = reason] \in JobRecord
          /\ [job[t] EXCEPT !.preferred = reason].event = job[t].event
      BY <1>1 DEF JobRecord
    <2> QED BY <1>1, <1>5, <2>1, RetryOrFailType DEF ErrorResponse
  <1> QED BY <1>2, <1>3, <1>4, <1>5 DEF Timeout, ConnectionFailed, GenericReason

LEMMA EndType ==
    ASSUME TypeOK, NEW t \in Task, Commit(t) \/ Finish(t) \/ Reply(t)
    PROVE  TypeOK'
  <1>1. CASE Commit(t)
    BY <1>1 DEF TypeOK, Commit, Goto
  <1>2. CASE Finish(t)
    <2>1. job[t].event \in Event /\ last_downstream_result \in EvidenceRecord \cup {None}
      BY <1>2 DEF TypeOK, Finish
    <2>2. PICK response \in ReplyRecord : response # None /\ Respond(t, response)
      BY <1>2, <2>1, ReplyType DEF Finish
    <2> QED BY <1>2, <2>1, <2>2 DEF TypeOK, Finish, Respond, Goto
  <1>3. CASE Reply(t)
    BY <1>3, NoJobType DEF TypeOK, Reply, Goto
  <1> QED BY <1>1, <1>2, <1>3

LEMMA ControlType ==
    ASSUME TypeOK, Control
    PROVE  TypeOK'
  <1>1. ASSUME NEW value \in BOOLEAN, SetRunning(value) \/ SetDelay(value)
        PROVE  TypeOK'
    BY <1>1 DEF TypeOK, SetRunning, SetDelay
  <1>2. CASE Reset
    BY <1>2 DEF TypeOK, Reset
  <1>3. CASE Shutdown
    <2>1. \A t \in Task : pc'[t] = "idle" /\ job'[t] = NoJob /\ reply'[t] = None
      BY <1>3 DEF Shutdown
    <2>2. pc' \in [Task -> PC] /\ job' \in [Task -> JobRecord]
      BY <1>3, NoJobType DEF Shutdown
    <2> QED BY <1>3, <2>1, <2>2 DEF TypeOK, Shutdown
  <1>4. CASE Restart
    BY <1>4 DEF TypeOK, Restart
  <1> QED BY <1>1, <1>2, <1>3, <1>4 DEF Control

LEMMA TypeStep == TypeOK /\ [Next]_vars => TypeOK'
  <1> SUFFICES ASSUME TypeOK, [Next]_vars PROVE TypeOK'
    OBVIOUS
  <1>1. CASE Control
    BY <1>1, ControlType
  <1>2. ASSUME NEW t \in Task, Arrive(t) PROVE TypeOK'
    BY <1>2, ArriveType
  <1>3. ASSUME NEW t \in Task, Proceed(t) PROVE TypeOK'
    BY <1>3, SuppressType, LoopType, ResponseType, EndType DEF Proceed
  <1>4. CASE UNCHANGED vars
    BY <1>4 DEF vars, TypeOK
  <1> QED BY <1>1, <1>2, <1>3, <1>4 DEF Next

\* Every reachable state is well typed; in particular a suspended delivery has
\* an event, and no delivery makes more than MaxRetry attempts.
THEOREM TypeCorrect == Spec => []TypeOK
  BY TypeInit, TypeStep, PTL DEF Spec

-----------------------------------------------------------------------------
(* An ACK is never given for an event the downstream node did not ACK.     *)

LEMMA AckSoundStep ==
    ASSUME TypeOK, AckSound, [Next]_vars
    PROVE  AckSound'
  <1> USE DEF AckSound
  <1>1. CASE Control
    <2>1. ASSUME NEW value \in BOOLEAN, SetRunning(value) \/ SetDelay(value)
          PROVE  AckSound'
      BY <2>1 DEF SetRunning, SetDelay
    <2>2. CASE Reset
      BY <2>2 DEF Reset
    <2>3. CASE Shutdown
      BY <2>3 DEF Shutdown
    <2>4. CASE Restart
      BY <2>4 DEF Restart
    <2> QED BY <1>1, <2>1, <2>2, <2>3, <2>4 DEF Control
  <1>2. ASSUME NEW t \in Task, Arrive(t)
        PROVE  AckSound'
    <2>1. CASE RejectPaused(t)
      BY <2>1 DEF TypeOK, RejectPaused, Respond, Goto, Error
    <2>2. ASSUME NEW reason, Reject(t, reason)
          PROVE  AckSound'
      BY <2>2 DEF TypeOK, Reject, Respond, Goto, Error
    <2>3. ASSUME NEW e \in Event, NEW route \in RouteIds \cup {None}, Receive(t, e, route)
          PROVE  AckSound'
      BY <2>3 DEF TypeOK, Receive, Goto
    <2> QED BY <1>2, <2>1, <2>2, <2>3 DEF Arrive, RejectInvalid, RejectRoute
  <1>3. ASSUME NEW t \in Task, Proceed(t)
        PROVE  AckSound'
    <2>1. CASE ReplayAck(t)
      BY <2>1 DEF TypeOK, ReplayAck, SuppressDuplicate, Respond, Goto, Ack
    <2>2. CASE ReportPending(t)
      BY <2>2 DEF TypeOK, ReportPending, SuppressDuplicate, Respond, Goto, Error
    <2>3. CASE StartDelivery(t)
      BY <2>3 DEF TypeOK, StartDelivery, EnterAttempt, Announce, Goto
    <2>4. CASE Interrupt(t)
      BY <2>4 DEF TypeOK, Interrupt, Goto
    <2>5. CASE Wake(t)
      BY <2>5 DEF TypeOK, Wake, Announce, Goto
    <2>6. CASE NextAttempt(t)
      BY <2>6 DEF TypeOK, NextAttempt, EnterAttempt, Announce, Goto
    <2>7. CASE Send(t)
      BY <2>7 DEF TypeOK, Send, Goto
    <2>8. CASE AckResponse(t)
      BY <2>8 DEF TypeOK, AckResponse, Goto
    <2>9. ASSUME NEW j, NEW error, RetryOrFail(t, j, error)
          PROVE  AckSound'
      BY <2>9 DEF TypeOK, RetryOrFail, Goto
    <2>10. CASE Commit(t)
      BY <2>10 DEF TypeOK, Commit, Goto
    <2>11. CASE Finish(t)
      BY <2>11 DEF TypeOK, Finish, Respond, Goto, Ack, Error
    <2>12. CASE Reply(t)
      BY <2>12 DEF TypeOK, Reply, Goto
    <2> QED BY <1>3, <2>1, <2>2, <2>3, <2>4, <2>5, <2>6, <2>7, <2>8, <2>9, <2>10, <2>11, <2>12
            DEF Proceed, NoResponse, Timeout, ConnectionFailed, AttemptRaised, ErrorResponse
  <1>4. CASE UNCHANGED vars
    BY <1>4 DEF vars
  <1> QED BY <1>1, <1>2, <1>3, <1>4 DEF Next

\* Neither a duplicate, a timeout racing an answer, a reset in the middle of a
\* delivery nor a restart makes a relay acknowledge, or remember as delivered,
\* an event that the downstream node did not acknowledge.
THEOREM AckSoundness == Spec => []AckSound
  <1>1. Init => AckSound
    BY DEF Init, AckSound
  <1> QED BY <1>1, AckSoundStep, TypeCorrect, PTL DEF Spec

-----------------------------------------------------------------------------
(* The pending tables and the deliveries under way.                        *)

\* How an attempt changes the locals of a delivery: not its event and generation.
LEMMA EnterAttemptKeeps ==
    ASSUME TypeOK, NEW t \in Task, NEW j \in JobRecord, EnterAttempt(t, j)
    PROVE  /\ pc'[t] \in {"sleeping", "announcing"}
           /\ job'[t].event = j.event /\ job'[t].generation = j.generation
           /\ \A u \in Task \ {t} : pc'[u] = pc[u] /\ job'[u] = job[u]
  BY DEF TypeOK, EnterAttempt, Announce, Goto, JobRecord

\* The outcomes of an attempt that is not acknowledged end in RetryOrFail with
\* the locals of the same delivery.
AttemptFails(t) ==
    \/ NoResponse(t) \/ Timeout(t) \/ ConnectionFailed(t)
    \/ \E reason \in Reason : ErrorResponse(t, reason)

LEMMA AttemptFailsKeeps ==
    ASSUME TypeOK, NEW t \in Task, AttemptFails(t)
    PROVE  /\ pc[t] = "waiting"
           /\ \E j, error : /\ RetryOrFail(t, j, error)
                            /\ j.event = job[t].event /\ j.generation = job[t].generation
  <1>1. \A r : /\ [job[t] EXCEPT !.generic = r].event = job[t].event
               /\ [job[t] EXCEPT !.generic = r].generation = job[t].generation
               /\ [job[t] EXCEPT !.preferred = r].event = job[t].event
               /\ [job[t] EXCEPT !.preferred = r].generation = job[t].generation
    BY DEF TypeOK, JobRecord
  <1>2. CASE NoResponse(t)
    BY <1>2 DEF NoResponse
  <1>3. CASE Timeout(t)
    BY <1>1, <1>3 DEF Timeout, AttemptRaised
  <1>4. CASE ConnectionFailed(t)
    BY <1>1, <1>4 DEF ConnectionFailed, AttemptRaised
  <1>5. ASSUME NEW reason \in Reason, ErrorResponse(t, reason)
        PROVE  /\ pc[t] = "waiting"
               /\ \E j, error : /\ RetryOrFail(t, j, error)
                                /\ j.event = job[t].event /\ j.generation = job[t].generation
    BY <1>1, <1>5 DEF ErrorResponse
  <1> QED BY <1>2, <1>3, <1>4, <1>5 DEF AttemptFails

LEMMA PendingOwnedStep ==
    ASSUME TypeOK, PendingOwned, [Next]_vars
    PROVE  PendingOwned'
  <1> USE DEF PendingOwned
  <1>1. CASE Control
    <2>1. ASSUME NEW value \in BOOLEAN, SetRunning(value) \/ SetDelay(value)
          PROVE  PendingOwned'
      BY <2>1 DEF SetRunning, SetDelay
    <2>2. CASE Reset
      BY <2>2 DEF TypeOK, Reset
    <2>3. CASE Shutdown
      BY <2>3 DEF Shutdown
    <2>4. CASE Restart
      BY <2>4 DEF Restart
    <2> QED BY <1>1, <2>1, <2>2, <2>3, <2>4 DEF Control
  <1>2. ASSUME NEW t \in Task, Arrive(t)
        PROVE  PendingOwned'
    <2>1. CASE RejectPaused(t)
      BY <2>1 DEF TypeOK, RejectPaused, Respond, Goto
    <2>2. ASSUME NEW reason, Reject(t, reason)
          PROVE  PendingOwned'
      BY <2>2 DEF TypeOK, Reject, Respond, Goto
    <2>3. ASSUME NEW e \in Event, NEW route \in RouteIds \cup {None}, Receive(t, e, route)
          PROVE  PendingOwned'
      BY <2>3 DEF TypeOK, Receive, Goto
    <2> QED BY <1>2, <2>1, <2>2, <2>3 DEF Arrive, RejectInvalid, RejectRoute
  <1>3. ASSUME NEW t \in Task, Proceed(t)
        PROVE  PendingOwned'
    <2>1. CASE ReplayAck(t)
      BY <2>1 DEF TypeOK, ReplayAck, SuppressDuplicate, Respond, Goto
    <2>2. CASE ReportPending(t)
      BY <2>2 DEF TypeOK, ReportPending, SuppressDuplicate, Respond, Goto
    <2>3. CASE StartDelivery(t)
      <3> DEFINE j == [job[t] EXCEPT !.generation = reset_generation]
      <3>1. /\ j \in JobRecord /\ j.event = job[t].event /\ j.event \in Event
            /\ j.generation = reset_generation /\ EnterAttempt(t, j)
        BY <2>3 DEF TypeOK, StartDelivery, JobRecord
      <3> HIDE DEF j
      <3>2. /\ pc'[t] \in {"sleeping", "announcing"}
            /\ job'[t].event = job[t].event /\ job'[t].generation = reset_generation
            /\ \A u \in Task \ {t} : pc'[u] = pc[u] /\ job'[u] = job[u]
        BY <3>1, EnterAttemptKeeps
      <3> QED BY <2>3, <3>1, <3>2, NoneAssumption DEF TypeOK, StartDelivery
    <2>4. CASE Interrupt(t)
      BY <2>4 DEF TypeOK, Interrupt, Goto
    <2>5. CASE Wake(t)
      <3>1. /\ [job[t] EXCEPT !.attempt = job[t].attempt + 1].event = job[t].event
            /\ [job[t] EXCEPT !.attempt = job[t].attempt + 1].generation = job[t].generation
        BY DEF TypeOK, JobRecord
      <3> QED BY <2>5, <3>1 DEF TypeOK, Wake, Announce, Goto
    <2>6. CASE NextAttempt(t)
      <3>1. job[t] \in JobRecord /\ EnterAttempt(t, job[t])
        BY <2>6 DEF TypeOK, NextAttempt
      <3> QED BY <2>6, <3>1, EnterAttemptKeeps DEF TypeOK, NextAttempt
    <2>7. CASE Send(t)
      BY <2>7 DEF TypeOK, Send, Goto
    <2>8. CASE AckResponse(t)
      BY <2>8 DEF TypeOK, AckResponse, Goto
    <2>9. CASE AttemptFails(t)
      <3>1. pc[t] = "waiting"
        BY <2>9, AttemptFailsKeeps
      <3>2. PICK j, error : /\ RetryOrFail(t, j, error)
                            /\ j.event = job[t].event /\ j.generation = job[t].generation
        BY <2>9, AttemptFailsKeeps
      <3> QED BY <3>1, <3>2 DEF TypeOK, RetryOrFail, Goto
    <2>10. CASE Commit(t)
      BY <2>10 DEF TypeOK, Commit, Goto
    <2>11. CASE Finish(t)
      BY <2>11 DEF TypeOK, Finish, Respond, Goto
    <2>12. CASE Reply(t)
      BY <2>12 DEF TypeOK, Reply, Goto
    <2> QED BY <1>3, <2>1, <2>2, <2>3, <2>4, <2>5, <2>6, <2>7, <2>8, <2>9, <2>10, <2>11, <2>12
            DEF Proceed, AttemptFails
  <1>4. CASE UNCHANGED vars
    BY <1>4 DEF vars
  <1> QED BY <1>1, <1>2, <1>3, <1>4 DEF Next

\* Every entry of the pending tables, in both of them alike, belongs to a delivery
\* that is still running and will remove it.
THEOREM PendingOwnership == Spec => []PendingOwned
  <1>1. Init => PendingOwned
    BY DEF Init, PendingOwned
  <1> QED BY <1>1, PendingOwnedStep, TypeCorrect, PTL DEF Spec

\* What makes NoConcurrentDelivery inductive: until the first reset a delivery
\* keeps its entry in pending_ack_detail for as long as it runs, and its id is
\* not known as delivered before it has itself made it so.
DeliveryOwned ==
    reset_generation = 0 =>
        \A t \in Task : pc[t] \in Delivering =>
            /\ pending_ack_detail[job[t].event] = t
            /\ job[t].event \in received_id_cache => pc[t] = "accepted"

LEMMA DeliveryOwnedStep ==
    ASSUME TypeOK, PendingOwned, DeliveryOwned, [Next]_vars
    PROVE  DeliveryOwned'
  <1> USE DEF DeliveryOwned
  <1>1. CASE Control
    <2>1. ASSUME NEW value \in BOOLEAN, SetRunning(value) \/ SetDelay(value)
          PROVE  DeliveryOwned'
      BY <2>1 DEF SetRunning, SetDelay
    <2>2. CASE Reset
      BY <2>2 DEF TypeOK, Reset
    <2>3. CASE Shutdown
      BY <2>3 DEF Shutdown
    <2>4. CASE Restart
      BY <2>4 DEF Restart
    <2> QED BY <1>1, <2>1, <2>2, <2>3, <2>4 DEF Control
  <1>2. ASSUME NEW t \in Task, Arrive(t)
        PROVE  DeliveryOwned'
    <2>1. CASE RejectPaused(t)
      BY <2>1 DEF TypeOK, RejectPaused, Respond, Goto
    <2>2. ASSUME NEW reason, Reject(t, reason)
          PROVE  DeliveryOwned'
      BY <2>2 DEF TypeOK, Reject, Respond, Goto
    <2>3. ASSUME NEW e \in Event, NEW route \in RouteIds \cup {None}, Receive(t, e, route)
          PROVE  DeliveryOwned'
      BY <2>3 DEF TypeOK, Receive, Goto
    <2> QED BY <1>2, <2>1, <2>2, <2>3 DEF Arrive, RejectInvalid, RejectRoute
  <1>3. ASSUME NEW t \in Task, Proceed(t)
        PROVE  DeliveryOwned'
    <2>1. CASE ReplayAck(t)
      BY <2>1 DEF TypeOK, ReplayAck, SuppressDuplicate, Respond, Goto
    <2>2. CASE ReportPending(t)
      BY <2>2 DEF TypeOK, ReportPending, SuppressDuplicate, Respond, Goto
    <2>3. CASE StartDelivery(t)
      <3> DEFINE j == [job[t] EXCEPT !.generation = reset_generation]
      <3>1. /\ j \in JobRecord /\ j.event = job[t].event /\ j.event \in Event
            /\ EnterAttempt(t, j)
        <4>1. job[t] \in JobRecord /\ job[t].event \in Event /\ reset_generation \in Nat
          BY <2>3 DEF TypeOK, StartDelivery
        <4>2. EnterAttempt(t, j)
          BY <2>3 DEF StartDelivery
        <4> QED BY <4>1, <4>2 DEF JobRecord
      <3> HIDE DEF j
      <3>2. /\ pc'[t] \in {"sleeping", "announcing"} /\ job'[t].event = job[t].event
            /\ \A u \in Task \ {t} : pc'[u] = pc[u] /\ job'[u] = job[u]
        BY <3>1, EnterAttemptKeeps
      <3>3. pending_ack_detail[job[t].event] = None
        BY <2>3, <3>1 DEF StartDelivery, PendingOwned
      <3> QED BY <2>3, <3>1, <3>2, <3>3, NoneAssumption DEF TypeOK, StartDelivery
    <2>4. CASE Interrupt(t)
      BY <2>4 DEF TypeOK, Interrupt, Goto
    <2>5. CASE Wake(t)
      <3>1. [job[t] EXCEPT !.attempt = job[t].attempt + 1].event = job[t].event
        BY DEF TypeOK, JobRecord
      <3> QED BY <2>5, <3>1 DEF TypeOK, Wake, Announce, Goto
    <2>6. CASE NextAttempt(t)
      <3>1. job[t] \in JobRecord /\ EnterAttempt(t, job[t])
        BY <2>6 DEF TypeOK, NextAttempt
      <3> QED BY <2>6, <3>1, EnterAttemptKeeps DEF TypeOK, NextAttempt
    <2>7. CASE Send(t)
      BY <2>7 DEF TypeOK, Send, Goto
    <2>8. CASE AckResponse(t)
      BY <2>8 DEF TypeOK, AckResponse, Goto
    <2>9. CASE AttemptFails(t)
      <3>1. pc[t] = "waiting"
        BY <2>9, AttemptFailsKeeps
      <3>2. PICK j, error : /\ RetryOrFail(t, j, error)
                            /\ j.event = job[t].event /\ j.generation = job[t].generation
        BY <2>9, AttemptFailsKeeps
      <3> QED BY <3>1, <3>2 DEF TypeOK, RetryOrFail, Goto
    <2>10. CASE Commit(t)
      BY <2>10 DEF TypeOK, Commit, Goto
    <2>11. CASE Finish(t)
      BY <2>11 DEF TypeOK, Finish, Respond, Goto
    <2>12. CASE Reply(t)
      BY <2>12 DEF TypeOK, Reply, Goto
    <2> QED BY <1>3, <2>1, <2>2, <2>3, <2>4, <2>5, <2>6, <2>7, <2>8, <2>9, <2>10, <2>11, <2>12
            DEF Proceed, AttemptFails
  <1>4. CASE UNCHANGED vars
    BY <1>4 DEF vars
  <1> QED BY <1>1, <1>2, <1>3, <1>4 DEF Next

\* Until it is reset, a relay never has two deliveries of one id under way and
\* never sends an event again that was delivered, however its copies arrive.
THEOREM DuplicatesSuppressed == Spec => []NoConcurrentDelivery
  <1>1. Init => DeliveryOwned
    BY DEF Init, DeliveryOwned
  <1>2. Spec => []DeliveryOwned
    BY <1>1, DeliveryOwnedStep, PendingOwnership, TypeCorrect, PTL DEF Spec
  <1>3. TypeOK /\ DeliveryOwned => NoConcurrentDelivery
    BY DEF DeliveryOwned, NoConcurrentDelivery
  <1> QED BY <1>2, <1>3, TypeCorrect, PTL

-----------------------------------------------------------------------------
(* Every event is accounted for.                                           *)

\* The events still in progress.
Open == {"receiving", "sleeping", "announcing", "waiting", "backoff", "acked", "interrupted"}
InProgress == {t \in Task : pc[t] \in Open}

\* Accounting, with that set by its name.
Balanced ==
    received = duplicate_dropped + delivery_failures + Cardinality(received_id_cache)
               + Cardinality(InProgress)

\* What makes it inductive: both sets are finite, however many connections there
\* may be, and until the first reset no delivery can be found interrupted, since
\* all of them began in the present generation.
Book ==
    /\ IsFiniteSet(received_id_cache) /\ IsFiniteSet(InProgress)
    /\ reset_generation = 0 =>
          /\ Balanced
          /\ \A t \in Task : pc[t] \in Delivering =>
                job[t].generation = 0 /\ pc[t] # "interrupted"

LEMMA BookInit == Init => Book
  <1> SUFFICES ASSUME Init PROVE Book
    OBVIOUS
  <1>1. InProgress = {} /\ received_id_cache = {}
    BY DEF Init, InProgress, Open
  <1>2. IsFiniteSet({}) /\ Cardinality({}) = 0
    BY FS_EmptySet
  <1> QED BY <1>1, <1>2 DEF Init, Book, Balanced

\* How a step of one connection changes the set of events in progress.
LEMMA OneMoves ==
    ASSUME TypeOK, IsFiniteSet(InProgress), NEW t \in Task, NEW label,
           pc'[t] = label, \A u \in Task \ {t} : pc'[u] = pc[u]
    PROVE  /\ IsFiniteSet(InProgress')
           /\ Cardinality(InProgress) \in Nat /\ Cardinality(InProgress') \in Nat
           /\ (pc[t] \in Open <=> label \in Open) => InProgress' = InProgress
           /\ pc[t] \notin Open /\ label \in Open =>
                 Cardinality(InProgress') = Cardinality(InProgress) + 1
           /\ pc[t] \in Open /\ label \notin Open =>
                 Cardinality(InProgress) = Cardinality(InProgress') + 1
  <1>1. CASE pc[t] \in Open <=> label \in Open
    <2>1. InProgress' = InProgress
      BY <1>1 DEF InProgress
    <2> QED BY <1>1, <2>1, FS_CardinalityType
  <1>2. CASE pc[t] \notin Open /\ label \in Open
    <2>1. InProgress' = InProgress \cup {t} /\ t \notin InProgress
      BY <1>2 DEF InProgress
    <2> QED BY <1>2, <2>1, FS_AddElement, FS_CardinalityType
  <1>3. CASE pc[t] \in Open /\ label \notin Open
    <2>1. InProgress = InProgress' \cup {t} /\ t \notin InProgress' /\ InProgress' = InProgress \ {t}
      BY <1>3 DEF InProgress
    <2>2. IsFiniteSet(InProgress')
      BY <2>1, FS_RemoveElement
    <2>3. Cardinality(InProgress' \cup {t}) = Cardinality(InProgress') + 1
      BY <2>1, <2>2, FS_AddElement
    <2> QED BY <1>3, <2>1, <2>2, <2>3, FS_CardinalityType
  <1> QED BY <1>1, <1>2, <1>3

\* A step that moves an event on without ending its delivery changes no count.
LEMMA MovesOn ==
    ASSUME TypeOK, Book, NEW t \in Task, NEW label,
           pc'[t] = label, \A u \in Task \ {t} : pc'[u] = pc[u] /\ job'[u] = job[u],
           pc[t] \in Open <=> label \in Open,
           reset_generation = 0 /\ label \in Delivering =>
               job'[t].generation = 0 /\ label # "interrupted",
           UNCHANGED <<received_id_cache, reset_generation, received, duplicate_dropped,
                       delivery_failures>>
    PROVE  Book'
  <1>1. InProgress' = InProgress
    BY OneMoves DEF Book
  <1>2. Balanced' <=> Balanced
    BY <1>1 DEF Balanced
  <1> QED BY <1>1, <1>2 DEF Book

\* A step that ends one, or begins one, changes one count by one.
LEMMA IsCounted ==
    ASSUME TypeOK, Book, NEW t \in Task, NEW label,
           pc'[t] = label, \A u \in Task \ {t} : pc'[u] = pc[u] /\ job'[u] = job[u],
           label \in {"receiving", "replying", "failed"},
           reset_generation = 0 /\ label = "failed" => job'[t].generation = 0,
           IF label = "receiving"
           THEN /\ pc[t] \notin Open
                /\ received' = received + 1
                /\ UNCHANGED <<duplicate_dropped, delivery_failures>>
           ELSE /\ pc[t] \in Open
                /\ \/ duplicate_dropped' = duplicate_dropped + 1 /\ UNCHANGED delivery_failures
                   \/ delivery_failures' = delivery_failures + 1 /\ UNCHANGED duplicate_dropped
                /\ UNCHANGED received,
           UNCHANGED <<received_id_cache, reset_generation>>
    PROVE  Book'
  <1>1. /\ IsFiniteSet(InProgress')
        /\ Cardinality(InProgress) \in Nat /\ Cardinality(InProgress') \in Nat
        /\ Cardinality(received_id_cache) \in Nat
    BY OneMoves, FS_CardinalityType DEF Book
  <1>2. CASE label = "receiving"
    <2>1. Cardinality(InProgress') = Cardinality(InProgress) + 1
      BY <1>2, OneMoves DEF Book, Open
    <2>2. Balanced => Balanced'
      BY <1>1, <1>2, <2>1 DEF Balanced, TypeOK
    <2> QED BY <1>1, <1>2, <2>2 DEF Book
  <1>3. CASE label # "receiving"
    <2>1. Cardinality(InProgress) = Cardinality(InProgress') + 1
      BY <1>3, OneMoves DEF Book, Open
    <2>2. Balanced => Balanced'
      BY <1>1, <1>3, <2>1 DEF Balanced, TypeOK
    <2> QED BY <1>1, <1>3, <2>2 DEF Book
  <1> QED BY <1>2, <1>3

LEMMA BookStep ==
    ASSUME TypeOK, PendingOwned, DeliveryOwned, Book, [Next]_vars
    PROVE  Book'
  <1>1. CASE Control
    <2>1. ASSUME NEW value \in BOOLEAN, SetRunning(value) \/ SetDelay(value)
          PROVE  Book'
      BY <2>1 DEF SetRunning, SetDelay, Book, Balanced, InProgress
    <2>2. CASE Reset
      <3>1. reset_generation' # 0 /\ received_id_cache' = {} /\ InProgress' = InProgress
        BY <2>2 DEF TypeOK, Reset, InProgress
      <3> QED BY <3>1, FS_EmptySet DEF Book
    <2>3. CASE Shutdown
      <3>1. InProgress' = {} /\ received_id_cache' = {}
        BY <2>3 DEF Shutdown, InProgress, Open
      <3>2. IsFiniteSet({}) /\ Cardinality({}) = 0
        BY FS_EmptySet
      <3> QED BY <2>3, <3>1, <3>2 DEF Shutdown, Book, Balanced
    <2>4. CASE Restart
      BY <2>4 DEF Restart, Book, Balanced, InProgress
    <2> QED BY <1>1, <2>1, <2>2, <2>3, <2>4 DEF Control
  <1>2. ASSUME NEW t \in Task, Arrive(t)
        PROVE  Book'
    <2>1. ASSUME RejectPaused(t) \/ \E reason : Reject(t, reason) PROVE Book'
      <3>1. /\ pc[t] = "idle" /\ pc'[t] = "replying"
            /\ \A u \in Task \ {t} : pc'[u] = pc[u] /\ job'[u] = job[u]
            /\ UNCHANGED <<received_id_cache, reset_generation, received, duplicate_dropped,
                           delivery_failures>>
        BY <2>1 DEF TypeOK, RejectPaused, Reject, Respond, Goto
      <3> QED BY <3>1, MovesOn DEF Open
    <2>2. ASSUME NEW e \in Event, NEW route \in RouteIds \cup {None}, Receive(t, e, route)
          PROVE  Book'
      <3>1. /\ pc[t] = "idle" /\ pc'[t] = "receiving" /\ received' = received + 1
            /\ \A u \in Task \ {t} : pc'[u] = pc[u] /\ job'[u] = job[u]
            /\ UNCHANGED <<received_id_cache, reset_generation, duplicate_dropped,
                           delivery_failures>>
        BY <2>2 DEF TypeOK, Receive, Goto
      <3> QED BY <3>1, IsCounted DEF Open
    <2> QED BY <1>2, <2>1, <2>2 DEF Arrive, RejectInvalid, RejectRoute
  <1>3. ASSUME NEW t \in Task, Proceed(t)
        PROVE  Book'
    <2>0. reset_generation = 0 /\ pc[t] \in Delivering =>
              job[t].generation = 0 /\ pc[t] # "interrupted"
      BY DEF Book
    <2>1. CASE ReplayAck(t) \/ ReportPending(t)
      <3>1. /\ pc[t] = "receiving" /\ pc'[t] = "replying"
            /\ \A u \in Task \ {t} : pc'[u] = pc[u] /\ job'[u] = job[u]
            /\ duplicate_dropped' = duplicate_dropped + 1
            /\ UNCHANGED <<received_id_cache, reset_generation, received, delivery_failures>>
        BY <2>1 DEF TypeOK, ReplayAck, ReportPending, SuppressDuplicate, Respond, Goto
      <3> QED BY <3>1, IsCounted DEF Open
    <2>2. CASE StartDelivery(t)
      <3> DEFINE j == [job[t] EXCEPT !.generation = reset_generation]
      <3>1. /\ j \in JobRecord /\ j.generation = reset_generation /\ EnterAttempt(t, j)
        <4>1. job[t] \in JobRecord /\ reset_generation \in Nat
          BY DEF TypeOK
        <4>2. EnterAttempt(t, j)
          BY <2>2 DEF StartDelivery
        <4> QED BY <4>1, <4>2 DEF JobRecord
      <3> HIDE DEF j
      <3>2. /\ pc'[t] \in {"sleeping", "announcing"} /\ job'[t].generation = reset_generation
            /\ \A u \in Task \ {t} : pc'[u] = pc[u] /\ job'[u] = job[u]
        BY <3>1, EnterAttemptKeeps
      <3>3. /\ pc[t] = "receiving"
            /\ UNCHANGED <<received_id_cache, reset_generation, received, duplicate_dropped,
                           delivery_failures>>
        BY <2>2 DEF StartDelivery
      <3> QED BY <3>2, <3>3, MovesOn DEF Open
    <2>3. CASE Interrupt(t)
      <3>1. /\ pc[t] \in {"sleeping", "waiting", "backoff"} /\ pc'[t] = "interrupted"
            /\ reset_generation # 0
            /\ \A u \in Task \ {t} : pc'[u] = pc[u] /\ job'[u] = job[u]
            /\ UNCHANGED <<received_id_cache, reset_generation, received, duplicate_dropped,
                           delivery_failures>>
        BY <2>0, <2>3 DEF TypeOK, Interrupt, Stale, Goto
      <3> QED BY <3>1, MovesOn DEF Open
    <2>4. CASE Wake(t)
      <3>1. [job[t] EXCEPT !.attempt = job[t].attempt + 1].generation = job[t].generation
        BY DEF TypeOK, JobRecord
      <3>2. /\ pc[t] = "sleeping" /\ pc'[t] = "announcing"
            /\ job'[t].generation = job[t].generation
            /\ \A u \in Task \ {t} : pc'[u] = pc[u] /\ job'[u] = job[u]
            /\ UNCHANGED <<received_id_cache, reset_generation, received, duplicate_dropped,
                           delivery_failures>>
        BY <2>4, <3>1 DEF TypeOK, Wake, Announce, Goto
      <3> QED BY <2>0, <3>2, MovesOn DEF Open
    <2>5. CASE NextAttempt(t)
      <3>1. job[t] \in JobRecord /\ EnterAttempt(t, job[t])
        BY <2>5 DEF TypeOK, NextAttempt
      <3>2. /\ pc'[t] \in {"sleeping", "announcing"} /\ job'[t].generation = job[t].generation
            /\ \A u \in Task \ {t} : pc'[u] = pc[u] /\ job'[u] = job[u]
        BY <3>1, EnterAttemptKeeps
      <3>3. /\ pc[t] = "backoff"
            /\ UNCHANGED <<received_id_cache, reset_generation, received, duplicate_dropped,
                           delivery_failures>>
        BY <2>5 DEF NextAttempt
      <3> QED BY <2>0, <3>2, <3>3, MovesOn DEF Open
    <2>6. CASE Send(t) \/ AckResponse(t)
      <3>1. /\ pc[t] \in {"announcing", "waiting"} /\ pc'[t] \in {"waiting", "acked"}
            /\ job' = job /\ \A u \in Task \ {t} : pc'[u] = pc[u]
            /\ UNCHANGED <<received_id_cache, reset_generation, received, duplicate_dropped,
                           delivery_failures>>
        BY <2>6 DEF TypeOK, Send, AckResponse, Goto
      <3> QED BY <2>0, <3>1, MovesOn DEF Open
    <2>7. CASE AttemptFails(t)
      <3>1. pc[t] = "waiting"
        BY <2>7, AttemptFailsKeeps
      <3>2. PICK j, error : RetryOrFail(t, j, error) /\ j.generation = job[t].generation
        BY <2>7, AttemptFailsKeeps
      <3>3. /\ job'[t].generation = job[t].generation
            /\ \A u \in Task \ {t} : pc'[u] = pc[u] /\ job'[u] = job[u]
            /\ UNCHANGED <<received_id_cache, reset_generation, received, duplicate_dropped>>
            /\ \/ pc'[t] = "backoff" /\ UNCHANGED delivery_failures
               \/ pc'[t] = "failed" /\ delivery_failures' = delivery_failures + 1
        BY <3>2 DEF TypeOK, RetryOrFail, Goto
      <3>4. CASE pc'[t] = "backoff" /\ UNCHANGED delivery_failures
        BY <2>0, <3>1, <3>3, <3>4, MovesOn DEF Open
      <3>5. CASE pc'[t] = "failed" /\ delivery_failures' = delivery_failures + 1
        BY <2>0, <3>1, <3>3, <3>5, IsCounted DEF Open
      <3> QED BY <3>3, <3>4, <3>5
    <2>8. CASE Commit(t)
      <3>1. /\ pc[t] = "acked" /\ pc'[t] = "accepted" /\ job' = job
            /\ \A u \in Task \ {t} : pc'[u] = pc[u]
            /\ received_id_cache' = received_id_cache \cup {job[t].event}
            /\ UNCHANGED <<reset_generation, received, duplicate_dropped, delivery_failures>>
        BY <2>8 DEF TypeOK, Commit, Goto
      <3>2. /\ IsFiniteSet(InProgress') /\ Cardinality(InProgress') \in Nat
            /\ Cardinality(InProgress) = Cardinality(InProgress') + 1
        BY <3>1, OneMoves DEF Book, Open
      <3>3. /\ IsFiniteSet(received_id_cache') /\ Cardinality(received_id_cache) \in Nat
            /\ reset_generation = 0 =>
                  Cardinality(received_id_cache') = Cardinality(received_id_cache) + 1
        <4>1. reset_generation = 0 => job[t].event \notin received_id_cache
          BY <3>1 DEF DeliveryOwned
        <4> QED BY <3>1, <4>1, FS_AddElement, FS_CardinalityType DEF Book
      <3>4. reset_generation = 0 /\ Balanced => Balanced'
        BY <3>1, <3>2, <3>3 DEF Balanced, TypeOK
      <3> QED BY <2>0, <3>1, <3>2, <3>3, <3>4 DEF Book
    <2>9. CASE Finish(t)
      <3>1. /\ pc[t] \in {"accepted", "failed", "interrupted"} /\ pc'[t] = "replying"
            /\ job' = job /\ \A u \in Task \ {t} : pc'[u] = pc[u]
            /\ UNCHANGED <<received_id_cache, reset_generation, received, duplicate_dropped,
                           delivery_failures>>
        BY <2>9 DEF TypeOK, Finish, Respond, Goto
      <3>2. CASE pc[t] # "interrupted"
        BY <3>1, <3>2, MovesOn DEF Open
      <3>3. CASE pc[t] = "interrupted"
        BY <2>0, <3>1, <3>3, OneMoves DEF Book
      <3> QED BY <3>2, <3>3
    <2>10. CASE Reply(t)
      <3>1. /\ pc[t] = "replying" /\ pc'[t] = "idle"
            /\ \A u \in Task \ {t} : pc'[u] = pc[u] /\ job'[u] = job[u]
            /\ UNCHANGED <<received_id_cache, reset_generation, received, duplicate_dropped,
                           delivery_failures>>
        BY <2>10 DEF TypeOK, Reply, Goto
      <3> QED BY <3>1, MovesOn DEF Open
    <2> QED BY <1>3, <2>1, <2>2, <2>3, <2>4, <2>5, <2>6, <2>7, <2>8, <2>9, <2>10
            DEF Proceed, AttemptFails
  <1>4. CASE UNCHANGED vars
    BY <1>4 DEF vars, Book, Balanced, InProgress
  <1> QED BY <1>1, <1>2, <1>3, <1>4 DEF Next

\* Until it is reset, a relay loses track of no event it received: each is in
\* progress, a duplicate, a failure or delivered, and only one of these
\* (the counters and the cache of relay.py:239-300 and 424-555).
THEOREM EventsAccounted == Spec => []Accounting
  <1>1. Init => DeliveryOwned
    BY DEF Init, DeliveryOwned
  <1>2. Spec => []DeliveryOwned
    BY <1>1, DeliveryOwnedStep, PendingOwnership, TypeCorrect, PTL DEF Spec
  <1>3. Spec => []Book
    BY <1>2, BookInit, BookStep, PendingOwnership, TypeCorrect, PTL DEF Spec
  <1>4. Book => Accounting
    BY DEF Book, Balanced, InProgress, Open, Accounting
  <1> QED BY <1>3, <1>4, PTL

-----------------------------------------------------------------------------
(* A relay implements the promise of a hop.                                *)

asked == [t \in Task |-> job[t].event]
answer == [t \in Task |-> IF reply[t] = None THEN None ELSE reply[t].type]

\* A step that touches neither an event, a response nor an ACK from below is a
\* stuttering step of the promise.
LEMMA PromiseStutters ==
    ASSUME \A u \in Task : job'[u].event = job[u].event,
           UNCHANGED <<reply, downstream_acked>>
    PROVE  UNCHANGED Promise!vars
  BY DEF Promise!vars

\* The steps that answer a request.
LEMMA PromiseAnswers ==
    ASSUME TypeOK, NEW t \in Task, NEW response \in ReplyRecord, response # None,
           pc[t] # "replying",
           Respond(t, response), UNCHANGED <<job, downstream_acked>>,
           \/ response.type = "ERROR"
           \/ job[t].event \in downstream_acked
    PROVE  Promise!Next
  <1>1. answer[t] = None
    BY DEF TypeOK, answer
  <1>2. answer' = [answer EXCEPT ![t] = response.type]
    BY DEF TypeOK, answer, Respond
  <1>3. UNCHANGED asked
    BY DEF asked
  <1>4. CASE response.type = "ERROR" /\ job[t].event = None
    <2>1. Promise!Refuse(t)
      BY <1>1, <1>2, <1>3, <1>4 DEF Promise!Refuse, asked, answer
    <2> QED BY <2>1 DEF Promise!Next
  <1>5. CASE response.type = "ERROR" /\ job[t].event # None
    <2>1. Promise!GiveError(t)
      BY <1>1, <1>2, <1>3, <1>5 DEF Promise!GiveError, asked, answer
    <2> QED BY <2>1 DEF Promise!Next
  <1>6. CASE response.type = "ACK" /\ job[t].event \in downstream_acked
    <2>1. Promise!GiveAck(t)
      BY <1>1, <1>2, <1>3, <1>6 DEF Promise!GiveAck, asked, answer
    <2> QED BY <2>1 DEF Promise!Next
  <1> QED BY <1>4, <1>5, <1>6 DEF ReplyRecord

LEMMA PromiseStep ==
    ASSUME TypeOK, AckSound, [Next]_vars
    PROVE  [Promise!Next]_(Promise!vars)
  <1>1. CASE Control
    <2>1. ASSUME NEW value \in BOOLEAN, SetRunning(value) \/ SetDelay(value)
          PROVE  UNCHANGED Promise!vars
      BY <2>1, PromiseStutters DEF SetRunning, SetDelay
    <2>2. CASE Reset
      BY <2>2, PromiseStutters DEF Reset
    <2>3. CASE Shutdown
      <3>1. Promise!Vanish
        BY <2>3 DEF Shutdown, Promise!Vanish, NoJob
      <3> QED BY <3>1 DEF Promise!Next
    <2>4. CASE Restart
      BY <2>4, PromiseStutters DEF Restart
    <2> QED BY <1>1, <2>1, <2>2, <2>3, <2>4 DEF Control
  <1>2. ASSUME NEW t \in Task, Arrive(t)
        PROVE  Promise!Next
    <2>1. CASE RejectPaused(t)
      <3>1. /\ Error("paused", None, None) \in ReplyRecord
            /\ Error("paused", None, None) # None
            /\ Error("paused", None, None).type = "ERROR"
        BY ReplyType DEF Error
      <3> QED BY <2>1, <3>1, PromiseAnswers DEF RejectPaused
    <2>2. ASSUME NEW reason \in {"invalid_event", "route_mismatch"}, Reject(t, reason)
          PROVE  Promise!Next
      <3>1. /\ Error(reason, None, None) \in ReplyRecord
            /\ Error(reason, None, None) # None
            /\ Error(reason, None, None).type = "ERROR"
        BY ReplyType DEF Error
      <3> QED BY <2>2, <3>1, PromiseAnswers DEF Reject
    <2>3. ASSUME NEW e \in Event, NEW route \in RouteIds \cup {None}, Receive(t, e, route)
          PROVE  Promise!Next
      <3>1. asked[t] = None /\ answer[t] = None
        BY <2>3, NoJobType DEF TypeOK, Receive, asked, answer
      <3>2. [NoJob EXCEPT !.event = e].event = e
        BY DEF NoJob
      <3>3. asked' = [asked EXCEPT ![t] = e] /\ UNCHANGED <<answer, downstream_acked>>
        BY <2>3, <3>2 DEF TypeOK, Receive, asked, answer
      <3>4. Promise!Ask(t, e)
        BY <3>1, <3>3 DEF Promise!Ask, asked, answer
      <3> QED BY <3>4 DEF Promise!Next
    <2> QED BY <1>2, <2>1, <2>2, <2>3 DEF Arrive, RejectInvalid, RejectRoute
  <1>3. ASSUME NEW t \in Task, Proceed(t)
        PROVE  [Promise!Next]_(Promise!vars)
    <2>1. CASE ReplayAck(t)
      <3>1. job[t].event \in downstream_acked
        BY <2>1 DEF ReplayAck, AckSound
      <3>2. Ack(job[t].event) \in ReplyRecord /\ Ack(job[t].event) # None
        BY <3>1, ReplyType DEF TypeOK
      <3> QED BY <2>1, <3>1, <3>2, PromiseAnswers DEF ReplayAck, SuppressDuplicate
    <2>2. CASE ReportPending(t)
      <3>1. /\ Error("pending", job[t].event, None) \in ReplyRecord
            /\ Error("pending", job[t].event, None) # None
            /\ Error("pending", job[t].event, None).type = "ERROR"
        BY <2>2, ReplyType DEF TypeOK, ReportPending, Error
      <3> QED BY <2>2, <3>1, PromiseAnswers DEF ReportPending, SuppressDuplicate
    <2>3. CASE StartDelivery(t)
      <3> DEFINE j == [job[t] EXCEPT !.generation = reset_generation]
      <3>1. job[t] \in JobRecord /\ reset_generation \in Nat /\ EnterAttempt(t, j)
        BY <2>3 DEF TypeOK, StartDelivery
      <3>2. j \in JobRecord /\ j.event = job[t].event
        BY <3>1 DEF JobRecord
      <3> HIDE DEF j
      <3> QED BY <2>3, <3>1, <3>2, EnterAttemptKeeps, PromiseStutters DEF StartDelivery
    <2>4. CASE Interrupt(t)
      BY <2>4, PromiseStutters DEF Interrupt
    <2>5. CASE Wake(t)
      <3>1. [job[t] EXCEPT !.attempt = job[t].attempt + 1].event = job[t].event
        BY DEF TypeOK, JobRecord
      <3>2. \A u \in Task : job'[u].event = job[u].event
        BY <2>5, <3>1 DEF TypeOK, Wake, Announce
      <3> QED BY <2>5, <3>2, PromiseStutters DEF Wake
    <2>6. CASE NextAttempt(t)
      <3>1. job[t] \in JobRecord /\ EnterAttempt(t, job[t])
        BY <2>6 DEF TypeOK, NextAttempt
      <3> QED BY <2>6, <3>1, EnterAttemptKeeps, PromiseStutters DEF NextAttempt
    <2>7. CASE Send(t)
      BY <2>7, PromiseStutters DEF Send
    <2>8. CASE AckResponse(t)
      <3>1. asked[t] # None /\ answer[t] = None
        BY <2>8, NoneAssumption DEF TypeOK, AckResponse, asked, answer
      <3>2. Promise!Learn(t)
        BY <2>8, <3>1 DEF AckResponse, Promise!Learn, asked, answer
      <3> QED BY <3>2 DEF Promise!Next
    <2>9. CASE AttemptFails(t)
      <3>1. PICK j, error : RetryOrFail(t, j, error) /\ j.event = job[t].event
        BY <2>9, AttemptFailsKeeps
      <3>2. \A u \in Task : job'[u].event = job[u].event
        BY <3>1 DEF TypeOK, RetryOrFail
      <3> QED BY <3>1, <3>2, PromiseStutters DEF RetryOrFail
    <2>10. CASE Commit(t)
      BY <2>10, PromiseStutters DEF Commit
    <2>11. CASE Finish(t)
      <3>1. job[t].event \in Event /\ last_downstream_result \in EvidenceRecord \cup {None}
        BY <2>11 DEF TypeOK, Finish
      <3>2. CASE pc[t] = "accepted"
        <4>1. Ack(job[t].event) \in ReplyRecord /\ Ack(job[t].event) # None
          BY <3>1, ReplyType
        <4>2. job[t].event \in downstream_acked
          BY <3>2 DEF AckSound
        <4> QED BY <2>11, <3>2, <4>1, <4>2, PromiseAnswers DEF Finish
      <3>3. CASE pc[t] # "accepted"
        <4> DEFINE r == Error("delivery_failed", job[t].event, last_downstream_result)
        <4>1. r \in ReplyRecord /\ r # None /\ r.type = "ERROR"
          BY <3>1, ReplyType DEF Error
        <4>2. Respond(t, r) /\ pc[t] # "replying" /\ UNCHANGED <<job, downstream_acked>>
          BY <2>11, <3>3 DEF Finish
        <4> HIDE DEF r
        <4> QED BY <4>1, <4>2, PromiseAnswers
      <3> QED BY <3>2, <3>3
    <2>12. CASE Reply(t)
      <3>1. answer[t] # None
        BY <2>12, NoneAssumption, RecordAssumption DEF TypeOK, Reply, answer, ReplyRecord
      <3>2. asked' = [asked EXCEPT ![t] = None] /\ answer' = [answer EXCEPT ![t] = None]
        BY <2>12, NoJobType DEF TypeOK, Reply, asked, answer
      <3>3. Promise!Close(t)
        BY <2>12, <3>1, <3>2 DEF Reply, Promise!Close, asked, answer
      <3> QED BY <3>3 DEF Promise!Next
    <2> QED BY <1>3, <2>1, <2>2, <2>3, <2>4, <2>5, <2>6, <2>7, <2>8, <2>9, <2>10, <2>11, <2>12
            DEF Proceed, AttemptFails
  <1>4. CASE UNCHANGED vars
    BY <1>4, PromiseStutters DEF vars
  <1> QED BY <1>1, <1>2, <1>3, <1>4 DEF Next

\* Seen from the node above, a relay with its retries, its duplicate table, its
\* pauses, resets and restarts is a Hop: it answers at most once, and ACK only for
\* an event acknowledged from below.
THEOREM RelayIsHop == Spec => HopPromise
  <1>1. Init => Promise!Init
    BY DEF Init, Promise!Init, NoJob
  <1> QED BY <1>1, PromiseStep, TypeCorrect, AckSoundness, PTL
          DEF Spec, HopPromise, Promise!Spec

=============================================================================
