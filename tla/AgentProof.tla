------------------------------ MODULE AgentProof ------------------------------
(***************************************************************************)
(* Theorems about the agent, for every set of states the host can be in,   *)
(* every set of reasons relays give, and any number of events.  The        *)
(* invariant has four parts: the types; what an event says of its own      *)
(* failure (Trail); what the agent remembers (Memory); and what its status *)
(* shows (Shown).  The lemmas of the first sections reduce the four ways   *)
(* an attempt to send can end to what the later ones need of them.         *)
(***************************************************************************)
EXTENDS Agent, SequenceTheorems, TLAPS

USE DEF config, status, signatures, HostStateSignature, FaultReported

-----------------------------------------------------------------------------
\* A trace of one entry becomes one of two.
LEMMA AppendSecond ==
    ASSUME NEW x, NEW y PROVE Append(<<x>>, y) = <<x, y>>
<1> DEFINE S == {x, y}
<1>1. <<x>> \in Seq(S) /\ y \in S /\ Len(<<x>>) = 1 /\ <<x>>[1] = x
  OBVIOUS
<1>2. /\ Append(<<x>>, y) \in Seq(S) /\ Len(Append(<<x>>, y)) = 2
      /\ Append(<<x>>, y)[1] = x /\ Append(<<x>>, y)[2] = y
  BY <1>1
<1>3. <<x, y>> \in Seq(S) /\ Len(<<x, y>>) = 2 /\ <<x, y>>[1] = x /\ <<x, y>>[2] = y
  OBVIOUS
<1>4. \A i \in 1..2 : i = 1 \/ i = 2
  OBVIOUS
<1> QED
  BY <1>2, <1>3, <1>4, SeqEqual

-----------------------------------------------------------------------------
(* Types of what the handlers build.                                       *)

\* A state has one fault or none.
LEMMA FaultDetected ==
    ASSUME NEW s PROVE DetectFault(s) \in FaultType \cup {None}
  BY DEF DetectFault, FaultType

LEMMA Selected ==
    ASSUME NEW s, SelectEventType(s) # None
    PROVE  SelectEventType(s) \in FaultType \cup {"HOST_STATE_UPDATE"}
  BY FaultDetected DEF SelectEventType

LEMMA DefaultsTyped == DefaultRouting \in Routings /\ DefaultDetail \in Details
  BY DEF DefaultRouting, Routing, Routings, DefaultDetail, Detail, Details, RouteStates,
         RouteIds, RerouteReason, Nodes

\* The detail that shows routing r of an event; it can be written into the status.
DetailOf(r, id, downstream) == Detail(r.state, r.route, downstream, id, r.suspect, r.reason)

LEMMA DetailTyped ==
    ASSUME NEW r \in Routings, NEW id \in 1..MaxSeq, NEW downstream \in {"r1", "r1b"}
    PROVE  DetailOf(r, id, downstream) \in Details
  BY DEF Routings, DetailOf, Detail, Details

LEMMA EntryTyped ==
    ASSUME NEW from \in Nodes, NEW to \in Nodes, NEW route \in RouteIds,
           NEW result \in SendFailure \cup {"acknowledged", "failed"},
           NEW reason \in RerouteReason
    PROVE  TraceEntry(from, to, route, result, reason) \in TraceEntries
  BY DEF TraceEntry, TraceEntries

\* An event with one entry more in its trace, and with another routing, is an
\* event, and it is about the same state.
LEMMA TracedTyped ==
    ASSUME NEW e \in Event, NEW entry \in TraceEntries
    PROVE  LET t == [e EXCEPT !.trace = Append(@, entry)]
           IN  /\ t \in Event
               /\ t.trace = Append(e.trace, entry)
               /\ t.id = e.id /\ t.host_state = e.host_state /\ t.stale = e.stale
               /\ t.routing = e.routing
  <1>1. e.trace \in Seq(TraceEntries)
    BY DEF Event
  <1>2. Append(e.trace, entry) \in Seq(TraceEntries)
    BY <1>1
  <1> QED
    BY <1>2 DEF Event

LEMMA RoutedTyped ==
    ASSUME NEW e \in Event, NEW r \in Routings
    PROVE  LET t == [e EXCEPT !.routing = r]
           IN  /\ t \in Event
               /\ t.routing = r
               /\ t.id = e.id /\ t.host_state = e.host_state /\ t.stale = e.stale
               /\ t.trace = e.trace
  BY DEF Event

-----------------------------------------------------------------------------
(* How an attempt to send ends.                                            *)

\* The primary route failed before r1 answered, or r1 says that r2 did not answer
\* it; the trace and the routing of the event both say so.
FailedAtR1(e) ==
    \E why \in SendFailure :
        /\ e.trace = << TraceEntry("local-agent", "r1", "primary", why, why) >>
        /\ e.routing = Routing("BYPASS_ACTIVE", "backup", <<"local-agent", "r1">>, "r1", why)

FailedAtR2(e) ==
    \E why \in SendFailure, reason \in Reason :
        /\ e.trace = << TraceEntry("local-agent", "r1", "primary", why, why),
                        TraceEntry("r1", "r2", "primary", "failed", reason) >>
        /\ e.routing = Routing("BYPASS_ACTIVE", "backup", <<"r1", "r2">>, "r2", reason)

Trail ==
    /\ pc = "primary" => event.trace = <<>>
    /\ pc = "backup" => FailedAtR1(event) \/ FailedAtR2(event)

Same(e) == e.id = event.id /\ e.host_state = event.host_state /\ e.stale = event.stale

DetailFor(e) == DetailOf(e.routing, e.id, IF e.routing.route = "backup" THEN "r1b" ELSE "r1")

LEMMA PrimaryAckEnd ==
    ASSUME TypeOK, PrimaryAck
    PROVE  \E e \in Event : Same(e) /\ Delivered(e) /\ last_routing_detail' = DetailFor(e)
<1> DEFINE sent == Traced(event, "r1", "primary", "acknowledged", None)
           e == [sent EXCEPT !.routing = DefaultRouting]
<1>1. event \in Event
  BY DEF PrimaryAck, TypeOK
<1>2. TraceEntry("local-agent", "r1", "primary", "acknowledged", None) \in TraceEntries
  BY EntryTyped DEF Nodes, RouteIds, RerouteReason
<1>3. sent \in Event /\ Same(sent)
  BY <1>1, <1>2, TracedTyped DEF Traced, Same
<1>4. Delivered(e) /\ last_routing_detail' = DetailOf(DefaultRouting, e.id, "r1")
  BY DEF PrimaryAck, DetailOf, DefaultRouting, Routing
<1> HIDE DEF sent
<1>5. e \in Event /\ Same(e) /\ e.routing = DefaultRouting
  BY <1>3, RoutedTyped, DefaultsTyped DEF Same
<1> HIDE DEF e
<1> QED
  BY <1>4, <1>5 DEF DetailFor, DefaultRouting, Routing

LEMMA PrimaryFailsEnd ==
    ASSUME TypeOK, Trail,
           NEW reason \in SendFailure, NEW error,
           error = None \/ error \in EvidenceFromR1,
           PrimaryFails(reason, error)
    PROVE  \E e \in Event :
              /\ Same(e) /\ last_routing_detail' = DetailFor(e)
              /\ \/ /\ event' = e /\ pc' = "backup" /\ e.routing.route = "backup"
                    /\ FailedAtR1(e) \/ FailedAtR2(e)
                    /\ UNCHANGED <<config, seq_no, signatures, latest_input_state,
                                   last_downstream_result, last_emitted_event, acked,
                                   crossed>>
                 \/ NotDelivered(e)
<1> DEFINE valid == Valid(error, event.id)
           hop   == IF valid THEN error.hop ELSE <<"local-agent", "r1">>
           why   == IF valid THEN error.reason ELSE reason
           first == TraceEntry("local-agent", "r1", "primary", reason, reason)
           sent  == Traced(event, "r1", "primary", reason, reason)
           e     == IF valid THEN WithEvidence(sent, error) ELSE sent
           bypass == Routing("BYPASS_ACTIVE", "backup", hop, hop[2], why)
           fail   == Routing("FAILED", "primary", hop, hop[2], why)
           d == [e EXCEPT !.routing = bypass]
           f == [e EXCEPT !.routing = fail]
<1>1. event \in Event /\ event.trace = <<>>
  BY DEF PrimaryFails, TypeOK, Trail
<1>2. first \in TraceEntries
  BY EntryTyped DEF Nodes, RouteIds, RerouteReason
<1>3. sent \in Event /\ Same(sent) /\ sent.trace = <<first>>
  <2>1. sent = [event EXCEPT !.trace = Append(@, first)]
    BY DEF Traced
  <2> HIDE DEF sent, first
  <2>2. sent \in Event /\ Same(sent) /\ sent.trace = Append(event.trace, first)
    BY <1>1, <1>2, <2>1, TracedTyped DEF Same
  <2>3. Append(<<>>, first) = <<first>>
    OBVIOUS
  <2> QED
    BY <1>1, <2>2, <2>3
<1>4. valid => error.hop = <<"r1", "r2">> /\ error.reason \in Reason
  BY DEF Valid, EvidenceFromR1
<1>5. bypass \in Routings /\ fail \in Routings
  <2>1. hop \in Nodes \X Nodes /\ hop[2] \in Nodes /\ why \in RerouteReason
    BY <1>4 DEF Nodes, RerouteReason
  <2> QED
    BY <2>1 DEF Routing, Routings, RouteStates, RouteIds
<1>6. \/ /\ event' = d
         /\ last_routing_detail' = DetailOf(bypass, e.id, "r1b")
         /\ pc' = "backup"
         /\ UNCHANGED <<config, seq_no, signatures, latest_input_state,
                        last_downstream_result, last_emitted_event, acked, crossed>>
      \/ /\ last_routing_detail' = DetailOf(fail, e.id, "r1")
         /\ NotDelivered(f)
  BY DEF PrimaryFails, DetailOf, Routing
<1> HIDE DEF first, sent
<1>7. /\ e \in Event /\ Same(e)
      /\ ~valid => e.trace = <<first>>
      /\ valid => e.trace = <<first, TraceEntry("r1", "r2", "primary", "failed", error.reason)>>
  <2>1. CASE ~valid
    BY <2>1, <1>3
  <2>2. CASE valid
    <3> DEFINE second == TraceEntry("r1", "r2", "primary", "failed", error.reason)
    <3>1. second \in TraceEntries
      BY <1>4, <2>2, EntryTyped DEF Nodes, RouteIds, RerouteReason
    <3>2. e = [sent EXCEPT !.trace = Append(@, second)]
      BY <1>4, <2>2 DEF WithEvidence
    <3> HIDE DEF second, e
    <3>3. e \in Event /\ Same(e) /\ e.trace = Append(sent.trace, second)
      BY <1>3, <3>1, <3>2, TracedTyped DEF Same
    <3>4. Append(<<first>>, second) = <<first, second>>
      BY AppendSecond
    <3> QED
      BY <1>3, <2>2, <3>3, <3>4 DEF second
  <2> QED
    BY <2>1, <2>2
<1>8. bypass.route = "backup" /\ fail.route = "primary"
  BY DEF Routing
<1>9. valid => bypass = Routing("BYPASS_ACTIVE", "backup", <<"r1", "r2">>, "r2", error.reason)
  BY <1>4
<1>10. ~valid => bypass = Routing("BYPASS_ACTIVE", "backup", <<"local-agent", "r1">>, "r1", reason)
  OBVIOUS
<1> HIDE DEF e, bypass, fail, valid
<1>11. /\ d \in Event /\ Same(d) /\ d.id = e.id /\ d.routing = bypass /\ d.trace = e.trace
       /\ f \in Event /\ Same(f) /\ f.id = e.id /\ f.routing = fail
  BY <1>5, <1>7, RoutedTyped DEF Same
<1> HIDE DEF d, f
<1>12. FailedAtR1(d) \/ FailedAtR2(d)
  BY <1>4, <1>7, <1>9, <1>10, <1>11 DEF FailedAtR1, FailedAtR2, first
<1> QED
  BY <1>6, <1>8, <1>11, <1>12 DEF DetailFor

LEMMA BackupAckEnd ==
    ASSUME TypeOK, BackupAck
    PROVE  \E e \in Event : /\ Same(e) /\ Delivered(e)
                            /\ e.routing = event.routing /\ UNCHANGED last_routing_detail
<1> DEFINE e == Traced(event, "r1b", "backup", "acknowledged", None)
<1>1. event \in Event
  BY DEF BackupAck, TypeOK
<1>2. TraceEntry("local-agent", "r1b", "backup", "acknowledged", None) \in TraceEntries
  BY EntryTyped DEF Nodes, RouteIds, RerouteReason
<1>3. e \in Event /\ Same(e) /\ e.routing = event.routing
  BY <1>1, <1>2, TracedTyped DEF Traced, Same
<1>4. Delivered(e) /\ UNCHANGED last_routing_detail
  BY DEF BackupAck
<1> HIDE DEF e
<1> QED
  BY <1>3, <1>4

\* The first entry of the trace is the agent's own, so that the reason it gives is
\* one of its own too.
LEMMA BackupFailsEnd ==
    ASSUME TypeOK, Trail, NEW reason \in SendFailure, BackupFails(reason)
    PROVE  \E e \in Event : Same(e) /\ NotDelivered(e) /\ last_routing_detail' = DetailFor(e)
<1> DEFINE why  == event.trace[1].reason
           fail == Routing("FAILED", "backup", <<"local-agent", "r1b">>, "r1b", why)
           sent == Traced(event, "r1b", "backup", reason, reason)
           e    == [sent EXCEPT !.routing = fail]
<1>1. event \in Event
  BY DEF BackupFails, TypeOK
<1>2. TraceEntry("local-agent", "r1b", "backup", reason, reason) \in TraceEntries
  BY EntryTyped DEF Nodes, RouteIds, RerouteReason
<1>3. sent \in Event /\ Same(sent)
  BY <1>1, <1>2, TracedTyped DEF Traced, Same
<1>4. why \in SendFailure
  <2>1. FailedAtR1(event) \/ FailedAtR2(event)
    BY DEF BackupFails, Trail
  <2>2. CASE FailedAtR1(event)
    BY <2>2 DEF FailedAtR1, TraceEntry
  <2>3. CASE FailedAtR2(event)
    BY <2>3 DEF FailedAtR2, TraceEntry
  <2> QED
    BY <2>1, <2>2, <2>3
<1>5. fail \in Routings /\ fail.route = "backup"
  BY <1>4 DEF Routing, Routings, RouteStates, RouteIds, RerouteReason, Nodes
<1>6. last_routing_detail' = DetailOf(fail, event.id, "r1b") /\ NotDelivered(e)
  BY DEF BackupFails, BackupDetail, DetailOf, Routing
<1> HIDE DEF sent, fail
<1>7. e \in Event /\ Same(e) /\ e.routing = fail
  BY <1>3, <1>5, RoutedTyped DEF Same
<1> HIDE DEF e
<1> QED
  BY <1>5, <1>6, <1>7 DEF DetailFor, Same

-----------------------------------------------------------------------------
(* The invariant.                                                          *)

\* What the agent remembers is the event acknowledged last since the reset, and a
\* fault on its way is news.  A delivery that a reset has crossed spoils both.
Memory ==
    ~crossed =>
        /\ last_host_state_signature = acked
        /\ last_fault_signature = IF acked = None THEN None ELSE DetectFault(acked)
        /\ event # None =>
              /\ ~event.stale
              /\ DetectFault(event.host_state) # None =>
                    DetectFault(event.host_state) # last_fault_signature

\* The status shows the routing of the event on its way over the backup route, and
\* otherwise that of the last event.
Shown ==
    /\ pc = "backup" => event.routing.route = "backup"
    /\ ~crossed /\ pc = "backup" => last_routing_detail = DetailFor(event)
    /\ ~crossed /\ pc # "backup" /\ last_emitted_event # None =>
          last_routing_detail = DetailFor(last_emitted_event)

Invariant == TypeOK /\ Trail /\ Memory /\ SilentOnlyIfReported /\ Shown

LEMMA NothingSent == 0 \in 0..MaxSeq
  BY SeqAssumption

LEMMA InvariantInit == Init => Invariant
<1>1. Init => TypeOK
  BY DefaultsTyped, NothingSent DEF Init, TypeOK
<1>2. Init => Trail /\ Memory /\ SilentOnlyIfReported /\ Shown
  BY NoneAssumption DEF Init, Trail, Memory, SilentOnlyIfReported, Silent, Shown
<1> QED
  BY <1>1, <1>2 DEF Invariant

-----------------------------------------------------------------------------
(* Every way a delivery can end keeps the invariant.                       *)

LEMMA DeliveredKeeps ==
    ASSUME Invariant, event # None, NEW e \in Event,
           Same(e), Delivered(e),
           last_routing_detail' \in Details,
           ~crossed => last_routing_detail' = DetailFor(e)
    PROVE  Invariant'
<1>1. event \in Event /\ e.host_state \in HostState /\ e.host_state # None
  BY NoneAssumption DEF Invariant, TypeOK, Event
<1>2. TypeOK'
  BY <1>1, FaultDetected DEF Invariant, TypeOK, Delivered, Remember
<1>3. Trail'
  BY DEF Delivered, Trail
<1>4. Memory'
  BY <1>1 DEF Invariant, Memory, Delivered, Remember, Same, DetectFault
<1>5. SilentOnlyIfReported'
  BY DEF Delivered, SilentOnlyIfReported, Silent
<1>6. Shown'
  BY DEF Delivered, Shown, DetailFor, DetailOf, Detail
<1> QED
  BY <1>2, <1>3, <1>4, <1>5, <1>6 DEF Invariant

LEMMA NotDeliveredKeeps ==
    ASSUME Invariant, NEW e \in Event, Same(e), NotDelivered(e),
           last_routing_detail' \in Details,
           ~crossed => last_routing_detail' = DetailFor(e)
    PROVE  Invariant'
<1>1. TypeOK'
  BY DEF Invariant, TypeOK, NotDelivered, Forget
<1>2. Trail'
  BY DEF NotDelivered, Trail
<1>3. Memory'
  BY DEF Invariant, Memory, NotDelivered, Forget, DetectFault
<1>4. SilentOnlyIfReported'
  BY DEF NotDelivered, SilentOnlyIfReported, Silent
<1>5. Shown'
  BY DEF NotDelivered, Shown, DetailFor, DetailOf, Detail
<1> QED
  BY <1>1, <1>2, <1>3, <1>4, <1>5 DEF Invariant

LEMMA DetailForTyped ==
    ASSUME NEW e \in Event PROVE DetailFor(e) \in Details
<1>1. e.routing \in Routings /\ e.id \in 1..MaxSeq
  BY DEF Event
<1> QED
  BY <1>1, DetailTyped DEF DetailFor

LEMMA PrimaryKeeps ==
    ASSUME Invariant,
           \/ PrimaryAck
           \/ \E reason \in SendFailure : PrimaryFails(reason, None)
           \/ \E error \in EvidenceFromR1 : PrimaryFails("ack_missing", error)
    PROVE  Invariant'
<1>1. TypeOK /\ Trail /\ event # None
  BY EventAssumption DEF Invariant, PrimaryAck, PrimaryFails, TypeOK
<1>2. CASE PrimaryAck
  <2>1. PICK e \in Event : Same(e) /\ Delivered(e) /\ last_routing_detail' = DetailFor(e)
    BY <1>1, <1>2, PrimaryAckEnd
  <2> QED
    BY <1>1, <2>1, DeliveredKeeps, DetailForTyped
<1>3. ASSUME NEW reason \in SendFailure, NEW error,
             error = None \/ error \in EvidenceFromR1,
             PrimaryFails(reason, error)
      PROVE  Invariant'
  <2>1. PICK e \in Event :
              /\ Same(e) /\ last_routing_detail' = DetailFor(e)
              /\ \/ /\ event' = e /\ pc' = "backup" /\ e.routing.route = "backup"
                    /\ FailedAtR1(e) \/ FailedAtR2(e)
                    /\ UNCHANGED <<config, seq_no, signatures, latest_input_state,
                                   last_downstream_result, last_emitted_event, acked,
                                   crossed>>
                 \/ NotDelivered(e)
    BY <1>1, <1>3, PrimaryFailsEnd
  <2>2. DetailFor(e) \in Details
    BY DetailForTyped
  <2>3. CASE NotDelivered(e)
    BY <2>1, <2>2, <2>3, NotDeliveredKeeps
  <2>4. CASE /\ event' = e /\ pc' = "backup" /\ e.routing.route = "backup"
             /\ FailedAtR1(e) \/ FailedAtR2(e)
             /\ UNCHANGED <<config, seq_no, signatures, latest_input_state,
                            last_downstream_result, last_emitted_event, acked, crossed>>
    <3>1. TypeOK'
      BY <1>1, <2>1, <2>2, <2>4, EventAssumption DEF TypeOK
    <3>2. Trail'
      BY <2>4 DEF Trail, FailedAtR1, FailedAtR2
    <3>3. Memory' /\ SilentOnlyIfReported'
      BY <1>1, <2>1, <2>4 DEF Invariant, Memory, Same, DetectFault, SilentOnlyIfReported
    <3>4. Shown'
      BY <2>1, <2>4 DEF Shown, DetailFor, DetailOf, Detail
    <3> QED
      BY <3>1, <3>2, <3>3, <3>4 DEF Invariant
  <2> QED
    BY <2>1, <2>3, <2>4
<1> QED
  BY <1>2, <1>3 DEF SendFailure

LEMMA BackupKeeps ==
    ASSUME Invariant, BackupAck \/ \E reason \in SendFailure : BackupFails(reason)
    PROVE  Invariant'
<1>1. TypeOK /\ Trail /\ event # None /\ pc = "backup"
  BY EventAssumption DEF Invariant, BackupAck, BackupFails, TypeOK
<1>2. CASE BackupAck
  <2>1. PICK e \in Event : /\ Same(e) /\ Delivered(e)
                           /\ e.routing = event.routing /\ UNCHANGED last_routing_detail
    BY <1>1, <1>2, BackupAckEnd
  <2>2. ~crossed => last_routing_detail' = DetailFor(e)
    BY <1>1, <2>1 DEF Invariant, Shown, DetailFor, Same
  <2>3. last_routing_detail' \in Details
    BY <1>1, <2>1 DEF TypeOK
  <2> QED
    BY <1>1, <2>1, <2>2, <2>3, DeliveredKeeps
<1>3. ASSUME NEW reason \in SendFailure, BackupFails(reason) PROVE Invariant'
  <2>1. PICK e \in Event :
            Same(e) /\ NotDelivered(e) /\ last_routing_detail' = DetailFor(e)
    BY <1>1, <1>3, BackupFailsEnd
  <2> QED
    BY <2>1, DetailForTyped, NotDeliveredKeeps
<1> QED
  BY <1>2, <1>3

LEMMA InvariantStep ==
    ASSUME Invariant, [Next]_vars PROVE Invariant'
<1> USE DEF Invariant
<1>1. ASSUME Poll \/ FetchFailed PROVE Invariant'
  <2>1. TypeOK'
    BY <1>1 DEF TypeOK, Poll, FetchFailed
  <2>2. Trail' /\ Memory' /\ SilentOnlyIfReported'
    BY <1>1 DEF Poll, FetchFailed, Trail, Memory, DetectFault, SilentOnlyIfReported, Silent,
                Reported
  <2>3. Shown'
    BY <1>1 DEF Poll, FetchFailed, Shown, DetailFor, DetailOf, Detail
  <2> QED
    BY <2>1, <2>2, <2>3
<1>2. ASSUME NEW s \in HostState, SuppressFault(s) PROVE Invariant'
  <2>1. TypeOK'
    BY <1>2 DEF TypeOK, SuppressFault
  <2>2. Trail' /\ Memory'
    BY <1>2 DEF SuppressFault, Trail, Memory, DetectFault
  <2>3. SilentOnlyIfReported'
    <3>1. ~crossed => acked # None /\ DetectFault(acked) = DetectFault(s)
      BY <1>2 DEF SuppressFault, SelectEventType, Memory
    <3> QED
      BY <1>2, <3>1 DEF SuppressFault, SilentOnlyIfReported, Reported, DetectFault
  <2>4. Shown'
    BY <1>2 DEF SuppressFault, Shown, DetailFor, DetailOf, Detail
  <2> QED
    BY <2>1, <2>2, <2>3, <2>4
<1>3. ASSUME NEW s \in HostState, NoFault(s) PROVE Invariant'
  <2>1. TypeOK'
    BY <1>3 DEF TypeOK, NoFault
  <2>2. ~crossed => acked = s /\ acked # None /\ DetectFault(acked) = None
    BY <1>3, NoneAssumption DEF NoFault, SelectEventType, Memory
  <2>3. Trail' /\ Memory'
    BY <1>3, <2>2 DEF NoFault, Trail, Memory, DetectFault, TypeOK
  <2>4. SilentOnlyIfReported'
    BY <1>3, <2>2 DEF NoFault, SilentOnlyIfReported, Reported, DetectFault
  <2>5. Shown'
    BY <1>3 DEF NoFault, Shown, DetailFor, DetailOf, Detail
  <2> QED
    BY <2>1, <2>3, <2>4, <2>5
<1>4. ASSUME NEW s \in HostState, Emit(s) PROVE Invariant'
  <2>1. TypeOK'
    <3>1. seq_no + 1 \in 1..MaxSeq
      BY <1>4, SeqAssumption DEF TypeOK, Emit
    <3>2. event' \in Event
      BY <1>4, <3>1, Selected, DefaultsTyped DEF Emit, Event
    <3>3. seq_no' \in 0..MaxSeq
      BY <1>4, <3>1, SeqAssumption DEF Emit
    <3> QED
      BY <1>4, <3>2, <3>3, EventAssumption DEF TypeOK, Emit
  <2>2. Trail' /\ SilentOnlyIfReported'
    BY <1>4 DEF Emit, Trail, SilentOnlyIfReported
  <2>3. Memory'
    <3>1. event'.host_state = s /\ ~event'.stale
      BY <1>4 DEF Emit
    <3>2. DetectFault(s) # None => DetectFault(s) # last_fault_signature
      BY <1>4 DEF Emit, SelectEventType
    <3> QED
      BY <1>4, <3>1, <3>2 DEF Emit, Memory, DetectFault
  <2>4. Shown'
    BY <1>4 DEF Emit, Shown, DetailFor, DetailOf, Detail
  <2> QED
    BY <2>1, <2>2, <2>3, <2>4
<1>5. ASSUME NEW value \in BOOLEAN, SetRunning(value) \/ Restart PROVE Invariant'
  <2>1. TypeOK'
    BY <1>5 DEF TypeOK, SetRunning, Restart
  <2>2. Trail' /\ Memory' /\ SilentOnlyIfReported'
    BY <1>5 DEF SetRunning, Restart, Trail, FailedAtR1, FailedAtR2, Memory, DetectFault,
                SilentOnlyIfReported, Silent, Reported
  <2>3. Shown'
    BY <1>5 DEF SetRunning, Restart, Shown, DetailFor, DetailOf, Detail
  <2> QED
    BY <2>1, <2>2, <2>3
<1>6. ASSUME Reset PROVE Invariant'
  <2>1. CASE event = None
    <3>1. TypeOK'
      BY <1>6, <2>1, DefaultsTyped, NothingSent DEF TypeOK, Reset, ResetState
    <3>2. Trail' /\ Memory' /\ SilentOnlyIfReported' /\ Shown'
      BY <1>6, <2>1, NoneAssumption
      DEF TypeOK, Reset, ResetState, Trail, Memory, SilentOnlyIfReported, Silent, Shown
    <3> QED
      BY <3>1, <3>2
  <2>2. CASE event # None
    <3>1. event' \in Event /\ event' = [event EXCEPT !.stale = TRUE] /\ crossed' = TRUE
      BY <1>6, <2>2 DEF TypeOK, Reset, Event
    <3>2. event'.trace = event.trace /\ event'.routing = event.routing
      BY <2>2, <3>1 DEF TypeOK, Event
    <3>3. TypeOK'
      BY <1>6, <2>2, <3>1, DefaultsTyped, NothingSent, EventAssumption
      DEF TypeOK, Reset, ResetState
    <3>4. Trail'
      BY <1>6, <3>2 DEF Reset, Trail, FailedAtR1, FailedAtR2
    <3>5. Memory' /\ SilentOnlyIfReported'
      BY <3>1 DEF Memory, SilentOnlyIfReported
    <3>6. Shown'
      BY <1>6, <3>1, <3>2 DEF Reset, Shown
    <3> QED
      BY <3>3, <3>4, <3>5, <3>6
  <2> QED
    BY <2>1, <2>2
<1>7. ASSUME Shutdown PROVE Invariant'
  <2>1. TypeOK'
    BY <1>7, DefaultsTyped, NothingSent DEF TypeOK, Shutdown, ResetState
  <2>2. Trail' /\ Memory' /\ SilentOnlyIfReported' /\ Shown'
    BY <1>7, NoneAssumption
    DEF Shutdown, ResetState, Trail, Memory, SilentOnlyIfReported, Silent, Shown
  <2> QED
    BY <2>1, <2>2
<1>8. ASSUME UNCHANGED vars PROVE Invariant'
  <2>1. TypeOK' /\ Trail' /\ Memory' /\ SilentOnlyIfReported'
    BY <1>8 DEF vars, TypeOK, Trail, FailedAtR1, FailedAtR2, Memory, DetectFault,
                SilentOnlyIfReported, Silent, Reported
  <2>2. Shown'
    BY <1>8 DEF vars, Shown, DetailFor, DetailOf, Detail
  <2> QED
    BY <2>1, <2>2
<1> HIDE DEF Invariant
<1> QED
  BY <1>1, <1>2, <1>3, <1>4, <1>5, <1>6, <1>7, <1>8, PrimaryKeeps, BackupKeeps
  DEF Next, Loop

LEMMA InvariantAlways == Spec => []Invariant
  BY InvariantInit, InvariantStep, PTL DEF Spec

-----------------------------------------------------------------------------
(* The theorems.                                                           *)

\* Every variable keeps its type, in particular what goes into events, traces and
\* the status (local_agent.py:175-248).
THEOREM AgentTypeCorrect == Spec => []TypeOK
<1>1. Invariant => TypeOK
  BY DEF Invariant
<1> QED
  BY <1>1, InvariantAlways, PTL

\* The last failed hop of a trace is the one blamed.
LEMMA LastFailureBlamed ==
    ASSUME NEW trace, NEW n \in Nat, n \in FailedEntries(trace),
           \A k \in FailedEntries(trace) : k \in Nat /\ k <= n
    PROVE  FaultLocalization(trace) =
              [hop |-> <<trace[n].from, trace[n].to>>, suspect |-> trace[n].to,
               reason |-> IF trace[n].reason # None THEN trace[n].reason
                          ELSE trace[n].result]
<1> DEFINE failed == FailedEntries(trace)
           m == CHOOSE i \in failed : \A k \in failed : k <= i
<1>1. m \in failed /\ \A k \in failed : k <= m
  OBVIOUS
<1> HIDE DEF m
<1>2. m \in Nat /\ m <= n /\ n <= m
  BY <1>1
<1>3. m = n
  BY <1>2
<1> QED
  BY <1>1, <1>3 DEF FaultLocalization, m

\* The monitor comes to the hop, the suspect and the reason the agent wrote into
\* the routing, and building the trace never raises (local_agent.py:386-432,
\* routing.py:146-173).
THEOREM Localisation == Spec => []LocalisationAgrees
<1>1. ASSUME Invariant PROVE LocalisationAgrees
  <2> SUFFICES ASSUME pc = "backup"
               PROVE  /\ FaultLocalization(AtMonitor(event.trace)) =
                            [hop |-> event.routing.hop, suspect |-> event.routing.suspect,
                             reason |-> event.routing.reason]
                      /\ \A n \in DOMAIN event.trace :
                            AllowedEntry(event.trace[n].from, event.trace[n].to,
                                         event.trace[n].route)
    BY DEF LocalisationAgrees
  <2> DEFINE trace == AtMonitor(event.trace)
             first(why) == TraceEntry("local-agent", "r1", "primary", why, why)
             second(reason) == TraceEntry("r1", "r2", "primary", "failed", reason)
  <2>1. \A why \in SendFailure \cup Reason : why # None
    BY NoneAssumption
  <2>2. ASSUME NEW why \in SendFailure, event.trace = << first(why) >>,
               event.routing =
                  Routing("BYPASS_ACTIVE", "backup", <<"local-agent", "r1">>, "r1", why)
        PROVE  /\ FaultLocalization(trace) =
                     [hop |-> event.routing.hop, suspect |-> event.routing.suspect,
                      reason |-> event.routing.reason]
               /\ \A n \in DOMAIN event.trace :
                     AllowedEntry(event.trace[n].from, event.trace[n].to,
                                  event.trace[n].route)
    <3>1. /\ DOMAIN trace = 1..3 /\ trace[1] = first(why)
          /\ trace[2].result = "forwarded" /\ trace[3].result = "forwarded"
      BY <2>2 DEF AtMonitor, TraceEntry
    <3> HIDE DEF trace
    <3>2. 1 \in FailedEntries(trace) /\ \A k \in FailedEntries(trace) : k \in Nat /\ k <= 1
      BY <3>1 DEF FailedEntries, TraceEntry, SuccessResults, SendFailure
    <3>3. FaultLocalization(trace) =
              [hop |-> <<"local-agent", "r1">>, suspect |-> "r1", reason |-> why]
      BY <2>1, <3>1, <3>2, LastFailureBlamed DEF TraceEntry
    <3>4. \A n \in DOMAIN event.trace :
              AllowedEntry(event.trace[n].from, event.trace[n].to, event.trace[n].route)
      BY <2>2, NoneAssumption
      DEF TraceEntry, AllowedEntry, RouteIdForEdge, PrimaryEdges, RouteIds
    <3> QED
      BY <2>2, <3>3, <3>4 DEF Routing
  <2>3. ASSUME NEW why \in SendFailure, NEW reason \in Reason,
               event.trace = << first(why), second(reason) >>,
               event.routing = Routing("BYPASS_ACTIVE", "backup", <<"r1", "r2">>, "r2", reason)
        PROVE  /\ FaultLocalization(trace) =
                     [hop |-> event.routing.hop, suspect |-> event.routing.suspect,
                      reason |-> event.routing.reason]
               /\ \A n \in DOMAIN event.trace :
                     AllowedEntry(event.trace[n].from, event.trace[n].to,
                                  event.trace[n].route)
    <3>1. /\ DOMAIN trace = 1..4 /\ trace[2] = second(reason)
          /\ trace[3].result = "forwarded" /\ trace[4].result = "forwarded"
      BY <2>3 DEF AtMonitor, TraceEntry
    <3> HIDE DEF trace
    <3>2. 2 \in FailedEntries(trace) /\ \A k \in FailedEntries(trace) : k \in Nat /\ k <= 2
      BY <3>1 DEF FailedEntries, TraceEntry, SuccessResults
    <3>3. FaultLocalization(trace) =
              [hop |-> <<"r1", "r2">>, suspect |-> "r2", reason |-> reason]
      BY <2>1, <3>1, <3>2, LastFailureBlamed DEF TraceEntry
    <3>4. \A n \in DOMAIN event.trace :
              AllowedEntry(event.trace[n].from, event.trace[n].to, event.trace[n].route)
      BY <2>3, NoneAssumption
      DEF TraceEntry, AllowedEntry, RouteIdForEdge, PrimaryEdges, RouteIds
    <3> QED
      BY <2>3, <3>3, <3>4 DEF Routing
  <2> QED
    BY <1>1, <2>2, <2>3 DEF Invariant, Trail, FailedAtR1, FailedAtR2
<1> QED
  BY <1>1, InvariantAlways, PTL

\* Between two polls the status shows the routing of the last event emitted
\* (local_agent.py:204-224 and 283-299).
THEOREM DetailAgreement == Spec => []DetailAgrees
<1>1. Invariant => DetailAgrees
  BY DEF Invariant, Shown, DetailAgrees, DetailFor, DetailOf, Detail
<1> QED
  BY <1>1, InvariantAlways, PTL

\* The agent keeps silent only about a state it has reported, however deliveries,
\* pauses, failed polls and resets outside a delivery are mixed
\* (local_agent.py:119-173 and 498-560).
THEOREM Silence == Spec => []SilentOnlyIfReported
<1>1. Invariant => SilentOnlyIfReported
  BY DEF Invariant
<1> QED
  BY <1>1, InvariantAlways, PTL

LEMMA NoRepetitionStep ==
    ASSUME Invariant
    PROVE  [Acknowledges /\ acked # None /\ ~crossed =>
                \/ DetectFault(event.host_state) = None
                \/ DetectFault(event.host_state) # DetectFault(acked)]_vars
<1>1. ASSUME Acknowledges, acked # None, ~crossed
      PROVE  \/ DetectFault(event.host_state) = None
             \/ DetectFault(event.host_state) # DetectFault(acked)
  BY <1>1 DEF Invariant, Memory, Acknowledges
<1> QED
  BY <1>1

\* Between two resets no fault is acknowledged twice in a row
\* (local_agent.py:119-131 and 533-545).
THEOREM NoRepetition == Spec => NoRepeatedFault
  BY InvariantAlways, NoRepetitionStep, PTL DEF Spec, NoRepeatedFault

=============================================================================
