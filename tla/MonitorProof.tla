----------------------------- MODULE MonitorProof -----------------------------
(***************************************************************************)
(* Theorems about the monitor, for every set of connections, hosts and     *)
(* contents of events, every size of the log and of the recent list, and   *)
(* any number of events received.                                          *)
(***************************************************************************)
EXTENDS Monitor, FiniteSetTheorems, TLAPS

USE DEF log, tables

-----------------------------------------------------------------------------
(* Type correctness and the windows.                                       *)

LEMMA EventIdType ==
    ASSUME NEW e \in Event
    PROVE  EventId(e) \in Id
  BY DEF Event, EventId, Id

\* A bounded deque stays within its bound at either end.
LEMMA BoundedAppendType ==
    ASSUME NEW S, NEW q \in Seq(S), NEW x \in S, NEW limit \in Nat \ {0}, Len(q) <= limit
    PROVE  /\ BoundedAppend(q, x, limit) \in Seq(S)
           /\ Len(BoundedAppend(q, x, limit)) <= limit
  <1>1. CASE Len(q) < limit
    BY <1>1 DEF BoundedAppend
  <1>2. CASE ~(Len(q) < limit)
    <2>1. q # <<>>
      BY <1>2
    <2>2. Tail(q) \in Seq(S) /\ Len(Tail(q)) = Len(q) - 1
      BY <2>1
    <2> QED BY <1>2, <2>2 DEF BoundedAppend
  <1> QED BY <1>1, <1>2

LEMMA BoundedAppendLeftType ==
    ASSUME NEW S, NEW q \in Seq(S), NEW x \in S, NEW limit \in Nat \ {0}, Len(q) <= limit
    PROVE  /\ BoundedAppendLeft(q, x, limit) \in Seq(S)
           /\ Len(BoundedAppendLeft(q, x, limit)) <= limit
  <1>1. <<x>> \in Seq(S) /\ Len(<<x>>) = 1
    OBVIOUS
  <1>2. CASE Len(q) < limit
    <2>1. <<x>> \o q \in Seq(S) /\ Len(<<x>> \o q) = 1 + Len(q)
      BY <1>1
    <2> QED BY <1>2, <2>1 DEF BoundedAppendLeft
  <1>3. CASE ~(Len(q) < limit)
    <2>1. Len(q) \in Nat /\ Len(q) = limit
      BY <1>3
    <2>2. Front(q) \in Seq(S) /\ Len(Front(q)) = Len(q) - 1
      BY <2>1 DEF Front
    <2>3. <<x>> \o Front(q) \in Seq(S) /\ Len(<<x>> \o Front(q)) = Len(q)
      BY <1>1, <2>1, <2>2
    <2> QED BY <1>3, <2>1, <2>3 DEF BoundedAppendLeft
  <1> QED BY <1>2, <1>3

\* The empty tables have their types.
LEMMA EmptyTypes ==
    /\ <<>> \in Seq(Event) /\ <<>> \in Seq(Id) /\ Len(<<>>) = 0
    /\ [h \in Host |-> None] \in [Host -> Event \cup {None}]
    /\ [h \in Host |-> 0] \in [Host -> 0..MaxSeq]
  <1>1. 0 \in 0..MaxSeq
    BY BoundAssumption
  <1> QED BY <1>1

LEMMA TypeInit == Init => TypeOK
  <1> SUFFICES ASSUME Init PROVE TypeOK
    OBVIOUS
  <1>1. /\ event_log \in Seq(Event) /\ recent_events \in Seq(Id) /\ arrived \in Seq(Event)
        /\ Len(event_log) <= LogLimit /\ Len(recent_events) <= RecentLimit
    BY LimitAssumption, EmptyTypes DEF Init
  <1>2. /\ host_state_table \in [Host -> Event \cup {None}]
        /\ last_seq_by_host \in [Host -> 0..MaxSeq]
    BY EmptyTypes DEF Init
  <1>3. /\ pc \in [Task -> {"idle", "responding"}]
        /\ job \in [Task -> Id \cup {None}]
        /\ reply \in [Task -> {"ACK", "ERROR", None}]
    BY DEF Init
  <1> QED BY <1>1, <1>2, <1>3 DEF Init, TypeOK

LEMMA ResetStateType ==
    ASSUME ResetState
    PROVE  /\ received_id_cache' \subseteq Id
           /\ event_log' \in Seq(Event) /\ Len(event_log') <= LogLimit
           /\ recent_events' \in Seq(Id) /\ Len(recent_events') <= RecentLimit
           /\ total_logged' \in Nat /\ duplicate_count' \in Nat /\ out_of_order_count' \in Nat
           /\ host_state_table' \in [Host -> Event \cup {None}]
           /\ last_seq_by_host' \in [Host -> 0..MaxSeq]
           /\ drop_next_ack' \in BOOLEAN
           /\ arrived' \in Seq(Event)
  <1>1. /\ event_log' \in Seq(Event) /\ recent_events' \in Seq(Id) /\ arrived' \in Seq(Event)
        /\ Len(event_log') <= LogLimit /\ Len(recent_events') <= RecentLimit
    BY LimitAssumption, EmptyTypes DEF ResetState
  <1>2. /\ host_state_table' \in [Host -> Event \cup {None}]
        /\ last_seq_by_host' \in [Host -> 0..MaxSeq]
    BY EmptyTypes DEF ResetState
  <1> QED BY <1>1, <1>2 DEF ResetState

LEMMA RespondType ==
    ASSUME TypeOK, NEW t \in Task, NEW id \in Id \cup {None},
           NEW response \in {"ACK", "ERROR", None}, Respond(t, id, response)
    PROVE  /\ pc' \in [Task -> {"idle", "responding"}]
           /\ job' \in [Task -> Id \cup {None}]
           /\ reply' \in [Task -> {"ACK", "ERROR", None}]
  BY DEF TypeOK, Respond

LEMMA TakeInType ==
    ASSUME TypeOK, NEW t \in Task, NEW e \in Event, TakeIn(t, e)
    PROVE  /\ stopped = FALSE /\ drop_next_ack' \in BOOLEAN
           /\ arrived' \in Seq(Event)
           /\ pc' \in [Task -> {"idle", "responding"}]
           /\ job' \in [Task -> Id \cup {None}]
           /\ reply' \in [Task -> {"ACK", "ERROR", None}]
  <1>1. Respond(t, EventId(e), IF drop_next_ack THEN None ELSE "ACK")
    BY DEF TakeIn, Acknowledge
  <1>2. arrived' \in Seq(Event)
    BY DEF TypeOK, TakeIn
  <1> QED BY <1>1, <1>2, EventIdType, RespondType DEF TypeOK, TakeIn, Acknowledge

LEMMA TypeStep ==
    ASSUME TypeOK, [Next]_vars
    PROVE  TypeOK'
  <1> USE LimitAssumption, BoundAssumption
  <1>1. ASSUME NEW value \in BOOLEAN, SetRunning(value) PROVE TypeOK'
    BY <1>1 DEF SetRunning, TypeOK
  <1>2. CASE DropNextAck
    BY <1>2 DEF DropNextAck, TypeOK
  <1>3. CASE Reset
    BY <1>3, ResetStateType DEF Reset, TypeOK
  <1>4. CASE Shutdown
    BY <1>4, ResetStateType DEF Shutdown, TypeOK
  <1>5. CASE Restart
    BY <1>5 DEF Restart, TypeOK
  <1>6. ASSUME NEW t \in Task, Refuse(t) PROVE TypeOK'
    BY <1>6, RespondType DEF Refuse, TypeOK
  <1>7. ASSUME NEW t \in Task, Reply(t) PROVE TypeOK'
    BY <1>7 DEF Reply, TypeOK
  <1>8. ASSUME NEW t \in Task, NEW e \in Event, Duplicate(t, e) PROVE TypeOK'
    <2>1. TakeIn(t, e)
      BY <1>8 DEF Duplicate
    <2>2. /\ stopped' = stopped /\ running' = running
          /\ UNCHANGED <<log, host_state_table, last_seq_by_host, out_of_order_count, ever_logged>>
          /\ duplicate_count' \in Nat
      BY <1>8 DEF Duplicate, TypeOK
    <2>3. /\ drop_next_ack' \in BOOLEAN /\ arrived' \in Seq(Event)
          /\ pc' \in [Task -> {"idle", "responding"}]
          /\ job' \in [Task -> Id \cup {None}]
          /\ reply' \in [Task -> {"ACK", "ERROR", None}]
      BY <2>1, TakeInType
    <2> QED BY <2>2, <2>3 DEF TypeOK
  <1>9. ASSUME NEW t \in Task, NEW e \in Event, Record(t, e) PROVE TypeOK'
    <2>1. TakeIn(t, e)
      BY <1>9 DEF Record
    <2>2. /\ event_log' \in Seq(Event) /\ Len(event_log') <= LogLimit
          /\ recent_events' \in Seq(Id) /\ Len(recent_events') <= RecentLimit
      BY <1>9, EventIdType, BoundedAppendType, BoundedAppendLeftType DEF Record, TypeOK
    <2>3. e.host \in Host /\ e.seq \in 1..MaxSeq /\ last_seq_by_host[e.host] \in 0..MaxSeq
      BY DEF Event, TypeOK
    <2>4. last_seq_by_host' \in [Host -> 0..MaxSeq]
      BY <1>9, <2>3 DEF Record, HighestSeq, TypeOK
    <2>5. host_state_table' \in [Host -> Event \cup {None}]
      BY <1>9 DEF Record, TypeOK
    <2>6. out_of_order_count' \in Nat /\ total_logged' \in Nat /\ duplicate_count' \in Nat
      BY <1>9 DEF Record, TypeOK
    <2>7. received_id_cache' \subseteq Id /\ ever_logged' \subseteq Id
      BY <1>9, EventIdType DEF Record, TypeOK
    <2>8. stopped' \in BOOLEAN /\ running' \in BOOLEAN
      BY <1>9 DEF Record, TypeOK
    <2> QED BY <2>1, <2>2, <2>4, <2>5, <2>6, <2>7, <2>8, TakeInType DEF TypeOK
  <1>10. CASE UNCHANGED vars
    BY <1>10 DEF vars, TypeOK
  <1> QED BY <1>1, <1>2, <1>3, <1>4, <1>5, <1>6, <1>7, <1>8, <1>9, <1>10 DEF Next

\* The log and the recent list keep to their limits and the tables to their types,
\* whatever arrives and however often the monitor is reset or restarted
\* (the deques of monitor.py:22-25).
THEOREM MonitorTypeCorrect == Spec => []TypeOK
  <1> QED BY TypeInit, TypeStep, PTL DEF Spec

-----------------------------------------------------------------------------
(* The log and the counts.                                                 *)

\* The entries of a bounded deque after an append at either end.
LEMMA BoundedAppendEntries ==
    ASSUME NEW S, NEW q \in Seq(S), NEW x \in S, NEW limit \in Nat \ {0}, Len(q) <= limit,
           NEW r, r = BoundedAppend(q, x, limit)
    PROVE  /\ Len(q) \in Nat
           /\ Len(r) = IF Len(q) < limit THEN Len(q) + 1 ELSE limit
           /\ r[Len(r)] = x
           /\ \A n \in 1..(Len(r) - 1) : r[n] = q[n + Len(q) + 1 - Len(r)]
  <1>1. CASE Len(q) < limit
    BY <1>1 DEF BoundedAppend
  <1>2. CASE ~(Len(q) < limit)
    <2>1. /\ q # <<>> /\ Tail(q) \in Seq(S) /\ Len(Tail(q)) = Len(q) - 1 /\ Len(q) = limit
          /\ \A n \in 1..(Len(q) - 1) : Tail(q)[n] = q[n + 1]
      BY <1>2
    <2>2. r = Append(Tail(q), x)
      BY <1>2 DEF BoundedAppend
    <2>3. /\ Len(r) = Len(q) /\ r[Len(r)] = x
          /\ \A n \in 1..(Len(q) - 1) : r[n] = Tail(q)[n]
      BY <2>1, <2>2
    <2> QED BY <1>2, <2>1, <2>3
  <1> QED BY <1>1, <1>2

LEMMA BoundedAppendLeftEntries ==
    ASSUME NEW S, NEW q \in Seq(S), NEW x \in S, NEW limit \in Nat \ {0}, Len(q) <= limit,
           NEW r, r = BoundedAppendLeft(q, x, limit)
    PROVE  /\ Len(q) \in Nat
           /\ Len(r) = IF Len(q) < limit THEN Len(q) + 1 ELSE limit
           /\ r[1] = x
           /\ \A n \in 2..Len(r) : r[n] = q[n - 1]
  <1>1. <<x>> \in Seq(S) /\ Len(<<x>>) = 1 /\ <<x>>[1] = x
    OBVIOUS
  <1>2. CASE Len(q) < limit
    <2>1. r = <<x>> \o q
      BY <1>2 DEF BoundedAppendLeft
    <2> QED BY <1>1, <1>2, <2>1
  <1>3. CASE ~(Len(q) < limit)
    <2>0. Len(q) \in Nat /\ Len(q) = limit
      BY <1>3
    <2>1. /\ Front(q) \in Seq(S) /\ Len(Front(q)) = Len(q) - 1 /\ Len(q) = limit
          /\ \A n \in 1..(Len(q) - 1) : Front(q)[n] = q[n]
      <3>1. Front(q) \in Seq(S) /\ Len(Front(q)) = Len(q) - 1
        BY <2>0 DEF Front
      <3>2. \A n \in 1..(Len(q) - 1) : Front(q)[n] = q[n]
        BY <2>0 DEF Front
      <3> QED BY <2>0, <3>1, <3>2
    <2>2. r = <<x>> \o Front(q)
      BY <1>3 DEF BoundedAppendLeft
    <2>3. /\ Len(r) = Len(q) /\ r[1] = x
          /\ \A n \in 2..Len(q) : r[n] = Front(q)[n - 1]
      BY <1>1, <2>1, <2>2
    <2> QED BY <1>3, <2>1, <2>3
  <1> QED BY <1>2, <1>3

\* The events taken in, by their places.
LEMMA Places ==
    ASSUME TypeOK
    PROVE  /\ Len(arrived) \in Nat /\ DOMAIN arrived = 1..Len(arrived)
           /\ \A i \in DOMAIN arrived : arrived[i] \in Event
           /\ FirstCopies \subseteq 1..Len(arrived)
           /\ IsFiniteSet(FirstCopies) /\ Cardinality(FirstCopies) \in Nat
  <1>1. Len(arrived) \in Nat /\ DOMAIN arrived = 1..Len(arrived)
    BY DEF TypeOK
  <1>2. \A i \in DOMAIN arrived : arrived[i] \in Event
    BY DEF TypeOK
  <1>3. FirstCopies \in SUBSET (1..Len(arrived))
    BY <1>1 DEF FirstCopies
  <1>4. IsFiniteSet(1..Len(arrived))
    BY <1>1, FS_Interval
  <1>5. IsFiniteSet(FirstCopies)
    BY <1>3, <1>4, FS_Subset
  <1> QED BY <1>1, <1>2, <1>3, <1>5, FS_CardinalityType

LEMMA Arrives ==
    ASSUME TypeOK, NEW e \in Event, arrived' = Append(arrived, e)
    PROVE  /\ Len(arrived') = Len(arrived) + 1
           /\ DOMAIN arrived' = 1..(Len(arrived) + 1)
           /\ \A i \in 1..Len(arrived) : arrived'[i] = arrived[i]
           /\ arrived'[Len(arrived) + 1] = e
  BY DEF TypeOK

\* The ids known are those of the events taken in.
Cached == received_id_cache = {EventId(arrived[i]) : i \in DOMAIN arrived}

\* An event that arrives is a first copy exactly if its id is not known.
LEMMA FirstCopiesAfter ==
    ASSUME TypeOK, Cached, NEW e \in Event, arrived' = Append(arrived, e)
    PROVE  FirstCopies' = IF EventId(e) \in received_id_cache THEN FirstCopies
                          ELSE FirstCopies \cup {Len(arrived) + 1}
  <1> DEFINE L == Len(arrived)
  <1>1. /\ L \in Nat /\ DOMAIN arrived = 1..L /\ DOMAIN arrived' = 1..(L + 1)
        /\ \A i \in 1..L : arrived'[i] = arrived[i]
        /\ arrived'[L + 1] = e
    BY Places, Arrives
  <1>2. FirstCopies' = {i \in 1..(L + 1) :
            \A k \in 1..(i - 1) : EventId(arrived'[k]) # EventId(arrived'[i])}
    BY <1>1 DEF FirstCopies, EventId
  <1>3. FirstCopies = {i \in 1..L :
            \A k \in 1..(i - 1) : EventId(arrived[k]) # EventId(arrived[i])}
    BY <1>1 DEF FirstCopies
  <1>4. \A i \in 1..L : i \in FirstCopies' <=> i \in FirstCopies
    BY <1>1, <1>2, <1>3
  <1>5. L + 1 \in FirstCopies' <=> \A k \in 1..L : EventId(arrived[k]) # EventId(e)
    BY <1>1, <1>2
  <1>6. EventId(e) \in received_id_cache <=> \E k \in 1..L : EventId(arrived[k]) = EventId(e)
    BY <1>1 DEF Cached
  <1>7. FirstCopies' \subseteq 1..(L + 1) /\ FirstCopies \subseteq 1..L
    BY <1>2, <1>3
  <1>8. L + 1 \in FirstCopies' <=> EventId(e) \notin received_id_cache
    BY <1>5, <1>6
  <1> HIDE DEF L
  <1>9. L \in Nat /\ \A i \in 1..(L + 1) : i \in 1..L \/ i = L + 1
    BY <1>1
  <1>10. CASE EventId(e) \in received_id_cache
    <2>1. FirstCopies' = FirstCopies
      BY <1>4, <1>7, <1>8, <1>9, <1>10
    <2> QED BY <1>10, <2>1
  <1>11. CASE EventId(e) \notin received_id_cache
    <2>1. FirstCopies' = FirstCopies \cup {L + 1}
      BY <1>4, <1>7, <1>8, <1>9, <1>11
    <2> QED BY <1>11, <2>1 DEF L
  <1> QED BY <1>10, <1>11

LEMMA CachedAfter ==
    ASSUME TypeOK, Cached, NEW e \in Event, arrived' = Append(arrived, e),
           received_id_cache' = received_id_cache \cup {EventId(e)}
    PROVE  Cached'
  <1> DEFINE L == Len(arrived)
  <1>1. /\ L \in Nat /\ DOMAIN arrived = 1..L /\ DOMAIN arrived' = 1..(L + 1)
        /\ \A i \in 1..L : arrived'[i] = arrived[i]
        /\ arrived'[L + 1] = e
    BY Places, Arrives
  <1>2. {EventId(arrived'[i]) : i \in 1..(L + 1)}
            = {EventId(arrived[i]) : i \in 1..L} \cup {EventId(e)}
    BY <1>1
  <1>3. Cached' <=> received_id_cache' = {EventId(arrived'[i]) : i \in DOMAIN arrived'}
    BY DEF Cached, EventId
  <1> QED BY <1>1, <1>2, <1>3 DEF Cached

\* A list of places grows by the last of them.
LEMMA ListingGrows ==
    ASSUME NEW N \in Nat, NEW places \in SUBSET (1..N), IsFiniteSet(places),
           NEW at \in Listings(places), NEW C, C = Cardinality(places),
           NEW new \in [1..(C + 1) -> places \cup {N + 1}],
           \A n \in 1..C : new[n] = at[n],
           new[C + 1] = N + 1
    PROVE  /\ Cardinality(places \cup {N + 1}) = C + 1
           /\ new \in Listings(places \cup {N + 1})
  <1>1. C \in Nat
    BY FS_CardinalityType
  <1>2. Cardinality(places \cup {N + 1}) = C + 1
    <2>1. N + 1 \notin places
      OBVIOUS
    <2> QED BY <2>1, FS_AddElement
  <1>3. at \in [1..C -> places] /\ \A m, n \in 1..C : m < n => at[m] < at[n]
    BY DEF Listings
  <1>5. \A m, n \in 1..(C + 1) : m < n => new[m] < new[n]
    <2>1. \A n \in 1..C : at[n] \in 1..N
      BY <1>3
    <2> QED BY <1>1, <1>3, <2>1
  <1> QED BY <1>2, <1>5 DEF Listings

\* What makes the log exact is that the cache is.
LogBook == Cached /\ LogExact

LEMMA EmptyLog ==
    ASSUME NEW none, none = <<>>,
           received_id_cache = {}, event_log = none, total_logged = 0, recent_events = none,
           duplicate_count = 0, arrived = none
    PROVE  LogBook
  <1>1. DOMAIN arrived = {} /\ DOMAIN event_log = {} /\ DOMAIN recent_events = {}
        /\ Len(arrived) = 0 /\ Len(event_log) = 0 /\ Len(recent_events) = 0
    OBVIOUS
  <1>2. FirstCopies = {} /\ Cached
    BY <1>1 DEF FirstCopies, Cached
  <1>3. Cardinality({}) = 0
    BY FS_EmptySet
  <1>4. [n \in 1..0 |-> n] \in Listings({})
    BY <1>3 DEF Listings
  <1> QED BY <1>1, <1>2, <1>3, <1>4, LimitAssumption DEF LogBook, LogExact, Smaller

\* A new event extends the list of first copies, the log and the recent list.
LEMMA RecordedExactly ==
    ASSUME TypeOK, LogBook, NEW t \in Task, NEW e \in Event, Record(t, e)
    PROVE  LogBook'
  <1> DEFINE C == Cardinality(FirstCopies)
             L == Len(arrived)
  <1>1. /\ arrived' = Append(arrived, e) /\ EventId(e) \notin received_id_cache
        /\ received_id_cache' = received_id_cache \cup {EventId(e)}
        /\ total_logged' = total_logged + 1 /\ duplicate_count' = duplicate_count
        /\ event_log' = BoundedAppend(event_log, e, LogLimit)
        /\ recent_events' = BoundedAppendLeft(recent_events, EventId(e), RecentLimit)
    BY DEF Record, TakeIn, IsDuplicate
  <1>2. /\ L \in Nat /\ FirstCopies \subseteq 1..L /\ IsFiniteSet(FirstCopies) /\ C \in Nat
        /\ Len(arrived') = L + 1
        /\ \A i \in 1..L : arrived'[i] = arrived[i]
        /\ arrived'[L + 1] = e
    BY <1>1, Places, Arrives
  <1>3. FirstCopies' = FirstCopies \cup {L + 1}
    BY <1>1, FirstCopiesAfter DEF LogBook
  <1>4. PICK first \in Listings(FirstCopies) :
            /\ \A n \in DOMAIN event_log :
                  event_log[n] = arrived[first[total_logged - Len(event_log) + n]]
            /\ \A n \in DOMAIN recent_events :
                  recent_events[n] = EventId(arrived[first[total_logged + 1 - n]])
    BY DEF LogBook, LogExact
  <1>5. /\ total_logged = C /\ duplicate_count = L - total_logged
        /\ Len(event_log) = Smaller(C, LogLimit)
        /\ Len(recent_events) = Smaller(C, RecentLimit)
    BY DEF LogBook, LogExact
  <1> DEFINE new == [n \in 1..(C + 1) |-> IF n <= C THEN first[n] ELSE L + 1]
  <1>6. /\ Cardinality(FirstCopies') = C + 1 /\ new \in Listings(FirstCopies')
        /\ \A n \in 1..C : new[n] = first[n]
        /\ new[C + 1] = L + 1
    <2>1. FirstCopies \in SUBSET (1..L)
      BY <1>2
    <2>2. first \in [1..C -> FirstCopies]
      BY DEF Listings
    <2> HIDE DEF C, L
    <2>3. C \in Nat /\ L \in Nat
      BY <1>2 DEF C, L
    <2>4. /\ new \in [1..(C + 1) -> FirstCopies \cup {L + 1}]
          /\ \A n \in 1..C : new[n] = first[n]
          /\ new[C + 1] = L + 1
      BY <2>2, <2>3
    <2> HIDE DEF new
    <2>5. /\ Cardinality(FirstCopies \cup {L + 1}) = C + 1
          /\ new \in Listings(FirstCopies \cup {L + 1})
      <3>1. C = Cardinality(FirstCopies) /\ FirstCopies \in SUBSET (1..L)
        BY <2>1 DEF C, L
      <3> QED BY <1>2, <2>3, <2>4, <3>1, ListingGrows
    <2> QED BY <1>3, <2>4, <2>5 DEF C, L
  <1>7. \A n \in 1..C : first[n] \in 1..L
    BY <1>2 DEF Listings
  <1> HIDE DEF C, L, new
  <1>8. \A n \in 1..C : arrived'[new[n]] = arrived[first[n]]
    BY <1>2, <1>6, <1>7
  <1>9. arrived'[new[C + 1]] = e
    BY <1>2, <1>6
  <1>10. /\ Len(event_log') = Smaller(C + 1, LogLimit)
         /\ \A n \in DOMAIN event_log' : event_log'[n] = arrived'[new[C + 1 - Len(event_log') + n]]
    <2>1. event_log \in Seq(Event) /\ Len(event_log) <= LogLimit /\ LogLimit \in Nat \ {0}
      BY LimitAssumption DEF TypeOK
    <2>2. event_log' \in Seq(Event)
      BY <1>1, <2>1, BoundedAppendType
    <2>3. /\ Len(event_log) \in Nat
          /\ Len(event_log') = IF Len(event_log) < LogLimit THEN Len(event_log) + 1 ELSE LogLimit
          /\ event_log'[Len(event_log')] = e
          /\ \A n \in 1..(Len(event_log') - 1) :
                event_log'[n] = event_log[n + Len(event_log) + 1 - Len(event_log')]
      BY <1>1, <2>1, BoundedAppendEntries
    <2>4. Len(event_log') = Smaller(C + 1, LogLimit)
      BY <1>2, <1>5, <2>1, <2>3 DEF Smaller
    <2>5. DOMAIN event_log' = 1..Len(event_log') /\ DOMAIN event_log = 1..Len(event_log)
      BY <2>1, <2>2
    <2>6. ASSUME NEW n \in 1..(Len(event_log') - 1)
          PROVE  event_log'[n] = arrived'[new[C + 1 - Len(event_log') + n]]
      <3> DEFINE m == n + Len(event_log) + 1 - Len(event_log')
      <3>1. m \in 1..Len(event_log)
        BY <2>1, <2>3
      <3>2. event_log'[n] = event_log[m]
        BY <2>3
      <3>3. event_log[m] = arrived[first[total_logged - Len(event_log) + m]]
        BY <1>4, <2>5, <3>1
      <3>4. total_logged - Len(event_log) + m = C + 1 - Len(event_log') + n
        BY <1>2, <1>5, <2>1, <2>3, <2>4
      <3>5. C + 1 - Len(event_log') + n \in 1..C
        <4>1. Len(event_log') \in Nat /\ Len(event_log') <= C + 1
          BY <1>2, <2>1, <2>3, <2>4 DEF Smaller
        <4> QED BY <1>2, <4>1
      <3> QED BY <1>8, <3>2, <3>3, <3>4, <3>5
    <2>7. event_log'[Len(event_log')] = arrived'[new[C + 1 - Len(event_log') + Len(event_log')]]
      <3>1. C + 1 - Len(event_log') + Len(event_log') = C + 1
        BY <1>2, <2>1, <2>3
      <3> QED BY <1>9, <2>3, <3>1
    <2>8. \A n \in 1..Len(event_log') : n \in 1..(Len(event_log') - 1) \/ n = Len(event_log')
      BY <2>1, <2>3
    <2> QED BY <2>4, <2>5, <2>6, <2>7, <2>8
  <1>11. /\ Len(recent_events') = Smaller(C + 1, RecentLimit)
         /\ \A n \in DOMAIN recent_events' :
               recent_events'[n] = EventId(arrived'[new[C + 1 + 1 - n]])
    <2>1. recent_events \in Seq(Id) /\ Len(recent_events) <= RecentLimit /\ RecentLimit \in Nat \ {0}
      BY LimitAssumption DEF TypeOK
    <2>2. recent_events' \in Seq(Id)
      BY <1>1, <2>1, EventIdType, BoundedAppendLeftType
    <2>3. /\ Len(recent_events) \in Nat
          /\ Len(recent_events')
                = IF Len(recent_events) < RecentLimit THEN Len(recent_events) + 1 ELSE RecentLimit
          /\ recent_events'[1] = EventId(e)
          /\ \A n \in 2..Len(recent_events') : recent_events'[n] = recent_events[n - 1]
      BY <1>1, <2>1, EventIdType, BoundedAppendLeftEntries
    <2>4. Len(recent_events') = Smaller(C + 1, RecentLimit)
      BY <1>2, <1>5, <2>1, <2>3 DEF Smaller
    <2>5. DOMAIN recent_events' = 1..Len(recent_events') /\ DOMAIN recent_events = 1..Len(recent_events)
      BY <2>1, <2>2
    <2>6. ASSUME NEW n \in 2..Len(recent_events')
          PROVE  recent_events'[n] = EventId(arrived'[new[C + 1 + 1 - n]])
      <3>1. n - 1 \in 1..Len(recent_events)
        BY <2>1, <2>3
      <3>2. recent_events[n - 1] = EventId(arrived[first[total_logged + 1 - (n - 1)]])
        BY <1>4, <2>5, <3>1
      <3>3. total_logged + 1 - (n - 1) = C + 1 + 1 - n
        BY <1>2, <1>5
      <3>4. C + 1 + 1 - n \in 1..C
        BY <1>2, <2>1, <2>3, <2>4 DEF Smaller
      <3> QED BY <1>8, <2>3, <3>2, <3>3, <3>4
    <2>7. recent_events'[1] = EventId(arrived'[new[C + 1 + 1 - 1]])
      <3>1. C + 1 + 1 - 1 = C + 1
        BY <1>2
      <3> QED BY <1>9, <2>3, <3>1
    <2>8. \A n \in 1..Len(recent_events') : n \in 2..Len(recent_events') \/ n = 1
      BY <2>1, <2>3
    <2> QED BY <2>4, <2>5, <2>6, <2>7, <2>8
  <1>12. total_logged' = C + 1 /\ duplicate_count' = Len(arrived') - total_logged'
    BY <1>1, <1>2, <1>5
  <1>13. LogExact'
    <2>1. \E f \in Listings(FirstCopies') :
             /\ \A n \in DOMAIN event_log' :
                   event_log'[n] = arrived'[f[total_logged' - Len(event_log') + n]]
             /\ \A n \in DOMAIN recent_events' :
                   recent_events'[n] = EventId(arrived'[f[total_logged' + 1 - n]])
      <3>0. total_logged' = C + 1
        BY <1>12
      <3>1. ASSUME NEW n \in DOMAIN event_log'
            PROVE  event_log'[n] = arrived'[new[total_logged' - Len(event_log') + n]]
        <4>1. event_log'[n] = arrived'[new[C + 1 - Len(event_log') + n]]
          BY <1>10
        <4>2. n \in Nat /\ Len(event_log') \in Nat /\ C \in Nat
          BY <1>1, <1>2, LimitAssumption, BoundedAppendType DEF TypeOK
        <4>3. C + 1 - Len(event_log') + n = total_logged' - Len(event_log') + n
          BY <3>0, <4>2
        <4> QED BY <4>1, <4>3, Zenon
      <3>2. ASSUME NEW n \in DOMAIN recent_events'
            PROVE  recent_events'[n] = EventId(arrived'[new[total_logged' + 1 - n]])
        <4>1. recent_events'[n] = EventId(arrived'[new[C + 1 + 1 - n]])
          BY <1>11
        <4> QED BY <3>0, <4>1
      <3> QED BY <1>6, <3>1, <3>2
    <2> QED BY <1>6, <1>10, <1>11, <1>12, <2>1 DEF LogExact
  <1> QED BY <1>1, <1>13, CachedAfter DEF LogBook

LEMMA LogBookStep ==
    ASSUME TypeOK, LogBook, [Next]_vars
    PROVE  LogBook'
  <1>1. ASSUME UNCHANGED <<log, duplicate_count, arrived>> PROVE LogBook'
    <2>1. FirstCopies' = FirstCopies /\ (Cached <=> Cached')
      BY <1>1 DEF FirstCopies, Cached
    <2> QED BY <1>1, <2>1 DEF LogBook, LogExact
  <1>2. ASSUME ResetState PROVE LogBook'
    <2>1. /\ received_id_cache' = {} /\ event_log' = <<>> /\ total_logged' = 0
          /\ recent_events' = <<>> /\ duplicate_count' = 0 /\ arrived' = <<>>
      BY <1>2 DEF ResetState
    <2>2. /\ DOMAIN arrived' = {} /\ DOMAIN event_log' = {} /\ DOMAIN recent_events' = {}
          /\ Len(arrived') = 0 /\ Len(event_log') = 0 /\ Len(recent_events') = 0
      BY <2>1
    <2>3. FirstCopies' = {} /\ Cached'
      BY <2>1, <2>2 DEF FirstCopies, Cached
    <2>4. Cardinality({}) = 0
      BY FS_EmptySet
    <2>5. [n \in 1..0 |-> n] \in Listings({})
      BY <2>4 DEF Listings
    <2>6. Listings(FirstCopies)' = Listings({})
      BY <2>3 DEF Listings
    <2> QED BY <2>1, <2>2, <2>3, <2>4, <2>5, <2>6, LimitAssumption DEF LogBook, LogExact, Smaller
  <1>3. ASSUME NEW t \in Task, NEW e \in Event, Duplicate(t, e) PROVE LogBook'
    <2>1. /\ arrived' = Append(arrived, e) /\ EventId(e) \in received_id_cache
          /\ duplicate_count' = duplicate_count + 1 /\ UNCHANGED log
      BY <1>3 DEF Duplicate, TakeIn, IsDuplicate
    <2>2. FirstCopies' = FirstCopies
      BY <2>1, FirstCopiesAfter DEF LogBook
    <2>3. Cached'
      BY <2>1, CachedAfter DEF LogBook
    <2>4. /\ Len(arrived) \in Nat /\ Len(arrived') = Len(arrived) + 1 /\ FirstCopies \subseteq 1..Len(arrived)
          /\ \A i \in 1..Len(arrived) : arrived'[i] = arrived[i]
          /\ total_logged \in Nat /\ event_log \in Seq(Event) /\ recent_events \in Seq(Id)
      BY <2>1, Places, Arrives DEF TypeOK
    <2>5. PICK first \in Listings(FirstCopies) :
              /\ \A n \in DOMAIN event_log :
                    event_log[n] = arrived[first[total_logged - Len(event_log) + n]]
              /\ \A n \in DOMAIN recent_events :
                    recent_events[n] = EventId(arrived[first[total_logged + 1 - n]])
      BY DEF LogBook, LogExact
    <2>6. /\ total_logged = Cardinality(FirstCopies) /\ duplicate_count = Len(arrived) - total_logged
          /\ Len(event_log) = Smaller(total_logged, LogLimit)
          /\ Len(recent_events) = Smaller(total_logged, RecentLimit)
      BY DEF LogBook, LogExact
    <2>7. \A n \in 1..total_logged : arrived'[first[n]] = arrived[first[n]]
      <3>1. \A n \in 1..total_logged : first[n] \in 1..Len(arrived)
        BY <2>4, <2>6 DEF Listings
      <3> QED BY <2>4, <3>1
    <2>8. \A n \in DOMAIN event_log :
              event_log[n] = arrived'[first[total_logged - Len(event_log) + n]]
      <3>1. ASSUME NEW n \in DOMAIN event_log
            PROVE  total_logged - Len(event_log) + n \in 1..total_logged
        BY <2>4, <2>6, LimitAssumption DEF Smaller
      <3> QED BY <2>5, <2>7, <3>1
    <2>9. \A n \in DOMAIN recent_events :
              recent_events[n] = EventId(arrived'[first[total_logged + 1 - n]])
      <3>1. ASSUME NEW n \in DOMAIN recent_events
            PROVE  total_logged + 1 - n \in 1..total_logged
        BY <2>4, <2>6, LimitAssumption DEF Smaller
      <3> QED BY <2>5, <2>7, <3>1
    <2>10. duplicate_count' = Len(arrived') - total_logged'
      BY <2>1, <2>4, <2>6
    <2>11. LogExact'
      BY <2>1, <2>2, <2>6, <2>8, <2>9, <2>10 DEF LogExact
    <2> QED BY <2>3, <2>11 DEF LogBook
  <1> QED BY <1>1, <1>2, <1>3, RecordedExactly
          DEF Next, vars, SetRunning, DropNextAck, Reset, Shutdown, Restart, Refuse, Reply

\* The log and the recent list are the newest of the events received, each once and
\* in the order of its first copy, and the counts are theirs, for every size of the
\* windows (monitor.py:123-233).
THEOREM NothingLoggedTwiceOrLost == Spec => []LogExact
  <1>1. Init => LogBook
    BY EmptyLog DEF Init
  <1>2. Spec => []LogBook
    BY <1>1, LogBookStep, MonitorTypeCorrect, PTL DEF Spec
  <1>3. LogBook => LogExact
    BY DEF LogBook
  <1> QED BY <1>2, <1>3, PTL

-----------------------------------------------------------------------------
(* Events out of order.                                                    *)

\* The last sequence number of a host is the highest that came from it, and a
\* first copy of an event has it.
Highest ==
    /\ \A i \in DOMAIN arrived : arrived[i].seq <= last_seq_by_host[arrived[i].host]
    /\ \A h \in Host : last_seq_by_host[h] # 0 =>
          \E i \in FirstCopies : arrived[i].host = h /\ arrived[i].seq = last_seq_by_host[h]

\* An event that is not known has not the same sequence number as an earlier one of
\* its host, so it was overtaken exactly if its number is not above the last.
LEMMA OvertakenAfter ==
    ASSUME TypeOK, Cached, Highest, NEW e \in Event, arrived' = Append(arrived, e),
           EventId(e) \notin received_id_cache
    PROVE  Overtaken' = IF e.seq <= last_seq_by_host[e.host]
                        THEN Overtaken \cup {Len(arrived) + 1} ELSE Overtaken
  <1> DEFINE L == Len(arrived)
  <1>1. /\ L \in Nat /\ DOMAIN arrived = 1..L
        /\ \A i \in 1..L : arrived[i] \in Event
        /\ \A i \in 1..L : arrived'[i] = arrived[i]
        /\ arrived'[L + 1] = e
        /\ FirstCopies \subseteq 1..L
    BY Places, Arrives
  <1>2. FirstCopies' = FirstCopies \cup {L + 1}
    BY FirstCopiesAfter
  <1>3. \A i \in 1..L : ~(arrived[i].host = e.host /\ arrived[i].seq = e.seq)
    BY <1>1 DEF Cached, EventId
  <1>4. /\ e.host \in Host /\ e.seq \in Nat \ {0} /\ last_seq_by_host[e.host] \in Nat
        /\ \A i \in 1..L : arrived[i].seq \in Nat
    BY <1>1 DEF Event, TypeOK
  <1> HIDE DEF L
  <1>5. (\E k \in FirstCopies : arrived[k].host = e.host /\ arrived[k].seq > e.seq)
            <=> e.seq <= last_seq_by_host[e.host]
    <2>1. ASSUME NEW k \in FirstCopies, arrived[k].host = e.host, arrived[k].seq > e.seq
          PROVE  e.seq <= last_seq_by_host[e.host]
      <3>1. arrived[k].seq <= last_seq_by_host[e.host] /\ arrived[k].seq \in Nat
        BY <1>1, <1>4, <2>1 DEF Highest
      <3> QED BY <1>4, <2>1, <3>1
    <2>2. ASSUME e.seq <= last_seq_by_host[e.host]
          PROVE  \E k \in FirstCopies : arrived[k].host = e.host /\ arrived[k].seq > e.seq
      <3>1. PICK k \in FirstCopies :
                arrived[k].host = e.host /\ arrived[k].seq = last_seq_by_host[e.host]
        BY <1>4, <2>2 DEF Highest
      <3>2. arrived[k].seq # e.seq
        BY <1>1, <1>3, <3>1
      <3> QED BY <1>4, <2>2, <3>1, <3>2
    <2> QED BY <2>1, <2>2
  <1>6. \A i \in 1..L : i \in Overtaken' <=> i \in Overtaken
    <2>1. ASSUME NEW i \in 1..L
          PROVE  i \in Overtaken' <=> i \in Overtaken
      <3>1. i \in FirstCopies' <=> i \in FirstCopies
        BY <1>1, <1>2
      <3>2. \A k : k < i => (k \in FirstCopies' <=> k \in FirstCopies)
        BY <1>1, <1>2
      <3>3. \A k \in FirstCopies : arrived'[k] = arrived[k] /\ arrived'[i] = arrived[i]
        BY <1>1
      <3> QED BY <3>1, <3>2, <3>3 DEF Overtaken
    <2> QED BY <2>1
  <1>7. L + 1 \in Overtaken' <=> \E k \in FirstCopies : arrived[k].host = e.host /\ arrived[k].seq > e.seq
    <2>1. L + 1 \in FirstCopies'
      BY <1>2
    <2>2. L + 1 \in Overtaken' <=>
              \E k \in FirstCopies' : k < L + 1 /\ arrived'[k].host = e.host /\ arrived'[k].seq > e.seq
      BY <1>1, <2>1 DEF Overtaken
    <2>3. \A k \in FirstCopies : k < L + 1 /\ arrived'[k] = arrived[k]
      BY <1>1
    <2>4. \A k \in FirstCopies' : k < L + 1 => k \in FirstCopies
      BY <1>1, <1>2
    <2> QED BY <1>2, <2>2, <2>3, <2>4
  <1>8. Overtaken' \subseteq 1..(L + 1) /\ Overtaken \subseteq 1..L
    <2>1. Overtaken' \subseteq FirstCopies' /\ Overtaken \subseteq FirstCopies
      BY DEF Overtaken
    <2> QED BY <1>1, <1>2, <2>1
  <1>9. \A i \in 1..(L + 1) : i \in 1..L \/ i = L + 1
    BY <1>1
  <1>10. CASE e.seq <= last_seq_by_host[e.host]
    <2>1. Overtaken' = Overtaken \cup {L + 1}
      BY <1>1, <1>5, <1>6, <1>7, <1>8, <1>9, <1>10
    <2> QED BY <1>10, <2>1 DEF L
  <1>11. CASE ~(e.seq <= last_seq_by_host[e.host])
    <2>1. Overtaken' = Overtaken
      BY <1>1, <1>5, <1>6, <1>7, <1>8, <1>9, <1>11
    <2> QED BY <1>11, <2>1
  <1> QED BY <1>10, <1>11

LEMMA OvertakenFinite ==
    ASSUME TypeOK
    PROVE  /\ IsFiniteSet(Overtaken) /\ Cardinality(Overtaken) \in Nat
           /\ Len(arrived) + 1 \notin Overtaken
  <1>1. Overtaken \in SUBSET FirstCopies
    BY DEF Overtaken
  <1>2. IsFiniteSet(Overtaken)
    BY <1>1, Places, FS_Subset
  <1>3. Len(arrived) + 1 \notin FirstCopies
    BY Places
  <1> QED BY <1>1, <1>2, <1>3, FS_CardinalityType

OrderBook == Highest /\ OutOfOrderExact

LEMMA OrderBookStep ==
    ASSUME TypeOK, Cached, OrderBook, [Next]_vars
    PROVE  OrderBook'
  <1>1. ASSUME UNCHANGED <<last_seq_by_host, out_of_order_count, arrived>> PROVE OrderBook'
    <2>1. FirstCopies' = FirstCopies /\ Overtaken' = Overtaken
      BY <1>1 DEF FirstCopies, Overtaken
    <2> QED BY <1>1, <2>1 DEF OrderBook, Highest, OutOfOrderExact
  <1>2. ASSUME ResetState PROVE OrderBook'
    <2>1. /\ last_seq_by_host' = [h \in Host |-> 0] /\ out_of_order_count' = 0
          /\ arrived' = <<>>
      BY <1>2 DEF ResetState
    <2>2. DOMAIN arrived' = {}
      BY <2>1
    <2>3. FirstCopies' = {} /\ Overtaken' = {}
      BY <2>2 DEF FirstCopies, Overtaken
    <2>4. Cardinality({}) = 0
      BY FS_EmptySet
    <2> QED BY <2>1, <2>2, <2>3, <2>4 DEF OrderBook, Highest, OutOfOrderExact
  <1>3. ASSUME NEW t \in Task, NEW e \in Event, Duplicate(t, e) PROVE OrderBook'
    <2>1. /\ arrived' = Append(arrived, e) /\ EventId(e) \in received_id_cache
          /\ UNCHANGED <<last_seq_by_host, out_of_order_count>>
      BY <1>3 DEF Duplicate, TakeIn, IsDuplicate
    <2>2. FirstCopies' = FirstCopies
      BY <2>1, FirstCopiesAfter
    <2>3. /\ Len(arrived) \in Nat /\ DOMAIN arrived = 1..Len(arrived)
          /\ DOMAIN arrived' = 1..(Len(arrived) + 1)
          /\ FirstCopies \subseteq 1..Len(arrived)
          /\ \A i \in 1..Len(arrived) : arrived'[i] = arrived[i]
          /\ arrived'[Len(arrived) + 1] = e
      BY <2>1, Places, Arrives
    <2>4. Overtaken' = Overtaken
      BY <2>2, <2>3 DEF Overtaken
    <2>5. PICK k \in DOMAIN arrived : arrived[k].host = e.host /\ arrived[k].seq = e.seq
      BY <2>1 DEF Cached, EventId
    <2>6. e.seq <= last_seq_by_host[e.host]
      BY <2>5 DEF OrderBook, Highest
    <2>7. \A i \in DOMAIN arrived' : arrived'[i].seq <= last_seq_by_host[arrived'[i].host]
      <3>1. \A i \in 1..(Len(arrived) + 1) : i \in 1..Len(arrived) \/ i = Len(arrived) + 1
        BY <2>3
      <3> QED BY <2>3, <2>6, <3>1 DEF OrderBook, Highest
    <2>8. Highest'
      BY <2>1, <2>2, <2>3, <2>7 DEF OrderBook, Highest
    <2> QED BY <2>1, <2>4, <2>8 DEF OrderBook, OutOfOrderExact
  <1>4. ASSUME NEW t \in Task, NEW e \in Event, Record(t, e) PROVE OrderBook'
    <2> DEFINE last == last_seq_by_host[e.host]
               high == HighestSeq(last, e.seq)
    <2>1. /\ arrived' = Append(arrived, e) /\ EventId(e) \notin received_id_cache
          /\ out_of_order_count' =
                IF e.seq <= last THEN out_of_order_count + 1 ELSE out_of_order_count
          /\ last_seq_by_host' = [last_seq_by_host EXCEPT ![e.host] = high]
      BY <1>4 DEF Record, TakeIn, IsDuplicate
    <2>2. FirstCopies' = FirstCopies \cup {Len(arrived) + 1}
      BY <2>1, FirstCopiesAfter
    <2>3. /\ Len(arrived) \in Nat /\ DOMAIN arrived = 1..Len(arrived)
          /\ DOMAIN arrived' = 1..(Len(arrived) + 1)
          /\ FirstCopies \subseteq 1..Len(arrived)
          /\ \A i \in 1..Len(arrived) : arrived[i] \in Event
          /\ \A i \in 1..Len(arrived) : arrived'[i] = arrived[i]
          /\ arrived'[Len(arrived) + 1] = e
      BY <2>1, Places, Arrives
    <2>4. /\ e.host \in Host /\ e.seq \in Nat \ {0}
          /\ last_seq_by_host \in [Host -> 0..MaxSeq] /\ MaxSeq \in Nat
      BY BoundAssumption DEF Event, TypeOK
    <2>5. /\ last \in Nat /\ high \in Nat
          /\ IF e.seq > last THEN high = e.seq ELSE high = last
      BY <2>4 DEF HighestSeq
    <2> HIDE DEF last, high
    <2>6. /\ last_seq_by_host[e.host] = last /\ last_seq_by_host'[e.host] = high
          /\ \A h \in Host : h # e.host => last_seq_by_host'[h] = last_seq_by_host[h]
      BY <2>1, <2>4 DEF last
    <2>7. \A i \in DOMAIN arrived' : arrived'[i].seq <= last_seq_by_host'[arrived'[i].host]
      <3>1. ASSUME NEW i \in 1..Len(arrived)
            PROVE  arrived'[i].seq <= last_seq_by_host'[arrived'[i].host]
        <4>1. /\ arrived'[i] = arrived[i] /\ arrived[i].host \in Host /\ arrived[i].seq \in Nat
              /\ arrived[i].seq <= last_seq_by_host[arrived[i].host]
          BY <2>3 DEF OrderBook, Highest, Event
        <4> QED BY <2>4, <2>5, <2>6, <4>1
      <3>2. e.seq <= high
        BY <2>4, <2>5
      <3>3. \A i \in 1..(Len(arrived) + 1) : i \in 1..Len(arrived) \/ i = Len(arrived) + 1
        BY <2>3
      <3> QED BY <2>3, <2>6, <3>1, <3>2, <3>3
    <2>8. ASSUME NEW h \in Host, last_seq_by_host'[h] # 0
          PROVE  \E i \in FirstCopies' : arrived'[i].host = h /\ arrived'[i].seq = last_seq_by_host'[h]
      <3>1. CASE h = e.host /\ e.seq > last
        BY <2>2, <2>3, <2>5, <2>6, <3>1
      <3>2. CASE ~(h = e.host /\ e.seq > last)
        <4>1. last_seq_by_host'[h] = last_seq_by_host[h]
          BY <2>5, <2>6, <3>2
        <4>2. PICK i \in FirstCopies : arrived[i].host = h /\ arrived[i].seq = last_seq_by_host[h]
          BY <2>8, <4>1 DEF OrderBook, Highest
        <4>3. arrived'[i] = arrived[i] /\ i \in FirstCopies'
          BY <2>2, <2>3
        <4> QED BY <4>1, <4>2, <4>3
      <3> QED BY <3>1, <3>2
    <2>9. Highest'
      BY <2>7, <2>8 DEF Highest
    <2>10. out_of_order_count' = Cardinality(Overtaken')
      <3>1. Overtaken' = IF e.seq <= last THEN Overtaken \cup {Len(arrived) + 1} ELSE Overtaken
        BY <2>1, OvertakenAfter DEF OrderBook, last
      <3>2. Cardinality(Overtaken \cup {Len(arrived) + 1}) = Cardinality(Overtaken) + 1
        BY OvertakenFinite, FS_AddElement
      <3>3. out_of_order_count = Cardinality(Overtaken)
        BY DEF OrderBook, OutOfOrderExact
      <3> QED BY <2>1, <3>1, <3>2, <3>3
    <2> QED BY <2>9, <2>10 DEF OrderBook, OutOfOrderExact
  <1> QED BY <1>1, <1>2, <1>3, <1>4
          DEF Next, vars, SetRunning, DropNextAck, Reset, Shutdown, Restart, Refuse, Reply

\* The events counted as out of order are exactly those that came after one of
\* their host with a higher sequence number, copies left aside, for any number of
\* hosts and of events (monitor.py:123-233).
THEOREM OutOfOrderCounted == Spec => []OutOfOrderExact
  <1>1. Init => LogBook /\ OrderBook
    <2> SUFFICES ASSUME Init PROVE LogBook /\ OrderBook
      OBVIOUS
    <2>1. DOMAIN arrived = {}
      BY DEF Init
    <2>2. FirstCopies = {} /\ Overtaken = {}
      BY <2>1 DEF FirstCopies, Overtaken
    <2>3. Cardinality({}) = 0
      BY FS_EmptySet
    <2> QED BY <2>1, <2>2, <2>3, EmptyLog DEF Init, OrderBook, Highest, OutOfOrderExact
  <1>2. LogBook => Cached
    BY DEF LogBook
  <1>3. Spec => []OrderBook
    BY <1>1, <1>2, LogBookStep, OrderBookStep, MonitorTypeCorrect, PTL DEF Spec
  <1>4. OrderBook => OutOfOrderExact
    BY DEF OrderBook
  <1> QED BY <1>3, <1>4, PTL

-----------------------------------------------------------------------------
(* The monitor implements the promise of a hop.                            *)

\* What the promise needs to know: a connection without an event under way has
\* nothing to say, and the cache holds only what was logged.
Settled ==
    /\ \A t \in Task : pc[t] = "idle" => job[t] = None /\ reply[t] = None
    /\ received_id_cache \subseteq ever_logged

LEMMA SettledStep ==
    ASSUME TypeOK, Settled, [Next]_vars
    PROVE  Settled'
  <1>1. ASSUME NEW value \in BOOLEAN, SetRunning(value) PROVE Settled'
    BY <1>1 DEF SetRunning, Settled
  <1>2. CASE DropNextAck
    BY <1>2 DEF DropNextAck, Settled
  <1>3. CASE Reset
    BY <1>3 DEF Reset, ResetState, Settled
  <1>4. CASE Shutdown
    BY <1>4 DEF Shutdown, ResetState, Settled
  <1>5. CASE Restart
    BY <1>5 DEF Restart, Settled
  <1>6. ASSUME NEW t \in Task, Refuse(t) PROVE Settled'
    BY <1>6 DEF Refuse, Respond, TypeOK, Settled
  <1>7. ASSUME NEW t \in Task, Reply(t) PROVE Settled'
    BY <1>7 DEF Reply, TypeOK, Settled
  <1>8. ASSUME NEW t \in Task, NEW e \in Event, Duplicate(t, e) PROVE Settled'
    BY <1>8 DEF Duplicate, TakeIn, Acknowledge, Respond, TypeOK, Settled
  <1>9. ASSUME NEW t \in Task, NEW e \in Event, Record(t, e) PROVE Settled'
    BY <1>9 DEF Record, TakeIn, Acknowledge, Respond, TypeOK, Settled
  <1>10. CASE UNCHANGED vars
    BY <1>10 DEF vars, Settled
  <1> QED BY <1>1, <1>2, <1>3, <1>4, <1>5, <1>6, <1>7, <1>8, <1>9, <1>10 DEF Next

\* Both ways of taking in an event, new or known, leave its id among the logged.
LEMMA TakeInKeepsPromise ==
    ASSUME TypeOK, Settled, NEW t \in Task, NEW e \in Event, TakeIn(t, e),
           ever_logged' = ever_logged \cup {EventId(e)}
    PROVE  Promise!Next
  <1>1. job[t] = None /\ reply[t] = None
    BY DEF TakeIn, Settled
  <1>2. /\ job' = [job EXCEPT ![t] = EventId(e)]
        /\ \E response \in {"ACK", None} : reply' = [reply EXCEPT ![t] = response]
    BY DEF TakeIn, Acknowledge, Respond
  <1>3. Promise!TakeIn(t, EventId(e))
    BY <1>1, <1>2 DEF Promise!TakeIn
  <1> QED BY <1>3, EventIdType DEF Promise!Next

LEMMA PromiseStep ==
    ASSUME TypeOK, Settled, [Next]_vars
    PROVE  [Promise!Next]_(Promise!vars)
  <1>1. ASSUME NEW value \in BOOLEAN, SetRunning(value) PROVE UNCHANGED Promise!vars
    BY <1>1 DEF SetRunning, Promise!vars
  <1>2. CASE DropNextAck
    BY <1>2 DEF DropNextAck, Promise!vars
  <1>3. CASE Reset
    BY <1>3 DEF Reset, Promise!vars
  <1>4. CASE Shutdown
    <2>1. Promise!Vanish
      BY <1>4 DEF Shutdown, Promise!Vanish
    <2> QED BY <2>1 DEF Promise!Next
  <1>5. CASE Restart
    BY <1>5 DEF Restart, Promise!vars
  <1>6. ASSUME NEW t \in Task, Refuse(t) PROVE Promise!Next
    <2>1. job[t] = None /\ reply[t] = None
      BY <1>6 DEF Refuse, Settled
    <2>2. job' = job
      BY <1>6, <2>1 DEF Refuse, Respond, TypeOK
    <2>3. Promise!Refuse(t)
      BY <1>6, <2>1, <2>2 DEF Refuse, Respond, Promise!Refuse
    <2> QED BY <2>3 DEF Promise!Next
  <1>7. ASSUME NEW t \in Task, Reply(t) PROVE [Promise!Next]_(Promise!vars)
    <2>1. CASE reply[t] # None
      <3>1. Promise!Close(t)
        BY <1>7, <2>1 DEF Reply, Promise!Close
      <3> QED BY <3>1 DEF Promise!Next
    <2>2. CASE reply[t] = None /\ job[t] # None
      <3>1. reply' = reply
        BY <1>7, <2>2 DEF Reply, TypeOK
      <3>2. Promise!Drop(t)
        BY <1>7, <2>2, <3>1 DEF Reply, Promise!Drop
      <3> QED BY <3>2 DEF Promise!Next
    <2>3. CASE reply[t] = None /\ job[t] = None
      BY <1>7, <2>3 DEF Reply, TypeOK, Promise!vars
    <2> QED BY <2>1, <2>2, <2>3
  <1>8. ASSUME NEW t \in Task, NEW e \in Event, Duplicate(t, e) PROVE Promise!Next
    <2>1. ever_logged' = ever_logged \cup {EventId(e)}
      BY <1>8 DEF Duplicate, IsDuplicate, Settled
    <2> QED BY <1>8, <2>1, TakeInKeepsPromise DEF Duplicate
  <1>9. ASSUME NEW t \in Task, NEW e \in Event, Record(t, e) PROVE Promise!Next
    BY <1>9, TakeInKeepsPromise DEF Record
  <1>10. CASE UNCHANGED vars
    BY <1>10 DEF vars, Promise!vars
  <1> QED BY <1>1, <1>2, <1>3, <1>4, <1>5, <1>6, <1>7, <1>8, <1>9, <1>10 DEF Next

\* Seen from the relay above it, the monitor is a Hop that acknowledges only what
\* it logged, also when it dropped an ACK, and when a reset or the end of the
\* process came between the logging and the answer (monitor.py:123-233).
THEOREM MonitorIsHop == Spec => SinkPromise
  <1>1. Init => Settled
    BY DEF Init, Settled
  <1>2. Spec => []Settled
    BY <1>1, SettledStep, MonitorTypeCorrect, PTL DEF Spec
  <1>3. Init => Promise!Init
    BY DEF Init, Promise!Init
  <1> QED BY <1>2, <1>3, PromiseStep, MonitorTypeCorrect, PTL
          DEF Spec, SinkPromise, Promise!Spec

=============================================================================
