----------------------------- MODULE DeliveryProof -----------------------------
(***************************************************************************)
(* Theorems about the two routes as a whole: for any number of events,     *)
(* retries, connections a relay serves at a time, and faults.              *)
(***************************************************************************)
EXTENDS Delivery, FiniteSetTheorems, TLAPS

-----------------------------------------------------------------------------
(* The invariant.                                                          *)

Limit(n) == IF n = Agent THEN 2 ELSE MaxRetry

Phase == {"idle", "ready", "asking", "unanswered", "closed", "answering"}

Work == [phase : Phase, event : 0..MaxEvent, from : 0..MaxSlot,
         heard : BOOLEAN, attempt : Nat, stale : BOOLEAN, evidence : BOOLEAN,
         reply : {None, "ACK", "ERROR"}]

Types ==
    /\ up \in [Nodes -> BOOLEAN] /\ running \in [Nodes -> BOOLEAN]
    /\ work \in [Asker -> [Slot -> Work]]
    /\ received_id_cache \in [RelayNodes -> SUBSET Body]
    /\ pending_ack_table \in [RelayNodes -> SUBSET Body]
    /\ event_log \subseteq logged
    /\ seq_no \in Nat
    /\ ids \in [Body -> 0..MaxEvent]
    /\ status \in [Body -> {"unsent", "sent", "acknowledged", "failed", "lost"}]
    /\ suspected_node \in [Body -> Nodes \cup {None}]
    /\ faults \in 0..MaxFault /\ faulty \subseteq Nodes

Active(n, t) == work[n][t].phase # "idle"

Emitted == {b \in Body : status[b] # "unsent"}

\* The events go out one by one, with ids that count from 1, and from 1 again only
\* when the agent was reset.
Emissions ==
    /\ \E k \in 0..MaxEvent :
          /\ Emitted = 1..k /\ seq_no <= k
          /\ Agent \notin faulty => seq_no = k
    /\ \A b \in Emitted : ids[b] \in Body /\ (Agent \notin faulty => ids[b] = b)
    /\ \A b \in Body : status[b] = "sent" => Active(Agent, 1) /\ work[Agent][1].event = b
    /\ logged \subseteq Emitted

\* What is being worked on; the agent is busy with its last event.
Slots ==
    /\ \A n \in Asker, t \in Slot : Active(n, t) =>
          /\ work[n][t].event \in Emitted
          /\ work[n][t].attempt \in 1..Limit(n)
          /\ work[n][t].phase = "answering" => work[n][t].heard
    /\ \A t \in Slot :
          /\ ~work[Agent][t].heard /\ ~work[Agent][t].stale
          /\ Active(Agent, t) =>
                t = 1 /\ status[work[Agent][t].event] = "sent"
                /\ \A b \in Emitted : b <= work[Agent][t].event

\* Who waits for a relay has one connection there, and the other way round.
Connections ==
    /\ \A n \in Asker, t \in Slot : work[n][t].phase = "asking" =>
          /\ Target(n, t) \in RelayNodes
          /\ \E s \in Slot : Serves(Target(n, t), s, t)
    /\ \A m \in RelayNodes, s \in Slot : Active(m, s) /\ work[m][s].heard =>
          /\ work[m][s].from \in Slot
          /\ work[Above(m)][work[m][s].from].phase = "asking"
          /\ work[Above(m)][work[m][s].from].event = work[m][s].event
          /\ Target(Above(m), work[m][s].from) = m
    /\ \A m \in RelayNodes : \A s, x \in Slot :
          /\ Active(m, s) /\ work[m][s].heard /\ Active(m, x) /\ work[m][x].heard
          /\ work[m][s].from = work[m][x].from
          => s = x

LoggedIds == {ids[b] : b \in logged}

\* An ACK under way says what the caches say.
Vouches ==
    /\ \A n \in RelayNodes : received_id_cache[n] \subseteq LoggedIds
    /\ \A n \in RelayNodes, t \in Slot :
          work[n][t].phase = "answering" /\ work[n][t].reply = "ACK" => IdOf(n, t) \in LoggedIds

\* An id is pending only while a delivery of it is under way.
Pending ==
    \A n \in RelayNodes : \A id \in pending_ack_table[n] :
        \E t \in Slot : work[n][t].phase \in Working /\ IdOf(n, t) = id

Entry == {"r1", "r1b"}

\* Event b has yet to come to the first relay of a route.
Ahead(n, b) ==
    \/ status[b] = "unsent"
    \/ /\ Active(Agent, 1) /\ work[Agent][1].event = b
       /\ \/ work[Agent][1].phase = "ready" /\ Target(Agent, 1) = n
          \/ work[Agent][1].attempt = 1 /\ n = "r1b"

Has(n, b) == \E t \in Slot : Active(n, t) /\ work[n][t].event = b

\* Each event comes to a route once, and a relay meets its own delivery of it at the
\* relay below only after a timeout.
Copies ==
    Agent \notin faulty =>
        \A n \in Entry :
            /\ \A s, t \in Slot :
                  Active(n, s) /\ Active(n, t) /\ work[n][s].event = work[n][t].event => s = t
            /\ \A b \in Body : Ahead(n, b) => ~Has(n, b) /\ ~Has(Below(n), b)
            /\ Below(n) \notin faulty =>
                  \A s \in Slot :
                      Active(Below(n), s) /\ ~work[Below(n)][s].heard
                          => ~Has(n, work[Below(n)][s].event)

\* A fault at one of the nodes F, or the agent's own, is the reason of a failure that
\* is looked for at node n.
Explains(F, n) == F \cap (AtOrBelow(n) \cup {Agent}) # {}

\* What has failed, or is about to be called a failure, has a fault behind it.
Explanations ==
    /\ \A n \in Nodes : ~up[n] \/ ~running[n] => n \in faulty
    /\ \A n \in Asker, t \in Slot :
          /\ work[n][t].phase = "closed" => Target(n, t) \in faulty
          /\ work[n][t].phase = "unanswered" => Target(n, t) = "monitor" /\ "monitor" \in faulty
    /\ \A n \in RelayNodes, t \in Slot :
          /\ Active(n, t) /\ work[n][t].stale => n \in faulty
          /\ Active(n, t) /\ work[n][t].evidence => Explains(faulty, Below(n))
          /\ work[n][t].phase = "answering" /\ work[n][t].reply # "ACK" => Explains(faulty, n)
    /\ \A b \in Body : suspected_node[b] # None => Explains(faulty, suspected_node[b])

Invariant ==
    /\ Types /\ Emissions /\ Slots /\ Connections /\ Vouches /\ Pending /\ Copies
    /\ Explanations

-----------------------------------------------------------------------------
(* The two routes.                                                         *)

LEMMA Routes ==
    /\ Below("r1") = "r2" /\ Below("r2") = "monitor"
    /\ Below("r1b") = "r2b" /\ Below("r2b") = "monitor"
    /\ Above("r1") = Agent /\ Above("r2") = "r1"
    /\ Above("r1b") = Agent /\ Above("r2b") = "r1b"
<1> USE DEF Edges, PrimaryEdges, BackupEdges, Nodes, Agent
<1>1. Below("r1") = "r2" /\ Below("r2") = "monitor"
  BY DEF Below
<1>2. Below("r1b") = "r2b" /\ Below("r2b") = "monitor"
  BY DEF Below
<1>3. Above("r1") = Agent /\ Above("r2") = "r1"
  BY DEF Above
<1>4. Above("r1b") = Agent /\ Above("r2b") = "r1b"
  BY DEF Above
<1> QED
  BY <1>1, <1>2, <1>3, <1>4

\* A route has two relays: its entry, and the one below, which asks the monitor.
LEMMA RouteShape ==
    /\ Asker = {Agent} \cup RelayNodes /\ Asker \subseteq Nodes /\ Agent \notin RelayNodes
    /\ "monitor" \in Nodes \ Asker /\ "r1" \in Entry /\ "r1b" \in Entry /\ "r1" # "r1b"
    /\ \A n \in RelayNodes : Below(n) \in Nodes \ {n, Agent} /\ Above(n) \in Asker \ {n}
    /\ \A n \in Entry : /\ n \in RelayNodes /\ Above(n) = Agent
                        /\ Below(n) \in RelayNodes \ Entry /\ Above(Below(n)) = n
    /\ \A n \in RelayNodes \ Entry : /\ Below(n) = "monitor"
                                     /\ Above(n) \in Entry /\ Below(Above(n)) = n
  BY Routes DEF Asker, RelayNodes, Nodes, Agent, Entry

LEMMA Targets ==
    ASSUME NEW n \in Asker, NEW t \in Slot
    PROVE  /\ Target(n, t) \in Nodes \ {n, Agent}
           /\ Target(n, t) \in RelayNodes => Above(Target(n, t)) = n
           /\ n # Agent => Target(n, t) = Below(n)
           /\ n = Agent => Target(n, t) \in Entry
           /\ n = Agent => (Target(n, t) = "r1" <=> work[n][t].attempt = 1)
<1>1. CASE n = Agent
  BY <1>1, RouteShape DEF Target, Agent, Nodes, RelayNodes
<1>2. CASE n # Agent
  <2>1. n \in RelayNodes /\ Target(n, t) = Below(n)
    BY <1>2, RouteShape DEF Target
  <2>2. Target(n, t) \in RelayNodes => n \in Entry
    BY <2>1, RouteShape DEF RelayNodes
  <2> QED
    BY <1>2, <2>1, <2>2, RouteShape
<1> QED
  BY <1>1, <1>2

\* Where a fault explains a failure.
LEMMA Explanation ==
    /\ \A n \in Nodes : n \in faulty => Explains(faulty, n)
    /\ \A n \in RelayNodes : Explains(faulty, Below(n)) => Explains(faulty, n)
    /\ Agent \in faulty => \A n \in Nodes : Explains(faulty, n)
<1>1. \A n \in RelayNodes : AtOrBelow(Below(n)) \subseteq AtOrBelow(n)
  BY Routes DEF RelayNodes, AtOrBelow
<1>2. \A n \in Nodes : n \in AtOrBelow(n)
  BY DEF AtOrBelow
<1> QED
  BY <1>1, <1>2 DEF Explains

\* What is explained stays so.
LEMMA StaysExplained ==
    ASSUME faulty \subseteq faulty', NEW n, Explains(faulty, n) PROVE Explains(faulty', n)
  BY DEF Explains

-----------------------------------------------------------------------------
(* Steps, seen from the slots.                                             *)

\* One slot gets new contents.
LEMMA Put ==
    ASSUME NEW f \in [Asker -> [Slot -> Work]], NEW n \in Asker, NEW t \in Slot,
           NEW x \in Work, NEW g, g = [f EXCEPT ![n][t] = x]
    PROVE  /\ g \in [Asker -> [Slot -> Work]] /\ g[n][t] = x
           /\ \A m \in Asker, s \in Slot : m # n \/ s # t => g[m][s] = f[m][s]
  OBVIOUS

\* f is work, but for the connection below that served slot t of node n: its work is
\* dropped or goes on unheard, and it is the fault of node n's target when it does.
Left(n, t, f) ==
    /\ f \in [Asker -> [Slot -> Work]]
    /\ f[n][t] = work[n][t]
    /\ \A m \in Asker, s \in Slot :
          IF work[n][t].phase = "asking" /\ m = Target(n, t) /\ Serves(m, s, t)
          THEN \/ work[m][s].phase = "answering" /\ f[m][s] = NoWork
               \/ /\ work[m][s].phase # "answering" /\ m \in faulty'
                  /\ f[m][s] = [work[m][s] EXCEPT !.heard = FALSE]
          ELSE f[m][s] = work[m][s]

Retry(w, evidence) ==
    [w EXCEPT !.phase = "ready", !.attempt = w.attempt + 1, !.evidence = evidence]

Retries(n, t, y) ==
    /\ y = Retry(work[n][t], y.evidence)
    /\ work[n][t].attempt # Limit(n)
    /\ n # Agent /\ y.evidence => Explains(faulty', Below(n))

Reply(w, reply, evidence) ==
    [w EXCEPT !.phase = "answering", !.reply = reply, !.evidence = evidence]

Answers(n, t, y) ==
    /\ n # Agent /\ work[n][t].heard
    /\ y = Reply(work[n][t], y.reply, y.evidence) /\ y.reply \in {"ACK", "ERROR"}
    /\ IF y.reply = "ACK" THEN IdOf(n, t) \in LoggedIds' ELSE Explains(faulty', n)
    /\ y.evidence => Explains(faulty', Below(n))

\* Nobody waits for the result.
Drops(n, t, y) == y = NoWork /\ (n = Agent \/ ~work[n][t].heard)

\* What becomes of the tables of the relays when slot t of node n becomes y.
Remembers(n, t, y) ==
    /\ received_id_cache' \in [RelayNodes -> SUBSET Body]
    /\ pending_ack_table' \in [RelayNodes -> SUBSET Body]
    /\ \A m \in RelayNodes :
          /\ received_id_cache'[m] \subseteq received_id_cache[m] \cup LoggedIds'
          /\ pending_ack_table'[m] \subseteq pending_ack_table[m]
          /\ m = n => y.phase = "ready" \/ IdOf(n, t) \notin pending_ack_table'[m]

\* What becomes of the agent's events.
Decides(n, t, y) ==
    /\ UNCHANGED <<seq_no, ids>>
    /\ IF n = Agent /\ y = NoWork
       THEN \/ Settle(n, t, "failed")
            \/ Settle(n, t, "acknowledged") /\ IdOf(n, t) \in LoggedIds'
       ELSE UNCHANGED status
    /\ \/ UNCHANGED suspected_node
       \/ /\ n = Agent
          /\ \E x \in Nodes :
                /\ suspected_node' = [suspected_node EXCEPT ![work[n][t].event] = x]
                /\ Explains(faulty', x)

\* What happens around an attempt that ends.
Around(n, t) ==
    /\ work[n][t].phase \in Working
    /\ UNCHANGED nodes
    /\ event_log' \subseteq logged' /\ logged \subseteq logged'
    /\ logged' \subseteq logged \cup {work[n][t].event}
    /\ n = Agent => UNCHANGED logged
    /\ faults' \in 0..MaxFault /\ faulty \subseteq faulty' /\ faulty' \subseteq Nodes

Ends(n, t) ==
    /\ Around(n, t)
    /\ \E f, y :
          /\ Left(n, t, f) /\ y \in Work /\ work' = [f EXCEPT ![n][t] = y]
          /\ Retries(n, t, y) \/ Answers(n, t, y) \/ Drops(n, t, y)
          /\ Remembers(n, t, y) /\ Decides(n, t, y)

LEMMA WorkTyped ==
    ASSUME Types, NEW n \in Asker, NEW t \in Slot
    PROVE  work[n][t] \in Work
  BY DEF Types

LEMMA NoWorkTyped == NoWork \in Work
<1>1. 0 \in 0..MaxEvent /\ 0 \in 0..MaxSlot
  BY DeliveryAssumption
<1>2. "idle" \in Phase
  BY DEF Phase
<1> QED
  BY <1>1, <1>2 DEF NoWork, Work

\* One field of a record changes.
LEMMA Field ==
    ASSUME NEW w \in Work
    PROVE  /\ \A x \in Phase : [w EXCEPT !.phase = x] \in Work
           /\ \A x \in Nat : [w EXCEPT !.attempt = x] \in Work
           /\ \A x \in BOOLEAN : [w EXCEPT !.evidence = x] \in Work
           /\ \A x \in {"ACK", "ERROR"} : [w EXCEPT !.reply = x] \in Work
           /\ \A x \in BOOLEAN : [w EXCEPT !.heard = x] \in Work
           /\ \A x \in BOOLEAN : [w EXCEPT !.stale = x] \in Work
<1>1. \A x \in Phase : [w EXCEPT !.phase = x] \in Work
  BY DEF Work
<1>2. \A x \in Nat : [w EXCEPT !.attempt = x] \in Work
  BY DEF Work
<1>3. \A x \in BOOLEAN : [w EXCEPT !.evidence = x] \in Work
  BY DEF Work
<1>4. \A x \in {"ACK", "ERROR"} : [w EXCEPT !.reply = x] \in Work
  BY DEF Work
<1>5. \A x \in BOOLEAN : [w EXCEPT !.heard = x] \in Work
  BY DEF Work
<1>6. \A x \in BOOLEAN : [w EXCEPT !.stale = x] \in Work
  BY DEF Work
<1> QED
  BY <1>1, <1>2, <1>3, <1>4, <1>5, <1>6

LEMMA RetryFields ==
    ASSUME NEW w \in Work, NEW evidence \in BOOLEAN
    PROVE  LET y == Retry(w, evidence)
           IN  /\ y \in Work /\ y.phase = "ready" /\ y.attempt = w.attempt + 1
               /\ y.evidence = evidence /\ y.event = w.event /\ y.from = w.from
               /\ y.heard = w.heard /\ y.stale = w.stale /\ y.reply = w.reply
<1> DEFINE a == [w EXCEPT !.phase = "ready"]
           b == [a EXCEPT !.attempt = w.attempt + 1]
           c == [b EXCEPT !.evidence = evidence]
<1>1. "ready" \in Phase /\ w.attempt + 1 \in Nat
  BY DEF Phase, Work
<1>2. a \in Work
  BY <1>1, Field
<1>3. /\ a.phase = "ready" /\ a.attempt = w.attempt /\ a.evidence = w.evidence
      /\ a.event = w.event /\ a.from = w.from /\ a.heard = w.heard
      /\ a.stale = w.stale /\ a.reply = w.reply
  BY DEF Work
<1> HIDE DEF a
<1>4. b \in Work
  BY <1>1, <1>2, Field
<1>5. /\ b.phase = a.phase /\ b.attempt = w.attempt + 1 /\ b.evidence = a.evidence
      /\ b.event = a.event /\ b.from = a.from /\ b.heard = a.heard
      /\ b.stale = a.stale /\ b.reply = a.reply
  BY <1>2 DEF Work
<1> HIDE DEF b
<1>6. c \in Work
  BY <1>4, Field
<1>7. /\ c.phase = b.phase /\ c.attempt = b.attempt /\ c.evidence = evidence
      /\ c.event = b.event /\ c.from = b.from /\ c.heard = b.heard
      /\ c.stale = b.stale /\ c.reply = b.reply
  BY <1>4 DEF Work
<1> HIDE DEF c
<1>8. c = Retry(w, evidence)
  BY DEF a, b, c, Retry
<1> QED
  BY <1>3, <1>5, <1>6, <1>7, <1>8

LEMMA AnswerFields ==
    ASSUME NEW w \in Work, NEW reply \in {"ACK", "ERROR"}, NEW evidence \in BOOLEAN
    PROVE  LET y == Reply(w, reply, evidence)
           IN  /\ y \in Work /\ y.phase = "answering" /\ y.reply = reply
               /\ y.evidence = evidence /\ y.event = w.event /\ y.from = w.from
               /\ y.heard = w.heard /\ y.stale = w.stale /\ y.attempt = w.attempt
<1> DEFINE a == [w EXCEPT !.phase = "answering"]
           b == [a EXCEPT !.reply = reply]
           c == [b EXCEPT !.evidence = evidence]
<1>1. "answering" \in Phase
  BY DEF Phase
<1>2. a \in Work
  BY <1>1, Field
<1>3. /\ a.phase = "answering" /\ a.attempt = w.attempt
      /\ a.event = w.event /\ a.from = w.from /\ a.heard = w.heard /\ a.stale = w.stale
  BY DEF Work
<1> HIDE DEF a
<1>4. b \in Work
  BY <1>2, Field
<1>5. /\ b.phase = a.phase /\ b.attempt = a.attempt /\ b.reply = reply
      /\ b.event = a.event /\ b.from = a.from /\ b.heard = a.heard /\ b.stale = a.stale
  BY <1>2 DEF Work
<1> HIDE DEF b
<1>6. c \in Work
  BY <1>4, Field
<1>7. /\ c.phase = b.phase /\ c.attempt = b.attempt /\ c.evidence = evidence
      /\ c.event = b.event /\ c.from = b.from /\ c.heard = b.heard
      /\ c.stale = b.stale /\ c.reply = b.reply
  BY <1>4 DEF Work
<1> HIDE DEF c
<1>8. c = Reply(w, reply, evidence)
  BY DEF a, b, c, Reply
<1> QED
  BY <1>3, <1>5, <1>6, <1>7, <1>8

\* The id of an event that is worked on.
LEMMA IdTyped ==
    ASSUME Invariant, NEW n \in Asker, NEW t \in Slot, Active(n, t)
    PROVE  work[n][t].event \in Emitted /\ IdOf(n, t) \in Body
  BY DEF Invariant, Slots, Emissions, IdOf

\* The answer of a relay.
LEMMA AnswerTyped ==
    ASSUME Types, NEW n \in RelayNodes, NEW t \in Slot,
           NEW reply \in {"ACK", "ERROR"}, NEW evidence \in BOOLEAN,
           reply = "ACK" => IdOf(n, t) \in LoggedIds',
           reply = "ERROR" => Explains(faulty', n),
           evidence => Explains(faulty', Below(n))
    PROVE  LET y == Answer(work[n][t], reply, evidence)
           IN  /\ y \in Work /\ y.phase # "ready"
               /\ Answers(n, t, y) \/ Drops(n, t, y)
<1> DEFINE w == work[n][t]
           z == Reply(w, reply, evidence)
<1>1. w \in Work
  BY WorkTyped, RouteShape
<1>2. z \in Work /\ z.phase = "answering" /\ z.reply = reply /\ z.evidence = evidence
  BY <1>1, AnswerFields
<1>3. NoWork \in Work /\ NoWork.phase = "idle"
  BY NoWorkTyped DEF NoWork
<1>4. n # Agent
  BY RouteShape
<1>5. w.heard => Answers(n, t, z)
  BY <1>2, <1>4 DEF Answers
<1> HIDE DEF z
<1>6. Answer(w, reply, evidence) = IF w.heard THEN z ELSE NoWork
  BY DEF Answer, Reply, z
<1> QED
  BY <1>2, <1>3, <1>5, <1>6 DEF Drops

LEMMA Pops ==
    ASSUME Invariant, NEW n \in RelayNodes, NEW t \in Slot, PopPending(n, t)
    PROVE  /\ pending_ack_table' \in [RelayNodes -> SUBSET Body]
           /\ \A m \in RelayNodes :
                 /\ pending_ack_table'[m] \subseteq pending_ack_table[m]
                 /\ m = n => IdOf(n, t) \notin pending_ack_table'[m]
  BY DEF PopPending, Invariant, Types

\* A delivery that a reset overtook.
LEMMA InterruptedEnds ==
    ASSUME Invariant, NEW n \in RelayNodes, NEW t \in Slot, NEW f, Left(n, t, f),
           Around(n, t), work[n][t].stale, Interrupted(n, t, f)
    PROVE  Ends(n, t)
<1> DEFINE y == Answer(work[n][t], "ERROR", FALSE)
<1>1. Explains(faulty', n)
  <2>1. n \in faulty /\ n \in Nodes
    BY RouteShape DEF Invariant, Explanations, Around, Active, Working, Waiting
  <2> QED
    BY <2>1, Explanation, StaysExplained DEF Around
<1>2. y \in Work /\ y.phase # "ready" /\ (Answers(n, t, y) \/ Drops(n, t, y))
  BY <1>1, AnswerTyped DEF Invariant
<1>3. work' = [f EXCEPT ![n][t] = y] /\ PopPending(n, t) /\ UNCHANGED <<received_id_cache, events>>
  BY DEF Interrupted
<1> HIDE DEF y
<1>4. Remembers(n, t, y)
  BY <1>2, <1>3, Pops DEF Remembers, Invariant, Types
<1>5. Decides(n, t, y)
  BY <1>3, RouteShape DEF Decides, events
<1> QED
  BY <1>2, <1>3, <1>4, <1>5 DEF Ends

LEMMA AcknowledgedEnds ==
    ASSUME Invariant, NEW n \in Asker, NEW t \in Slot, NEW f, Left(n, t, f),
           Around(n, t), IdOf(n, t) \in LoggedIds', Acknowledged(n, t, f)
    PROVE  Ends(n, t)
<1>1. CASE n = Agent
  <2>1. /\ work' = [f EXCEPT ![n][t] = NoWork] /\ Settle(n, t, "acknowledged")
        /\ UNCHANGED <<received_id_cache, pending_ack_table, seq_no, ids, suspected_node>>
    BY <1>1 DEF Acknowledged, tables
  <2>2. Remembers(n, t, NoWork)
    BY <1>1, <2>1, RouteShape DEF Remembers, Invariant, Types
  <2>3. Decides(n, t, NoWork)
    BY <1>1, <2>1 DEF Decides
  <2> QED
    BY <1>1, <2>1, <2>2, <2>3, NoWorkTyped DEF Ends, Drops
<1>2. CASE n # Agent /\ work[n][t].stale
  <2>1. n \in RelayNodes /\ Interrupted(n, t, f)
    BY <1>2, RouteShape DEF Acknowledged
  <2> QED
    BY <1>2, <2>1, InterruptedEnds
<1>3. CASE n # Agent /\ ~work[n][t].stale
  <2> DEFINE y == Answer(work[n][t], "ACK", FALSE)
  <2>0. n \in RelayNodes
    BY <1>3, RouteShape
  <2>1. /\ received_id_cache' = [received_id_cache EXCEPT ![n] = @ \cup {IdOf(n, t)}]
        /\ PopPending(n, t) /\ work' = [f EXCEPT ![n][t] = y] /\ UNCHANGED events
    BY <1>3 DEF Acknowledged
  <2>2. y \in Work /\ y.phase # "ready" /\ (Answers(n, t, y) \/ Drops(n, t, y))
    BY <2>0, AnswerTyped DEF Invariant
  <2> HIDE DEF y
  <2>3. IdOf(n, t) \in Body
    BY IdTyped DEF Around, Active, Working, Waiting
  <2>4. /\ received_id_cache' \in [RelayNodes -> SUBSET Body]
        /\ \A m \in RelayNodes : received_id_cache'[m] \subseteq received_id_cache[m] \cup LoggedIds'
    BY <2>1, <2>3 DEF Invariant, Types
  <2>5. Remembers(n, t, y)
    BY <2>0, <2>1, <2>4, Pops DEF Remembers
  <2>6. Decides(n, t, y)
    BY <1>3, <2>1 DEF Decides, events
  <2> QED
    BY <2>1, <2>2, <2>5, <2>6 DEF Ends
<1> QED
  BY <1>1, <1>2, <1>3

\* An attempt fails because of a fault at the node asked or below it.
LEMMA AgainEnds ==
    ASSUME Invariant, NEW n \in Asker, NEW t \in Slot, NEW f, Left(n, t, f), Around(n, t),
           NEW evidence \in BOOLEAN, n # Agent /\ evidence => Explains(faulty', Below(n)),
           ~LastAttempt(n, t), Again(n, t, f, evidence)
    PROVE  \E y \in Work : /\ work' = [f EXCEPT ![n][t] = y]
                           /\ Retries(n, t, y) /\ y.phase = "ready"
<1> DEFINE w == work[n][t]
           y == Retry(w, evidence)
<1>1. w \in Work
  BY WorkTyped DEF Invariant
<1>2. y \in Work /\ y.evidence = evidence /\ y.phase = "ready"
  BY <1>1, RetryFields
<1>3. Retries(n, t, y)
  BY <1>2 DEF Retries, LastAttempt, Limit
<1>4. work' = [f EXCEPT ![n][t] = y]
  BY DEF Again, Retry
<1> HIDE DEF y
<1> QED
  BY <1>2, <1>3, <1>4

LEMMA AgentFailedEnds ==
    ASSUME Invariant, NEW t \in Slot, NEW f, Left(Agent, t, f), Around(Agent, t),
           NEW quoted \in BOOLEAN, Explains(faulty', Target(Agent, t)),
           quoted /\ work[Agent][t].attempt = 1 => Explains(faulty', Below("r1")),
           AgentFailed(t, f, quoted)
    PROVE  Ends(Agent, t)
<1>1. Agent \in Asker /\ Agent \notin RelayNodes
  BY RouteShape
<1>2. Active(Agent, t) /\ work[Agent][t].attempt \in {1, 2}
  BY <1>1 DEF Invariant, Slots, Around, Active, Working, Waiting, Limit
<1>3. \A y : UNCHANGED tables => Remembers(Agent, t, y)
  BY <1>1 DEF Remembers, tables, Invariant, Types
<1>4. CASE ~LastAttempt(Agent, t)
  <2>1. /\ Again(Agent, t, f, FALSE) /\ UNCHANGED <<tables, seq_no, ids, status>>
        /\ suspected_node' =
              [suspected_node EXCEPT ![work[Agent][t].event] = Suspect(quoted)]
    BY <1>4 DEF AgentFailed
  <2>2. PICK y \in Work : /\ work' = [f EXCEPT ![Agent][t] = y]
                          /\ Retries(Agent, t, y) /\ y.phase = "ready"
    BY <1>1, <1>4, <2>1, AgainEnds
  <2>3. work[Agent][t].attempt = 1
    BY <1>2, <1>4 DEF LastAttempt
  <2>4. Explains(faulty', Suspect(quoted)) /\ Suspect(quoted) \in Nodes
    <3>1. Target(Agent, t) = "r1"
      BY <1>1, <2>3, Targets
    <3> QED
      BY <2>3, <3>1, Routes DEF Suspect, Nodes
  <2>5. y # NoWork
    BY <2>2 DEF NoWork
  <2>6. Decides(Agent, t, y)
    BY <2>1, <2>4, <2>5 DEF Decides
  <2> QED
    BY <1>3, <2>1, <2>2, <2>6 DEF Ends
<1>5. CASE LastAttempt(Agent, t)
  <2>1. /\ work' = [f EXCEPT ![Agent][t] = NoWork] /\ UNCHANGED <<tables, seq_no, ids>>
        /\ suspected_node' = [suspected_node EXCEPT ![work[Agent][t].event] = "r1b"]
        /\ Settle(Agent, t, "failed")
    BY <1>5 DEF AgentFailed
  <2>2. Target(Agent, t) = "r1b" /\ "r1b" \in Nodes
    BY <1>5 DEF LastAttempt, Target, Nodes
  <2>3. Decides(Agent, t, NoWork)
    BY <2>1, <2>2 DEF Decides
  <2> QED
    BY <1>1, <1>3, <2>1, <2>3, NoWorkTyped DEF Ends, Drops
<1> QED
  BY <1>4, <1>5

LEMMA RelayFailedEnds ==
    ASSUME Invariant, NEW n \in RelayNodes, NEW t \in Slot, NEW f, Left(n, t, f),
           Around(n, t), NEW own \in BOOLEAN, NEW raised \in BOOLEAN,
           Explains(faulty', Below(n)), RelayFailed(n, t, f, own, raised)
    PROVE  Ends(n, t)
<1> DEFINE w == work[n][t]
           evidence == w.evidence \/ own
<1>1. n \in Asker /\ n # Agent /\ w \in Work
  BY RouteShape, WorkTyped DEF Invariant
<1>2. Explains(faulty', n)
  <2>1. AtOrBelow(Below(n)) \subseteq AtOrBelow(n)
    BY Routes DEF RelayNodes, AtOrBelow
  <2> QED
    BY <2>1 DEF Explains
<1>3. evidence \in BOOLEAN
  BY <1>1 DEF Work
<1>4. CASE Again(n, t, f, evidence) /\ ~LastAttempt(n, t) /\ UNCHANGED <<tables, events>>
  <2>1. PICK y \in Work : /\ work' = [f EXCEPT ![n][t] = y]
                          /\ Retries(n, t, y) /\ y.phase = "ready"
    <3> HIDE DEF evidence
    <3> QED
      BY <1>1, <1>3, <1>4, AgainEnds
  <2>2. Remembers(n, t, y)
    BY <1>4, <2>1 DEF Remembers, tables, Invariant, Types
  <2>3. Decides(n, t, y)
    BY <1>1, <1>4 DEF Decides, events
  <2> QED
    BY <1>1, <2>1, <2>2, <2>3 DEF Ends
<1>5. CASE /\ work' = [f EXCEPT ![n][t] = Answer(w, "ERROR", evidence)]
           /\ PopPending(n, t) /\ Forget(n, t) /\ UNCHANGED events
  <2> DEFINE y == Answer(w, "ERROR", evidence)
  <2>1. y \in Work /\ y.phase # "ready" /\ (Answers(n, t, y) \/ Drops(n, t, y))
    <3> HIDE DEF evidence
    <3> QED
      BY <1>2, <1>3, AnswerTyped DEF Invariant
  <2>2. work' = [f EXCEPT ![n][t] = y]
    BY <1>5
  <2> HIDE DEF y
  <2>3. Remembers(n, t, y)
    BY <1>5, <2>1, Pops DEF Remembers, Forget, Invariant, Types
  <2>4. Decides(n, t, y)
    BY <1>1, <1>5 DEF Decides, events
  <2> QED
    BY <2>1, <2>2, <2>3, <2>4 DEF Ends
<1>6. CASE w.stale /\ Interrupted(n, t, f)
  BY <1>6, InterruptedEnds
<1> QED
  BY <1>4, <1>5, <1>6 DEF RelayFailed

LEMMA FailedEnds ==
    ASSUME Invariant, NEW n \in Asker, NEW t \in Slot, NEW f, Left(n, t, f), Around(n, t),
           NEW own \in BOOLEAN, NEW quoted \in BOOLEAN, NEW raised \in BOOLEAN,
           Explains(faulty', Target(n, t)),
           n = Agent /\ quoted /\ work[n][t].attempt = 1 => Explains(faulty', Below("r1")),
           Failed(n, t, f, own, quoted, raised)
    PROVE  Ends(n, t)
<1>1. CASE n = Agent
  BY <1>1, AgentFailedEnds DEF Failed
<1>2. CASE n # Agent
  <2>1. n \in RelayNodes /\ Target(n, t) = Below(n)
    BY <1>2, RouteShape, Targets
  <2> QED
    BY <1>2, <2>1, RelayFailedEnds DEF Failed
<1> QED
  BY <1>1, <1>2

-----------------------------------------------------------------------------
(* The actions that end an attempt.                                        *)

Attempt(n, t) ==
    \/ Interrupt(n, t) \/ Refused(n, t) \/ Rejected(n, t) \/ Replayed(n, t) \/ Logged(n, t)
    \/ Hear(n, t) \/ TimedOut(n, t) \/ Closed(n, t) \/ GiveUp(n, t)

LEMMA NoneLeft ==
    ASSUME Types, NEW n \in Asker, NEW t \in Slot, work[n][t].phase # "asking"
    PROVE  Left(n, t, work)
  BY DEF Left, Types

LEMMA Quietly ==
    ASSUME Invariant, NEW n \in Asker, NEW t \in Slot, work[n][t].phase \in Working,
           UNCHANGED <<nodes, sink, history>>
    PROVE  Around(n, t) /\ faulty' = faulty /\ logged' = logged
  BY DEF Invariant, Types, Around, sink, history

LEMMA AcknowledgedKeepsIds ==
    ASSUME NEW n, NEW t, NEW f, Acknowledged(n, t, f) PROVE ids' = ids
  BY DEF Acknowledged, Interrupted, events

LEMMA InterruptEnds ==
    ASSUME Invariant, NEW n \in Asker, NEW t \in Slot, Interrupt(n, t) PROVE Ends(n, t)
<1>1. /\ n \in RelayNodes /\ work[n][t].phase = "ready" /\ work[n][t].stale
      /\ Interrupted(n, t, work) /\ UNCHANGED <<nodes, sink, history>>
  BY RouteShape DEF Interrupt
<1>2. Around(n, t) /\ Left(n, t, work)
  BY <1>1, NoneLeft, Quietly DEF Invariant, Working
<1> QED
  BY <1>1, <1>2, InterruptedEnds

\* A node that answers no more, or is paused, is at fault.
LEMMA DownOrPaused ==
    ASSUME Invariant, NEW m \in Nodes, ~up[m] \/ ~running[m] PROVE Explains(faulty, m)
  BY Explanation DEF Invariant, Explanations

LEMMA RefusedEnds ==
    ASSUME Invariant, NEW n \in Asker, NEW t \in Slot, Refused(n, t) PROVE Ends(n, t)
<1>1. /\ work[n][t].phase = "ready" /\ ~up[Target(n, t)]
      /\ Failed(n, t, work, TRUE, FALSE, TRUE) /\ UNCHANGED <<nodes, sink, history>>
  BY DEF Refused, Asks
<1>2. Around(n, t) /\ Left(n, t, work) /\ faulty' = faulty
  BY <1>1, NoneLeft, Quietly DEF Invariant, Working
<1>3. Explains(faulty, Target(n, t))
  BY <1>1, Targets, DownOrPaused
<1> QED
  BY <1>1, <1>2, <1>3, FailedEnds

\* A relay that is delivering an event is asked for it again only when it, or the
\* agent, is at fault.
LEMMA PendingExplained ==
    ASSUME Invariant, NEW n \in Asker, NEW t \in Slot, work[n][t].phase = "ready",
           NEW m \in RelayNodes, m = Target(n, t), IdOf(n, t) \in pending_ack_table[m]
    PROVE  Explains(faulty, m)
<1> USE DEF Invariant
<1>1. m \in Nodes /\ m \in Asker
  BY RouteShape
<1>2. SUFFICES ASSUME Agent \notin faulty, m \notin faulty PROVE FALSE
  BY <1>1, Explanation
<1>3. Active(n, t)
  BY DEF Active
<1>4. PICK s \in Slot : work[m][s].phase \in Working /\ IdOf(m, s) = IdOf(n, t)
  BY DEF Pending
<1>5. Active(m, s)
  BY <1>4 DEF Active, Working, Waiting
<1>6. work[m][s].event = work[n][t].event
  <2>1. work[m][s].event \in Emitted /\ work[n][t].event \in Emitted
    BY <1>1, <1>3, <1>5, IdTyped
  <2> QED
    BY <1>2, <1>4, <2>1 DEF Emissions, IdOf
<1>7. work[m][s].event \in Body
  BY <1>1, <1>5, IdTyped DEF Emitted
<1>8. Has(m, work[m][s].event) /\ Has(n, work[m][s].event)
  BY <1>3, <1>5, <1>6 DEF Has
<1>9. CASE n = Agent
  <2>1. m \in Entry /\ t = 1
    BY <1>3, <1>9, Targets DEF Slots
  <2>2. Ahead(m, work[m][s].event)
    BY <1>3, <1>6, <1>9, <2>1 DEF Ahead
  <2> QED
    BY <1>2, <1>7, <1>8, <2>1, <2>2 DEF Copies
<1>10. CASE n # Agent
  <2>1. n \in Entry /\ m = Below(n) /\ Above(m) = n
    <3>1. n \in RelayNodes /\ m = Below(n) /\ Above(m) = n
      BY <1>10, RouteShape, Targets
    <3>2. "monitor" \notin RelayNodes
      BY RouteShape
    <3> QED
      BY <3>1, <3>2, RouteShape
  <2>2. work[m][s].heard
    BY <1>2, <1>5, <1>8, <2>1 DEF Copies
  <2>3. PICK x \in Slot : work[n][x].phase = "asking" /\ work[n][x].event = work[m][s].event
    BY <1>5, <2>1, <2>2 DEF Connections
  <2>4. Active(n, x)
    BY <2>3 DEF Active
  <2>5. x = t
    BY <1>2, <1>3, <1>6, <2>1, <2>3, <2>4 DEF Copies
  <2> QED
    BY <2>3, <2>5
<1> QED
  BY <1>9, <1>10

LEMMA RejectedEnds ==
    ASSUME Invariant, NEW n \in Asker, NEW t \in Slot, Rejected(n, t) PROVE Ends(n, t)
<1> DEFINE m == Target(n, t)
<1>1. /\ work[n][t].phase = "ready"
      /\ Failed(n, t, work, TRUE, FALSE, FALSE) /\ UNCHANGED <<nodes, sink, history>>
      /\ ~running[m] \/ (m # "monitor" /\ IdOf(n, t) \in pending_ack_table[m])
  BY DEF Rejected, Asks, IsPending
<1>2. Around(n, t) /\ Left(n, t, work) /\ faulty' = faulty
  BY <1>1, NoneLeft, Quietly DEF Invariant, Working
<1>3. m \in Nodes /\ (m = "monitor" \/ m \in RelayNodes)
  BY Targets DEF Nodes, RelayNodes, Agent
<1>4. Explains(faulty, m)
  <2> HIDE DEF m
  <2>1. m = Target(n, t)
    BY DEF m
  <2>2. CASE ~running[m]
    BY <1>3, <2>2, DownOrPaused
  <2>3. CASE m \in RelayNodes /\ IdOf(n, t) \in pending_ack_table[m]
    BY <1>1, <2>1, <2>3, PendingExplained
  <2> QED
    BY <1>1, <1>3, <2>2, <2>3
<1> QED
  BY <1>1, <1>2, <1>4, FailedEnds

LEMMA ReplayedEnds ==
    ASSUME Invariant, NEW n \in Asker, NEW t \in Slot, Replayed(n, t) PROVE Ends(n, t)
<1>1. /\ work[n][t].phase = "ready" /\ Acknowledged(n, t, work)
      /\ UNCHANGED <<nodes, sink, history>>
      /\ Target(n, t) # "monitor" /\ IdOf(n, t) \in received_id_cache[Target(n, t)]
  BY DEF Replayed, Asks, Known
<1>2. Around(n, t) /\ Left(n, t, work) /\ logged' = logged /\ ids' = ids
  BY <1>1, NoneLeft, Quietly, AcknowledgedKeepsIds DEF Invariant, Working
<1>3. Target(n, t) \in RelayNodes
  BY <1>1, Targets DEF Nodes, RelayNodes, Agent
<1>4. IdOf(n, t) \in LoggedIds'
  BY <1>1, <1>2, <1>3 DEF Invariant, Vouches, LoggedIds
<1> QED
  BY <1>1, <1>2, <1>4, AcknowledgedEnds

LEMMA TakeInLogs ==
    ASSUME Types, NEW b \in Body, TakeIn(b), UNCHANGED ids
    PROVE  /\ event_log' \subseteq logged' /\ logged \subseteq logged'
           /\ logged' \subseteq logged \cup {b} /\ ids[b] \in LoggedIds'
<1>1. CASE ids[b] \in {ids[a] : a \in event_log}
  BY <1>1 DEF TakeIn, sink, Types, LoggedIds
<1>2. CASE ids[b] \notin {ids[a] : a \in event_log}
  BY <1>2 DEF TakeIn, Types, LoggedIds
<1> QED
  BY <1>1, <1>2

LEMMA LoggedEnds ==
    ASSUME Invariant, NEW n \in Asker, NEW t \in Slot, Logged(n, t) PROVE Ends(n, t)
<1>1. /\ work[n][t].phase = "ready" /\ Acknowledged(n, t, work) /\ UNCHANGED <<nodes, history>>
      /\ Target(n, t) = "monitor" /\ TakeIn(work[n][t].event) /\ ids' = ids
  BY AcknowledgedKeepsIds DEF Logged, AsksMonitor, Asks
<1>2. n # Agent
  BY <1>1, Targets, RouteShape
<1>3. work[n][t].event \in Body
  BY <1>1, IdTyped DEF Active, Emitted
<1>4. Around(n, t) /\ IdOf(n, t) \in LoggedIds'
  BY <1>1, <1>2, <1>3, TakeInLogs DEF Invariant, Around, Working, history, Types, IdOf
<1>5. Left(n, t, work)
  BY <1>1, NoneLeft DEF Invariant
<1> QED
  BY <1>1, <1>4, <1>5, AcknowledgedEnds

\* A connection is served by one slot.
LEMMA OneServer ==
    ASSUME Invariant, NEW n \in Asker, NEW t \in Slot, work[n][t].phase = "asking",
           NEW m, m = Target(n, t), NEW s \in Slot, Serves(m, s, t)
    PROVE  /\ m \in RelayNodes /\ m # n /\ work[m][s].event = work[n][t].event
           /\ \A x \in Slot : Serves(m, x, t) => x = s
<1>1. m \in RelayNodes /\ m # n /\ Above(m) = n
  BY Targets DEF Invariant, Connections
<1>2. \A x \in Slot : Serves(m, x, t) => Active(m, x) /\ work[m][x].heard /\ work[m][x].from = t
  BY DEF Serves, Active
<1> QED
  BY <1>1, <1>2 DEF Invariant, Connections

LEMMA HearEnds ==
    ASSUME Invariant, NEW n \in Asker, NEW t \in Slot, Hear(n, t) PROVE Ends(n, t)
<1> DEFINE m == Target(n, t)
<1>1. PICK s \in Slot :
          /\ work[n][t].phase = "asking" /\ UNCHANGED <<nodes, sink, history>>
          /\ Serves(m, s, t) /\ work[m][s].phase = "answering"
          /\ LET base == [work EXCEPT ![m][s] = NoWork]
             IN  \/ work[m][s].reply = "ACK" /\ Acknowledged(n, t, base)
                 \/ work[m][s].reply = "ERROR"
                    /\ Failed(n, t, base, TRUE, work[m][s].evidence, FALSE)
  BY DEF Hear
<1>2. /\ m \in RelayNodes /\ m # n /\ work[m][s].event = work[n][t].event
      /\ \A x \in Slot : Serves(m, x, t) => x = s
  BY <1>1, OneServer
<1>3. Around(n, t) /\ faulty' = faulty /\ logged' = logged
  BY <1>1, Quietly DEF Working, Waiting
<1> DEFINE base == [work EXCEPT ![m][s] = NoWork]
<1>4. Left(n, t, base)
  <2>1. m \in Asker /\ NoWork \in Work
    BY <1>2, RouteShape, NoWorkTyped
  <2>2. /\ base \in [Asker -> [Slot -> Work]] /\ base[m][s] = NoWork
        /\ \A o \in Asker, x \in Slot : o # m \/ x # s => base[o][x] = work[o][x]
    <3> HIDE DEF m
    <3> QED
      BY <2>1, Put DEF Invariant, Types
  <2> HIDE DEF base
  <2> QED
    BY <1>1, <1>2, <2>2 DEF Left
<1>5. m \in Asker /\ Active(m, s)
  BY <1>1, <1>2, RouteShape DEF Active
<1>6. CASE work[m][s].reply = "ACK" /\ Acknowledged(n, t, base)
  <2>1. IdOf(m, s) \in LoggedIds /\ IdOf(m, s) = IdOf(n, t)
    BY <1>1, <1>2, <1>6 DEF Invariant, Vouches, IdOf
  <2>2. ids' = ids
    BY <1>6, AcknowledgedKeepsIds
  <2>3. IdOf(n, t) \in LoggedIds'
    BY <1>3, <2>1, <2>2 DEF LoggedIds
  <2> HIDE DEF base
  <2> QED
    BY <1>3, <1>4, <1>6, <2>3, AcknowledgedEnds
<1>7. CASE work[m][s].reply = "ERROR" /\ Failed(n, t, base, TRUE, work[m][s].evidence, FALSE)
  <2>1. Explains(faulty, m)
    BY <1>1, <1>2, <1>7 DEF Invariant, Explanations
  <2>2. work[m][s].evidence => Explains(faulty, Below(m))
    BY <1>2, <1>5 DEF Invariant, Explanations
  <2>3. n = Agent /\ work[n][t].attempt = 1 => m = "r1"
    BY Targets
  <2>4. work[m][s].evidence \in BOOLEAN
    BY <1>5, WorkTyped DEF Invariant, Work
  <2> HIDE DEF base
  <2> QED
    BY <1>3, <1>4, <1>7, <2>1, <2>2, <2>3, <2>4, FailedEnds
<1> QED
  BY <1>1, <1>6, <1>7

LEMMA GiveUpEnds ==
    ASSUME Invariant, NEW n \in Asker, NEW t \in Slot, GiveUp(n, t) PROVE Ends(n, t)
<1> DEFINE m == Target(n, t)
<1>1. PICK s \in Slot :
          /\ work[n][t].phase = "asking" /\ Fault(m) /\ UNCHANGED <<nodes, sink>>
          /\ Serves(m, s, t)
          /\ Failed(n, t, [work EXCEPT ![m][s] = Unheard(@)], TRUE, FALSE, TRUE)
  BY DEF GiveUp
<1>2. /\ m \in RelayNodes /\ m # n /\ work[m][s].event = work[n][t].event
      /\ \A x \in Slot : Serves(m, x, t) => x = s
  BY <1>1, OneServer
<1>3. m \in Asker /\ m \in Nodes /\ work[m][s] \in Work
  BY <1>2, RouteShape, WorkTyped DEF Invariant
<1>4. Around(n, t) /\ m \in faulty' /\ faulty' \subseteq Nodes
  BY <1>1, <1>3, DeliveryAssumption
  DEF Around, Fault, sink, Invariant, Types, Working, Waiting
<1> DEFINE w == Unheard(work[m][s])
           base == [work EXCEPT ![m][s] = w]
<1>5. w \in Work
  BY <1>3, NoWorkTyped, Field DEF Unheard
<1>6. Left(n, t, base)
  <2>1. /\ base \in [Asker -> [Slot -> Work]] /\ base[m][s] = w
        /\ \A o \in Asker, x \in Slot : o # m \/ x # s => base[o][x] = work[o][x]
    <3> HIDE DEF m, w
    <3> QED
      BY <1>3, <1>5, Put DEF Invariant, Types
  <2> HIDE DEF base
  <2> QED
    BY <1>1, <1>2, <1>4, <2>1 DEF Left, Unheard
<1>7. Explains(faulty', m)
  BY <1>4 DEF Explains, AtOrBelow
<1>8. Failed(n, t, base, TRUE, FALSE, TRUE)
  BY <1>1
<1> HIDE DEF base
<1> QED
  BY <1>4, <1>6, <1>7, <1>8, FailedEnds

LEMMA TimedOutEnds ==
    ASSUME Invariant, NEW n \in Asker, NEW t \in Slot, TimedOut(n, t) PROVE Ends(n, t)
<1>1. /\ work[n][t].phase = "unanswered" /\ UNCHANGED <<nodes, sink, history>>
      /\ Failed(n, t, work, TRUE, FALSE, TRUE)
  BY DEF TimedOut
<1>2. Around(n, t) /\ Left(n, t, work) /\ faulty' = faulty
  BY <1>1, NoneLeft, Quietly DEF Invariant, Working, Waiting
<1>3. Explains(faulty, Target(n, t))
  BY <1>1, Targets, Explanation DEF Invariant, Explanations
<1> QED
  BY <1>1, <1>2, <1>3, FailedEnds

LEMMA ClosedEnds ==
    ASSUME Invariant, NEW n \in Asker, NEW t \in Slot, Closed(n, t) PROVE Ends(n, t)
<1>1. /\ work[n][t].phase = "closed" /\ UNCHANGED <<nodes, sink, history>>
      /\ Failed(n, t, work, FALSE, FALSE, FALSE) \/ Failed(n, t, work, TRUE, FALSE, TRUE)
  BY DEF Closed
<1>2. Around(n, t) /\ Left(n, t, work) /\ faulty' = faulty
  BY <1>1, NoneLeft, Quietly DEF Invariant, Working, Waiting
<1>3. Explains(faulty, Target(n, t))
  BY <1>1, Targets, Explanation DEF Invariant, Explanations
<1> QED
  BY <1>1, <1>2, <1>3, FailedEnds

LEMMA AttemptEnds ==
    ASSUME Invariant, NEW n \in Asker, NEW t \in Slot, Attempt(n, t) PROVE Ends(n, t)
  BY InterruptEnds, RefusedEnds, RejectedEnds, ReplayedEnds, LoggedEnds, HearEnds,
     TimedOutEnds, ClosedEnds, GiveUpEnds
  DEF Attempt

-----------------------------------------------------------------------------
(* The end of an attempt keeps the invariant.                              *)

Served(n, t, m, s) == work[n][t].phase = "asking" /\ m = Target(n, t) /\ Serves(m, s, t)

\* The other slots.
Others(n, t) ==
    \A m \in Asker, s \in Slot : m # n \/ s # t =>
        /\ ~Served(n, t, m, s) => work'[m][s] = work[m][s]
        /\ Served(n, t, m, s) =>
              \/ work[m][s].phase = "answering" /\ work'[m][s] = NoWork
              \/ /\ work[m][s].phase # "answering" /\ m \in faulty'
                 /\ work'[m][s] = [work[m][s] EXCEPT !.heard = FALSE]

Becomes(n, t, y) ==
    /\ y \in Work /\ work'[n][t] = y
    /\ Retries(n, t, y) \/ Answers(n, t, y) \/ Drops(n, t, y)

LEMMA EndsView ==
    ASSUME Invariant, NEW n \in Asker, NEW t \in Slot, Ends(n, t)
    PROVE  /\ work' \in [Asker -> [Slot -> Work]]
           /\ Others(n, t) /\ Around(n, t)
           /\ \E y : Becomes(n, t, y) /\ Remembers(n, t, y) /\ Decides(n, t, y)
<1> PICK f, y : /\ Left(n, t, f) /\ y \in Work /\ work' = [f EXCEPT ![n][t] = y]
                /\ Retries(n, t, y) \/ Answers(n, t, y) \/ Drops(n, t, y)
                /\ Remembers(n, t, y) /\ Decides(n, t, y)
  BY DEF Ends
<1>1. f \in [Asker -> [Slot -> Work]]
  BY DEF Left
<1>2. /\ work' \in [Asker -> [Slot -> Work]] /\ work'[n][t] = y
      /\ \A m \in Asker, s \in Slot : m # n \/ s # t => work'[m][s] = f[m][s]
  BY <1>1, Put
<1>3. Others(n, t)
  BY <1>2 DEF Others, Left, Served
<1> QED
  BY <1>2, <1>3 DEF Ends, Becomes

\* A slot that ends an attempt keeps its connection and its event, if any.
LEMMA BecomesFields ==
    ASSUME Types, NEW n \in Asker, NEW t \in Slot, NEW y, Becomes(n, t, y)
    PROVE  LET w == work[n][t]
           IN  \/ Drops(n, t, y) /\ y.phase = "idle"
               \/ /\ y.phase \in {"ready", "answering"}
                  /\ y.event = w.event /\ y.from = w.from /\ y.heard = w.heard
                  /\ y.stale = w.stale
                  /\ \/ /\ y.phase = "ready" /\ w.attempt # Limit(n)
                        /\ y.attempt = w.attempt + 1
                     \/ /\ y.phase = "answering" /\ n # Agent /\ w.heard
                        /\ y.attempt = w.attempt
<1>1. work[n][t] \in Work /\ y \in Work
  BY WorkTyped DEF Becomes
<1>2. y.evidence \in BOOLEAN
  BY <1>1 DEF Work
<1>3. CASE Drops(n, t, y)
  BY <1>3 DEF NoWork, Drops
<1>4. CASE Retries(n, t, y)
  BY <1>1, <1>2, <1>4, RetryFields DEF Retries
<1>5. CASE Answers(n, t, y)
  <2>0. n # Agent /\ work[n][t].heard
    BY <1>5 DEF Answers
  <2>1. y = Reply(work[n][t], y.reply, y.evidence) /\ y.reply \in {"ACK", "ERROR"}
    BY <1>5 DEF Answers
  <2> DEFINE z == Reply(work[n][t], y.reply, y.evidence)
  <2>2. /\ z.phase = "answering" /\ z.event = work[n][t].event /\ z.from = work[n][t].from
        /\ z.heard = work[n][t].heard /\ z.stale = work[n][t].stale
        /\ z.attempt = work[n][t].attempt
    BY <1>1, <1>2, <2>1, AnswerFields
  <2>3. y = z
    BY <2>1
  <2> HIDE DEF z
  <2> QED
    BY <2>0, <2>2, <2>3
<1> QED
  BY <1>3, <1>4, <1>5 DEF Becomes

\* No new work; work goes unheard only for a fault at its node, or when the node above
\* has gone with all it worked on.
Shrinks ==
    \A m \in Asker, s \in Slot : work'[m][s].phase # "idle" =>
        /\ work[m][s].phase # "idle"
        /\ work'[m][s].event = work[m][s].event
        /\ work'[m][s].from = work[m][s].from
        /\ work'[m][s].stale => work[m][s].stale \/ m \in faulty'
        /\ work'[m][s].heard => work[m][s].heard
        /\ work[m][s].heard => \/ work'[m][s].heard \/ m \in faulty'
                               \/ \A x \in Slot : work'[Above(m)][x].phase = "idle"

LEMMA EndsShrinks ==
    ASSUME Invariant, NEW n \in Asker, NEW t \in Slot, Ends(n, t)
    PROVE  Shrinks
<1>1. SUFFICES ASSUME NEW m \in Asker, NEW s \in Slot, work'[m][s].phase # "idle"
               PROVE  /\ work[m][s].phase # "idle"
                      /\ work'[m][s].event = work[m][s].event
                      /\ work'[m][s].from = work[m][s].from
                      /\ work'[m][s].stale => work[m][s].stale
                      /\ work'[m][s].heard => work[m][s].heard
                      /\ work[m][s].heard => work'[m][s].heard \/ m \in faulty'
  BY DEF Shrinks
<1>2. CASE m = n /\ s = t
  <2>1. PICK y : Becomes(n, t, y)
    BY EndsView
  <2>2. work'[n][t] = y /\ work[n][t].phase \in Working
    BY <2>1, EndsView DEF Becomes, Around
  <2> QED
    BY <1>1, <1>2, <2>1, <2>2, BecomesFields DEF Invariant, Working, Waiting
<1>3. CASE m # n \/ s # t
  <2>1. work[m][s] \in Work
    BY WorkTyped DEF Invariant
  <2>2. NoWork.phase = "idle"
    BY DEF NoWork
  <2>3. Others(n, t)
    BY EndsView
  <2>4. CASE ~Served(n, t, m, s)
    BY <1>1, <1>3, <2>3, <2>4 DEF Others
  <2>5. CASE /\ m \in faulty' /\ work'[m][s] = [work[m][s] EXCEPT !.heard = FALSE]
    <3>1. /\ work'[m][s].phase = work[m][s].phase /\ work'[m][s].event = work[m][s].event
          /\ work'[m][s].from = work[m][s].from /\ work'[m][s].stale = work[m][s].stale
          /\ work'[m][s].heard = FALSE
      BY <2>1, <2>5 DEF Work
    <3> QED
      BY <1>1, <2>5, <3>1
  <2> QED
    BY <1>1, <1>3, <2>2, <2>3, <2>4, <2>5 DEF Others
<1> QED
  BY <1>2, <1>3

\* What has been emitted has been emitted.
LEMMA EndsEmitted ==
    ASSUME Invariant, NEW n \in Asker, NEW t \in Slot, Ends(n, t)
    PROVE  /\ Emitted' = Emitted /\ UNCHANGED <<seq_no, ids>>
           /\ status' \in [Body -> {"unsent", "sent", "acknowledged", "failed", "lost"}]
           /\ \A b \in Body : status'[b] # status[b] =>
                 /\ n = Agent /\ b = work[n][t].event
                 /\ status'[b] # "sent" /\ work'[n][t] = NoWork
           /\ n = Agent /\ work'[n][t] = NoWork => status'[work[n][t].event] # "sent"
<1>1. PICK y : Becomes(n, t, y) /\ Decides(n, t, y)
  BY EndsView
<1>2. Active(n, t)
  BY EndsView DEF Around, Active, Working, Waiting
<1>3. work[n][t].event \in Emitted /\ status \in [Body -> {"unsent", "sent", "acknowledged", "failed", "lost"}]
  BY <1>2, IdTyped DEF Invariant, Types
<1>4. UNCHANGED <<seq_no, ids>> /\ work'[n][t] = y
  BY <1>1 DEF Becomes, Decides
<1>5. CASE n = Agent /\ y = NoWork
  <2>1. PICK outcome \in {"acknowledged", "failed"} :
            status' = [status EXCEPT ![work[n][t].event] = outcome]
    BY <1>1, <1>5 DEF Decides, Settle
  <2> QED
    BY <1>3, <1>4, <1>5, <2>1 DEF Emitted
<1>6. CASE ~(n = Agent /\ y = NoWork)
  <2>1. status' = status
    BY <1>1, <1>6 DEF Decides
  <2> QED
    BY <1>3, <1>4, <1>6, <2>1 DEF Emitted
<1> QED
  BY <1>5, <1>6

LEMMA EndsTypes ==
    ASSUME Invariant, NEW n \in Asker, NEW t \in Slot, Ends(n, t)
    PROVE  Types'
<1>1. PICK y : Becomes(n, t, y) /\ Remembers(n, t, y) /\ Decides(n, t, y)
  BY EndsView
<1>2. /\ up' = up /\ running' = running /\ event_log' \subseteq logged'
      /\ faults' \in 0..MaxFault /\ faulty' \subseteq Nodes
  BY EndsView DEF Around, nodes
<1>3. suspected_node' \in [Body -> Nodes \cup {None}]
  BY <1>1 DEF Decides, Invariant, Types
<1>4. /\ received_id_cache' \in [RelayNodes -> SUBSET Body]
      /\ pending_ack_table' \in [RelayNodes -> SUBSET Body]
  BY <1>1 DEF Remembers
<1> QED
  BY <1>2, <1>3, <1>4, EndsView, EndsEmitted DEF Invariant, Types

LEMMA EndsEmissions ==
    ASSUME Invariant, NEW n \in Asker, NEW t \in Slot, Ends(n, t)
    PROVE  Emissions'
<1> USE DEF Invariant
<1>1. /\ Emitted' = Emitted /\ UNCHANGED <<seq_no, ids>> /\ faulty \subseteq faulty'
      /\ logged' \subseteq logged \cup {work[n][t].event}
  BY EndsEmitted, EndsView DEF Around
<1>2. work[n][t].event \in Emitted
  BY EndsView, IdTyped DEF Around, Active, Working, Waiting
<1>3. \E k \in 0..MaxEvent : /\ Emitted' = 1..k /\ seq_no' <= k
                             /\ Agent \notin faulty' => seq_no' = k
  BY <1>1 DEF Emissions
<1>4. \A b \in Emitted' : ids'[b] \in Body /\ (Agent \notin faulty' => ids'[b] = b)
  BY <1>1 DEF Emissions
<1>5. ASSUME NEW b \in Body, status'[b] = "sent"
      PROVE  work'[Agent][1].phase # "idle" /\ work'[Agent][1].event = b
  <2>1. status[b] = "sent"
    BY <1>5, EndsEmitted
  <2>2. Active(Agent, 1) /\ work[Agent][1].event = b
    BY <2>1 DEF Emissions
  <2>3. Agent \in Asker /\ Agent \notin RelayNodes /\ 1 \in Slot
    BY RouteShape, DeliveryAssumption DEF Slot
  <2>4. CASE n = Agent /\ t = 1
    <3>1. work'[Agent][1] # NoWork
      BY <1>5, <2>2, <2>4, EndsEmitted
    <3>2. PICK y : Becomes(Agent, 1, y)
      BY <2>4, EndsView
    <3>3. y # NoWork /\ work'[Agent][1] = y
      BY <3>1, <3>2 DEF Becomes
    <3>4. y.phase # "idle" /\ y.event = work[Agent][1].event
      BY <2>3, <3>2, <3>3, BecomesFields DEF Drops
    <3> QED
      BY <2>2, <3>3, <3>4
  <2>5. CASE ~(n = Agent /\ t = 1)
    <3>1. ~Served(n, t, Agent, 1)
      BY <2>3 DEF Served, Connections
    <3>2. Others(n, t)
      BY EndsView
    <3>3. work'[Agent][1] = work[Agent][1]
      BY <2>3, <2>5, <3>1, <3>2 DEF Others
    <3> QED
      BY <2>2, <3>3 DEF Active
  <2> QED
    BY <2>4, <2>5
<1>6. logged' \subseteq Emitted'
  BY <1>1, <1>2 DEF Emissions
<1> QED
  BY <1>3, <1>4, <1>5, <1>6 DEF Emissions, Active

\* The other slots, field by field.
LEMMA OthersFields ==
    ASSUME Invariant, NEW n \in Asker, NEW t \in Slot, Others(n, t),
           NEW m \in Asker, NEW s \in Slot, m # n \/ s # t
    PROVE  \/ /\ work[m][s].phase = "answering" /\ work'[m][s].phase = "idle"
              /\ Served(n, t, m, s)
           \/ /\ work'[m][s].phase = work[m][s].phase /\ work'[m][s].event = work[m][s].event
              /\ work'[m][s].from = work[m][s].from /\ work'[m][s].stale = work[m][s].stale
              /\ work'[m][s].attempt = work[m][s].attempt
              /\ work'[m][s].evidence = work[m][s].evidence
              /\ work'[m][s].reply = work[m][s].reply
              /\ \/ ~Served(n, t, m, s) /\ work'[m][s].heard = work[m][s].heard
                 \/ /\ Served(n, t, m, s) /\ ~work'[m][s].heard
                    /\ work[m][s].phase # "answering"
<1>1. work[m][s] \in Work
  BY WorkTyped DEF Invariant
<1>2. CASE ~Served(n, t, m, s)
  <2>1. work'[m][s] = work[m][s]
    BY <1>2 DEF Others
  <2> QED
    BY <1>2, <2>1
<1>3. CASE Served(n, t, m, s) /\ work[m][s].phase = "answering" /\ work'[m][s] = NoWork
  BY <1>3 DEF NoWork
<1>4. CASE /\ Served(n, t, m, s) /\ work[m][s].phase # "answering"
           /\ work'[m][s] = [work[m][s] EXCEPT !.heard = FALSE]
  <2>1. /\ work'[m][s].phase = work[m][s].phase /\ work'[m][s].event = work[m][s].event
        /\ work'[m][s].from = work[m][s].from /\ work'[m][s].stale = work[m][s].stale
        /\ work'[m][s].attempt = work[m][s].attempt
        /\ work'[m][s].evidence = work[m][s].evidence
        /\ work'[m][s].reply = work[m][s].reply /\ ~work'[m][s].heard
    BY <1>1, <1>4 DEF Work
  <2> QED
    BY <1>4, <2>1
<1> QED
  BY <1>2, <1>3, <1>4 DEF Others

\* Nobody asks the agent.
LEMMA AgentUnserved ==
    ASSUME Invariant, NEW n \in Asker, NEW t \in Slot, NEW s PROVE ~Served(n, t, Agent, s)
  BY RouteShape DEF Invariant, Connections, Served

LEMMA EndsSlots ==
    ASSUME Invariant, NEW n \in Asker, NEW t \in Slot, Ends(n, t)
    PROVE  Slots'
<1> USE DEF Invariant
<1>1. PICK y : Becomes(n, t, y)
  BY EndsView
<1>2. work'[n][t] = y /\ Others(n, t) /\ Active(n, t) /\ Shrinks
  BY <1>1, EndsView, EndsShrinks DEF Becomes, Around, Active, Working, Waiting
<1>3. ASSUME NEW m \in Asker, NEW s \in Slot, work'[m][s].phase # "idle"
      PROVE  /\ work'[m][s].event \in Emitted'
             /\ work'[m][s].attempt \in 1..Limit(m)
             /\ work'[m][s].phase = "answering" => work'[m][s].heard
  <2>1. Active(m, s) /\ work'[m][s].event = work[m][s].event
    BY <1>2, <1>3 DEF Shrinks, Active
  <2>2. /\ work[m][s].event \in Emitted /\ work[m][s].attempt \in 1..Limit(m)
        /\ work[m][s].phase = "answering" => work[m][s].heard
    BY <2>1 DEF Slots
  <2>3. CASE m = n /\ s = t
    <3>1. Limit(n) \in Nat
      BY DeliveryAssumption DEF Limit
    <3>2. ~Drops(n, t, y)
      BY <1>2, <1>3, <2>3 DEF Drops, NoWork
    <3>3. /\ y.attempt \in 1..Limit(n)
          /\ y.phase = "answering" => y.heard
      BY <1>1, <2>2, <2>3, <3>1, <3>2, BecomesFields
    <3> QED
      BY <1>2, <2>1, <2>2, <2>3, <3>3, EndsEmitted
  <2>4. CASE m # n \/ s # t
    <3>1. /\ work'[m][s].attempt = work[m][s].attempt
          /\ work'[m][s].phase = "answering" => work'[m][s].heard
      BY <1>2, <1>3, <2>2, <2>4, OthersFields
    <3> QED
      BY <2>1, <2>2, <3>1, EndsEmitted
  <2> QED
    BY <2>3, <2>4
<1>4. ASSUME NEW s \in Slot
      PROVE  /\ ~work'[Agent][s].heard /\ ~work'[Agent][s].stale
             /\ work'[Agent][s].phase # "idle" =>
                   s = 1 /\ status'[work'[Agent][s].event] = "sent"
                   /\ \A b \in Emitted' : b <= work'[Agent][s].event
  <2>1. Agent \in Asker
    BY RouteShape
  <2>2. ~work'[Agent][s].heard /\ ~work'[Agent][s].stale
    <3>1. CASE Agent = n /\ s = t
      <4>1. ~NoWork.heard /\ ~NoWork.stale
        BY DEF NoWork
      <4>2. Drops(n, t, y) => y = NoWork
        BY DEF Drops
      <4> QED
        BY <1>1, <1>2, <3>1, <4>1, <4>2, BecomesFields DEF Slots
    <3>2. CASE Agent # n \/ s # t
      <4>1. ~Served(n, t, Agent, s)
        BY AgentUnserved
      <4>2. work'[Agent][s] = work[Agent][s]
        BY <1>2, <2>1, <3>2, <4>1 DEF Others
      <4> QED
        BY <4>2 DEF Slots
    <3> QED
      BY <3>1, <3>2
  <2>3. ASSUME work'[Agent][s].phase # "idle"
        PROVE  s = 1 /\ status'[work'[Agent][s].event] = "sent"
               /\ \A b \in Emitted' : b <= work'[Agent][s].event
    <3>1. Active(Agent, s) /\ work'[Agent][s].event = work[Agent][s].event
      BY <1>2, <2>1, <2>3 DEF Shrinks, Active
    <3>2. /\ s = 1 /\ status[work[Agent][s].event] = "sent"
          /\ \A b \in Emitted : b <= work[Agent][s].event
      BY <3>1 DEF Slots
    <3>3. work[Agent][s].event \in Body
      BY <2>1, <3>1, IdTyped DEF Emitted
    <3>4. n = Agent => t = 1
      BY <1>2 DEF Slots
    <3>5. status'[work[Agent][s].event] = "sent"
      <4>1. SUFFICES ASSUME status'[work[Agent][s].event] # "sent" PROVE FALSE
        OBVIOUS
      <4>2. n = Agent /\ work'[n][t] = NoWork
        BY <3>2, <3>3, <4>1, EndsEmitted
      <4> QED
        BY <2>3, <3>2, <3>4, <4>2 DEF NoWork
    <3> QED
      BY <3>1, <3>2, <3>5, EndsEmitted
  <2> QED
    BY <2>2, <2>3
<1> QED
  BY <1>3, <1>4 DEF Slots, Active

LEMMA EndsConnections ==
    ASSUME Invariant, NEW n \in Asker, NEW t \in Slot, Ends(n, t)
    PROVE  Connections'
<1> USE DEF Invariant
<1>1. PICK y : Becomes(n, t, y)
  BY EndsView
<1>2. work'[n][t] = y /\ Others(n, t) /\ Shrinks /\ y.phase \in {"idle", "ready", "answering"}
  BY <1>1, EndsView, EndsShrinks, BecomesFields DEF Becomes
\* A slot that asks goes on asking the same node.
<1>3. ASSUME NEW m \in Asker, NEW s \in Slot, work[m][s].phase = "asking", m # n \/ s # t
      PROVE  /\ work'[m][s].phase = "asking" /\ work'[m][s].event = work[m][s].event
             /\ Target(m, s)' = Target(m, s)
  <2>1. /\ work'[m][s].phase = "asking" /\ work'[m][s].event = work[m][s].event
        /\ work'[m][s].attempt = work[m][s].attempt
    BY <1>2, <1>3, OthersFields
  <2> QED
    BY <2>1 DEF Target
<1>4. ASSUME NEW m \in Asker, NEW s \in Slot, work'[m][s].phase = "asking"
      PROVE  /\ Target(m, s)' \in RelayNodes
             /\ \E x \in Slot : Serves(Target(m, s), x, s)'
  <2>1. m # n \/ s # t
    BY <1>2, <1>4
  <2>2. work[m][s].phase = "asking"
    BY <1>2, <1>4, <2>1, OthersFields
  <2> PICK o \in RelayNodes : o = Target(m, s)
    BY <2>2 DEF Connections
  <2>3. PICK x \in Slot : Serves(o, x, s)
    BY <2>2 DEF Connections
  <2>4. o \in RelayNodes /\ o \in Asker /\ Above(o) = m /\ Target(m, s)' = o
    BY <1>3, <2>1, <2>2, Targets, RouteShape DEF Connections
  <2>5. work'[o][x].phase # "idle" /\ work'[o][x].heard /\ work'[o][x].from = s
    <3>1. work[o][x].phase # "idle" /\ work[o][x].heard /\ work[o][x].from = s
      BY <2>3 DEF Serves
    <3>2. CASE o = n /\ x = t
      <4>1. o # Agent
        BY <2>4, RouteShape
      <4>2. ~Drops(n, t, y)
        BY <3>1, <3>2, <4>1 DEF Drops
      <4> QED
        BY <1>1, <1>2, <3>1, <3>2, <4>2, BecomesFields
    <3>3. CASE o # n \/ x # t
      <4>1. ~Served(n, t, o, x)
        <5>1. SUFFICES ASSUME Served(n, t, o, x) PROVE FALSE
          OBVIOUS
        <5>2. o = Target(n, t) /\ work[o][x].from = t
          BY <5>1 DEF Served, Serves
        <5>3. n = m /\ s = t
          BY <2>4, <3>1, <5>2, Targets
        <5> QED
          BY <2>1, <5>3
      <4> QED
        BY <1>2, <2>4, <3>1, <3>3, <4>1 DEF Others
    <3> QED
      BY <3>2, <3>3
  <2> QED
    BY <2>4, <2>5 DEF Serves
<1>5. ASSUME NEW m \in RelayNodes, NEW s \in Slot,
             work'[m][s].phase # "idle", work'[m][s].heard
      PROVE  /\ work'[m][s].from \in Slot
             /\ work'[Above(m)][work'[m][s].from].phase = "asking"
             /\ work'[Above(m)][work'[m][s].from].event = work'[m][s].event
             /\ Target(Above(m), work[m][s].from)' = m
  <2> PICK a : a = Above(m)
    OBVIOUS
  <2> PICK x : x = work[m][s].from
    OBVIOUS
  <2>1. m \in Asker /\ a \in Asker /\ m # a
    BY RouteShape
  <2>2. /\ Active(m, s) /\ work[m][s].heard /\ work'[m][s].from = x
        /\ work'[m][s].event = work[m][s].event
    BY <1>2, <1>5, <2>1 DEF Shrinks, Active
  <2>3. /\ x \in Slot /\ work[a][x].phase = "asking"
        /\ work[a][x].event = work[m][s].event /\ Target(a, x) = m
    BY <2>2 DEF Connections
  <2>4. a # n \/ x # t
    <3>1. SUFFICES ASSUME a = n, x = t PROVE FALSE
      OBVIOUS
    <3>2. Served(n, t, m, s)
      BY <2>2, <2>3, <3>1 DEF Served, Serves, Active
    <3> QED
      BY <1>2, <1>5, <2>1, <3>1, <3>2, OthersFields
  <2>5. /\ work'[a][x].phase = "asking" /\ Target(a, x)' = Target(a, x)
        /\ work'[a][x].event = work[a][x].event
    BY <1>3, <2>1, <2>3, <2>4
  <2> QED
    BY <2>2, <2>3, <2>5 DEF Target
<1>6. ASSUME NEW m \in RelayNodes, NEW s \in Slot, NEW x \in Slot,
             work'[m][s].phase # "idle", work'[m][s].heard,
             work'[m][x].phase # "idle", work'[m][x].heard,
             work'[m][s].from = work'[m][x].from
      PROVE  s = x
  <2>1. m \in Asker
    BY RouteShape
  <2> QED
    BY <1>2, <1>6, <2>1 DEF Shrinks, Connections, Active
<1> QED
  BY <1>4, <1>5, <1>6 DEF Connections, Active

LEMMA EndsVouches ==
    ASSUME Invariant, NEW n \in Asker, NEW t \in Slot, Ends(n, t)
    PROVE  Vouches'
<1> USE DEF Invariant
<1>1. PICK y : Becomes(n, t, y) /\ Remembers(n, t, y)
  BY EndsView
<1>2. /\ work'[n][t] = y /\ Others(n, t) /\ Shrinks /\ ids' = ids /\ logged \subseteq logged'
  BY <1>1, EndsView, EndsShrinks, EndsEmitted DEF Becomes, Around
<1>3. LoggedIds \subseteq LoggedIds'
  BY <1>2 DEF LoggedIds
<1>4. \A m \in RelayNodes : received_id_cache'[m] \subseteq LoggedIds'
  BY <1>1, <1>3 DEF Remembers, Vouches
<1>5. ASSUME NEW m \in RelayNodes, NEW s \in Slot,
             work'[m][s].phase = "answering", work'[m][s].reply = "ACK"
      PROVE  IdOf(m, s)' \in LoggedIds'
  <2>1. m \in Asker
    BY RouteShape
  <2>2. IdOf(m, s)' = IdOf(m, s)
    BY <1>2, <1>5, <2>1 DEF Shrinks, IdOf
  <2>3. CASE m = n /\ s = t
    <3>1. y.phase # "ready" /\ y.phase # "idle"
      BY <1>2, <1>5, <2>3
    <3>2. Answers(n, t, y)
      <4>1. ~Drops(n, t, y)
        BY <3>1 DEF Drops, NoWork
      <4>2. ~Retries(n, t, y)
        <5>1. work[n][t] \in Work /\ y.evidence \in BOOLEAN
          BY <1>1, WorkTyped DEF Becomes, Work
        <5> QED
          BY <3>1, <5>1, RetryFields DEF Retries
      <4> QED
        BY <1>1, <4>1, <4>2 DEF Becomes
    <3> QED
      BY <1>2, <1>5, <2>2, <2>3, <3>2 DEF Answers
  <2>4. CASE m # n \/ s # t
    <3>1. work[m][s].phase = "answering" /\ work[m][s].reply = "ACK"
      BY <1>2, <1>5, <2>1, <2>4, OthersFields
    <3> QED
      BY <1>3, <2>2, <3>1 DEF Vouches
  <2> QED
    BY <2>3, <2>4
<1> QED
  BY <1>4, <1>5 DEF Vouches

LEMMA EndsPending ==
    ASSUME Invariant, NEW n \in Asker, NEW t \in Slot, Ends(n, t)
    PROVE  Pending'
<1> USE DEF Invariant
<1>1. PICK y : Becomes(n, t, y) /\ Remembers(n, t, y)
  BY EndsView
<1>2. work'[n][t] = y /\ Others(n, t) /\ Shrinks /\ ids' = ids
  BY <1>1, EndsView, EndsShrinks, EndsEmitted DEF Becomes
<1>3. SUFFICES ASSUME NEW m \in RelayNodes, NEW id \in pending_ack_table'[m]
               PROVE  \E s \in Slot :
                         work'[m][s].phase \in Working /\ IdOf(m, s)' = id
  BY DEF Pending
<1>4. m \in Asker /\ id \in pending_ack_table[m]
  BY <1>1, RouteShape DEF Remembers
<1>5. PICK s \in Slot : work[m][s].phase \in Working /\ IdOf(m, s) = id
  BY <1>4 DEF Pending
<1>6. work'[m][s].phase \in Working
  <2>1. CASE m = n /\ s = t
    BY <1>1, <1>2, <1>3, <1>5, <2>1 DEF Remembers, Working
  <2>2. CASE m # n \/ s # t
    BY <1>2, <1>4, <1>5, <2>2, OthersFields DEF Working, Waiting
  <2> QED
    BY <2>1, <2>2
<1>7. IdOf(m, s)' = id
  BY <1>2, <1>4, <1>5, <1>6 DEF Shrinks, IdOf, Working, Waiting
<1> QED
  BY <1>6, <1>7

\* What has become less is still unique.
LEMMA ShrinkCopies ==
    ASSUME Invariant, Shrinks, faulty \subseteq faulty',
           Agent \notin faulty' => \A e \in Entry, b \in Body : Ahead(e, b)' => Ahead(e, b)
    PROVE  Copies'
<1> USE DEF Invariant
<1>1. ASSUME NEW m \in Asker, NEW b, \E s \in Slot : work'[m][s].phase # "idle" /\ work'[m][s].event = b
      PROVE  Has(m, b)
  BY <1>1 DEF Shrinks, Has, Active
<1>2. SUFFICES ASSUME Agent \notin faulty', NEW e \in Entry
               PROVE  /\ \A s, x \in Slot :
                            /\ work'[e][s].phase # "idle" /\ work'[e][x].phase # "idle"
                            /\ work'[e][s].event = work'[e][x].event
                            => s = x
                      /\ \A b \in Body : Ahead(e, b)' => ~Has(e, b)' /\ ~Has(Below(e), b)'
                      /\ Below(e) \notin faulty' =>
                            \A s \in Slot :
                                work'[Below(e)][s].phase # "idle" /\ ~work'[Below(e)][s].heard
                                    => ~Has(e, work[Below(e)][s].event)'
  BY DEF Copies, Active
<1>3. e \in Asker /\ Below(e) \in Asker
  BY RouteShape
<1>4. /\ \A s, x \in Slot :
            Active(e, s) /\ Active(e, x) /\ work[e][s].event = work[e][x].event => s = x
      /\ \A b \in Body : Ahead(e, b) => ~Has(e, b) /\ ~Has(Below(e), b)
      /\ Below(e) \notin faulty =>
            \A s \in Slot :
                Active(Below(e), s) /\ ~work[Below(e)][s].heard
                    => ~Has(e, work[Below(e)][s].event)
  BY <1>2 DEF Copies
<1>5. \A s, x \in Slot : /\ work'[e][s].phase # "idle" /\ work'[e][x].phase # "idle"
                         /\ work'[e][s].event = work'[e][x].event
                         => s = x
  BY <1>3, <1>4 DEF Shrinks, Active
<1>6. ASSUME NEW b \in Body, Ahead(e, b)' PROVE ~Has(e, b)' /\ ~Has(Below(e), b)'
  BY <1>1, <1>2, <1>3, <1>4, <1>6 DEF Has, Active
<1>7. ASSUME Below(e) \notin faulty', NEW s \in Slot,
             work'[Below(e)][s].phase # "idle", ~work'[Below(e)][s].heard
      PROVE  ~Has(e, work[Below(e)][s].event)'
  <2>1. /\ Active(Below(e), s) /\ work'[Below(e)][s].event = work[Below(e)][s].event
        /\ \/ ~work[Below(e)][s].heard
           \/ \A x \in Slot : work'[e][x].phase = "idle"
    BY <1>3, <1>7, RouteShape DEF Shrinks, Active
  <2>2. CASE ~work[Below(e)][s].heard
    <3>1. ~Has(e, work[Below(e)][s].event)
      BY <1>4, <1>7, <2>1, <2>2
    <3> QED
      BY <1>1, <1>3, <2>1, <3>1 DEF Has, Active
  <2>3. CASE \A x \in Slot : work'[e][x].phase = "idle"
    BY <2>3 DEF Has, Active
  <2> QED
    BY <2>1, <2>2, <2>3
<1> QED
  BY <1>5, <1>6, <1>7

LEMMA EndsCopies ==
    ASSUME Invariant, NEW n \in Asker, NEW t \in Slot, Ends(n, t)
    PROVE  Copies'
<1> USE DEF Invariant
<1>1. PICK y : Becomes(n, t, y)
  BY EndsView
<1>2. /\ work'[n][t] = y /\ Others(n, t) /\ Shrinks /\ Emitted' = Emitted
      /\ faulty \subseteq faulty' /\ Active(n, t)
  BY <1>1, EndsView, EndsShrinks, EndsEmitted
  DEF Becomes, Around, Active, Working, Waiting
<1>3. Agent \in Asker /\ 1 \in Slot
  BY RouteShape, DeliveryAssumption DEF Slot
<1>4. ASSUME NEW e \in Entry, NEW b \in Body, Ahead(e, b)' PROVE Ahead(e, b)
  <2>1. CASE status'[b] = "unsent"
    BY <1>2, <2>1 DEF Emitted, Ahead
  <2>2. CASE /\ work'[Agent][1].phase # "idle" /\ work'[Agent][1].event = b
             /\ \/ work'[Agent][1].phase = "ready" /\ Target(Agent, 1)' = e
                \/ work'[Agent][1].attempt = 1 /\ e = "r1b"
    <3>1. Active(Agent, 1) /\ work[Agent][1].event = b
      BY <1>2, <1>3, <2>2 DEF Shrinks, Active
    <3>2. CASE Agent = n /\ t = 1
      <4>1. work[Agent][1].attempt \in 1..2 /\ work[Agent][1].attempt # 2
            /\ work'[Agent][1].attempt = work[Agent][1].attempt + 1
        <5>1. /\ work'[Agent][1] = y /\ ~Drops(n, t, y)
          BY <1>2, <2>2, <3>2 DEF Drops, NoWork
        <5>2. y.attempt = work[Agent][1].attempt + 1 /\ work[Agent][1].attempt # 2
          BY <1>1, <1>3, <3>2, <5>1, BecomesFields DEF Limit
        <5>3. work[Agent][1].attempt \in 1..2
          BY <1>3, <3>1 DEF Slots, Limit
        <5> QED
          BY <5>1, <5>2, <5>3
      <4>2. work[Agent][1].attempt = 1 /\ work'[Agent][1].attempt = 2
        BY <4>1
      <4>3. e = "r1b"
        BY <2>2, <4>2 DEF Target
      <4> QED
        BY <3>1, <4>2, <4>3 DEF Ahead
    <3>3. CASE Agent # n \/ t # 1
      <4>1. work'[Agent][1] = work[Agent][1]
        <5>1. ~Served(n, t, Agent, 1)
          BY AgentUnserved
        <5> QED
          BY <1>2, <1>3, <3>3, <5>1 DEF Others
      <4> QED
        BY <2>2, <3>1, <4>1 DEF Ahead, Target
    <3> QED
      BY <3>2, <3>3
  <2> QED
    BY <1>4, <2>1, <2>2 DEF Ahead, Active
<1> QED
  BY <1>2, <1>4, ShrinkCopies

LEMMA EndsExplanations ==
    ASSUME Invariant, NEW n \in Asker, NEW t \in Slot, Ends(n, t)
    PROVE  Explanations'
<1> USE DEF Invariant
<1>1. PICK y : Becomes(n, t, y) /\ Decides(n, t, y)
  BY EndsView
<1>2. /\ work'[n][t] = y /\ Others(n, t) /\ Shrinks /\ UNCHANGED <<up, running>>
      /\ faulty \subseteq faulty' /\ y.phase \in {"idle", "ready", "answering"}
  BY <1>1, EndsView, EndsShrinks, BecomesFields DEF Becomes, Around, nodes
<1>3. \A m \in Nodes : ~up'[m] \/ ~running'[m] => m \in faulty'
  BY <1>2 DEF Explanations
<1>4. ASSUME NEW m \in Asker, NEW s \in Slot
      PROVE  /\ work'[m][s].phase = "closed" => Target(m, s)' \in faulty'
             /\ work'[m][s].phase = "unanswered" =>
                   Target(m, s)' = "monitor" /\ "monitor" \in faulty'
  <2>1. SUFFICES ASSUME work'[m][s].phase \in {"closed", "unanswered"}
                 PROVE  /\ work'[m][s].phase = work[m][s].phase
                        /\ Target(m, s)' = Target(m, s)
    BY <1>2 DEF Explanations
  <2>2. m # n \/ s # t
    BY <1>2, <2>1
  <2>3. /\ work'[m][s].phase = work[m][s].phase /\ work'[m][s].attempt = work[m][s].attempt
    BY <1>2, <2>1, <2>2, OthersFields
  <2> QED
    BY <2>3 DEF Target
<1>5. ASSUME NEW m \in RelayNodes, NEW s \in Slot
      PROVE  /\ work'[m][s].phase # "idle" /\ work'[m][s].stale => m \in faulty'
             /\ work'[m][s].phase # "idle" /\ work'[m][s].evidence => Explains(faulty', Below(m))
             /\ work'[m][s].phase = "answering" /\ work'[m][s].reply # "ACK"
                   => Explains(faulty', m)
  <2>1. m \in Asker
    BY RouteShape
  <2>2. work'[m][s].phase # "idle" /\ work'[m][s].stale => m \in faulty'
    BY <1>2, <2>1 DEF Shrinks, Explanations, Active
  <2>3. CASE m = n /\ s = t
    <3>1. Drops(n, t, y) => y.phase = "idle"
      BY DEF Drops, NoWork
    <3>2. Retries(n, t, y) => y.phase = "ready"
      <4>1. work[n][t] \in Work /\ y.evidence \in BOOLEAN
        BY <1>1, WorkTyped DEF Becomes, Work
      <4> QED
        BY <4>1, RetryFields DEF Retries
    <3>3. n # Agent
      BY <2>3, RouteShape
    <3> QED
      BY <1>1, <1>2, <2>2, <2>3, <3>1, <3>2, <3>3 DEF Becomes, Retries, Answers
  <2>4. CASE m # n \/ s # t
    <3>1. SUFFICES ASSUME work'[m][s].phase # "idle"
                   PROVE  /\ work'[m][s].evidence => Explains(faulty', Below(m))
                          /\ work'[m][s].phase = "answering" /\ work'[m][s].reply # "ACK"
                                => Explains(faulty', m)
      BY <2>2
    <3>2. /\ work'[m][s].phase = work[m][s].phase /\ work'[m][s].reply = work[m][s].reply
          /\ work'[m][s].evidence = work[m][s].evidence
      BY <1>2, <2>1, <2>4, <3>1, OthersFields
    <3> QED
      BY <1>2, <3>1, <3>2, StaysExplained DEF Explanations, Active
  <2> QED
    BY <2>3, <2>4
<1>6. ASSUME NEW b \in Body, suspected_node'[b] # None
      PROVE  Explains(faulty', suspected_node'[b])
  <2>1. CASE suspected_node' = suspected_node
    BY <1>2, <1>6, <2>1, StaysExplained DEF Explanations
  <2>2. CASE suspected_node' # suspected_node
    <3>1. PICK x \in Nodes :
              /\ suspected_node' = [suspected_node EXCEPT ![work[n][t].event] = x]
              /\ Explains(faulty', x)
      BY <1>1, <2>2 DEF Decides
    <3>2. suspected_node'[b] = x \/ suspected_node'[b] = suspected_node[b]
      BY <3>1 DEF Types
    <3> QED
      BY <1>2, <1>6, <3>1, <3>2, StaysExplained DEF Explanations
  <2> QED
    BY <2>1, <2>2
<1> QED
  BY <1>3, <1>4, <1>5, <1>6 DEF Explanations, Active

LEMMA EndsKeeps ==
    ASSUME Invariant, NEW n \in Asker, NEW t \in Slot, Ends(n, t)
    PROVE  Invariant'
  BY EndsTypes, EndsEmissions, EndsSlots, EndsConnections, EndsVouches, EndsPending,
     EndsCopies, EndsExplanations
  DEF Invariant

-----------------------------------------------------------------------------
(* Steps that take work away.                                              *)

\* Slots go on with what they do, or stop; nothing is answered, remembered or decided.
Wanes ==
    /\ Shrinks
    /\ \A m \in Asker, s \in Slot : work'[m][s].phase # "idle" =>
          /\ work'[m][s].attempt = work[m][s].attempt
          /\ work'[m][s].evidence = work[m][s].evidence
          /\ work'[m][s].reply = work[m][s].reply
          /\ work'[m][s].phase = "ready" => work[m][s].phase = "ready"
          /\ work'[m][s].phase = "answering" =>
                work[m][s].phase = "answering" /\ work'[m][s].heard
    /\ \A s \in Slot : ~work'[Agent][s].heard /\ ~work'[Agent][s].stale
    /\ \A m \in RelayNodes :
          /\ received_id_cache'[m] \subseteq received_id_cache[m]
          /\ pending_ack_table'[m] \subseteq pending_ack_table[m]
          /\ \/ pending_ack_table'[m] = {}
             \/ \A s \in Slot : work[m][s].phase \in Working => work'[m][s].phase \in Working
    /\ UNCHANGED <<ids, suspected_node>>
    /\ seq_no' = seq_no \/ (seq_no' = 0 /\ Agent \in faulty')
    /\ Emitted' = Emitted
    /\ \A b \in Body :
          /\ status'[b] = "sent" => status[b] = "sent" /\ work'[Agent][1].phase # "idle"
          /\ status[b] = "sent" /\ work'[Agent][1].phase # "idle" => status'[b] = "sent"
    /\ faulty \subseteq faulty' /\ logged \subseteq logged' /\ logged' \subseteq Emitted

\* Every node that is down, paused or out of reach has a fault.
Blamed ==
    /\ \A n \in Nodes : ~up[n] \/ ~running[n] => n \in faulty
    /\ \A n \in Asker, t \in Slot :
          /\ work[n][t].phase = "closed" => Target(n, t) \in faulty
          /\ work[n][t].phase = "unanswered" => Target(n, t) = "monitor" /\ "monitor" \in faulty

LEMMA WanesEmissions == ASSUME Invariant, Wanes PROVE Emissions'
<1> USE DEF Invariant
<1>1. PICK k \in 0..MaxEvent : /\ Emitted = 1..k /\ seq_no <= k
                               /\ Agent \notin faulty => seq_no = k
  BY DEF Emissions
<1>2. Emitted' = 1..k /\ seq_no' <= k /\ (Agent \notin faulty' => seq_no' = k)
  BY <1>1 DEF Wanes
<1>3. \A b \in Emitted' : ids'[b] \in Body /\ (Agent \notin faulty' => ids'[b] = b)
  BY DEF Wanes, Emissions
<1>4. ASSUME NEW b \in Body, status'[b] = "sent"
      PROVE  work'[Agent][1].phase # "idle" /\ work'[Agent][1].event = b
  <2>1. status[b] = "sent" /\ work'[Agent][1].phase # "idle"
    BY <1>4 DEF Wanes
  <2>2. Agent \in Asker /\ 1 \in Slot
    BY RouteShape, DeliveryAssumption DEF Slot
  <2> QED
    BY <2>1, <2>2 DEF Emissions, Wanes, Shrinks
<1>5. logged' \subseteq Emitted'
  BY DEF Wanes
<1> QED
  BY <1>2, <1>3, <1>4, <1>5 DEF Emissions, Active

LEMMA WanesSlots == ASSUME Invariant, Wanes PROVE Slots'
<1> USE DEF Invariant
<1>1. ASSUME NEW m \in Asker, NEW s \in Slot, work'[m][s].phase # "idle"
      PROVE  /\ work'[m][s].event \in Emitted'
             /\ work'[m][s].attempt \in 1..Limit(m)
             /\ work'[m][s].phase = "answering" => work'[m][s].heard
  BY <1>1 DEF Wanes, Shrinks, Slots, Active
<1>2. ASSUME NEW s \in Slot
      PROVE  /\ ~work'[Agent][s].heard /\ ~work'[Agent][s].stale
             /\ work'[Agent][s].phase # "idle" =>
                   s = 1 /\ status'[work'[Agent][s].event] = "sent"
                   /\ \A b \in Emitted' : b <= work'[Agent][s].event
  <2>1. ASSUME work'[Agent][s].phase # "idle"
        PROVE  s = 1 /\ status'[work'[Agent][s].event] = "sent"
               /\ \A b \in Emitted' : b <= work'[Agent][s].event
    <3>1. Agent \in Asker
      BY RouteShape
    <3>2. Active(Agent, s) /\ work'[Agent][s].event = work[Agent][s].event
      BY <2>1, <3>1 DEF Wanes, Shrinks, Active
    <3>3. /\ s = 1 /\ status[work[Agent][s].event] = "sent"
          /\ \A b \in Emitted : b <= work[Agent][s].event
      BY <3>2 DEF Slots
    <3>4. work[Agent][s].event \in Body
      BY <3>1, <3>2, IdTyped DEF Emitted
    <3>5. status'[work[Agent][s].event] = "sent"
      BY <2>1, <3>3, <3>4 DEF Wanes
    <3> QED
      BY <3>2, <3>3, <3>5 DEF Wanes
  <2> QED
    BY <2>1 DEF Wanes
<1> QED
  BY <1>1, <1>2 DEF Slots, Active

LEMMA WanesVouches == ASSUME Invariant, Wanes PROVE Vouches'
<1> USE DEF Invariant
<1>1. LoggedIds \subseteq LoggedIds'
  BY DEF Wanes, LoggedIds
<1>2. \A m \in RelayNodes : received_id_cache'[m] \subseteq LoggedIds'
  BY <1>1 DEF Wanes, Vouches
<1>3. ASSUME NEW m \in RelayNodes, NEW s \in Slot,
             work'[m][s].phase = "answering", work'[m][s].reply = "ACK"
      PROVE  IdOf(m, s)' \in LoggedIds'
  <2>1. m \in Asker
    BY RouteShape
  <2>2. /\ work[m][s].phase = "answering" /\ work[m][s].reply = "ACK"
        /\ work'[m][s].event = work[m][s].event
    BY <1>3, <2>1 DEF Wanes, Shrinks
  <2> QED
    BY <1>1, <2>2 DEF Vouches, IdOf, Wanes
<1> QED
  BY <1>2, <1>3 DEF Vouches

LEMMA WanesPending == ASSUME Invariant, Wanes PROVE Pending'
<1> USE DEF Invariant
<1>1. SUFFICES ASSUME NEW m \in RelayNodes, NEW id \in pending_ack_table'[m]
               PROVE  \E s \in Slot : work'[m][s].phase \in Working /\ IdOf(m, s)' = id
  BY DEF Pending
<1>2. m \in Asker /\ id \in pending_ack_table[m]
  BY <1>1, RouteShape DEF Wanes
<1>3. PICK s \in Slot : work[m][s].phase \in Working /\ IdOf(m, s) = id
  BY <1>2 DEF Pending
<1>4. work'[m][s].phase \in Working
  BY <1>1, <1>3 DEF Wanes
<1>5. work'[m][s].event = work[m][s].event
  BY <1>2, <1>4 DEF Wanes, Shrinks, Working, Waiting
<1> QED
  BY <1>3, <1>4, <1>5 DEF IdOf, Wanes

LEMMA WanesCopies == ASSUME Invariant, Wanes PROVE Copies'
<1> USE DEF Invariant
<1>1. ASSUME NEW e \in Entry, NEW b \in Body, Ahead(e, b)' PROVE Ahead(e, b)
  <2>1. CASE status'[b] = "unsent"
    BY <2>1 DEF Wanes, Emitted, Ahead
  <2>2. CASE /\ work'[Agent][1].phase # "idle" /\ work'[Agent][1].event = b
             /\ \/ work'[Agent][1].phase = "ready" /\ Target(Agent, 1)' = e
                \/ work'[Agent][1].attempt = 1 /\ e = "r1b"
    <3>1. Agent \in Asker /\ 1 \in Slot
      BY RouteShape, DeliveryAssumption DEF Slot
    <3>2. /\ Active(Agent, 1) /\ work[Agent][1].event = b
          /\ work'[Agent][1].attempt = work[Agent][1].attempt
          /\ work'[Agent][1].phase = "ready" => work[Agent][1].phase = "ready"
      BY <2>2, <3>1 DEF Wanes, Shrinks, Active
    <3> QED
      BY <2>2, <3>2 DEF Ahead, Target
  <2> QED
    BY <1>1, <2>1, <2>2 DEF Ahead, Active
<1> QED
  BY <1>1, ShrinkCopies DEF Wanes

LEMMA WanesExplanations == ASSUME Invariant, Wanes, Blamed' PROVE Explanations'
<1> USE DEF Invariant
<1>1. faulty \subseteq faulty'
  BY DEF Wanes
<1>2. ASSUME NEW m \in RelayNodes, NEW s \in Slot
      PROVE  /\ work'[m][s].phase # "idle" /\ work'[m][s].stale => m \in faulty'
             /\ work'[m][s].phase # "idle" /\ work'[m][s].evidence => Explains(faulty', Below(m))
             /\ work'[m][s].phase = "answering" /\ work'[m][s].reply # "ACK"
                   => Explains(faulty', m)
  <2>1. m \in Asker
    BY RouteShape
  <2>2. SUFFICES ASSUME work'[m][s].phase # "idle"
                 PROVE  /\ work'[m][s].stale => m \in faulty'
                        /\ work'[m][s].evidence => Explains(faulty', Below(m))
                        /\ work'[m][s].phase = "answering" /\ work'[m][s].reply # "ACK"
                              => Explains(faulty', m)
    OBVIOUS
  <2>3. /\ Active(m, s) /\ (work'[m][s].stale => work[m][s].stale \/ m \in faulty')
        /\ work'[m][s].evidence = work[m][s].evidence
        /\ work'[m][s].reply = work[m][s].reply
        /\ work'[m][s].phase = "answering" => work[m][s].phase = "answering"
    BY <2>1, <2>2 DEF Wanes, Shrinks, Active
  <2> QED
    BY <1>1, <2>3, StaysExplained DEF Explanations
<1>3. \A b \in Body : suspected_node'[b] # None => Explains(faulty', suspected_node'[b])
  BY <1>1, StaysExplained DEF Wanes, Explanations
<1> QED
  BY <1>2, <1>3 DEF Explanations, Blamed, Active

LEMMA WanesKeeps ==
    ASSUME Invariant, Wanes, Types', Connections', Blamed' PROVE Invariant'
  BY WanesEmissions, WanesSlots, WanesVouches, WanesPending, WanesCopies, WanesExplanations
  DEF Invariant

\* A step that leaves the slots and what the nodes remember alone.
LEMMA IdlesKeeps ==
    ASSUME Invariant, Types', UNCHANGED <<work, tables, events, sink>>,
           faulty \subseteq faulty', \A n \in Nodes : ~up'[n] \/ ~running'[n] => n \in faulty'
    PROVE  Invariant'
<1> USE DEF Invariant
<1>1. /\ work' = work /\ received_id_cache' = received_id_cache
      /\ pending_ack_table' = pending_ack_table /\ seq_no' = seq_no /\ ids' = ids
      /\ status' = status /\ suspected_node' = suspected_node /\ logged' = logged
  BY DEF tables, events, sink
<1>2. Shrinks
  BY <1>1 DEF Shrinks
<1>3. Wanes
  <2>1. \A m \in Asker, s \in Slot : work[m][s].phase = "answering" => work[m][s].heard
    BY DEF Slots, Active
  <2>2. \A s \in Slot : ~work[Agent][s].heard /\ ~work[Agent][s].stale
    BY DEF Slots
  <2>3. \A b \in Body : status[b] = "sent" => work[Agent][1].phase # "idle"
    BY DEF Emissions, Active
  <2>4. Emitted' = Emitted /\ logged \subseteq Emitted
    BY <1>1 DEF Emitted, Emissions
  <2> QED
    BY <1>1, <1>2, <2>1, <2>2, <2>3, <2>4 DEF Wanes
<1>4. Connections'
  BY <1>1 DEF Connections, Active, Serves, Target
<1>5. Blamed'
  BY <1>1 DEF Blamed, Target, Explanations
<1> QED
  BY <1>3, <1>4, <1>5, WanesKeeps

LEMMA FaultTyped ==
    ASSUME Types, NEW n \in Nodes, Fault(n)
    PROVE  /\ faults' \in 0..MaxFault /\ faulty' \subseteq Nodes
           /\ faulty \subseteq faulty' /\ n \in faulty'
  BY DeliveryAssumption DEF Types, Fault

LEMMA StutterKeeps == ASSUME Invariant, UNCHANGED vars PROVE Invariant'
<1>1. UNCHANGED <<nodes, work, tables, events, sink, history>>
  BY DEF vars
<1>2. Types'
  BY <1>1 DEF Invariant, Types, nodes, tables, events, sink, history
<1>3. faulty \subseteq faulty' /\ \A n \in Nodes : ~up'[n] \/ ~running'[n] => n \in faulty'
  BY <1>1 DEF nodes, history, Invariant, Explanations
<1> QED
  BY <1>1, <1>2, <1>3, IdlesKeeps

LEMMA PauseKeeps == ASSUME Invariant, NEW n \in Nodes, Pause(n) PROVE Invariant'
<1>1. /\ Fault(n) /\ running' = [running EXCEPT ![n] = FALSE]
      /\ UNCHANGED <<up, work, tables, events, sink>>
  BY DEF Pause
<1>2. Types'
  BY <1>1, FaultTyped DEF Invariant, Types, tables, events, sink
<1>3. \A m \in Nodes : ~up'[m] \/ ~running'[m] => m \in faulty'
  BY <1>1, FaultTyped DEF Invariant, Types, Explanations
<1> QED
  BY <1>1, <1>2, <1>3, FaultTyped, IdlesKeeps DEF Invariant

LEMMA ResumeKeeps == ASSUME Invariant, NEW n \in Nodes, Resume(n) PROVE Invariant'
<1>1. /\ running' = [running EXCEPT ![n] = TRUE]
      /\ UNCHANGED <<up, work, tables, events, sink, history>>
  BY DEF Resume
<1>2. Types'
  BY <1>1 DEF Invariant, Types, tables, events, sink, history
<1>3. faulty \subseteq faulty' /\ \A m \in Nodes : ~up'[m] \/ ~running'[m] => m \in faulty'
  BY <1>1 DEF history, Invariant, Types, Explanations
<1> QED
  BY <1>1, <1>2, <1>3, IdlesKeeps

LEMMA RestartKeeps == ASSUME Invariant, NEW n \in Nodes, Restart(n) PROVE Invariant'
<1>1. /\ up' = [up EXCEPT ![n] = TRUE]
      /\ UNCHANGED <<running, work, tables, events, sink, history>>
  BY DEF Restart
<1>2. Types'
  BY <1>1 DEF Invariant, Types, tables, events, sink, history
<1>3. faulty \subseteq faulty' /\ \A m \in Nodes : ~up'[m] \/ ~running'[m] => m \in faulty'
  BY <1>1 DEF history, Invariant, Types, Explanations
<1> QED
  BY <1>1, <1>2, <1>3, IdlesKeeps

\* Connections stay while nobody begins or ends one.
LEMMA ConnectionsStay ==
    ASSUME Invariant,
           \A m \in Asker, s \in Slot :
              /\ work'[m][s].event = work[m][s].event /\ work'[m][s].from = work[m][s].from
              /\ work'[m][s].heard = work[m][s].heard
              /\ work'[m][s].attempt = work[m][s].attempt
              /\ work'[m][s].phase = "asking" <=> work[m][s].phase = "asking"
              /\ work'[m][s].phase = "idle" <=> work[m][s].phase = "idle"
    PROVE  Connections' /\ \A m \in Asker, s \in Slot : Target(m, s)' = Target(m, s)
<1>1. \A m \in Asker, s \in Slot : Target(m, s)' = Target(m, s)
  BY DEF Target
<1>2. ASSUME NEW m \in Asker, NEW s \in Slot, work'[m][s].phase = "asking"
      PROVE  /\ Target(m, s)' \in RelayNodes
             /\ \E x \in Slot : Serves(Target(m, s), x, s)'
  <2>1. work[m][s].phase = "asking"
    BY <1>2
  <2> PICK o \in RelayNodes : o = Target(m, s)
    BY <2>1 DEF Invariant, Connections
  <2>2. PICK x \in Slot : Serves(o, x, s)
    BY <2>1 DEF Invariant, Connections
  <2>3. work'[o][x].phase # "idle" /\ work'[o][x].heard /\ work'[o][x].from = s
    BY <2>2, RouteShape DEF Serves
  <2> QED
    BY <1>1, <2>3 DEF Serves
<1>3. ASSUME NEW m \in RelayNodes, NEW s \in Slot,
             work'[m][s].phase # "idle", work'[m][s].heard
      PROVE  /\ work'[m][s].from \in Slot
             /\ work'[Above(m)][work'[m][s].from].phase = "asking"
             /\ work'[Above(m)][work'[m][s].from].event = work'[m][s].event
             /\ Target(Above(m), work[m][s].from)' = m
  <2> PICK a \in Asker : a = Above(m)
    BY RouteShape
  <2> PICK x : x = work[m][s].from
    OBVIOUS
  <2>1. /\ m \in Asker /\ Active(m, s) /\ work[m][s].heard
        /\ work'[m][s].from = x /\ work'[m][s].event = work[m][s].event
    BY <1>3, RouteShape DEF Active
  <2>2. /\ x \in Slot /\ work[a][x].phase = "asking"
        /\ work[a][x].event = work[m][s].event /\ Target(a, x) = m
    BY <2>1 DEF Invariant, Connections
  <2>3. work'[a][x].phase = "asking" /\ work'[a][x].event = work[a][x].event
    BY <2>2
  <2> QED
    BY <1>1, <2>1, <2>2, <2>3 DEF Target
<1>4. ASSUME NEW m \in RelayNodes, NEW s \in Slot, NEW x \in Slot,
             work'[m][s].phase # "idle", work'[m][s].heard,
             work'[m][x].phase # "idle", work'[m][x].heard,
             work'[m][s].from = work'[m][x].from
      PROVE  s = x
  BY <1>4, RouteShape DEF Invariant, Connections, Active
<1> QED
  BY <1>1, <1>2, <1>3, <1>4 DEF Connections, Active

LEMMA LoggedSilentlyKeeps ==
    ASSUME Invariant, NEW n \in Asker, NEW t \in Slot, LoggedSilently(n, t) PROVE Invariant'
<1> USE DEF Invariant
<1> DEFINE w == [work[n][t] EXCEPT !.phase = "unanswered"]
<1>1. /\ work[n][t].phase = "ready" /\ ~work[n][t].stale /\ Target(n, t) = "monitor"
      /\ Fault("monitor") /\ TakeIn(work[n][t].event)
      /\ UNCHANGED <<nodes, tables, events>>
  BY DEF LoggedSilently, AsksMonitor, Asks
<1>2. work' = [work EXCEPT ![n][t] = w]
  BY DEF LoggedSilently
<1>3. work[n][t] \in Work /\ w \in Work
  BY WorkTyped, Field DEF Phase
<1>4. /\ w.phase = "unanswered" /\ w.event = work[n][t].event /\ w.from = work[n][t].from
      /\ w.heard = work[n][t].heard /\ w.stale = work[n][t].stale
      /\ w.attempt = work[n][t].attempt /\ w.evidence = work[n][t].evidence
      /\ w.reply = work[n][t].reply
  BY <1>3 DEF Work
<1> HIDE DEF w
<1>5. /\ work' \in [Asker -> [Slot -> Work]] /\ work'[n][t] = w
      /\ \A m \in Asker, s \in Slot : m # n \/ s # t => work'[m][s] = work[m][s]
  BY <1>2, <1>3, Put DEF Types
<1>6. /\ received_id_cache' = received_id_cache /\ pending_ack_table' = pending_ack_table
      /\ seq_no' = seq_no /\ ids' = ids /\ status' = status
      /\ suspected_node' = suspected_node /\ up' = up /\ running' = running
  BY <1>1 DEF tables, events, nodes
<1>7. /\ faults' \in 0..MaxFault /\ faulty' \subseteq Nodes
      /\ faulty \subseteq faulty' /\ "monitor" \in faulty'
  BY <1>1, FaultTyped, RouteShape
<1>8. /\ event_log' \subseteq logged' /\ logged \subseteq logged'
      /\ logged' \subseteq logged \cup {work[n][t].event}
  BY <1>1 DEF TakeIn, sink, Types
<1>9. n # Agent /\ n \in RelayNodes
  BY <1>1, Targets, RouteShape DEF Entry
<1>10. Active(n, t) /\ work[n][t].event \in Emitted
  BY <1>1, IdTyped DEF Active
<1>11. Types'
  BY <1>5, <1>6, <1>7, <1>8 DEF Types
\* Slot t of node n is the only one that changes, and it still waits.
<1>12. \A m \in Asker, s \in Slot :
          /\ work'[m][s].event = work[m][s].event /\ work'[m][s].from = work[m][s].from
          /\ work'[m][s].heard = work[m][s].heard /\ work'[m][s].stale = work[m][s].stale
          /\ work'[m][s].attempt = work[m][s].attempt
          /\ work'[m][s].evidence = work[m][s].evidence
          /\ work'[m][s].reply = work[m][s].reply
          /\ \/ work'[m][s].phase = work[m][s].phase /\ (m # n \/ s # t)
             \/ /\ m = n /\ s = t
                /\ work'[m][s].phase = "unanswered" /\ work[m][s].phase = "ready"
  BY <1>1, <1>4, <1>5
<1> HIDE DEF Invariant
<1>13. Shrinks
  BY <1>12 DEF Shrinks
<1>14. Wanes
  <2>1. \A m \in Asker, s \in Slot : work[m][s].phase = "answering" => work[m][s].heard
    BY DEF Invariant, Slots, Active
  <2>2. \A s \in Slot : ~work'[Agent][s].heard /\ ~work'[Agent][s].stale
    BY <1>12, RouteShape DEF Invariant, Slots
  <2>3. work'[Agent][1] = work[Agent][1]
    BY <1>5, <1>9, RouteShape, DeliveryAssumption DEF Slot
  <2>4. \A b \in Body : status[b] = "sent" => work[Agent][1].phase # "idle"
    BY DEF Invariant, Emissions, Active
  <2>5. Emitted' = Emitted /\ logged' \subseteq Emitted
    BY <1>6, <1>8, <1>10 DEF Invariant, Emitted, Emissions
  <2>6. \A m \in RelayNodes, s \in Slot :
            work[m][s].phase \in Working => work'[m][s].phase \in Working
    BY <1>12, RouteShape DEF Working, Waiting
  <2>7. \A m \in Asker, s \in Slot : work'[m][s].phase # "idle" =>
          /\ work'[m][s].attempt = work[m][s].attempt
          /\ work'[m][s].evidence = work[m][s].evidence
          /\ work'[m][s].reply = work[m][s].reply
          /\ work'[m][s].phase = "ready" => work[m][s].phase = "ready"
          /\ work'[m][s].phase = "answering" =>
                work[m][s].phase = "answering" /\ work'[m][s].heard
    BY <1>12, <2>1
  <2> QED
    BY <1>6, <1>7, <1>8, <1>13, <2>2, <2>3, <2>4, <2>5, <2>6, <2>7 DEF Wanes
<1>15. Connections' /\ \A m \in Asker, s \in Slot : Target(m, s)' = Target(m, s)
  BY <1>12, ConnectionsStay
<1>16. Blamed'
  <2>1. \A m \in Nodes : ~up'[m] \/ ~running'[m] => m \in faulty'
    BY <1>6, <1>7 DEF Invariant, Explanations
  <2>2. ASSUME NEW m \in Asker, NEW s \in Slot
        PROVE  /\ work'[m][s].phase = "closed" => Target(m, s)' \in faulty'
               /\ work'[m][s].phase = "unanswered" =>
                     Target(m, s)' = "monitor" /\ "monitor" \in faulty'
    BY <1>1, <1>7, <1>12, <1>15 DEF Invariant, Explanations
  <2> QED
    BY <2>1, <2>2 DEF Blamed
<1> QED
  BY <1>11, <1>14, <1>15, <1>16, WanesKeeps

\* What a node forgets.
LEMMA Empties ==
    ASSUME Types, NEW n \in Nodes, Fault(n), Empty(n)
    PROVE  /\ received_id_cache' \in [RelayNodes -> SUBSET Body]
           /\ pending_ack_table' \in [RelayNodes -> SUBSET Body]
           /\ \A m \in RelayNodes :
                 /\ received_id_cache'[m] \subseteq received_id_cache[m]
                 /\ pending_ack_table'[m] \subseteq pending_ack_table[m]
                 /\ m = n => pending_ack_table'[m] = {}
           /\ UNCHANGED <<ids, suspected_node, logged>>
           /\ event_log' \subseteq logged' /\ seq_no' \in Nat
           /\ seq_no' = seq_no \/ (seq_no' = 0 /\ Agent \in faulty')
<1>1. IF n \in RelayNodes
      THEN /\ received_id_cache' = [received_id_cache EXCEPT ![n] = {}]
           /\ pending_ack_table' = [pending_ack_table EXCEPT ![n] = {}]
      ELSE received_id_cache' = received_id_cache /\ pending_ack_table' = pending_ack_table
  BY DEF Empty, tables
<1>2. /\ received_id_cache' \in [RelayNodes -> SUBSET Body]
      /\ pending_ack_table' \in [RelayNodes -> SUBSET Body]
      /\ \A m \in RelayNodes :
            /\ received_id_cache'[m] \subseteq received_id_cache[m]
            /\ pending_ack_table'[m] \subseteq pending_ack_table[m]
            /\ m = n => pending_ack_table'[m] = {}
  BY <1>1 DEF Types
<1>3. UNCHANGED <<ids, suspected_node, logged>> /\ event_log' \subseteq logged'
  BY DEF Empty, Types
<1>4. seq_no' \in Nat /\ (seq_no' = seq_no \/ (seq_no' = 0 /\ Agent \in faulty'))
  BY FaultTyped DEF Empty, Types
<1> QED
  BY <1>2, <1>3, <1>4

LEMMA ResetKeeps == ASSUME Invariant, NEW n \in Nodes, Reset(n) PROVE Invariant'
<1>1. /\ Fault(n) /\ Empty(n) /\ up' = up /\ running' = running /\ status' = status
      /\ work' = IF n \notin RelayNodes THEN work
                 ELSE [work EXCEPT ![n] = [t \in Slot |->
                          IF work[n][t].phase \in Working
                          THEN [work[n][t] EXCEPT !.stale = TRUE] ELSE work[n][t]]]
  BY DEF Reset, nodes
<1>2. Types /\ faulty \subseteq faulty' /\ n \in faulty'
  BY <1>1, FaultTyped DEF Invariant
<1>3. \A m \in Asker, s \in Slot :
          /\ work[m][s] \in Work /\ [work[m][s] EXCEPT !.stale = TRUE] \in Work
          /\ \/ work'[m][s] = work[m][s]
             \/ /\ m = n /\ n \in RelayNodes
                /\ work'[m][s] = [work[m][s] EXCEPT !.stale = TRUE]
  <2>1. \A m \in Asker, s \in Slot :
            work[m][s] \in Work /\ [work[m][s] EXCEPT !.stale = TRUE] \in Work
    BY <1>2, WorkTyped, Field
  <2> QED
    BY <1>1, <1>2, <2>1 DEF Types
<1>4. work' \in [Asker -> [Slot -> Work]]
  <2>1. CASE n \notin RelayNodes
    BY <1>1, <1>2, <2>1 DEF Types
  <2>2. CASE n \in RelayNodes
    <3> DEFINE row == [t \in Slot |->
                          IF work[n][t].phase \in Working
                          THEN [work[n][t] EXCEPT !.stale = TRUE] ELSE work[n][t]]
    <3>1. row \in [Slot -> Work]
      BY <1>3, <2>2, RouteShape
    <3>2. work' = [work EXCEPT ![n] = row]
      BY <1>1, <2>2
    <3> HIDE DEF row
    <3> QED
      BY <1>2, <3>1, <3>2 DEF Types
  <2> QED
    BY <2>1, <2>2
<1>5. \A m \in Asker, s \in Slot :
          /\ work'[m][s].phase = work[m][s].phase
          /\ work'[m][s].event = work[m][s].event /\ work'[m][s].from = work[m][s].from
          /\ work'[m][s].heard = work[m][s].heard /\ work'[m][s].attempt = work[m][s].attempt
          /\ work'[m][s].evidence = work[m][s].evidence
          /\ work'[m][s].reply = work[m][s].reply
          /\ \/ work'[m][s].stale = work[m][s].stale
             \/ m = n /\ n \in RelayNodes
  <2> SUFFICES ASSUME NEW m \in Asker, NEW s \in Slot
               PROVE  /\ work'[m][s].phase = work[m][s].phase
                      /\ work'[m][s].event = work[m][s].event
                      /\ work'[m][s].from = work[m][s].from
                      /\ work'[m][s].heard = work[m][s].heard
                      /\ work'[m][s].attempt = work[m][s].attempt
                      /\ work'[m][s].evidence = work[m][s].evidence
                      /\ work'[m][s].reply = work[m][s].reply
                      /\ \/ work'[m][s].stale = work[m][s].stale
                         \/ m = n /\ n \in RelayNodes
    OBVIOUS
  <2>1. CASE work'[m][s] = work[m][s]
    BY <2>1
  <2>2. CASE m = n /\ n \in RelayNodes /\ work'[m][s] = [work[m][s] EXCEPT !.stale = TRUE]
    <3>1. work[m][s] \in Work
      BY <1>3
    <3> QED
      BY <2>2, <3>1 DEF Work
  <2> QED
    BY <1>3, <2>1, <2>2
<1>6. Types'
  BY <1>1, <1>2, <1>4, FaultTyped, Empties DEF Types
<1>7. Shrinks
  BY <1>2, <1>5 DEF Shrinks
<1>8. Wanes
  <2>1. \A m \in Asker, s \in Slot : work[m][s].phase = "answering" => work[m][s].heard
    BY DEF Invariant, Slots, Active
  <2>2. \A s \in Slot : ~work'[Agent][s].heard /\ ~work'[Agent][s].stale
    BY <1>5, RouteShape DEF Invariant, Slots
  <2>3. work'[Agent][1].phase = work[Agent][1].phase
    BY <1>5, RouteShape, DeliveryAssumption DEF Slot
  <2>4. \A b \in Body : status[b] = "sent" => work[Agent][1].phase # "idle"
    BY DEF Invariant, Emissions, Active
  <2>5. Emitted' = Emitted /\ logged \subseteq Emitted
    BY <1>1 DEF Invariant, Emitted, Emissions
  <2>6. \A m \in Asker, s \in Slot : work'[m][s].phase # "idle" =>
          /\ work'[m][s].attempt = work[m][s].attempt
          /\ work'[m][s].evidence = work[m][s].evidence
          /\ work'[m][s].reply = work[m][s].reply
          /\ work'[m][s].phase = "ready" => work[m][s].phase = "ready"
          /\ work'[m][s].phase = "answering" =>
                work[m][s].phase = "answering" /\ work'[m][s].heard
    BY <1>5, <2>1
  <2>7. \A m \in RelayNodes, s \in Slot :
            work[m][s].phase \in Working => work'[m][s].phase \in Working
    BY <1>5, RouteShape
  <2> QED
    BY <1>1, <1>2, <1>7, <2>2, <2>3, <2>4, <2>5, <2>6, <2>7, Empties DEF Wanes
<1>9. Connections' /\ \A m \in Asker, s \in Slot : Target(m, s)' = Target(m, s)
  BY <1>5, ConnectionsStay
<1>10. Blamed'
  BY <1>1, <1>2, <1>5, <1>9 DEF Blamed, Invariant, Explanations
<1> QED
  BY <1>6, <1>8, <1>9, <1>10, WanesKeeps

\* What becomes of slot s of node m when node n goes down: it is gone with its node,
\* loses the node it asked, loses the one that asked it, or is not concerned.
Same(m, s) ==
    /\ work'[m][s].event = work[m][s].event /\ work'[m][s].from = work[m][s].from
    /\ work'[m][s].stale = work[m][s].stale /\ work'[m][s].attempt = work[m][s].attempt
    /\ work'[m][s].evidence = work[m][s].evidence /\ work'[m][s].reply = work[m][s].reply

Gone(n, m, s) == m = n /\ work'[m][s] = NoWork

Cut(n, m, s) ==
    /\ m # n /\ Target(m, s) = n /\ (m \in RelayNodes => Above(m) # n)
    /\ work[m][s].phase \in Waiting /\ work'[m][s].phase = "closed"
    /\ Same(m, s) /\ work'[m][s].heard = work[m][s].heard

Orphaned(n, m, s) ==
    /\ m # n /\ m \in RelayNodes /\ Above(m) = n
    /\ ~(work[m][s].phase \in Waiting /\ Target(m, s) = n)
    /\ \/ work[m][s].phase = "answering" /\ work'[m][s] = NoWork
       \/ /\ work[m][s].phase # "answering" /\ work'[m][s].phase = work[m][s].phase
          /\ Same(m, s) /\ ~work'[m][s].heard

Spared(n, m, s) ==
    /\ m # n /\ ~(work[m][s].phase \in Waiting /\ Target(m, s) = n)
    /\ m \in RelayNodes => ~(work[m][s].heard /\ Above(m) = n)
    /\ work'[m][s] = work[m][s]

LEMMA ShutdownView ==
    ASSUME Invariant, NEW n \in Nodes, Shutdown(n)
    PROVE  /\ work' \in [Asker -> [Slot -> Work]]
           /\ \A m \in Asker, s \in Slot :
                 Gone(n, m, s) \/ Cut(n, m, s) \/ Orphaned(n, m, s) \/ Spared(n, m, s)
<1> DEFINE next(m, s) == LET w == work[m][s]
                         IN  IF m = n THEN NoWork
                             ELSE IF w.phase \in Waiting /\ Target(m, s) = n
                                  THEN [w EXCEPT !.phase = "closed"]
                             ELSE IF w.heard /\ Above(m) = n THEN Unheard(w)
                             ELSE w
<1>1. work' = [m \in Asker |-> [t \in Slot |-> next(m, t)]]
  BY DEF Shutdown
<1>2. ASSUME NEW m \in Asker, NEW s \in Slot
      PROVE  /\ next(m, s) \in Work /\ work'[m][s] = next(m, s)
             /\ Gone(n, m, s) \/ Cut(n, m, s) \/ Orphaned(n, m, s) \/ Spared(n, m, s)
  <2> PICK w \in Work : w = work[m][s]
    BY WorkTyped DEF Invariant
  <2>1. work'[m][s] = next(m, s)
    BY <1>1
  <2>2. CASE m = n
    BY <2>1, <2>2, NoWorkTyped DEF Gone
  <2>3. CASE m # n /\ w.phase \in Waiting /\ Target(m, s) = n
    <3>1. next(m, s) = [w EXCEPT !.phase = "closed"]
      BY <2>3
    <3>2. [w EXCEPT !.phase = "closed"] \in Work
      BY Field DEF Phase
    <3>3. work'[m][s] = [w EXCEPT !.phase = "closed"]
      BY <2>1, <3>1
    <3>4. /\ work'[m][s].phase = "closed" /\ work'[m][s].event = w.event
          /\ work'[m][s].from = w.from /\ work'[m][s].heard = w.heard
          /\ work'[m][s].stale = w.stale /\ work'[m][s].attempt = w.attempt
          /\ work'[m][s].evidence = w.evidence /\ work'[m][s].reply = w.reply
      BY <3>3 DEF Work
    <3>5. m \in RelayNodes => Above(m) # n
      <4>1. SUFFICES ASSUME m \in RelayNodes PROVE Above(m) # n
        OBVIOUS
      <4>2. n = Below(m)
        BY <2>3, <4>1, Targets, RouteShape
      <4> QED
        BY <4>1, <4>2, RouteShape
    <3>6. Cut(n, m, s)
      BY <2>3, <3>4, <3>5 DEF Cut, Same
    <3> QED
      BY <2>1, <3>1, <3>2, <3>6
  <2>4. CASE /\ m # n /\ ~(w.phase \in Waiting /\ Target(m, s) = n)
             /\ w.heard /\ Above(m) = n
    <3>1. next(m, s) = Unheard(w)
      BY <2>4
    <3>2. m \in RelayNodes
      BY <2>4, RouteShape DEF Invariant, Slots
    <3>3. CASE w.phase = "answering"
      <4>1. work'[m][s] = NoWork /\ next(m, s) = NoWork
        BY <2>1, <3>1, <3>3 DEF Unheard
      <4>2. Orphaned(n, m, s)
        BY <2>4, <3>2, <3>3, <4>1 DEF Orphaned
      <4> QED
        BY <2>1, <4>1, <4>2, NoWorkTyped
    <3>4. CASE w.phase # "answering"
      <4>1. next(m, s) = [w EXCEPT !.heard = FALSE]
        BY <3>1, <3>4 DEF Unheard
      <4>2. [w EXCEPT !.heard = FALSE] \in Work
        BY Field
      <4>3. work'[m][s] = [w EXCEPT !.heard = FALSE]
        BY <2>1, <4>1
      <4>4. /\ work'[m][s].phase = w.phase /\ work'[m][s].event = w.event
            /\ work'[m][s].from = w.from /\ ~work'[m][s].heard
            /\ work'[m][s].stale = w.stale /\ work'[m][s].attempt = w.attempt
            /\ work'[m][s].evidence = w.evidence /\ work'[m][s].reply = w.reply
        BY <4>3 DEF Work
      <4>5. Orphaned(n, m, s)
        BY <2>4, <3>2, <3>4, <4>4 DEF Orphaned, Same
      <4> QED
        BY <2>1, <4>1, <4>2, <4>5
    <3> QED
      BY <3>3, <3>4
  <2>5. CASE /\ m # n /\ ~(w.phase \in Waiting /\ Target(m, s) = n)
             /\ ~(w.heard /\ Above(m) = n)
    <3>1. next(m, s) = w
      BY <2>5
    <3>2. Spared(n, m, s)
      BY <2>1, <2>5, <3>1 DEF Spared
    <3> QED
      BY <2>1, <3>1, <3>2
  <2> QED
    BY <2>2, <2>3, <2>4, <2>5
<1>3. work' \in [Asker -> [Slot -> Work]]
  <2>1. \A m \in Asker, s \in Slot : next(m, s) \in Work
    BY <1>2
  <2> HIDE DEF next
  <2> QED
    BY <1>1, <2>1
<1> QED
  BY <1>2, <1>3

LEMMA ShutdownKeeps == ASSUME Invariant, NEW n \in Nodes, Shutdown(n) PROVE Invariant'
<1>1. /\ up[n] /\ Fault(n) /\ Empty(n)
      /\ up' = [up EXCEPT ![n] = FALSE] /\ running' = [running EXCEPT ![n] = TRUE]
      /\ status' = IF n = Agent /\ work[Agent][1].phase # "idle"
                   THEN [status EXCEPT ![work[Agent][1].event] = "lost"] ELSE status
  BY DEF Shutdown
<1>2. Types /\ faulty \subseteq faulty' /\ n \in faulty'
  BY <1>1, FaultTyped DEF Invariant
<1>3. work' \in [Asker -> [Slot -> Work]]
  BY ShutdownView
<1>4. \A m \in Asker, s \in Slot :
          Gone(n, m, s) \/ Cut(n, m, s) \/ Orphaned(n, m, s) \/ Spared(n, m, s)
  BY ShutdownView
<1>5. NoWork.phase = "idle" /\ ~NoWork.heard /\ ~NoWork.stale
  BY DEF NoWork
<1>6. Agent \in Asker /\ Agent \notin RelayNodes /\ 1 \in Slot /\ RelayNodes \subseteq Asker
  BY RouteShape, DeliveryAssumption DEF Slot
<1>7. \A s \in Slot : ~work[Agent][s].heard /\ ~work[Agent][s].stale
  BY DEF Invariant, Slots
<1>8. \A m \in Asker, s \in Slot : work[m][s].phase = "answering" => work[m][s].heard
  BY DEF Invariant, Slots, Active
\* A slot that is still there.
<1>9. \A m \in Asker, s \in Slot : work'[m][s].phase # "idle" =>
          /\ m # n /\ work[m][s].phase # "idle"
          /\ work'[m][s].event = work[m][s].event /\ work'[m][s].from = work[m][s].from
          /\ work'[m][s].stale = work[m][s].stale
          /\ work'[m][s].attempt = work[m][s].attempt
          /\ work'[m][s].evidence = work[m][s].evidence
          /\ work'[m][s].reply = work[m][s].reply
          /\ work'[m][s].heard => work[m][s].heard /\ (m \in RelayNodes => Above(m) # n)
          /\ work[m][s].heard => \/ work'[m][s].heard
                                 \/ m \in RelayNodes /\ Above(m) = n
          /\ \/ work'[m][s].phase = work[m][s].phase
                /\ (work'[m][s].phase \in Waiting => Target(m, s) # n)
                /\ (work'[m][s].phase = "answering" => work'[m][s].heard)
             \/ /\ work'[m][s].phase = "closed" /\ work[m][s].phase \in Waiting
                /\ Target(m, s) = n
  <2> SUFFICES ASSUME NEW m \in Asker, NEW s \in Slot, work'[m][s].phase # "idle"
               PROVE  /\ m # n /\ work[m][s].phase # "idle" /\ Same(m, s)
                      /\ work'[m][s].heard =>
                            work[m][s].heard /\ (m \in RelayNodes => Above(m) # n)
                      /\ work[m][s].heard => \/ work'[m][s].heard
                                             \/ m \in RelayNodes /\ Above(m) = n
                      /\ \/ work'[m][s].phase = work[m][s].phase
                            /\ (work'[m][s].phase \in Waiting => Target(m, s) # n)
                            /\ (work'[m][s].phase = "answering" => work'[m][s].heard)
                         \/ /\ work'[m][s].phase = "closed" /\ work[m][s].phase \in Waiting
                            /\ Target(m, s) = n
    BY DEF Same
  <2>1. ~Gone(n, m, s)
    BY <1>5 DEF Gone
  <2>2. CASE Cut(n, m, s)
    BY <2>2 DEF Cut, Waiting
  <2>3. CASE Orphaned(n, m, s)
    BY <1>5, <2>3 DEF Orphaned
  <2>4. CASE Spared(n, m, s)
    BY <1>8, <2>4 DEF Spared, Same
  <2> QED
    BY <1>4, <2>1, <2>2, <2>3, <2>4
<1>10. \A s \in Slot : work'[n][s].phase = "idle" \/ n \notin Asker
  BY <1>9
<1>11. Shrinks
  <2>1. \A m \in Asker, s \in Slot : work'[m][s].phase # "idle" /\ work[m][s].heard =>
                                \/ work'[m][s].heard
                                \/ \A x \in Slot : work'[Above(m)][x].phase = "idle"
    BY <1>9, <1>10, RouteShape
  <2> QED
    BY <1>9, <2>1 DEF Shrinks
\* The agent's own slots only lose the connection, or go with the agent.
<1>12. /\ \A s \in Slot : ~work'[Agent][s].heard /\ ~work'[Agent][s].stale
       /\ n = Agent => work'[Agent][1].phase = "idle"
       /\ n # Agent => (work'[Agent][1].phase = "idle" <=> work[Agent][1].phase = "idle")
  <2>1. \A s \in Slot : Gone(n, Agent, s) \/ Cut(n, Agent, s) \/ Spared(n, Agent, s)
    BY <1>4, <1>6 DEF Orphaned
  <2> QED
    BY <1>5, <1>6, <1>7, <2>1 DEF Gone, Cut, Same, Spared, Waiting
<1>13. \A b \in Body : status[b] = "sent" =>
           work[Agent][1].phase # "idle" /\ work[Agent][1].event = b
  BY DEF Invariant, Emissions, Active
<1>14. work[Agent][1].phase # "idle" =>
           work[Agent][1].event \in Body /\ status[work[Agent][1].event] # "unsent"
  BY <1>6, IdTyped DEF Active, Emitted
<1>15. /\ status' \in [Body -> {"unsent", "sent", "acknowledged", "failed", "lost"}]
       /\ Emitted' = Emitted
       /\ \A b \in Body :
             /\ status'[b] = "sent" => status[b] = "sent" /\ work'[Agent][1].phase # "idle"
             /\ status[b] = "sent" /\ work'[Agent][1].phase # "idle" => status'[b] = "sent"
  <2>1. CASE n = Agent /\ work[Agent][1].phase # "idle"
    <3>1. status' = [status EXCEPT ![work[Agent][1].event] = "lost"]
      BY <1>1, <2>1
    <3> QED
      BY <1>2, <1>12, <1>13, <1>14, <2>1, <3>1 DEF Types, Emitted
  <2>2. CASE ~(n = Agent /\ work[Agent][1].phase # "idle")
    <3>1. status' = status
      BY <1>1, <2>2
    <3> QED
      BY <1>2, <1>12, <1>13, <2>2, <3>1 DEF Types, Emitted
  <2> QED
    BY <2>1, <2>2
<1>16. Types'
  BY <1>1, <1>2, <1>3, <1>15, FaultTyped, Empties DEF Types
<1>17. Wanes
  <2>1. \A m \in RelayNodes :
            \/ pending_ack_table'[m] = {}
            \/ \A s \in Slot : work[m][s].phase \in Working => work'[m][s].phase \in Working
    <3> SUFFICES ASSUME NEW m \in RelayNodes, m # n, NEW s \in Slot,
                        work[m][s].phase \in Working
                 PROVE  work'[m][s].phase \in Working
      BY <1>1, <1>2, Empties
    <3>1. Cut(n, m, s) \/ Orphaned(n, m, s) \/ Spared(n, m, s)
      BY <1>4, <1>6 DEF Gone
    <3> QED
      BY <3>1 DEF Cut, Orphaned, Spared, Working, Waiting
  <2>2. \A m \in Asker, s \in Slot : work'[m][s].phase # "idle" =>
          /\ work'[m][s].attempt = work[m][s].attempt
          /\ work'[m][s].evidence = work[m][s].evidence
          /\ work'[m][s].reply = work[m][s].reply
          /\ work'[m][s].phase = "ready" => work[m][s].phase = "ready"
          /\ work'[m][s].phase = "answering" =>
                work[m][s].phase = "answering" /\ work'[m][s].heard
    BY <1>9
  <2>3. /\ \A m \in RelayNodes : /\ received_id_cache'[m] \subseteq received_id_cache[m]
                                 /\ pending_ack_table'[m] \subseteq pending_ack_table[m]
        /\ UNCHANGED <<ids, suspected_node, logged>>
        /\ seq_no' = seq_no \/ (seq_no' = 0 /\ Agent \in faulty')
    BY <1>1, <1>2, Empties
  <2>4. logged \subseteq Emitted
    BY DEF Invariant, Emissions
  <2> QED
    BY <1>2, <1>11, <1>12, <1>15, <2>1, <2>2, <2>3, <2>4 DEF Wanes
<1>18. Connections'
  <2>1. ASSUME NEW m \in Asker, NEW s \in Slot, work'[m][s].phase = "asking"
        PROVE  /\ Target(m, s)' \in RelayNodes
               /\ \E x \in Slot : Serves(Target(m, s), x, s)'
    <3>1. /\ work[m][s].phase = "asking" /\ work'[m][s].attempt = work[m][s].attempt
          /\ m # n /\ Target(m, s) # n
      BY <1>9, <2>1 DEF Waiting
    <3> PICK o \in RelayNodes : o = Target(m, s)
      BY <3>1 DEF Invariant, Connections
    <3>2. PICK x \in Slot : Serves(o, x, s)
      BY <3>1 DEF Invariant, Connections
    <3>3. Above(o) = m /\ Target(m, s)' = o
      BY <3>1, Targets DEF Target
    <3>4. Cut(n, o, x) \/ Spared(n, o, x)
      BY <1>4, <1>6, <3>1, <3>3 DEF Gone, Orphaned
    <3>5. work'[o][x].phase # "idle" /\ work'[o][x].heard /\ work'[o][x].from = s
      BY <3>2, <3>4 DEF Serves, Cut, Same, Spared
    <3> QED
      BY <3>3, <3>5 DEF Serves
  <2>2. ASSUME NEW m \in RelayNodes, NEW s \in Slot,
               work'[m][s].phase # "idle", work'[m][s].heard
        PROVE  /\ work'[m][s].from \in Slot
               /\ work'[Above(m)][work'[m][s].from].phase = "asking"
               /\ work'[Above(m)][work'[m][s].from].event = work'[m][s].event
               /\ Target(Above(m), work[m][s].from)' = m
    <3> PICK a \in Asker : a = Above(m)
      BY RouteShape
    <3> PICK x : x = work[m][s].from
      OBVIOUS
    <3>1. /\ m # n /\ a # n /\ Active(m, s) /\ work[m][s].heard
          /\ work'[m][s].from = x /\ work'[m][s].event = work[m][s].event
      BY <1>6, <1>9, <2>2 DEF Active
    <3>2. /\ x \in Slot /\ work[a][x].phase = "asking"
          /\ work[a][x].event = work[m][s].event /\ Target(a, x) = m
      BY <3>1 DEF Invariant, Connections
    <3>3. Orphaned(n, a, x) \/ Spared(n, a, x)
      BY <1>4, <3>1, <3>2 DEF Gone, Cut
    <3>4. /\ work'[a][x].phase = "asking" /\ work'[a][x].event = work[a][x].event
          /\ work'[a][x].attempt = work[a][x].attempt
      BY <3>2, <3>3 DEF Orphaned, Spared, Same
    <3>5. Target(a, x)' = m
      BY <3>2, <3>4 DEF Target
    <3> QED
      BY <3>1, <3>2, <3>4, <3>5 DEF Target
  <2>3. ASSUME NEW m \in RelayNodes, NEW s \in Slot, NEW x \in Slot,
               work'[m][s].phase # "idle", work'[m][s].heard,
               work'[m][x].phase # "idle", work'[m][x].heard,
               work'[m][s].from = work'[m][x].from
        PROVE  s = x
    BY <1>6, <1>11, <2>3 DEF Shrinks, Invariant, Connections, Active
  <2> QED
    BY <2>1, <2>2, <2>3 DEF Connections, Active
<1>19. Blamed'
  <2>1. \A m \in Nodes : ~up'[m] \/ ~running'[m] => m \in faulty'
    BY <1>1, <1>2 DEF Types, Invariant, Explanations
  <2>2. ASSUME NEW m \in Asker, NEW s \in Slot, work'[m][s].phase \in {"closed", "unanswered"}
        PROVE  /\ work'[m][s].phase = "closed" => Target(m, s)' \in faulty'
               /\ work'[m][s].phase = "unanswered" =>
                     Target(m, s)' = "monitor" /\ "monitor" \in faulty'
    <3>1. Target(m, s)' = Target(m, s)
      BY <1>9, <2>2 DEF Target
    <3> QED
      BY <1>2, <1>9, <2>2, <3>1 DEF Invariant, Explanations
  <2> QED
    BY <2>1, <2>2 DEF Blamed
<1> QED
  BY <1>16, <1>17, <1>18, <1>19, WanesKeeps

-----------------------------------------------------------------------------
(* Steps that bring work.                                                  *)

LEMMA EmitKeeps == ASSUME Invariant, Emit PROVE Invariant'
<1> PICK k \in 0..MaxEvent : /\ Emitted = 1..k /\ seq_no <= k
                             /\ Agent \notin faulty => seq_no = k
  BY DEF Invariant, Emissions
<1> DEFINE b == k + 1
<1>1. Cardinality({a \in Body : status[a] # "unsent"}) = k
  <2>1. Cardinality(1..k) = k
    BY FS_Interval, DeliveryAssumption
  <2> QED
    BY <2>1 DEF Emitted
<1>2. b \in Body /\ seq_no + 1 \in Body /\ seq_no \in Nat /\ b \notin Emitted
  <2>1. b <= MaxEvent /\ seq_no \in Nat
    BY <1>1 DEF Emit, Invariant, Types
  <2> QED
    BY <2>1, DeliveryAssumption DEF Body
<1> DEFINE w == [NoWork EXCEPT !.phase = "ready", !.event = b, !.attempt = 1]
<1>3. /\ work[Agent][1].phase = "idle" /\ seq_no' = seq_no + 1
      /\ ids' = [ids EXCEPT ![b] = seq_no + 1] /\ status' = [status EXCEPT ![b] = "sent"]
      /\ work' = [work EXCEPT ![Agent][1] = w]
      /\ UNCHANGED <<nodes, tables, suspected_node, sink, history>>
  BY <1>1 DEF Emit
<1>4. /\ w \in Work /\ w.phase = "ready" /\ w.event = b /\ w.attempt = 1
      /\ ~w.heard /\ ~w.stale
  <2>1. b \in 0..MaxEvent /\ 0 \in 0..MaxSlot
    BY <1>2, DeliveryAssumption DEF Body
  <2> QED
    BY <2>1 DEF Work, NoWork, Phase
<1> HIDE DEF w
<1>5. Agent \in Asker /\ 1 \in Slot /\ Agent \notin RelayNodes /\ RelayNodes \subseteq Asker
  BY RouteShape, DeliveryAssumption DEF Slot
<1>6. /\ work' \in [Asker -> [Slot -> Work]] /\ work'[Agent][1] = w
      /\ \A m \in Asker, s \in Slot : m # Agent \/ s # 1 => work'[m][s] = work[m][s]
  BY <1>3, <1>4, <1>5, Put DEF Invariant, Types
<1>7. /\ received_id_cache' = received_id_cache /\ pending_ack_table' = pending_ack_table
      /\ up' = up /\ running' = running /\ suspected_node' = suspected_node
      /\ event_log' = event_log /\ logged' = logged /\ faults' = faults /\ faulty' = faulty
  BY <1>3 DEF nodes, tables, sink, history
<1>8. /\ ids' \in [Body -> 0..MaxEvent] /\ ids'[b] = seq_no + 1
      /\ \A c \in Body : c # b => ids'[c] = ids[c]
  BY <1>2, <1>3 DEF Invariant, Types, Body
<1>9. /\ status' \in [Body -> {"unsent", "sent", "acknowledged", "failed", "lost"}]
      /\ status'[b] = "sent" /\ \A c \in Body : c # b => status'[c] = status[c]
  BY <1>2, <1>3 DEF Invariant, Types
<1>10. Emitted' = Emitted \cup {b}
  BY <1>2, <1>9 DEF Emitted
<1>11. \A c \in Body : status[c] # "sent"
  BY <1>3 DEF Invariant, Emissions, Active
<1>12. Types'
  BY <1>2, <1>3, <1>6, <1>7, <1>8, <1>9 DEF Invariant, Types
<1>13. Emissions'
  <2>1. b \in 0..MaxEvent /\ Emitted' = 1..b /\ seq_no' <= b
        /\ (Agent \notin faulty' => seq_no' = b)
    BY <1>2, <1>3, <1>7, <1>10, DeliveryAssumption DEF Body
  <2>2. \A c \in Emitted' : ids'[c] \in Body /\ (Agent \notin faulty' => ids'[c] = c)
    <3>1. ids'[b] \in Body /\ (Agent \notin faulty' => ids'[b] = b)
      BY <1>2, <1>7, <1>8
    <3>2. \A c \in Emitted : ids'[c] \in Body /\ (Agent \notin faulty' => ids'[c] = c)
      BY <1>2, <1>7, <1>8 DEF Invariant, Emissions, Emitted
    <3> QED
      BY <1>10, <3>1, <3>2
  <2>3. \A c \in Body : status'[c] = "sent" =>
            work'[Agent][1].phase # "idle" /\ work'[Agent][1].event = c
    BY <1>4, <1>6, <1>9, <1>11
  <2>4. logged' \subseteq Emitted'
    BY <1>7, <1>10 DEF Invariant, Emissions
  <2> HIDE DEF b
  <2> QED
    BY <2>1, <2>2, <2>3, <2>4 DEF Emissions, Active
<1>14. Slots'
  <2>1. ASSUME NEW m \in Asker, NEW s \in Slot, work'[m][s].phase # "idle"
        PROVE  /\ work'[m][s].event \in Emitted'
               /\ work'[m][s].attempt \in 1..Limit(m)
               /\ work'[m][s].phase = "answering" => work'[m][s].heard
    <3>1. CASE m = Agent /\ s = 1
      <4>1. 1 \in 1..Limit(Agent)
        BY DEF Limit
      <4> QED
        BY <1>4, <1>6, <1>10, <3>1, <4>1
    <3>2. CASE m # Agent \/ s # 1
      BY <1>6, <1>10, <2>1, <3>2 DEF Invariant, Slots, Active
    <3> QED
      BY <3>1, <3>2
  <2>2. ASSUME NEW s \in Slot
        PROVE  /\ ~work'[Agent][s].heard /\ ~work'[Agent][s].stale
               /\ work'[Agent][s].phase # "idle" =>
                     s = 1 /\ status'[work'[Agent][s].event] = "sent"
                     /\ \A c \in Emitted' : c <= work'[Agent][s].event
    <3>1. CASE s = 1
      <4>1. \A c \in Emitted' : c <= b
        BY <1>10
      <4> QED
        BY <1>4, <1>6, <1>9, <3>1, <4>1
    <3>2. CASE s # 1
      <4>1. work'[Agent][s] = work[Agent][s]
        BY <1>5, <1>6, <3>2
      <4> QED
        BY <3>2, <4>1 DEF Invariant, Slots, Active
    <3> QED
      BY <3>1, <3>2
  <2> QED
    BY <2>1, <2>2 DEF Slots, Active
<1>15. \A m \in Asker, s \in Slot :
          work[m][s].phase = "asking" \/ work'[m][s].phase = "asking" =>
              work'[m][s] = work[m][s] /\ Target(m, s)' = Target(m, s)
  BY <1>3, <1>4, <1>6 DEF Target
<1>16. \A m \in RelayNodes, s \in Slot : work'[m][s] = work[m][s]
  BY <1>5, <1>6
<1>17. Connections'
  <2>1. ASSUME NEW m \in Asker, NEW s \in Slot, work'[m][s].phase = "asking"
        PROVE  /\ Target(m, s)' \in RelayNodes
               /\ \E x \in Slot : Serves(Target(m, s), x, s)'
    <3>1. work[m][s].phase = "asking" /\ Target(m, s)' = Target(m, s)
      BY <1>15, <2>1
    <3> PICK o \in RelayNodes : o = Target(m, s)
      BY <3>1 DEF Invariant, Connections
    <3>2. PICK x \in Slot : Serves(o, x, s)
      BY <3>1 DEF Invariant, Connections
    <3> QED
      BY <1>16, <3>1, <3>2 DEF Serves
  <2>2. ASSUME NEW m \in RelayNodes, NEW s \in Slot,
               work'[m][s].phase # "idle", work'[m][s].heard
        PROVE  /\ work'[m][s].from \in Slot
               /\ work'[Above(m)][work'[m][s].from].phase = "asking"
               /\ work'[Above(m)][work'[m][s].from].event = work'[m][s].event
               /\ Target(Above(m), work[m][s].from)' = m
    <3> PICK a \in Asker : a = Above(m)
      BY RouteShape
    <3> PICK x : x = work[m][s].from
      OBVIOUS
    <3>1. Active(m, s) /\ work[m][s].heard /\ work'[m][s] = work[m][s]
      BY <1>16, <2>2 DEF Active
    <3>2. /\ x \in Slot /\ work[a][x].phase = "asking"
          /\ work[a][x].event = work[m][s].event /\ Target(a, x) = m
      BY <3>1 DEF Invariant, Connections
    <3>3. work'[a][x] = work[a][x] /\ Target(a, x)' = m
      BY <1>15, <3>2
    <3> QED
      BY <3>1, <3>2, <3>3 DEF Target
  <2>3. ASSUME NEW m \in RelayNodes, NEW s \in Slot, NEW x \in Slot,
               work'[m][s].phase # "idle", work'[m][s].heard,
               work'[m][x].phase # "idle", work'[m][x].heard,
               work'[m][s].from = work'[m][x].from
        PROVE  s = x
    BY <1>16, <2>3 DEF Invariant, Connections, Active
  <2> QED
    BY <2>1, <2>2, <2>3 DEF Connections, Active
\* The ids of the earlier events are as they were.
<1>18. \A m \in RelayNodes, s \in Slot : Active(m, s) => IdOf(m, s)' = IdOf(m, s)
  BY <1>2, <1>5, <1>8, <1>16, IdTyped DEF IdOf, Emitted
<1>19. LoggedIds' = LoggedIds
  <2>1. \A c \in logged : ids'[c] = ids[c]
    BY <1>2, <1>8 DEF Invariant, Emissions, Emitted
  <2> QED
    BY <1>7, <2>1 DEF LoggedIds
<1>20. Vouches'
  BY <1>7, <1>16, <1>18, <1>19 DEF Invariant, Vouches, Active
<1>21. Pending'
  BY <1>7, <1>16, <1>18 DEF Invariant, Pending, Active, Working, Waiting
<1>22. Copies'
  <2>1. \A m \in RelayNodes : \A c : Has(m, c)' <=> Has(m, c)
    BY <1>16 DEF Has, Active
  <2>2. ASSUME NEW e \in Entry, NEW c \in Body, Ahead(e, c)' PROVE Ahead(e, c)
    <3>1. status'[c] = "unsent" \/ c = b
      BY <1>4, <1>6, <2>2 DEF Ahead, Active
    <3>2. status[c] = "unsent"
      BY <1>2, <1>9, <3>1 DEF Emitted
    <3> QED
      BY <3>2 DEF Ahead
  <2> QED
    BY <1>7, <1>16, <2>1, <2>2, RouteShape DEF Invariant, Copies, Active
<1>23. Explanations'
  <2>1. \A n \in Nodes : ~up'[n] \/ ~running'[n] => n \in faulty'
    BY <1>7 DEF Invariant, Explanations
  <2>2. ASSUME NEW m \in Asker, NEW s \in Slot
        PROVE  /\ work'[m][s].phase = "closed" => Target(m, s)' \in faulty'
               /\ work'[m][s].phase = "unanswered" =>
                     Target(m, s)' = "monitor" /\ "monitor" \in faulty'
    BY <1>4, <1>6, <1>7 DEF Invariant, Explanations, Target
  <2> QED
    BY <1>7, <1>16, <2>1, <2>2 DEF Invariant, Explanations, Active
<1> QED
  BY <1>12, <1>13, <1>14, <1>17, <1>20, <1>21, <1>22, <1>23 DEF Invariant

LEMMA Smallest ==
    ASSUME NEW S, S \subseteq Nat, S # {} PROVE \E x \in S : \A y \in S : x <= y
<1> DEFINE R == OpToRel(<, Nat)
<1>1. PICK x \in S : \A y \in S : <<y, x>> \notin R
  <2> HIDE DEF R
  <2>1. IsWellFoundedOn(R, Nat)
    BY NatLessThanWellFounded DEF R
  <2> QED
    BY <2>1, WFMin
<1>2. \A y \in S : ~(y < x)
  BY <1>1 DEF OpToRel
<1> QED
  BY <1>2

\* Slot t of node n asks relay m, which takes slot s for the delivery.
Begins(n, t, m, s) ==
    /\ m \in RelayNodes /\ m = Target(n, t) /\ Above(m) = n /\ n # m
    /\ work[n][t].phase = "ready" /\ ~work[n][t].stale /\ work[m][s].phase = "idle"
    /\ \A o \in Asker, x \in Slot :
          (o # n \/ x # t) /\ (o # m \/ x # s) => work'[o][x] = work[o][x]
    /\ LET w == work[n][t]
           v == work'[n][t]
       IN  /\ v.phase = "asking" /\ v.event = w.event /\ v.from = w.from
           /\ v.heard = w.heard /\ v.stale = w.stale /\ v.attempt = w.attempt
           /\ v.evidence = w.evidence /\ v.reply = w.reply
    /\ LET v == work'[m][s]
       IN  /\ v.phase = "ready" /\ v.event = work[n][t].event /\ v.from = t
           /\ v.heard /\ v.attempt = 1 /\ ~v.stale /\ ~v.evidence

LEMMA TakenOnView ==
    ASSUME Invariant, NEW n \in Asker, NEW t \in Slot, TakenOn(n, t)
    PROVE  /\ work' \in [Asker -> [Slot -> Work]]
           /\ \E m \in RelayNodes, s \in Slot :
                 /\ Begins(n, t, m, s) /\ IdOf(n, t) \in Body
                 /\ pending_ack_table' = [pending_ack_table EXCEPT ![m] = @ \cup {IdOf(n, t)}]
                 /\ UNCHANGED <<nodes, received_id_cache, events, sink, history>>
<1> PICK m : m = Target(n, t)
  OBVIOUS
<1> PICK s : s = CHOOSE x \in FreeSlot(m) : \A y \in FreeSlot(m) : x <= y
  OBVIOUS
<1> DEFINE new == [NoWork EXCEPT !.phase = "ready", !.event = work[n][t].event,
                                 !.from = t, !.heard = TRUE, !.attempt = 1]
           asking == [work[n][t] EXCEPT !.phase = "asking"]
<1>1. /\ work[n][t].phase = "ready" /\ ~work[n][t].stale /\ m # "monitor"
      /\ FreeSlot(m) # {}
      /\ pending_ack_table' = [pending_ack_table EXCEPT ![m] = @ \cup {IdOf(n, t)}]
      /\ UNCHANGED <<nodes, received_id_cache, events, sink, history>>
  BY DEF TakenOn, Asks
<1>2. m \in RelayNodes /\ m \in Asker /\ m # n /\ Above(m) = n
  BY <1>1, Targets, RouteShape DEF Nodes, RelayNodes, Agent
<1>3. s \in FreeSlot(m)
  <2>1. FreeSlot(m) \subseteq Nat
    BY DEF FreeSlot, Slot
  <2> QED
    BY <1>1, <2>1, Smallest
<1>4. s \in Slot /\ work[m][s].phase = "idle"
  BY <1>3 DEF FreeSlot
<1>5. work[n][t] \in Work /\ work[n][t].event \in Body /\ IdOf(n, t) \in Body
  BY <1>1, WorkTyped, IdTyped DEF Invariant, Active, Emitted
<1>6. /\ new \in Work /\ new.phase = "ready" /\ new.event = work[n][t].event
      /\ new.from = t /\ new.heard /\ new.attempt = 1 /\ ~new.stale /\ ~new.evidence
  <2>1. t \in 0..MaxSlot /\ work[n][t].event \in 0..MaxEvent
    BY <1>5, DeliveryAssumption DEF Slot, Body
  <2> QED
    BY <2>1 DEF Work, NoWork, Phase
<1>7. asking \in Work
  BY <1>5, Field DEF Phase
<1>8. /\ asking.phase = "asking" /\ asking.event = work[n][t].event
      /\ asking.from = work[n][t].from /\ asking.heard = work[n][t].heard
      /\ asking.stale = work[n][t].stale /\ asking.attempt = work[n][t].attempt
      /\ asking.evidence = work[n][t].evidence /\ asking.reply = work[n][t].reply
  BY <1>5 DEF Work
<1>9. work' = [[work EXCEPT ![n][t] = asking] EXCEPT ![m][s] = new]
  <2>1. work' = [work EXCEPT ![n][t].phase = "asking", ![m][s] = new]
    BY DEF TakenOn
  <2> HIDE DEF new
  <2>2. [work EXCEPT ![n][t].phase = "asking"] = [work EXCEPT ![n][t] = asking]
    OBVIOUS
  <2> HIDE DEF asking
  <2> QED
    BY <2>1, <2>2
<1> HIDE DEF new, asking
<1> DEFINE f == [work EXCEPT ![n][t] = asking]
<1>10. /\ f \in [Asker -> [Slot -> Work]] /\ f[n][t] = asking
       /\ \A o \in Asker, x \in Slot : o # n \/ x # t => f[o][x] = work[o][x]
  BY <1>7, Put DEF Invariant, Types
<1>11. work' = [f EXCEPT ![m][s] = new]
  BY <1>9
<1> HIDE DEF f
<1>12. /\ work' \in [Asker -> [Slot -> Work]] /\ work'[m][s] = new
       /\ \A o \in Asker, x \in Slot : o # m \/ x # s => work'[o][x] = f[o][x]
  BY <1>2, <1>4, <1>6, <1>10, <1>11, Put
<1>13. Begins(n, t, m, s)
  BY <1>1, <1>2, <1>4, <1>6, <1>8, <1>10, <1>12 DEF Begins
<1> QED
  BY <1>1, <1>2, <1>4, <1>5, <1>12, <1>13

LEMMA TakenOnKeeps ==
    ASSUME Invariant, NEW n \in Asker, NEW t \in Slot, TakenOn(n, t) PROVE Invariant'
<1>1. work' \in [Asker -> [Slot -> Work]]
  BY TakenOnView
<1> PICK m \in RelayNodes, s \in Slot :
        /\ Begins(n, t, m, s) /\ IdOf(n, t) \in Body
        /\ pending_ack_table' = [pending_ack_table EXCEPT ![m] = @ \cup {IdOf(n, t)}]
        /\ UNCHANGED <<nodes, received_id_cache, events, sink, history>>
  BY TakenOnView
<1> PICK b \in Emitted : b = work[n][t].event
  BY IdTyped DEF Begins, Active
<1>2. /\ received_id_cache' = received_id_cache /\ seq_no' = seq_no /\ ids' = ids
      /\ status' = status /\ suspected_node' = suspected_node /\ up' = up
      /\ running' = running /\ event_log' = event_log /\ logged' = logged
      /\ faults' = faults /\ faulty' = faulty
  BY DEF nodes, events, sink, history
<1>3. /\ m = Target(n, t) /\ Above(m) = n /\ n # m /\ m \in Asker /\ m # Agent
      /\ work[n][t].phase = "ready" /\ ~work[n][t].stale /\ work[m][s].phase = "idle"
  BY RouteShape DEF Begins
<1>4. \A o \in Asker, x \in Slot :
          (o # n \/ x # t) /\ (o # m \/ x # s) => work'[o][x] = work[o][x]
  BY DEF Begins
<1>5. /\ work'[n][t].phase = "asking" /\ work'[n][t].event = b
      /\ work'[n][t].from = work[n][t].from /\ work'[n][t].heard = work[n][t].heard
      /\ work'[n][t].stale = work[n][t].stale /\ work'[n][t].attempt = work[n][t].attempt
      /\ work'[n][t].evidence = work[n][t].evidence
  BY DEF Begins
<1>6. /\ work'[m][s].phase = "ready" /\ work'[m][s].event = b /\ work'[m][s].from = t
      /\ work'[m][s].heard /\ work'[m][s].attempt = 1 /\ ~work'[m][s].stale
      /\ ~work'[m][s].evidence
  BY DEF Begins
\* The slots that were not idle keep everything, but for the phase of slot t of node n.
<1>7. \A o \in Asker, x \in Slot : o # m \/ x # s =>
          /\ work'[o][x].event = work[o][x].event /\ work'[o][x].from = work[o][x].from
          /\ work'[o][x].heard = work[o][x].heard /\ work'[o][x].stale = work[o][x].stale
          /\ work'[o][x].attempt = work[o][x].attempt
          /\ work'[o][x].evidence = work[o][x].evidence
          /\ \/ work'[o][x] = work[o][x] /\ (o # n \/ x # t)
             \/ /\ o = n /\ x = t
                /\ work'[o][x].phase = "asking" /\ work[o][x].phase = "ready"
  BY <1>3, <1>4, <1>5
<1>8. Agent \in Asker /\ 1 \in Slot /\ Agent \notin RelayNodes /\ RelayNodes \subseteq Asker
  BY RouteShape, DeliveryAssumption DEF Slot
<1>9. Emitted' = Emitted /\ LoggedIds' = LoggedIds
  BY <1>2 DEF Emitted, LoggedIds
<1>10. \A o \in Asker, x \in Slot : o # m \/ x # s =>
          /\ Target(o, x)' = Target(o, x) /\ IdOf(o, x)' = IdOf(o, x)
          /\ work'[o][x].phase = "idle" <=> work[o][x].phase = "idle"
          /\ work'[o][x].phase \in Working <=> work[o][x].phase \in Working
  BY <1>2, <1>7 DEF Target, IdOf, Working, Waiting
<1>11. Types'
  <2>1. pending_ack_table' \in [RelayNodes -> SUBSET Body]
    BY DEF Invariant, Types
  <2> QED
    BY <1>1, <1>2, <2>1 DEF Invariant, Types
<1>12. Emissions'
  <2>1. \A c \in Body : status'[c] = "sent" =>
            work'[Agent][1].phase # "idle" /\ work'[Agent][1].event = c
    BY <1>2, <1>3, <1>7, <1>8, <1>10 DEF Invariant, Emissions, Active
  <2> QED
    BY <1>2, <1>9, <2>1 DEF Invariant, Emissions, Active
<1>13. Slots'
  <2>1. ASSUME NEW o \in Asker, NEW x \in Slot, work'[o][x].phase # "idle"
        PROVE  /\ work'[o][x].event \in Emitted'
               /\ work'[o][x].attempt \in 1..Limit(o)
               /\ work'[o][x].phase = "answering" => work'[o][x].heard
    <3>1. CASE o = m /\ x = s
      <4>1. 1 \in 1..Limit(m)
        BY DeliveryAssumption DEF Limit
      <4> QED
        BY <1>6, <1>9, <3>1, <4>1
    <3>2. CASE o # m \/ x # s
      <4>1. Active(o, x)
        BY <1>10, <2>1, <3>2 DEF Active
      <4> QED
        BY <1>7, <1>9, <3>2, <4>1 DEF Invariant, Slots
    <3> QED
      BY <3>1, <3>2
  <2>2. \A x \in Slot : /\ ~work'[Agent][x].heard /\ ~work'[Agent][x].stale
                        /\ work'[Agent][x].phase # "idle" =>
                              x = 1 /\ status'[work'[Agent][x].event] = "sent"
                              /\ \A c \in Emitted' : c <= work'[Agent][x].event
    BY <1>2, <1>3, <1>7, <1>8, <1>9, <1>10 DEF Invariant, Slots, Active
  <2> QED
    BY <2>1, <2>2 DEF Slots, Active
<1>14. Connections'
  <2>1. ASSUME NEW o \in Asker, NEW x \in Slot, work'[o][x].phase = "asking"
        PROVE  /\ Target(o, x)' \in RelayNodes
               /\ \E y \in Slot : Serves(Target(o, x), y, x)'
    <3>1. CASE o = n /\ x = t
      <4>1. Target(o, x)' = m
        BY <1>3, <1>10, <3>1
      <4> QED
        BY <1>6, <3>1, <4>1 DEF Serves
    <3>2. CASE o # n \/ x # t
      <4>1. (o # m \/ x # s) /\ work[o][x].phase = "asking"
        BY <1>6, <1>7, <2>1, <3>2
      <4> PICK a \in RelayNodes : a = Target(o, x)
        BY <4>1 DEF Invariant, Connections
      <4>2. PICK y \in Slot : Serves(a, y, x)
        BY <4>1 DEF Invariant, Connections
      <4>3. a # m \/ y # s
        BY <1>3, <4>2 DEF Serves
      <4>4. work'[a][y].phase # "idle" /\ work'[a][y].heard /\ work'[a][y].from = x
        BY <1>7, <1>8, <1>10, <4>2, <4>3 DEF Serves
      <4>5. Target(o, x)' = a
        BY <1>10, <4>1
      <4> QED
        BY <4>4, <4>5 DEF Serves
    <3> QED
      BY <3>1, <3>2
  <2>2. ASSUME NEW o \in RelayNodes, NEW x \in Slot,
               work'[o][x].phase # "idle", work'[o][x].heard
        PROVE  /\ work'[o][x].from \in Slot
               /\ work'[Above(o)][work'[o][x].from].phase = "asking"
               /\ work'[Above(o)][work'[o][x].from].event = work'[o][x].event
               /\ (Target(Above(o), work[o][x].from))' = o
    <3>1. CASE o = m /\ x = s
      <4>1. Target(n, t)' = m
        BY <1>3, <1>10
      <4> QED
        BY <1>3, <1>5, <1>6, <3>1, <4>1 DEF Target
    <3>2. CASE o # m \/ x # s
      <4> PICK a \in Asker : a = Above(o)
        BY RouteShape
      <4> PICK y : y = work[o][x].from
        OBVIOUS
      <4>1. /\ Active(o, x) /\ work[o][x].heard /\ work'[o][x].from = y
            /\ work'[o][x].event = work[o][x].event
        BY <1>7, <1>8, <1>10, <2>2, <3>2 DEF Active
      <4>2. /\ y \in Slot /\ work[a][y].phase = "asking"
            /\ work[a][y].event = work[o][x].event /\ Target(a, y) = o
        BY <4>1 DEF Invariant, Connections
      <4>3. (a # m \/ y # s) /\ (a # n \/ y # t)
        BY <1>3, <4>2
      <4>4. work'[a][y] = work[a][y] /\ Target(a, y)' = o
        BY <1>4, <1>10, <4>2, <4>3
      <4> QED
        BY <4>1, <4>2, <4>4 DEF Target
    <3> QED
      BY <3>1, <3>2
  <2>3. ASSUME NEW o \in RelayNodes, NEW x \in Slot, NEW y \in Slot,
               work'[o][x].phase # "idle", work'[o][x].heard,
               work'[o][y].phase # "idle", work'[o][y].heard,
               work'[o][x].from = work'[o][y].from
        PROVE  x = y
    \* Before this step, nobody served slot t of node n.
    <3>1. \A z \in Slot : Active(m, z) /\ work[m][z].heard => work[m][z].from # t
      BY <1>3 DEF Invariant, Connections
    <3>2. CASE o = m /\ x = s
      <4>1. SUFFICES ASSUME y # s PROVE FALSE
        BY <3>2
      <4> QED
        BY <1>3, <1>6, <1>7, <1>10, <2>3, <3>1, <3>2, <4>1 DEF Active
    <3>3. CASE o = m /\ y = s
      <4>1. SUFFICES ASSUME x # s PROVE FALSE
        BY <3>3
      <4> QED
        BY <1>3, <1>6, <1>7, <1>10, <2>3, <3>1, <3>3, <4>1 DEF Active
    <3>4. CASE (o # m \/ x # s) /\ (o # m \/ y # s)
      BY <1>7, <1>8, <1>10, <2>3, <3>4 DEF Invariant, Connections, Active
    <3> QED
      BY <3>2, <3>3, <3>4
  <2> QED
    BY <2>1, <2>2, <2>3 DEF Connections, Active
<1>15. Vouches'
  <2>1. ASSUME NEW o \in RelayNodes, NEW x \in Slot,
               work'[o][x].phase = "answering", work'[o][x].reply = "ACK"
        PROVE  IdOf(o, x)' \in LoggedIds'
    <3>1. (o # m \/ x # s) /\ work'[o][x] = work[o][x]
      BY <1>6, <1>7, <1>8, <2>1
    <3> QED
      BY <1>8, <1>9, <1>10, <2>1, <3>1 DEF Invariant, Vouches
  <2> QED
    BY <1>2, <1>9, <2>1 DEF Invariant, Vouches
<1>16. Pending'
  <2> SUFFICES ASSUME NEW o \in RelayNodes, NEW id \in pending_ack_table'[o]
               PROVE  \E x \in Slot : work'[o][x].phase \in Working /\ IdOf(o, x)' = id
    BY DEF Pending
  <2>1. CASE id \in pending_ack_table[o]
    <3>1. PICK x \in Slot : work[o][x].phase \in Working /\ IdOf(o, x) = id
      BY <2>1 DEF Invariant, Pending
    <3>2. o # m \/ x # s
      BY <1>3, <3>1 DEF Working, Waiting
    <3> QED
      BY <1>8, <1>10, <3>1, <3>2
  <2>2. CASE id \notin pending_ack_table[o]
    <3>1. o = m /\ id = IdOf(n, t)
      BY <2>2 DEF Invariant, Types
    <3>2. IdOf(m, s)' = IdOf(n, t)
      BY <1>2, <1>6 DEF IdOf
    <3> QED
      BY <1>6, <3>1, <3>2 DEF Working
  <2> QED
    BY <2>1, <2>2
<1>17. Copies'
  <2>1. \A o \in RelayNodes : \A c : Has(o, c)' <=> Has(o, c) \/ (o = m /\ c = b)
    <3> SUFFICES ASSUME NEW o \in RelayNodes, NEW c
                 PROVE  Has(o, c)' <=> Has(o, c) \/ (o = m /\ c = b)
      OBVIOUS
    <3>1. ASSUME Has(o, c)' PROVE Has(o, c) \/ (o = m /\ c = b)
      <4>1. PICK x \in Slot : work'[o][x].phase # "idle" /\ work'[o][x].event = c
        BY <3>1 DEF Has, Active
      <4>2. CASE o = m /\ x = s
        BY <1>6, <4>1, <4>2
      <4>3. CASE o # m \/ x # s
        BY <1>7, <1>8, <1>10, <4>1, <4>3 DEF Has, Active
      <4> QED
        BY <4>2, <4>3
    <3>2. ASSUME Has(o, c) PROVE Has(o, c)'
      <4>1. PICK x \in Slot : work[o][x].phase # "idle" /\ work[o][x].event = c
        BY <3>2 DEF Has, Active
      <4>2. o # m \/ x # s
        BY <1>3, <4>1
      <4> QED
        BY <1>7, <1>8, <1>10, <4>1, <4>2 DEF Has, Active
    <3>3. ASSUME o = m, c = b PROVE Has(o, c)'
      BY <1>6, <3>3 DEF Has, Active
    <3> QED
      BY <3>1, <3>2, <3>3
  <2>2. SUFFICES ASSUME Agent \notin faulty', NEW e \in Entry
                 PROVE  /\ \A x, y \in Slot :
                              /\ work'[e][x].phase # "idle" /\ work'[e][y].phase # "idle"
                              /\ work'[e][x].event = work'[e][y].event
                              => x = y
                        /\ \A c \in Body : Ahead(e, c)' => ~Has(e, c)' /\ ~Has(Below(e), c)'
                        /\ Below(e) \notin faulty' =>
                              \A x \in Slot :
                                  work'[Below(e)][x].phase # "idle" /\ ~work'[Below(e)][x].heard
                                      => ~(Has(e, work[Below(e)][x].event)')
    BY DEF Copies, Active
  <2>3. /\ \A x, y \in Slot :
              Active(e, x) /\ Active(e, y) /\ work[e][x].event = work[e][y].event => x = y
        /\ \A c \in Body : Ahead(e, c) => ~Has(e, c) /\ ~Has(Below(e), c)
        /\ Below(e) \notin faulty =>
              \A x \in Slot :
                  Active(Below(e), x) /\ ~work[Below(e)][x].heard
                      => ~Has(e, work[Below(e)][x].event)
    BY <1>2, <2>2 DEF Invariant, Copies
  <2>4. e \in RelayNodes /\ Below(e) \in RelayNodes /\ Above(Below(e)) = e /\ Above(e) = Agent
    BY RouteShape
  <2>5. b \in Body /\ status[b] # "unsent" /\ Has(n, b)
    BY <1>3 DEF Emitted, Has, Active
  \* The agent's event has just come to the entry it goes to.
  <2>6. e = m => n = Agent /\ t = 1 /\ Ahead(e, b)
    <3>1. Active(n, t)
      BY <1>3 DEF Active
    <3> QED
      BY <1>3, <2>4, <3>1 DEF Ahead, Invariant, Slots
  <2>7. ASSUME NEW c \in Body, Ahead(e, c)'
        PROVE  Ahead(e, c) /\ (e = m => c # b) /\ (Below(e) = m => c # b)
    <3>1. CASE status'[c] = "unsent"
      BY <1>2, <2>5, <3>1 DEF Ahead
    <3>2. CASE /\ work'[Agent][1].phase # "idle" /\ work'[Agent][1].event = c
               /\ \/ work'[Agent][1].phase = "ready" /\ Target(Agent, 1)' = e
                  \/ work'[Agent][1].attempt = 1 /\ e = "r1b"
      <4>1. /\ Active(Agent, 1) /\ work[Agent][1].event = c
            /\ work'[Agent][1].attempt = work[Agent][1].attempt
            /\ work'[Agent][1].phase = "ready" =>
                  work[Agent][1].phase = "ready" /\ (n # Agent \/ t # 1)
            /\ Target(Agent, 1)' = Target(Agent, 1)
        BY <1>3, <1>7, <1>8, <1>10, <3>2 DEF Active
      <4>2. Ahead(e, c)
        BY <3>2, <4>1 DEF Ahead
      <4>3. e # m
        <5>1. SUFFICES ASSUME e = m PROVE FALSE
          OBVIOUS
        <5>2. n = Agent /\ t = 1
          BY <2>6, <5>1
        <5>3. work[Agent][1].attempt = 1 /\ m = "r1b"
          BY <3>2, <4>1, <5>1, <5>2
        <5> QED
          BY <1>3, <1>8, <5>2, <5>3, Targets
      <4>4. Below(e) = m => c # b
        BY <1>3, <2>3, <2>4, <2>5, <4>2
      <4> QED
        BY <4>2, <4>3, <4>4
    <3> QED
      BY <2>7, <3>1, <3>2 DEF Ahead, Active
  <2>8. ASSUME NEW x \in Slot, NEW y \in Slot,
               work'[e][x].phase # "idle", work'[e][y].phase # "idle",
               work'[e][x].event = work'[e][y].event
        PROVE  x = y
    <3>1. CASE e = m /\ (x = s \/ y = s)
      <4>1. ~Has(m, b)
        BY <2>3, <2>5, <2>6, <3>1
      <4>2. \A z \in Slot : z # s /\ work'[m][z].phase # "idle" => work'[m][z].event # b
        BY <1>3, <1>7, <1>10, <4>1 DEF Has, Active
      <4> QED
        BY <1>6, <2>8, <3>1, <4>2
    <3>2. CASE e # m \/ (x # s /\ y # s)
      BY <1>7, <1>8, <1>10, <2>3, <2>4, <2>8, <3>2 DEF Active
    <3> QED
      BY <3>1, <3>2
  <2>9. \A c \in Body : Ahead(e, c)' => ~Has(e, c)' /\ ~Has(Below(e), c)'
    BY <2>1, <2>3, <2>4, <2>7
  <2>10. ASSUME Below(e) \notin faulty', NEW x \in Slot,
                work'[Below(e)][x].phase # "idle", ~work'[Below(e)][x].heard
         PROVE  ~(Has(e, work[Below(e)][x].event)')
    <3> PICK o \in RelayNodes : o = Below(e)
      BY <2>4
    <3>1. o # m \/ x # s
      BY <1>6, <2>10
    <3>2. /\ Active(o, x) /\ ~work[o][x].heard
          /\ work'[o][x].event = work[o][x].event
      BY <1>7, <1>8, <1>10, <2>10, <3>1 DEF Active
    <3>3. ~Has(e, work[o][x].event)
      BY <1>2, <2>3, <2>10, <3>2
    <3>4. Has(o, work[o][x].event)
      BY <3>2 DEF Has
    <3>5. ~(e = m /\ work[o][x].event = b)
      BY <2>3, <2>5, <2>6, <3>4
    <3> PICK c : c = work[o][x].event
      OBVIOUS
    <3>6. ~Has(e, c)'
      BY <2>1, <2>4, <3>3, <3>5
    <3> QED
      BY <3>2, <3>6 DEF Has, Active
  <2> QED
    BY <2>8, <2>9, <2>10
<1>18. Explanations'
  <2>1. \A o \in Nodes : ~up'[o] \/ ~running'[o] => o \in faulty'
    BY <1>2 DEF Invariant, Explanations
  <2>2. ASSUME NEW o \in Asker, NEW x \in Slot
        PROVE  /\ work'[o][x].phase = "closed" => Target(o, x)' \in faulty'
               /\ work'[o][x].phase = "unanswered" =>
                     Target(o, x)' = "monitor" /\ "monitor" \in faulty'
    BY <1>2, <1>6, <1>7, <1>10 DEF Invariant, Explanations
  <2>3. ASSUME NEW o \in RelayNodes, NEW x \in Slot
        PROVE  /\ work'[o][x].phase # "idle" /\ work'[o][x].stale => o \in faulty'
               /\ work'[o][x].phase # "idle" /\ work'[o][x].evidence => Explains(faulty', Below(o))
               /\ work'[o][x].phase = "answering" /\ work'[o][x].reply # "ACK"
                     => Explains(faulty', o)
    <3>1. CASE o = m /\ x = s
      BY <1>6, <3>1
    <3>2. CASE o # m \/ x # s
      BY <1>2, <1>7, <1>8, <1>10, <3>2 DEF Invariant, Explanations, Active
    <3> QED
      BY <3>1, <3>2
  <2> QED
    BY <1>2, <2>1, <2>2, <2>3 DEF Invariant, Explanations, Active
<1> QED
  BY <1>11, <1>12, <1>13, <1>14, <1>15, <1>16, <1>17, <1>18 DEF Invariant

-----------------------------------------------------------------------------
(* The invariant holds always.                                             *)

LEMMA InitInvariant == Init => Invariant
<1> SUFFICES ASSUME Init PROVE Invariant
  OBVIOUS
<1> USE DEF Init
<1>1. \A n \in Asker, t \in Slot : work[n][t] = NoWork
  OBVIOUS
<1>2. /\ NoWork.phase = "idle" /\ ~NoWork.heard /\ ~NoWork.stale
  BY DEF NoWork
<1>3. 0 \in 0..MaxEvent /\ 0 \in 0..MaxFault
  BY DeliveryAssumption
<1>4. Types
  <2>1. work \in [Asker -> [Slot -> Work]]
    BY NoWorkTyped
  <2> QED
    BY <1>3, <2>1 DEF Types
<1>5. Emissions
  <2>1. Emitted = {} /\ 1..0 = {}
    BY DEF Emitted
  <2> QED
    BY <1>3, <2>1 DEF Emissions
<1>6. Slots /\ Connections
  BY <1>1, <1>2, RouteShape DEF Slots, Connections, Active
<1>7. Vouches /\ Pending
  BY <1>1, <1>2, RouteShape DEF Vouches, Pending
<1>8. Copies
  BY <1>1, <1>2, RouteShape DEF Copies, Has, Active
<1>9. Explanations
  BY <1>1, <1>2, RouteShape DEF Explanations, Active
<1> QED
  BY <1>4, <1>5, <1>6, <1>7, <1>8, <1>9 DEF Invariant

\* The steps of the next-state relation, an attempt that ends taken as one.
LEMMA Steps ==
    ASSUME Next
    PROVE  \/ Emit \/ UNCHANGED vars
           \/ \E n \in Asker, t \in Slot :
                 Attempt(n, t) \/ TakenOn(n, t) \/ LoggedSilently(n, t)
           \/ \E n \in Nodes : Pause(n) \/ Resume(n) \/ Reset(n) \/ Shutdown(n) \/ Restart(n)
  BY DEF Next, Proceed, Attempt, Poll

LEMMA NextKeeps == Invariant /\ [Next]_vars => Invariant'
<1> SUFFICES ASSUME Invariant, [Next]_vars PROVE Invariant'
  OBVIOUS
<1>1. CASE UNCHANGED vars
  BY <1>1, StutterKeeps
<1>2. CASE Emit
  BY <1>2, EmitKeeps
<1>3. ASSUME NEW n \in Asker, NEW t \in Slot, Attempt(n, t) PROVE Invariant'
  BY <1>3, AttemptEnds, EndsKeeps
<1>4. ASSUME NEW n \in Asker, NEW t \in Slot, TakenOn(n, t) PROVE Invariant'
  BY <1>4, TakenOnKeeps
<1>5. ASSUME NEW n \in Asker, NEW t \in Slot, LoggedSilently(n, t) PROVE Invariant'
  BY <1>5, LoggedSilentlyKeeps
<1>6. ASSUME NEW n \in Nodes, Pause(n) \/ Resume(n) \/ Reset(n) \/ Shutdown(n) \/ Restart(n)
      PROVE  Invariant'
  BY <1>6, PauseKeeps, ResumeKeeps, ResetKeeps, ShutdownKeeps, RestartKeeps
<1> QED
  BY <1>1, <1>2, <1>3, <1>4, <1>5, <1>6, Steps

LEMMA InvariantAlways == Spec => []Invariant
<1> QED
  BY InitInvariant, NextKeeps, PTL DEF Spec

-----------------------------------------------------------------------------
(* What follows.                                                           *)

\* The node suspected of a failure, or one below it, did fail, or the agent itself did.
\* It covers every way an attempt can end in _forward_alert_once, the retries of the
\* agent and of the relays, and the copies of earlier events that still travel.
THEOREM SuspicionSound == Spec => []SuspectAtOrAboveFault
<1>1. Invariant => SuspectAtOrAboveFault
  BY DEF Invariant, Explanations, Explains, SuspectAtOrAboveFault
<1> QED
  BY <1>1, InvariantAlways, PTL

\* A relay remembers as delivered only ids the monitor logged for some event.
THEOREM CacheSoundness == Spec => []CacheSound
<1>1. Invariant => CacheSound
  BY DEF Invariant, Vouches, LoggedIds, CacheSound
<1> QED
  BY <1>1, InvariantAlways, PTL

\* An idle slot counts no attempts.
Resting == \A n \in Asker, t \in Slot : ~Active(n, t) => work[n][t].attempt = 0

LEMMA RestingKept == Invariant /\ Resting /\ [Next]_vars => Resting'
<1> SUFFICES ASSUME Invariant, Resting, [Next]_vars,
                    NEW m \in Asker, NEW s \in Slot, work'[m][s].phase = "idle"
             PROVE  work'[m][s].attempt = 0
  BY DEF Resting, Active
<1>1. NoWork.attempt = 0
  BY DEF NoWork
<1>2. work[m][s] \in Work /\ (work[m][s].phase = "idle" => work[m][s].attempt = 0)
  BY WorkTyped DEF Invariant, Resting, Active
<1>3. CASE work' = work
  BY <1>2, <1>3
<1>4. CASE Emit
  <2>1. Agent \in Asker /\ 1 \in Slot /\ NoWork.phase = "idle"
    BY RouteShape, DeliveryAssumption DEF Slot, NoWork
  <2>2. PICK b : work' = [work EXCEPT ![Agent][1] =
                             [NoWork EXCEPT !.phase = "ready", !.event = b, !.attempt = 1]]
    BY <1>4 DEF Emit
  <2>3. work'[m][s] = work[m][s]
    BY <2>1, <2>2 DEF Invariant, Types, NoWork
  <2> QED
    BY <1>2, <2>3
<1>5. ASSUME NEW n \in Asker, NEW t \in Slot, Attempt(n, t) PROVE work'[m][s].attempt = 0
  <2>1. PICK y : Becomes(n, t, y)
    BY <1>5, AttemptEnds, EndsView
  <2>2. work'[n][t] = y /\ Others(n, t)
    BY <1>5, <2>1, AttemptEnds, EndsView DEF Becomes
  <2>3. CASE m = n /\ s = t
    BY <1>1, <2>1, <2>2, <2>3, BecomesFields DEF Drops, Invariant
  <2>4. CASE m # n \/ s # t
    <3>1. CASE work'[m][s] = NoWork \/ work'[m][s] = work[m][s]
      BY <1>1, <1>2, <3>1
    <3>2. CASE work'[m][s] = [work[m][s] EXCEPT !.heard = FALSE] /\ Served(n, t, m, s)
      <4>1. work'[m][s].phase = work[m][s].phase
        BY <1>2, <3>2 DEF Work
      <4> QED
        BY <3>2, <4>1 DEF Served, Serves
    <3> QED
      BY <2>2, <2>4, <3>1, <3>2 DEF Others
  <2> QED
    BY <2>3, <2>4
<1>6. ASSUME NEW n \in Asker, NEW t \in Slot, TakenOn(n, t) PROVE work'[m][s].attempt = 0
  <2>1. PICK o \in RelayNodes, x \in Slot : Begins(n, t, o, x)
    BY <1>6, TakenOnView
  <2>2. work'[m][s] = work[m][s]
    BY <2>1 DEF Begins
  <2> QED
    BY <1>2, <2>2
<1>7. ASSUME NEW n \in Asker, NEW t \in Slot, LoggedSilently(n, t)
      PROVE  work'[m][s].attempt = 0
  <2>1. work' = [work EXCEPT ![n][t].phase = "unanswered"]
    BY <1>7 DEF LoggedSilently
  <2>2. work[n][t] \in Work
    BY WorkTyped DEF Invariant
  <2>3. work'[m][s] = work[m][s] \/ work'[m][s].phase = "unanswered"
    BY <2>1, <2>2 DEF Invariant, Types, Work
  <2> QED
    BY <1>2, <2>3
<1>8. ASSUME NEW n \in Nodes, Reset(n) PROVE work'[m][s].attempt = 0
  <2>1. work'[m][s] = work[m][s] \/ work'[m][s] = [work[m][s] EXCEPT !.stale = TRUE]
    BY <1>8 DEF Reset, Invariant, Types
  <2> QED
    BY <1>2, <2>1 DEF Work
<1>9. ASSUME NEW n \in Nodes, Shutdown(n) PROVE work'[m][s].attempt = 0
  <2>1. Gone(n, m, s) \/ Cut(n, m, s) \/ Orphaned(n, m, s) \/ Spared(n, m, s)
    BY <1>9, ShutdownView
  <2> QED
    BY <1>1, <1>2, <2>1 DEF Gone, Cut, Orphaned, Spared, Same
<1>10. ASSUME NEW n \in Nodes, Pause(n) \/ Resume(n) \/ Restart(n) PROVE work' = work
  BY <1>10 DEF Pause, Resume, Restart
<1>11. UNCHANGED vars => work' = work
  BY DEF vars
<1> QED
  BY <1>3, <1>4, <1>5, <1>6, <1>7, <1>8, <1>9, <1>10, <1>11, Steps

LEMMA RestingAlways == Spec => []Resting
<1>1. Init => Resting
  BY DEF Init, Resting, NoWork
<1> QED
  BY <1>1, InvariantAlways, RestingKept, PTL DEF Spec

\* The types of all variables, and: every request that waits for a relay has one
\* connection there that works on its event.
THEOREM DeliveryTypeCorrect == Spec => []TypeOK
<1>1. Invariant /\ Resting => TypeOK
  <2> SUFFICES ASSUME Invariant, Resting PROVE TypeOK
    OBVIOUS
  <2>1. ASSUME NEW n \in Asker, NEW t \in Slot
        PROVE  LET w == work[n][t]
               IN  /\ w.phase \in Working \cup {"idle", "answering"}
                   /\ w.phase # "idle" => w.event \in Body /\ status[w.event] # "unsent"
                   /\ w.attempt \in 0..(IF n = Agent THEN 2 ELSE MaxRetry)
                   /\ w.phase = "answering" => w.heard
                   /\ w.phase = "asking" =>
                         \E s \in Slot : /\ Serves(Target(n, t), s, t)
                                         /\ work[Target(n, t)][s].event = w.event
    <3>1. work[n][t].phase \in Working \cup {"idle", "answering"}
      BY WorkTyped DEF Invariant, Work, Phase, Working, Waiting
    <3>2. work[n][t].phase # "idle" =>
              work[n][t].event \in Body /\ status[work[n][t].event] # "unsent"
      BY IdTyped DEF Active, Emitted
    <3>3. work[n][t].attempt \in 0..(IF n = Agent THEN 2 ELSE MaxRetry)
      <4>1. CASE Active(n, t)
        BY <4>1, DeliveryAssumption DEF Invariant, Slots, Limit
      <4>2. CASE ~Active(n, t)
        BY <4>2, DeliveryAssumption DEF Resting
      <4> QED
        BY <4>1, <4>2
    <3>4. work[n][t].phase = "answering" => work[n][t].heard
      BY DEF Invariant, Slots, Active
    <3>5. ASSUME work[n][t].phase = "asking"
          PROVE  \E s \in Slot : /\ Serves(Target(n, t), s, t)
                                 /\ work[Target(n, t)][s].event = work[n][t].event
      <4> PICK m \in RelayNodes : m = Target(n, t)
        BY <3>5 DEF Invariant, Connections
      <4>1. PICK s \in Slot : Serves(m, s, t)
        BY <3>5 DEF Invariant, Connections
      <4>2. work[m][s].event = work[n][t].event
        BY <3>5, <4>1, OneServer
      <4> QED
        BY <4>1, <4>2
    <3> QED
      BY <3>1, <3>2, <3>3, <3>4, <3>5
  <2>2. seq_no \in 0..MaxEvent
    <3>1. PICK k \in 0..MaxEvent : seq_no <= k
      BY DEF Invariant, Emissions
    <3>2. seq_no \in Nat
      BY DEF Invariant, Types
    <3> QED
      BY <3>1, <3>2, DeliveryAssumption
  <2>3. logged \subseteq Body
    BY DEF Invariant, Emissions, Emitted
  <2> QED
    BY <2>1, <2>2, <2>3 DEF TypeOK, Invariant, Types
<1> QED
  BY <1>1, InvariantAlways, RestingAlways, PTL

-----------------------------------------------------------------------------
(* The refinement.                                                         *)

\* An attempt that ends decides about the agent's event, or adds to the log.
LEMMA EndsImplements ==
    ASSUME Invariant, NEW n \in Asker, NEW t \in Slot, Ends(n, t)
    PROVE  Promise!Next \/ UNCHANGED Promise!vars
<1> PICK b \in Emitted : b = work[n][t].event
  BY EndsView, IdTyped DEF Around, Active, Working, Waiting
<1>1. PICK y : Becomes(n, t, y) /\ Decides(n, t, y)
  BY EndsView
<1>2. /\ ids' = ids /\ logged \subseteq logged' /\ logged' \subseteq logged \cup {b}
      /\ n = Agent => logged' = logged
      /\ Active(n, t)
  BY <1>1, EndsView DEF Decides, Around, Active, Working, Waiting
<1>3. b \in Promise!Body /\ status[b] # "unsent"
  BY DEF Emitted, Body, Promise!Body
<1>4. CASE n = Agent /\ y = NoWork
  <2>1. status[b] = "sent" /\ \A a \in Emitted : a <= b
    BY <1>2, <1>4 DEF Invariant, Slots
  <2>2. CASE Settle(n, t, "failed")
    <3>1. Promise!Abandon(b)
      BY <1>2, <1>4, <2>1, <2>2 DEF Settle, Promise!Abandon
    <3> QED
      BY <1>3, <3>1 DEF Promise!Next
  <2>3. CASE Settle(n, t, "acknowledged") /\ IdOf(n, t) \in LoggedIds'
    <3>1. Promise!Vouched(b)
      BY <1>2, <1>4, <2>1, <2>3 DEF LoggedIds, IdOf, Promise!Vouched, Invariant, Emissions
    <3>2. Promise!Acknowledge(b)
      BY <1>2, <1>4, <2>1, <2>3, <3>1 DEF Settle, Promise!Acknowledge
    <3> QED
      BY <1>3, <3>2 DEF Promise!Next
  <2> QED
    BY <1>1, <1>4, <2>2, <2>3 DEF Decides
<1>5. CASE ~(n = Agent /\ y = NoWork)
  <2>1. status' = status
    BY <1>1, <1>5 DEF Decides
  <2>2. logged' = logged \/ logged' = logged \cup {b}
    BY <1>2
  <2>3. logged' = logged \cup {b} => Promise!Record(b)
    BY <1>2, <1>3, <2>1 DEF Promise!Record
  <2> QED
    BY <1>2, <1>3, <2>1, <2>2, <2>3 DEF Promise!Next, Promise!vars
<1> QED
  BY <1>4, <1>5

LEMMA EmitImplements == ASSUME Invariant, Emit PROVE Promise!Next
<1> PICK k \in 0..MaxEvent : Emitted = 1..k /\ seq_no <= k
  BY DEF Invariant, Emissions
<1>1. Cardinality({a \in Body : status[a] # "unsent"}) = k
  <2>1. Cardinality(1..k) = k
    BY FS_Interval, DeliveryAssumption
  <2> QED
    BY <2>1 DEF Emitted
<1>2. /\ k + 1 <= MaxEvent /\ work[Agent][1].phase = "idle"
      /\ ids' = [ids EXCEPT ![k + 1] = seq_no + 1]
      /\ status' = [status EXCEPT ![k + 1] = "sent"] /\ logged' = logged
  BY <1>1 DEF Emit, sink
<1>3. k + 1 \in Promise!Body /\ seq_no + 1 \in Promise!Body /\ k + 1 \notin Emitted
  BY <1>2, DeliveryAssumption DEF Promise!Body, Invariant, Types
<1>4. status[k + 1] = "unsent"
  BY <1>3 DEF Emitted, Promise!Body, Body
<1>5. \A a \in Promise!Body : status[a] # "sent" /\ (a < k + 1 => status[a] # "unsent")
  <2>1. \A a \in Body : status[a] # "sent"
    BY <1>2 DEF Invariant, Emissions, Active
  <2>2. \A a \in Body : a < k + 1 => a \in Emitted
    BY DeliveryAssumption DEF Body
  <2> QED
    BY <2>1, <2>2 DEF Promise!Body, Body, Emitted
<1>6. Promise!Emit(k + 1, seq_no + 1)
  BY <1>2, <1>4, <1>5 DEF Promise!Emit
<1> QED
  BY <1>3, <1>6 DEF Promise!Next

LEMMA LoggedSilentlyImplements ==
    ASSUME Invariant, NEW n \in Asker, NEW t \in Slot, LoggedSilently(n, t)
    PROVE  Promise!Next \/ UNCHANGED Promise!vars
<1>1. work[n][t].phase = "ready" /\ TakeIn(work[n][t].event) /\ UNCHANGED events
  BY DEF LoggedSilently, AsksMonitor, Asks
<1> PICK b \in Emitted : b = work[n][t].event
  BY <1>1, IdTyped DEF Active
<1>2. ids' = ids /\ status' = status /\ (logged' = logged \/ logged' = logged \cup {b})
  BY <1>1 DEF events, TakeIn, sink
<1>3. b \in Promise!Body /\ status[b] # "unsent"
  BY DEF Emitted, Body, Promise!Body
<1>4. logged' = logged \cup {b} => Promise!Record(b)
  BY <1>2, <1>3 DEF Promise!Record
<1> QED
  BY <1>2, <1>3, <1>4 DEF Promise!Next, Promise!vars

LEMMA ShutdownImplements ==
    ASSUME Invariant, NEW n \in Nodes, Shutdown(n)
    PROVE  Promise!Next \/ UNCHANGED Promise!vars
<1>1. /\ ids' = ids /\ logged' = logged
      /\ status' = IF n = Agent /\ work[Agent][1].phase # "idle"
                   THEN [status EXCEPT ![work[Agent][1].event] = "lost"] ELSE status
  BY DEF Shutdown, Empty
<1>2. CASE n = Agent /\ work[Agent][1].phase # "idle"
  <2> PICK b : b = work[Agent][1].event
    OBVIOUS
  <2>1. Agent \in Asker /\ 1 \in Slot
    BY RouteShape, DeliveryAssumption DEF Slot
  <2>2. b \in Promise!Body /\ status[b] = "sent"
    BY <1>2, <2>1, IdTyped DEF Invariant, Slots, Active, Emitted, Body, Promise!Body
  <2>3. Promise!Abandon(b)
    BY <1>1, <1>2, <2>2 DEF Promise!Abandon
  <2> QED
    BY <2>2, <2>3 DEF Promise!Next
<1>3. CASE ~(n = Agent /\ work[Agent][1].phase # "idle")
  BY <1>1, <1>3 DEF Promise!vars
<1> QED
  BY <1>2, <1>3

LEMMA OtherwiseImplements ==
    ASSUME \/ UNCHANGED vars
           \/ \E n \in Asker, t \in Slot : TakenOn(n, t)
           \/ \E n \in Nodes : Pause(n) \/ Resume(n) \/ Reset(n) \/ Restart(n)
    PROVE  UNCHANGED Promise!vars
<1>1. ASSUME UNCHANGED vars PROVE UNCHANGED Promise!vars
  BY <1>1 DEF vars, events, sink, Promise!vars
<1>2. ASSUME NEW n \in Asker, NEW t \in Slot, TakenOn(n, t) PROVE UNCHANGED Promise!vars
  BY <1>2 DEF TakenOn, events, sink, Promise!vars
<1>3. ASSUME NEW n \in Nodes, Pause(n) \/ Resume(n) \/ Restart(n)
      PROVE  UNCHANGED Promise!vars
  BY <1>3 DEF Pause, Resume, Restart, events, sink, Promise!vars
<1>4. ASSUME NEW n \in Nodes, Reset(n) PROVE UNCHANGED Promise!vars
  BY <1>4 DEF Reset, Empty, Promise!vars
<1> QED
  BY <1>1, <1>2, <1>3, <1>4

\* The two routes together keep what EndToEnd promises the agent: an event is
\* acknowledged only when it, or an earlier one with its id, was logged; its fate is
\* never revised; and events go out one at a time.
THEOREM RouteRefinement == Spec => RoutePromise
<1>1. Init => Promise!Init
  BY DEF Init, Promise!Init, Body, Promise!Body
<1>2. Invariant /\ [Next]_vars => [Promise!Next]_(Promise!vars)
  <2> SUFFICES ASSUME Invariant, [Next]_vars
               PROVE  Promise!Next \/ UNCHANGED Promise!vars
    OBVIOUS
  <2>1. ASSUME NEW n \in Asker, NEW t \in Slot, Attempt(n, t)
        PROVE  Promise!Next \/ UNCHANGED Promise!vars
    BY <2>1, AttemptEnds, EndsImplements
  <2>2. ASSUME NEW n \in Asker, NEW t \in Slot, LoggedSilently(n, t)
        PROVE  Promise!Next \/ UNCHANGED Promise!vars
    BY <2>2, LoggedSilentlyImplements
  <2>3. ASSUME NEW n \in Nodes, Shutdown(n)
        PROVE  Promise!Next \/ UNCHANGED Promise!vars
    BY <2>3, ShutdownImplements
  <2> QED
    BY <2>1, <2>2, <2>3, EmitImplements, OtherwiseImplements, Steps
<1> QED
  BY <1>1, <1>2, InvariantAlways, PTL DEF Spec, RoutePromise, Promise!Spec

=============================================================================
