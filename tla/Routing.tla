------------------------------- MODULE Routing -------------------------------
(***************************************************************************)
(* The pure part of nw_sim/routing.py: which hops exist, which route each  *)
(* hop belongs to, and how a failure is located from the trace an event    *)
(* carries.  A hop is a pair <<from, to>>; the code writes it "from->to".  *)
(* Timestamps, attempt numbers and phases of a trace entry are left out:   *)
(* nothing reads them back.                                                *)
(***************************************************************************)
EXTENDS Naturals, Sequences

CONSTANT None       \* Python's None

RouteIds == {"primary", "backup"}

Nodes == {"local-agent", "r1", "r2", "r1b", "r2b", "monitor"}

RelayNodes == {"r1", "r2", "r1b", "r2b"}

PrimaryEdges == {<<"local-agent", "r1">>, <<"r1", "r2">>, <<"r2", "monitor">>}

BackupEdges == {<<"local-agent", "r1b">>, <<"r1b", "r2b">>, <<"r2b", "monitor">>}

\* ALLOWED_ROUTE_EDGES.get((from, to))
RouteIdForEdge(from, to) ==
    IF <<from, to>> \in PrimaryEdges THEN "primary"
    ELSE IF <<from, to>> \in BackupEdges THEN "backup"
    ELSE None

\* make_route_trace_entry raises unless the edge exists and is of this route.
AllowedEntry(from, to, route) == RouteIdForEdge(from, to) = route /\ route # None

TraceEntry(from, to, route, result, reason) ==
    [from |-> from, to |-> to, route |-> route, result |-> result, reason |-> reason]

SuccessResults == {"acknowledged", "forwarded", "ok", "success"}

\* The places in the trace of the hops that failed.
FailedEntries(trace) == {n \in DOMAIN trace : trace[n].result \notin SuccessResults}

(***************************************************************************)
(* fault_localization_from_event: the last failed hop of the trace is the  *)
(* one blamed, and the node it leads to is the suspect.  hop is None when  *)
(* the trace is empty or holds no failure (failure_scope "unknown").       *)
(***************************************************************************)
FaultLocalization(trace) ==
    LET failed == FailedEntries(trace)
        last   == trace[CHOOSE n \in failed : \A k \in failed : k <= n]
    IN  IF failed = {}
        THEN [hop |-> None, suspect |-> None, reason |-> None]
        ELSE [hop     |-> <<last.from, last.to>>,
              suspect |-> last.to,
              reason  |-> IF last.reason # None THEN last.reason ELSE last.result]

=============================================================================
