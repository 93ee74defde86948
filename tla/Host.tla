--------------------------------- MODULE Host ---------------------------------
(***************************************************************************)
(* The observed host (nw_sim/host_simulator.py, class HostSimulator, with  *)
(* what it inherits from nw_sim/base.py).  A loop ticks and computes the   *)
(* state the host reports; control commands inject faults, for a time or   *)
(* until they are switched off.                                            *)
(*                                                                         *)
(* No handler uses after an await what it read before: a tick, a command   *)
(* and a request for the state are one step each, in any order.  Requests  *)
(* change nothing but the traffic captures, which are left out.            *)
(***************************************************************************)
EXTENDS Integers

CONSTANTS
    None,           \* Python's None
    MaxDuration,    \* bound on the duration of a fault, in units of time
    MaxInject       \* bound on timed faults in the life of a process

INSTANCE Faults

ASSUME BoundAssumption == MaxDuration \in Nat /\ MaxInject \in Nat

\* The tick is counted modulo this, a multiple of the four phases.
TickModulus == 20

VARIABLES
    stopped, running,
    tick, fault_type,
    fault_end,      \* None, or the time left until then, 0 once it has passed
    state,
    ordered,        \* history: the fault the last accepted command asked for
    void,           \* history: an injection was rejected since, and not withdrawn
    injected        \* history: the timed faults accepted by this process

life == <<stopped, running>>
fault == <<fault_type, fault_end>>
history == <<ordered, void, injected>>
vars == <<life, tick, fault, state, history>>

Order(f, timed) == [type |-> f, timed |-> timed]

ASSUME NoneAssumption ==
    /\ None \notin FaultType \cup Nat
    /\ \A f \in FaultType, timed \in BOOLEAN : Order(f, timed) # None

-----------------------------------------------------------------------------
\* A slip: the values grow with every tick.
PhaseUnreduced(n) == n

Phase(n) == n % 4

\* _apply_normal_state
NormalState(n) ==
    [cpu |-> 18 + 4 * Phase(n), memory |-> 42 + 3 * Phase(n),
     service |-> "UP", latency |-> 24 + 6 * Phase(n)]

\* _apply_fault_state, and _apply_normal_state where there is no fault.
Observed(n, f) ==
    [NormalState(n) EXCEPT !.cpu     = IF f = "CPU_SPIKE" THEN 96 ELSE @,
                           !.service = IF f = "SERVICE_DOWN" THEN "DOWN" ELSE @,
                           !.latency = IF f = "LATENCY_HIGH" THEN 260 ELSE @]

TypeOK ==
    /\ stopped \in BOOLEAN /\ running \in BOOLEAN
    /\ tick \in 0..(TickModulus - 1)
    /\ fault_type \in FaultType \cup {None}
    /\ fault_end \in 0..MaxDuration \cup {None}
    /\ state \in {Observed(n, f) : n \in 0..3, f \in FaultType \cup {None}}
    /\ ordered \in {Order(f, timed) : f \in FaultType, timed \in BOOLEAN} \cup {None}
    /\ void \in BOOLEAN
    /\ injected \in 0..MaxInject

ResetState ==
    /\ tick' = 0
    /\ fault_type' = None
    /\ fault_end' = None
    /\ state' = Observed(0, None)
    /\ ordered' = None
    /\ void' = FALSE

Init ==
    /\ stopped = FALSE
    /\ running = TRUE
    /\ tick = 0
    /\ fault_type = None
    /\ fault_end = None
    /\ state = Observed(0, None)
    /\ ordered = None
    /\ void = FALSE
    /\ injected = 0

-----------------------------------------------------------------------------
(* The loop (_run_loop)                                                    *)

\* A slip: the end of a fault is not looked at.
InForceWhateverTheTime == fault_type # None

InForce == fault_type # None /\ (fault_end = None \/ fault_end > 0)

Tick ==
    /\ ~stopped /\ running
    /\ tick' = (tick + 1) % TickModulus
    /\ fault_type' = IF InForce THEN fault_type ELSE None
    /\ state' = Observed(tick', fault_type')
    /\ ordered' = IF ~InForce /\ ordered # None /\ ordered.timed THEN None ELSE ordered
    /\ UNCHANGED <<life, fault_end, void, injected>>

\* Time passes, for a paused host too.
Elapse ==
    /\ fault_end # None /\ fault_end > 0
    /\ fault_end' = fault_end - 1
    /\ UNCHANGED <<life, tick, fault_type, state, history>>

-----------------------------------------------------------------------------
(* Control commands (on_control) and the life of the process               *)

\* A slip: the end of a fault injected earlier is kept.
EndAsBefore == fault_end

EndOfManualFault == None

\* set_fault, enabled
SwitchOn(f) ==
    /\ ~stopped
    /\ fault_type' = f
    /\ fault_end' = EndOfManualFault
    /\ state' = Observed(tick, f)
    /\ ordered' = Order(f, FALSE)
    /\ void' = FALSE
    /\ UNCHANGED <<life, tick, injected>>

\* set_fault, not enabled: only for the fault there is, or for "all".
SwitchOff(f) ==
    /\ ~stopped
    /\ f \in {fault_type, "all"}
    /\ fault_type' = None
    /\ fault_end' = None
    /\ state' = Observed(tick, None)
    /\ ordered' = None
    /\ void' = FALSE
    /\ UNCHANGED <<life, tick, injected>>

\* inject_fault; a duration that is not positive has passed already.
Inject(f, duration) ==
    /\ ~stopped
    /\ injected < MaxInject
    /\ fault_type' = f
    /\ fault_end' = duration
    /\ state' = Observed(tick, f)
    /\ ordered' = Order(f, TRUE)
    /\ void' = FALSE
    /\ injected' = injected + 1
    /\ UNCHANGED <<life, tick>>

\* inject_fault with a duration that is no number: it is rejected after the type
\* was stored.
InjectInvalid(f) ==
    /\ ~stopped
    /\ fault_type' = f
    /\ void' = TRUE
    /\ UNCHANGED <<life, tick, fault_end, state, ordered, injected>>

SetRunning(value) ==
    /\ ~stopped
    /\ running' = value
    /\ UNCHANGED <<stopped, tick, fault, state, history>>

Reset ==
    /\ ~stopped
    /\ ResetState
    /\ UNCHANGED <<life, injected>>

Shutdown ==
    /\ ~stopped
    /\ stopped' = TRUE
    /\ running' = TRUE
    /\ ResetState
    /\ injected' = 0

Restart ==
    /\ stopped
    /\ stopped' = FALSE
    /\ UNCHANGED <<running, tick, fault, state, history>>

-----------------------------------------------------------------------------
Command ==
    \/ \E f \in FaultType :
          \/ SwitchOn(f) \/ InjectInvalid(f)
          \/ \E duration \in 0..MaxDuration : Inject(f, duration)
    \/ \E f \in FaultType \cup {"all"} : SwitchOff(f)
    \/ \E value \in BOOLEAN : SetRunning(value)
    \/ Reset \/ Shutdown \/ Restart

Next == Tick \/ Elapse \/ Command

Spec == Init /\ [][Next]_vars

\* The loop wakes after each sleep of TICK_SECONDS, and the clock advances.
FairSpec == Spec /\ WF_vars(Tick) /\ WF_vars(Elapse)

-----------------------------------------------------------------------------
\* What the agent detects in the state the host reports is exactly the fault the
\* last accepted command asked for: an injected fault lasts until a tick finds it
\* over, one switched on until it is switched off, whatever was injected before,
\* one fault replaces another at once, and the normal variation of the values
\* never looks like a fault (on_control, _run_loop and LocalAgent._detect_fault).
DetectedIsOrdered ==
    ~void => DetectFault(state) = (IF ordered = None THEN None ELSE ordered.type)

\* A fault injected for a time ends, is replaced or withdrawn, or the host does not
\* run: no interleaving of ticks and commands makes it stay.
TimedFaultEnds ==
    ordered # None /\ ordered.timed ~>
        ordered = None \/ ~ordered.timed \/ ~running

-----------------------------------------------------------------------------
(* A claim the code does not keep.                                         *)

\* A command that is answered with "error in the duration of the fault"
\* (host_simulator.py:69) starts no fault.
RejectedStartsNothing ==
    DetectFault(state) # None => ordered # None /\ ordered.type = DetectFault(state)

=============================================================================
