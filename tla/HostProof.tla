------------------------------ MODULE HostProof ------------------------------
(***************************************************************************)
(* The host shows exactly the fault that was ordered, and never a state    *)
(* that no fault or phase accounts for, for every bound on durations and   *)
(* on the number of injections.                                            *)
(***************************************************************************)
EXTENDS Host, TLAPS

\* The agent detects in an observed state the fault it was computed for, at any
\* tick (_apply_normal_state, _apply_fault_state and _detect_fault).
LEMMA ObservedIsDetected ==
    ASSUME NEW n \in Nat, NEW f \in FaultType \cup {None}
    PROVE  DetectFault(Observed(n, f)) = f
<1>1. Phase(n) \in 0..3
  BY DEF Phase
<1>2. None \notin FaultType
  BY NoneAssumption
<1> QED
  BY <1>1, <1>2 DEF Observed, NormalState, DetectFault, LatencyHighThreshold, FaultType

\* What the state shows is what was stored, and what was stored is what was
\* ordered, unless an injection was rejected; a fault ordered for no time has no
\* end, so that no tick can find it over.
Agreement ==
    /\ tick \in Nat
    /\ fault_type \in FaultType \cup {None}
    /\ fault_end \in Nat \cup {None}
    /\ ordered # None => ordered.type \in FaultType /\ ordered.timed \in BOOLEAN
    /\ ~void =>
          /\ DetectFault(state) = fault_type
          /\ ordered = None => fault_type = None
          /\ ordered # None => fault_type = ordered.type
          /\ ordered # None /\ ~ordered.timed => fault_end = None

LEMMA AgreementInit == Init => Agreement
<1> SUFFICES ASSUME Init PROVE Agreement
  OBVIOUS
<1>1. DetectFault(state) = None
  BY ObservedIsDetected DEF Init
<1> QED
  BY <1>1 DEF Init, Agreement

\* Each action keeps it: a command stores, shows and orders the same fault, and a
\* tick withdraws a fault only if it was ordered for a time.
LEMMA AgreementStep ==
    ASSUME Agreement, [Next]_vars PROVE Agreement'
<1> USE DEF Agreement
<1>1. ASSUME Tick PROVE Agreement'
  <2>1. tick' \in Nat
    BY <1>1 DEF Tick, TickModulus
  <2>2. fault_type' \in FaultType \cup {None} /\ fault_end' = fault_end /\ void' = void
    BY <1>1 DEF Tick
  <2>3. DetectFault(state') = fault_type'
    BY <1>1, <2>1, <2>2, ObservedIsDetected DEF Tick
  <2>4. ordered' # None => ordered' = ordered
    BY <1>1 DEF Tick
  <2>5. ASSUME ~void PROVE /\ ordered' = None => fault_type' = None
                           /\ ordered' # None => fault_type' = ordered'.type
    BY <1>1, <2>5, NoneAssumption DEF Tick, InForce
  <2> QED
    BY <2>1, <2>2, <2>3, <2>4, <2>5 DEF DetectFault
<1>2. ASSUME Elapse PROVE Agreement'
  BY <1>2, NoneAssumption DEF Elapse, fault, history, life, DetectFault
<1>3. ASSUME NEW f \in FaultType, SwitchOn(f) PROVE Agreement'
  <2>1. DetectFault(state') = f
    BY <1>3, ObservedIsDetected DEF SwitchOn
  <2>2. ordered' # None
    BY <1>3, NoneAssumption DEF SwitchOn
  <2>3. ordered'.type = f /\ ordered'.timed = FALSE
    BY <1>3 DEF SwitchOn, Order
  <2> QED
    BY <1>3, <2>1, <2>2, <2>3 DEF SwitchOn, EndOfManualFault, DetectFault
<1>4. ASSUME NEW f, SwitchOff(f) PROVE Agreement'
  <2>1. DetectFault(state') = None
    BY <1>4, ObservedIsDetected DEF SwitchOff
  <2> QED
    BY <1>4, <2>1 DEF SwitchOff, DetectFault
<1>5. ASSUME NEW f \in FaultType, NEW duration \in 0..MaxDuration, Inject(f, duration)
      PROVE  Agreement'
  <2>1. DetectFault(state') = f
    BY <1>5, ObservedIsDetected DEF Inject
  <2>2. ordered' # None
    BY <1>5, NoneAssumption DEF Inject
  <2>3. ordered'.type = f /\ ordered'.timed = TRUE
    BY <1>5 DEF Inject, Order
  <2>4. tick' = tick /\ fault_type' = f /\ fault_end' \in Nat
    BY <1>5, BoundAssumption DEF Inject
  <2> QED
    BY <2>1, <2>2, <2>3, <2>4 DEF DetectFault
<1>6. ASSUME NEW f \in FaultType, InjectInvalid(f) PROVE Agreement'
  BY <1>6 DEF InjectInvalid
<1>7. ASSUME ResetState PROVE Agreement'
  <2>1. DetectFault(state') = None
    BY <1>7, ObservedIsDetected DEF ResetState
  <2> QED
    BY <1>7, <2>1 DEF ResetState, DetectFault
<1>8. ASSUME UNCHANGED <<tick, fault, state, history>> PROVE Agreement'
  BY <1>8 DEF fault, history, DetectFault
<1> QED
  BY <1>1, <1>2, <1>3, <1>4, <1>5, <1>6, <1>7, <1>8
  DEF Next, Command, SetRunning, Reset, Shutdown, Restart, vars

-----------------------------------------------------------------------------
(* Type correctness.                                                       *)

\* The states a host can show.
States == {Observed(n, f) : n \in 0..3, f \in FaultType \cup {None}}

\* There are no others: the values depend on the phase of the tick only, so that no
\* number of ticks makes them grow (_apply_normal_state).
LEMMA ObservedType ==
    ASSUME NEW n \in Nat, NEW f \in FaultType \cup {None}
    PROVE  Observed(n, f) \in States
<1>1. Phase(n) \in 0..3 /\ Phase(Phase(n)) = Phase(n)
  BY DEF Phase
<1>2. NormalState(Phase(n)) = NormalState(n)
  BY <1>1 DEF NormalState
<1>3. Observed(Phase(n), f) = Observed(n, f)
  BY <1>2 DEF Observed
<1> QED
  BY <1>1, <1>3 DEF States

\* The faults that can have been ordered.
Orders == {Order(f, timed) : f \in FaultType, timed \in BOOLEAN}

LEMMA OrderType ==
    ASSUME NEW f \in FaultType, NEW timed \in BOOLEAN PROVE Order(f, timed) \in Orders
  BY DEF Orders

\* TypeOK with these sets by their names.
Types ==
    /\ stopped \in BOOLEAN /\ running \in BOOLEAN
    /\ tick \in 0..(TickModulus - 1)
    /\ fault_type \in FaultType \cup {None}
    /\ fault_end \in 0..MaxDuration \cup {None}
    /\ state \in States
    /\ ordered \in Orders \cup {None}
    /\ void \in BOOLEAN
    /\ injected \in 0..MaxInject

LEMMA ResetStateType ==
    ASSUME ResetState
    PROVE  /\ tick' \in 0..(TickModulus - 1)
           /\ fault_type' \in FaultType \cup {None}
           /\ fault_end' \in 0..MaxDuration \cup {None}
           /\ state' \in States
           /\ ordered' \in Orders \cup {None}
           /\ void' \in BOOLEAN
<1>1. state' \in States
  BY ObservedType DEF ResetState
<1>2. 0 \in 0..(TickModulus - 1)
  BY DEF TickModulus
<1> QED
  BY <1>1, <1>2 DEF ResetState

LEMMA TypesStep ==
    ASSUME Types, [Next]_vars PROVE Types'
<1> USE DEF Types
<1>0. tick \in Nat
  BY DEF TickModulus
<1>1. ASSUME Tick PROVE Types'
  <2>1. tick' \in 0..(TickModulus - 1) /\ tick' \in Nat
    BY <1>1 DEF Tick, TickModulus
  <2>2. fault_type' \in FaultType \cup {None}
    BY <1>1 DEF Tick
  <2>3. state' \in States
    BY <1>1, <2>1, <2>2, ObservedType DEF Tick
  <2>4. ordered' \in {ordered, None}
    BY <1>1 DEF Tick
  <2> QED
    BY <1>1, <2>1, <2>2, <2>3, <2>4 DEF Tick, life
<1>2. ASSUME Elapse PROVE Types'
  <2>1. fault_end' \in 0..MaxDuration
    BY <1>2, BoundAssumption DEF Elapse
  <2> QED
    BY <1>2, <2>1 DEF Elapse, life, history
<1>3. ASSUME NEW f \in FaultType, SwitchOn(f) PROVE Types'
  <2>1. state' \in States /\ ordered' \in Orders
    BY <1>0, <1>3, ObservedType, OrderType DEF SwitchOn
  <2> QED
    BY <1>3, <2>1 DEF SwitchOn, EndOfManualFault, life
<1>4. ASSUME NEW f, SwitchOff(f) PROVE Types'
  <2>1. state' \in States
    BY <1>0, <1>4, ObservedType DEF SwitchOff
  <2> QED
    BY <1>4, <2>1 DEF SwitchOff, life
<1>5. ASSUME NEW f \in FaultType, NEW duration \in 0..MaxDuration, Inject(f, duration)
      PROVE  Types'
  <2>1. injected' \in 0..MaxInject
    BY <1>5, BoundAssumption DEF Inject
  <2>2. state' \in States /\ ordered' \in Orders
    BY <1>0, <1>5, ObservedType, OrderType DEF Inject
  <2> QED
    BY <1>5, <2>1, <2>2 DEF Inject, life
<1>6. ASSUME NEW f \in FaultType, InjectInvalid(f) PROVE Types'
  BY <1>6 DEF InjectInvalid, life
<1>7. ASSUME NEW value \in BOOLEAN, SetRunning(value) PROVE Types'
  BY <1>7 DEF SetRunning, fault, history
<1>8. ASSUME Reset PROVE Types'
  BY <1>8, ResetStateType DEF Reset, life
<1>9. ASSUME Shutdown PROVE Types'
  <2>1. 0 \in 0..MaxInject
    BY BoundAssumption
  <2> QED
    BY <1>9, <2>1, ResetStateType DEF Shutdown
<1>10. ASSUME Restart PROVE Types'
  BY <1>10 DEF Restart, fault, history
<1>11. ASSUME UNCHANGED vars PROVE Types'
  BY <1>11 DEF vars, life, fault, history
<1> QED
  BY <1>1, <1>2, <1>3, <1>4, <1>5, <1>6, <1>7, <1>8, <1>9, <1>10, <1>11
  DEF Next, Command

\* Whatever the ticks and the commands, the host shows one of the sixteen states
\* made of four phases and no or one fault (host_simulator.py:145-165).
THEOREM HostTypeCorrect == Spec => []TypeOK
<1>1. Init => Types
  <2> SUFFICES ASSUME Init PROVE Types
    OBVIOUS
  <2>1. state \in States
    BY ObservedType DEF Init
  <2>2. 0 \in 0..MaxInject /\ 0 \in 0..(TickModulus - 1)
    BY BoundAssumption DEF TickModulus
  <2> QED
    BY <2>1, <2>2 DEF Init, Types
<1>2. Types => TypeOK
  BY DEF Types, TypeOK, States, Orders
<1> QED
  BY <1>1, <1>2, TypesStep, PTL DEF Spec

-----------------------------------------------------------------------------
\* What the agent detects is what was ordered, in every behaviour of the host
\* (host_simulator.py:44-73 and 166-177, local_agent.py:110-117).
THEOREM FaultsAsOrdered == Spec => []DetectedIsOrdered
<1>1. Init => Agreement
  BY AgreementInit
<1>2. Agreement /\ [Next]_vars => Agreement'
  BY AgreementStep
<1>3. Agreement => DetectedIsOrdered
  BY DEF Agreement, DetectedIsOrdered
<1> QED
  BY <1>1, <1>2, <1>3, PTL DEF Spec

=============================================================================
