------------------------------- MODULE MCAgent -------------------------------
(* Instances of Agent for TLC.                                             *)
EXTENDS Agent

State(cpu, memory, service, latency) ==
    [cpu |-> cpu, memory |-> memory, service |-> service, latency |-> latency]

\* Two healthy states, two states of one fault, a second fault, and a state with
\* both, in which the first one hides the other.
MCHostState ==
    { State(30, 40, "UP", 20), State(31, 40, "UP", 20),
      State(95, 40, "UP", 20), State(96, 40, "UP", 20),
      State(30, 40, "DOWN", 20), State(95, 40, "DOWN", 200) }

=============================================================================
