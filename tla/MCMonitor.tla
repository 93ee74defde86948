------------------------------ MODULE MCMonitor ------------------------------
(* Instances of Monitor for TLC.                                           *)
EXTENDS Monitor, TLC

\* Connections, hosts and contents of events are interchangeable.
Symmetry == Permutations(Task) \cup Permutations(Host) \cup Permutations(Kind)

=============================================================================
