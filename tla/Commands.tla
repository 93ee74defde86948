------------------------------- MODULE Commands -------------------------------
(***************************************************************************)
(* What a line typed by a user asks for: controller_client.build_requests, *)
(* which the terminal viewer, the external controller and the Web UI all   *)
(* use.  A line is a non-empty sequence of words, split and in lower case. *)
(* Texts and the parameters of faults and delays are left out, except for  *)
(* the errors they lead to.                                                *)
(***************************************************************************)
EXTENDS Naturals, Sequences, TLC

CONSTANT
    None,
    Numeral         \* the words that read as numbers

RelayName == {"r1", "r2", "r1b", "r2b"}

NodeIds == {"host-simulator", "local-agent", "monitor"} \cup RelayName

Aliases ==
    "host" :> "host-simulator" @@ "agent" :> "local-agent" @@ "relay-r1" :> "r1" @@
    "relay-r2" :> "r2" @@ "relay-r1b" :> "r1b" @@ "relay-r2b" :> "r2b"

ResolveTarget(word) ==
    LET target == IF word \in DOMAIN Aliases THEN Aliases[word] ELSE word
    IN  IF target \in NodeIds \cup {"all"} THEN target ELSE None

Word(line, i, default) == IF i <= Len(line) THEN line[i] ELSE default

-----------------------------------------------------------------------------
Control(command, target) == [kind |-> "control", command |-> command, target |-> target]
ResetAll == [kind |-> "reset_all", command |-> "reset", target |-> "all"]
Shutdown == [kind |-> "shutdown", command |-> "quit", target |-> "all"]

\* The line is answered with a text: help, or what is wrong with it.
Message == [kind |-> "message", command |-> "none", target |-> "none"]

ForNode(line, command) ==
    LET target == ResolveTarget(Word(line, 2, "all"))
    IN  IF target = None THEN Message ELSE Control(command, target)

ForReset(line) ==
    IF ForNode(line, "reset") = Control("reset", "all") THEN ResetAll
    ELSE ForNode(line, "reset")

\* Only one node at a time is killed, and only by name.
ForKill(line) ==
    LET target == ResolveTarget(Word(line, 2, "all"))
    IN  IF target \in {None, "all"} THEN Message ELSE Control("shutdown", target)

ForFault(line) ==
    CASE Word(line, 3, "on") \in {"on", "off"} -> Control("set_fault", "host-simulator")
      [] Word(line, 3, "on") \in Numeral -> Control("inject_fault", "host-simulator")
      [] OTHER -> Message

\* A relay nobody knows stands for r2; no relay at all stands for r1.
ForDelay(line) ==
    LET relay == Word(line, 2, "r1")
    IN  IF Len(line) > 2 /\ line[3] \notin Numeral THEN Message
        ELSE Control("set_delay", IF relay \in RelayName THEN relay ELSE "r2")

\* A line asks for one request at most.
BuildRequest(line) ==
    CASE line[1] \in {"quit", "exit"} -> Shutdown
      [] line[1] \in {"start", "pause"} -> ForNode(line, line[1])
      [] line[1] = "reset" -> ForReset(line)
      [] line[1] = "kill" -> ForKill(line)
      [] line[1] = "ackdrop" -> Control("drop_next_ack", "monitor")
      [] line[1] = "fault" -> ForFault(line)
      [] line[1] = "delay" -> ForDelay(line)
      [] OTHER -> Message

=============================================================================
