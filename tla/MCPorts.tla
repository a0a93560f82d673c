------------------------------ MODULE MCPorts -------------------------------
(* Small instances of Ports for TLC. *)
EXTENDS Ports, TLC

DaemonFaults == {"daemon"}
AllFaults == {"daemon", "abort"}

\* Ids are numbers, not model values: only the actors and the ports are alike.
Symmetries ==
    Permutations(Requests) \cup Permutations(HostPorts)
        \cup Permutations(Calm) \cup Permutations(Servers \ Calm)

\* No guard and no property asks what the other servers' containers publish.
Visible ==
    <<life, alloc, nextId, [s \in Calm |-> published[s]], lost \cap Calm, work>>
=============================================================================
