--------------------------- MODULE MCServerPower ----------------------------
(* Small instances of ServerPower for TLC. *)
EXTENDS ServerPower, TLC

AllActions == {"start", "stop", "restart"}
OnlyStart == {"start"}
AllFaults == {"daemon", "crash", "inspect"}

Symmetries == Permutations(Requests) \cup Permutations(Schedules) \cup Permutations(Watchers)
=============================================================================
