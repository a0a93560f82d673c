--------------------------- MODULE MCProvisioning ---------------------------
(***************************************************************************)
(* Small instances of Provisioning for TLC.  Memory and disk are always    *)
(* asked for; cpu is optional (0) and its capacity unknown until the node  *)
(* reports it; disk is the one resource no container enforces.             *)
(***************************************************************************)
EXTENDS Provisioning, TLC

MCResources == {"memory", "disk", "cpu"}
MCEnforced == {"memory", "cpu"}
MCReported == {"cpu"}

Amounts(m, d, c) ==
    [k \in MCResources |-> CASE k = "memory" -> m [] k = "disk" -> d [] k = "cpu" -> c]

Small == Amounts(1, 1, 0)
Large == Amounts(2, 1, 1)
SmallOrLarge == {Small, Large}
OnlySmall == {Small}

Tight == [public |-> TRUE, maintenance |-> FALSE, cap |-> Amounts(2, 2, Unknown)]
Tighter == [public |-> FALSE, maintenance |-> FALSE, cap |-> Amounts(1, 2, Unknown)]
Closed == [public |-> TRUE, maintenance |-> TRUE, cap |-> Amounts(2, 2, Unknown)]
TightOrTighter == {Tight, Tighter}
TightOrClosed == {Tight, Closed}

OneCore == {1}
OneOrNone == {1, NoLimit}
Unlimited == {NoLimit}

AllFaults == {"abort", "daemon"}

Symmetries ==
    Permutations(Requests) \cup Permutations(Servers \ Founders) \cup Permutations(Founders)
=============================================================================
