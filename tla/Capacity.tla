------------------------------ MODULE Capacity ------------------------------
(***************************************************************************)
(* What servers book on nodes and what owners may hold: the arithmetic of  *)
(* the capacity and limit checks in ServerHandler.Create and .Update.      *)
(* A table is a function, with NoRow or NoNode where it has no row.        *)
(***************************************************************************)
EXTENDS Integers, FiniteSets

CONSTANTS Nodes,      \* ids of nodes the panel manages
          Users,      \* accounts
          Admins,     \* accounts that skip the limit and may use private nodes
          Servers,    \* server uuids
          Resources,  \* what a server books on its node: memory, disk, cpu
          Demands,    \* what a request may ask for, per resource (0 = nil cpu)
          NoRow,      \* no row of the servers table has this uuid
          NoNode,     \* no row of the nodes table has this id
          Unknown,    \* total_cpu_cores IS NULL: not reported yet
          NoLimit     \* users.server_limit IS NULL

Row == [owner : Users, node : Nodes, demand : Demands]

\* A capacity is what effectiveCapacity returns, or 100 per reported core.
Capacities == Nat \cup {Unknown}

Config == [public : BOOLEAN, maintenance : BOOLEAN, cap : [Resources -> Capacities]]

ASSUME CapacityAssumption ==
    /\ IsFiniteSet(Servers)
    /\ Admins \subseteq Users
    /\ Demands \subseteq [Resources -> Nat]
    /\ NoRow \notin Row
    /\ NoNode \notin Config
    /\ Unknown \notin Nat
    /\ NoLimit \notin Nat

Placed(rows, n) == {s \in Servers : rows[s] # NoRow /\ rows[s].node = n}

\* One element for each unit of resource k that a server of S books on node n.
Units(rows, n, k, S) ==
    UNION {{s} \X (1 .. rows[s].demand[k]) : s \in S \cap Placed(rows, n)}

\* SELECT COALESCE(SUM(k), 0) FROM servers WHERE node_id = n, taken over S.
Booked(rows, n, k, S) == Cardinality(Units(rows, n, k, S))

\* The three comparisons made for server s asking for demand d.
Fits(rows, s, n, d, cap) ==
    \A k \in Resources :
        \/ d[k] = 0
        \/ cap[k] = Unknown
        \/ Booked(rows, n, k, Servers \ {s}) + d[k] <= cap[k]

Owned(rows, u) == {s \in Servers : rows[s] # NoRow /\ rows[s].owner = u}

UnderLimit(rows, u, l) == l = NoLimit \/ Cardinality(Owned(rows, u)) < l
=============================================================================
