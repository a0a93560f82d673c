---------------------------- MODULE ServerLedger ----------------------------
(***************************************************************************)
(* What the panel promises of the servers table: a server appears, grows   *)
(* or shrinks, and disappears in single steps, each of which sees the      *)
(* booked total of its node, the node's settings and the owner's limit as  *)
(* they are at that very moment.  The handlers need many statements for    *)
(* each of these steps (Provisioning); this is what they must add up to.   *)
(***************************************************************************)
EXTENDS Capacity

VARIABLES row,    \* row[s]: the servers table
          node,   \* node[n]: the nodes table
          limit   \* limit[u]: users.server_limit

ledger == <<row, node, limit>>

Appear(s, u, n, d) ==
    /\ row[s] = NoRow
    /\ node[n] # NoNode
    /\ ~node[n].maintenance
    /\ node[n].public \/ u \in Admins
    /\ Fits(row, s, n, d, node[n].cap)
    /\ u \in Admins \/ UnderLimit(row, u, limit[u])
    /\ row' = [row EXCEPT ![s] = [owner |-> u, node |-> n, demand |-> d]]
    /\ UNCHANGED <<node, limit>>

\* A server keeps its owner and its node for life.
Resize(s, d) ==
    /\ row[s] # NoRow
    /\ Fits(row, s, row[s].node, d, node[row[s].node].cap)
    /\ row' = [row EXCEPT ![s].demand = d]
    /\ UNCHANGED <<node, limit>>

Disappear(s) ==
    /\ row[s] # NoRow
    /\ row' = [row EXCEPT ![s] = NoRow]
    /\ UNCHANGED <<node, limit>>

\* An administrator may set any capacity, also one below what is booked.
Reconfigure(n) ==
    /\ node[n] # NoNode
    /\ node'[n] \in Config
    /\ node' = [node EXCEPT ![n] = node'[n]]
    /\ UNCHANGED <<row, limit>>

\* A node goes only when no server stands on it.
RemoveNode(n) ==
    /\ node[n] # NoNode
    /\ Placed(row, n) = {}
    /\ node' = [node EXCEPT ![n] = NoNode]
    /\ UNCHANGED <<row, limit>>

ChangeLimit(u) ==
    /\ limit'[u] \in Nat \cup {NoLimit}
    /\ limit' = [limit EXCEPT ![u] = limit'[u]]
    /\ UNCHANGED <<row, node>>

LedgerInit ==
    /\ row \in [Servers -> Row \cup {NoRow}]
    /\ \A s \in Servers : row[s] # NoRow => node[row[s].node] # NoNode

LedgerNext ==
    \/ \E s \in Servers, u \in Users, n \in Nodes, d \in Demands : Appear(s, u, n, d)
    \/ \E s \in Servers, d \in Demands : Resize(s, d)
    \/ \E s \in Servers : Disappear(s)
    \/ \E n \in Nodes : Reconfigure(n) \/ RemoveNode(n)
    \/ \E u \in Users : ChangeLimit(u)

Ledger == LedgerInit /\ [][LedgerNext]_ledger
=============================================================================
