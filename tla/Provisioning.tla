---------------------------- MODULE Provisioning ----------------------------
(***************************************************************************)
(* Creating, changing and deleting servers: the handlers Create, Update,   *)
(* Delete and rebuildServerContainer of server_handler.go, applyPorts of   *)
(* server_allocation_handler.go, and the administrators' changes to the    *)
(* nodes and users tables they race with.                                  *)
(*                                                                         *)
(* A request moves through one statement at a time (pc).  Row locks taken  *)
(* with FOR UPDATE belong to the transaction that took them and end with   *)
(* it, so who holds a lock follows from how far each request has come.     *)
(* A row that is inserted and not committed is seen by nobody.             *)
(***************************************************************************)
EXTENDS Capacity

CONSTANTS Requests,     \* HTTP requests in flight, each used once
          Enforced,     \* the resources a container is limited by (not disk)
          Reported,     \* the capacities a node reports itself (cpu)
          Settings,     \* what an administrator may save for a node
          CoreCounts,   \* what a node may report
          Limits,       \* what an administrator may save as server_limit
          Founders,     \* servers that may exist before the requests arrive
          Faults,       \* "abort": requests break off, "daemon": calls fail
          NoCall,       \* the request has not arrived
          NoContainer   \* the daemon has no container of this uuid

VARIABLES pc,         \* pc[r]: the next statement of request r
          call,       \* call[r]: what r asks for and has read
          row,        \* row[s]: the servers table, as committed
          node,       \* node[n]: the nodes table, as committed
          limit,      \* limit[u]: users.server_limit, as committed
          container   \* container[s]: the limits of the daemon's container

vars == <<pc, call, row, node, limit, container>>

Call == [user : Users, server : Servers, node : Nodes, demand : Demands]

Shape == [Enforced -> Nat]

CreateSteps == {"c_lock_node", "c_capacity", "c_lock_user", "c_count", "c_daemon", "c_commit"}
UpdateSteps == {"u_lock_server", "u_lock_node", "u_capacity", "u_commit"}
DeleteSteps == {"d_daemon", "d_row"}
Steps == CreateSteps \cup UpdateSteps \cup DeleteSteps \cup {"rebuild", "idle", "done"}

ASSUME ProvisioningAssumption ==
    /\ Enforced \subseteq Resources
    /\ Reported \subseteq Resources
    /\ Settings \subseteq Config
    /\ CoreCounts \subseteq Nat
    /\ Limits \subseteq Nat \cup {NoLimit}
    /\ Founders \subseteq Servers
    /\ NoCall \notin Call
    /\ NoContainer \notin Shape

\* The part of a demand the daemon makes a container of.
Applied(d) == [k \in Enforced |-> d[k]]

HoldsServer(r, s) ==
    /\ pc[r] \in {"u_lock_node", "u_capacity", "u_commit"}
    /\ call[r].server = s

HoldsNodeUnordered(r, n) ==
    /\ pc[r] \in {"c_capacity", "c_lock_user", "c_count", "c_daemon", "c_commit",
                  "u_capacity", "u_commit", "d_row"}
    /\ call[r].node = n

HoldsNode(r, n) ==
    /\ pc[r] \in {"c_capacity", "c_lock_user", "c_count", "c_daemon", "c_commit",
                  "u_capacity", "u_commit"}
    /\ call[r].node = n

\* Only an owner with a limit locks its users row.
HoldsUser(r, u) ==
    /\ pc[r] \in {"c_count", "c_daemon", "c_commit"}
    /\ call[r].user = u
    /\ u \notin Admins

ServerLocked(s) == \E r \in Requests : HoldsServer(r, s)
NodeLocked(n) == \E r \in Requests : HoldsNode(r, n)
UserLocked(u) == \E r \in Requests : HoldsUser(r, u)

MayEdit(u, s) == row[s] # NoRow /\ (u \in Admins \/ row[s].owner = u)

Goto(r, step) == pc' = [pc EXCEPT ![r] = step]

Arrive(r, c, step) ==
    /\ pc[r] = "idle"
    /\ call' = [call EXCEPT ![r] = c]
    /\ Goto(r, step)
    /\ UNCHANGED <<row, node, limit, container>>

-----------------------------------------------------------------------------
(* Create *)

\* uuid.New: nobody has used this uuid before.
Fresh(s) ==
    /\ row[s] = NoRow
    /\ container[s] = NoContainer
    /\ \A r \in Requests : call[r] # NoCall => call[r].server # s

CreateBegin(r) ==
    \E s \in Servers, u \in Users, n \in Nodes, d \in Demands :
        /\ Fresh(s)
        /\ Arrive(r, [user |-> u, server |-> s, node |-> n, demand |-> d], "c_lock_node")

\* The node takes new servers, and takes them from this user.
Accepts(n, u) ==
    /\ node[n] # NoNode
    /\ ~node[n].maintenance
    /\ node[n].public \/ u \in Admins

CreateLockNodeWithoutWaiting(r) ==
    /\ pc[r] = "c_lock_node"
    /\ Goto(r, IF Accepts(call[r].node, call[r].user) THEN "c_capacity" ELSE "done")
    /\ UNCHANGED <<call, row, node, limit, container>>

\* SELECT ... FROM nodes ... FOR UPDATE, then the maintenance and public checks.
CreateLockNode(r) ==
    /\ pc[r] = "c_lock_node"
    /\ ~NodeLocked(call[r].node)
    /\ Goto(r, IF Accepts(call[r].node, call[r].user) THEN "c_capacity" ELSE "done")
    /\ UNCHANGED <<call, row, node, limit, container>>

CreateCheckCapacity(r) ==
    LET c == call[r] IN
    /\ pc[r] = "c_capacity"
    /\ Goto(r, IF ~Fits(row, c.server, c.node, c.demand, node[c.node].cap) THEN "done"
               ELSE IF c.user \in Admins THEN "c_daemon" ELSE "c_lock_user")
    /\ UNCHANGED <<call, row, node, limit, container>>

CreateLockUserWithoutWaiting(r) ==
    /\ pc[r] = "c_lock_user"
    /\ Goto(r, "c_count")
    /\ UNCHANGED <<call, row, node, limit, container>>

\* SELECT server_limit FROM users ... FOR UPDATE
CreateLockUser(r) ==
    /\ pc[r] = "c_lock_user"
    /\ ~UserLocked(call[r].user)
    /\ Goto(r, "c_count")
    /\ UNCHANGED <<call, row, node, limit, container>>

CreateCountServers(r) ==
    LET u == call[r].user IN
    /\ pc[r] = "c_count"
    /\ Goto(r, IF UnderLimit(row, u, limit[u]) THEN "c_daemon" ELSE "done")
    /\ UNCHANGED <<call, row, node, limit, container>>

CreateDaemonUnchecked(r) ==
    LET c == call[r] IN
    /\ pc[r] = "c_daemon"
    /\ \/ container' = [container EXCEPT ![c.server] = Applied(c.demand)]
       \/ UNCHANGED container
    /\ Goto(r, "c_commit")
    /\ UNCHANGED <<call, row, node, limit>>

CreateDaemonWholeDemand(r) ==
    LET c == call[r] IN
    /\ pc[r] = "c_daemon"
    /\ container' = [container EXCEPT ![c.server] = c.demand]
    /\ Goto(r, "c_commit")
    /\ UNCHANGED <<call, row, node, limit>>

\* INSERT and the allocation claim, both still private to the transaction, and
\* the daemon call inside it.  The claim or the daemon may refuse; a reply that
\* is lost rolls the row back although the container exists.
CreateDaemon(r) ==
    LET c == call[r]
        Made == [container EXCEPT ![c.server] = Applied(c.demand)] IN
    /\ pc[r] = "c_daemon"
    /\ \/ container' = Made /\ Goto(r, "c_commit")
       \/ container' = container /\ Goto(r, "done")
       \/ "daemon" \in Faults /\ container' = Made /\ Goto(r, "done")
    /\ UNCHANGED <<call, row, node, limit>>

CreateCommit(r) ==
    LET c == call[r] IN
    /\ pc[r] = "c_commit"
    /\ row' = [row EXCEPT ![c.server] =
                  [owner |-> c.user, node |-> c.node, demand |-> c.demand]]
    /\ Goto(r, "done")
    /\ UNCHANGED <<call, node, limit, container>>

-----------------------------------------------------------------------------
(* Update *)

UpdateBegin(r) ==
    \E s \in Servers, u \in Users, d \in Demands :
        /\ row[s] # NoRow
        /\ Arrive(r, [user |-> u, server |-> s, node |-> row[s].node, demand |-> d],
                  "u_lock_server")

\* SELECT ... FROM servers WHERE uuid = $1 FOR UPDATE, then the ownership check.
\* The row may be gone by the time the lock is free.
UpdateLockServer(r) ==
    LET c == call[r] IN
    /\ pc[r] = "u_lock_server"
    /\ ~ServerLocked(c.server)
    /\ IF MayEdit(c.user, c.server)
       THEN /\ call' = [call EXCEPT ![r].node = row[c.server].node]
            /\ Goto(r, "u_lock_node")
       ELSE /\ call' = call
            /\ Goto(r, "done")
    /\ UNCHANGED <<row, node, limit, container>>

UpdateLockNodeWithoutWaiting(r) ==
    /\ pc[r] = "u_lock_node"
    /\ Goto(r, "u_capacity")
    /\ UNCHANGED <<call, row, node, limit, container>>

UpdateLockNode(r) ==
    /\ pc[r] = "u_lock_node"
    /\ ~NodeLocked(call[r].node)
    /\ Goto(r, "u_capacity")
    /\ UNCHANGED <<call, row, node, limit, container>>

UpdateCheckCapacity(r) ==
    LET c == call[r] IN
    /\ pc[r] = "u_capacity"
    /\ Goto(r, IF Fits(row, c.server, c.node, c.demand, node[c.node].cap)
               THEN "u_commit" ELSE "done")
    /\ UNCHANGED <<call, row, node, limit, container>>

\* The container is rebuilt after the commit, outside both locks, and only when
\* a limit the container enforces has changed.
UpdateCommit(r) ==
    LET c == call[r] IN
    /\ pc[r] = "u_commit"
    /\ row' = [row EXCEPT ![c.server].demand = c.demand]
    /\ Goto(r, IF Applied(c.demand) = Applied(row[c.server].demand)
               THEN "done" ELSE "rebuild")
    /\ UNCHANGED <<call, node, limit, container>>

\* RebuildServer with the limits this request knows of.  The daemon makes the
\* container if there was none, keeps the old one on most failures, and loses
\* it when it cannot put it back.
Rebuild(r) ==
    LET c == call[r] IN
    /\ pc[r] = "rebuild"
    /\ \/ container' = [container EXCEPT ![c.server] = Applied(c.demand)]
       \/ "daemon" \in Faults /\ container' = container
       \/ "daemon" \in Faults /\ container' = [container EXCEPT ![c.server] = NoContainer]
    /\ Goto(r, "done")
    /\ UNCHANGED <<call, row, node, limit>>

\* recreateMissingContainer and applyPorts read the row without a lock and
\* rebuild from what they read.
ReapplyBegin(r) ==
    \E s \in Servers :
        /\ row[s] # NoRow
        /\ Arrive(r, [user |-> row[s].owner, server |-> s, node |-> row[s].node,
                      demand |-> row[s].demand], "rebuild")

-----------------------------------------------------------------------------
(* Delete *)

DeleteBegin(r) ==
    \E s \in Servers, u \in Users :
        /\ MayEdit(u, s)
        /\ Arrive(r, [user |-> u, server |-> s, node |-> row[s].node,
                      demand |-> row[s].demand], "d_daemon")

\* A daemon that fails may still have removed the container.  An administrator
\* may ask for the row to go in spite of the failure (?force=true).
DeleteDaemon(r) ==
    LET c == call[r]
        Gone == [container EXCEPT ![c.server] = NoContainer] IN
    /\ pc[r] = "d_daemon"
    /\ \/ container' = Gone /\ Goto(r, "d_row")
       \/ /\ "daemon" \in Faults
          /\ container' \in {container, Gone}
          /\ \/ Goto(r, "done")
             \/ c.user \in Admins /\ Goto(r, "d_row")
    /\ UNCHANGED <<call, row, node, limit>>

\* DELETE FROM servers waits for an update that has the row locked.
DeleteRow(r) ==
    LET s == call[r].server IN
    /\ pc[r] = "d_row"
    /\ ~ServerLocked(s)
    /\ row' = [row EXCEPT ![s] = NoRow]
    /\ Goto(r, "done")
    /\ UNCHANGED <<call, node, limit, container>>

\* A lost connection, a query that fails, or a crash of the panel: the
\* transaction is rolled back and the remaining statements never run.
Abort(r) ==
    /\ "abort" \in Faults
    /\ pc[r] \notin {"idle", "done"}
    /\ Goto(r, "done")
    /\ UNCHANGED <<call, row, node, limit, container>>

-----------------------------------------------------------------------------
(* Administrators and the health check *)

NodeUpdateWithoutWaiting(n) ==
    /\ node[n] # NoNode
    /\ \E c \in Settings : node' = [node EXCEPT ![n] = c]
    /\ UNCHANGED <<pc, call, row, limit, container>>

\* UPDATE nodes waits for the node's lock; it leaves total_cpu_cores alone.
NodeUpdate(n) ==
    /\ node[n] # NoNode
    /\ ~NodeLocked(n)
    /\ \E c \in Settings :
          node' = [node EXCEPT ![n] =
             [c EXCEPT !.cap = [k \in Resources |->
                 IF k \in Reported THEN node[n].cap[k] ELSE c.cap[k]]]]
    /\ UNCHANGED <<pc, call, row, limit, container>>

NodeReport(n) ==
    /\ node[n] # NoNode
    /\ ~NodeLocked(n)
    /\ \E k \in Reported, v \in CoreCounts : node' = [node EXCEPT ![n].cap[k] = v]
    /\ UNCHANGED <<pc, call, row, limit, container>>

NodeDeleteUncounted(n) ==
    /\ node[n] # NoNode
    /\ ~NodeLocked(n)
    /\ node' = [node EXCEPT ![n] = NoNode]
    /\ UNCHANGED <<pc, call, row, limit, container>>

\* The count is repeated by the foreign key when the DELETE has its lock.
NodeDelete(n) ==
    /\ node[n] # NoNode
    /\ ~NodeLocked(n)
    /\ Placed(row, n) = {}
    /\ node' = [node EXCEPT ![n] = NoNode]
    /\ UNCHANGED <<pc, call, row, limit, container>>

UserUpdate(u) ==
    /\ ~UserLocked(u)
    /\ \E l \in Limits : limit' = [limit EXCEPT ![u] = l]
    /\ UNCHANGED <<pc, call, row, node, container>>

-----------------------------------------------------------------------------

Init ==
    /\ pc = [r \in Requests |-> "idle"]
    /\ call = [r \in Requests |-> NoCall]
    /\ node \in [Nodes -> Settings]
    /\ limit \in [Users -> Limits]
    /\ row \in [Servers -> Row \cup {NoRow}]
    /\ \A s \in Servers \ Founders : row[s] = NoRow
    /\ container = [s \in Servers |->
                       IF row[s] = NoRow THEN NoContainer ELSE Applied(row[s].demand)]

Arrival(r) == CreateBegin(r) \/ UpdateBegin(r) \/ DeleteBegin(r) \/ ReapplyBegin(r)

Progress(r) ==
    \/ CreateLockNode(r) \/ CreateCheckCapacity(r) \/ CreateLockUser(r)
    \/ CreateCountServers(r) \/ CreateDaemon(r) \/ CreateCommit(r)
    \/ UpdateLockServer(r) \/ UpdateLockNode(r) \/ UpdateCheckCapacity(r)
    \/ UpdateCommit(r) \/ Rebuild(r)
    \/ DeleteDaemon(r) \/ DeleteRow(r)

Administration ==
    \/ \E n \in Nodes : NodeUpdate(n) \/ NodeReport(n) \/ NodeDelete(n)
    \/ \E u \in Users : UserUpdate(u)

Next ==
    \/ \E r \in Requests : Arrival(r) \/ Progress(r) \/ Abort(r)
    \/ Administration

Spec == Init /\ [][Next]_vars

\* Every statement and daemon call ends: the pool hands out connections, the
\* database queues lock waiters, and http.Client has a timeout.
FairSpec == Spec /\ \A r \in Requests : WF_vars(Progress(r))

-----------------------------------------------------------------------------
(* Properties *)

\* Every variable stays in its domain.
TypeOK ==
    /\ pc \in [Requests -> Steps]
    /\ call \in [Requests -> Call \cup {NoCall}]
    /\ \A r \in Requests : pc[r] # "idle" => call[r] # NoCall
    /\ row \in [Servers -> Row \cup {NoRow}]
    /\ node \in [Nodes -> Config \cup {NoNode}]
    /\ limit \in [Users -> Nat \cup {NoLimit}]
    /\ container \in [Servers -> Shape \cup {NoContainer}]

\* A server never stands on a node that is gone, however node deletion, server
\* creation and their locks interleave (NodeHandler.Delete, ServerHandler.Create).
NodeStands == \A s \in Servers : row[s] # NoRow => node[row[s].node] # NoNode

\* When a row appears or changes, its node has room for all it now books, with
\* the capacity the node has at that moment: concurrent creates and updates do
\* not spend the same free memory, disk or cpu twice.
HasRoom(rows, n, d, cap) ==
    \A k \in Resources :
        d[k] = 0 \/ cap[k] = Unknown \/ Booked(rows, n, k, Servers) <= cap[k]

CapacityRespected ==
    [][\A s \in Servers :
          row'[s] # row[s] /\ row'[s] # NoRow =>
             HasRoom(row', row'[s].node, row'[s].demand, node'[row'[s].node].cap)]_vars

\* A row that appears leaves its owner within server_limit, also when the owner
\* creates servers on several nodes at once or the limit is changed meanwhile.
LimitRespected ==
    [][\A s \in Servers :
          row[s] = NoRow /\ row'[s] # NoRow /\ row'[s].owner \notin Admins =>
             LET u == row'[s].owner IN
             limit'[u] = NoLimit \/ Cardinality(Owned(row', u)) <= limit'[u]]_vars

\* What a request has checked under its locks is not stale while it holds them:
\* the node still takes the server, has room for it, and the owner is below the
\* limit, up to the commit.
ChecksStillHold ==
    \A r \in Requests :
        LET c == call[r] IN
        /\ pc[r] \in CreateSteps \ {"c_lock_node"} => Accepts(c.node, c.user)
        /\ pc[r] \in {"c_lock_user", "c_count", "c_daemon", "c_commit", "u_commit"} =>
              Fits(row, c.server, c.node, c.demand, node[c.node].cap)
        /\ pc[r] \in {"c_daemon", "c_commit"} /\ c.user \notin Admins =>
              UnderLimit(row, c.user, limit[c.user])

\* A row becomes visible only when the daemon has a container with its limits.
BornWithContainer ==
    [][\A s \in Servers :
          row[s] = NoRow /\ row'[s] # NoRow =>
             container'[s] = Applied(row'[s].demand)]_vars

\* No request waits for ever: the lock order server, node, user has no cycle
\* and every lock is released.
RequestsFinish == \A r \in Requests : pc[r] # "idle" ~> pc[r] = "done"

\* Request r stands at a statement that waits for a row q has locked.
WaitsFor(r, q) ==
    LET c == call[r] IN
    \/ pc[r] \in {"u_lock_server", "d_row"} /\ HoldsServer(q, c.server)
    \/ pc[r] \in {"c_lock_node", "u_lock_node"} /\ HoldsNode(q, c.node)
    \/ pc[r] = "c_lock_user" /\ HoldsUser(q, c.user)

\* However Create, Update and Delete meet on the same rows, no group of requests
\* waits only for its own members: PostgreSQL never has a deadlock to break.
NoLockCycle ==
    \A group \in (SUBSET Requests) \ {{}} :
        \E r \in group : \A q \in group : ~WaitsFor(r, q)

\* The handlers together do what the ledger promises, step by step.
L == INSTANCE ServerLedger
ImplementsLedger == L!Ledger

-----------------------------------------------------------------------------
(* The inductive invariant: why the checks still hold *)

\* A row lock has one holder.
LocksExclusive ==
    \A r, q \in Requests :
        r # q =>
            /\ \A s \in Servers : ~(HoldsServer(r, s) /\ HoldsServer(q, s))
            /\ \A n \in Nodes : ~(HoldsNode(r, n) /\ HoldsNode(q, n))
            /\ \A u \in Users : ~(HoldsUser(r, u) /\ HoldsUser(q, u))

\* Nobody else knows the uuid of a server whose row is not committed.
CreationsPrivate ==
    \A r \in Requests :
        pc[r] \in CreateSteps =>
            /\ row[call[r].server] = NoRow
            /\ \A q \in Requests \ {r} :
                  call[q] # NoCall => call[q].server # call[r].server

\* The row an update has locked stays where it is.
LockedRowStays ==
    \A r \in Requests :
        pc[r] \in UpdateSteps \ {"u_lock_server"} =>
            /\ row[call[r].server] # NoRow
            /\ row[call[r].server].node = call[r].node

ContainerMade ==
    \A r \in Requests :
        pc[r] = "c_commit" => container[call[r].server] = Applied(call[r].demand)

IInv ==
    /\ TypeOK
    /\ NodeStands
    /\ LocksExclusive
    /\ CreationsPrivate
    /\ LockedRowStays
    /\ ChecksStillHold
    /\ ContainerMade
=============================================================================
