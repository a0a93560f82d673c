------------------------- MODULE ProvisioningProofs -------------------------
(***************************************************************************)
(* Provisioning is type correct, keeps every server on a node that exists, *)
(* spends no capacity and no place under a limit twice, and implements     *)
(* ServerLedger, for any number of requests, nodes, users and servers.     *)
(***************************************************************************)
EXTENDS Provisioning, FunctionTheorems, FiniteSetTheorems, TLAPS

Table == [Servers -> Row \cup {NoRow}]

-----------------------------------------------------------------------------
(* The capacity arithmetic *)

\* What a set of servers books on a node is a finite set of units.
LEMMA UnitsFinite ==
    ASSUME NEW rows \in Table, NEW n \in Nodes, NEW k \in Resources,
           NEW S \in SUBSET Servers
    PROVE  /\ IsFiniteSet(Units(rows, n, k, S))
           /\ Booked(rows, n, k, S) \in Nat
<1> DEFINE T == S \cap Placed(rows, n)
           U(s) == {s} \X (1 .. rows[s].demand[k])
           UU == {U(s) : s \in T}
<1>1. IsFiniteSet(T)
  BY FS_Subset, CapacityAssumption DEF Placed
<1>2. ASSUME NEW s \in T
      PROVE  IsFiniteSet(U(s))
  <2>1. rows[s].demand[k] \in Nat
    BY CapacityAssumption DEF Table, Row, Placed
  <2>2. IsFiniteSet({s})
    BY FS_Singleton
  <2>3. IsFiniteSet(1 .. rows[s].demand[k])
    BY <2>1, FS_Interval
  <2> QED
    BY <2>2, <2>3, FS_Product
<1>3. IsFiniteSet(UU)
  <2> DEFINE f == [s \in T |-> U(s)]
  <2>1. f \in Surjection(T, UU)
    BY DEF Surjection
  <2> QED
    BY <1>1, <2>1, FS_Surjection
<1>4. IsFiniteSet(UNION UU)
  <2>1. \A X \in UU : IsFiniteSet(X)
    BY <1>2
  <2> QED
    BY <1>3, <2>1, FS_UNION
<1> QED
  BY <1>4, FS_CardinalityType DEF Units, Booked

\* Booking fewer units is booking no more.
LEMMA BookedMonotone ==
    ASSUME NEW rows1 \in Table, NEW rows2 \in Table,
           NEW n \in Nodes, NEW k \in Resources, NEW S \in SUBSET Servers,
           \A t \in S \cap Placed(rows2, n) : rows1[t] = rows2[t]
    PROVE  Booked(rows2, n, k, S) <= Booked(rows1, n, k, S)
<1>1. Units(rows2, n, k, S) \subseteq Units(rows1, n, k, S)
  BY DEF Units, Placed
<1>2. IsFiniteSet(Units(rows1, n, k, S))
  BY UnitsFinite
<1> QED
  BY <1>1, <1>2, FS_Subset DEF Booked

\* A check that server s passed stays true while the other servers on the node
\* do not grow, whatever happens elsewhere.
LEMMA FitsStable ==
    ASSUME NEW rows1 \in Table, NEW rows2 \in Table,
           NEW s \in Servers, NEW n \in Nodes, NEW d \in Demands,
           NEW cap \in [Resources -> Capacities],
           \A t \in Servers \ {s} :
               rows2[t] # NoRow /\ rows2[t].node = n => rows1[t] = rows2[t],
           Fits(rows1, s, n, d, cap)
    PROVE  Fits(rows2, s, n, d, cap)
<1> SUFFICES ASSUME NEW k \in Resources, d[k] # 0, cap[k] # Unknown
             PROVE  Booked(rows2, n, k, Servers \ {s}) + d[k] <= cap[k]
  BY DEF Fits
<1> DEFINE S == Servers \ {s}
<1>1. Booked(rows1, n, k, S) + d[k] <= cap[k]
  BY DEF Fits
<1>2. \A t \in S \cap Placed(rows2, n) : rows1[t] = rows2[t]
  BY DEF Placed
<1>3. Booked(rows2, n, k, S) <= Booked(rows1, n, k, S)
  BY <1>2, BookedMonotone
<1>4. Booked(rows1, n, k, S) \in Nat /\ Booked(rows2, n, k, S) \in Nat
  BY UnitsFinite
<1>5. cap[k] \in Nat /\ d[k] \in Nat
  BY CapacityAssumption DEF Capacities
<1> QED
  BY <1>1, <1>3, <1>4, <1>5

\* A server that passed the check and is written leaves its node with room.
LEMMA FitsThenHasRoom ==
    ASSUME NEW rows \in Table, NEW s \in Servers, NEW x \in Row,
           NEW cap \in [Resources -> Capacities],
           Fits(rows, s, x.node, x.demand, cap)
    PROVE  HasRoom([rows EXCEPT ![s] = x], x.node, x.demand, cap)
<1> DEFINE rows2 == [rows EXCEPT ![s] = x]
           n == x.node
           d == x.demand
           S == Servers \ {s}
<1>0. n \in Nodes /\ d \in Demands /\ rows2 \in Table /\ x # NoRow
  BY CapacityAssumption DEF Row, Table
<1> SUFFICES ASSUME NEW k \in Resources, d[k] # 0, cap[k] # Unknown
             PROVE  Booked(rows2, n, k, Servers) <= cap[k]
  BY DEF HasRoom
<1> DEFINE Old == Units(rows, n, k, S)
           New == {s} \X (1 .. d[k])
<1>1. d[k] \in Nat /\ cap[k] \in Nat
  BY <1>0, CapacityAssumption DEF Capacities
<1>2. IsFiniteSet(Old) /\ Cardinality(Old) \in Nat
  BY <1>0, UnitsFinite DEF Booked
<1>3. IsFiniteSet(New) /\ Cardinality(New) = d[k]
  <2>1. IsFiniteSet({s}) /\ Cardinality({s}) = 1
    BY FS_Singleton
  <2>2. IsFiniteSet(1 .. d[k]) /\ Cardinality(1 .. d[k]) = d[k]
    <3>1. 1 \in Int /\ d[k] \in Int
      BY <1>1
    <3> HIDE DEF d
    <3>2. IsFiniteSet(1 .. d[k])
          /\ Cardinality(1 .. d[k]) = IF 1 > d[k] THEN 0 ELSE d[k] - 1 + 1
      BY <3>1, FS_Interval
    <3> QED
      BY <3>2, <1>1
  <2>3. IsFiniteSet(New) /\ Cardinality(New) = Cardinality({s}) * Cardinality(1 .. d[k])
    BY <2>1, <2>2, FS_Product
  <2> QED
    BY <2>1, <2>2, <2>3, <1>1
<1>4. Units(rows2, n, k, Servers) \subseteq Old \cup New
  <2> SUFFICES ASSUME NEW t \in Placed(rows2, n)
               PROVE  {t} \X (1 .. rows2[t].demand[k]) \subseteq Old \cup New
    BY DEF Units
  <2>1. CASE t = s
    BY <2>1 DEF Table
  <2>2. CASE t # s
    <3>1. t \in S \cap Placed(rows, n) /\ rows2[t] = rows[t]
      BY <2>2 DEF Placed, Table
    <3> QED
      BY <3>1 DEF Units
  <2> QED
    BY <2>1, <2>2
<1>5. IsFiniteSet(Old \cup New) /\ Cardinality(Old \cup New) <= Cardinality(Old) + d[k]
  <2>1. IsFiniteSet(Old \cap New)
    BY <1>2, FS_Subset
  <2>2. Cardinality(Old \cap New) \in Nat
    BY <2>1, FS_CardinalityType
  <2>3. IsFiniteSet(Old \cup New)
        /\ Cardinality(Old \cup New)
              = Cardinality(Old) + Cardinality(New) - Cardinality(Old \cap New)
    BY <1>2, <1>3, FS_Union
  <2> QED
    BY <2>2, <2>3, <1>1, <1>2, <1>3
<1>6. Booked(rows2, n, k, Servers) <= Cardinality(Old) + d[k]
  <2> DEFINE Now == Units(rows2, n, k, Servers)
  <2>1. Cardinality(Now) <= Cardinality(Old \cup New)
    BY <1>4, <1>5, FS_Subset
  <2>2. Cardinality(Now) \in Nat /\ Cardinality(Old \cup New) \in Nat
    <3>1. IsFiniteSet(Now)
      BY <1>4, <1>5, FS_Subset
    <3> QED
      BY <3>1, <1>5, FS_CardinalityType
  <2> QED
    BY <2>1, <2>2, <1>5, <1>1, <1>2 DEF Booked
<1>7. Cardinality(Old) + d[k] <= cap[k]
  BY DEF Fits, Booked
<1>8. Booked(rows2, n, k, Servers) \in Nat
  BY <1>0, UnitsFinite
<1> QED
  BY <1>1, <1>2, <1>6, <1>7, <1>8

\* Servers of other owners, and servers that go, leave room under a limit.
LEMMA UnderLimitStable ==
    ASSUME NEW rows1 \in Table, NEW rows2 \in Table, NEW u \in Users,
           NEW l \in Nat \cup {NoLimit},
           Owned(rows2, u) \subseteq Owned(rows1, u),
           UnderLimit(rows1, u, l)
    PROVE  UnderLimit(rows2, u, l)
<1>1. IsFiniteSet(Owned(rows1, u))
  BY FS_Subset, CapacityAssumption DEF Owned
<1>2. Cardinality(Owned(rows2, u)) <= Cardinality(Owned(rows1, u))
  BY <1>1, FS_Subset
<1>3. Cardinality(Owned(rows1, u)) \in Nat /\ Cardinality(Owned(rows2, u)) \in Nat
  BY <1>1, FS_Subset, FS_CardinalityType
<1> QED
  BY <1>2, <1>3, CapacityAssumption DEF UnderLimit

\* An owner below the limit is within it after one more server.
LEMMA UnderLimitThenWithin ==
    ASSUME NEW rows \in Table, NEW s \in Servers, NEW x \in Row,
           NEW l \in Nat,
           rows[s] = NoRow,
           UnderLimit(rows, x.owner, l)
    PROVE  Cardinality(Owned([rows EXCEPT ![s] = x], x.owner)) <= l
<1> DEFINE Old == Owned(rows, x.owner)
           New == Owned([rows EXCEPT ![s] = x], x.owner)
<1>1. IsFiniteSet(Old)
  BY FS_Subset, CapacityAssumption DEF Owned
<1>2. New = Old \cup {s} /\ s \notin Old
  BY CapacityAssumption DEF Owned, Table
<1>3. Cardinality(New) = Cardinality(Old) + 1
  BY <1>1, <1>2, FS_AddElement
<1>4. Cardinality(Old) \in Nat
  BY <1>1, FS_CardinalityType
<1> QED
  BY <1>3, <1>4, CapacityAssumption DEF UnderLimit

-----------------------------------------------------------------------------
(* Type correctness *)

\* The daemon is given an amount for every resource it enforces.
LEMMA AppliedType ==
    ASSUME NEW d \in Demands
    PROVE  Applied(d) \in Shape
BY CapacityAssumption, ProvisioningAssumption DEF Applied, Shape

\* The tables as the panel finds them have their types.
LEMMA InitType == Init => TypeOK
<1> SUFFICES ASSUME Init PROVE TypeOK
  OBVIOUS
<1>1. container \in [Servers -> Shape \cup {NoContainer}]
  <2> SUFFICES ASSUME NEW s \in Servers, row[s] # NoRow
               PROVE  Applied(row[s].demand) \in Shape
    BY DEF Init
  <2> QED
    BY AppliedType DEF Init, Row
<1> QED
  BY <1>1, ProvisioningAssumption DEF Init, TypeOK, Steps

\* A request that arrives with a well-formed call.
LEMMA ArriveType ==
    ASSUME TypeOK, NEW r \in Requests, NEW c \in Call, NEW step \in Steps,
           Arrive(r, c, step)
    PROVE  TypeOK'
BY ProvisioningAssumption DEF TypeOK, Arrive, Goto

\* UpdateCommit writes to the row it has locked, so the type needs LockedRowStays.
LEMMA StepType == TypeOK /\ LockedRowStays /\ [Next]_vars => TypeOK'
<1> SUFFICES ASSUME TypeOK, LockedRowStays, [Next]_vars PROVE TypeOK'
  OBVIOUS
<1> USE DEF Goto, Steps, CreateSteps, UpdateSteps, DeleteSteps
<1>1. ASSUME NEW r \in Requests, CreateBegin(r) PROVE TypeOK'
  BY <1>1, ArriveType DEF CreateBegin, Call
<1>2. ASSUME NEW r \in Requests, UpdateBegin(r) PROVE TypeOK'
  BY <1>2, ArriveType DEF UpdateBegin, Call, Row, TypeOK
<1>3. ASSUME NEW r \in Requests, DeleteBegin(r) PROVE TypeOK'
  BY <1>3, ArriveType DEF DeleteBegin, MayEdit, Call, Row, TypeOK
<1>4. ASSUME NEW r \in Requests, ReapplyBegin(r) PROVE TypeOK'
  BY <1>4, ArriveType DEF ReapplyBegin, Call, Row, TypeOK
<1>5. ASSUME NEW r \in Requests, CreateLockNode(r) PROVE TypeOK'
  BY <1>5 DEF CreateLockNode, TypeOK
<1>6. ASSUME NEW r \in Requests, CreateCheckCapacity(r) PROVE TypeOK'
  BY <1>6 DEF CreateCheckCapacity, TypeOK
<1>7. ASSUME NEW r \in Requests, CreateLockUser(r) PROVE TypeOK'
  BY <1>7 DEF CreateLockUser, TypeOK
<1>8. ASSUME NEW r \in Requests, CreateCountServers(r) PROVE TypeOK'
  BY <1>8 DEF CreateCountServers, TypeOK
<1>9. ASSUME NEW r \in Requests, CreateDaemon(r) PROVE TypeOK'
  BY <1>9, AppliedType DEF CreateDaemon, TypeOK, Call
<1>10. ASSUME NEW r \in Requests, CreateCommit(r) PROVE TypeOK'
  BY <1>10 DEF CreateCommit, TypeOK, Call, Row
<1>11. ASSUME NEW r \in Requests, UpdateLockServer(r) PROVE TypeOK'
  BY <1>11, ProvisioningAssumption DEF UpdateLockServer, TypeOK, MayEdit, Call, Row
<1>12. ASSUME NEW r \in Requests, UpdateLockNode(r) PROVE TypeOK'
  BY <1>12 DEF UpdateLockNode, TypeOK
<1>13. ASSUME NEW r \in Requests, UpdateCheckCapacity(r) PROVE TypeOK'
  BY <1>13 DEF UpdateCheckCapacity, TypeOK
<1>14. ASSUME NEW r \in Requests, UpdateCommit(r) PROVE TypeOK'
  BY <1>14 DEF UpdateCommit, TypeOK, LockedRowStays, Call, Row
<1>15. ASSUME NEW r \in Requests, Rebuild(r) PROVE TypeOK'
  BY <1>15, AppliedType DEF Rebuild, TypeOK, Call
<1>16. ASSUME NEW r \in Requests, DeleteDaemon(r) PROVE TypeOK'
  BY <1>16 DEF DeleteDaemon, TypeOK, Call
<1>17. ASSUME NEW r \in Requests, DeleteRow(r) PROVE TypeOK'
  BY <1>17 DEF DeleteRow, TypeOK, Call
<1>18. ASSUME NEW r \in Requests, Abort(r) PROVE TypeOK'
  BY <1>18 DEF Abort, TypeOK
<1>19. ASSUME NEW n \in Nodes, NodeUpdate(n) PROVE TypeOK'
  BY <1>19, ProvisioningAssumption DEF NodeUpdate, TypeOK, Config
<1>20. ASSUME NEW n \in Nodes, NodeReport(n) PROVE TypeOK'
  BY <1>20, ProvisioningAssumption DEF NodeReport, TypeOK, Config, Capacities
<1>21. ASSUME NEW n \in Nodes, NodeDelete(n) PROVE TypeOK'
  BY <1>21, ProvisioningAssumption DEF NodeDelete, TypeOK
<1>22. ASSUME NEW u \in Users, UserUpdate(u) PROVE TypeOK'
  BY <1>22, ProvisioningAssumption DEF UserUpdate, TypeOK
<1>23. CASE UNCHANGED vars
  BY <1>23 DEF vars, TypeOK
<1> QED
  BY <1>1, <1>2, <1>3, <1>4, <1>5, <1>6, <1>7, <1>8, <1>9, <1>10, <1>11, <1>12,
     <1>13, <1>14, <1>15, <1>16, <1>17, <1>18, <1>19, <1>20, <1>21, <1>22, <1>23
     DEF Next, Arrival, Progress, Administration

-----------------------------------------------------------------------------
(* Locks *)

\* One request moves, and each lock it then has it had before or found free.
LEMMA MoveKeepsLocks ==
    ASSUME LocksExclusive, NEW r \in Requests,
           \A q \in Requests \ {r} : pc'[q] = pc[q] /\ call'[q] = call[q],
           \A s \in Servers : HoldsServer(r, s)' => HoldsServer(r, s) \/ ~ServerLocked(s),
           \A n \in Nodes : HoldsNode(r, n)' => HoldsNode(r, n) \/ ~NodeLocked(n),
           \A u \in Users : HoldsUser(r, u)' => HoldsUser(r, u) \/ ~UserLocked(u)
    PROVE  LocksExclusive'
<1> SUFFICES ASSUME NEW p \in Requests, NEW q \in Requests, p # q
             PROVE  /\ \A s \in Servers : ~(HoldsServer(p, s)' /\ HoldsServer(q, s)')
                    /\ \A n \in Nodes : ~(HoldsNode(p, n)' /\ HoldsNode(q, n)')
                    /\ \A u \in Users : ~(HoldsUser(p, u)' /\ HoldsUser(q, u)')
  BY DEF LocksExclusive
<1>1. \A x \in Requests \ {r} :
          /\ \A s \in Servers : HoldsServer(x, s)' => HoldsServer(x, s)
          /\ \A n \in Nodes : HoldsNode(x, n)' => HoldsNode(x, n)
          /\ \A u \in Users : HoldsUser(x, u)' => HoldsUser(x, u)
  BY DEF HoldsServer, HoldsNode, HoldsUser
<1> QED
  BY <1>1 DEF LocksExclusive, ServerLocked, NodeLocked, UserLocked

\* A FOR UPDATE is granted only when nobody else holds the row: no step gives a
\* lock a second holder.
LEMMA StepLocks == TypeOK /\ LocksExclusive /\ [Next]_vars => LocksExclusive'
<1> SUFFICES ASSUME TypeOK, LocksExclusive, [Next]_vars PROVE LocksExclusive'
  OBVIOUS
<1> USE DEF TypeOK, Goto, HoldsServer, HoldsNode, HoldsUser
<1>1. ASSUME NEW r \in Requests, CreateBegin(r) PROVE LocksExclusive'
  BY <1>1, MoveKeepsLocks DEF CreateBegin, Arrive
<1>2. ASSUME NEW r \in Requests, UpdateBegin(r) PROVE LocksExclusive'
  BY <1>2, MoveKeepsLocks DEF UpdateBegin, Arrive
<1>3. ASSUME NEW r \in Requests, DeleteBegin(r) PROVE LocksExclusive'
  BY <1>3, MoveKeepsLocks DEF DeleteBegin, Arrive
<1>4. ASSUME NEW r \in Requests, ReapplyBegin(r) PROVE LocksExclusive'
  BY <1>4, MoveKeepsLocks DEF ReapplyBegin, Arrive
<1>5. ASSUME NEW r \in Requests, CreateLockNode(r) PROVE LocksExclusive'
  BY <1>5, MoveKeepsLocks DEF CreateLockNode
<1>6. ASSUME NEW r \in Requests, CreateCheckCapacity(r) PROVE LocksExclusive'
  BY <1>6, MoveKeepsLocks DEF CreateCheckCapacity
<1>7. ASSUME NEW r \in Requests, CreateLockUser(r) PROVE LocksExclusive'
  BY <1>7, MoveKeepsLocks DEF CreateLockUser
<1>8. ASSUME NEW r \in Requests, CreateCountServers(r) PROVE LocksExclusive'
  BY <1>8, MoveKeepsLocks DEF CreateCountServers
<1>9. ASSUME NEW r \in Requests, CreateDaemon(r) PROVE LocksExclusive'
  BY <1>9, MoveKeepsLocks DEF CreateDaemon
<1>10. ASSUME NEW r \in Requests, CreateCommit(r) PROVE LocksExclusive'
  BY <1>10, MoveKeepsLocks DEF CreateCommit
<1>11. ASSUME NEW r \in Requests, UpdateLockServer(r) PROVE LocksExclusive'
  <2>1. \A q \in Requests \ {r} : pc'[q] = pc[q] /\ call'[q] = call[q]
    BY <1>11 DEF UpdateLockServer
  <2>2. call'[r].server = call[r].server
    BY <1>11, ProvisioningAssumption DEF UpdateLockServer, Call
  <2>3. pc'[r] \in {"u_lock_node", "done"} /\ ~ServerLocked(call[r].server)
    BY <1>11 DEF UpdateLockServer
  <2> QED
    BY <2>1, <2>2, <2>3, MoveKeepsLocks
<1>12. ASSUME NEW r \in Requests, UpdateLockNode(r) PROVE LocksExclusive'
  BY <1>12, MoveKeepsLocks DEF UpdateLockNode
<1>13. ASSUME NEW r \in Requests, UpdateCheckCapacity(r) PROVE LocksExclusive'
  BY <1>13, MoveKeepsLocks DEF UpdateCheckCapacity
<1>14. ASSUME NEW r \in Requests, UpdateCommit(r) PROVE LocksExclusive'
  BY <1>14, MoveKeepsLocks DEF UpdateCommit
<1>15. ASSUME NEW r \in Requests, Rebuild(r) PROVE LocksExclusive'
  BY <1>15, MoveKeepsLocks DEF Rebuild
<1>16. ASSUME NEW r \in Requests, DeleteDaemon(r) PROVE LocksExclusive'
  BY <1>16, MoveKeepsLocks DEF DeleteDaemon
<1>17. ASSUME NEW r \in Requests, DeleteRow(r) PROVE LocksExclusive'
  BY <1>17, MoveKeepsLocks DEF DeleteRow
<1>18. ASSUME NEW r \in Requests, Abort(r) PROVE LocksExclusive'
  BY <1>18, MoveKeepsLocks DEF Abort
<1>19. CASE UNCHANGED <<pc, call>>
  BY <1>19 DEF LocksExclusive
<1> QED
  BY <1>1, <1>2, <1>3, <1>4, <1>5, <1>6, <1>7, <1>8, <1>9, <1>10, <1>11, <1>12,
     <1>13, <1>14, <1>15, <1>16, <1>17, <1>18, <1>19
     DEF Next, Arrival, Progress, Administration, NodeUpdate, NodeReport, NodeDelete,
         UserUpdate, vars

-----------------------------------------------------------------------------
(* Servers, containers and nodes *)

\* The uuid of an uncommitted server stays private: a request arrives only for a
\* fresh uuid or for a committed row.
LEMMA StepCreations == TypeOK /\ LockedRowStays /\ CreationsPrivate /\ [Next]_vars => CreationsPrivate'
<1> SUFFICES ASSUME TypeOK, LockedRowStays, CreationsPrivate, [Next]_vars PROVE CreationsPrivate'
  OBVIOUS
<1> USE CapacityAssumption, ProvisioningAssumption DEF TypeOK, CreationsPrivate, LockedRowStays, Goto, CreateSteps, UpdateSteps, Call
<1>1. ASSUME NEW r \in Requests, CreateBegin(r) PROVE CreationsPrivate'
  BY <1>1 DEF CreateBegin, Arrive, Fresh
<1>2. ASSUME NEW r \in Requests, UpdateBegin(r) PROVE CreationsPrivate'
  BY <1>2 DEF UpdateBegin, Arrive
<1>3. ASSUME NEW r \in Requests, DeleteBegin(r) PROVE CreationsPrivate'
  BY <1>3 DEF DeleteBegin, Arrive, MayEdit
<1>4. ASSUME NEW r \in Requests, ReapplyBegin(r) PROVE CreationsPrivate'
  BY <1>4 DEF ReapplyBegin, Arrive
<1>5. ASSUME NEW r \in Requests, CreateLockNode(r) PROVE CreationsPrivate'
  BY <1>5 DEF CreateLockNode
<1>6. ASSUME NEW r \in Requests, CreateCheckCapacity(r) PROVE CreationsPrivate'
  BY <1>6 DEF CreateCheckCapacity
<1>7. ASSUME NEW r \in Requests, CreateLockUser(r) PROVE CreationsPrivate'
  BY <1>7 DEF CreateLockUser
<1>8. ASSUME NEW r \in Requests, CreateCountServers(r) PROVE CreationsPrivate'
  BY <1>8 DEF CreateCountServers
<1>9. ASSUME NEW r \in Requests, CreateDaemon(r) PROVE CreationsPrivate'
  BY <1>9 DEF CreateDaemon
<1>10. ASSUME NEW r \in Requests, CreateCommit(r) PROVE CreationsPrivate'
  BY <1>10 DEF CreateCommit
<1>11. ASSUME NEW r \in Requests, UpdateLockServer(r) PROVE CreationsPrivate'
  BY <1>11 DEF UpdateLockServer
<1>12. ASSUME NEW r \in Requests, UpdateLockNode(r) PROVE CreationsPrivate'
  BY <1>12 DEF UpdateLockNode
<1>13. ASSUME NEW r \in Requests, UpdateCheckCapacity(r) PROVE CreationsPrivate'
  BY <1>13 DEF UpdateCheckCapacity
<1>14. ASSUME NEW r \in Requests, UpdateCommit(r) PROVE CreationsPrivate'
  BY <1>14 DEF UpdateCommit
<1>15. ASSUME NEW r \in Requests, Rebuild(r) PROVE CreationsPrivate'
  BY <1>15 DEF Rebuild
<1>16. ASSUME NEW r \in Requests, DeleteDaemon(r) PROVE CreationsPrivate'
  BY <1>16 DEF DeleteDaemon
<1>17. ASSUME NEW r \in Requests, DeleteRow(r) PROVE CreationsPrivate'
  BY <1>17 DEF DeleteRow
<1>18. ASSUME NEW r \in Requests, Abort(r) PROVE CreationsPrivate'
  BY <1>18 DEF Abort
<1>19. ASSUME NEW n \in Nodes, NodeUpdate(n) PROVE CreationsPrivate'
  BY <1>19 DEF NodeUpdate
<1>20. ASSUME NEW n \in Nodes, NodeReport(n) PROVE CreationsPrivate'
  BY <1>20 DEF NodeReport
<1>21. ASSUME NEW n \in Nodes, NodeDelete(n) PROVE CreationsPrivate'
  BY <1>21 DEF NodeDelete
<1>22. ASSUME NEW u \in Users, UserUpdate(u) PROVE CreationsPrivate'
  BY <1>22 DEF UserUpdate
<1>23. CASE UNCHANGED vars
  BY <1>23 DEF vars
<1> QED
  BY <1>1, <1>2, <1>3, <1>4, <1>5, <1>6, <1>7, <1>8, <1>9, <1>10, <1>11, <1>12,
     <1>13, <1>14, <1>15, <1>16, <1>17, <1>18, <1>19, <1>20, <1>21, <1>22, <1>23
     DEF Next, Arrival, Progress, Administration

\* A locked row is neither deleted nor moved: DELETE waits for the row lock.
LEMMA StepLockedRow == TypeOK /\ LocksExclusive /\ CreationsPrivate /\ LockedRowStays /\ [Next]_vars => LockedRowStays'
<1> SUFFICES ASSUME TypeOK, LocksExclusive, CreationsPrivate, LockedRowStays, [Next]_vars PROVE LockedRowStays'
  OBVIOUS
<1> USE CapacityAssumption, ProvisioningAssumption DEF TypeOK, LocksExclusive, CreationsPrivate, LockedRowStays, Goto, CreateSteps, UpdateSteps, Call, HoldsServer, ServerLocked, Row
<1>1. ASSUME NEW r \in Requests, CreateBegin(r) PROVE LockedRowStays'
  BY <1>1 DEF CreateBegin, Arrive
<1>2. ASSUME NEW r \in Requests, UpdateBegin(r) PROVE LockedRowStays'
  BY <1>2 DEF UpdateBegin, Arrive
<1>3. ASSUME NEW r \in Requests, DeleteBegin(r) PROVE LockedRowStays'
  BY <1>3 DEF DeleteBegin, Arrive
<1>4. ASSUME NEW r \in Requests, ReapplyBegin(r) PROVE LockedRowStays'
  BY <1>4 DEF ReapplyBegin, Arrive
<1>5. ASSUME NEW r \in Requests, CreateLockNode(r) PROVE LockedRowStays'
  BY <1>5 DEF CreateLockNode
<1>6. ASSUME NEW r \in Requests, CreateCheckCapacity(r) PROVE LockedRowStays'
  BY <1>6 DEF CreateCheckCapacity
<1>7. ASSUME NEW r \in Requests, CreateLockUser(r) PROVE LockedRowStays'
  BY <1>7 DEF CreateLockUser
<1>8. ASSUME NEW r \in Requests, CreateCountServers(r) PROVE LockedRowStays'
  BY <1>8 DEF CreateCountServers
<1>9. ASSUME NEW r \in Requests, CreateDaemon(r) PROVE LockedRowStays'
  BY <1>9 DEF CreateDaemon
<1>10. ASSUME NEW r \in Requests, CreateCommit(r) PROVE LockedRowStays'
  BY <1>10 DEF CreateCommit
<1>11. ASSUME NEW r \in Requests, UpdateLockServer(r) PROVE LockedRowStays'
  BY <1>11 DEF UpdateLockServer, MayEdit
<1>12. ASSUME NEW r \in Requests, UpdateLockNode(r) PROVE LockedRowStays'
  BY <1>12 DEF UpdateLockNode
<1>13. ASSUME NEW r \in Requests, UpdateCheckCapacity(r) PROVE LockedRowStays'
  BY <1>13 DEF UpdateCheckCapacity
<1>14. ASSUME NEW r \in Requests, UpdateCommit(r) PROVE LockedRowStays'
  BY <1>14 DEF UpdateCommit
<1>15. ASSUME NEW r \in Requests, Rebuild(r) PROVE LockedRowStays'
  BY <1>15 DEF Rebuild
<1>16. ASSUME NEW r \in Requests, DeleteDaemon(r) PROVE LockedRowStays'
  BY <1>16 DEF DeleteDaemon
<1>17. ASSUME NEW r \in Requests, DeleteRow(r) PROVE LockedRowStays'
  BY <1>17 DEF DeleteRow
<1>18. ASSUME NEW r \in Requests, Abort(r) PROVE LockedRowStays'
  BY <1>18 DEF Abort
<1>19. ASSUME NEW n \in Nodes, NodeUpdate(n) PROVE LockedRowStays'
  BY <1>19 DEF NodeUpdate
<1>20. ASSUME NEW n \in Nodes, NodeReport(n) PROVE LockedRowStays'
  BY <1>20 DEF NodeReport
<1>21. ASSUME NEW n \in Nodes, NodeDelete(n) PROVE LockedRowStays'
  BY <1>21 DEF NodeDelete
<1>22. ASSUME NEW u \in Users, UserUpdate(u) PROVE LockedRowStays'
  BY <1>22 DEF UserUpdate
<1>23. CASE UNCHANGED vars
  BY <1>23 DEF vars
<1> QED
  BY <1>1, <1>2, <1>3, <1>4, <1>5, <1>6, <1>7, <1>8, <1>9, <1>10, <1>11, <1>12,
     <1>13, <1>14, <1>15, <1>16, <1>17, <1>18, <1>19, <1>20, <1>21, <1>22, <1>23
     DEF Next, Arrival, Progress, Administration

\* The container made inside a create is left alone until the commit.
LEMMA StepContainer == TypeOK /\ CreationsPrivate /\ ContainerMade /\ [Next]_vars => ContainerMade'
<1> SUFFICES ASSUME TypeOK, CreationsPrivate, ContainerMade, [Next]_vars PROVE ContainerMade'
  OBVIOUS
<1> USE CapacityAssumption, ProvisioningAssumption DEF TypeOK, CreationsPrivate, ContainerMade, Goto, CreateSteps, Call
<1>1. ASSUME NEW r \in Requests, CreateBegin(r) PROVE ContainerMade'
  BY <1>1 DEF CreateBegin, Arrive
<1>2. ASSUME NEW r \in Requests, UpdateBegin(r) PROVE ContainerMade'
  BY <1>2 DEF UpdateBegin, Arrive
<1>3. ASSUME NEW r \in Requests, DeleteBegin(r) PROVE ContainerMade'
  BY <1>3 DEF DeleteBegin, Arrive
<1>4. ASSUME NEW r \in Requests, ReapplyBegin(r) PROVE ContainerMade'
  BY <1>4 DEF ReapplyBegin, Arrive
<1>5. ASSUME NEW r \in Requests, CreateLockNode(r) PROVE ContainerMade'
  BY <1>5 DEF CreateLockNode
<1>6. ASSUME NEW r \in Requests, CreateCheckCapacity(r) PROVE ContainerMade'
  BY <1>6 DEF CreateCheckCapacity
<1>7. ASSUME NEW r \in Requests, CreateLockUser(r) PROVE ContainerMade'
  BY <1>7 DEF CreateLockUser
<1>8. ASSUME NEW r \in Requests, CreateCountServers(r) PROVE ContainerMade'
  BY <1>8 DEF CreateCountServers
<1>9. ASSUME NEW r \in Requests, CreateDaemon(r) PROVE ContainerMade'
  BY <1>9 DEF CreateDaemon
<1>10. ASSUME NEW r \in Requests, CreateCommit(r) PROVE ContainerMade'
  BY <1>10 DEF CreateCommit
<1>11. ASSUME NEW r \in Requests, UpdateLockServer(r) PROVE ContainerMade'
  BY <1>11 DEF UpdateLockServer
<1>12. ASSUME NEW r \in Requests, UpdateLockNode(r) PROVE ContainerMade'
  BY <1>12 DEF UpdateLockNode
<1>13. ASSUME NEW r \in Requests, UpdateCheckCapacity(r) PROVE ContainerMade'
  BY <1>13 DEF UpdateCheckCapacity
<1>14. ASSUME NEW r \in Requests, UpdateCommit(r) PROVE ContainerMade'
  BY <1>14 DEF UpdateCommit
<1>15. ASSUME NEW r \in Requests, Rebuild(r) PROVE ContainerMade'
  BY <1>15 DEF Rebuild
<1>16. ASSUME NEW r \in Requests, DeleteDaemon(r) PROVE ContainerMade'
  BY <1>16 DEF DeleteDaemon
<1>17. ASSUME NEW r \in Requests, DeleteRow(r) PROVE ContainerMade'
  BY <1>17 DEF DeleteRow
<1>18. ASSUME NEW r \in Requests, Abort(r) PROVE ContainerMade'
  BY <1>18 DEF Abort
<1>19. ASSUME NEW n \in Nodes, NodeUpdate(n) PROVE ContainerMade'
  BY <1>19 DEF NodeUpdate
<1>20. ASSUME NEW n \in Nodes, NodeReport(n) PROVE ContainerMade'
  BY <1>20 DEF NodeReport
<1>21. ASSUME NEW n \in Nodes, NodeDelete(n) PROVE ContainerMade'
  BY <1>21 DEF NodeDelete
<1>22. ASSUME NEW u \in Users, UserUpdate(u) PROVE ContainerMade'
  BY <1>22 DEF UserUpdate
<1>23. CASE UNCHANGED vars
  BY <1>23 DEF vars
<1> QED
  BY <1>1, <1>2, <1>3, <1>4, <1>5, <1>6, <1>7, <1>8, <1>9, <1>10, <1>11, <1>12,
     <1>13, <1>14, <1>15, <1>16, <1>17, <1>18, <1>19, <1>20, <1>21, <1>22, <1>23
     DEF Next, Arrival, Progress, Administration

\* A node goes only unlocked and empty, and a server comes only to a node it holds.
LEMMA StepNodeStands == TypeOK /\ LockedRowStays /\ ChecksStillHold /\ NodeStands /\ [Next]_vars => NodeStands'
<1> SUFFICES ASSUME TypeOK, LockedRowStays, ChecksStillHold, NodeStands, [Next]_vars PROVE NodeStands'
  OBVIOUS
<1> USE CapacityAssumption, ProvisioningAssumption DEF TypeOK, LockedRowStays, NodeStands, Goto, CreateSteps, UpdateSteps, Call, Placed, Row
<1>1. ASSUME NEW r \in Requests, CreateBegin(r) PROVE NodeStands'
  BY <1>1 DEF CreateBegin, Arrive
<1>2. ASSUME NEW r \in Requests, UpdateBegin(r) PROVE NodeStands'
  BY <1>2 DEF UpdateBegin, Arrive
<1>3. ASSUME NEW r \in Requests, DeleteBegin(r) PROVE NodeStands'
  BY <1>3 DEF DeleteBegin, Arrive
<1>4. ASSUME NEW r \in Requests, ReapplyBegin(r) PROVE NodeStands'
  BY <1>4 DEF ReapplyBegin, Arrive
<1>5. ASSUME NEW r \in Requests, CreateLockNode(r) PROVE NodeStands'
  BY <1>5 DEF CreateLockNode
<1>6. ASSUME NEW r \in Requests, CreateCheckCapacity(r) PROVE NodeStands'
  BY <1>6 DEF CreateCheckCapacity
<1>7. ASSUME NEW r \in Requests, CreateLockUser(r) PROVE NodeStands'
  BY <1>7 DEF CreateLockUser
<1>8. ASSUME NEW r \in Requests, CreateCountServers(r) PROVE NodeStands'
  BY <1>8 DEF CreateCountServers
<1>9. ASSUME NEW r \in Requests, CreateDaemon(r) PROVE NodeStands'
  BY <1>9 DEF CreateDaemon
<1>10. ASSUME NEW r \in Requests, CreateCommit(r) PROVE NodeStands'
  BY <1>10 DEF CreateCommit, ChecksStillHold, Accepts
<1>11. ASSUME NEW r \in Requests, UpdateLockServer(r) PROVE NodeStands'
  BY <1>11 DEF UpdateLockServer
<1>12. ASSUME NEW r \in Requests, UpdateLockNode(r) PROVE NodeStands'
  BY <1>12 DEF UpdateLockNode
<1>13. ASSUME NEW r \in Requests, UpdateCheckCapacity(r) PROVE NodeStands'
  BY <1>13 DEF UpdateCheckCapacity
<1>14. ASSUME NEW r \in Requests, UpdateCommit(r) PROVE NodeStands'
  BY <1>14 DEF UpdateCommit
<1>15. ASSUME NEW r \in Requests, Rebuild(r) PROVE NodeStands'
  BY <1>15 DEF Rebuild
<1>16. ASSUME NEW r \in Requests, DeleteDaemon(r) PROVE NodeStands'
  BY <1>16 DEF DeleteDaemon
<1>17. ASSUME NEW r \in Requests, DeleteRow(r) PROVE NodeStands'
  BY <1>17 DEF DeleteRow
<1>18. ASSUME NEW r \in Requests, Abort(r) PROVE NodeStands'
  BY <1>18 DEF Abort
<1>19. ASSUME NEW n \in Nodes, NodeUpdate(n) PROVE NodeStands'
  <2>1. node'[n] \in Config
    BY <1>19 DEF NodeUpdate, Config, Capacities
  <2> QED
    BY <1>19, <2>1 DEF NodeUpdate
<1>20. ASSUME NEW n \in Nodes, NodeReport(n) PROVE NodeStands'
  <2>1. node'[n] \in Config
    BY <1>20 DEF NodeReport, Config, Capacities
  <2> QED
    BY <1>20, <2>1 DEF NodeReport
<1>21. ASSUME NEW n \in Nodes, NodeDelete(n) PROVE NodeStands'
  BY <1>21 DEF NodeDelete
<1>22. ASSUME NEW u \in Users, UserUpdate(u) PROVE NodeStands'
  BY <1>22 DEF UserUpdate
<1>23. CASE UNCHANGED vars
  BY <1>23 DEF vars
<1> QED
  BY <1>1, <1>2, <1>3, <1>4, <1>5, <1>6, <1>7, <1>8, <1>9, <1>10, <1>11, <1>12,
     <1>13, <1>14, <1>15, <1>16, <1>17, <1>18, <1>19, <1>20, <1>21, <1>22, <1>23
     DEF Next, Arrival, Progress, Administration

-----------------------------------------------------------------------------
(* What was checked under a lock stays true under it *)

\* Nobody changes the settings of a node, or the limit of a user, that a request
\* has locked.
LEMMA LockedNodeStable ==
    ASSUME TypeOK, [Next]_vars, NEW r \in Requests, NEW n \in Nodes, HoldsNode(r, n)
    PROVE  node'[n] = node[n]
<1>1. ASSUME NEW m \in Nodes, NodeUpdate(m) \/ NodeReport(m) \/ NodeDelete(m)
      PROVE  node'[n] = node[n]
  BY <1>1 DEF NodeUpdate, NodeReport, NodeDelete, NodeLocked, TypeOK
<1>2. CASE UNCHANGED node
  BY <1>2
<1> QED
  BY ZenonT(40), <1>1, <1>2
  DEF Next, Arrival, Progress, Administration, Arrive, Goto,
       CreateBegin, UpdateBegin, DeleteBegin, ReapplyBegin, CreateLockNode, CreateCheckCapacity, CreateLockUser, CreateCountServers, CreateDaemon, CreateCommit,
       UpdateLockServer, UpdateLockNode, UpdateCheckCapacity, UpdateCommit, Rebuild, DeleteDaemon, DeleteRow, Abort,
       NodeUpdate, NodeReport, NodeDelete, UserUpdate, vars

\* While a request holds its user's row, nobody changes the user's limit.
LEMMA LockedUserStable ==
    ASSUME TypeOK, [Next]_vars, NEW r \in Requests, NEW u \in Users, HoldsUser(r, u)
    PROVE  limit'[u] = limit[u]
<1>1. ASSUME NEW v \in Users, UserUpdate(v) PROVE limit'[u] = limit[u]
  BY <1>1 DEF UserUpdate, UserLocked, TypeOK
<1>2. CASE UNCHANGED limit
  BY <1>2
<1> QED
  BY ZenonT(40), <1>1, <1>2
  DEF Next, Arrival, Progress, Administration, Arrive, Goto,
       CreateBegin, UpdateBegin, DeleteBegin, ReapplyBegin, CreateLockNode, CreateCheckCapacity, CreateLockUser, CreateCountServers, CreateDaemon, CreateCommit,
       UpdateLockServer, UpdateLockNode, UpdateCheckCapacity, UpdateCommit, Rebuild, DeleteDaemon, DeleteRow, Abort,
       NodeUpdate, NodeReport, NodeDelete, UserUpdate, vars

\* No server appears or grows on a node while another request has it locked.
LEMMA LockedNodeRows ==
    ASSUME TypeOK, LocksExclusive, LockedRowStays, [Next]_vars,
           NEW r \in Requests, NEW n \in Nodes, HoldsNode(r, n), pc'[r] = pc[r],
           NEW t \in Servers, row'[t] # NoRow, row'[t].node = n
    PROVE  row'[t] = row[t]
<1> USE DEF TypeOK, HoldsNode, Call
<1>1. ASSUME NEW q \in Requests, CreateCommit(q) PROVE row'[t] = row[t]
  BY <1>1, ProvisioningAssumption DEF CreateCommit, Goto, LocksExclusive
<1>2. ASSUME NEW q \in Requests, UpdateCommit(q) PROVE row'[t] = row[t]
  BY <1>2, ProvisioningAssumption
     DEF UpdateCommit, Goto, LocksExclusive, LockedRowStays, UpdateSteps, Row
<1>3. ASSUME NEW q \in Requests, DeleteRow(q) PROVE row'[t] = row[t]
  BY <1>3 DEF DeleteRow
<1>4. CASE UNCHANGED row
  BY <1>4
<1> QED
  BY ZenonT(40), <1>1, <1>2, <1>3, <1>4
  DEF Next, Arrival, Progress, Administration, Arrive, Goto,
       CreateBegin, UpdateBegin, DeleteBegin, ReapplyBegin, CreateLockNode, CreateCheckCapacity, CreateLockUser, CreateCountServers, CreateDaemon, CreateCommit,
       UpdateLockServer, UpdateLockNode, UpdateCheckCapacity, UpdateCommit, Rebuild, DeleteDaemon, DeleteRow, Abort,
       NodeUpdate, NodeReport, NodeDelete, UserUpdate, vars

\* Nobody gets a server while another request has locked its users row.
LEMMA LockedUserRows ==
    ASSUME TypeOK, LocksExclusive, LockedRowStays, [Next]_vars,
           NEW r \in Requests, NEW u \in Users, HoldsUser(r, u), pc'[r] = pc[r]
    PROVE  Owned(row', u) \subseteq Owned(row, u)
<1> USE DEF TypeOK, HoldsUser, Call, Owned
<1>1. ASSUME NEW q \in Requests, CreateCommit(q) PROVE Owned(row', u) \subseteq Owned(row, u)
  BY <1>1, ProvisioningAssumption DEF CreateCommit, Goto, LocksExclusive
<1>2. ASSUME NEW q \in Requests, UpdateCommit(q) PROVE Owned(row', u) \subseteq Owned(row, u)
  BY <1>2, ProvisioningAssumption DEF UpdateCommit, Goto, LockedRowStays, UpdateSteps, Row
<1>3. ASSUME NEW q \in Requests, DeleteRow(q) PROVE Owned(row', u) \subseteq Owned(row, u)
  BY <1>3 DEF DeleteRow
<1>4. CASE UNCHANGED row
  BY <1>4
<1> QED
  BY ZenonT(40), <1>1, <1>2, <1>3, <1>4
  DEF Next, Arrival, Progress, Administration, Arrive, Goto,
       CreateBegin, UpdateBegin, DeleteBegin, ReapplyBegin, CreateLockNode, CreateCheckCapacity, CreateLockUser, CreateCountServers, CreateDaemon, CreateCommit,
       UpdateLockServer, UpdateLockNode, UpdateCheckCapacity, UpdateCommit, Rebuild, DeleteDaemon, DeleteRow, Abort,
       NodeUpdate, NodeReport, NodeDelete, UserUpdate, vars

\* A step is one request's, or leaves it where it is.
LEMMA OwnStep ==
    ASSUME TypeOK, [Next]_vars, NEW r \in Requests
    PROVE  \/ pc'[r] = pc[r] /\ call'[r] = call[r]
           \/ Arrival(r) \/ Progress(r) \/ Abort(r)
<1> USE DEF TypeOK, Goto
<1>1. ASSUME NEW q \in Requests, q # r, Arrival(q) \/ Progress(q) \/ Abort(q)
      PROVE  pc'[r] = pc[r] /\ call'[r] = call[r]
  <2>1. CASE Arrival(q)
    BY <1>1, <2>1 DEF Arrival, CreateBegin, UpdateBegin, DeleteBegin, ReapplyBegin, Arrive
  <2>2. CASE CreateLockNode(q) \/ CreateCheckCapacity(q) \/ CreateLockUser(q)
             \/ CreateCountServers(q) \/ CreateDaemon(q) \/ CreateCommit(q)
    BY <1>1, <2>2 DEF CreateLockNode, CreateCheckCapacity, CreateLockUser,
                      CreateCountServers, CreateDaemon, CreateCommit
  <2>3. CASE UpdateLockServer(q) \/ UpdateLockNode(q) \/ UpdateCheckCapacity(q)
             \/ UpdateCommit(q) \/ Rebuild(q)
    BY <1>1, <2>3 DEF UpdateLockServer, UpdateLockNode, UpdateCheckCapacity,
                      UpdateCommit, Rebuild
  <2>4. CASE DeleteDaemon(q) \/ DeleteRow(q) \/ Abort(q)
    BY <1>1, <2>4 DEF DeleteDaemon, DeleteRow, Abort
  <2> QED
    BY <1>1, <2>1, <2>2, <2>3, <2>4 DEF Progress
<1>2. CASE Administration \/ UNCHANGED vars
  BY <1>2 DEF Administration, NodeUpdate, NodeReport, NodeDelete, UserUpdate, vars
<1> QED
  BY <1>1, <1>2 DEF Next

\* While a request stays where it is, its locks keep what it has checked.
LEMMA StayingChecks ==
    ASSUME IInv, TypeOK', [Next]_vars, NEW r \in Requests,
           pc'[r] = pc[r], call'[r] = call[r]
    PROVE  /\ pc[r] \in CreateSteps \ {"c_lock_node"} =>
                 Accepts(call[r].node, call[r].user)'
           /\ pc[r] \in {"c_lock_user", "c_count", "c_daemon", "c_commit", "u_commit"} =>
                 Fits(row', call[r].server, call[r].node, call[r].demand,
                      node'[call[r].node].cap)
           /\ pc[r] \in {"c_daemon", "c_commit"} /\ call[r].user \notin Admins =>
                 UnderLimit(row', call[r].user, limit'[call[r].user])
<1> DEFINE n == call[r].node
           u == call[r].user
           s == call[r].server
           d == call[r].demand
<1>0. pc[r] # "idle" => n \in Nodes /\ u \in Users /\ s \in Servers /\ d \in Demands
  BY ProvisioningAssumption DEF IInv, TypeOK, Call
<1>1. HoldsNode(r, n) => node'[n] = node[n]
  BY <1>0, LockedNodeStable DEF IInv, HoldsNode
<1>2. ASSUME pc[r] \in CreateSteps \ {"c_lock_node"}
      PROVE  Accepts(n, u)'
  <2>1. HoldsNode(r, n)
    BY <1>2 DEF CreateSteps, HoldsNode
  <2> QED
    BY <1>1, <1>2, <2>1 DEF IInv, ChecksStillHold, Accepts
<1>3. ASSUME pc[r] \in {"c_lock_user", "c_count", "c_daemon", "c_commit", "u_commit"}
      PROVE  Fits(row', s, n, d, node'[n].cap)
  <2>1. HoldsNode(r, n)
    BY <1>3 DEF HoldsNode
  <2>2. \A t \in Servers \ {s} : row'[t] # NoRow /\ row'[t].node = n => row[t] = row'[t]
    BY <1>0, <1>3, <2>1, LockedNodeRows DEF IInv
  <2>3. Fits(row, s, n, d, node[n].cap)
    BY <1>3 DEF IInv, ChecksStillHold
  <2>4. node[n] # NoNode
    <3>1. pc[r] # "u_commit" => node[n] # NoNode
      BY <1>3 DEF IInv, ChecksStillHold, CreateSteps, Accepts
    <3>2. pc[r] = "u_commit" => node[n] # NoNode
      BY <1>0 DEF IInv, LockedRowStays, NodeStands, UpdateSteps
    <3> QED
      BY <3>1, <3>2
  <2>5. node[n].cap \in [Resources -> Capacities]
    BY <1>0, <1>3, <2>4 DEF IInv, TypeOK, Config
  <2>6. row \in Table /\ row' \in Table
    BY DEF IInv, TypeOK, Table
  <2>7. Fits(row', s, n, d, node[n].cap)
    BY <1>0, <1>3, <2>2, <2>3, <2>5, <2>6, FitsStable
  <2> QED
    BY <1>1, <2>1, <2>7
<1>4. ASSUME pc[r] \in {"c_daemon", "c_commit"}, u \notin Admins
      PROVE  UnderLimit(row', u, limit'[u])
  <2>1. HoldsUser(r, u)
    BY <1>4 DEF HoldsUser
  <2>2. Owned(row', u) \subseteq Owned(row, u)
    BY <1>0, <1>4, <2>1, LockedUserRows DEF IInv
  <2>3. limit'[u] = limit[u]
    BY <1>0, <1>4, <2>1, LockedUserStable DEF IInv
  <2>4. UnderLimit(row, u, limit[u])
    BY <1>4 DEF IInv, ChecksStillHold
  <2>5. row \in Table /\ row' \in Table /\ limit[u] \in Nat \cup {NoLimit}
    BY <1>0, <1>4 DEF IInv, TypeOK, Table
  <2>6. UnderLimit(row', u, limit[u])
    BY <1>0, <1>4, <2>2, <2>4, <2>5, UnderLimitStable
  <2> QED
    BY <2>3, <2>6
<1> QED
  BY <1>2, <1>3, <1>4

\* No step makes stale what a request has checked under its locks.
LEMMA StepChecks == IInv /\ TypeOK' /\ [Next]_vars => ChecksStillHold'
<1> SUFFICES ASSUME IInv, TypeOK', [Next]_vars, NEW r \in Requests
             PROVE  /\ pc'[r] \in CreateSteps \ {"c_lock_node"} =>
                          Accepts(call[r].node, call[r].user)'
                    /\ pc'[r] \in {"c_lock_user", "c_count", "c_daemon", "c_commit", "u_commit"} =>
                          Fits(row', call'[r].server, call'[r].node, call'[r].demand,
                               node'[call'[r].node].cap)
                    /\ pc'[r] \in {"c_daemon", "c_commit"} /\ call'[r].user \notin Admins =>
                          UnderLimit(row', call'[r].user, limit'[call'[r].user])
  BY DEF ChecksStillHold
<1>1. CASE pc'[r] = pc[r] /\ call'[r] = call[r]
  BY <1>1, StayingChecks DEF Accepts
<1> USE DEF Goto, CreateSteps, Accepts
<1>2. CASE Arrival(r)
  BY <1>2 DEF Arrival, CreateBegin, UpdateBegin, DeleteBegin, ReapplyBegin, Arrive, IInv, TypeOK
<1>3. CASE CreateLockNode(r)
  BY <1>3 DEF CreateLockNode, IInv, TypeOK
<1>4. CASE CreateCheckCapacity(r)
  BY <1>4 DEF CreateCheckCapacity, IInv, TypeOK, ChecksStillHold
<1>5. CASE CreateLockUser(r)
  BY <1>5 DEF CreateLockUser, IInv, TypeOK, ChecksStillHold
<1>6. CASE CreateCountServers(r)
  BY <1>6 DEF CreateCountServers, IInv, TypeOK, ChecksStillHold
<1>7. CASE CreateDaemon(r)
  BY <1>7 DEF CreateDaemon, IInv, TypeOK, ChecksStillHold
<1>8. CASE UpdateCheckCapacity(r)
  BY <1>8 DEF UpdateCheckCapacity, IInv, TypeOK
<1>9. CASE \/ CreateCommit(r) \/ UpdateLockServer(r) \/ UpdateLockNode(r) \/ UpdateCommit(r)
           \/ Rebuild(r) \/ DeleteDaemon(r) \/ DeleteRow(r) \/ Abort(r)
  BY <1>9 DEF CreateCommit, UpdateLockServer, UpdateLockNode, UpdateCommit, Rebuild,
              DeleteDaemon, DeleteRow, Abort, IInv, TypeOK
<1> QED
  BY <1>1, <1>2, <1>3, <1>4, <1>5, <1>6, <1>7, <1>8, <1>9, OwnStep DEF Progress, IInv

-----------------------------------------------------------------------------
(* The theorems *)

\* No request has arrived yet, so the invariant holds.
LEMMA InitInv == Init => IInv
<1> SUFFICES ASSUME Init PROVE IInv
  OBVIOUS
<1>1. TypeOK
  BY InitType
<1>2. NodeStands
  BY CapacityAssumption, ProvisioningAssumption DEF Init, NodeStands, Row
<1>3. LocksExclusive /\ CreationsPrivate /\ LockedRowStays /\ ChecksStillHold /\ ContainerMade
  BY DEF Init, LocksExclusive, CreationsPrivate, LockedRowStays, ChecksStillHold,
         ContainerMade, HoldsServer, HoldsNode, HoldsUser, CreateSteps, UpdateSteps
<1> QED
  BY <1>1, <1>2, <1>3 DEF IInv

\* Every statement of a handler and every administrator keeps the invariant.
LEMMA StepInv == IInv /\ [Next]_vars => IInv'
<1> SUFFICES ASSUME IInv, [Next]_vars PROVE IInv'
  OBVIOUS
<1> USE DEF IInv
<1>1. TypeOK'
  BY StepType
<1>2. LocksExclusive'
  BY StepLocks
<1>3. CreationsPrivate'
  BY StepCreations
<1>4. LockedRowStays'
  BY StepLockedRow
<1>5. ContainerMade'
  BY StepContainer
<1>6. NodeStands'
  BY StepNodeStands
<1>7. ChecksStillHold'
  BY <1>1, StepChecks
<1> QED
  BY <1>1, <1>2, <1>3, <1>4, <1>5, <1>6, <1>7

\* Every reachable state satisfies the inductive invariant: locks have one holder,
\* uncommitted rows are private, and checks made under a lock are not stale.
THEOREM Invariance == Spec => []IInv
BY InitInv, StepInv, PTL DEF Spec

\* Every variable keeps its type: no statement writes to a row that is gone.
THEOREM TypeCorrect == Spec => []TypeOK
<1>1. IInv => TypeOK
  BY DEF IInv
<1> QED
  BY <1>1, Invariance, PTL

\* No server is ever left on a node that is gone (NodeHandler.Delete against
\* ServerHandler.Create and Update).
THEOREM ServersStandOnNodes == Spec => []NodeStands
<1>1. IInv => NodeStands
  BY DEF IInv
<1> QED
  BY <1>1, Invariance, PTL

\* What Create and Update checked under FOR UPDATE is still so when they commit.
THEOREM ChecksAreNotStale == Spec => []ChecksStillHold
<1>1. IInv => ChecksStillHold
  BY DEF IInv
<1> QED
  BY <1>1, Invariance, PTL

-----------------------------------------------------------------------------
(* What a commit does *)

\* The three statements that change the servers table.
LEMMA RowSteps ==
    ASSUME [Next]_vars
    PROVE  \/ \E r \in Requests : CreateCommit(r) \/ UpdateCommit(r) \/ DeleteRow(r)
           \/ UNCHANGED row
BY ZenonT(40) DEF Next, Arrival, Progress, Administration, Arrive, Goto,
       CreateBegin, UpdateBegin, DeleteBegin, ReapplyBegin, CreateLockNode, CreateCheckCapacity, CreateLockUser, CreateCountServers, CreateDaemon, CreateCommit,
       UpdateLockServer, UpdateLockNode, UpdateCheckCapacity, UpdateCommit, Rebuild, DeleteDaemon, DeleteRow, Abort,
       NodeUpdate, NodeReport, NodeDelete, UserUpdate, vars

\* What the commit of a create rests on.
LEMMA CreateCommitFacts ==
    ASSUME IInv, NEW r \in Requests, CreateCommit(r), NEW c, c = call[r]
    PROVE  /\ c \in Call
           /\ row[c.server] = NoRow
           /\ row' = [row EXCEPT ![c.server] =
                         [owner |-> c.user, node |-> c.node, demand |-> c.demand]]
           /\ Accepts(c.node, c.user)
           /\ node[c.node].cap \in [Resources -> Capacities]
           /\ Fits(row, c.server, c.node, c.demand, node[c.node].cap)
           /\ c.user \notin Admins => UnderLimit(row, c.user, limit[c.user])
           /\ container[c.server] = Applied(c.demand)
           /\ UNCHANGED <<node, limit, container>>
<1>1. pc[r] = "c_commit" /\ c \in Call
  BY DEF CreateCommit, IInv, TypeOK
<1>2. Accepts(c.node, c.user) /\ c.node \in Nodes
  BY <1>1 DEF IInv, ChecksStillHold, CreateSteps, Call
<1>3. node[c.node].cap \in [Resources -> Capacities]
  BY <1>2 DEF Accepts, IInv, TypeOK, Config
<1> QED
  BY <1>1, <1>2, <1>3
     DEF CreateCommit, IInv, CreationsPrivate, ChecksStillHold, ContainerMade, CreateSteps

\* What the commit of an update rests on.
LEMMA UpdateCommitFacts ==
    ASSUME IInv, NEW r \in Requests, UpdateCommit(r), NEW c, c = call[r]
    PROVE  /\ c \in Call
           /\ row[c.server] \in Row
           /\ row[c.server].node = c.node
           /\ row' = [row EXCEPT ![c.server].demand = c.demand]
           /\ node[c.node] # NoNode
           /\ node[c.node].cap \in [Resources -> Capacities]
           /\ Fits(row, c.server, c.node, c.demand, node[c.node].cap)
           /\ UNCHANGED <<node, limit, container>>
<1>1. pc[r] = "u_commit" /\ c \in Call
  BY DEF UpdateCommit, IInv, TypeOK
<1>2. row[c.server] # NoRow /\ row[c.server].node = c.node
  BY <1>1 DEF IInv, LockedRowStays, UpdateSteps
<1>3. row[c.server] \in Row
  BY <1>1, <1>2 DEF IInv, TypeOK, Call
<1>4. node[c.node] # NoNode
  BY <1>1, <1>2 DEF IInv, NodeStands, Call
<1>5. node[c.node].cap \in [Resources -> Capacities]
  BY <1>1, <1>4 DEF IInv, TypeOK, Config, Call
<1> QED
  BY <1>1, <1>2, <1>3, <1>4, <1>5 DEF UpdateCommit, IInv, ChecksStillHold

\* No memory, disk or cpu of a node is spent twice by requests that overlap.
THEOREM CapacityNeverOverspent == Spec => CapacityRespected
<1> DEFINE Room == \A s \in Servers :
          row'[s] # row[s] /\ row'[s] # NoRow =>
             HasRoom(row', row'[s].node, row'[s].demand, node'[row'[s].node].cap)
<1>1. ASSUME IInv, [Next]_vars PROVE Room
  <2> SUFFICES ASSUME NEW s \in Servers, row'[s] # row[s], row'[s] # NoRow
               PROVE  HasRoom(row', row'[s].node, row'[s].demand, node'[row'[s].node].cap)
    OBVIOUS
  <2>0. row \in Table
    BY <1>1 DEF IInv, TypeOK, Table
  <2>1. ASSUME NEW r \in Requests, CreateCommit(r)
        PROVE  HasRoom(row', row'[s].node, row'[s].demand, node'[row'[s].node].cap)
    <3> DEFINE c == call[r]
               x == [owner |-> c.user, node |-> c.node, demand |-> c.demand]
    <3>1. /\ c \in Call
          /\ row' = [row EXCEPT ![c.server] = x]
          /\ node[c.node].cap \in [Resources -> Capacities]
          /\ Fits(row, c.server, c.node, c.demand, node[c.node].cap)
          /\ node' = node
      BY <1>1, <2>1, CreateCommitFacts
    <3>2. x \in Row /\ x.node = c.node /\ x.demand = c.demand /\ s = c.server /\ row'[s] = x
      BY <2>0, <3>1 DEF Call, Row, Table
    <3> HIDE DEF x
    <3>3. HasRoom([row EXCEPT ![s] = x], x.node, x.demand, node[c.node].cap)
      BY <2>0, <3>1, <3>2, FitsThenHasRoom
    <3> QED
      BY <3>1, <3>2, <3>3
  <2>2. ASSUME NEW r \in Requests, UpdateCommit(r)
        PROVE  HasRoom(row', row'[s].node, row'[s].demand, node'[row'[s].node].cap)
    <3> DEFINE c == call[r]
               x == [row[c.server] EXCEPT !.demand = c.demand]
    <3>1. /\ c \in Call
          /\ row[c.server] \in Row
          /\ row[c.server].node = c.node
          /\ row' = [row EXCEPT ![c.server] = x]
          /\ node[c.node].cap \in [Resources -> Capacities]
          /\ Fits(row, c.server, c.node, c.demand, node[c.node].cap)
          /\ node' = node
      BY <1>1, <2>2, UpdateCommitFacts
    <3>2. x \in Row /\ x.node = c.node /\ x.demand = c.demand /\ s = c.server /\ row'[s] = x
      BY <2>0, <3>1 DEF Call, Row, Table
    <3> HIDE DEF x
    <3>3. HasRoom([row EXCEPT ![s] = x], x.node, x.demand, node[c.node].cap)
      BY <2>0, <3>1, <3>2, FitsThenHasRoom
    <3> QED
      BY <3>1, <3>2, <3>3
  <2>3. ASSUME NEW r \in Requests, DeleteRow(r)
        PROVE  HasRoom(row', row'[s].node, row'[s].demand, node'[row'[s].node].cap)
    BY <2>0, <2>3 DEF DeleteRow, Table
  <2> QED
    BY <1>1, <2>1, <2>2, <2>3, RowSteps
<1> QED
  BY <1>1, Invariance, PTL DEF Spec, CapacityRespected

\* No owner gets past server_limit, whatever creates and limit changes overlap.
THEOREM LimitNeverExceeded == Spec => LimitRespected
<1>1. ASSUME IInv, [Next]_vars
      PROVE  \A s \in Servers :
          row[s] = NoRow /\ row'[s] # NoRow /\ row'[s].owner \notin Admins =>
             LET u == row'[s].owner IN
             limit'[u] = NoLimit \/ Cardinality(Owned(row', u)) <= limit'[u]
  <2> SUFFICES ASSUME NEW s \in Servers, row[s] = NoRow, row'[s] # NoRow,
                      row'[s].owner \notin Admins, limit'[row'[s].owner] # NoLimit
               PROVE  Cardinality(Owned(row', row'[s].owner)) <= limit'[row'[s].owner]
    OBVIOUS
  <2>0. row \in Table
    BY <1>1 DEF IInv, TypeOK, Table
  <2>1. ASSUME NEW r \in Requests, CreateCommit(r)
        PROVE  Cardinality(Owned(row', row'[s].owner)) <= limit'[row'[s].owner]
    <3> DEFINE c == call[r]
               x == [owner |-> c.user, node |-> c.node, demand |-> c.demand]
    <3>1. /\ c \in Call
          /\ row' = [row EXCEPT ![c.server] = x]
          /\ c.user \notin Admins => UnderLimit(row, c.user, limit[c.user])
          /\ limit' = limit
      BY <1>1, <2>1, CreateCommitFacts
    <3>2. x \in Row /\ x.owner = c.user /\ s = c.server /\ row'[s] = x
      BY <2>0, <3>1 DEF Call, Row, Table
    <3>3. limit[c.user] \in Nat
      BY <1>1, <3>1, <3>2 DEF IInv, TypeOK, Call
    <3> HIDE DEF x
    <3>4. Cardinality(Owned([row EXCEPT ![s] = x], x.owner)) <= limit[c.user]
      BY <2>0, <3>1, <3>2, <3>3, UnderLimitThenWithin
    <3> QED
      BY <3>1, <3>2, <3>4
  <2>2. ASSUME NEW r \in Requests, UpdateCommit(r) PROVE FALSE
    <3>1. row[call[r].server] \in Row /\ row' = [row EXCEPT ![call[r].server].demand = call[r].demand]
      BY <1>1, <2>2, UpdateCommitFacts
    <3> QED
      BY <2>0, <3>1, CapacityAssumption DEF Table
  <2>3. ASSUME NEW r \in Requests, DeleteRow(r) PROVE FALSE
    BY <2>0, <2>3 DEF DeleteRow, Table
  <2> QED
    BY <1>1, <2>1, <2>2, <2>3, RowSteps
<1> QED
  BY <1>1, Invariance, PTL DEF Spec, LimitRespected

\* A server that can be seen has had its container made.
THEOREM ServersBornWithContainer == Spec => BornWithContainer
<1>1. ASSUME IInv, [Next]_vars
      PROVE  \A s \in Servers :
          row[s] = NoRow /\ row'[s] # NoRow => container'[s] = Applied(row'[s].demand)
  <2> SUFFICES ASSUME NEW s \in Servers, row[s] = NoRow, row'[s] # NoRow
               PROVE  container'[s] = Applied(row'[s].demand)
    OBVIOUS
  <2>0. row \in Table
    BY <1>1 DEF IInv, TypeOK, Table
  <2>1. ASSUME NEW r \in Requests, CreateCommit(r)
        PROVE  container'[s] = Applied(row'[s].demand)
    <3>1. /\ call[r] \in Call
          /\ row' = [row EXCEPT ![call[r].server] =
                [owner |-> call[r].user, node |-> call[r].node, demand |-> call[r].demand]]
          /\ container' = container
          /\ container[call[r].server] = Applied(call[r].demand)
      BY <1>1, <2>1, CreateCommitFacts
    <3> QED
      BY <2>0, <3>1 DEF Table, Call
  <2>2. ASSUME NEW r \in Requests, UpdateCommit(r) PROVE FALSE
    <3>1. row[call[r].server] \in Row /\ row' = [row EXCEPT ![call[r].server].demand = call[r].demand]
      BY <1>1, <2>2, UpdateCommitFacts
    <3> QED
      BY <2>0, <3>1, CapacityAssumption DEF Table
  <2>3. ASSUME NEW r \in Requests, DeleteRow(r) PROVE FALSE
    BY <2>0, <2>3 DEF DeleteRow, Table
  <2> QED
    BY <1>1, <2>1, <2>2, <2>3, RowSteps
<1> QED
  BY <1>1, Invariance, PTL DEF Spec, BornWithContainer

-----------------------------------------------------------------------------
(* Provisioning implements ServerLedger *)

\* The checks of the ledger are those of the handlers.
LEMMA SameChecks ==
    ASSUME NEW rows, NEW s, NEW n, NEW d, NEW cap, NEW u, NEW l
    PROVE  /\ L!Fits(rows, s, n, d, cap) <=> Fits(rows, s, n, d, cap)
           /\ L!UnderLimit(rows, u, l) <=> UnderLimit(rows, u, l)
           /\ L!Placed(rows, n) = Placed(rows, n)
<1>1. L!Placed(rows, n) = Placed(rows, n)
  BY DEF L!Placed, Placed
<1>0. \A S : L!Cardinality(S) = Cardinality(S)
  BY DEF L!Cardinality, Cardinality
<1>2. ASSUME NEW k, NEW S PROVE L!Booked(rows, n, k, S) = Booked(rows, n, k, S)
  <2>1. L!Units(rows, n, k, S) = Units(rows, n, k, S)
    BY <1>1 DEF L!Units, Units
  <2> QED
    BY <1>0, <2>1 DEF L!Booked, Booked
<1>3. L!Owned(rows, u) = Owned(rows, u)
  BY DEF L!Owned, Owned
<1>4. L!Fits(rows, s, n, d, cap) <=> Fits(rows, s, n, d, cap)
  BY <1>2 DEF L!Fits, Fits
<1>5. L!UnderLimit(rows, u, l) <=> UnderLimit(rows, u, l)
  BY <1>0, <1>3 DEF L!UnderLimit, UnderLimit
<1> QED
  BY <1>1, <1>4, <1>5

\* The statements that change none of the three tables.
LEMMA OtherSteps ==
    ASSUME [Next]_vars
    PROVE  \/ \E r \in Requests : CreateCommit(r) \/ UpdateCommit(r) \/ DeleteRow(r)
           \/ \E n \in Nodes : NodeUpdate(n) \/ NodeReport(n) \/ NodeDelete(n)
           \/ \E u \in Users : UserUpdate(u)
           \/ UNCHANGED <<row, node, limit>>
<1>1. ASSUME NEW r \in Requests, Arrival(r) PROVE UNCHANGED <<row, node, limit>>
  BY <1>1 DEF Arrival, CreateBegin, UpdateBegin, DeleteBegin, ReapplyBegin, Arrive
<1>2. ASSUME NEW r \in Requests, Progress(r), ~CreateCommit(r), ~UpdateCommit(r), ~DeleteRow(r)
      PROVE  UNCHANGED <<row, node, limit>>
  BY <1>2 DEF Progress, CreateLockNode, CreateCheckCapacity, CreateLockUser,
              CreateCountServers, CreateDaemon, UpdateLockServer, UpdateLockNode,
              UpdateCheckCapacity, Rebuild, DeleteDaemon
<1>3. ASSUME NEW r \in Requests, Abort(r) PROVE UNCHANGED <<row, node, limit>>
  BY <1>3 DEF Abort
<1> QED
  BY <1>1, <1>2, <1>3 DEF Next, Administration, vars

\* Every step of a handler is a step of the ledger or none: the commit is where a
\* server appears or is resized, the DELETE where it disappears.
LEMMA StepLedger == IInv /\ [Next]_vars => [L!LedgerNext]_(L!ledger)
<1> SUFFICES ASSUME IInv, [Next]_vars PROVE [L!LedgerNext]_(L!ledger)
  OBVIOUS
<1>0. row \in Table
  BY DEF IInv, TypeOK, Table
<1>1. ASSUME NEW r \in Requests, CreateCommit(r) PROVE L!LedgerNext
  <2> DEFINE c == call[r]
  <2>1. c \in Call
    BY <1>1, CreateCommitFacts
  <2>2. L!Appear(c.server, c.user, c.node, c.demand)
    BY <1>1, CreateCommitFacts, SameChecks DEF L!Appear, Accepts
  <2> QED
    BY <2>1, <2>2 DEF L!LedgerNext, Call
<1>2. ASSUME NEW r \in Requests, UpdateCommit(r) PROVE L!LedgerNext
  <2> DEFINE c == call[r]
  <2>1. c \in Call
    BY <1>2, UpdateCommitFacts
  <2>2. L!Resize(c.server, c.demand)
    BY <1>2, UpdateCommitFacts, SameChecks, CapacityAssumption DEF L!Resize
  <2> QED
    BY <2>1, <2>2 DEF L!LedgerNext, Call
<1>3. ASSUME NEW r \in Requests, DeleteRow(r) PROVE [L!LedgerNext]_(L!ledger)
  <2> DEFINE s == call[r].server
  <2>1. s \in Servers /\ row' = [row EXCEPT ![s] = NoRow] /\ UNCHANGED <<node, limit>>
    BY <1>3 DEF DeleteRow, IInv, TypeOK, Call
  <2>2. CASE row[s] = NoRow
    BY <1>0, <2>1, <2>2 DEF L!ledger, Table
  <2>3. CASE row[s] # NoRow
    BY <2>1, <2>3 DEF L!LedgerNext, L!Disappear
  <2> QED
    BY <2>2, <2>3
<1>4. ASSUME NEW n \in Nodes, NodeUpdate(n) \/ NodeReport(n) PROVE L!LedgerNext
  <2>1. node[n] # NoNode /\ UNCHANGED <<row, limit>>
    BY <1>4 DEF NodeUpdate, NodeReport
  <2>2. node'[n] \in Config
    BY <1>4, ProvisioningAssumption
       DEF NodeUpdate, NodeReport, Config, Capacities, IInv, TypeOK
  <2>3. node' = [node EXCEPT ![n] = node'[n]]
    BY <1>4 DEF NodeUpdate, NodeReport, IInv, TypeOK
  <2>4. L!Reconfigure(n)
    BY <2>1, <2>2, <2>3 DEF L!Reconfigure, L!Config, L!Capacities, Config, Capacities
  <2> QED
    BY <2>4 DEF L!LedgerNext
<1>5. ASSUME NEW n \in Nodes, NodeDelete(n) PROVE L!LedgerNext
  <2>1. L!RemoveNode(n)
    BY <1>5, SameChecks DEF NodeDelete, L!RemoveNode
  <2> QED
    BY <2>1 DEF L!LedgerNext
<1>6. ASSUME NEW u \in Users, UserUpdate(u) PROVE L!LedgerNext
  <2>1. L!ChangeLimit(u)
    BY <1>6, ProvisioningAssumption DEF UserUpdate, L!ChangeLimit, IInv, TypeOK
  <2> QED
    BY <2>1 DEF L!LedgerNext
<1> QED
  BY <1>1, <1>2, <1>3, <1>4, <1>5, <1>6, OtherSteps DEF L!ledger

\* Statement by statement, under row locks, the handlers add up to single steps
\* that check the node, its capacity and the owner's limit as they are then.
THEOREM Refinement == Spec => ImplementsLedger
<1>1. Init => L!LedgerInit
  <2> SUFFICES ASSUME Init PROVE L!LedgerInit
    OBVIOUS
  <2>1. NodeStands
    BY InitInv DEF IInv
  <2> QED
    BY <2>1 DEF Init, L!LedgerInit, NodeStands, L!Row, Row
<1> QED
  BY <1>1, StepLedger, Invariance, PTL DEF Spec, ImplementsLedger, L!Ledger
-----------------------------------------------------------------------------
(* The order of the row locks *)

\* Whoever holds a server's row waits at most for a node.
LEMMA ServerHolderWaits ==
    ASSUME NEW q \in Requests, NEW s, NEW p \in Requests,
           HoldsServer(q, s), WaitsFor(q, p)
    PROVE  HoldsNode(p, call[q].node)
BY DEF HoldsServer, WaitsFor

\* Whoever holds a node's row waits at most for an owner.
LEMMA NodeHolderWaits ==
    ASSUME NEW q \in Requests, NEW n, NEW p \in Requests,
           HoldsNode(q, n), WaitsFor(q, p)
    PROVE  HoldsUser(p, call[q].user)
BY DEF HoldsNode, WaitsFor

\* Whoever holds an owner's row waits for nobody.
LEMMA UserHolderRuns ==
    ASSUME NEW q \in Requests, NEW u, NEW p \in Requests, HoldsUser(q, u)
    PROVE  ~WaitsFor(q, p)
BY DEF HoldsUser, WaitsFor

\* The row locks of Create, Update and Delete are taken in the order server,
\* node, owner, so a chain of waiting requests has at most three links and never
\* closes, for any number of requests.
THEOREM LocksNeverDeadlock == Spec => []NoLockCycle
<1>1. NoLockCycle
  <2> SUFFICES ASSUME NEW group \in (SUBSET Requests) \ {{}},
                      \A r \in group : \E q \in group : WaitsFor(r, q)
               PROVE  FALSE
    BY DEF NoLockCycle
  <2>1. ASSUME NEW q \in group, NEW u, HoldsUser(q, u)
        PROVE  FALSE
    BY <2>1, UserHolderRuns
  <2>2. ASSUME NEW q \in group, NEW n, HoldsNode(q, n)
        PROVE  FALSE
    <3>1. PICK p \in group : WaitsFor(q, p)
      OBVIOUS
    <3>2. HoldsUser(p, call[q].user)
      BY <2>2, <3>1, NodeHolderWaits
    <3> QED
      BY <2>1, <3>2
  <2>3. ASSUME NEW q \in group, NEW s, HoldsServer(q, s)
        PROVE  FALSE
    <3>1. PICK p \in group : WaitsFor(q, p)
      OBVIOUS
    <3>2. HoldsNode(p, call[q].node)
      BY <2>3, <3>1, ServerHolderWaits
    <3> QED
      BY <2>2, <3>2
  <2>4. PICK r \in group : \E q \in group : WaitsFor(r, q)
    OBVIOUS
  <2>5. PICK q \in group : WaitsFor(r, q)
    BY <2>4
  <2> QED
    BY <2>1, <2>2, <2>3, <2>5 DEF WaitsFor
<1> QED
  BY <1>1, PTL

\* How far a request has come.
Distance ==
    [st \in Steps |->
        CASE st = "idle" -> 0
          [] st \in {"c_lock_node", "u_lock_server", "d_daemon"} -> 1
          [] st \in {"c_capacity", "u_lock_node", "d_row"} -> 2
          [] st \in {"c_lock_user", "u_capacity"} -> 3
          [] st \in {"c_count", "u_commit"} -> 4
          [] st \in {"c_daemon", "rebuild"} -> 5
          [] st = "c_commit" -> 6
          [] st = "done" -> 7]

\* No handler repeats a statement: what a request has behind it stays behind it, so
\* it takes at most seven steps.  With LocksNeverDeadlock this is why RequestsFinish
\* holds, fairness aside.
THEOREM RequestsOnlyMoveOn ==
    Spec => [][\A r \in Requests :
                  pc'[r] # pc[r] => Distance[pc[r]] < Distance[pc'[r]]]_vars
<1>1. ASSUME TypeOK, NEW q \in Requests, NEW st \in Steps, Goto(q, st),
             Distance[pc[q]] < Distance[st]
      PROVE  \A r \in Requests : pc'[r] # pc[r] => Distance[pc[r]] < Distance[pc'[r]]
  BY <1>1 DEF TypeOK, Goto
<1>2. ASSUME TypeOK, [Next]_vars
      PROVE  \A r \in Requests : pc'[r] # pc[r] => Distance[pc[r]] < Distance[pc'[r]]
  <2> USE <1>2
  <2>1. ASSUME NEW q \in Requests, Arrival(q)
        PROVE  \A r \in Requests : pc'[r] # pc[r] => Distance[pc[r]] < Distance[pc'[r]]
    <3>1. PICK st \in {"c_lock_node", "u_lock_server", "d_daemon", "rebuild"} :
             pc[q] = "idle" /\ Goto(q, st)
      BY <2>1 DEF Arrival, CreateBegin, UpdateBegin, DeleteBegin, ReapplyBegin, Arrive
    <3>2. st \in Steps /\ Distance[pc[q]] < Distance[st]
      BY <3>1 DEF Steps, CreateSteps, UpdateSteps, DeleteSteps, Distance
    <3> QED
      BY <1>1, <3>1, <3>2
  <2>2. ASSUME NEW q \in Requests, Progress(q)
        PROVE  \A r \in Requests : pc'[r] # pc[r] => Distance[pc[r]] < Distance[pc'[r]]
    <3> DEFINE Onwards ==
          {<<"c_lock_node", "c_capacity">>, <<"c_capacity", "c_daemon">>,
           <<"c_capacity", "c_lock_user">>, <<"c_lock_user", "c_count">>,
           <<"c_count", "c_daemon">>, <<"c_daemon", "c_commit">>,
           <<"u_lock_server", "u_lock_node">>, <<"u_lock_node", "u_capacity">>,
           <<"u_capacity", "u_commit">>, <<"u_commit", "rebuild">>,
           <<"d_daemon", "d_row">>}
    <3>1. PICK st \in Steps :
             Goto(q, st) /\ (<<pc[q], st>> \in Onwards \/ (pc[q] # "done" /\ st = "done"))
      BY <2>2 DEF Progress, CreateLockNode, CreateCheckCapacity, CreateLockUser,
         CreateCountServers, CreateDaemon, CreateCommit, UpdateLockServer, UpdateLockNode,
         UpdateCheckCapacity, UpdateCommit, Rebuild, DeleteDaemon, DeleteRow,
         Steps, CreateSteps, UpdateSteps, DeleteSteps
    <3>2. Distance[pc[q]] < Distance[st]
      BY <3>1 DEF TypeOK, Steps, CreateSteps, UpdateSteps, DeleteSteps, Distance
    <3> QED
      BY <1>1, <3>1, <3>2
  <2>3. ASSUME NEW q \in Requests, Abort(q)
        PROVE  \A r \in Requests : pc'[r] # pc[r] => Distance[pc[r]] < Distance[pc'[r]]
    <3>1. Goto(q, "done") /\ "done" \in Steps /\ pc[q] \in Steps \ {"done"}
      BY <2>3 DEF Abort, TypeOK, Steps
    <3>2. Distance[pc[q]] < Distance["done"]
      BY <3>1 DEF Steps, CreateSteps, UpdateSteps, DeleteSteps, Distance
    <3> QED
      BY <1>1, <3>1, <3>2
  <2>4. CASE Administration \/ UNCHANGED vars
    BY <2>4 DEF Administration, NodeUpdate, NodeReport, NodeDelete, UserUpdate, vars
  <2> QED
    BY <2>1, <2>2, <2>3, <2>4 DEF Next
<1> QED
  BY <1>2, TypeCorrect, PTL DEF Spec
=============================================================================
