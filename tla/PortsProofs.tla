---------------------------- MODULE PortsProofs -----------------------------
(***************************************************************************)
(* The ports of a node for any number of servers, ports, requests and ids. *)
(* Inv says what holds of every server; CalmInv adds what holds of the     *)
(* calm ones, beside any others.                                           *)
(***************************************************************************)
EXTENDS Ports, TLAPS

\* A request works on a server that has been born.
WorkedIsBorn ==
    \A r \in Requests : work[r] # Idle => life[work[r].server] # "new"

\* Only a request for a port counts, books and gives one back.
AsksForPort ==
    \A r \in Requests :
        /\ At(r, "count") \/ At(r, "claim") => work[r].port \in HostPorts /\ work[r].adds
        /\ work[r] # Idle /\ work[r].adds => work[r].port \in HostPorts
        /\ At(r, "release") => work[r].adds

Inv == TypeOK /\ BookedForLiving /\ WorkedIsBorn /\ AsksForPort

\* Request r works on a calm server.
Tends(r) == work[r] # Idle /\ work[r].server \in Calm

\* A calm server has one request at a time, and stays until it is done.
OneAtATime ==
    \A r, o \in Requests :
        Tends(r) /\ work[o] # Idle /\ r # o => work[r].server # work[o].server

WorkedIsLive ==
    \A r \in Requests : Tends(r) => life[work[r].server] = "live"

\* The row a request has booked and not yet published.
Pending(r) ==
    IF work[r].adds THEN {p \in HostPorts : alloc[p] # NoRow /\ alloc[p].id = work[r].id}
                    ELSE {}

\* What a calm server publishes lacks at most the row the request has booked ...
LacksPending ==
    \A r \in Requests :
        Tends(r) =>
            LET s == work[r].server IN
            Booked(s) \subseteq published[s] \cup
                (IF work[r].step \in {"read", "rebuild", "release"} THEN Pending(r) ELSE {})

\* ... and what is read for the rebuild lacks nothing.
SeenIsEnough ==
    \A r \in Requests :
        Tends(r) /\ At(r, "rebuild") => Booked(work[r].server) \subseteq work[r].seen

\* Also a container that was lost published all of it: it may be brought back.
BookedWasPublished ==
    \A s \in Calm : life[s] = "live" /\ Unattended(s) => Booked(s) \subseteq published[s]

CalmInv == /\ Inv
             /\ OneAtATime
             /\ WorkedIsLive
             /\ LacksPending
             /\ SeenIsEnough
             /\ BookedWasPublished

-----------------------------------------------------------------------------
(* Whatever overlaps and fails *)

\* An empty table satisfies every invariant (0001_init.sql).
LEMMA InitInv == ASSUME Init PROVE CalmInv
<1> USE PortsAssumption DEF Init
<1>1. TypeOK
  BY DEF TypeOK
<1> QED
  BY <1>1 DEF CalmInv, Inv, BookedForLiving, WorkedIsBorn, OneAtATime, WorkedIsLive,
     AsksForPort, LacksPending, SeenIsEnough, BookedWasPublished, At, Tends, Unattended, Booked

\* A request to add a port begins.
LEMMA AddBeginInv == ASSUME Inv, NEW r \in Requests, AddBegin(r) PROVE Inv'
<1> USE PortsAssumption DEF AddBegin, At, Begin, Booked, Unattended, Inv
<1>1. TypeOK'
  BY DEF TypeOK, Row, Work
<1>2. BookedForLiving'
  BY DEF TypeOK, BookedForLiving, WorkedIsBorn, Row, Work
<1>3. WorkedIsBorn'
  BY DEF TypeOK, WorkedIsBorn, Row, Work
<1>4. AsksForPort'
  BY DEF TypeOK, AsksForPort, Work
<1> QED BY <1>1, <1>2, <1>3, <1>4

\* The ports are counted; only the step of the request changes.
LEMMA AddCountInv == ASSUME Inv, NEW r \in Requests, AddCount(r) PROVE Inv'
<1> USE PortsAssumption DEF AddCount, At, Goto, Finish, Then, Booked, Inv
<1>1. TypeOK'
  BY DEF TypeOK, Row, Work
<1>2. BookedForLiving'
  BY DEF TypeOK, BookedForLiving, WorkedIsBorn, Row, Work
<1>3. WorkedIsBorn'
  BY DEF TypeOK, WorkedIsBorn, Row, Work
<1>4. AsksForPort'
  BY DEF TypeOK, AsksForPort, Work
<1> QED BY <1>1, <1>2, <1>3, <1>4

\* A port is booked, by an insert or out of the pool, or refused.
LEMMA AddClaimInv == ASSUME Inv, NEW r \in Requests, AddClaim(r) PROVE Inv'
<1> USE PortsAssumption DEF AddClaim, At, Given, Finish, Then, Booked, Inv
<1>1. TypeOK'
  <2> USE DEF TypeOK, AsksForPort, Row, Work
  <2>1. work' \in [Requests -> Work \cup {Idle}]
    OBVIOUS
  <2>2. alloc' \in [HostPorts -> Row \cup {NoRow}] /\ nextId' \in 0 .. MaxId
    <3>1. CASE UNCHANGED <<alloc, nextId>>
      BY <3>1
    <3>2. CASE UNCHANGED nextId /\ work[r].port \in Booked(Free)
               /\ alloc' = [alloc EXCEPT ![work[r].port] = Given(@, work[r].server)]
      BY <3>2
    <3>3. CASE nextId < MaxId /\ nextId' = nextId + 1 /\ alloc[work[r].port] = NoRow
               /\ alloc' = [alloc EXCEPT ![work[r].port] =
                               [id |-> nextId, owner |-> work[r].server, own |-> TRUE]]
      BY <3>3
    <3> QED BY <3>1, <3>2, <3>3
  <2> QED BY <2>1, <2>2
<1>2. BookedForLiving'
  BY DEF TypeOK, BookedForLiving, WorkedIsBorn, Row, Work
<1>3. WorkedIsBorn'
  BY DEF TypeOK, WorkedIsBorn, Row, Work
<1>4. AsksForPort'
  BY DEF TypeOK, AsksForPort, Work
<1> QED BY <1>1, <1>2, <1>3, <1>4

\* A booked port is given back by the id of its row.
LEMMA AddReleaseInv == ASSUME Inv, NEW r \in Requests, AddRelease(r) PROVE Inv'
<1> USE PortsAssumption DEF AddRelease, At, Given, Finish, Released, Booked, Inv
<1>1. TypeOK'
  BY DEF TypeOK, Row, Work
<1>2. BookedForLiving'
  BY DEF TypeOK, BookedForLiving, WorkedIsBorn, Row, Work
<1>3. WorkedIsBorn'
  BY DEF TypeOK, WorkedIsBorn, Row, Work
<1>4. AsksForPort'
  BY DEF TypeOK, AsksForPort, Work
<1> QED BY <1>1, <1>2, <1>3, <1>4

\* A request to drop a port begins.
LEMMA DropBeginInv == ASSUME Inv, NEW r \in Requests, DropBegin(r) PROVE Inv'
<1> USE PortsAssumption DEF DropBegin, At, Begin, Booked, Unattended, Inv
<1>1. TypeOK'
  BY DEF TypeOK, Row, Work
<1>2. BookedForLiving'
  BY DEF TypeOK, BookedForLiving, WorkedIsBorn, Row, Work
<1>3. WorkedIsBorn'
  BY DEF TypeOK, WorkedIsBorn, Row, Work
<1>4. AsksForPort'
  BY DEF TypeOK, AsksForPort, Work
<1> QED BY <1>1, <1>2, <1>3, <1>4

\* A port is dropped: deleted or back in the pool.
LEMMA DropRowInv == ASSUME Inv, NEW r \in Requests, DropRow(r) PROVE Inv'
<1> USE PortsAssumption DEF DropRow, At, Given, Goto, Then, Released, Booked, Inv
<1>1. TypeOK'
  BY DEF TypeOK, Row, Work
<1>2. BookedForLiving'
  BY DEF TypeOK, BookedForLiving, WorkedIsBorn, Row, Work
<1>3. WorkedIsBorn'
  BY DEF TypeOK, WorkedIsBorn, Row, Work
<1>4. AsksForPort'
  BY DEF TypeOK, AsksForPort, Work
<1> QED BY <1>1, <1>2, <1>3, <1>4

\* A rebuild begins that changes no row.
LEMMA RebuildBeginInv == ASSUME Inv, NEW r \in Requests, RebuildBegin(r) PROVE Inv'
<1> USE PortsAssumption DEF RebuildBegin, At, Begin, Booked, Unattended, Inv
<1>1. TypeOK'
  BY DEF TypeOK, Row, Work
<1>2. BookedForLiving'
  BY DEF TypeOK, BookedForLiving, WorkedIsBorn, Row, Work
<1>3. WorkedIsBorn'
  BY DEF TypeOK, WorkedIsBorn, Row, Work
<1>4. AsksForPort'
  BY DEF TypeOK, AsksForPort, Work
<1> QED BY <1>1, <1>2, <1>3, <1>4

\* The ports are read for the rebuild.
LEMMA ApplyReadInv == ASSUME Inv, NEW r \in Requests, ApplyRead(r) PROVE Inv'
<1> USE PortsAssumption DEF ApplyRead, At, Goto, Finish, Failed, Then, Booked, Inv
<1>1. TypeOK'
  BY DEF TypeOK, Row, Work
<1>2. BookedForLiving'
  BY DEF TypeOK, BookedForLiving, WorkedIsBorn, Row, Work
<1>3. WorkedIsBorn'
  BY DEF TypeOK, WorkedIsBorn, Row, Work
<1>4. AsksForPort'
  BY DEF TypeOK, AsksForPort, Work
<1> QED BY <1>1, <1>2, <1>3, <1>4

\* The container is rebuilt, or the rebuild fails, or both.
LEMMA ApplyRebuildInv == ASSUME Inv, NEW r \in Requests, ApplyRebuild(r) PROVE Inv'
<1> USE PortsAssumption DEF ApplyRebuild, At, Goto, Finish, Failed, Then, Booked, Inv
<1>1. TypeOK'
  BY DEF TypeOK, Row, Work
<1>2. BookedForLiving'
  BY DEF TypeOK, BookedForLiving, WorkedIsBorn, Row, Work
<1>3. WorkedIsBorn'
  BY DEF TypeOK, WorkedIsBorn, Row, Work
<1>4. AsksForPort'
  BY DEF TypeOK, AsksForPort, Work
<1> QED BY <1>1, <1>2, <1>3, <1>4

\* A request is cut off.
LEMMA AbortInv == ASSUME Inv, NEW r \in Requests, Abort(r) PROVE Inv'
<1> USE PortsAssumption DEF Abort, At, Finish, Booked, Inv
<1>1. TypeOK'
  BY DEF TypeOK, Row, Work
<1>2. BookedForLiving'
  BY DEF TypeOK, BookedForLiving, WorkedIsBorn, Row, Work
<1>3. WorkedIsBorn'
  BY DEF TypeOK, WorkedIsBorn, Row, Work
<1>4. AsksForPort'
  BY DEF TypeOK, AsksForPort, Work
<1> QED BY <1>1, <1>2, <1>3, <1>4

\* A server is born, with a port of the pool or none.
LEMMA ServerCreateInv == ASSUME Inv, NEW s \in Servers, ServerCreate(s) PROVE Inv'
<1> USE PortsAssumption DEF ServerCreate, At, Given, Booked, Inv
<1>1. TypeOK'
  BY DEF TypeOK, Row, Work
<1>2. BookedForLiving'
  BY DEF TypeOK, BookedForLiving, WorkedIsBorn, Row, Work
<1>3. WorkedIsBorn'
  BY DEF TypeOK, WorkedIsBorn, Row, Work
<1>4. AsksForPort'
  BY DEF TypeOK, AsksForPort, Work
<1> QED BY <1>1, <1>2, <1>3, <1>4

\* A server's container goes.
LEMMA ServerRemoveInv == ASSUME Inv, NEW s \in Servers, ServerRemove(s) PROVE Inv'
<1> USE PortsAssumption DEF ServerRemove, At, Booked, Unattended, Inv
<1>1. TypeOK'
  BY DEF TypeOK, Row, Work
<1>2. BookedForLiving'
  BY DEF TypeOK, BookedForLiving, WorkedIsBorn, Row, Work
<1>3. WorkedIsBorn'
  BY DEF TypeOK, WorkedIsBorn, Row, Work
<1>4. AsksForPort'
  BY DEF TypeOK, AsksForPort, Work
<1> QED BY <1>1, <1>2, <1>3, <1>4

\* A server's row goes, and its ports return to the pool.
LEMMA ServerGoneInv == ASSUME Inv, NEW s \in Servers, ServerGone(s) PROVE Inv'
<1> USE PortsAssumption DEF ServerGone, At, Given, Booked, MayGo, Unattended, Inv
<1>1. TypeOK'
  BY DEF TypeOK, Row, Work
<1>2. BookedForLiving'
  BY DEF TypeOK, BookedForLiving, WorkedIsBorn, Row, Work
<1>3. WorkedIsBorn'
  BY DEF TypeOK, WorkedIsBorn, Row, Work
<1>4. AsksForPort'
  BY DEF TypeOK, AsksForPort, Work
<1> QED BY <1>1, <1>2, <1>3, <1>4

\* The pool gains a port.
LEMMA PoolAddInv == ASSUME Inv, NEW p \in HostPorts, PoolAdd(p) PROVE Inv'
<1> USE PortsAssumption DEF PoolAdd, At, Booked, Inv
<1>1. TypeOK'
  BY DEF TypeOK, Row, Work
<1>2. BookedForLiving'
  BY DEF TypeOK, BookedForLiving, WorkedIsBorn, Row, Work
<1>3. WorkedIsBorn'
  BY DEF TypeOK, WorkedIsBorn, Row, Work
<1>4. AsksForPort'
  BY DEF TypeOK, AsksForPort, Work
<1> QED BY <1>1, <1>2, <1>3, <1>4

\* The pool loses a free port.
LEMMA PoolRemoveInv == ASSUME Inv, NEW p \in HostPorts, PoolRemove(p) PROVE Inv'
<1> USE PortsAssumption DEF PoolRemove, At, Booked, Inv
<1>1. TypeOK'
  BY DEF TypeOK, Row, Work
<1>2. BookedForLiving'
  BY DEF TypeOK, BookedForLiving, WorkedIsBorn, Row, Work
<1>3. WorkedIsBorn'
  BY DEF TypeOK, WorkedIsBorn, Row, Work
<1>4. AsksForPort'
  BY DEF TypeOK, AsksForPort, Work
<1> QED BY <1>1, <1>2, <1>3, <1>4

\* Every step keeps Inv.
LEMMA StepInv == ASSUME Inv, [Next]_vars PROVE Inv'
<1>1. ASSUME NEW r \in Requests,
             AddBegin(r) \/ DropBegin(r) \/ RebuildBegin(r) \/ RequestRuns(r) \/ Abort(r)
      PROVE Inv'
  BY <1>1, AddBeginInv, AddCountInv, AddClaimInv, AddReleaseInv, DropBeginInv,
     DropRowInv, RebuildBeginInv, ApplyReadInv, ApplyRebuildInv, AbortInv DEF
     RequestRuns
<1>2. ASSUME NEW s \in Servers, ServerCreate(s) \/ ServerRemove(s) \/ ServerGone(s)
      PROVE Inv'
  BY <1>2, ServerCreateInv, ServerRemoveInv, ServerGoneInv
<1>3. ASSUME NEW p \in HostPorts, PoolAdd(p) \/ PoolRemove(p) PROVE Inv'
  BY <1>3, PoolAddInv, PoolRemoveInv
<1>4. CASE UNCHANGED vars
  BY <1>4 DEF vars, Inv, TypeOK, BookedForLiving, WorkedIsBorn, AsksForPort,
     At, Booked
<1> QED BY <1>1, <1>2, <1>3, <1>4 DEF Next

\* Inv holds in every reachable state, whatever overlaps, fails and is cut off.
THEOREM Invariance == Spec => []Inv
<1>1. Init => Inv
  BY InitInv DEF CalmInv
<1>2. Inv /\ [Next]_vars => Inv'
  BY StepInv
<1> QED BY <1>1, <1>2, PTL DEF Spec

\* Every variable keeps its type.
THEOREM TypeCorrect == Spec => []TypeOK
<1>1. Inv => TypeOK
  BY DEF Inv
<1> QED BY <1>1, Invariance, PTL

\* No port is booked for a server that is gone, however late the request that
\* books it (server_allocation_handler.go Create, ON DELETE SET NULL).
THEOREM NoPortOfTheGone == Spec => []BookedForLiving
<1>1. Inv => BookedForLiving
  BY DEF Inv
<1> QED BY <1>1, Invariance, PTL

\* No step deletes a row of the pool that a server holds (0010_user_allocations.sql).
THEOREM PoolKept == Spec => PoolConserved
<1> DEFINE Kept == \A p \in HostPorts :
                       alloc[p] # NoRow /\ ~alloc[p].own /\ alloc[p].owner # Free =>
                           alloc'[p] # NoRow /\ alloc'[p].id = alloc[p].id
<1>1. ASSUME Inv, [Next]_vars PROVE Kept
  <2> USE PortsAssumption, <1>1 DEF Inv, TypeOK, Row, Work
  <2>1. ASSUME NEW r \in Requests, RequestRuns(r) PROVE Kept
    <3>1. CASE AddClaim(r)
      BY <3>1 DEF AddClaim, Booked, Given
    <3>2. CASE AddRelease(r)
      BY <3>2 DEF AddRelease, Released, Given
    <3>3. CASE DropRow(r)
      BY <3>3 DEF DropRow, Released, Given
    <3> QED BY <2>1, <3>1, <3>2, <3>3 DEF RequestRuns, AddCount, ApplyRead, ApplyRebuild
  <2>2. ASSUME NEW r \in Requests,
               AddBegin(r) \/ DropBegin(r) \/ RebuildBegin(r) \/ Abort(r)
        PROVE Kept
    BY <2>2 DEF AddBegin, DropBegin, RebuildBegin, Abort
  <2>3. ASSUME NEW s \in Servers, ServerCreate(s) \/ ServerRemove(s) \/ ServerGone(s)
        PROVE Kept
    BY <2>3 DEF ServerCreate, ServerRemove, ServerGone, Booked, Given
  <2>4. ASSUME NEW p \in HostPorts, PoolAdd(p) \/ PoolRemove(p) PROVE Kept
    BY <2>4 DEF PoolAdd, PoolRemove, Booked
  <2>5. CASE UNCHANGED vars
    BY <2>5 DEF vars
  <2> QED BY <2>1, <2>2, <2>3, <2>4, <2>5 DEF Next
<1> QED BY <1>1, Invariance, PTL DEF Spec, PoolConserved

-----------------------------------------------------------------------------
(* Calm servers *)

\* A request to add a port begins.
LEMMA AddBeginCalm == ASSUME CalmInv, NEW r \in Requests, AddBegin(r) PROVE CalmInv'
<1> USE PortsAssumption DEF AddBegin, At, Begin, Booked, Unattended, Pending, Tends,
      CalmInv
<1>1. Inv'
  BY AddBeginInv
<1>2. OneAtATime'
  BY DEF Inv, TypeOK, Work, OneAtATime
<1>3. WorkedIsLive'
  BY DEF Inv, TypeOK, Work, WorkedIsLive
<1>4. LacksPending'
  BY DEF Inv, TypeOK, Work, Row, BookedForLiving, OneAtATime, WorkedIsLive, AsksForPort,
     LacksPending, SeenIsEnough, BookedWasPublished
<1>5. SeenIsEnough'
  BY DEF Inv, TypeOK, Work, Row, OneAtATime, WorkedIsLive, SeenIsEnough
<1>6. BookedWasPublished'
  BY DEF Inv, TypeOK, Work, Row, BookedForLiving, OneAtATime, WorkedIsLive, AsksForPort,
     LacksPending, SeenIsEnough, BookedWasPublished
<1> QED BY <1>1, <1>2, <1>3, <1>4, <1>5, <1>6

\* The ports are counted; only the step of the request changes.
LEMMA AddCountCalm == ASSUME CalmInv, NEW r \in Requests, AddCount(r) PROVE CalmInv'
<1> USE PortsAssumption DEF AddCount, At, Goto, Finish, Then, Booked, Unattended,
      Pending, Tends,
            CalmInv
<1>1. Inv'
  BY AddCountInv
<1>2. OneAtATime'
  BY DEF Inv, TypeOK, Work, OneAtATime
<1>3. WorkedIsLive'
  BY DEF Inv, TypeOK, Work, WorkedIsLive
<1>4. LacksPending'
  BY DEF Inv, TypeOK, Work, Row, BookedForLiving, OneAtATime, WorkedIsLive, AsksForPort,
     LacksPending, SeenIsEnough, BookedWasPublished
<1>5. SeenIsEnough'
  BY DEF Inv, TypeOK, Work, Row, OneAtATime, WorkedIsLive, SeenIsEnough
<1>6. BookedWasPublished'
  BY DEF Inv, TypeOK, Work, Row, BookedForLiving, OneAtATime, WorkedIsLive, AsksForPort,
     LacksPending, SeenIsEnough, BookedWasPublished
<1> QED BY <1>1, <1>2, <1>3, <1>4, <1>5, <1>6

\* A port is booked, by an insert or out of the pool, or refused.
LEMMA AddClaimCalm == ASSUME CalmInv, NEW r \in Requests, AddClaim(r) PROVE CalmInv'
<1> USE PortsAssumption DEF AddClaim, At, Given, Finish, Then, Booked, Unattended,
      Pending, Tends,
            CalmInv
<1>1. Inv'
  BY AddClaimInv
<1>2. OneAtATime'
  BY DEF Inv, TypeOK, Work, OneAtATime
<1>3. WorkedIsLive'
  BY DEF Inv, TypeOK, Work, WorkedIsLive
<1>4. LacksPending'
  <2> USE DEF Inv, TypeOK, AsksForPort, Work, Row
  <2>1. ASSUME NEW o \in Requests, o # r, Tends(o)
        PROVE  published' = published /\ work'[o] = work[o] /\ Booked(work[o].server)' = Booked(work[o].server)
    BY <2>1 DEF OneAtATime
  <2>2. work'[r] # Idle => Booked(work[r].server)' \subseteq Booked(work[r].server) \cup Pending(r)'
    <3>1. CASE UNCHANGED alloc
      BY <3>1
    <3>2. CASE work'[r] # Idle /\ ~UNCHANGED alloc
      <4>1. \A p \in HostPorts : p # work[r].port => alloc'[p] = alloc[p]
        BY <3>2
      <4>2. work'[r].server = work[r].server /\ work'[r].adds = work[r].adds
        BY <3>2
      <4>3. alloc'[work[r].port] # NoRow /\ alloc'[work[r].port].id = work'[r].id
        BY <3>2
      <4> QED BY <3>2, <4>1, <4>2, <4>3
    <3> QED BY <3>1, <3>2
  <2>3. ASSUME NEW o \in Requests, o # r, Tends(o), NEW p \in Booked(work[o].server)
        PROVE  alloc'[p] = alloc[p] /\ p \in HostPorts /\ (p \in Pending(o) => p \in Pending(o)')
    BY <2>1, <2>3 DEF OneAtATime
  <2>4. work'[r] # Idle => work[r] # Idle /\ work'[r].step = "read"
                           /\ work'[r].server = work[r].server /\ published' = published
    OBVIOUS
  <2>5. ASSUME NEW o \in Requests, Tends(o)', NEW p \in Booked(work[o].server)'
        PROVE  /\ work'[o].server = work[o].server
               /\ \/ p \in published'[work'[o].server]
                  \/ work'[o].step \in {"read", "rebuild", "release"} /\ p \in Pending(o)'
    <3>1. CASE o = r
      BY <2>2, <2>4, <2>5, <3>1 DEF LacksPending
    <3>2. CASE o # r
      <4>1. Tends(o) /\ work'[o] = work[o] /\ published' = published
        BY <2>1, <2>5, <3>2
      <4>2. p \in Booked(work[o].server)
        BY <2>1, <2>5, <3>2, <4>1
      <4> QED BY <2>3, <3>2, <4>1, <4>2 DEF LacksPending
    <3> QED BY <3>1, <3>2
  <2> QED BY <2>5 DEF LacksPending
<1>5. SeenIsEnough'
  BY DEF Inv, TypeOK, Work, Row, OneAtATime, WorkedIsLive, SeenIsEnough
<1>6. BookedWasPublished'
  BY SMTT(30) DEF Inv, TypeOK, Work, Row, BookedForLiving, OneAtATime, WorkedIsLive, AsksForPort,
     LacksPending, SeenIsEnough, BookedWasPublished
<1> QED BY <1>1, <1>2, <1>3, <1>4, <1>5, <1>6

\* A booked port is given back by the id of its row.
LEMMA AddReleaseCalm == ASSUME CalmInv, NEW r \in Requests, AddRelease(r) PROVE CalmInv'
<1> USE PortsAssumption DEF AddRelease, At, Given, Finish, Released, Booked, Unattended,
      Pending,
            Tends, CalmInv
<1>1. Inv'
  BY AddReleaseInv
<1>2. OneAtATime'
  BY DEF Inv, TypeOK, Work, OneAtATime
<1>3. WorkedIsLive'
  BY DEF Inv, TypeOK, Work, WorkedIsLive
<1>4. LacksPending'
  BY DEF Inv, TypeOK, Work, Row, BookedForLiving, OneAtATime, WorkedIsLive, AsksForPort,
     LacksPending, SeenIsEnough, BookedWasPublished
<1>5. SeenIsEnough'
  BY DEF Inv, TypeOK, Work, Row, OneAtATime, WorkedIsLive, SeenIsEnough
<1>6. BookedWasPublished'
  BY DEF Inv, TypeOK, Work, Row, BookedForLiving, OneAtATime, WorkedIsLive, AsksForPort,
     LacksPending, SeenIsEnough, BookedWasPublished
<1> QED BY <1>1, <1>2, <1>3, <1>4, <1>5, <1>6

\* A request to drop a port begins.
LEMMA DropBeginCalm == ASSUME CalmInv, NEW r \in Requests, DropBegin(r) PROVE CalmInv'
<1> USE PortsAssumption DEF DropBegin, At, Begin, Booked, Unattended, Pending, Tends,
      CalmInv
<1>1. Inv'
  BY DropBeginInv
<1>2. OneAtATime'
  BY DEF Inv, TypeOK, Work, OneAtATime
<1>3. WorkedIsLive'
  BY DEF Inv, TypeOK, Work, WorkedIsLive
<1>4. LacksPending'
  BY DEF Inv, TypeOK, Work, Row, BookedForLiving, OneAtATime, WorkedIsLive, AsksForPort,
     LacksPending, SeenIsEnough, BookedWasPublished
<1>5. SeenIsEnough'
  BY DEF Inv, TypeOK, Work, Row, OneAtATime, WorkedIsLive, SeenIsEnough
<1>6. BookedWasPublished'
  BY DEF Inv, TypeOK, Work, Row, BookedForLiving, OneAtATime, WorkedIsLive, AsksForPort,
     LacksPending, SeenIsEnough, BookedWasPublished
<1> QED BY <1>1, <1>2, <1>3, <1>4, <1>5, <1>6

\* A port is dropped: deleted or back in the pool.
LEMMA DropRowCalm == ASSUME CalmInv, NEW r \in Requests, DropRow(r) PROVE CalmInv'
<1> USE PortsAssumption DEF DropRow, At, Given, Goto, Then, Released, Booked,
      Unattended, Pending,
            Tends, CalmInv
<1>1. Inv'
  BY DropRowInv
<1>2. OneAtATime'
  BY DEF Inv, TypeOK, Work, OneAtATime
<1>3. WorkedIsLive'
  BY DEF Inv, TypeOK, Work, WorkedIsLive
<1>4. LacksPending'
  BY DEF Inv, TypeOK, Work, Row, BookedForLiving, OneAtATime, WorkedIsLive, AsksForPort,
     LacksPending, SeenIsEnough, BookedWasPublished
<1>5. SeenIsEnough'
  BY DEF Inv, TypeOK, Work, Row, OneAtATime, WorkedIsLive, SeenIsEnough
<1>6. BookedWasPublished'
  BY SMTT(30) DEF Inv, TypeOK, Work, Row, BookedForLiving, OneAtATime, WorkedIsLive, AsksForPort,
     LacksPending, SeenIsEnough, BookedWasPublished
<1> QED BY <1>1, <1>2, <1>3, <1>4, <1>5, <1>6

\* A rebuild begins that changes no row.
LEMMA RebuildBeginCalm == ASSUME CalmInv, NEW r \in Requests, RebuildBegin(r) PROVE CalmInv'
<1> USE PortsAssumption DEF RebuildBegin, At, Begin, Booked, Unattended, Pending, Tends,
      CalmInv
<1>1. Inv'
  BY RebuildBeginInv
<1>2. OneAtATime'
  BY DEF Inv, TypeOK, Work, OneAtATime
<1>3. WorkedIsLive'
  BY DEF Inv, TypeOK, Work, WorkedIsLive
<1>4. LacksPending'
  BY DEF Inv, TypeOK, Work, Row, BookedForLiving, OneAtATime, WorkedIsLive, AsksForPort,
     LacksPending, SeenIsEnough, BookedWasPublished
<1>5. SeenIsEnough'
  BY DEF Inv, TypeOK, Work, Row, OneAtATime, WorkedIsLive, SeenIsEnough
<1>6. BookedWasPublished'
  BY DEF Inv, TypeOK, Work, Row, BookedForLiving, OneAtATime, WorkedIsLive, AsksForPort,
     LacksPending, SeenIsEnough, BookedWasPublished
<1> QED BY <1>1, <1>2, <1>3, <1>4, <1>5, <1>6

\* The ports are read for the rebuild.
LEMMA ApplyReadCalm == ASSUME CalmInv, NEW r \in Requests, ApplyRead(r) PROVE CalmInv'
<1> USE PortsAssumption DEF ApplyRead, At, Goto, Finish, Failed, Then, Booked,
      Unattended, Pending,
            Tends, CalmInv
<1>1. Inv'
  BY ApplyReadInv
<1>2. OneAtATime'
  BY DEF Inv, TypeOK, Work, OneAtATime
<1>3. WorkedIsLive'
  BY DEF Inv, TypeOK, Work, WorkedIsLive
<1>4. LacksPending'
  BY DEF Inv, TypeOK, Work, Row, BookedForLiving, OneAtATime, WorkedIsLive, AsksForPort,
     LacksPending, SeenIsEnough, BookedWasPublished
<1>5. SeenIsEnough'
  BY DEF Inv, TypeOK, Work, Row, OneAtATime, WorkedIsLive, SeenIsEnough
<1>6. BookedWasPublished'
  BY DEF Inv, TypeOK, Work, Row, BookedForLiving, OneAtATime, WorkedIsLive, AsksForPort,
     LacksPending, SeenIsEnough, BookedWasPublished
<1> QED BY <1>1, <1>2, <1>3, <1>4, <1>5, <1>6

\* The container is rebuilt, or the rebuild fails, or both.
LEMMA ApplyRebuildCalm == ASSUME CalmInv, NEW r \in Requests, ApplyRebuild(r) PROVE CalmInv'
<1> USE PortsAssumption DEF ApplyRebuild, At, Goto, Finish, Failed, Then, Booked,
      Unattended,
            Pending, Tends, CalmInv
<1>1. Inv'
  BY ApplyRebuildInv
<1>2. OneAtATime'
  BY DEF Inv, TypeOK, Work, OneAtATime
<1>3. WorkedIsLive'
  BY DEF Inv, TypeOK, Work, WorkedIsLive
<1>4. LacksPending'
  BY DEF Inv, TypeOK, Work, Row, BookedForLiving, OneAtATime, WorkedIsLive, AsksForPort,
     LacksPending, SeenIsEnough, BookedWasPublished
<1>5. SeenIsEnough'
  BY DEF Inv, TypeOK, Work, Row, OneAtATime, WorkedIsLive, SeenIsEnough
<1>6. BookedWasPublished'
  BY DEF Inv, TypeOK, Work, Row, BookedForLiving, OneAtATime, WorkedIsLive, AsksForPort,
     LacksPending, SeenIsEnough, BookedWasPublished
<1> QED BY <1>1, <1>2, <1>3, <1>4, <1>5, <1>6

\* A request is cut off.
LEMMA AbortCalm == ASSUME CalmInv, NEW r \in Requests, Abort(r) PROVE CalmInv'
<1> USE PortsAssumption DEF Abort, At, Finish, Booked, Unattended, Pending, Tends,
      CalmInv
<1>1. Inv'
  BY AbortInv
<1>2. OneAtATime'
  BY DEF Inv, TypeOK, Work, OneAtATime
<1>3. WorkedIsLive'
  BY DEF Inv, TypeOK, Work, WorkedIsLive
<1>4. LacksPending'
  BY DEF Inv, TypeOK, Work, Row, BookedForLiving, OneAtATime, WorkedIsLive, AsksForPort,
     LacksPending, SeenIsEnough, BookedWasPublished
<1>5. SeenIsEnough'
  BY DEF Inv, TypeOK, Work, Row, OneAtATime, WorkedIsLive, SeenIsEnough
<1>6. BookedWasPublished'
  BY DEF Inv, TypeOK, Work, Row, BookedForLiving, OneAtATime, WorkedIsLive, AsksForPort,
     LacksPending, SeenIsEnough, BookedWasPublished
<1> QED BY <1>1, <1>2, <1>3, <1>4, <1>5, <1>6

\* A server is born, with a port of the pool or none.
LEMMA ServerCreateCalm == ASSUME CalmInv, NEW s \in Servers, ServerCreate(s) PROVE CalmInv'
<1> USE PortsAssumption DEF ServerCreate, At, Given, Booked, Unattended, Pending, Tends,
      CalmInv
<1>1. Inv'
  BY ServerCreateInv
<1>2. OneAtATime'
  BY DEF Inv, TypeOK, Work, OneAtATime
<1>3. WorkedIsLive'
  BY DEF Inv, TypeOK, Work, WorkedIsLive
<1>4. LacksPending'
  BY DEF Inv, TypeOK, Work, Row, BookedForLiving, OneAtATime, WorkedIsLive, AsksForPort,
     LacksPending, SeenIsEnough, BookedWasPublished
<1>5. SeenIsEnough'
  BY DEF Inv, TypeOK, Work, Row, OneAtATime, WorkedIsLive, SeenIsEnough
<1>6. BookedWasPublished'
  BY DEF Inv, TypeOK, Work, Row, BookedForLiving, OneAtATime, WorkedIsLive, AsksForPort,
     LacksPending, SeenIsEnough, BookedWasPublished
<1> QED BY <1>1, <1>2, <1>3, <1>4, <1>5, <1>6

\* A server's container goes.
LEMMA ServerRemoveCalm == ASSUME CalmInv, NEW s \in Servers, ServerRemove(s) PROVE CalmInv'
<1> USE PortsAssumption DEF ServerRemove, At, Booked, Unattended, Pending, Tends,
      CalmInv
<1>1. Inv'
  BY ServerRemoveInv
<1>2. OneAtATime'
  BY DEF Inv, TypeOK, Work, OneAtATime
<1>3. WorkedIsLive'
  BY DEF Inv, TypeOK, Work, WorkedIsLive
<1>4. LacksPending'
  BY DEF Inv, TypeOK, Work, Row, BookedForLiving, OneAtATime, WorkedIsLive, AsksForPort,
     LacksPending, SeenIsEnough, BookedWasPublished
<1>5. SeenIsEnough'
  BY DEF Inv, TypeOK, Work, Row, OneAtATime, WorkedIsLive, SeenIsEnough
<1>6. BookedWasPublished'
  BY DEF Inv, TypeOK, Work, Row, BookedForLiving, OneAtATime, WorkedIsLive, AsksForPort,
     LacksPending, SeenIsEnough, BookedWasPublished
<1> QED BY <1>1, <1>2, <1>3, <1>4, <1>5, <1>6

\* A server's row goes, and its ports return to the pool.
LEMMA ServerGoneCalm == ASSUME CalmInv, NEW s \in Servers, ServerGone(s) PROVE CalmInv'
<1> USE PortsAssumption DEF ServerGone, At, Given, Booked, MayGo, Unattended, Pending,
      Tends,
            CalmInv
<1>1. Inv'
  BY ServerGoneInv
<1>2. OneAtATime'
  BY DEF Inv, TypeOK, Work, OneAtATime
<1>3. WorkedIsLive'
  BY DEF Inv, TypeOK, Work, WorkedIsLive
<1>4. LacksPending'
  BY DEF Inv, TypeOK, Work, Row, BookedForLiving, OneAtATime, WorkedIsLive, AsksForPort,
     LacksPending, SeenIsEnough, BookedWasPublished
<1>5. SeenIsEnough'
  BY DEF Inv, TypeOK, Work, Row, OneAtATime, WorkedIsLive, SeenIsEnough
<1>6. BookedWasPublished'
  BY DEF Inv, TypeOK, Work, Row, BookedForLiving, OneAtATime, WorkedIsLive, AsksForPort,
     LacksPending, SeenIsEnough, BookedWasPublished
<1> QED BY <1>1, <1>2, <1>3, <1>4, <1>5, <1>6

\* The pool gains a port.
LEMMA PoolAddCalm == ASSUME CalmInv, NEW p \in HostPorts, PoolAdd(p) PROVE CalmInv'
<1> USE PortsAssumption DEF PoolAdd, At, Booked, Unattended, Pending, Tends, CalmInv
<1>1. Inv'
  BY PoolAddInv
<1>2. OneAtATime'
  BY DEF Inv, TypeOK, Work, OneAtATime
<1>3. WorkedIsLive'
  BY DEF Inv, TypeOK, Work, WorkedIsLive
<1>4. LacksPending'
  BY DEF Inv, TypeOK, Work, Row, BookedForLiving, OneAtATime, WorkedIsLive, AsksForPort,
     LacksPending, SeenIsEnough, BookedWasPublished
<1>5. SeenIsEnough'
  BY DEF Inv, TypeOK, Work, Row, OneAtATime, WorkedIsLive, SeenIsEnough
<1>6. BookedWasPublished'
  BY DEF Inv, TypeOK, Work, Row, BookedForLiving, OneAtATime, WorkedIsLive, AsksForPort,
     LacksPending, SeenIsEnough, BookedWasPublished
<1> QED BY <1>1, <1>2, <1>3, <1>4, <1>5, <1>6

\* The pool loses a free port.
LEMMA PoolRemoveCalm == ASSUME CalmInv, NEW p \in HostPorts, PoolRemove(p) PROVE CalmInv'
<1> USE PortsAssumption DEF PoolRemove, At, Booked, Unattended, Pending, Tends, CalmInv
<1>1. Inv'
  BY PoolRemoveInv
<1>2. OneAtATime'
  BY DEF Inv, TypeOK, Work, OneAtATime
<1>3. WorkedIsLive'
  BY DEF Inv, TypeOK, Work, WorkedIsLive
<1>4. LacksPending'
  BY DEF Inv, TypeOK, Work, Row, BookedForLiving, OneAtATime, WorkedIsLive, AsksForPort,
     LacksPending, SeenIsEnough, BookedWasPublished
<1>5. SeenIsEnough'
  BY DEF Inv, TypeOK, Work, Row, OneAtATime, WorkedIsLive, SeenIsEnough
<1>6. BookedWasPublished'
  BY DEF Inv, TypeOK, Work, Row, BookedForLiving, OneAtATime, WorkedIsLive, AsksForPort,
     LacksPending, SeenIsEnough, BookedWasPublished
<1> QED BY <1>1, <1>2, <1>3, <1>4, <1>5, <1>6

\* Every step keeps CalmInv.
LEMMA StepCalm == ASSUME CalmInv, [Next]_vars PROVE CalmInv'
<1>1. ASSUME NEW r \in Requests,
             AddBegin(r) \/ DropBegin(r) \/ RebuildBegin(r) \/ RequestRuns(r) \/ Abort(r)
      PROVE CalmInv'
  BY <1>1, AddBeginCalm, AddCountCalm, AddClaimCalm, AddReleaseCalm, DropBeginCalm,
     DropRowCalm, RebuildBeginCalm, ApplyReadCalm, ApplyRebuildCalm, AbortCalm DEF
     RequestRuns
<1>2. ASSUME NEW s \in Servers, ServerCreate(s) \/ ServerRemove(s) \/ ServerGone(s)
      PROVE CalmInv'
  BY <1>2, ServerCreateCalm, ServerRemoveCalm, ServerGoneCalm
<1>3. ASSUME NEW p \in HostPorts, PoolAdd(p) \/ PoolRemove(p) PROVE CalmInv'
  BY <1>3, PoolAddCalm, PoolRemoveCalm
<1>4. CASE UNCHANGED vars
  BY <1>4 DEF vars, Inv, TypeOK, BookedForLiving, WorkedIsBorn, AsksForPort,
     At, Booked, CalmInv,
     OneAtATime, WorkedIsLive, LacksPending, SeenIsEnough, BookedWasPublished,
     Pending, Tends, Unattended
<1> QED BY <1>1, <1>2, <1>3, <1>4 DEF Next

\* Every reachable state satisfies CalmInv.
THEOREM CalmInvariance == Spec => []CalmInv
<1>1. Init => CalmInv
  BY InitInv
<1>2. CalmInv /\ [Next]_vars => CalmInv'
  BY StepCalm
<1> QED BY <1>1, <1>2, PTL DEF Spec

\* When the requests for a server follow each other and none is cut off, a failed
\* rebuild leaves no port booked that the container, if it leaves one, does not
\* publish, nor one that the next rebuild brings back (releaseAllocation), whatever
\* requests for other servers do to the same ports meanwhile.
THEOREM FailedAddLeavesNothing == Spec => []BookedIsPublished
<1>1. CalmInv => BookedIsPublished
  BY DEF CalmInv, BookedWasPublished, BookedIsPublished
<1> QED BY <1>1, CalmInvariance, PTL

-----------------------------------------------------------------------------
(* The ids of the rows, and what a release takes when every owner is calm *)

\* An id names one row, and the ids to come name none yet.
IdsDiffer ==
    /\ \A p \in HostPorts : alloc[p] # NoRow => alloc[p].id < nextId
    /\ \A p, q \in HostPorts :
          p # q /\ alloc[p] # NoRow /\ alloc[q] # NoRow => alloc[p].id # alloc[q].id

\* The rows that are left keep their ids.
RowsKeepIds ==
    /\ nextId' = nextId
    /\ \A p \in HostPorts :
          alloc'[p] # NoRow => alloc[p] # NoRow /\ alloc'[p].id = alloc[p].id

\* One row is new, with the next id.
RowAdded ==
    /\ nextId' = nextId + 1
    /\ \E p \in HostPorts :
          /\ alloc[p] = NoRow
          /\ alloc'[p].id = nextId
          /\ \A q \in HostPorts : q # p => alloc'[q] = alloc[q]

\* A step adds a row under the next id, or changes what rows say and removes some.
LEMMA StepRows == ASSUME Inv, [Next]_vars PROVE RowsKeepIds \/ RowAdded
<1> USE PortsAssumption DEF Inv, TypeOK, Work, Row
<1>1. ASSUME NEW r \in Requests, AddClaim(r) PROVE RowsKeepIds \/ RowAdded
  <2>1. At(r, "claim") /\ work[r].port \in HostPorts
    BY <1>1 DEF AddClaim, AsksForPort
  <2>2. CASE alloc[work[r].port] = NoRow /\ nextId' = nextId + 1
               /\ alloc' = [alloc EXCEPT ![work[r].port] =
                               [id |-> nextId, owner |-> work[r].server, own |-> TRUE]]
    BY <2>1, <2>2 DEF RowAdded
  <2>3. CASE UNCHANGED nextId /\ work[r].port \in Booked(Free)
               /\ alloc' = [alloc EXCEPT ![work[r].port] = Given(@, work[r].server)]
    BY <2>1, <2>3 DEF RowsKeepIds, Booked, Given
  <2>4. CASE UNCHANGED <<alloc, nextId>>
    BY <2>4 DEF RowsKeepIds
  <2> QED BY <1>1, <2>2, <2>3, <2>4 DEF AddClaim
<1>2. ASSUME NEW r \in Requests, AddRelease(r) \/ DropRow(r) PROVE RowsKeepIds
  BY <1>2 DEF AddRelease, DropRow, Released, Given, Booked, RowsKeepIds
<1>3. ASSUME NEW s \in Servers, ServerCreate(s) \/ ServerGone(s) PROVE RowsKeepIds
  BY <1>3 DEF ServerCreate, ServerGone, Given, Booked, RowsKeepIds
<1>4. ASSUME NEW p \in HostPorts, PoolAdd(p) PROVE RowAdded
  BY <1>4 DEF PoolAdd, RowAdded
<1>5. ASSUME NEW p \in HostPorts, PoolRemove(p) PROVE RowsKeepIds
  BY <1>5 DEF PoolRemove, Booked, RowsKeepIds
<1>6. CASE UNCHANGED <<alloc, nextId>>
  BY <1>6 DEF RowsKeepIds
<1>7. ASSUME NEW r \in Requests,
             AddBegin(r) \/ DropBegin(r) \/ RebuildBegin(r) \/ Abort(r) \/ AddCount(r)
                 \/ ApplyRead(r) \/ ApplyRebuild(r)
      PROVE  UNCHANGED <<alloc, nextId>>
  BY <1>7 DEF AddBegin, DropBegin, RebuildBegin, Abort, AddCount, ApplyRead, ApplyRebuild
<1>8. ASSUME NEW s \in Servers, ServerRemove(s) PROVE UNCHANGED <<alloc, nextId>>
  BY <1>8 DEF ServerRemove
<1> QED BY <1>1, <1>2, <1>3, <1>4, <1>5, <1>6, <1>7, <1>8 DEF Next, RequestRuns, vars

LEMMA StepIds == ASSUME Inv, IdsDiffer, [Next]_vars PROVE IdsDiffer'
<1> USE DEF IdsDiffer
<1>1. nextId \in Nat /\ \A p \in HostPorts : alloc[p] # NoRow => alloc[p].id \in Nat
  BY PortsAssumption DEF Inv, TypeOK, Row
<1>2. CASE RowsKeepIds
  BY <1>2 DEF RowsKeepIds
<1>3. CASE RowAdded
  <2>1. PICK p \in HostPorts :
           /\ alloc[p] = NoRow
           /\ alloc'[p].id = nextId
           /\ \A q \in HostPorts : q # p => alloc'[q] = alloc[q]
    BY <1>3 DEF RowAdded
  <2>2. nextId' = nextId + 1
    BY <1>3 DEF RowAdded
  <2>3. \A q \in HostPorts : q # p /\ alloc'[q] # NoRow => alloc'[q].id \in Nat /\ alloc'[q].id < nextId
    BY <1>1, <2>1
  <2> QED BY <1>1, <2>1, <2>2, <2>3
<1> QED BY <1>2, <1>3, StepRows

\* However requests, deletions and the pool interleave, an id names at most one row,
\* and no row gets the id of one that is gone (server_allocation_handler.go:450).
THEOREM IdsNameRows == Spec => []IdsDiffer
<1>1. Init => IdsDiffer
  BY DEF Init, IdsDiffer
<1>2. Inv /\ IdsDiffer /\ [Next]_vars => IdsDiffer'
  BY StepIds
<1> QED BY <1>1, <1>2, Invariance, PTL DEF Spec

\* What a request has booked and may have to release, if it is still there, is its
\* server's.
PendingIsOwn ==
    \A r \in Requests :
        work[r] # Idle /\ work[r].adds /\ work[r].step \in {"read", "rebuild", "release"} =>
            /\ work[r].id < nextId
            /\ \A p \in Pending(r) : alloc[p].owner = work[r].server

Holding(r) == work[r] # Idle /\ work[r].adds /\ work[r].step \in {"read", "rebuild", "release"}

\* A request that goes on keeps what is its own, as long as the rows of its server
\* stay the server's: no new row gets the id it knows.
LEMMA StaysOwn ==
    ASSUME Inv, PendingIsOwn, RowsKeepIds \/ RowAdded,
           NEW o \in Requests, Holding(o),
           NEW w, w.id = work[o].id, w.server = work[o].server,
           \A p \in HostPorts :
               alloc[p] # NoRow /\ alloc[p].owner = work[o].server /\ alloc'[p] # NoRow =>
                   alloc'[p].owner = work[o].server
    PROVE  /\ w.id < nextId'
           /\ \A p \in HostPorts :
                 alloc'[p] # NoRow /\ alloc'[p].id = w.id => alloc'[p].owner = w.server
<1>1. work[o].id \in Nat /\ nextId \in Nat /\ work[o].id < nextId
  BY PortsAssumption DEF PendingIsOwn, Holding, Inv, TypeOK, Work
<1>2. nextId' \in {nextId, nextId + 1}
  BY DEF RowsKeepIds, RowAdded
<1>3. ASSUME NEW p \in HostPorts, alloc'[p] # NoRow, alloc'[p].id = work[o].id
      PROVE  alloc'[p].owner = work[o].server
  <2>1. alloc[p] # NoRow /\ alloc[p].id = work[o].id
    <3>1. CASE RowsKeepIds
      BY <1>3, <3>1 DEF RowsKeepIds
    <3>2. CASE RowAdded
      BY <1>1, <1>3, <3>2 DEF RowAdded
    <3> QED BY <3>1, <3>2
  <2>2. alloc[p].owner = work[o].server
    BY <2>1 DEF PendingIsOwn, Pending, Holding
  <2> QED BY <1>3, <2>1, <2>2
<1> QED BY <1>1, <1>2, <1>3

\* A request to drop a port has booked none.
DropsBookNothing == \A r \in Requests : At(r, "drop") => ~work[r].adds

LEMMA StepDrops == ASSUME Inv, DropsBookNothing, [Next]_vars PROVE DropsBookNothing'
<1> USE DEF Inv, TypeOK, DropsBookNothing, At
<1>1. ASSUME NEW r \in Requests, RequestRuns(r) PROVE DropsBookNothing'
  <2>1. CASE AddCount(r) \/ AddClaim(r) \/ AddRelease(r) \/ DropRow(r)
    BY <2>1 DEF AddCount, AddClaim, AddRelease, DropRow, Goto, Then, Finish
  <2>2. CASE ApplyRead(r) \/ ApplyRebuild(r)
    BY <2>2 DEF ApplyRead, ApplyRebuild, Failed, Goto, Then, Finish
  <2> QED BY <1>1, <2>1, <2>2 DEF RequestRuns
<1>2. ASSUME NEW r \in Requests, AddBegin(r) \/ DropBegin(r) \/ RebuildBegin(r) \/ Abort(r)
      PROVE  DropsBookNothing'
  BY <1>2 DEF AddBegin, DropBegin, RebuildBegin, Abort, Begin, Finish
<1>3. CASE UNCHANGED work
  BY <1>3
<1> QED BY <1>1, <1>2, <1>3 DEF Next, vars, ServerCreate, ServerRemove, ServerGone, PoolAdd,
        PoolRemove

\* Where every owner is calm, no step takes from a request's server what the request
\* has booked: others know other servers, and the server stays while it is worked on.
LEMMA StepPending ==
    ASSUME Calm = Servers, CalmInv, CalmInv', IdsDiffer', DropsBookNothing, PendingIsOwn, [Next]_vars
    PROVE  PendingIsOwn'
<1> USE PortsAssumption DEF CalmInv
<1>1. RowsKeepIds \/ RowAdded
  BY StepRows
<1>2. \A o \in Requests : work[o] # Idle => Tends(o)
  BY DEF Inv, TypeOK, Work, Tends
<1> SUFFICES ASSUME NEW o \in Requests, work'[o] # Idle, work'[o].adds,
                    work'[o].step \in {"read", "rebuild", "release"}
             PROVE  /\ work'[o].id < nextId'
                    /\ \A p \in HostPorts :
                          alloc'[p] # NoRow /\ alloc'[p].id = work'[o].id =>
                              alloc'[p].owner = work'[o].server
  BY DEF PendingIsOwn, Pending
<1> DEFINE OwnersStay ==
       \A p \in HostPorts :
           alloc[p] # NoRow /\ alloc[p].owner = work[o].server /\ alloc'[p] # NoRow =>
               alloc'[p].owner = work[o].server
<1>3. ASSUME Holding(o), work'[o].id = work[o].id, work'[o].server = work[o].server, OwnersStay
      PROVE  /\ work'[o].id < nextId'
             /\ \A p \in HostPorts :
                   alloc'[p] # NoRow /\ alloc'[p].id = work'[o].id =>
                       alloc'[p].owner = work'[o].server
  BY <1>1, <1>3, StaysOwn
<1>4. ASSUME work'[o] = work[o], OwnersStay
      PROVE  /\ work'[o].id < nextId'
             /\ \A p \in HostPorts :
                   alloc'[p] # NoRow /\ alloc'[p].id = work'[o].id =>
                       alloc'[p].owner = work'[o].server
  BY <1>3, <1>4 DEF Holding
<1>5. ASSUME NEW r \in Requests, AddClaim(r)
      PROVE  /\ work'[o].id < nextId'
             /\ \A p \in HostPorts :
                   alloc'[p] # NoRow /\ alloc'[p].id = work'[o].id =>
                       alloc'[p].owner = work'[o].server
  <2>1. CASE o # r
    <3>1. work'[o] = work[o]
      BY <1>5, <2>1 DEF AddClaim, Then, Finish, Inv, TypeOK
    <3>2. OwnersStay
      <4>1. work[o].server \in Servers /\ work[o].server # Free
        BY <3>1 DEF Inv, TypeOK, Work
      <4> QED BY <1>5, <4>1 DEF AddClaim, Booked, Given, Inv, TypeOK
    <3> QED BY <1>4, <3>1, <3>2
  <2>2. CASE o = r
    <3> DEFINE p == work[r].port
               s == work[r].server
    <3>1. p \in HostPorts /\ s \in Servers
      BY <1>5 DEF AddClaim, At, Inv, TypeOK, Work, AsksForPort
    <3>2. work'[r].id = alloc'[p].id /\ alloc'[p] # NoRow /\ alloc'[p].owner = s
          /\ work'[r].server = s
      <4>1. CASE /\ alloc' = [alloc EXCEPT ![p] = [id |-> nextId, owner |-> s, own |-> TRUE]]
                 /\ nextId < MaxId
                 /\ Then(r, "read", nextId, {})
        <5>1. [id |-> nextId, owner |-> s, own |-> TRUE] \in Row
          BY <3>1, <4>1 DEF Inv, TypeOK, Row
        <5>2. alloc'[p] = [id |-> nextId, owner |-> s, own |-> TRUE]
          BY <3>1, <4>1 DEF Inv, TypeOK
        <5>3. work'[r].id = nextId /\ work'[r].server = s
          BY <4>1 DEF Then, Inv, TypeOK
        <5>4. alloc'[p].id = nextId /\ alloc'[p].owner = s
          BY <5>2
        <5>5. alloc'[p] # NoRow
          BY <5>1, <5>2
        <5> QED BY <5>3, <5>4, <5>5
      <4>2. CASE /\ p \in Booked(Free)
                 /\ alloc' = [alloc EXCEPT ![p] = Given(@, s)]
                 /\ Then(r, "read", alloc[p].id, {})
        <5>1. Given(alloc[p], s) \in Row
          BY <3>1, <4>2 DEF Inv, TypeOK, Row, Given, Booked
        <5>2. alloc'[p] = Given(alloc[p], s)
          BY <3>1, <4>2 DEF Inv, TypeOK
        <5> QED BY <4>2, <5>1, <5>2 DEF Then, Given, Inv, TypeOK
      <4>3. CASE Finish(r)
        BY <2>2, <4>3 DEF Finish, Inv, TypeOK
      <4> QED BY <1>5, <4>1, <4>2, <4>3 DEF AddClaim
    <3> QED BY <2>2, <3>1, <3>2 DEF IdsDiffer
  <2> QED BY <2>1, <2>2
<1>6. ASSUME NEW r \in Requests, AddRelease(r) \/ DropRow(r)
      PROVE  o # r /\ work'[o] = work[o] /\ OwnersStay
  <2>1. o # r /\ work'[o] = work[o]
    BY <1>6 DEF AddRelease, DropRow, At, Goto, Then, Finish, Inv, TypeOK, DropsBookNothing
  <2>2. work[r] # Idle /\ work[r].server # work[o].server
    BY <1>2, <1>6, <2>1 DEF OneAtATime, AddRelease, DropRow, At
  <2>3. \A p \in HostPorts :
           alloc'[p] = alloc[p] \/ (alloc[p] # NoRow /\ alloc[p].owner = work[r].server)
    <3>1. CASE AddRelease(r)
      BY <3>1 DEF AddRelease, At, PendingIsOwn, Pending, Inv, AsksForPort
    <3>2. CASE DropRow(r)
      BY <3>2 DEF DropRow, Booked
    <3> QED BY <1>6, <3>1, <3>2
  <2> QED BY <2>1, <2>2, <2>3
<1>7. ASSUME NEW r \in Requests, ApplyRead(r) \/ ApplyRebuild(r)
      PROVE  OwnersStay /\ (work'[o] = work[o]
                              \/ (Holding(o) /\ work'[o].id = work[o].id /\ work'[o].server = work[o].server))
  <2>1. OwnersStay
    BY <1>7 DEF ApplyRead, ApplyRebuild
  <2>2. CASE o # r
    BY <1>7, <2>1, <2>2 DEF ApplyRead, ApplyRebuild, Failed, Goto, Then, Finish, Inv, TypeOK
  <2>3. CASE o = r
    BY <1>7, <2>1, <2>3 DEF ApplyRead, ApplyRebuild, Failed, Goto, Then, Finish, At, Holding, Inv, TypeOK
  <2> QED BY <2>2, <2>3
<1>8. ASSUME NEW r \in Requests,
             AddBegin(r) \/ DropBegin(r) \/ RebuildBegin(r) \/ Abort(r) \/ AddCount(r)
      PROVE  OwnersStay /\ work'[o] = work[o]
  BY <1>8 DEF AddBegin, DropBegin, RebuildBegin, Abort, AddCount, Begin, Goto, Then, Finish,
     Inv, TypeOK
<1>9. ASSUME NEW s \in Servers, ServerCreate(s) \/ ServerRemove(s) \/ ServerGone(s)
      PROVE  OwnersStay /\ work'[o] = work[o]
  <2>1. work'[o] = work[o]
    BY <1>9 DEF ServerCreate, ServerRemove, ServerGone
  <2>2. work[o].server \in Servers /\ work[o].server # Free /\ life[work[o].server] = "live"
    BY <1>2, <2>1 DEF Inv, TypeOK, Work, WorkedIsLive
  <2>3. CASE ServerGone(s)
    <3>1. s # work[o].server
      BY <2>1, <2>2, <2>3 DEF ServerGone, MayGo, Unattended
    <3> QED BY <2>1, <2>3, <3>1 DEF ServerGone, Booked
  <2>4. CASE ServerCreate(s) \/ ServerRemove(s)
    BY <2>1, <2>2, <2>4 DEF ServerCreate, ServerRemove, Booked
  <2> QED BY <1>9, <2>3, <2>4
<1>10. ASSUME NEW q \in HostPorts, PoolAdd(q) \/ PoolRemove(q)
       PROVE  OwnersStay /\ work'[o] = work[o]
  BY <1>10 DEF PoolAdd, PoolRemove, Booked, Inv, TypeOK
<1>11. CASE UNCHANGED vars
  <2>1. OwnersStay /\ work'[o] = work[o]
    BY <1>11 DEF vars
  <2> QED BY <1>4, <2>1
<1> QED BY <1>3, <1>4, <1>5, <1>6, <1>7, <1>8, <1>9, <1>10, <1>11 DEF Next, RequestRuns

\* Where the requests for every server follow each other and none is cut off, a release
\* by the row's id takes a port from no other server: what UndoesItsOwn says, and what
\* only a server deleted or a request cut off under way can break.
THEOREM CalmReleasesTakeTheirOwn ==
    ASSUME Calm = Servers
    PROVE  Spec => UndoesItsOwn
<1>1. Init => PendingIsOwn /\ DropsBookNothing
  BY DEF Init, PendingIsOwn, DropsBookNothing, At
<1>2. /\ CalmInv /\ CalmInv' /\ IdsDiffer'
      /\ PendingIsOwn /\ DropsBookNothing /\ [Next]_vars
      => PendingIsOwn' /\ DropsBookNothing'
  BY StepPending, StepDrops DEF CalmInv
<1>3. CalmInv /\ PendingIsOwn /\ [Next]_vars =>
         [\A r \in Requests, p \in HostPorts :
             At(r, "release") /\ work'[r] = Idle /\ alloc'[p] # alloc[p] =>
                 alloc[p].owner \in {work[r].server, Free}]_vars
  <2> SUFFICES ASSUME CalmInv, PendingIsOwn, Next, NEW r \in Requests, NEW p \in HostPorts,
                      At(r, "release"), work'[r] = Idle, alloc'[p] # alloc[p]
               PROVE  alloc[p].owner = work[r].server
    BY DEF vars
  <2>1. PICK q \in Requests : AddClaim(q) \/ AddRelease(q) \/ DropRow(q)
    BY DEF Next, RequestRuns, At, AddBegin, DropBegin, RebuildBegin, Abort, AddCount, ApplyRead,
       ApplyRebuild, ServerCreate, ServerRemove, ServerGone, PoolAdd, PoolRemove
  <2>2. q = r
    BY <2>1 DEF AddClaim, AddRelease, DropRow, At, Goto, Then, Finish, CalmInv, Inv, TypeOK
  <2>3. AddRelease(r)
    BY <2>1, <2>2 DEF AddClaim, DropRow, At
  <2>4. work[r].adds /\ alloc[p] # NoRow /\ alloc[p].id = work[r].id
    BY <2>3 DEF AddRelease, CalmInv, Inv, AsksForPort
  <2> QED BY <2>4 DEF PendingIsOwn, Pending, At
<1> QED BY <1>1, <1>2, <1>3, CalmInvariance, IdsNameRows, PTL DEF Spec, UndoesItsOwn
=============================================================================
