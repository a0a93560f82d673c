------------------------------- MODULE Ports --------------------------------
(***************************************************************************)
(* The ports of one node: the table of allocations, the owners who add and *)
(* drop ports of their servers (server_allocation_handler.go), the         *)
(* administrator's pool (allocation_handler.go), and what the containers   *)
(* publish.  A port is booked in the table first and published by a        *)
(* rebuild of the container later, from what applyPorts reads in between.  *)
(*                                                                         *)
(* A port stands for a row's (ip, port): the node has one address.  Left   *)
(* out: reserved ports, suspension and the domains of a main port, which   *)
(* only turn requests away, and aliases.                                   *)
(***************************************************************************)
EXTENDS Naturals, FiniteSets

CONSTANTS Servers,   \* servers on this node, now or later
          HostPorts, \* ports the node may publish on its address
          Requests,  \* requests that add or drop ports, used again and again
          Limit,     \* servers.allocation_limit
          MaxId,     \* bound on the ids the table hands out
          Calm,      \* servers whose requests follow each other, none cut off
          Faults,    \* "daemon": a rebuild fails; "abort": a request is cut off
          Free,      \* allocations.server_id IS NULL
          NoRow,     \* the table has no row for this port
          Idle       \* no request is under way

VARIABLES life,      \* life[s]: "new", "live", "removed" from the daemon, "gone"
          alloc,     \* alloc[p]: the row of port p
          nextId,    \* the next id of the table
          published, \* published[s]: ports the container of s publishes, or did
          lost,      \* servers without a container since a rebuild of it failed
          work       \* work[r]: what request r is doing

vars == <<life, alloc, nextId, published, lost, work>>

Row == [id : 0 .. MaxId, owner : Servers \cup {Free}, own : BOOLEAN]

\* A request: what it was asked for (no port when it only rebuilds), the id of
\* the row it has booked or is to drop (MaxId before there is one), and the ports
\* applyPorts has read.
Work == [step : {"count", "claim", "read", "rebuild", "release", "drop"},
         server : Servers, port : HostPorts \cup {NoRow}, admin : BOOLEAN, adds : BOOLEAN,
         id : 0 .. MaxId, seen : SUBSET HostPorts]

ASSUME PortsAssumption ==
    /\ IsFiniteSet(HostPorts)
    /\ Limit \in Nat
    /\ MaxId \in Nat
    /\ Calm \subseteq Servers
    /\ Free \notin Servers
    /\ NoRow \notin Row
    /\ Idle \notin Work

Booked(s) == {p \in HostPorts : alloc[p] # NoRow /\ alloc[p].owner = s}

\* UPDATE allocations SET server_id = s
Given(row, s) == [id |-> row.id, owner |-> s, own |-> row.own]

Unattended(s) == \A r \in Requests : work[r] # Idle => work[r].server # s

At(r, st) == work[r] # Idle /\ work[r].step = st

\* What a request carries on with: its next step, the row and the ports it knows.
Then(r, st, id, seen) ==
    work' = [work EXCEPT ![r] =
                [step |-> st, server |-> work[r].server, port |-> work[r].port,
                 admin |-> work[r].admin, adds |-> work[r].adds, id |-> id, seen |-> seen]]

Goto(r, st) == Then(r, st, work[r].id, work[r].seen)

Finish(r) == work' = [work EXCEPT ![r] = Idle]

\* resolveServer and the checks of the request itself.
Begin(r, w) ==
    /\ work[r] = Idle
    /\ life[w.server] \in {"live", "removed"}
    /\ w.server \in Calm => life[w.server] = "live" /\ Unattended(w.server)
    /\ work' = [work EXCEPT ![r] = w]

-----------------------------------------------------------------------------
(* Create: add a port *)

AddBegin(r) ==
    /\ \E s \in Servers, p \in HostPorts, admin \in BOOLEAN :
          Begin(r, [step |-> "count", server |-> s, port |-> p, admin |-> admin,
                    adds |-> TRUE, id |-> MaxId, seen |-> {}])
    /\ UNCHANGED <<life, alloc, nextId, published, lost>>

\* The count locks nothing.
AddCount(r) ==
    /\ At(r, "count")
    /\ IF ~work[r].admin /\ Cardinality(Booked(work[r].server)) >= Limit
       THEN Finish(r) ELSE Goto(r, "claim")
    /\ UNCHANGED <<life, alloc, nextId, published, lost>>

\* INSERT ... ON CONFLICT DO UPDATE ... WHERE server_id IS NULL, and the commit.
\* The foreign key refuses a server whose row is gone.  The id is kept, in case
\* the node refuses the port.
AddClaim(r) ==
    LET s == work[r].server
        p == work[r].port IN
    /\ At(r, "claim")
    /\ \/ /\ alloc[p] = NoRow /\ life[s] # "gone" /\ nextId < MaxId
          /\ alloc' = [alloc EXCEPT ![p] = [id |-> nextId, owner |-> s, own |-> TRUE]]
          /\ nextId' = nextId + 1
          /\ Then(r, "read", nextId, {})
       \/ /\ p \in Booked(Free) /\ life[s] # "gone"
          /\ alloc' = [alloc EXCEPT ![p] = Given(@, s)]
          /\ UNCHANGED nextId
          /\ Then(r, "read", alloc[p].id, {})
       \/ /\ (alloc[p] # NoRow /\ p \notin Booked(Free)) \/ life[s] = "gone"
          /\ UNCHANGED <<alloc, nextId>>
          /\ Finish(r)
    /\ UNCHANGED <<life, published, lost>>

ReleasedAlways(row) == NoRow

\* A port an owner added is deleted, one from the pool goes back to it.
Released(row) == IF row.own THEN NoRow ELSE Given(row, Free)

\* releaseAllocation goes by the id of the row alone.
AddRelease(r) ==
    /\ At(r, "release")
    /\ alloc' = [p \in HostPorts |->
                    IF alloc[p] # NoRow /\ alloc[p].id = work[r].id
                    THEN Released(alloc[p]) ELSE alloc[p]]
    /\ Finish(r)
    /\ UNCHANGED <<life, nextId, published, lost>>

-----------------------------------------------------------------------------
(* Delete: drop a port *)

\* listAllocations finds the row among those of the server.
DropBegin(r) ==
    /\ \E s \in Servers : \E p \in Booked(s) :
          Begin(r, [step |-> "drop", server |-> s, port |-> p, admin |-> FALSE,
                    adds |-> FALSE, id |-> alloc[p].id, seen |-> {}])
    /\ UNCHANGED <<life, alloc, nextId, published, lost>>

\* WHERE id = $1 AND server_id = $2: nothing if the row has changed hands.
DropRow(r) ==
    /\ At(r, "drop")
    /\ alloc' = [p \in HostPorts |->
                    IF p \in Booked(work[r].server) /\ alloc[p].id = work[r].id
                    THEN Released(alloc[p]) ELSE alloc[p]]
    /\ Goto(r, "read")
    /\ UNCHANGED <<life, nextId, published, lost>>

-----------------------------------------------------------------------------
(* applyPorts *)

\* ServerHandler.Update after its commit, and Power when the container is missing:
\* rebuildServerContainer reads the ports and rebuilds as applyPorts does.
RebuildBegin(r) ==
    /\ \E s \in Servers :
          Begin(r, [step |-> "read", server |-> s, port |-> NoRow, admin |-> FALSE,
                    adds |-> FALSE, id |-> MaxId, seen |-> {}])
    /\ UNCHANGED <<life, alloc, nextId, published, lost>>

FailedQuietly(r) == Finish(r)

Failed(r) == IF work[r].adds THEN Goto(r, "release") ELSE Finish(r)

ApplyRead(r) ==
    LET s == work[r].server IN
    /\ At(r, "read")
    /\ IF life[s] = "gone"
       THEN Failed(r)
       ELSE Then(r, "rebuild", work[r].id, Booked(s))
    /\ UNCHANGED <<life, alloc, nextId, published, lost>>

\* RebuildServer, as ContainerRebuild has it.  One that fails for the panel may have
\* been done all the same; it may lose the container, leave it, or bring back one that
\* an earlier rebuild lost.  The daemon knows no rows: it also makes the container of
\* a deleted server.
ApplyRebuild(r) ==
    LET s == work[r].server
        Rebuilt == /\ published' = [published EXCEPT ![s] = work[r].seen]
                   /\ lost' = lost \ {s} IN
    /\ At(r, "rebuild")
    /\ \/ Rebuilt /\ Finish(r)
       \/ "daemon" \in Faults /\ Rebuilt /\ Failed(r)
       \/ /\ "daemon" \in Faults
          /\ lost' \in {lost \cup {s}, lost \ {s}}
          /\ UNCHANGED published
          /\ Failed(r)
    /\ UNCHANGED <<life, alloc, nextId>>

\* The client goes away, and with it the context of every later statement.
Abort(r) ==
    /\ "abort" \in Faults
    /\ work[r] # Idle /\ work[r].server \notin Calm
    /\ Finish(r)
    /\ UNCHANGED <<life, alloc, nextId, published, lost>>

-----------------------------------------------------------------------------
(* Servers and the pool *)

\* ServerHandler.Create with the allocation it was asked to claim, or none.
ServerCreate(s) ==
    /\ life[s] = "new"
    /\ \E P \in {{}} \cup {{p} : p \in Booked(Free)} :
          /\ alloc' = [p \in HostPorts |->
                          IF p \in P THEN Given(alloc[p], s) ELSE alloc[p]]
          /\ published' = [published EXCEPT ![s] = P]
    /\ life' = [life EXCEPT ![s] = "live"]
    /\ UNCHANGED <<nextId, lost, work>>

\* ServerHandler.Delete: first the daemon, then the row; ON DELETE SET NULL.
ServerRemove(s) ==
    /\ life[s] = "live"
    /\ s \in Calm => Unattended(s)
    /\ life' = [life EXCEPT ![s] = "removed"]
    /\ published' = [published EXCEPT ![s] = {}]
    /\ UNCHANGED <<alloc, nextId, lost, work>>

\* The row goes after the container, or on its own when the admin forces it.
MayGo(s) == life[s] = "removed" \/ (life[s] = "live" /\ (s \in Calm => Unattended(s)))

ServerGoneKeepsRows(s) ==
    /\ MayGo(s)
    /\ life' = [life EXCEPT ![s] = "gone"]
    /\ UNCHANGED <<alloc, nextId, published, lost, work>>

ServerGone(s) ==
    /\ MayGo(s)
    /\ life' = [life EXCEPT ![s] = "gone"]
    /\ alloc' = [p \in HostPorts |->
                    IF p \in Booked(s) THEN Given(alloc[p], Free) ELSE alloc[p]]
    /\ UNCHANGED <<nextId, published, lost, work>>

PoolAddUnowned(p) ==
    /\ alloc[p] = NoRow
    /\ nextId < MaxId
    /\ alloc' = [alloc EXCEPT ![p] = [id |-> nextId, own |-> FALSE]]
    /\ nextId' = nextId + 1
    /\ UNCHANGED <<life, published, lost, work>>

\* INSERT ... ON CONFLICT DO NOTHING, for each port of the range.
PoolAdd(p) ==
    /\ alloc[p] = NoRow
    /\ nextId < MaxId
    /\ alloc' = [alloc EXCEPT ![p] = [id |-> nextId, owner |-> Free, own |-> FALSE]]
    /\ nextId' = nextId + 1
    /\ UNCHANGED <<life, published, lost, work>>

\* DELETE ... AND server_id IS NULL
PoolRemove(p) ==
    /\ p \in Booked(Free)
    /\ alloc' = [alloc EXCEPT ![p] = NoRow]
    /\ UNCHANGED <<life, nextId, published, lost, work>>

-----------------------------------------------------------------------------

Init ==
    /\ life = [s \in Servers |-> "new"]
    /\ alloc = [p \in HostPorts |-> NoRow]
    /\ nextId = 0
    /\ published = [s \in Servers |-> {}]
    /\ lost = {}
    /\ work = [r \in Requests |-> Idle]

RequestRuns(r) ==
    \/ AddCount(r) \/ AddClaim(r) \/ AddRelease(r) \/ DropRow(r)
    \/ ApplyRead(r) \/ ApplyRebuild(r)

Next ==
    \/ \E r \in Requests : AddBegin(r) \/ DropBegin(r) \/ RebuildBegin(r)
                            \/ RequestRuns(r) \/ Abort(r)
    \/ \E s \in Servers : ServerCreate(s) \/ ServerRemove(s) \/ ServerGone(s)
    \/ \E p \in HostPorts : PoolAdd(p) \/ PoolRemove(p)

Spec == Init /\ [][Next]_vars

-----------------------------------------------------------------------------
(* Properties *)

\* Every variable stays in its domain; no id is out of the table's range.
TypeOK ==
    /\ life \in [Servers -> {"new", "live", "removed", "gone"}]
    /\ alloc \in [HostPorts -> Row \cup {NoRow}]
    /\ nextId \in 0 .. MaxId
    /\ published \in [Servers -> SUBSET HostPorts]
    /\ lost \subseteq Servers
    /\ work \in [Requests -> Work \cup {Idle}]

\* No port stays booked for a server that is gone, whatever requests for it are
\* still under way (AddClaim against ServerGone), nor for one not there yet.
BookedForLiving ==
    \A s \in Servers : life[s] \in {"new", "gone"} => Booked(s) = {}

\* "Admin-provisioned pool allocations stay false so releasing them returns them
\* to the node's pool instead of deleting the row" (0010_user_allocations.sql:2):
\* no request of an owner deletes a row of the pool, also when it gives up.
PoolConserved ==
    [][\A p \in HostPorts :
          alloc[p] # NoRow /\ ~alloc[p].own /\ alloc[p].owner # Free =>
              alloc'[p] # NoRow /\ alloc'[p].id = alloc[p].id]_vars

\* "releaseAllocation undoes a just-created allocation when the node refused it,
\* so a failed add doesn't leave a port booked against the server"
\* (server_allocation_handler.go:447): a calm server nobody is working on publishes
\* every port booked for it, as long as it has a container, also one that was lost and
\* brought back, although rebuilds fail or half fail, and other servers drop, take and
\* give back the same ports in any order.
BookedIsPublished ==
    \A s \in Calm :
        life[s] = "live" /\ Unattended(s) /\ s \notin lost => Booked(s) \subseteq published[s]

\* "releaseAllocation undoes a just-created allocation when the node refused it"
\* (server_allocation_handler.go:447): it takes no port from another server.
UndoesItsOwn ==
    [][\A r \in Requests, p \in HostPorts :
          At(r, "release") /\ work'[r] = Idle /\ alloc'[p] # alloc[p] =>
              alloc[p].owner \in {work[r].server, Free}]_vars
=============================================================================
