-------------------------- MODULE ContainerRebuild --------------------------
(***************************************************************************)
(* The daemon's handling of the Docker container of one server             *)
(* (docker/manager.go): RecreateContainer is a sequence of Docker calls    *)
(* under no lock, beside which power actions, the removal of the server    *)
(* and other rebuilds may run.  A container is known by its name: srv-x,   *)
(* or srv-x-rebuild while it is being replaced.                            *)
(***************************************************************************)
EXTENDS Naturals

CONSTANTS Workers,      \* rebuild requests, used again and again
          Specs,        \* image, command, limits and ports of a container
          Regimes,      \* what may run beside a rebuild, and what may fail
          NoContainer,  \* Docker knows no container of this name
          Idle          \* the worker has no request

VARIABLES main,    \* the container called srv-x
          old,     \* the container called srv-x-rebuild
          work,    \* work[r]: where the rebuild r is in RecreateContainer
          asked,   \* what power actions last made of the server: "up", "down"
                   \* or "gone"
          told,    \* what the last rebuild to return told the panel
          failed,  \* what has ever gone wrong, of what a rebuild gets over without
                   \* a word or cannot undo; only the properties look at it
          regime   \* the regime that this behaviour is in

vars == <<main, old, work, asked, told, failed, regime>>

\* Overlap "power": power actions and the deletion come between the steps of a
\* rebuild; "all": other rebuilds too; "none": nothing does.
\* Faults "calls": any Docker call of a rebuild may fail; "crash": the process exits
\* and Docker restarts it; "abort": the client goes, or the 150 s are over.
Regime == [overlap : {"none", "power", "all"}, faults : SUBSET {"calls", "crash", "abort"}]

Mishaps == {"inspect", "sweep", "drop", "restore", "abort"}

Overlap == regime.overlap
Faults == regime.faults

\* Docker's Running, Restarting, and everything else (InspectState).
State == {"running", "starting", "offline"}

Docker == [spec : Specs, state : State] \cup {NoContainer}

Steps == {"inspect", "sweep", "rename", "halt", "create", "drop", "start",
          "restore", "restart"}

Work == [step : Steps, spec : Specs, wasRunning : BOOLEAN, had : BOOLEAN]

ASSUME ContainerAssumption ==
    /\ Regimes \subseteq Regime
    /\ NoContainer \notin [spec : Specs, state : State] \cup [spec : Specs, up : BOOLEAN]
    /\ Idle \notin Work

AtRest == \A r \in Workers : work[r] = Idle

At(r, st) == work[r] # Idle /\ work[r].step = st

\* Where rebuild r carries on, and what its variables hold.
Then(r, st, was, had) ==
    /\ work' = [work EXCEPT ![r] =
                   [step |-> st, spec |-> work[r].spec, wasRunning |-> was, had |-> had]]
    /\ UNCHANGED told

Goto(r, st) == Then(r, st, work[r].wasRunning, work[r].had)

Return(r, how) == work' = [work EXCEPT ![r] = Idle] /\ told' = how

InState(c, st) == [spec |-> c.spec, state |-> st]

Succeeds == UNCHANGED failed

\* A call whose failure is ignored or leaves something behind fails.
FailsFor(call) == "calls" \in Faults /\ failed' = failed \cup {call}

-----------------------------------------------------------------------------
(* RecreateContainer *)

\* The panel rebuilds servers it has not deleted.
Begin(r) ==
    /\ work[r] = Idle
    /\ asked # "gone"
    /\ Overlap = "all" \/ AtRest
    /\ \E c \in Specs :
          work' = [work EXCEPT ![r] = [step |-> "inspect", spec |-> c,
                                       wasRunning |-> FALSE, had |-> FALSE]]
    /\ UNCHANGED <<main, old, asked, told, failed>>

\* wasRunning: an error, "starting" and "offline" alike count as not running.
Inspect(r) ==
    /\ At(r, "inspect")
    /\ \/ Succeeds /\ Then(r, "sweep", main # NoContainer /\ main.state = "running", FALSE)
       \/ FailsFor("inspect") /\ Then(r, "sweep", FALSE, FALSE)
    /\ UNCHANGED <<main, old, asked>>

\* What an earlier rebuild may have left behind is removed, by force; an error is ignored.
Sweep(r) ==
    /\ At(r, "sweep")
    /\ \/ Succeeds /\ old' = NoContainer
       \/ FailsFor("sweep") /\ UNCHANGED old
    /\ Goto(r, "rename")
    /\ UNCHANGED <<main, asked>>

RenameOnly(r) ==
    /\ At(r, "rename")
    /\ \/ /\ main = NoContainer
          /\ Then(r, "create", work[r].wasRunning, FALSE)
          /\ UNCHANGED <<main, old>>
       \/ /\ main # NoContainer /\ old = NoContainer
          /\ main' = NoContainer
          /\ old' = main
          /\ Then(r, "create", work[r].wasRunning, TRUE)
       \/ /\ (main # NoContainer /\ old # NoContainer) \/ "calls" \in Faults
          /\ Return(r, "error")
          /\ UNCHANGED <<main, old>>
    /\ UNCHANGED <<asked, failed>>

\* Not found is no error; a name that is taken is one.
Rename(r) ==
    /\ At(r, "rename")
    /\ \/ /\ main = NoContainer
          /\ Then(r, "create", work[r].wasRunning, FALSE)
          /\ UNCHANGED <<main, old>>
       \/ /\ main # NoContainer /\ old = NoContainer
          /\ main' = NoContainer
          /\ old' = main
          /\ IF work[r].wasRunning
             THEN Then(r, "halt", TRUE, TRUE) ELSE Then(r, "create", FALSE, TRUE)
       \/ /\ (main # NoContainer /\ old # NoContainer) \/ "calls" \in Faults
          /\ Return(r, "error")
          /\ UNCHANGED <<main, old>>
    /\ UNCHANGED <<asked, failed>>

Halt(r) ==
    /\ At(r, "halt")
    /\ \/ /\ old # NoContainer
          /\ old' = InState(old, "offline")
          /\ Goto(r, "create")
       \/ /\ old = NoContainer \/ "calls" \in Faults
          /\ Goto(r, "restore")
          /\ UNCHANGED old
    /\ UNCHANGED <<main, asked, failed>>

CreateWithoutRestore(r) ==
    /\ At(r, "create")
    /\ \/ /\ main = NoContainer
          /\ main' = [spec |-> work[r].spec, state |-> "offline"]
          /\ IF work[r].had THEN Goto(r, "drop")
             ELSE IF work[r].wasRunning THEN Goto(r, "start") ELSE Return(r, "done")
       \/ /\ main # NoContainer \/ "calls" \in Faults
          /\ Return(r, "error")
          /\ UNCHANGED main
    /\ UNCHANGED <<old, asked, failed>>

\* Fails when the name is taken, or the image cannot be pulled, ...
Create(r) ==
    /\ At(r, "create")
    /\ \/ /\ main = NoContainer
          /\ main' = [spec |-> work[r].spec, state |-> "offline"]
          /\ IF work[r].had THEN Goto(r, "drop")
             ELSE IF work[r].wasRunning THEN Goto(r, "start") ELSE Return(r, "done")
       \/ /\ main # NoContainer \/ "calls" \in Faults
          /\ Goto(r, "restore")
          /\ UNCHANGED main
    /\ UNCHANGED <<old, asked, failed>>

DropAndReturn(r) ==
    /\ At(r, "drop")
    /\ old' = NoContainer
    /\ Return(r, "done")
    /\ UNCHANGED <<main, asked, failed>>

\* Docker refuses, or the container is not there any more: an error, and nothing is
\* started.
Drop(r) ==
    /\ At(r, "drop")
    /\ \/ /\ Succeeds /\ old # NoContainer
          /\ old' = NoContainer
          /\ IF work[r].wasRunning THEN Goto(r, "start") ELSE Return(r, "done")
       \/ /\ \/ old = NoContainer /\ UNCHANGED failed
             \/ FailsFor("drop")
          /\ Return(r, "error")
          /\ UNCHANGED old
    /\ UNCHANGED <<main, asked>>

\* Docker starts the container called srv-x, if there is one and it can.
Started == IF main = NoContainer THEN main ELSE InState(main, "running")

\* StartContainer, of the new container or of the restored one, whose rebuild has
\* failed anyway.
Start(r) ==
    /\ At(r, "start") \/ At(r, "restart")
    /\ \/ /\ main' = Started
          /\ Return(r, IF At(r, "start") /\ main # NoContainer THEN "done" ELSE "error")
       \/ "calls" \in Faults /\ UNCHANGED main /\ Return(r, "error")
    /\ UNCHANGED <<old, asked, failed>>

\* restoreContainer: whatever is called srv-x-rebuild by now gets the name back.
Restore(r) ==
    /\ At(r, "restore")
    /\ \/ /\ Succeeds
          /\ old # NoContainer /\ main = NoContainer
          /\ main' = old
          /\ old' = NoContainer
          /\ IF work[r].wasRunning THEN Goto(r, "restart") ELSE Return(r, "error")
       \/ /\ \/ (old = NoContainer \/ main # NoContainer) /\ UNCHANGED failed
             \/ FailsFor("restore")
          /\ UNCHANGED <<main, old>>
          /\ Return(r, "error")
    /\ UNCHANGED asked

\* Every call of a request whose context is done fails, restoreContainer's too.
Abort(r) ==
    /\ "abort" \in Faults
    /\ work[r] # Idle
    /\ Return(r, "error")
    /\ failed' = failed \cup {"abort"}
    /\ UNCHANGED <<main, old, asked>>

-----------------------------------------------------------------------------
(* Power, Delete, and Docker's own doing.  A restart is a stop and a start. *)

MayAct == Overlap # "none" \/ AtRest

PowerStart ==
    /\ MayAct /\ asked # "gone"
    /\ main # NoContainer
    /\ main' = Started
    /\ asked' = "up"
    /\ UNCHANGED <<old, work, told, failed>>

PowerStopRaw ==
    /\ MayAct /\ asked # "gone"
    /\ main # NoContainer
    /\ main' = InState(main, "exited")
    /\ asked' = "down"
    /\ UNCHANGED <<old, work, told, failed>>

\* StopContainer and KillContainer.
PowerStop ==
    /\ MayAct /\ asked # "gone"
    /\ main # NoContainer
    /\ main' = InState(main, "offline")
    /\ asked' = "down"
    /\ UNCHANGED <<old, work, told, failed>>

\* Handlers.Delete knows the container by its main name only.
Delete ==
    /\ MayAct
    /\ asked # "gone"
    /\ main' = NoContainer
    /\ asked' = "gone"
    /\ UNCHANGED <<old, work, told, failed>>

\* The restart policy is unless-stopped.
Crash ==
    /\ "crash" \in Faults
    /\ main # NoContainer
    /\ \/ main.state = "running" /\ main' = InState(main, "starting")
       \/ main.state = "starting" /\ main' = InState(main, "running")
    /\ UNCHANGED <<old, work, asked, told, failed>>

-----------------------------------------------------------------------------

\* CreateServer has made the container; it has not been started yet.
Init ==
    /\ main \in [spec : Specs, state : {"offline"}]
    /\ old = NoContainer
    /\ work = [r \in Workers |-> Idle]
    /\ asked = "down"
    /\ told = "done"
    /\ failed = {}
    /\ regime \in Regimes

Rebuild(r) ==
    \/ Begin(r) \/ Inspect(r) \/ Sweep(r) \/ Rename(r) \/ Halt(r) \/ Create(r)
    \/ Drop(r) \/ Start(r) \/ Restore(r)

Next ==
    /\ \/ \E r \in Workers : Rebuild(r) \/ Abort(r)
       \/ PowerStart \/ PowerStop \/ Delete \/ Crash
    /\ UNCHANGED regime

Spec == Init /\ [][Next]_vars

-----------------------------------------------------------------------------
(* Properties *)

\* Every variable stays in its domain.
TypeOK ==
    /\ main \in Docker
    /\ old \in Docker
    /\ work \in [Workers -> Work \cup {Idle}]
    /\ asked \in {"up", "down", "gone"}
    /\ told \in {"done", "error"}
    /\ failed \subseteq Mishaps
    /\ regime \in Regimes

\* One rebuild at a time; power actions may run beside it.
InTurn == Overlap # "all"

\* A rebuild that reports success leaves the server with exactly one container, under
\* its own name, although power actions run beside it and whatever call has failed or
\* was cut off, in it or before; only a second one that an ignored error has kept from
\* being swept may still lie about.  After an error there is one under the server's
\* name as well, unless putting it back failed too or the request was cut off, and a
\* second one only for these reasons or because it could not be removed.
OneContainerAtRest ==
    InTurn /\ AtRest /\ asked # "gone" =>
        /\ main = NoContainer => told = "error" /\ failed \cap {"restore", "abort"} # {}
        /\ old # NoContainer => /\ failed \cap {"drop", "restore", "abort"} # {}
                                /\ told = "error" \/ "sweep" \in failed

\* Nothing runs beside a rebuild, and the container does not exit by itself.
Undisturbed == Overlap = "none" /\ "crash" \notin Faults

NotBothUp ==
    ~(main # NoContainer /\ main.state # "offline" /\ old # NoContainer /\ old.state # "offline")

\* However a rebuild fails or is cut off, and whatever the owner does then, the old
\* and the new container, which share the server's files and ports, are never up
\* together, except for one of the two errors RecreateContainer ignores: the daemon
\* has taken a running container for a stopped one, or has not swept one away.
OneUp == Undisturbed /\ failed \cap {"inspect", "sweep"} = {} => NotBothUp

\* A rebuild beside which nothing runs replaces the container in one step: between
\* the rename and the last start the owner's container is the one that was, then the
\* one to be, up if it was up.  Only one that tells of an error may stop the
\* container or lose it, and none starts what was down; unless an inspection has
\* failed, which no rebuild tells of.
Owners ==
    LET Seen(c) == IF c = NoContainer THEN c
                   ELSE [spec |-> c.spec, up |-> c.state # "offline"]
        Kept(c, r) == [spec |-> c.spec, up |-> work[r].wasRunning] IN
    IF AtRest THEN Seen(main)
    ELSE LET r == CHOOSE r \in Workers : work[r] # Idle IN
         CASE work[r].step \in {"inspect", "sweep", "rename"} -> Seen(main)
           [] work[r].step \in {"halt", "create", "restore"} ->
                IF work[r].had /\ old # NoContainer THEN Kept(old, r) ELSE NoContainer
           [] OTHER -> Kept(main, r)

Promise == INSTANCE Container WITH box <- Owners

ImplementsContainer ==
    /\ Promise!BoxInit
    /\ [][Undisturbed /\ "inspect" \notin failed' =>
           [Promise!BoxNext]_Promise!containerVars]_vars
=============================================================================
