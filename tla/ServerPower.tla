---------------------------- MODULE ServerPower -----------------------------
(***************************************************************************)
(* The power state of one server: the panel's power, suspend and unsuspend *)
(* handlers, the scheduler's power tasks, and the poller of the hub that   *)
(* writes what the daemon reports into the servers table.  The daemon has  *)
(* the truth; the panel keeps is_suspended and status, two columns written *)
(* by different hands.                                                     *)
(***************************************************************************)
EXTENDS Naturals

CONSTANTS Requests,    \* power, suspend and unsuspend requests, each once
          Schedules,   \* schedules whose minute comes, each once
          Watchers,    \* browser tabs on the server's stats socket
          Actions,     \* power actions in use: "start", "stop", "restart"
          Faults       \* "daemon": a call to the daemon fails or is cut off;
                       \* "crash": the process exits and Docker restarts it;
                       \* "inspect": Docker does not answer for a container

VARIABLES suspended,   \* servers.is_suspended
          status,      \* servers.status
          container,   \* what Docker has under the server's name
          hidden,      \* Docker does not answer when asked for its state
          step,        \* step[r]: where request or schedule r is
          action,      \* action[r]: the power action r asks for
          watching,    \* rooms[uuid]: tabs subscribed to the stats
          poll         \* what pollStats has fetched and not yet persisted

vars == <<suspended, status, container, hidden, step, action, watching, poll>>

Callers == Requests \cup Schedules

ASSUME ServerPowerAssumption ==
    /\ Requests \cap Schedules = {}
    /\ Actions \subseteq {"start", "stop", "restart"}

\* What InspectState answers; with "suspended" the values of server_status that are
\* written to an installed server.
Reports == {"running", "starting", "offline"}

\* What Stats answers: a container that cannot be inspected is offline.
Report == IF hidden \/ container = "missing" THEN "offline" ELSE container

Goto(r, s) == step' = [step EXCEPT ![r] = s]

-----------------------------------------------------------------------------
(* Power *)

\* The flag is read once, before the daemon is called.
PowerBegin(r) ==
    /\ step[r] = "idle"
    /\ \E a \in Actions :
          /\ action' = [action EXCEPT ![r] = a]
          /\ Goto(r, IF suspended /\ a # "stop" THEN "done" ELSE "call")
    /\ UNCHANGED <<suspended, status, container, hidden, watching, poll>>

\* The daemon: a restart is a stop, up to 30 seconds long, and then a start.
PowerCall(r) ==
    /\ step[r] = "call"
    /\ container # "missing"
    /\ container' = IF action[r] = "start" THEN "running" ELSE "offline"
    /\ Goto(r, IF action[r] = "restart" THEN "restart" ELSE "done")
    /\ UNCHANGED <<suspended, status, hidden, action, watching, poll>>

RestartStarts(r) ==
    /\ step[r] = "restart"
    /\ container # "missing"
    /\ container' = "running"
    /\ Goto(r, "done")
    /\ UNCHANGED <<suspended, status, hidden, action, watching, poll>>

\* "No such container": the panel has it made again and repeats the call.
PowerRecreates(r) ==
    /\ r \in Requests
    /\ step[r] = "call"
    /\ container = "missing"
    /\ container' = "offline"
    /\ Goto(r, "call")
    /\ UNCHANGED <<suspended, status, hidden, action, watching, poll>>

\* The call fails, or the panel stops waiting for it: of a restart the start
\* may be missing.  A schedule does not have a missing container made again.
PowerFails(r) ==
    /\ step[r] \in {"call", "restart"}
    /\ "daemon" \in Faults \/ (r \in Schedules /\ container = "missing")
    /\ Goto(r, "done")
    /\ UNCHANGED <<suspended, status, container, hidden, action, watching, poll>>

-----------------------------------------------------------------------------
(* Suspend and unsuspend *)

Suspend(r) ==
    /\ step[r] = "idle"
    /\ suspended' = TRUE
    /\ status' = "suspended"
    /\ action' = [action EXCEPT ![r] = "stop"]
    /\ Goto(r, "stopping")
    /\ UNCHANGED <<container, hidden, watching, poll>>

\* Best effort: a daemon that fails is logged.
SuspendStops(r) ==
    /\ step[r] = "stopping"
    /\ \/ container # "missing" /\ container' = "offline"
       \/ "daemon" \in Faults /\ container' = container
       \/ container = "missing" /\ container' = container
    /\ Goto(r, "done")
    /\ UNCHANGED <<suspended, status, hidden, action, watching, poll>>

Unsuspend(r) ==
    /\ step[r] = "idle"
    /\ suspended' = FALSE
    /\ status' = "offline"
    /\ Goto(r, "done")
    /\ UNCHANGED <<container, hidden, action, watching, poll>>

-----------------------------------------------------------------------------
(* Scheduled power tasks *)

\* execute: only_when_online is decided by the status column, and the task runs
\* later, after its offset.
ScheduleBegin(r) ==
    /\ step[r] = "idle"
    /\ \E a \in Actions, onlyWhenOnline \in BOOLEAN :
          /\ action' = [action EXCEPT ![r] = a]
          /\ Goto(r, IF onlyWhenOnline /\ status # "running" THEN "done" ELSE "call")
    /\ UNCHANGED <<suspended, status, container, hidden, watching, poll>>

-----------------------------------------------------------------------------
(* Docker's own doing.  The restart policy is unless-stopped. *)

Crash ==
    /\ "crash" \in Faults
    /\ \/ container = "running" /\ container' = "starting"
       \/ container = "starting" /\ container' = "running"
    /\ UNCHANGED <<suspended, status, hidden, step, action, watching, poll>>

\* Docker answers no more, or again.
Hide ==
    /\ "inspect" \in Faults
    /\ hidden' = ~hidden
    /\ UNCHANGED <<suspended, status, container, step, action, watching, poll>>

-----------------------------------------------------------------------------
(* The poller: pollStats runs while somebody watches *)

Watch(w) ==
    /\ watching' = watching \cup {w}
    /\ UNCHANGED <<suspended, status, container, hidden, step, action, poll>>

\* The last tab cancels the poller's context, and with it a pending write.
Unwatch(w) ==
    /\ watching' = watching \ {w}
    /\ poll' = IF watching' = {} THEN "none" ELSE poll
    /\ UNCHANGED <<suspended, status, container, hidden, step, action>>

PollFetchUnmapped ==
    /\ watching # {}
    /\ poll = "none"
    /\ poll' = container
    /\ UNCHANGED <<suspended, status, container, hidden, step, action, watching>>

\* FetchStats; a fetch that fails is skipped until the next tick.
PollFetch ==
    /\ watching # {}
    /\ poll = "none"
    /\ poll' = Report
    /\ UNCHANGED <<suspended, status, container, hidden, step, action, watching>>

PollPersistAlways ==
    /\ poll # "none"
    /\ status' = poll
    /\ poll' = "none"
    /\ UNCHANGED <<suspended, container, hidden, step, action, watching>>

PollPersistOnce ==
    /\ poll # "none"
    /\ status' = IF status = "suspended" THEN status ELSE poll
    /\ UNCHANGED <<suspended, container, hidden, step, action, watching, poll>>

\* UPDATE servers SET status = $1 WHERE uuid = $2 AND status != 'suspended'
PollPersist ==
    /\ poll # "none"
    /\ status' = IF status = "suspended" THEN status ELSE poll
    /\ poll' = "none"
    /\ UNCHANGED <<suspended, container, hidden, step, action, watching>>

-----------------------------------------------------------------------------

\* A server as Create leaves it, or one that lost its container in a rebuild.
Init ==
    /\ container \in {"missing", "offline"}
    /\ hidden = FALSE
    /\ suspended = FALSE
    /\ status = "offline"
    /\ step = [r \in Callers |-> "idle"]
    /\ action = [r \in Callers |-> "stop"]
    /\ watching = {}
    /\ poll = "none"

CallerRuns(r) ==
    PowerCall(r) \/ RestartStarts(r) \/ PowerRecreates(r) \/ PowerFails(r) \/ SuspendStops(r)

Next ==
    \/ \E r \in Requests : PowerBegin(r) \/ Suspend(r) \/ Unsuspend(r)
    \/ \E r \in Schedules : ScheduleBegin(r)
    \/ \E r \in Callers : CallerRuns(r)
    \/ \E w \in Watchers : Watch(w) \/ Unwatch(w)
    \/ PollFetch \/ PollPersist \/ Crash \/ Hide

Spec == Init /\ [][Next]_vars

\* The ticker of pollStats ticks, its fetches succeed again and again, and every
\* call to a daemon returns.
FairSpec ==
    /\ Spec
    /\ \A r \in Callers : WF_vars(CallerRuns(r))
    /\ WF_vars(PollFetch)
    /\ WF_vars(PollPersist)

-----------------------------------------------------------------------------
(* Properties *)

\* Every variable stays in its domain; status takes the values written for an
\* installed server only.
TypeOK ==
    /\ suspended \in BOOLEAN
    /\ status \in Reports \cup {"suspended"}
    /\ container \in {"missing"} \cup Reports
    /\ hidden \in BOOLEAN
    /\ step \in [Callers -> {"idle", "call", "restart", "stopping", "done"}]
    /\ action \in [Callers -> {"start", "stop", "restart"}]
    /\ watching \subseteq Watchers
    /\ poll \in Reports \cup {"none"}

\* The two columns never disagree about a suspension, although a poll that was
\* fetched before it may be written after it (PersistStatus, setSuspended).
SuspensionIsShown == suspended <=> status = "suspended"

\* The status of a watched server becomes what the daemon can tell of its container,
\* and stays so, once that settles: no stale report is the last word.
StatusCatchesUp ==
    \A b \in Reports :
        <>[](watching # {} /\ ~suspended /\ Report = b) => <>[](status = b)

\* "Suspend stops the server and blocks starting it again until unsuspended"
\* (api.html:226): while it is suspended a stopped server stays stopped.
SuspendBlocksStart ==
    [][suspended /\ suspended' /\ container \notin {"running", "starting"}
          => container' \notin {"running", "starting"}]_vars
=============================================================================
