-------------------------- MODULE ServerPowerProofs -------------------------
(***************************************************************************)
(* The power state of a server for any number of requests, schedules and   *)
(* tabs.                                                                   *)
(***************************************************************************)
EXTENDS ServerPower, TLAPS

IInv == TypeOK /\ SuspensionIsShown

\* A server as Create leaves it is not suspended, and shows it.
LEMMA InitInv == ASSUME Init PROVE IInv
BY DEF Init, IInv, TypeOK, SuspensionIsShown, Reports

\* Power requests and schedules touch neither of the two columns.
LEMMA PowerKeeps ==
    ASSUME IInv, NEW r \in Callers,
           (r \in Requests /\ PowerBegin(r)) \/ (r \in Schedules /\ ScheduleBegin(r)) \/ CallerRuns(r)
    PROVE  IInv'
<1> USE ServerPowerAssumption DEF IInv, TypeOK, Callers, Goto, Reports
<1>1. CASE r \in Requests /\ PowerBegin(r)
  BY <1>1 DEF PowerBegin, SuspensionIsShown
<1>2. CASE r \in Schedules /\ ScheduleBegin(r)
  BY <1>2 DEF ScheduleBegin, SuspensionIsShown
<1>3. CASE PowerCall(r) \/ RestartStarts(r) \/ PowerRecreates(r) \/ PowerFails(r)
  BY <1>3 DEF PowerCall, RestartStarts, PowerRecreates, PowerFails, SuspensionIsShown
<1>4. CASE SuspendStops(r)
  BY <1>4 DEF SuspendStops, SuspensionIsShown
<1> QED BY <1>1, <1>2, <1>3, <1>4 DEF CallerRuns

\* setSuspended writes both columns in one statement.
LEMMA SuspendKeeps ==
    ASSUME IInv, NEW r \in Requests, Suspend(r) \/ Unsuspend(r)
    PROVE  IInv'
BY DEF IInv, TypeOK, Callers, Goto, Reports, Suspend, Unsuspend, SuspensionIsShown

\* A report never replaces, and never brings about, the status "suspended".
LEMMA PollKeeps ==
    ASSUME IInv, PollFetch \/ PollPersist \/ \E w \in Watchers : Watch(w) \/ Unwatch(w)
    PROVE  IInv'
<1> USE DEF IInv, TypeOK, Reports
<1>1. CASE PollFetch
  BY <1>1 DEF PollFetch, Report, SuspensionIsShown
<1>2. CASE PollPersist
  <2>1. TypeOK'
    BY <1>2 DEF PollPersist
  <2>2. poll # "suspended"
    OBVIOUS
  <2>3. SuspensionIsShown'
    BY <1>2, <2>2 DEF PollPersist, SuspensionIsShown
  <2> QED BY <2>1, <2>3
<1>3. CASE \E w \in Watchers : Watch(w) \/ Unwatch(w)
  BY <1>3 DEF Watch, Unwatch, SuspensionIsShown
<1> QED BY <1>1, <1>2, <1>3

\* Docker does not know the panel's columns.
LEMMA DockerKeeps == ASSUME IInv, Crash \/ Hide PROVE IInv'
<1> USE DEF IInv, TypeOK, Reports
<1>1. TypeOK' /\ UNCHANGED <<suspended, status>>
  BY DEF Crash, Hide
<1> QED BY <1>1 DEF SuspensionIsShown

\* Every reachable state satisfies the invariant.
THEOREM Invariance == Spec => []IInv
<1>1. Init => IInv
  BY InitInv
<1>2. IInv /\ [Next]_vars => IInv'
  <2> SUFFICES ASSUME IInv, [Next]_vars PROVE IInv'
    OBVIOUS
  <2>1. CASE UNCHANGED vars
    BY <2>1 DEF vars, IInv, TypeOK, SuspensionIsShown
  <2>2. CASE Next
    BY <2>2, PowerKeeps, SuspendKeeps, PollKeeps, DockerKeeps DEF Next, Callers
  <2> QED BY <2>1, <2>2
<1> QED BY <1>1, <1>2, PTL DEF Spec

\* Every variable keeps its type (server_handler.go Power, hub.go pollStats).
THEOREM TypeCorrect == Spec => []TypeOK
<1>1. IInv => TypeOK
  BY DEF IInv
<1> QED BY <1>1, Invariance, PTL

\* However requests, schedules and late reports interleave, a server shows the
\* status "suspended" exactly while it is suspended (setSuspended, PersistStatus).
THEOREM SuspensionAlwaysShown == Spec => []SuspensionIsShown
<1>1. IInv => SuspensionIsShown
  BY DEF IInv
<1> QED BY <1>1, Invariance, PTL
=============================================================================
