-------------------------- MODULE ConsoleHubProofs --------------------------
(***************************************************************************)
(* The console hub for any number of tabs, connections and attempts: the   *)
(* invariant IInv of ConsoleHub is inductive, and what the runs check of   *)
(* two tabs follows from it.                                               *)
(***************************************************************************)
EXTENDS ConsoleHub, TLAPS

\* A hub with no rooms satisfies the invariant (NewHub).
LEMMA InitInv == ASSUME Init PROVE IInv
BY ConsoleHubAssumption
   DEF Init, IInv, TypeOK, RoomFollowsStage, DialledPrivate, SessionPumped, PumpOrRedial,
       LiveIsSession, TriesLeft, NoOrphanConnection, NoSilentTab, Dialers, TabStages,
       RedialStages, Redialing

\* A tab subscribes.
LEMMA OpenKeeps == ASSUME IInv, NEW x \in Tabs, Open(x) PROVE IInv'
<1> USE ConsoleHubAssumption DEF Open, IInv, Goto, Dialers, Redialing, Forgotten, AfterDial
<1>1. TypeOK'
  BY DEF TypeOK, TabStages, RedialStages
<1>2. RoomFollowsStage'
  BY DEF TypeOK, RoomFollowsStage
<1>3. DialledPrivate'
  BY DEF TypeOK, DialledPrivate
<1>4. SessionPumped'
  BY DEF TypeOK, DialledPrivate, SessionPumped
<1>5. PumpOrRedial'
  BY DEF TypeOK, DialledPrivate, PumpOrRedial
<1>6. LiveIsSession'
  BY DEF TypeOK, SessionPumped, DialledPrivate, LiveIsSession
<1>7. TriesLeft'
  BY DEF TypeOK, TriesLeft
<1>8. NoOrphanConnection'
  BY DEF TypeOK, DialledPrivate, NoOrphanConnection
<1>9. NoSilentTab'
  BY DEF TypeOK, RoomFollowsStage, NoSilentTab
<1> QED BY <1>1, <1>2, <1>3, <1>4, <1>5, <1>6, <1>7, <1>8, <1>9 DEF IInv

\* A tab leaves; the last one closes the session, which nobody has dialled.
LEMMA CloseKeeps == ASSUME IInv, NEW x \in Tabs, Close(x) PROVE IInv'
<1> USE ConsoleHubAssumption DEF Close, IInv, Goto, Dialers, Redialing, Forgotten, AfterDial
<1>1. TypeOK'
  BY DEF TypeOK, TabStages, RedialStages
<1>2. RoomFollowsStage'
  BY DEF TypeOK, RoomFollowsStage
<1>3. DialledPrivate'
  BY DEF TypeOK, DialledPrivate, SessionPumped
<1>4. SessionPumped'
  BY DEF TypeOK, DialledPrivate, SessionPumped
<1>5. PumpOrRedial'
  BY DEF TypeOK, DialledPrivate, PumpOrRedial
<1>6. LiveIsSession'
  BY DEF TypeOK, SessionPumped, DialledPrivate, LiveIsSession
<1>7. TriesLeft'
  BY DEF TypeOK, TriesLeft
<1>8. NoOrphanConnection'
  BY DEF TypeOK, DialledPrivate, NoOrphanConnection
<1>9. NoSilentTab'
  BY DEF TypeOK, RoomFollowsStage, NoSilentTab
<1> QED BY <1>1, <1>2, <1>3, <1>4, <1>5, <1>6, <1>7, <1>8, <1>9 DEF IInv

\* A dial returns a connection that nothing refers to.
LEMMA DialSucceedsKeeps == ASSUME IInv, NEW x \in Dialers, DialSucceeds(x) PROVE IInv'
<1> USE ConsoleHubAssumption DEF DialSucceeds, IInv, Goto, Dialers, Redialing, Forgotten, AfterDial
<1>1. TypeOK'
  BY DEF TypeOK, TabStages, RedialStages
<1>2. RoomFollowsStage'
  BY DEF TypeOK, RoomFollowsStage
<1>3. DialledPrivate'
  BY DEF TypeOK, DialledPrivate
<1>4. SessionPumped'
  BY DEF TypeOK, DialledPrivate, SessionPumped
<1>5. PumpOrRedial'
  BY DEF TypeOK, DialledPrivate, PumpOrRedial
<1>6. LiveIsSession'
  BY DEF TypeOK, SessionPumped, DialledPrivate, LiveIsSession
<1>7. TriesLeft'
  BY DEF TypeOK, TriesLeft
<1>8. NoOrphanConnection'
  BY DEF TypeOK, DialledPrivate, NoOrphanConnection
<1>9. NoSilentTab'
  BY DEF TypeOK, RoomFollowsStage, NoSilentTab
<1> QED BY <1>1, <1>2, <1>3, <1>4, <1>5, <1>6, <1>7, <1>8, <1>9 DEF IInv

\* A tab whose dial fails leaves the room again.
LEMMA TabDialFailsKeeps == ASSUME IInv, NEW x \in Tabs, TabDialFails(x) PROVE IInv'
<1> USE ConsoleHubAssumption DEF TabDialFails, IInv, Goto, Dialers, Redialing, Forgotten, AfterDial
<1>1. TypeOK'
  BY DEF TypeOK, TabStages, RedialStages
<1>2. RoomFollowsStage'
  BY DEF TypeOK, RoomFollowsStage
<1>3. DialledPrivate'
  BY DEF TypeOK, DialledPrivate
<1>4. SessionPumped'
  BY DEF TypeOK, DialledPrivate, SessionPumped
<1>5. PumpOrRedial'
  BY DEF TypeOK, DialledPrivate, PumpOrRedial
<1>6. LiveIsSession'
  BY DEF TypeOK, SessionPumped, DialledPrivate, LiveIsSession
<1>7. TriesLeft'
  BY DEF TypeOK, TriesLeft
<1>8. NoOrphanConnection'
  BY DEF TypeOK, DialledPrivate, NoOrphanConnection
<1>9. NoSilentTab'
  BY DEF TypeOK, RoomFollowsStage, NoSilentTab
<1> QED BY <1>1, <1>2, <1>3, <1>4, <1>5, <1>6, <1>7, <1>8, <1>9 DEF IInv

\* The first dial to return becomes the session, a later one is closed.
LEMMA InstallKeeps == ASSUME IInv, NEW x \in Dialers, Install(x) PROVE IInv'
<1> USE ConsoleHubAssumption DEF Install, IInv, Goto, Dialers, Redialing, Forgotten, AfterDial
<1>1. TypeOK'
  BY DEF TypeOK, TabStages, RedialStages, DialledPrivate
<1>2. RoomFollowsStage'
  BY DEF TypeOK, RoomFollowsStage
<1>3. DialledPrivate'
  BY DEF TypeOK, DialledPrivate
<1>4. SessionPumped'
  BY DEF TypeOK, DialledPrivate, SessionPumped
<1>5. PumpOrRedial'
  BY DEF TypeOK, DialledPrivate, PumpOrRedial
<1>6. LiveIsSession'
  BY DEF TypeOK, SessionPumped, DialledPrivate, LiveIsSession
<1>7. TriesLeft'
  BY DEF TypeOK, TriesLeft
<1>8. NoOrphanConnection'
  BY DEF TypeOK, DialledPrivate, NoOrphanConnection
<1>9. NoSilentTab'
  BY DEF TypeOK, RoomFollowsStage, NoSilentTab, DialledPrivate
<1> QED BY <1>1, <1>2, <1>3, <1>4, <1>5, <1>6, <1>7, <1>8, <1>9 DEF IInv

\* A redial counts a failed attempt.
LEMMA RedialFailsKeeps == ASSUME IInv, NEW x \in Conns, RedialFails(x) PROVE IInv'
<1> USE ConsoleHubAssumption DEF RedialFails, IInv, Goto, Dialers, Redialing, Forgotten, AfterDial
<1>1. TypeOK'
  BY DEF TypeOK, TabStages, RedialStages, TriesLeft
<1>2. RoomFollowsStage'
  BY DEF TypeOK, RoomFollowsStage
<1>3. DialledPrivate'
  BY DEF TypeOK, DialledPrivate
<1>4. SessionPumped'
  BY DEF TypeOK, DialledPrivate, SessionPumped
<1>5. PumpOrRedial'
  BY DEF TypeOK, DialledPrivate, PumpOrRedial
<1>6. LiveIsSession'
  BY DEF TypeOK, SessionPumped, DialledPrivate, LiveIsSession
<1>7. TriesLeft'
  BY DEF TypeOK, TriesLeft
<1>8. NoOrphanConnection'
  BY DEF TypeOK, DialledPrivate, NoOrphanConnection
<1>9. NoSilentTab'
  BY DEF TypeOK, RoomFollowsStage, NoSilentTab
<1> QED BY <1>1, <1>2, <1>3, <1>4, <1>5, <1>6, <1>7, <1>8, <1>9 DEF IInv

\* A pump of a closed connection ends.
LEMMA PumpCancelledKeeps == ASSUME IInv, NEW x \in Conns, PumpCancelled(x) PROVE IInv'
<1> USE ConsoleHubAssumption DEF PumpCancelled, IInv, Goto, Dialers, Redialing, Forgotten, AfterDial
<1>1. TypeOK'
  BY DEF TypeOK, TabStages, RedialStages
<1>2. RoomFollowsStage'
  BY DEF TypeOK, RoomFollowsStage
<1>3. DialledPrivate'
  BY DEF TypeOK, DialledPrivate
<1>4. SessionPumped'
  BY DEF TypeOK, DialledPrivate, SessionPumped
<1>5. PumpOrRedial'
  BY DEF TypeOK, DialledPrivate, PumpOrRedial
<1>6. LiveIsSession'
  BY DEF TypeOK, SessionPumped, DialledPrivate, LiveIsSession
<1>7. TriesLeft'
  BY DEF TypeOK, TriesLeft
<1>8. NoOrphanConnection'
  BY DEF TypeOK, DialledPrivate, NoOrphanConnection
<1>9. NoSilentTab'
  BY DEF TypeOK, RoomFollowsStage, NoSilentTab
<1> QED BY <1>1, <1>2, <1>3, <1>4, <1>5, <1>6, <1>7, <1>8, <1>9 DEF IInv

\* A pump that lost its connection starts a redial for those who watch.
LEMMA DisconnectKeeps == ASSUME IInv, NEW x \in Conns, Disconnect(x) PROVE IInv'
<1> USE ConsoleHubAssumption DEF Disconnect, IInv, Goto, Dialers, Redialing, Forgotten, AfterDial
<1>1. TypeOK'
  BY DEF TypeOK, TabStages, RedialStages
<1>2. RoomFollowsStage'
  BY DEF TypeOK, RoomFollowsStage
<1>3. DialledPrivate'
  BY DEF TypeOK, DialledPrivate, PumpOrRedial
<1>4. SessionPumped'
  BY DEF TypeOK, DialledPrivate, SessionPumped
<1>5. PumpOrRedial'
  BY DEF TypeOK, DialledPrivate, PumpOrRedial
<1>6. LiveIsSession'
  BY DEF TypeOK, SessionPumped, DialledPrivate, LiveIsSession
<1>7. TriesLeft'
  BY DEF TypeOK, TriesLeft
<1>8. NoOrphanConnection'
  BY DEF TypeOK, DialledPrivate, NoOrphanConnection
<1>9. NoSilentTab'
  BY DEF TypeOK, RoomFollowsStage, NoSilentTab
<1> QED BY <1>1, <1>2, <1>3, <1>4, <1>5, <1>6, <1>7, <1>8, <1>9 DEF IInv

\* A redial ends only when nobody watches or there is a session.
LEMMA CheckKeeps == ASSUME IInv, NEW x \in Conns, Check(x) PROVE IInv'
<1> USE ConsoleHubAssumption DEF Check, IInv, Goto, Dialers, Redialing, Forgotten, AfterDial
<1>1. TypeOK'
  BY DEF TypeOK, TabStages, RedialStages
<1>2. RoomFollowsStage'
  BY DEF TypeOK, RoomFollowsStage
<1>3. DialledPrivate'
  BY DEF TypeOK, DialledPrivate
<1>4. SessionPumped'
  BY DEF TypeOK, DialledPrivate, SessionPumped
<1>5. PumpOrRedial'
  BY DEF TypeOK, DialledPrivate, PumpOrRedial
<1>6. LiveIsSession'
  BY DEF TypeOK, SessionPumped, DialledPrivate, LiveIsSession
<1>7. TriesLeft'
  BY DEF TypeOK, TriesLeft
<1>8. NoOrphanConnection'
  BY DEF TypeOK, DialledPrivate, NoOrphanConnection
<1>9. NoSilentTab'
  BY DEF TypeOK, RoomFollowsStage, NoSilentTab
<1> QED BY <1>1, <1>2, <1>3, <1>4, <1>5, <1>6, <1>7, <1>8, <1>9 DEF IInv

\* A redial that gives up tells everybody who watches.
LEMMA GiveUpKeeps == ASSUME IInv, NEW x \in Conns, GiveUp(x) PROVE IInv'
<1> USE ConsoleHubAssumption DEF GiveUp, IInv, Goto, Dialers, Redialing, Forgotten, AfterDial
<1>1. TypeOK'
  BY DEF TypeOK, TabStages, RedialStages
<1>2. RoomFollowsStage'
  BY DEF TypeOK, RoomFollowsStage
<1>3. DialledPrivate'
  BY DEF TypeOK, DialledPrivate
<1>4. SessionPumped'
  BY DEF TypeOK, DialledPrivate, SessionPumped
<1>5. PumpOrRedial'
  BY DEF TypeOK, DialledPrivate, PumpOrRedial
<1>6. LiveIsSession'
  BY DEF TypeOK, SessionPumped, DialledPrivate, LiveIsSession
<1>7. TriesLeft'
  BY DEF TypeOK, TriesLeft
<1>8. NoOrphanConnection'
  BY DEF TypeOK, DialledPrivate, NoOrphanConnection
<1>9. NoSilentTab'
  BY DEF TypeOK, RoomFollowsStage, NoSilentTab
<1> QED BY <1>1, <1>2, <1>3, <1>4, <1>5, <1>6, <1>7, <1>8, <1>9 DEF IInv

\* A broken connection keeps its owner.
LEMMA BreakKeeps == ASSUME IInv, NEW x \in Conns, Break(x) PROVE IInv'
<1> USE ConsoleHubAssumption DEF Break, IInv, Goto, Dialers, Redialing, Forgotten, AfterDial
<1>1. TypeOK'
  BY DEF TypeOK, TabStages, RedialStages
<1>2. RoomFollowsStage'
  BY DEF TypeOK, RoomFollowsStage
<1>3. DialledPrivate'
  BY DEF TypeOK, DialledPrivate
<1>4. SessionPumped'
  BY DEF TypeOK, DialledPrivate, SessionPumped
<1>5. PumpOrRedial'
  BY DEF TypeOK, DialledPrivate, PumpOrRedial
<1>6. LiveIsSession'
  BY DEF TypeOK, SessionPumped, DialledPrivate, LiveIsSession
<1>7. TriesLeft'
  BY DEF TypeOK, TriesLeft
<1>8. NoOrphanConnection'
  BY DEF TypeOK, DialledPrivate, NoOrphanConnection
<1>9. NoSilentTab'
  BY DEF TypeOK, RoomFollowsStage, NoSilentTab
<1> QED BY <1>1, <1>2, <1>3, <1>4, <1>5, <1>6, <1>7, <1>8, <1>9 DEF IInv

\* Every step of the hub keeps the invariant.
LEMMA StepInv == ASSUME IInv, [Next]_vars PROVE IInv'
<1>1. ASSUME NEW x \in Dialers, DialSucceeds(x) \/ Install(x) PROVE IInv'
  BY <1>1, DialSucceedsKeeps, InstallKeeps
<1>2. ASSUME NEW t \in Tabs, Open(t) \/ Close(t) \/ TabRuns(t) PROVE IInv'
  BY <1>1, <1>2, OpenKeeps, CloseKeeps, TabDialFailsKeeps DEF TabRuns, Dialers
<1>3. ASSUME NEW c \in Conns, RedialRuns(c) PROVE IInv'
  BY <1>1, <1>3, CheckKeeps, RedialFailsKeeps, GiveUpKeeps DEF RedialRuns, Dialers
<1>4. ASSUME NEW c \in Conns, PumpRuns(c) \/ Break(c) PROVE IInv'
  BY <1>4, PumpCancelledKeeps, DisconnectKeeps, BreakKeeps DEF PumpRuns
<1>5. CASE DaemonStops \/ DaemonReturns
  <2>1. /\ UNCHANGED <<room, session, stage, dialled, conn, pumping, tries, told>>
        /\ reachable' = TRUE \/ reachable' = FALSE
    BY <1>5, Zenon DEF DaemonStops, DaemonReturns
  <2>2. reachable' \in BOOLEAN
    BY <2>1, Zenon
  <2> QED
    BY <2>1, <2>2 DEF IInv, TypeOK, RoomFollowsStage, DialledPrivate, SessionPumped,
        PumpOrRedial, LiveIsSession, TriesLeft, NoOrphanConnection, NoSilentTab, Redialing
<1>6. CASE UNCHANGED vars
  BY <1>6 DEF vars, IInv, TypeOK, RoomFollowsStage, DialledPrivate, SessionPumped,
              PumpOrRedial, LiveIsSession, TriesLeft, NoOrphanConnection, NoSilentTab, Redialing
<1> QED BY <1>2, <1>3, <1>4, <1>5, <1>6 DEF Next

\* IInv holds in every reachable state, for any tabs, connections and attempts.
THEOREM Invariance == Spec => []IInv
<1>1. Init => IInv
  BY InitInv
<1>2. IInv /\ [Next]_vars => IInv'
  BY StepInv
<1> QED BY <1>1, <1>2, PTL DEF Spec

\* Every variable keeps its type; no redial exceeds its attempts.
THEOREM TypeCorrect == Spec => []TypeOK
<1>1. IInv => TypeOK
  BY DEF IInv
<1> QED BY <1>1, Invariance, PTL

\* However dials race, the room is fed from one living connection: what a pump
\* reads from is the session unless the panel has closed it (dialConsoleSession).
THEOREM RoomFedOnce == Spec => []FedOnce
<1>1. IInv => FedOnce
  BY DEF IInv, LiveIsSession, FedOnce
<1> QED BY <1>1, Invariance, PTL

\* No race of dials forgets a connection without closing it.
THEOREM ConnectionsAreOwned == Spec => []NoOrphanConnection
<1>1. IInv => NoOrphanConnection
  BY DEF IInv
<1> QED BY <1>1, Invariance, PTL

\* A tab that reads without a session has a redial at work or was told so: a
\* redial ends only with a session, with its message, or with an empty room.
THEOREM TabsAreNotForgotten == Spec => []NoSilentTab
<1>1. IInv => NoSilentTab
  BY DEF IInv
<1> QED BY <1>1, Invariance, PTL

\* The session the room listens to is never exchanged for another: it ends because its
\* connection was lost or the last tab left, and only then another one is installed.
THEOREM SessionsFollowEachOther ==
    Spec => [][session' # session =>
                  \/ session = NoConn
                  \/ session' = NoConn /\ (conn[session] = "broken" \/ room' = {})]_vars
<1>1. ASSUME IInv, [Next]_vars, session' # session, session # NoConn
      PROVE  session' = NoConn /\ (conn[session] = "broken" \/ room' = {})
  <2> USE <1>1
  <2>1. ASSUME NEW t \in Tabs, Close(t) PROVE session' = NoConn /\ room' = {}
    BY <2>1 DEF Close
  <2>2. ASSUME NEW c \in Conns, Disconnect(c)
        PROVE  session' = NoConn /\ conn[session] = "broken"
    BY <2>2 DEF Disconnect, IInv, TypeOK, SessionPumped
  <2>3. ASSUME NEW x \in Dialers, DialSucceeds(x) \/ Install(x) PROVE FALSE
    BY <2>3 DEF DialSucceeds, Install
  <2>4. ASSUME NEW t \in Tabs, Open(t) \/ TabDialFails(t) PROVE FALSE
    BY <2>4 DEF Open, TabDialFails
  <2>5. ASSUME NEW c \in Conns,
               Check(c) \/ RedialFails(c) \/ GiveUp(c) \/ PumpCancelled(c) \/ Break(c)
        PROVE  FALSE
    BY <2>5 DEF Check, RedialFails, GiveUp, PumpCancelled, Break
  <2> QED
    BY <2>1, <2>2, <2>3, <2>4, <2>5
       DEF Next, TabRuns, RedialRuns, PumpRuns, DaemonStops, DaemonReturns, vars, Dialers
<1>2. IInv /\ [Next]_vars =>
         [session' # session =>
             \/ session = NoConn
             \/ session' = NoConn /\ (conn[session] = "broken" \/ room' = {})]_vars
  BY <1>1
<1> QED BY <1>2, Invariance, PTL DEF Spec
=============================================================================
