----------------------------- MODULE ConsoleHub -----------------------------
(***************************************************************************)
(* The console half of the panel's WebSocket hub (ws/hub.go) for one       *)
(* server: browser tabs watch a room, one session carries the daemon's     *)
(* console to it, and a goroutine redials when the session dies.  The maps *)
(* of the hub are keyed by server, so the servers do not touch each other. *)
(*                                                                         *)
(* h.mu is released before a dial and taken again after it: the steps of a *)
(* goroutine here are its critical sections and its dials.  A redialing    *)
(* goroutine is named after the connection whose loss started it.          *)
(***************************************************************************)
EXTENDS Integers, FiniteSets

CONSTANTS Tabs,      \* browser tabs that open and close this console
          Conns,     \* connections the panel can have, reused once forgotten
          Attempts,  \* how often redialConsole dials before it gives up
          NoConn     \* no entry in consoleSessions, nothing dialled

ASSUME ConsoleHubAssumption ==
    /\ IsFiniteSet(Conns)
    /\ Tabs \cap Conns = {}
    /\ Attempts \in Nat \ {0}
    /\ NoConn \notin Conns

VARIABLES room,       \* consoleRooms[uuid]: tabs that get the output
          session,    \* consoleSessions[uuid]
          stage,      \* stage[x]: where the goroutine of tab or redial x is
          dialled,    \* dialled[x]: what x has dialled and not yet installed
          conn,       \* conn[c]: what the daemon and the panel did to c
          pumping,    \* connections a pumpConsole goroutine reads from
          tries,      \* tries[c]: failed dials of the redial for c
          told,       \* tabs that got "could not reconnect to node daemon" since the
                      \* last session was installed
          reachable   \* the node daemon answers dials

vars == <<room, session, stage, dialled, conn, pumping, tries, told, reachable>>

Dialers == Tabs \cup Conns

TabStages == {"away", "dial", "install", "reading"}
RedialStages == {"idle", "check", "dial", "install", "giveup"}
Redialing(c) == stage[c] # "idle"

Goto(x, s) == stage' = [stage EXCEPT ![x] = s]

\* Nothing in the panel refers to c any more.
Forgotten(c) ==
    /\ conn[c] = "closed"
    /\ c \notin pumping
    /\ ~Redialing(c)

-----------------------------------------------------------------------------
(* Browser tabs: ServeConsoleSocket *)

OpenFirstDials(t) ==
    /\ stage[t] = "away"
    /\ room' = room \cup {t}
    /\ Goto(t, IF room = {} THEN "dial" ELSE "reading")
    /\ UNCHANGED <<session, dialled, conn, pumping, tries, told, reachable>>

\* subscribeConsole up to the unlock: dial if there is no session.
Open(t) ==
    /\ stage[t] = "away"
    /\ room' = room \cup {t}
    /\ Goto(t, IF session = NoConn THEN "dial" ELSE "reading")
    /\ UNCHANGED <<session, dialled, conn, pumping, tries, told, reachable>>

\* unsubscribeConsole: the last tab to leave takes the session with it.
Close(t) ==
    /\ stage[t] = "reading"
    /\ room' = room \ {t}
    /\ told' = told \ {t}
    /\ IF room' = {} /\ session # NoConn
       THEN session' = NoConn /\ conn' = [conn EXCEPT ![session] = "closed"]
       ELSE UNCHANGED <<session, conn>>
    /\ Goto(t, "away")
    /\ UNCHANGED <<dialled, pumping, tries, reachable>>

-----------------------------------------------------------------------------
(* Dialling: dialConsoleSession, called by tabs and by redials *)

DialSucceeds(x) ==
    /\ stage[x] = "dial"
    /\ reachable
    /\ \E c \in Conns :
          /\ Forgotten(c)
          /\ dialled' = [dialled EXCEPT ![x] = c]
          /\ conn' = [conn EXCEPT ![c] = "open"]
    /\ Goto(x, "install")
    /\ UNCHANGED <<room, session, pumping, tries, told, reachable>>

\* The daemon does not answer, or the panel has no connection left.
CannotDial == ~reachable \/ \A c \in Conns : ~Forgotten(c)

\* A tab whose dial fails is told so and disconnected.
TabDialFails(t) ==
    /\ stage[t] = "dial"
    /\ CannotDial
    /\ room' = room \ {t}
    /\ told' = told \ {t}
    /\ Goto(t, "away")
    /\ UNCHANGED <<session, dialled, conn, pumping, tries, reachable>>

RedialFailsOnceMore(c) ==
    /\ stage[c] = "dial"
    /\ CannotDial
    /\ tries' = [tries EXCEPT ![c] = @ + 1]
    /\ Goto(c, IF tries[c] + 1 <= Attempts THEN "check" ELSE "giveup")
    /\ UNCHANGED <<room, session, dialled, conn, pumping, told, reachable>>

RedialFailsUncounted(c) ==
    /\ stage[c] = "dial"
    /\ CannotDial
    /\ Goto(c, IF tries[c] + 1 < Attempts THEN "check" ELSE "giveup")
    /\ UNCHANGED <<room, session, dialled, conn, pumping, tries, told, reachable>>

\* A redial sleeps a little longer before each new attempt.
RedialFails(c) ==
    /\ stage[c] = "dial"
    /\ CannotDial
    /\ tries' = [tries EXCEPT ![c] = @ + 1]
    /\ Goto(c, IF tries[c] + 1 < Attempts THEN "check" ELSE "giveup")
    /\ UNCHANGED <<room, session, dialled, conn, pumping, told, reachable>>

AfterDial(x) == IF x \in Tabs THEN "reading" ELSE "idle"

InstallAlways(x) ==
    /\ stage[x] = "install"
    /\ session' = dialled[x]
    /\ pumping' = pumping \cup {dialled[x]}
    /\ told' = {}
    /\ dialled' = [dialled EXCEPT ![x] = NoConn]
    /\ Goto(x, AfterDial(x))
    /\ UNCHANGED <<room, conn, tries, reachable>>

InstallForgetsLoser(x) ==
    /\ stage[x] = "install"
    /\ IF session = NoConn
       THEN session' = dialled[x] /\ pumping' = pumping \cup {dialled[x]} /\ told' = {}
       ELSE UNCHANGED <<session, pumping, told>>
    /\ dialled' = [dialled EXCEPT ![x] = NoConn]
    /\ Goto(x, AfterDial(x))
    /\ UNCHANGED <<room, conn, tries, reachable>>

\* The first dial that returns becomes the session; the others are closed.
Install(x) ==
    /\ stage[x] = "install"
    /\ IF session = NoConn
       THEN /\ session' = dialled[x]
            /\ pumping' = pumping \cup {dialled[x]}
            /\ told' = {}
            /\ UNCHANGED conn
       ELSE /\ conn' = [conn EXCEPT ![dialled[x]] = "closed"]
            /\ UNCHANGED <<session, pumping, told>>
    /\ dialled' = [dialled EXCEPT ![x] = NoConn]
    /\ Goto(x, AfterDial(x))
    /\ UNCHANGED <<room, tries, reachable>>

-----------------------------------------------------------------------------
(* Pumping, losing and redialling: pumpConsole and below *)

\* A pump whose context was cancelled before it read again just ends.
PumpCancelled(c) ==
    /\ c \in pumping
    /\ conn[c] = "closed"
    /\ pumping' = pumping \ {c}
    /\ UNCHANGED <<room, session, stage, dialled, conn, tries, told, reachable>>

\* handleConsoleDisconnect, also reached when the panel itself closed c.
Disconnect(c) ==
    /\ c \in pumping
    /\ conn[c] # "open"
    /\ pumping' = pumping \ {c}
    /\ conn' = [conn EXCEPT ![c] = "closed"]
    /\ session' = IF session = c THEN NoConn ELSE session
    /\ IF room = {}
       THEN UNCHANGED <<stage, tries>>
       ELSE Goto(c, "check") /\ tries' = [tries EXCEPT ![c] = 0]
    /\ UNCHANGED <<room, dialled, told, reachable>>

\* redialConsole looks again before every attempt.
Check(c) ==
    /\ stage[c] = "check"
    /\ Goto(c, IF room = {} \/ session # NoConn THEN "idle" ELSE "dial")
    /\ UNCHANGED <<room, session, dialled, conn, pumping, tries, told, reachable>>

\* "[console] could not reconnect to node daemon"
GiveUp(c) ==
    /\ stage[c] = "giveup"
    /\ told' = told \cup room
    /\ Goto(c, "idle")
    /\ UNCHANGED <<room, session, dialled, conn, pumping, tries, reachable>>

-----------------------------------------------------------------------------
(* The node *)

\* The daemon ends a connection: it restarts, or the network drops it.
Break(c) ==
    /\ conn[c] = "open"
    /\ conn' = [conn EXCEPT ![c] = "broken"]
    /\ UNCHANGED <<room, session, stage, dialled, pumping, tries, told, reachable>>

DaemonStops ==
    /\ reachable
    /\ reachable' = FALSE
    /\ UNCHANGED <<room, session, stage, dialled, conn, pumping, tries, told>>

DaemonReturns ==
    /\ ~reachable
    /\ reachable' = TRUE
    /\ UNCHANGED <<room, session, stage, dialled, conn, pumping, tries, told>>

-----------------------------------------------------------------------------

Init ==
    /\ room = {}
    /\ session = NoConn
    /\ stage = [x \in Dialers |-> IF x \in Tabs THEN "away" ELSE "idle"]
    /\ dialled = [x \in Dialers |-> NoConn]
    /\ conn = [c \in Conns |-> "closed"]
    /\ pumping = {}
    /\ tries = [c \in Conns |-> 0]
    /\ told = {}
    /\ reachable = TRUE

\* What the goroutines do by themselves.
TabRuns(t) == DialSucceeds(t) \/ TabDialFails(t) \/ Install(t)
RedialRuns(c) == Check(c) \/ DialSucceeds(c) \/ RedialFails(c) \/ Install(c) \/ GiveUp(c)
PumpRuns(c) == PumpCancelled(c) \/ Disconnect(c)

Next ==
    \/ \E t \in Tabs : Open(t) \/ Close(t) \/ TabRuns(t)
    \/ \E c \in Conns : RedialRuns(c) \/ PumpRuns(c) \/ Break(c)
    \/ DaemonStops \/ DaemonReturns

Spec == Init /\ [][Next]_vars

\* Goroutines are scheduled and every dial returns; nobody has to open or
\* close a tab, and the daemon need not come back.
FairSpec ==
    /\ Spec
    /\ \A t \in Tabs : WF_vars(TabRuns(t))
    /\ \A c \in Conns : WF_vars(RedialRuns(c)) /\ WF_vars(PumpRuns(c))

-----------------------------------------------------------------------------
(* Properties *)

\* Every variable stays in its domain; no redial exceeds its attempts.
TypeOK ==
    /\ room \subseteq Tabs
    /\ session \in Conns \cup {NoConn}
    /\ stage \in [Dialers -> TabStages \cup RedialStages]
    /\ \A t \in Tabs : stage[t] \in TabStages
    /\ \A c \in Conns : stage[c] \in RedialStages
    /\ dialled \in [Dialers -> Conns \cup {NoConn}]
    /\ conn \in [Conns -> {"open", "broken", "closed"}]
    /\ pumping \subseteq Conns
    /\ tries \in [Conns -> 0 .. Attempts]
    /\ told \subseteq Tabs
    /\ reachable \in BOOLEAN

\* However the dials of tabs and redials race, the room is fed from one living
\* connection, so no tab gets a line of output twice (dialConsoleSession).
FedOnce == \A c \in pumping : conn[c] = "open" => c = session

\* Every connection to the daemon has somebody who will close it: a dialler
\* that has yet to install it, or the pump that reads from it.
NoOrphanConnection ==
    \A c \in Conns :
        conn[c] # "closed" => c \in pumping \/ \E x \in Dialers : dialled[x] = c

\* A tab that reads while there is no session either has a redial at work for it
\* or was told, since the last session, that there will be none
\* (handleConsoleDisconnect: the tabs "recover on their own instead of staying
\* stuck", hub.go:314).
NoSilentTab ==
    \A t \in Tabs :
        stage[t] = "reading" /\ session = NoConn /\ t \notin told =>
            \E c \in Conns : Redialing(c)

\* A tab without a session gets one, or a message, or is closed, in the end.
SilenceEnds ==
    \A t \in Tabs :
        stage[t] = "reading" /\ session = NoConn
            ~> session # NoConn \/ t \in told \/ stage[t] # "reading"

-----------------------------------------------------------------------------
(* The inductive invariant *)

\* A tab is in the room from its subscription to its departure.
RoomFollowsStage == room = {t \in Tabs : stage[t] # "away"}

\* A connection that has been dialled and not installed belongs to its dialler.
DialledPrivate ==
    /\ \A x \in Dialers : stage[x] = "install" <=> dialled[x] # NoConn
    /\ \A x \in Dialers :
          dialled[x] # NoConn =>
              /\ conn[dialled[x]] # "closed"
              /\ dialled[x] \notin pumping
              /\ ~Redialing(dialled[x])
              /\ \A y \in Dialers \ {x} : dialled[y] # dialled[x]

\* The session is read from, and the panel has not closed it.
SessionPumped == session # NoConn => session \in pumping /\ conn[session] # "closed"

\* A connection with a pump is not at the same time being redialled for.
PumpOrRedial == \A c \in pumping : ~Redialing(c)

\* What a pump reads from and the panel has not closed is the session.
LiveIsSession == \A c \in pumping : conn[c] # "closed" => c = session

\* A redial that dials again has an attempt left.
TriesLeft == \A c \in Conns : stage[c] \in {"check", "dial"} => tries[c] < Attempts

IInv ==
    /\ TypeOK
    /\ RoomFollowsStage
    /\ DialledPrivate
    /\ SessionPumped
    /\ PumpOrRedial
    /\ LiveIsSession
    /\ TriesLeft
    /\ NoOrphanConnection
    /\ NoSilentTab
=============================================================================
