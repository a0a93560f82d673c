------------------------- MODULE PanelSessionProofs -------------------------
(***************************************************************************)
(* A tab's session for any users and any number of requests: the invariant *)
(* SessionInv is inductive and implies ActsAsShown.                        *)
(***************************************************************************)
EXTENDS PanelSession, TLAPS

\* Unless tokens were mixed, those in the store are of the user that is shown.
StoreIsShown == tab.user # NoUser /\ ~mixed => store.user \in {tab.user, NoUser}

\* At the login form no page waits for a request.
NobodyWaits ==
    tab.user = NoUser => \A c \in Calls : call[c] # Nothing => call[c].for = NoUser

SessionInv == SessionTypeOK /\ StoreIsShown /\ NobodyWaits /\ ActsAsShown

LEMMA SessionInitInv == ASSUME SessionInit PROVE SessionInv
BY SessionAssumption
   DEF SessionInit, SessionInv, SessionTypeOK, StoreIsShown, NobodyWaits, ActsAsShown,
       Store, Tab, Socket, Cleared, Waiting

\* clearTokens and storeTokens store what a store holds.
LEMMA StoreValues ==
    /\ Cleared \in Store /\ Cleared.user = NoUser
    /\ \A u \in Users : Stored(u) \in Store /\ Stored(u).user = u
BY DEF Cleared, Stored, Store

\* A request that is sent carries the user of the store and waits for no refresh.
LEMMA SentValue ==
    ASSUME NEW for \in Users \cup {NoUser}, NEW s \in Store, NEW again \in BOOLEAN
    PROVE  /\ Sent(for, s, again) \in Call
           /\ Sent(for, s, again) # Nothing
           /\ Sent(for, s, again).for = for
           /\ Sent(for, s, again).as = s.user
           /\ ~Sent(for, s, again).waits
<1>1. s.user \in Users \cup {NoUser}
  BY DEF Store
<1>2. Sent(for, s, again) \in Call
  BY <1>1 DEF Sent, Call
<1> QED BY <1>2, SessionAssumption DEF Sent

\* Logging in.
LEMMA LoggedInKeeps == ASSUME SessionInv, NEW u \in Users, LoggedIn(u) PROVE SessionInv'
<1> USE SessionAssumption, StoreValues DEF SessionInv, LoggedIn
<1> DEFINE sent == Sent(u, Stored(u), FALSE)
<1>1. /\ sent \in Call /\ sent # Nothing /\ sent.for = u /\ sent.as = u /\ ~sent.waits
  BY SentValue
<1>2. call' = [call EXCEPT ![Me] = sent]
  OBVIOUS
<1> HIDE DEF sent
<1>3. SessionTypeOK'
  <2>1. store' \in Store
    OBVIOUS
  <2>2. tab' \in Tab
    BY DEF SessionTypeOK, Tab
  <2>3. call' \in [Calls -> Call \cup {Nothing}]
    BY <1>1, <1>2 DEF SessionTypeOK
  <2>4. Waiting' \subseteq Waiting
    BY <1>1, <1>2 DEF SessionTypeOK, Waiting
  <2> QED BY <2>1, <2>2, <2>3, <2>4 DEF SessionTypeOK
<1>4. StoreIsShown' /\ NobodyWaits'
  BY DEF SessionTypeOK, Tab, StoreIsShown, NobodyWaits
<1>5. ActsAsShown'
  BY ZenonT(40), <1>1, <1>2 DEF SessionTypeOK, Tab, NobodyWaits, ActsAsShown
<1> QED BY <1>3, <1>4, <1>5

\* Logging out: nobody waits for what is under way.
LEMMA LogoutKeeps == ASSUME SessionInv, handleLogout PROVE SessionInv'
<1> USE SessionAssumption, StoreValues DEF SessionInv, handleLogout, Orphaned
<1>1. \A c \in Calls :
         /\ call'[c] # Nothing => call[c] # Nothing /\ call'[c].for = NoUser
                                  /\ call'[c].waits = call[c].waits
         /\ call'[c] \in Call \cup {Nothing}
  BY ZenonT(40) DEF SessionTypeOK, Call
<1>2. SessionTypeOK'
  <2>1. tab' \in Tab
    BY DEF SessionTypeOK, Tab
  <2>2. call' \in [Calls -> Call \cup {Nothing}]
    BY <1>1 DEF SessionTypeOK
  <2>3. Waiting' \subseteq Waiting
    BY <1>1 DEF Waiting
  <2> QED BY <2>1, <2>2, <2>3 DEF SessionTypeOK, Socket
<1>3. tab'.user = NoUser
  BY DEF SessionTypeOK, Tab
<1>4. StoreIsShown' /\ NobodyWaits' /\ ActsAsShown'
  BY <1>1, <1>3 DEF StoreIsShown, NobodyWaits, ActsAsShown
<1> QED BY <1>2, <1>4

\* The page is loaded anew: its only request is me().
LEMMA ReloadKeeps == ASSUME SessionInv, Reload PROVE SessionInv'
<1> USE SessionAssumption, StoreValues DEF SessionInv, Reload
<1> DEFINE sent == Sent(store.user, store, FALSE)
<1>1. store.user \in Users \cup {NoUser}
  BY DEF SessionTypeOK, Store
<1>2. /\ sent \in Call /\ sent # Nothing /\ sent.for = store.user
      /\ sent.as = store.user /\ ~sent.waits
  BY <1>1, SentValue DEF SessionTypeOK
<1>3. call' = [c \in Calls |-> IF c = Me /\ store.user # NoUser THEN sent ELSE Nothing]
  OBVIOUS
<1> HIDE DEF sent
<1>4. SessionTypeOK'
  <2>1. tab' \in Tab
    BY <1>1 DEF Tab
  <2>2. call' \in [Calls -> Call \cup {Nothing}]
    BY <1>2, <1>3
  <2>3. Waiting' = {}
    BY <1>2, <1>3 DEF Waiting
  <2> QED BY <2>1, <2>2, <2>3 DEF SessionTypeOK, Socket
<1>5. tab'.user = store.user
  OBVIOUS
<1>6. StoreIsShown' /\ NobodyWaits' /\ ActsAsShown'
  BY <1>2, <1>3, <1>5 DEF StoreIsShown, NobodyWaits, ActsAsShown
<1> QED BY <1>4, <1>6

\* A page sends a request.
LEMMA SendKeeps == ASSUME SessionInv, NEW c \in Calls, Send(c) PROVE SessionInv'
<1> USE SessionAssumption DEF SessionInv, Send
<1> DEFINE sent == Sent(tab.user, store, FALSE)
<1>1. tab.user \in Users \cup {NoUser}
  BY DEF SessionTypeOK, Tab
<1>2. /\ sent \in Call /\ sent # Nothing /\ sent.for = tab.user
      /\ sent.as = store.user /\ ~sent.waits
  BY ZenonT(40), <1>1, SentValue DEF SessionTypeOK
<1>3. call' = [call EXCEPT ![c] = sent]
  OBVIOUS
<1> HIDE DEF sent
<1>4. SessionTypeOK'
  <2>1. call' \in [Calls -> Call \cup {Nothing}]
    BY <1>2, <1>3 DEF SessionTypeOK
  <2>2. Waiting' \subseteq Waiting
    BY <1>2, <1>3 DEF SessionTypeOK, Waiting
  <2> QED BY <2>1, <2>2 DEF SessionTypeOK
<1>5. StoreIsShown' /\ NobodyWaits'
  BY DEF StoreIsShown, NobodyWaits, Shows
<1>6. ActsAsShown'
  BY <1>2, <1>3 DEF SessionTypeOK, StoreIsShown, ActsAsShown
<1> QED BY <1>4, <1>5, <1>6

\* A request is answered.
LEMMA AnsweredKeeps == ASSUME SessionInv, NEW c \in Calls, Answered(c) PROVE SessionInv'
<1> USE SessionAssumption DEF SessionInv, Answered
<1>1. PICK gate \in IF c = Me THEN BOOLEAN ELSE {tab.gate, FALSE} :
         tab' = [tab EXCEPT !.gate = gate]
  OBVIOUS
<1>2. tab' \in Tab /\ tab'.user = tab.user
  BY <1>1 DEF SessionTypeOK, Tab
<1>3. SessionTypeOK'
  <2>1. call' \in [Calls -> Call \cup {Nothing}]
    BY DEF SessionTypeOK
  <2>2. Waiting' \subseteq Waiting
    BY DEF SessionTypeOK, Waiting
  <2> QED BY <1>2, <2>1, <2>2 DEF SessionTypeOK
<1>4. StoreIsShown' /\ NobodyWaits' /\ ActsAsShown'
  BY <1>2 DEF SessionTypeOK, StoreIsShown, NobodyWaits, ActsAsShown
<1> QED BY <1>3, <1>4

\* Whoever waits for a refresh has one to wait for.
LEMMA JoinValue ==
    ASSUME SessionTypeOK, ~NoRefresh, Join
    PROVE  refresh' \in Token /\ refresh' # Nothing
BY SessionAssumption DEF SessionTypeOK, NoRefresh, Join, Token, Store

\* A request is refused: the tokens are cleared, or it waits for a refresh.
LEMMA RefusedKeeps == ASSUME SessionInv, NEW c \in Calls, Refused(c) PROVE SessionInv'
<1> USE SessionAssumption, StoreValues DEF SessionInv, Refused
<1>1. CASE /\ store' = Cleared
           /\ tab' = [tab EXCEPT !.reloading = TRUE]
           /\ call' = [call EXCEPT ![c] = Nothing]
           /\ UNCHANGED refresh
  <2>1. tab' \in Tab /\ tab'.user = tab.user
    BY <1>1 DEF SessionTypeOK, Tab
  <2>2. call' \in [Calls -> Call \cup {Nothing}] /\ Waiting' \subseteq Waiting
    BY <1>1 DEF SessionTypeOK, Waiting
  <2>3. SessionTypeOK'
    BY <1>1, <2>1, <2>2 DEF SessionTypeOK
  <2>4. StoreIsShown' /\ NobodyWaits' /\ ActsAsShown'
    BY <1>1, <2>1 DEF SessionTypeOK, StoreIsShown, NobodyWaits, ActsAsShown
  <2> QED BY <2>3, <2>4
<1>2. CASE /\ ~NoRefresh
           /\ call' = [call EXCEPT ![c].waits = TRUE, ![c].as = NoUser]
           /\ Join
           /\ UNCHANGED <<store, tab>>
  <2>1. refresh' \in Token /\ refresh' # Nothing
    BY <1>2, JoinValue
  <2>2. call[c] \in Call
    BY DEF SessionTypeOK, UnderWay
  <2>3. call'[c] \in Call /\ call'[c].for = call[c].for /\ call'[c].as = NoUser
    BY <1>2, <2>2 DEF SessionTypeOK, Call
  <2>4. \A d \in Calls \ {c} : call'[d] = call[d]
    BY <1>2 DEF SessionTypeOK
  <2>5. call' \in [Calls -> Call \cup {Nothing}]
    BY <1>2, <2>3, <2>4 DEF SessionTypeOK
  <2>6. SessionTypeOK'
    BY <1>2, <2>1, <2>5 DEF SessionTypeOK
  <2>7. StoreIsShown' /\ NobodyWaits' /\ ActsAsShown'
    BY ZenonT(40), <1>2, <2>2, <2>3, <2>4 DEF StoreIsShown, NobodyWaits, ActsAsShown
  <2> QED BY <2>6, <2>7
<1> QED BY <1>1, <1>2

\* A socket is in a state of a socket whatever the refresh came to.
LEMMA RedialledValue ==
    ASSUME socket \in Socket, NEW s
    PROVE  Redialled(s) \in Socket /\ Redialled(s) # "refreshing"
BY DEF Redialled, Dialling, Socket

\* The refresh succeeds: what waited goes out again with the token it brought.
LEMMA RefreshOkKeeps == ASSUME SessionInv, RefreshOk PROVE SessionInv'
<1> USE SessionAssumption, StoreValues DEF SessionInv, RefreshOk
<1>1. refresh.user \in Users
  BY DEF SessionTypeOK, Token
<1>2. \A c \in Waiting :
         /\ call'[c] \in Call /\ call'[c] # Nothing /\ ~call'[c].waits
         /\ call'[c].for = call[c].for /\ call'[c].as = refresh.user
  <2> SUFFICES ASSUME NEW c \in Waiting
               PROVE  /\ call'[c] \in Call /\ call'[c] # Nothing /\ ~call'[c].waits
                      /\ call'[c].for = call[c].for /\ call'[c].as = refresh.user
    OBVIOUS
  <2>1. c \in Calls /\ call[c].for \in Users \cup {NoUser}
    BY DEF SessionTypeOK, Waiting, Call
  <2>2. call'[c] = Sent(call[c].for, Stored(refresh.user), TRUE)
    BY <2>1 DEF Repeated
  <2> DEFINE s == Stored(refresh.user)
  <2>3. s \in Store /\ s.user = refresh.user
    BY <1>1
  <2> HIDE DEF s
  <2>4. LET sent == Sent(call[c].for, s, TRUE) IN
        /\ sent \in Call /\ sent # Nothing /\ ~sent.waits
        /\ sent.for = call[c].for /\ sent.as = s.user
    BY <2>1, <2>3, SentValue
  <2> QED BY <2>2, <2>3, <2>4 DEF s
<1>3. \A c \in Calls \ Waiting : call'[c] = call[c]
  BY DEF Repeated
<1>4. SessionTypeOK'
  <2>1. call' \in [Calls -> Call \cup {Nothing}]
    BY <1>2, <1>3 DEF SessionTypeOK, Repeated
  <2>2. Waiting' = {}
    BY <1>2, <1>3 DEF Waiting
  <2>3. socket' \in Socket /\ socket' # "refreshing"
    BY RedialledValue DEF SessionTypeOK
  <2> QED BY <1>1, <2>1, <2>2, <2>3 DEF SessionTypeOK
<1>5. StoreIsShown'
  BY <1>1 DEF StoreIsShown
<1>6. NobodyWaits'
  BY <1>2, <1>3 DEF NobodyWaits, Waiting
<1>7. ActsAsShown'
  <2> SUFFICES ASSUME NEW c \in Calls, call'[c] # Nothing, call'[c].for = tab.user,
                      tab.user # NoUser, ~mixed'
               PROVE  call'[c].as \in {NoUser, tab.user}
    BY DEF ActsAsShown
  <2>1. CASE c \in Waiting
    BY <1>1, <1>2, <2>1 DEF StoreIsShown
  <2>2. CASE c \notin Waiting
    BY <1>3, <2>2 DEF ActsAsShown
  <2> QED BY <2>1, <2>2
<1> QED BY <1>4, <1>5, <1>6, <1>7

\* The refresh fails: nobody waits any more.
LEMMA RefreshFailsKeeps == ASSUME SessionInv, RefreshFails PROVE SessionInv'
<1> USE SessionAssumption, StoreValues DEF SessionInv, RefreshFails
<1>1. store' \in Store /\ store'.user \in {store.user, NoUser}
  BY DEF SessionTypeOK
<1>2. tab' \in Tab /\ tab'.user = tab.user
  BY DEF SessionTypeOK, Tab
<1>3. \A c \in Calls : call'[c] # Nothing => call'[c] = call[c] /\ c \notin Waiting
  OBVIOUS
<1>4. SessionTypeOK'
  <2>1. call' \in [Calls -> Call \cup {Nothing}]
    BY DEF SessionTypeOK
  <2>2. Waiting' = {}
    BY <1>3 DEF Waiting
  <2>3. socket' \in Socket /\ socket' # "refreshing"
    BY RedialledValue DEF SessionTypeOK
  <2> QED BY <1>1, <1>2, <2>1, <2>2, <2>3 DEF SessionTypeOK
<1>5. StoreIsShown'
  BY <1>1, <1>2 DEF StoreIsShown
<1>6. NobodyWaits' /\ ActsAsShown'
  BY <1>2, <1>3 DEF NobodyWaits, ActsAsShown
<1> QED BY <1>4, <1>5, <1>6

\* The console socket, whose retry joins a refresh.
LEMMA ConsoleKeeps ==
    ASSUME SessionInv, OpenConsole \/ CloseConsole \/ Connected \/ Broken \/ Retry
    PROVE  SessionInv'
<1>1. SessionTypeOK'
  <2>1. CASE OpenConsole \/ CloseConsole \/ Connected \/ Broken
    BY <2>1 DEF SessionInv, SessionTypeOK, OpenConsole, CloseConsole, Connected, Broken,
                Dialling, Socket, Waiting
  <2>2. CASE Retry /\ NoRefresh
    BY <2>2 DEF SessionInv, SessionTypeOK, Retry, Dialling, Socket, Waiting
  <2>3. CASE Retry /\ ~NoRefresh
    <3>1. refresh' \in Token /\ refresh' # Nothing
      BY <2>3, JoinValue DEF SessionInv, Retry
    <3> QED BY <2>3, <3>1 DEF SessionInv, SessionTypeOK, Retry, Socket
  <2> QED BY <2>1, <2>2, <2>3
<1>2. UNCHANGED <<store, tab, call, mixed>>
  BY DEF OpenConsole, CloseConsole, Connected, Broken, Retry
<1> QED BY <1>1, <1>2 DEF SessionInv, StoreIsShown, NobodyWaits, ActsAsShown

\* Tokens age, and other tabs store and clear them.
LEMMA OthersKeep ==
    ASSUME SessionInv,
           Expire \/ ClearElsewhere \/ \E u \in Users : Revoke(u) \/ StoreElsewhere(u)
    PROVE  SessionInv'
<1> USE SessionAssumption, StoreValues DEF SessionInv
<1>1. UNCHANGED <<tab, call, socket>>
  BY DEF Expire, ClearElsewhere, Revoke, StoreElsewhere
<1>2. store' \in Store
  BY ZenonT(40) DEF SessionTypeOK, Store, Expire, ClearElsewhere, Revoke, StoreElsewhere
<1>3. refresh' \in Token \cup {Nothing} /\ (refresh # Nothing => refresh' # Nothing)
  BY ZenonT(40) DEF SessionTypeOK, Token, Expire, ClearElsewhere, Revoke, StoreElsewhere
<1>4. mixed' \in BOOLEAN /\ (mixed => mixed')
  BY DEF SessionTypeOK, Expire, ClearElsewhere, Revoke, StoreElsewhere
<1>5. SessionTypeOK'
  BY <1>1, <1>2, <1>3, <1>4 DEF SessionTypeOK, Waiting
<1>6. StoreIsShown'
  BY ZenonT(40) DEF SessionTypeOK, Store, StoreIsShown, Expire, ClearElsewhere, Revoke, StoreElsewhere
<1>7. NobodyWaits' /\ ActsAsShown'
  BY <1>1, <1>4 DEF NobodyWaits, ActsAsShown
<1> QED BY <1>5, <1>6, <1>7

\* The user asks for a reload.
LEMMA LeaveKeeps == ASSUME SessionInv, Leave PROVE SessionInv'
BY DEF SessionInv, Leave, SessionTypeOK, Tab, StoreIsShown, NobodyWaits, ActsAsShown, Waiting

LEMMA SessionNextKeeps == ASSUME SessionInv, [SessionNext]_sessionVars PROVE SessionInv'
<1>1. CASE UNCHANGED sessionVars
  BY <1>1 DEF sessionVars, SessionInv, SessionTypeOK, StoreIsShown, NobodyWaits,
              ActsAsShown, Waiting
<1>2. CASE SessionNext
  BY <1>2, LogoutKeeps, LeaveKeeps, ReloadKeeps, LoggedInKeeps, SendKeeps, AnsweredKeeps,
     RefusedKeeps, RefreshOkKeeps, RefreshFailsKeeps, ConsoleKeeps, OthersKeep
     DEF SessionNext
<1> QED BY <1>1, <1>2

\* The variables keep their domains, and whoever waits for a refresh has one to wait for
\* (client.ts, tryRefresh), for any number of users and requests.
THEOREM SessionTypeCorrect == SessionSpec => []SessionTypeOK
<1>1. SessionInv => SessionTypeOK
  BY DEF SessionInv
<1> QED BY <1>1, SessionInitInv, SessionNextKeeps, PTL DEF SessionSpec

\* Unless tokens were stored over those of another session, no page's request goes out
\* with another user's token (client.ts, authHeaders and request), for any number of
\* users and requests.
THEOREM SessionActsAsShown == SessionSpec => []ActsAsShown
<1>1. SessionInv => ActsAsShown
  BY DEF SessionInv
<1> QED BY <1>1, SessionInitInv, SessionNextKeeps, PTL DEF SessionSpec
=============================================================================
