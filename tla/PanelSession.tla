---------------------------- MODULE PanelSession ----------------------------
(***************************************************************************)
(* The session of one tab of the web panel (api/client.ts, App.tsx,        *)
(* Login.tsx).  All tabs of a browser share the tokens in localStorage.  A *)
(* refused request is repeated once, after a refresh that every request    *)
(* and socket of the tab waits for together; when that does not help, the  *)
(* tokens are cleared and the page loads again, at the login form.         *)
(***************************************************************************)
CONSTANTS Calls,        \* requests the tab may have under way (bound)
          Me,           \* one of them: the me() that App sends for a new user
          Users,
          NoUser,       \* nobody is logged in; no token is stored
          Nothing       \* no request, no refresh under way

VARIABLES store,     \* localStorage: whose tokens, and what they are still good for
          tab,       \* what the App component shows
          call,      \* call[c]: a request and the token it went with
          refresh,   \* refreshInFlight: the token it was asked with
          socket,    \* the console socket of ServerView
          mixed      \* history: tokens of another user than the one shown were stored

sessionVars == <<store, tab, call, refresh, socket, mixed>>

\* fresh: the access token has not expired; live: the refresh token is of the user's
\* current token_version.
Store == [user : Users \cup {NoUser}, fresh : BOOLEAN, live : BOOLEAN]

\* gate: mustSetup2FA; reloading: window.location.reload() has been called.
Tab == [user : Users \cup {NoUser}, gate : BOOLEAN, reloading : BOOLEAN]

\* for: the user whose page waits for the answer; as: whose token it carries (of no
\* interest when no page waits, or while it waits for the refresh); again: isRetry.
Call == [for : Users \cup {NoUser}, as : Users \cup {NoUser}, again : BOOLEAN,
         waits : BOOLEAN]

Token == [user : Users, live : BOOLEAN]

\* "closed" has no handle; a socket is "doomed" when it dials with an expired token.
Socket == {"closed", "dialling", "doomed", "open", "resting", "refreshing"}

ASSUME SessionAssumption ==
    /\ NoUser \notin Users
    /\ Nothing \notin Token /\ Nothing \notin Call
    /\ Me \in Calls

\* clearTokens and storeTokens
Cleared == [user |-> NoUser, fresh |-> FALSE, live |-> FALSE]
Stored(u) == [user |-> u, fresh |-> TRUE, live |-> TRUE]

\* authHeaders: the token is read when the request goes out.
Sent(for, s, again) == [for |-> for, as |-> s.user, again |-> again, waits |-> FALSE]

UnderWay(c) == call[c] # Nothing /\ ~call[c].waits

Waiting == {c \in Calls : call[c] # Nothing /\ call[c].waits}

Dialling(s) == IF s.fresh THEN "dialling" ELSE "doomed"

Shows == tab.user # NoUser /\ ~tab.reloading

-----------------------------------------------------------------------------
(* Logging in and out, and loading the page anew *)

LoggedInWithoutStore(u) ==
    /\ tab.user = NoUser /\ ~tab.reloading /\ call[Me] = Nothing
    /\ tab' = [tab EXCEPT !.user = u]
    /\ call' = [call EXCEPT ![Me] = Sent(u, store, FALSE)]
    /\ UNCHANGED <<store, refresh, socket, mixed>>

\* The answer to a login: storeTokens, and onLoggedIn has App show the stored user and
\* ask whether 2FA has to be set up.  (An earlier user's me() is taken to have been
\* answered: bound.)  Until then, and after a refused login, only the form changes.
LoggedIn(u) ==
    /\ tab.user = NoUser /\ ~tab.reloading /\ call[Me] = Nothing
    /\ store' = Stored(u)
    /\ tab' = [tab EXCEPT !.user = u]
    /\ call' = [call EXCEPT ![Me] = Sent(u, Stored(u), FALSE)]
    /\ UNCHANGED <<refresh, socket, mixed>>

\* The pages are gone, and nobody waits for their requests any more; these and the
\* refresh under way go on.
Orphaned == [c \in Calls |-> IF call[c] = Nothing THEN Nothing
                             ELSE [call[c] EXCEPT !.for = NoUser, !.as = NoUser]]

handleLogout ==
    /\ Shows
    /\ store' = Cleared
    /\ tab' = [tab EXCEPT !.user = NoUser, !.gate = FALSE]
    /\ call' = Orphaned
    /\ socket' = "closed"
    /\ mixed' = FALSE
    /\ UNCHANGED refresh

\* The user reloads the page.
Leave ==
    /\ ~tab.reloading
    /\ tab' = [tab EXCEPT !.reloading = TRUE]
    /\ UNCHANGED <<store, call, refresh, socket, mixed>>

\* The page is loaded: loadUser, and me() again.
Reload ==
    /\ tab.reloading
    /\ tab' = [user |-> store.user, gate |-> FALSE, reloading |-> FALSE]
    /\ call' = [c \in Calls |-> IF c = Me /\ store.user # NoUser
                                THEN Sent(store.user, store, FALSE) ELSE Nothing]
    /\ refresh' = Nothing
    /\ socket' = "closed"
    /\ mixed' = FALSE
    /\ UNCHANGED store

-----------------------------------------------------------------------------
(* request and its variants, tryRefresh *)

\* The pages and the gate send requests as long as a user is shown.
Send(c) ==
    /\ Shows
    /\ c # Me /\ call[c] = Nothing
    /\ call' = [call EXCEPT ![c] = Sent(tab.user, store, FALSE)]
    /\ UNCHANGED <<store, tab, refresh, socket, mixed>>

\* Anything but a 401: the answer, an error, or none at all.  The answer to me() sets
\* the gate, whoever has logged in since; any other may be the verified code that
\* TwoFactorGate waits for.
Answered(c) ==
    /\ UnderWay(c)
    /\ call' = [call EXCEPT ![c] = Nothing]
    /\ \E gate \in IF c = Me THEN BOOLEAN ELSE {tab.gate, FALSE} :
          tab' = [tab EXCEPT !.gate = gate]
    /\ UNCHANGED <<store, refresh, socket, mixed>>

NoRefresh == refresh = Nothing /\ store.user = NoUser

\* tryRefresh: the caller waits for the refresh under way, or begins one.
Join ==
    refresh' = IF refresh # Nothing THEN refresh
               ELSE [user |-> store.user, live |-> store.live]

\* A 401: the token is bad, or the handler does not believe a code or a password.
Refused(c) ==
    /\ UnderWay(c)
    /\ \/ /\ call[c].again \/ NoRefresh
          /\ store' = Cleared
          /\ tab' = [tab EXCEPT !.reloading = TRUE]
          /\ call' = [call EXCEPT ![c] = Nothing]
          /\ UNCHANGED refresh
       \/ /\ ~call[c].again /\ ~NoRefresh
          /\ call' = [call EXCEPT ![c].waits = TRUE, ![c].as = NoUser]
          /\ Join
          /\ UNCHANGED <<store, tab>>
    /\ UNCHANGED <<socket, mixed>>

Repeated(who, s) ==
    [c \in Calls |-> IF c \in who THEN Sent(call[c].for, s, TRUE) ELSE call[c]]

\* open() goes on after its await, whatever the refresh came to.
Redialled(s) == IF socket = "refreshing" THEN Dialling(s) ELSE socket

\* The token is of the current version: everyone who waited repeats its request.
RefreshOkResumesOne ==
    /\ refresh # Nothing
    /\ refresh.live
    /\ store' = Stored(refresh.user)
    /\ call' = IF Waiting = {} THEN call
             ELSE Repeated({CHOOSE c \in Waiting : TRUE}, Stored(refresh.user))
    /\ socket' = Redialled(Stored(refresh.user))
    /\ mixed' = (mixed \/ tab.user \notin {refresh.user, NoUser})
    /\ refresh' = Nothing
    /\ UNCHANGED tab

RefreshOk ==
    /\ refresh # Nothing
    /\ refresh.live
    /\ store' = Stored(refresh.user)
    /\ call' = Repeated(Waiting, Stored(refresh.user))
    /\ socket' = Redialled(Stored(refresh.user))
    /\ mixed' = (mixed \/ tab.user \notin {refresh.user, NoUser})
    /\ refresh' = Nothing
    /\ UNCHANGED tab

\* Refused, or no answer: everyone who waited clears the tokens and reloads.
RefreshFails ==
    /\ refresh # Nothing
    /\ store' = IF Waiting = {} THEN store ELSE Cleared
    /\ tab' = [tab EXCEPT !.reloading = @ \/ Waiting # {}]
    /\ call' = [c \in Calls |-> IF c \in Waiting THEN Nothing ELSE call[c]]
    /\ socket' = Redialled(store')
    /\ refresh' = Nothing
    /\ UNCHANGED mixed

-----------------------------------------------------------------------------
(* connectConsoleSocketWithRetry *)

OpenConsole ==
    /\ Shows /\ ~tab.gate
    /\ socket = "closed"
    /\ socket' = Dialling(store)
    /\ UNCHANGED <<store, tab, call, refresh, mixed>>

CloseConsole ==
    /\ socket # "closed"
    /\ socket' = "closed"
    /\ UNCHANGED <<store, tab, call, refresh, mixed>>

Connected ==
    /\ socket = "dialling"
    /\ socket' = "open"
    /\ UNCHANGED <<store, tab, call, refresh, mixed>>

\* onclose, of a connection or of an attempt to make one.
Broken ==
    /\ socket \in {"dialling", "doomed", "open"}
    /\ socket' = "resting"
    /\ UNCHANGED <<store, tab, call, refresh, mixed>>

RetryWithoutRefresh ==
    /\ socket = "resting"
    /\ socket' = Dialling(store)
    /\ UNCHANGED <<store, tab, call, refresh, mixed>>

\* The timer fires.  attempt > 0, so open() refreshes before it dials.
Retry ==
    /\ socket = "resting"
    /\ IF NoRefresh THEN socket' = Dialling(store) /\ UNCHANGED refresh
       ELSE socket' = "refreshing" /\ Join
    /\ UNCHANGED <<store, tab, call, mixed>>

-----------------------------------------------------------------------------
(* The server and the other tabs *)

Expire ==
    /\ store.fresh
    /\ store' = [store EXCEPT !.fresh = FALSE]
    /\ UNCHANGED <<tab, call, refresh, socket, mixed>>

\* A password change, 2FA switched off: the token version grows, which only Refresh
\* compares.
Revoke(u) ==
    /\ store' = [store EXCEPT !.live = @ /\ store.user # u]
    /\ refresh' = IF refresh # Nothing /\ refresh.user = u
                  THEN [refresh EXCEPT !.live = FALSE] ELSE refresh
    /\ UNCHANGED <<tab, call, socket, mixed>>

\* Another tab logs in or stores what a refresh brought.
StoreElsewhere(u) ==
    /\ store' = Stored(u)
    /\ mixed' = (mixed \/ tab.user \notin {u, NoUser})
    /\ UNCHANGED <<tab, call, refresh, socket>>

\* Another tab logs out or gives up.
ClearElsewhere ==
    /\ store' = Cleared
    /\ UNCHANGED <<tab, call, refresh, socket, mixed>>

-----------------------------------------------------------------------------

SessionInit ==
    /\ store = Cleared
    /\ tab = [user |-> NoUser, gate |-> FALSE, reloading |-> FALSE]
    /\ call = [c \in Calls |-> Nothing]
    /\ refresh = Nothing
    /\ socket = "closed"
    /\ mixed = FALSE

SessionNext ==
    \/ handleLogout \/ Leave \/ Reload
    \/ \E u \in Users : LoggedIn(u) \/ Revoke(u) \/ StoreElsewhere(u)
    \/ \E c \in Calls : Send(c) \/ Answered(c) \/ Refused(c)
    \/ RefreshOk \/ RefreshFails
    \/ OpenConsole \/ CloseConsole \/ Connected \/ Broken \/ Retry
    \/ Expire \/ ClearElsewhere

\* A request comes to an end one way or the other, a timer fires, a reload happens,
\* and the panel can be reached again and again.
SessionFairness ==
    /\ \A c \in Calls : WF_sessionVars(Answered(c) \/ Refused(c))
    /\ WF_sessionVars(RefreshOk \/ RefreshFails)
    /\ SF_sessionVars(RefreshOk /\ socket = "refreshing")
    /\ WF_sessionVars(Reload)
    /\ WF_sessionVars(Retry)
    /\ WF_sessionVars(socket = "doomed" /\ Broken) /\ SF_sessionVars(Connected)

SessionSpec == SessionInit /\ [][SessionNext]_sessionVars /\ SessionFairness

-----------------------------------------------------------------------------
(* Properties *)

\* Every variable stays in its domain; whoever waits for a refresh has one to wait
\* for.
SessionTypeOK ==
    /\ store \in Store
    /\ tab \in Tab
    /\ call \in [Calls -> Call \cup {Nothing}]
    /\ refresh \in Token \cup {Nothing}
    /\ socket \in Socket
    /\ mixed \in BOOLEAN
    /\ Waiting # {} \/ socket = "refreshing" => refresh # Nothing

\* A page's request goes out, and is repeated after a refresh, with a token of the
\* user the tab shows, through expiry, revocation, logout and login as somebody else
\* -- unless somebody else's tokens were stored while the page was shown: by another
\* tab, or by a refresh that outlived a logout and the next login.
ActsAsShown ==
    \A c \in Calls :
       call[c] # Nothing /\ call[c].for = tab.user /\ tab.user # NoUser /\ ~mixed
           => call[c].as \in {NoUser, tab.user}

\* No request hangs, not even one that waits for a refresh which another began: it
\* ends, or the page is loaded anew.
CallsSettle ==
    \A c \in Calls : call[c] # Nothing ~> call[c] = Nothing \/ tab.reloading

Revoked == ~store.live

\* The console of an open server page comes back whenever it breaks (as the panel's
\* guide says), although the access token has expired meanwhile.
SocketRecovers == []<>(socket \in {"closed", "open"} \/ Revoked)
=============================================================================
