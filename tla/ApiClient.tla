----------------------------- MODULE ApiClient -----------------------------
(***************************************************************************)
(* The panel's use of its tokens: api.js, panel-common.js and login.js in  *)
(* the tabs of one browser, with the server's part in it.  A refresh token *)
(* is in the storage of its tab (sess) or in that of all tabs (local), an  *)
(* access token in that of its tab.  A session is its refresh token.       *)
(*                                                                         *)
(* A page runs until the next one opens: in between (toPanel, toLogin) it  *)
(* still gets answers.  leaving is handleLogout waiting for its request.   *)
(* It sends /me beside the requests of its own script, and all of them,    *)
(* the silent refresh and the live feed share one refresh at a time.       *)
(***************************************************************************)
EXTENDS Naturals, Sequences, FiniteSets

CONSTANTS
  Tabs,
  Sessions,
  None,
  Calls, Me,  \* requests a page can have under way; GET /me of syncProfile
  MaxTokens,  \* bound of the model: access tokens that are issued
  MaxBusy     \* bound of the model: tabs with requests or a live feed under way at a time

ASSUME ClientAssumption ==
  None \notin Sessions /\ Me \in Calls /\ MaxTokens \in Nat /\ MaxBusy \in Nat

VARIABLES
  sess, local, access,   \* the browser's storage
  tab,                   \* the page of each tab
  used, live,            \* the server: sessions there were, and those there are
  made, valid            \* access tokens, with their sessions, and those not expired

storage == <<sess, local, access>>
server == <<used, live, made, valid>>
vars == <<sess, local, access, tab, used, live, made, valid>>

Token == 0 .. MaxTokens   \* 0: none

Call == [phase : {"idle", "sent", "waiting"},
         token : Token, status : {"asked", "done", "refused"},
         again : BOOLEAN, executed : 0 .. 2]
Refresh == [session : Sessions \cup {None}, status : {"asked", "granted", "refused"},
            token : Token]
Page == [at : {"closed", "login", "toPanel", "panel", "leaving", "toLogin"},
         refresh : Refresh,
         silent : BOOLEAN, socket : BOOLEAN,   \* startSilentRefresh, connectWs wait for it
         calls : [Calls -> Call]]

TypeOK ==
  /\ sess \in [Tabs -> used \cup {None}] /\ local \in used \cup {None}
  /\ access \in [Tabs -> 0 .. Len(made)]
  /\ tab \in [Tabs -> Page]
  /\ used \subseteq Sessions /\ live \subseteq used
  /\ made \in Seq(used) /\ Len(made) <= MaxTokens /\ valid \subseteq 1 .. Len(made)

NotCalled == [phase |-> "idle", token |-> 0, status |-> "asked", again |-> FALSE, executed |-> 0]
NoRefresh == [session |-> None, status |-> "asked", token |-> 0]
Opened(at) == [at |-> at, refresh |-> NoRefresh, silent |-> FALSE, socket |-> FALSE,
                calls |-> [c \in Calls |-> NotCalled]]

Busy == {t \in Tabs : tab[t].socket \/ \E c \in Calls : tab[t].calls[c].phase # "idle"}
RoomFor(t) == Cardinality(Busy \cup {t}) <= MaxBusy

First(s, l) == IF s # None THEN s ELSE l
RefreshToken(t) == First(sess[t], local)

Sent(token) == [NotCalled EXCEPT !.phase = "sent", !.token = token]
Waiting(call) ==
  [NotCalled EXCEPT !.phase = "waiting", !.status = "refused", !.executed = call.executed]
SentAgain(call, token) ==
  [call EXCEPT !.phase = "sent", !.token = token, !.status = "asked", !.again = TRUE]

\* The refresh that whoever calls refreshAccessToken waits for; none without a token.
Shared(t, page) ==
  IF page.refresh.session # None THEN page.refresh
  ELSE [NoRefresh EXCEPT !.session = RefreshToken(t)]

-----------------------------------------------------------------------------
(* The server. *)

Issue(s) == made' = Append(made, s) /\ valid' = valid \cup {Len(made) + 1}

ServeRefresh(t) ==
  LET r == tab[t].refresh IN
    /\ r.session # None /\ r.status = "asked"
    /\ IF r.session \in live
       THEN /\ Len(made) < MaxTokens
            /\ Issue(r.session)
            /\ tab' = [tab EXCEPT ![t].refresh =
                         [@ EXCEPT !.status = "granted", !.token = Len(made) + 1]]
       ELSE /\ UNCHANGED <<made, valid>>
            /\ tab' = [tab EXCEPT ![t].refresh.status = "refused"]
    /\ UNCHANGED <<storage, used, live>>

Served(call) ==
  IF call.token \in valid THEN [call EXCEPT !.status = "done", !.executed = @ + 1]
  ELSE [call EXCEPT !.status = "refused"]

ServeCall(t, c) ==
  LET call == tab[t].calls[c] IN
    /\ call.phase = "sent" /\ call.status = "asked"
    /\ tab' = [tab EXCEPT ![t].calls[c] = Served(call)]
    /\ UNCHANGED <<storage, server>>

\* A logout request arrives, the password is changed, the account or the token's time ends.
EndSession(s) ==
  /\ s \in live
  /\ live' = live \ {s}
  /\ UNCHANGED <<storage, tab, used, made, valid>>

Expire(token) ==
  /\ token \in valid
  /\ valid' = valid \ {token}
  /\ UNCHANGED <<storage, tab, used, live, made>>

-----------------------------------------------------------------------------
(* Pages and what the user does. *)

\* Remembered or not; what the tab had is replaced either way.
SaveTokens(t, s, token, remember) ==
  /\ IF remember
     THEN local' = s /\ sess' = [sess EXCEPT ![t] = None]
     ELSE local' = None /\ sess' = [sess EXCEPT ![t] = s]
  /\ access' = [access EXCEPT ![t] = token]

\* The form: /auth/login, after /auth/register if that is its mode.
Login(t, s, remember) ==
  /\ tab[t].at = "login" /\ s \notin used /\ Len(made) < MaxTokens
  /\ used' = used \cup {s} /\ live' = live \cup {s} /\ Issue(s)
  /\ SaveTokens(t, s, Len(made) + 1, remember)
  /\ tab' = [tab EXCEPT ![t].at = "toPanel"]

\* The user opens a page of the panel in a tab.
OpenTab(t) ==
  /\ tab[t].at = "closed"
  /\ tab' = [tab EXCEPT ![t].at = "toPanel"]
  /\ UNCHANGED <<storage, server>>

\* requireAuth, startSilentRefresh and syncProfile.
OpenPanel(t) ==
  /\ tab[t].at = "toPanel" /\ RoomFor(t)
  /\ tab' = [tab EXCEPT ![t] =
       IF RefreshToken(t) = None THEN Opened("toLogin")
       ELSE [Opened("panel") EXCEPT !.refresh = Shared(t, Opened("panel")),
                                    !.silent = TRUE,
                                    !.calls[Me] = Sent(access[t])]]
  /\ UNCHANGED <<storage, server>>

\* autoLogin.
OpenLogin(t) ==
  /\ tab[t].at = "toLogin"
  /\ tab' = [tab EXCEPT ![t] =
       [Opened("login") EXCEPT !.refresh = Shared(t, Opened("login"))]]
  /\ UNCHANGED <<storage, server>>

\* handleLogout, n times, of a page whose storage holds s and l.
HandleLogout(t, page, s, l, n) ==
  LET token == First(s, l)
      gone == token = None \/ n > 1 \/ page.at = "toLogin"
  IN /\ sess' = [sess EXCEPT ![t] = None] /\ local' = None
     /\ access' = [access EXCEPT ![t] = 0]
     /\ tab' = [tab EXCEPT ![t] = [page EXCEPT !.at = IF gone THEN "toLogin" ELSE "leaving"]]

Logout(t) ==
  /\ tab[t].at \in {"panel", "leaving"}
  /\ HandleLogout(t, tab[t], sess[t], local, 1)
  /\ UNCHANGED server

\* The logout request is answered or times out.
Leave(t) ==
  /\ tab[t].at = "leaving"
  /\ tab' = [tab EXCEPT ![t].at = "toLogin"]
  /\ UNCHANGED <<storage, server>>

\* The page's script or the user asks for something, on a page that leaves as well.
Write(t, c) ==
  /\ tab[t].at \in {"panel", "leaving"} /\ c # Me /\ tab[t].calls[c].phase = "idle" /\ RoomFor(t)
  /\ tab' = [tab EXCEPT ![t].calls[c] = Sent(access[t])]
  /\ UNCHANGED <<storage, server>>

-----------------------------------------------------------------------------
(* request. *)

\* The call fails with "Unauthorized"; syncProfile then logs out.
Unauthorized(t, c) ==
  LET page == [tab[t] EXCEPT !.calls[c] = NotCalled] IN
    IF c = Me THEN HandleLogout(t, page, sess[t], local, 1)
    ELSE tab' = [tab EXCEPT ![t] = page] /\ UNCHANGED storage

Answered(t, c, status) == tab[t].calls[c].phase = "sent" /\ tab[t].calls[c].status = status

CallSucceeds(t, c) ==
  /\ Answered(t, c, "done")
  /\ tab' = [tab EXCEPT ![t].calls[c] = NotCalled]
  /\ UNCHANGED <<storage, server>>

CallRefused(t, c) ==
  LET call == tab[t].calls[c]
      stale == access[t] # call.token
  IN /\ Answered(t, c, "refused")
     /\ IF \/ call.again
           \/ stale /\ access[t] = 0
           \/ ~stale /\ Shared(t, tab[t]).session = None
        THEN Unauthorized(t, c)
        ELSE /\ tab' = IF stale
                       THEN [tab EXCEPT ![t].calls[c] = SentAgain(call, access[t])]
                       ELSE [tab EXCEPT ![t].calls[c] = Waiting(call),
                                        ![t].refresh = Shared(t, tab[t])]
             /\ UNCHANGED storage
     /\ UNCHANGED server

\* Mutant: a request is sent again after its timeout.
CallTimesOutAgain(t, c) ==
  /\ tab[t].calls[c].phase = "sent"
  /\ tab' = [tab EXCEPT ![t].calls[c] =
       IF @.again THEN NotCalled ELSE SentAgain(@, @.token)]
  /\ UNCHANGED <<storage, server>>

\* A timeout, a network failure or an answer with an error but 401, after the
\* server has carried out the request or not.
CallTimesOut(t, c) ==
  /\ tab[t].calls[c].phase = "sent"
  /\ tab' = [tab EXCEPT ![t].calls[c] = NotCalled]
  /\ UNCHANGED <<storage, server>>

-----------------------------------------------------------------------------
(* refreshAccessToken. *)

\* startSilentRefresh, every ten minutes; a refresh takes 15 seconds at most.
SilentRefresh(t) ==
  LET refresh == Shared(t, tab[t]) IN
    /\ tab[t].at \in {"panel", "leaving"} /\ ~tab[t].silent
    /\ IF refresh.session = None
       THEN HandleLogout(t, tab[t], sess[t], local, 1)
       ELSE /\ tab' = [tab EXCEPT ![t].refresh = refresh, ![t].silent = TRUE]
            /\ UNCHANGED storage
    /\ UNCHANGED server

\* connectWs opens the live feed with a new token; without one to renew it gives up.  A
\* second connectWs waits with the first.
ConnectWs(t) ==
  /\ tab[t].at \in {"panel", "leaving"} /\ ~tab[t].socket /\ RoomFor(t)
  /\ Shared(t, tab[t]).session # None
  /\ tab' = [tab EXCEPT ![t].refresh = Shared(t, tab[t]), ![t].socket = TRUE]
  /\ UNCHANGED <<storage, server>>

\* Mutant: the answer is used whatever is stored by now.
StillStoredAlways(t) == TRUE

StillStored(t) == RefreshToken(t) = tab[t].refresh.session

\* The promise is settled: the calls that wait for it are sent again with the token, or
\* end if there is none.
Settled(page, token) ==
  [page EXCEPT !.refresh = NoRefresh, !.silent = FALSE, !.socket = FALSE,
               !.calls = [c \in Calls |->
                  IF @[c].phase # "waiting" THEN @[c]
                  ELSE IF token = 0 THEN NotCalled ELSE SentAgain(@[c], token)]]

RefreshGranted(t) ==
  LET r == tab[t].refresh
      page == Settled(tab[t], r.token)
  IN /\ r.session # None /\ r.status = "granted" /\ StillStored(t)
     /\ access' = [access EXCEPT ![t] = r.token]
     /\ tab' = [tab EXCEPT ![t] =
                  [page EXCEPT !.at = IF @ = "login" THEN "toPanel" ELSE @]]
     /\ UNCHANGED <<sess, local, server>>

\* It resolves to null: the token was refused and is cleared, or is not the stored one.
RefreshNull(t) ==
  LET r == tab[t].refresh
      page == Settled(tab[t], 0)
      s == IF StillStored(t) THEN None ELSE sess[t]
      l == IF StillStored(t) THEN None ELSE local
      logouts == (IF tab[t].silent THEN 1 ELSE 0)
                 + (IF tab[t].calls[Me].phase = "waiting" THEN 1 ELSE 0)
  IN /\ r.session # None
     /\ \/ r.status = "refused"
        \/ r.status = "granted" /\ ~StillStored(t)
     /\ IF logouts > 0 THEN HandleLogout(t, page, s, l, logouts)
        ELSE /\ sess' = [sess EXCEPT ![t] = s] /\ local' = l
             /\ access' = [access EXCEPT ![t] = IF StillStored(t) THEN 0 ELSE @]
             /\ tab' = [tab EXCEPT ![t] = page]
     /\ UNCHANGED server

\* Mutant: an error ends the session as a refusal does.
RefreshFailsClearing(t) ==
  /\ tab[t].refresh.session # None
  /\ tab' = [tab EXCEPT ![t] = Settled(tab[t], 0)]
  /\ sess' = [sess EXCEPT ![t] = None] /\ local' = None
  /\ access' = [access EXCEPT ![t] = 0]
  /\ UNCHANGED <<server>>

\* Mutant: those who wait are not told.
RefreshFailsSilently(t) ==
  /\ tab[t].refresh.session # None
  /\ tab' = [tab EXCEPT ![t].refresh = NoRefresh, ![t].silent = FALSE, ![t].socket = FALSE]
  /\ UNCHANGED <<storage, server>>

\* It rejects: a timeout, a network failure or an answer with another error.
RefreshFails(t) ==
  /\ tab[t].refresh.session # None
  /\ tab' = [tab EXCEPT ![t] = Settled(tab[t], 0)]
  /\ UNCHANGED <<storage, server>>

-----------------------------------------------------------------------------
Init ==
  /\ sess = [t \in Tabs |-> None] /\ access = [t \in Tabs |-> 0]
  /\ tab = [t \in Tabs |-> Opened("closed")]
  /\ local \in Sessions \cup {None} /\ used = {local} \ {None} /\ live = used /\ made = <<>> /\ valid = {}

Next ==
  \/ \E t \in Tabs :
       \/ OpenTab(t) \/ OpenPanel(t) \/ OpenLogin(t) \/ Logout(t) \/ Leave(t)
       \/ SilentRefresh(t) \/ ConnectWs(t) \/ ServeRefresh(t) \/ RefreshGranted(t)
       \/ RefreshNull(t) \/ RefreshFails(t)
       \/ \E c \in Calls : \/ Write(t, c) \/ ServeCall(t, c) \/ CallSucceeds(t, c)
                          \/ CallRefused(t, c) \/ CallTimesOut(t, c)
       \/ \E s \in Sessions, remember \in BOOLEAN : Login(t, s, remember)
  \/ \E s \in Sessions : EndSession(s)
  \/ \E token \in Token : Expire(token)

Spec == Init /\ [][Next]_vars

(***************************************************************************)
(* Properties.                                                             *)
(***************************************************************************)

\* A request is carried out at most once, although it is repeated after a 401 and may
\* be carried out after its timeout ("do not replay writes").
ActedOnce == \A t \in Tabs, c \in Calls : tab[t].calls[c].executed <= 1

\* An access token is stored only beside the refresh token it was made for, whatever
\* logins and logouts, also in other tabs, happened while it was on its way.
NoLateToken ==
  [][\A t \in Tabs :
       access'[t] \notin {0, access[t]} => made'[access'[t]] = RefreshToken(t)']_vars

\* Somebody waits for the refresh of the page.
Awaited(page) ==
  page.silent \/ page.socket \/ \E c \in Calls : page.calls[c].phase = "waiting"

\* Who waits waits for a refresh that runs and will tell: 15 seconds at most.
WaitersAreTold ==
  \A t \in Tabs :
    Awaited(tab[t]) => tab[t].refresh.session # None

\* No other tab has been opened.
Alone(t) == \A u \in Tabs : tab[u].at # "closed" <=> u = t

\* In a browser with one tab there is no access token without a refresh token, so
\* "a refresh finishing after logout cannot restore the session".
SignedOutMeansEmpty ==
  \A t \in Tabs : Alone(t) /\ RefreshToken(t) = None => access[t] = 0

\* A session that the server would still renew is given up only if the user logs out or
\* in, or /me was refused with a renewed token as well: "temporary server errors preserve
\* the session".  With several tabs it may also go because one of them had asked to renew
\* another session, which was refused or is no longer the stored one, or because /me of a
\* tab was refused when a logout or the refused refresh of a request beside it had taken
\* its access token; but not because of its own refresh.
GivenUpForCause ==
  [][\A t \in Tabs :
       RefreshToken(t) \in live /\ RefreshToken(t)' # RefreshToken(t) =>
         \E u \in Tabs :
           \/ Logout(u) \/ \E s \in Sessions, remember \in BOOLEAN : Login(u, s, remember)
           \/ CallRefused(u, Me) /\ tab[u].calls[Me].again
           \/ /\ ~Alone(u)
              /\ \/ RefreshNull(u) /\ tab[u].refresh.session # RefreshToken(t)
                 \/ CallRefused(u, Me) /\ tab[u].calls[Me].token # 0 /\ access[u] = 0]_vars

(***************************************************************************)
(* Why they hold.                                                          *)
(***************************************************************************)

\* A call has been carried out when its answer says so; one that waits for a refresh was
\* refused, so it is repeated only if it has not been carried out.
CallsInOrder ==
  \A t \in Tabs, c \in Calls : LET call == tab[t].calls[c] IN
    /\ call.phase = "idle" => call = NotCalled
    /\ call.phase = "waiting" => call.status = "refused"
    /\ call.executed = IF call.status = "done" THEN 1 ELSE 0

\* A tab that is closed was never open.
ClosedTabsAreNew ==
  \A t \in Tabs : tab[t].at = "closed" =>
    tab[t] = Opened("closed") /\ sess[t] = None /\ access[t] = 0

\* Only the panel calls and refreshes silently; but for the automatic login, somebody waits
\* for each refresh.
PagesInOrder ==
  \A t \in Tabs :
    /\ tab[t].at \in {"login", "toPanel"} =>
         ~tab[t].silent /\ ~tab[t].socket /\ \A c \in Calls : tab[t].calls[c].phase = "idle"
    /\ tab[t].at \notin {"login", "toPanel"} /\ tab[t].refresh.session # None => Awaited(tab[t])

\* What the server has answered to a refresh remains true.  A refresh of the remembered
\* token is of a tab that has no token of its own.
RefreshesInOrder ==
  \A t \in Tabs : LET r == tab[t].refresh IN
    /\ r.session \in used \cup {None}
    /\ r.status = "refused" => r.session \notin live
    /\ r.status = "granted" => r.token \in 1 .. Len(made) /\ made[r.token] = r.session
    /\ r.session # None /\ r.session = local => sess[t] = None

\* A token is remembered for all tabs or kept in one.
StoredOnce == \A t \in Tabs : sess[t] # None => sess[t] # local

\* A call that was sent with an access token lost it to a logout or a refused refresh.
\* In a browser with one tab nothing but these has touched the storage, and there is one
\* refresh token at most.
LostWithTheSession ==
  \A t \in Tabs :
    /\ Alone(t) /\ access[t] = 0 /\ (\E c \in Calls : tab[t].calls[c].token # 0) =>
         RefreshToken(t) = None
    /\ Alone(t) => sess[t] = None \/ local = None
    /\ Alone(t) /\ Awaited(tab[t]) =>
         RefreshToken(t) \in {None, tab[t].refresh.session}

\* The inductive invariant: everyone who waits is told, a browser with one tab is empty
\* when it is signed out, and what these, ActedOnce and the action properties rest on.
ClientInv ==
  /\ TypeOK /\ WaitersAreTold /\ SignedOutMeansEmpty
  /\ CallsInOrder /\ ClosedTabsAreNew /\ PagesInOrder
  /\ RefreshesInOrder /\ StoredOnce /\ LostWithTheSession
=============================================================================
