-------------------------- MODULE ApiClient_proofs --------------------------
(***************************************************************************)
(* Proofs about ApiClient, for any number of tabs and sessions.  A step is *)
(* of one tab or of the server; what the invariant says of a tab concerns  *)
(* its page, its storage and the shared one, so the proof has one lemma    *)
(* for the tabs that a step leaves alone, and one per action for the tab   *)
(* that moves.                                                             *)
(***************************************************************************)
EXTENDS ApiClient, SequenceTheorems, TLAPS

\* What a tab does, or the server for it.
Own(t) ==
  \/ OpenTab(t) \/ OpenPanel(t) \/ OpenLogin(t) \/ Logout(t) \/ Leave(t)
  \/ SilentRefresh(t) \/ ConnectWs(t) \/ ServeRefresh(t) \/ RefreshGranted(t)
  \/ RefreshNull(t) \/ RefreshFails(t)
  \/ \E c \in Calls : \/ Write(t, c) \/ ServeCall(t, c) \/ CallSucceeds(t, c)
                     \/ CallRefused(t, c) \/ CallTimesOut(t, c)
  \/ \E s \in Sessions, remember \in BOOLEAN : Login(t, s, remember)

(***************************************************************************)
(* Pages, calls and refreshes have their types.                            *)
(***************************************************************************)

\* The records that pages start with.
LEMMA StartTypes ==
  /\ NotCalled \in Call /\ NoRefresh \in Refresh
  /\ \A at \in {"closed", "login", "toPanel", "panel", "leaving", "toLogin"} : Opened(at) \in Page
BY ClientAssumption DEF NotCalled, NoRefresh, Opened, Call, Refresh, Page, Token

\* A call that is sent, or sent again, or waits, is a call.
LEMMA SentTypes ==
  ASSUME NEW call \in Call, NEW token \in Token
  PROVE  /\ Sent(token) \in Call /\ Sent(token).phase = "sent"
         /\ Sent(token).token = token /\ Sent(token).status = "asked"
         /\ Sent(token).executed = 0
         /\ SentAgain(call, token) \in Call /\ SentAgain(call, token).phase = "sent"
         /\ SentAgain(call, token).token = token /\ SentAgain(call, token).status = "asked"
         /\ SentAgain(call, token).executed = call.executed
         /\ Waiting(call) \in Call /\ Waiting(call).phase = "waiting"
         /\ Waiting(call).token = 0 /\ Waiting(call).status = "refused"
         /\ Waiting(call).executed = call.executed
<1>1. /\ NotCalled \in Call /\ NotCalled.status = "asked" /\ NotCalled.executed = 0
      /\ NotCalled.token = 0
  BY StartTypes DEF NotCalled
<1>2. /\ SentAgain(call, token) \in Call /\ SentAgain(call, token).phase = "sent"
      /\ SentAgain(call, token).token = token /\ SentAgain(call, token).status = "asked"
      /\ SentAgain(call, token).executed = call.executed
  BY DEF SentAgain, Call
<1>3. /\ Sent(token) \in Call /\ Sent(token).phase = "sent"
      /\ Sent(token).token = token /\ Sent(token).status = "asked"
      /\ Sent(token).executed = 0
  BY <1>1 DEF Sent, Call
<1>4. /\ Waiting(call) \in Call /\ Waiting(call).phase = "waiting"
      /\ Waiting(call).token = 0 /\ Waiting(call).status = "refused"
      /\ Waiting(call).executed = call.executed
  BY <1>1 DEF Waiting, Call
<1>5. QED BY <1>2, <1>3, <1>4

\* The stored access token is a token, the stored refresh token one that was issued.
LEMMA StoredTypes ==
  ASSUME TypeOK, NEW t \in Tabs
  PROVE  /\ access[t] \in Token /\ RefreshToken(t) \in used \cup {None}
         /\ sess[t] \in used \cup {None} /\ local \in used \cup {None}
         /\ RefreshToken(t) = IF sess[t] # None THEN sess[t] ELSE local
         /\ tab[t] \in Page /\ tab[t].refresh \in Refresh
         /\ tab[t].calls \in [Calls -> Call] /\ \A c \in Calls : tab[t].calls[c] \in Call
         /\ used \subseteq Sessions /\ live \subseteq used /\ None \notin used
<1>1. access[t] \in 0 .. Len(made) /\ Len(made) \in Nat /\ Len(made) <= MaxTokens
  BY LenProperties DEF TypeOK
<1>2. access[t] \in Token
  BY <1>1, ClientAssumption DEF Token
<1>3. tab[t] \in Page /\ tab[t].calls \in [Calls -> Call] /\ tab[t].refresh \in Refresh
  BY DEF TypeOK, Page
<1>4. \A c \in Calls : tab[t].calls[c] \in Call
  BY <1>3
<1>5. QED BY <1>2, <1>3, <1>4, ClientAssumption DEF TypeOK, RefreshToken, First

\* What a page waits for is a refresh.
LEMMA SharedTypes ==
  ASSUME TypeOK, NEW t \in Tabs, NEW page \in Page
  PROVE  /\ Shared(t, page) \in Refresh
         /\ page.refresh.session # None => Shared(t, page) = page.refresh
         /\ page.refresh.session = None =>
              Shared(t, page) = [session |-> RefreshToken(t), status |-> "asked", token |-> 0]
<1>1. page.refresh \in Refresh
  BY DEF Page
<1>2. RefreshToken(t) \in Sessions \cup {None}
  BY StoredTypes
<1>3. 0 \in Token
  BY ClientAssumption DEF Token
<1>4. QED BY <1>1, <1>2, <1>3 DEF Shared, NoRefresh, Refresh

\* The page after its refresh has settled.
LEMMA SettledTypes ==
  ASSUME NEW page \in Page, NEW token \in Token
  PROVE  /\ Settled(page, token) \in Page
         /\ Settled(page, token).at = page.at
         /\ Settled(page, token).refresh = NoRefresh
         /\ Settled(page, token).silent = FALSE
         /\ Settled(page, token).socket = FALSE
         /\ \A c \in Calls : Settled(page, token).calls[c] =
              IF page.calls[c].phase # "waiting" THEN page.calls[c]
              ELSE IF token = 0 THEN NotCalled ELSE SentAgain(page.calls[c], token)
<1>1. page.calls \in [Calls -> Call]
  BY DEF Page
<1> DEFINE After(c) == IF page.calls[c].phase # "waiting" THEN page.calls[c]
                       ELSE IF token = 0 THEN NotCalled ELSE SentAgain(page.calls[c], token)
           calls == [c \in Calls |-> After(c)]
<1>2. ASSUME NEW c \in Calls PROVE After(c) \in Call
  BY <1>1, StartTypes, SentTypes
<1> HIDE DEF After
<1>3. calls \in [Calls -> Call] /\ \A c \in Calls : calls[c] = After(c)
  BY <1>2
<1>4. Settled(page, token) = [page EXCEPT !.refresh = NoRefresh, !.silent = FALSE,
                                          !.socket = FALSE, !.calls = calls]
  BY DEF Settled, After
<1> HIDE DEF calls
<1>5. /\ Settled(page, token).at = page.at /\ Settled(page, token).refresh = NoRefresh
      /\ Settled(page, token).silent = FALSE /\ Settled(page, token).socket = FALSE
      /\ Settled(page, token).calls = calls /\ Settled(page, token) \in Page
  BY <1>3, <1>4, StartTypes DEF Page
<1>6. QED BY <1>3, <1>5 DEF After

(***************************************************************************)
(* What each action does to the page of its tab.                           *)
(***************************************************************************)

\* The other tabs stay as they are.
Others(t) ==
  \A u \in Tabs \ {t} : tab'[u] = tab[u] /\ sess'[u] = sess[u] /\ access'[u] = access[u]

\* The server issues an access token.
LEMMA Issues ==
  ASSUME TypeOK, NEW s \in Sessions, Len(made) < MaxTokens, Issue(s), used' = used \cup {s}
  PROVE  /\ Len(made) \in Nat /\ Len(made') = Len(made) + 1 /\ Len(made') <= MaxTokens
         /\ made' \in Seq(used') /\ valid' \subseteq 1 .. Len(made')
         /\ made'[Len(made) + 1] = s /\ \A i \in 1 .. Len(made) : made'[i] = made[i]
         /\ Len(made) + 1 \in Token \ {0}
<1>1. made \in Seq(used') /\ s \in used' /\ valid \subseteq 1 .. Len(made)
  <2>1. made \in Seq(used) /\ used \subseteq used'
    BY DEF TypeOK
  <2>2. made \in Seq(used')
    BY <2>1, SeqMonotonic
  <2>3. QED BY <2>2 DEF TypeOK
<1>2. Len(made) \in Nat
  BY <1>1, LenProperties
<1>3. /\ made' \in Seq(used') /\ Len(made') = Len(made) + 1
      /\ made'[Len(made) + 1] = s /\ \A i \in 1 .. Len(made) : made'[i] = made[i]
  BY <1>1, AppendProperties DEF Issue
<1>4. Len(made') <= MaxTokens /\ Len(made) + 1 \in Token \ {0}
  BY <1>2, <1>3, ClientAssumption DEF Token
<1>5. valid' \subseteq 1 .. Len(made')
  <2>1. PICK k \in Nat : k = Len(made) /\ Len(made') = k + 1
    BY <1>2, <1>3
  <2>2. valid \subseteq 1 .. k /\ valid' = valid \cup {k + 1}
    BY <1>1, <2>1 DEF Issue
  <2>3. 1 .. k + 1 = (1 .. k) \cup {k + 1}
    BY <2>1
  <2>4. QED BY <2>1, <2>2, <2>3
<1>6. QED BY <1>2, <1>3, <1>4, <1>5

\* The page that is given to a tab is its page afterwards.
LEMMA TabBecomes ==
  ASSUME TypeOK, NEW t \in Tabs, NEW page \in Page, tab' = [tab EXCEPT ![t] = page]
  PROVE  /\ tab' \in [Tabs -> Page] /\ tab'[t] = page
         /\ \A u \in Tabs \ {t} : tab'[u] = tab[u]
BY DEF TypeOK

\* handleLogout empties the storage of the tab and of the browser.
LEMMA LogoutEmpties ==
  ASSUME TypeOK, NEW t \in Tabs, NEW page \in Page, NEW s, NEW l, NEW n,
         HandleLogout(t, page, s, l, n), UNCHANGED server
  PROVE  /\ TypeOK' /\ Others(t)
         /\ sess'[t] = None /\ local' = None /\ access'[t] = 0
         /\ tab'[t].at \in {"leaving", "toLogin"} /\ tab'[t].refresh = page.refresh
         /\ tab'[t].silent = page.silent /\ tab'[t].socket = page.socket
         /\ tab'[t].calls = page.calls
<1> PICK at \in {"leaving", "toLogin"} : tab' = [tab EXCEPT ![t] = [page EXCEPT !.at = at]]
  BY DEF HandleLogout
<1> DEFINE q == [page EXCEPT !.at = at]
<1>1. /\ q \in Page /\ q.at = at /\ q.refresh = page.refresh
      /\ q.silent = page.silent /\ q.socket = page.socket /\ q.calls = page.calls
  BY DEF Page
<1> HIDE DEF q
<1>2. tab' \in [Tabs -> Page] /\ tab'[t] = q /\ \A u \in Tabs \ {t} : tab'[u] = tab[u]
  BY <1>1, TabBecomes DEF q
<1>3. /\ sess'[t] = None /\ local' = None /\ access'[t] = 0
      /\ \A u \in Tabs \ {t} : sess'[u] = sess[u] /\ access'[u] = access[u]
      /\ sess' \in [Tabs -> used \cup {None}]
  BY DEF HandleLogout, TypeOK
<1>4. access' \in [Tabs -> 0 .. Len(made)]
  <2>1. Len(made) \in Nat
    BY LenProperties DEF TypeOK
  <2>2. QED BY <2>1 DEF HandleLogout, TypeOK
<1>5. TypeOK'
  BY <1>2, <1>3, <1>4 DEF TypeOK, server
<1>6. QED BY <1>1, <1>2, <1>3, <1>5 DEF Others

(***************************************************************************)
(* The invariant, tab by tab.                                              *)
(***************************************************************************)

\* A call that waits was refused, and what has been carried out is done.
InOrder(call) ==
  /\ call.phase = "idle" => call = NotCalled
  /\ call.phase = "waiting" => call.status = "refused"
  /\ call.executed = IF call.status = "done" THEN 1 ELSE 0

\* A page has a call that was sent with an access token.
Carries(page) == \E c \in Calls : page.calls[c].token # 0

AllIdle(page) == \A c \in Calls : page.calls[c].phase = "idle"

\* Of the page: its calls, its refresh, and who waits.
PageInv(t) ==
  /\ Awaited(tab[t]) => tab[t].refresh.session # None
  /\ \A c \in Calls : InOrder(tab[t].calls[c])
  /\ tab[t].at \in {"login", "toPanel"} => ~tab[t].silent /\ ~tab[t].socket /\ AllIdle(tab[t])
  /\ tab[t].at \notin {"login", "toPanel"} /\ tab[t].refresh.session # None => Awaited(tab[t])
  /\ tab[t].at = "closed" => tab[t] = Opened("closed") /\ sess[t] = None /\ access[t] = 0

\* What the calls and waiters of a page say depends on nothing else of it.
LEMMA SameCalls ==
  ASSUME NEW p, NEW q, q.calls = p.calls
  PROVE  /\ Carries(q) <=> Carries(p)
         /\ AllIdle(q) <=> AllIdle(p)
         /\ q.silent = p.silent /\ q.socket = p.socket => (Awaited(q) <=> Awaited(p))
BY DEF Carries, AllIdle, Awaited

\* A page whose calls are idle has no token under way.
LEMMA IdleCarries ==
  ASSUME NEW p, AllIdle(p), \A c \in Calls : InOrder(p.calls[c])
  PROVE  ~Carries(p) /\ (~p.silent /\ ~p.socket => ~Awaited(p)) /\ \A c \in Calls : p.calls[c] = NotCalled
BY DEF AllIdle, InOrder, Carries, Awaited, NotCalled

\* Of the page and the server.
RefreshInv(t) ==
  /\ tab[t].refresh.session \in used \cup {None}
  /\ tab[t].refresh.status = "refused" => tab[t].refresh.session \notin live
  /\ tab[t].refresh.status = "granted" =>
       tab[t].refresh.token \in 1 .. Len(made) /\ made[tab[t].refresh.token] = tab[t].refresh.session

\* Of the page and the storage.
StorageInv(t) ==
  /\ tab[t].refresh.session # None /\ tab[t].refresh.session = local => sess[t] = None
  /\ sess[t] # None => sess[t] # local

\* Of a browser with one tab.
AloneInv(t) ==
  Alone(t) =>
    /\ RefreshToken(t) = None => access[t] = 0
    /\ access[t] = 0 /\ Carries(tab[t]) => RefreshToken(t) = None
    /\ sess[t] = None \/ local = None
    /\ Awaited(tab[t]) => RefreshToken(t) \in {None, tab[t].refresh.session}

TabInv(t) == PageInv(t) /\ RefreshInv(t) /\ StorageInv(t) /\ AloneInv(t)

\* Together this is ClientInv.
LEMMA TabByTab == ClientInv <=> TypeOK /\ \A t \in Tabs : TabInv(t)
<1>1. ClientInv => \A t \in Tabs : PageInv(t)
  BY DEF ClientInv, PageInv, InOrder, AllIdle, WaitersAreTold, CallsInOrder, ClosedTabsAreNew, PagesInOrder
<1>2. ClientInv => \A t \in Tabs : RefreshInv(t)
  BY DEF ClientInv, RefreshInv, RefreshesInOrder
<1>3. ClientInv => \A t \in Tabs : StorageInv(t)
  BY DEF ClientInv, StorageInv, RefreshesInOrder, StoredOnce
<1>4. ClientInv => \A t \in Tabs : AloneInv(t)
  BY DEF ClientInv, AloneInv, Carries, SignedOutMeansEmpty, LostWithTheSession
<1>5. (\A t \in Tabs : PageInv(t)) =>
        WaitersAreTold /\ CallsInOrder /\ ClosedTabsAreNew /\ PagesInOrder
  BY DEF PageInv, InOrder, AllIdle, WaitersAreTold, CallsInOrder, ClosedTabsAreNew, PagesInOrder
<1>6. (\A t \in Tabs : RefreshInv(t) /\ StorageInv(t)) => RefreshesInOrder /\ StoredOnce
  BY DEF RefreshInv, StorageInv, RefreshesInOrder, StoredOnce
<1>7. (\A t \in Tabs : AloneInv(t)) => SignedOutMeansEmpty /\ LostWithTheSession
  BY DEF AloneInv, Carries, SignedOutMeansEmpty, LostWithTheSession
<1>8. QED BY <1>1, <1>2, <1>3, <1>4, <1>5, <1>6, <1>7 DEF ClientInv, TabInv

\* ... and so it is in the next state.
LEMMA TabByTabNext == (TypeOK /\ \A t \in Tabs : TabInv(t))' => ClientInv'
BY TabByTab, PTL

\* A tab that does nothing keeps its part of the invariant, whatever the server and the
\* other tabs do: they only write a new session, or none, to the storage of all tabs.
LEMMA StandsStill ==
  ASSUME TypeOK, NEW t \in Tabs, TabInv(t),
         tab'[t] = tab[t], sess'[t] = sess[t], access'[t] = access[t],
         used \subseteq used', used \cap live' \subseteq live, live' \subseteq Sessions,
         local' \in {local, None} \cup (Sessions \ used),
         Len(made) <= Len(made'), \A i \in 1 .. Len(made) : made'[i] = made[i],
         Len(made') \in Nat, Alone(t)' => Alone(t) /\ local' = local
  PROVE  TabInv(t)'
<1>1. PageInv(t)'
  BY DEF TabInv, PageInv
<1>3. RefreshInv(t)'
  <2>1. Len(made) \in Nat
    BY LenProperties DEF TypeOK
  <2>2. 1 .. Len(made) \subseteq 1 .. Len(made')
    BY <2>1
  <2>3. /\ tab[t].refresh.session \in used \cup {None}
        /\ tab[t].refresh.status = "refused" => tab[t].refresh.session \notin live
        /\ tab[t].refresh.status = "granted" =>
             tab[t].refresh.token \in 1 .. Len(made) /\ made[tab[t].refresh.token] = tab[t].refresh.session
    BY DEF TabInv, RefreshInv
  <2>4. None \notin live'
    BY ClientAssumption
  <2>5. QED BY <2>2, <2>3, <2>4 DEF RefreshInv
<1>4. StorageInv(t)'
  <2>1. tab[t].refresh.session \in used \cup {None} /\ sess[t] \in used \cup {None}
    BY StoredTypes DEF TabInv, RefreshInv
  <2>2. QED BY <2>1 DEF TabInv, StorageInv
<1>5. AloneInv(t)'
  BY DEF TabInv, AloneInv, RefreshToken
<1>6. QED BY <1>1, <1>3, <1>4, <1>5 DEF TabInv

(***************************************************************************)
(* The tab that moves, action by action.                                   *)
(***************************************************************************)

\* The invariant holds of the tab afterwards, and no other tab has moved.
Kept(t) == TypeOK' /\ Others(t) /\ tab'[t].at # "closed" /\ TabInv(t)'

\* Only the page changes.
LEMMA PageMoves ==
  ASSUME TypeOK, NEW t \in Tabs, NEW page \in Page, tab' = [tab EXCEPT ![t] = page],
         UNCHANGED <<storage, server>>
  PROVE  /\ TypeOK' /\ Others(t) /\ tab'[t] = page
         /\ sess' = sess /\ local' = local /\ access' = access
         /\ used' = used /\ live' = live /\ made' = made
         /\ RefreshToken(t)' = RefreshToken(t)
<1>1. tab' \in [Tabs -> Page] /\ tab'[t] = page /\ \A u \in Tabs \ {t} : tab'[u] = tab[u]
  BY TabBecomes
<1>2. QED BY <1>1 DEF TypeOK, storage, server, Others, RefreshToken

\* Whether a tab that is open is the only one does not change when it moves.
LEMMA StillAlone ==
  ASSUME NEW t \in Tabs, Others(t), tab[t].at # "closed", tab'[t].at # "closed"
  PROVE  Alone(t)' <=> Alone(t)
BY DEF Alone, Others

\* What the fields of the starting records are.
LEMMA StartFields ==
  /\ NotCalled.phase = "idle" /\ NotCalled.token = 0
  /\ NotCalled.status = "asked" /\ NotCalled.executed = 0
  /\ NoRefresh.session = None /\ NoRefresh.status = "asked"
  /\ \A at : /\ Opened(at).at = at /\ Opened(at).refresh = NoRefresh
             /\ Opened(at).silent = FALSE /\ Opened(at).socket = FALSE
             /\ \A c \in Calls : Opened(at).calls[c] = NotCalled
BY DEF NotCalled, NoRefresh, Opened

\* A page that nobody has used yet.
LEMMA FreshPage ==
  ASSUME NEW p, ~p.silent, ~p.socket, \A c \in Calls : p.calls[c] = NotCalled
  PROVE  ~Awaited(p) /\ ~Carries(p) /\ AllIdle(p) /\ \A c \in Calls : InOrder(p.calls[c])
BY StartFields DEF Awaited, Carries, AllIdle, InOrder

LEMMA OpenTabKeeps ==
  ASSUME TypeOK, NEW t \in Tabs, TabInv(t), OpenTab(t)
  PROVE  Kept(t)
<1> DEFINE page == [tab[t] EXCEPT !.at = "toPanel"]
<1>1. tab[t].at = "closed" /\ sess[t] = None /\ access[t] = 0 /\ tab[t] = Opened("closed")
  BY DEF OpenTab, TabInv, PageInv
<1>2. /\ page \in Page /\ page.at = "toPanel" /\ page.refresh = NoRefresh
      /\ page.silent = FALSE /\ page.socket = FALSE
      /\ \A c \in Calls : page.calls[c] = NotCalled
  BY <1>1, StoredTypes, StartFields DEF Page
<1> HIDE DEF page
<1>3. tab' = [tab EXCEPT ![t] = page] /\ UNCHANGED <<storage, server>>
  BY DEF OpenTab, page
<1>4. /\ TypeOK' /\ Others(t) /\ tab'[t] = page
      /\ sess' = sess /\ local' = local /\ access' = access /\ used' = used
  BY <1>2, <1>3, PageMoves
<1>5. ~Awaited(page) /\ ~Carries(page) /\ AllIdle(page) /\ \A c \in Calls : InOrder(page.calls[c])
  BY <1>2, FreshPage
<1>6. PageInv(t)' /\ RefreshInv(t)' /\ StorageInv(t)' /\ AloneInv(t)'
  BY <1>1, <1>2, <1>4, <1>5, StartFields DEF PageInv, RefreshInv, StorageInv, AloneInv
<1>7. QED BY <1>2, <1>4, <1>6 DEF Kept, TabInv

LEMMA OpenPanelKeeps ==
  ASSUME TypeOK, NEW t \in Tabs, TabInv(t), OpenPanel(t)
  PROVE  Kept(t)
<1> DEFINE shared == Shared(t, Opened("panel"))
           call == Sent(access[t])
           page == IF RefreshToken(t) = None THEN Opened("toLogin")
                   ELSE [Opened("panel") EXCEPT !.refresh = shared, !.silent = TRUE,
                                                !.calls[Me] = call]
<1>1. /\ tab[t].at = "toPanel" /\ tab' = [tab EXCEPT ![t] = page] /\ UNCHANGED <<storage, server>>
  BY DEF OpenPanel
<1>2. /\ shared \in Refresh /\ shared = [session |-> RefreshToken(t), status |-> "asked", token |-> 0]
      /\ Opened("panel") \in Page /\ Opened("panel").at = "panel" /\ Opened("toLogin") \in Page
      /\ \A c \in Calls : Opened("panel").calls[c] = NotCalled
      /\ Opened("panel").calls \in [Calls -> Call]
  BY StartTypes, StartFields, SharedTypes DEF Page
<1>3. /\ call \in Call /\ call.phase = "sent" /\ call.token = access[t]
      /\ call.status = "asked" /\ call.executed = 0
  BY StoredTypes, StartTypes, SentTypes
<1> DEFINE calls == [Opened("panel").calls EXCEPT ![Me] = call]
<1>4. calls \in [Calls -> Call] /\ \A c \in Calls : calls[c] = IF c = Me THEN call ELSE NotCalled
  BY <1>2, <1>3, ClientAssumption
<1>5. [Opened("panel") EXCEPT !.refresh = shared, !.silent = TRUE, !.calls[Me] = call]
        = [Opened("panel") EXCEPT !.refresh = shared, !.silent = TRUE, !.calls = calls]
  BY <1>2 DEF Page
<1> HIDE DEF shared, call, calls
<1>6. IF RefreshToken(t) = None
      THEN page = Opened("toLogin")
      ELSE /\ page.at = "panel" /\ page.refresh = shared
           /\ page.silent = TRUE /\ page.calls = calls
  BY <1>2, <1>4, <1>5 DEF Page
<1>7. page \in Page
  BY <1>2, <1>4, <1>5 DEF Page
<1> HIDE DEF page
<1>8. /\ TypeOK' /\ Others(t) /\ tab'[t] = page
      /\ sess' = sess /\ local' = local /\ access' = access
      /\ used' = used /\ live' = live /\ made' = made /\ RefreshToken(t)' = RefreshToken(t)
  BY <1>1, <1>7, PageMoves
<1>9. /\ RefreshToken(t) \in used \cup {None}
      /\ RefreshToken(t) = IF sess[t] # None THEN sess[t] ELSE local
      /\ None \notin used
  BY StoredTypes
<1>10. tab'[t].at # "closed" /\ (Alone(t)' <=> Alone(t))
  BY <1>1, <1>6, <1>8, StartFields, StillAlone
<1>11. CASE RefreshToken(t) = None
  <2>1. /\ page.at = "toLogin" /\ page.refresh = NoRefresh /\ ~page.silent /\ ~page.socket
        /\ \A c \in Calls : page.calls[c] = NotCalled
    BY <1>6, <1>11, StartFields
  <2>2. ~Awaited(page) /\ ~Carries(page) /\ \A c \in Calls : InOrder(page.calls[c])
    BY <2>1, FreshPage
  <2>3. PageInv(t)' /\ RefreshInv(t)' /\ StorageInv(t)'
    BY <1>8, <1>11, <2>1, <2>2, StartFields DEF PageInv, RefreshInv, StorageInv, TabInv
  <2>4. AloneInv(t)'
    BY <1>8, <1>10, <1>11, <2>1, <2>2 DEF AloneInv, TabInv
  <2>5. QED BY <1>8, <1>10, <2>3, <2>4 DEF Kept, TabInv
<1>12. CASE RefreshToken(t) # None
  <2>1. page.at = "panel" /\ page.refresh = shared /\ page.silent = TRUE /\ page.calls = calls
    BY <1>6, <1>12
  <2>2. \A c \in Calls : InOrder(page.calls[c])
    BY <1>3, <1>4, <2>1, StartFields DEF InOrder
  <2>3. Awaited(page) /\ (access[t] = 0 => ~Carries(page))
    BY <1>3, <1>4, <2>1, StartFields DEF Awaited, Carries
  <2>4. PageInv(t)' /\ RefreshInv(t)'
    BY <1>2, <1>8, <1>9, <1>12, <2>1, <2>2, <2>3 DEF PageInv, RefreshInv
  <2>5. StorageInv(t)'
    BY <1>2, <1>8, <1>9, <1>12, <2>1 DEF StorageInv, TabInv
  <2>6. AloneInv(t)'
    BY <1>2, <1>8, <1>10, <1>12, <2>1, <2>3 DEF AloneInv, TabInv
  <2>7. QED BY <1>8, <1>10, <2>4, <2>5, <2>6 DEF Kept, TabInv
<1>13. QED BY <1>11, <1>12

LEMMA OpenLoginKeeps ==
  ASSUME TypeOK, NEW t \in Tabs, TabInv(t), OpenLogin(t)
  PROVE  Kept(t)
<1> DEFINE shared == Shared(t, Opened("login"))
           page == [Opened("login") EXCEPT !.refresh = shared]
<1>1. /\ tab[t].at = "toLogin" /\ tab' = [tab EXCEPT ![t] = page] /\ UNCHANGED <<storage, server>>
  BY DEF OpenLogin
<1>2. /\ shared \in Refresh /\ shared = [session |-> RefreshToken(t), status |-> "asked", token |-> 0]
      /\ Opened("login") \in Page /\ Opened("login").at = "login"
      /\ Opened("login").silent = FALSE /\ Opened("login").socket = FALSE
      /\ \A c \in Calls : Opened("login").calls[c] = NotCalled
  BY StartTypes, StartFields, SharedTypes
<1> HIDE DEF shared
<1>3. /\ page \in Page /\ page.at = "login" /\ page.refresh = shared
      /\ page.silent = FALSE /\ page.socket = FALSE /\ \A c \in Calls : page.calls[c] = NotCalled
  BY <1>2 DEF Page
<1> HIDE DEF page
<1>4. /\ TypeOK' /\ Others(t) /\ tab'[t] = page
      /\ sess' = sess /\ local' = local /\ access' = access
      /\ used' = used /\ live' = live /\ made' = made /\ RefreshToken(t)' = RefreshToken(t)
  BY <1>1, <1>3, PageMoves
<1>5. /\ RefreshToken(t) \in used \cup {None}
      /\ RefreshToken(t) = IF sess[t] # None THEN sess[t] ELSE local
  BY StoredTypes
<1>6. tab'[t].at # "closed" /\ (Alone(t)' <=> Alone(t))
  BY <1>1, <1>3, <1>4, StillAlone
<1>7. ~Awaited(page) /\ ~Carries(page) /\ AllIdle(page) /\ \A c \in Calls : InOrder(page.calls[c])
  BY <1>3, FreshPage
<1>8. PageInv(t)' /\ RefreshInv(t)'
  BY <1>2, <1>3, <1>4, <1>5, <1>7 DEF PageInv, RefreshInv
<1>9. StorageInv(t)' /\ AloneInv(t)'
  BY <1>2, <1>3, <1>4, <1>5, <1>6, <1>7 DEF StorageInv, AloneInv, TabInv
<1>10. QED BY <1>4, <1>6, <1>8, <1>9 DEF Kept, TabInv

\* handleLogout, for a page whose refresh and calls are as they were or have settled.
LEMMA HandleLogoutKeeps ==
  ASSUME TypeOK, NEW t \in Tabs, TabInv(t), tab[t].at # "closed",
         NEW page \in Page, NEW s, NEW l, NEW n,
         HandleLogout(t, page, s, l, n), UNCHANGED server,
         page.refresh \in {tab[t].refresh, NoRefresh},
         Awaited(page) <=> page.refresh.session # None,
         \A c \in Calls : InOrder(page.calls[c])
  PROVE  Kept(t)
<1>1. /\ TypeOK' /\ Others(t) /\ sess'[t] = None /\ local' = None /\ access'[t] = 0
      /\ tab'[t].at \in {"leaving", "toLogin"} /\ tab'[t].refresh = page.refresh
      /\ tab'[t].silent = page.silent /\ tab'[t].socket = page.socket
      /\ tab'[t].calls = page.calls
  BY LogoutEmpties
<1>2. Awaited(tab'[t]) <=> Awaited(page)
  BY <1>1, SameCalls
<1>3. PageInv(t)'
  BY <1>1, <1>2 DEF PageInv
<1>4. RefreshInv(t)'
  BY <1>1, StartFields DEF RefreshInv, TabInv, server
<1>5. RefreshToken(t)' = None
  BY <1>1 DEF RefreshToken, First
<1>6. StorageInv(t)' /\ AloneInv(t)'
  BY <1>1, <1>5 DEF StorageInv, AloneInv
<1>7. QED BY <1>1, <1>3, <1>4, <1>6 DEF Kept, TabInv

LEMMA LogoutKeeps ==
  ASSUME TypeOK, NEW t \in Tabs, TabInv(t), Logout(t)
  PROVE  Kept(t)
<1>1. tab[t] \in Page
  BY StoredTypes
<1>2. QED BY <1>1, HandleLogoutKeeps DEF Logout, TabInv, PageInv

LEMMA LeaveKeeps ==
  ASSUME TypeOK, NEW t \in Tabs, TabInv(t), Leave(t)
  PROVE  Kept(t)
<1> DEFINE page == [tab[t] EXCEPT !.at = "toLogin"]
<1>1. /\ tab[t].at = "leaving" /\ tab' = [tab EXCEPT ![t] = page] /\ UNCHANGED <<storage, server>>
  BY DEF Leave
<1>2. /\ page \in Page /\ page.at = "toLogin" /\ page.refresh = tab[t].refresh
      /\ page.silent = tab[t].silent /\ page.socket = tab[t].socket
      /\ page.calls = tab[t].calls
  BY StoredTypes DEF Page
<1> HIDE DEF page
<1>3. /\ TypeOK' /\ Others(t) /\ tab'[t] = page
      /\ sess' = sess /\ local' = local /\ access' = access
      /\ used' = used /\ live' = live /\ made' = made /\ RefreshToken(t)' = RefreshToken(t)
  BY <1>1, <1>2, PageMoves
<1>4. tab'[t].at # "closed" /\ (Alone(t)' <=> Alone(t))
  BY <1>1, <1>2, <1>3, StillAlone
<1>5. /\ Awaited(page) <=> Awaited(tab[t])
      /\ Carries(page) <=> Carries(tab[t])
  BY <1>2, SameCalls
<1>6. PageInv(t)' /\ RefreshInv(t)' /\ StorageInv(t)' /\ AloneInv(t)'
  BY <1>1, <1>2, <1>3, <1>4, <1>5 DEF PageInv, RefreshInv, StorageInv, AloneInv, TabInv
<1>7. QED BY <1>3, <1>4, <1>6 DEF Kept, TabInv

\* A step that changes only a call of a page that is open, to one that does not wait.
LEMMA CallMoves ==
  ASSUME TypeOK, NEW t \in Tabs, TabInv(t), NEW c \in Calls, NEW call \in Call,
         tab' = [tab EXCEPT ![t].calls[c] = call], UNCHANGED <<storage, server>>,
         tab[t].at \notin {"closed", "login", "toPanel"}, tab[t].calls[c].phase # "waiting",
         call.phase # "waiting", InOrder(call), call.token \in {0, access[t], tab[t].calls[c].token}
  PROVE  Kept(t)
<1> DEFINE calls == [tab[t].calls EXCEPT ![c] = call]
           page == [tab[t] EXCEPT !.calls = calls]
<1>1. tab[t] \in Page /\ tab[t].calls \in [Calls -> Call]
  BY StoredTypes
<1>2. calls \in [Calls -> Call] /\ calls[c] = call
      /\ \A d \in Calls \ {c} : calls[d] = tab[t].calls[d]
  BY <1>1
<1>3. tab' = [tab EXCEPT ![t] = page]
  BY <1>1 DEF TypeOK, Page
<1> HIDE DEF calls
<1>4. /\ page \in Page /\ page.at = tab[t].at /\ page.refresh = tab[t].refresh
      /\ page.silent = tab[t].silent /\ page.socket = tab[t].socket /\ page.calls = calls
  BY <1>1, <1>2 DEF Page
<1> HIDE DEF page
<1>5. /\ TypeOK' /\ Others(t) /\ tab'[t] = page
      /\ sess' = sess /\ local' = local /\ access' = access
      /\ used' = used /\ live' = live /\ made' = made /\ RefreshToken(t)' = RefreshToken(t)
  BY <1>3, <1>4, PageMoves
<1>6. tab'[t].at # "closed" /\ (Alone(t)' <=> Alone(t))
  BY <1>4, <1>5, StillAlone
<1>7. /\ \A d \in Calls : InOrder(page.calls[d])
      /\ Awaited(page) <=> Awaited(tab[t])
      /\ access[t] = 0 /\ Carries(page) => Carries(tab[t])
  <2>1. \A d \in Calls : InOrder(page.calls[d])
    BY <1>2, <1>4 DEF TabInv, PageInv
  <2>2. \A d \in Calls : page.calls[d].phase = "waiting" <=> tab[t].calls[d].phase = "waiting"
    BY <1>2, <1>4
  <2>3. access[t] = 0 => \A d \in Calls : page.calls[d].token # 0 => tab[t].calls[d].token # 0
    BY <1>2, <1>4
  <2>4. QED BY <1>4, <2>1, <2>2, <2>3 DEF Awaited, Carries
<1>8. PageInv(t)' /\ RefreshInv(t)'
  BY <1>4, <1>5, <1>7 DEF PageInv, RefreshInv, TabInv
<1>9. StorageInv(t)' /\ AloneInv(t)'
  BY <1>4, <1>5, <1>6, <1>7 DEF StorageInv, AloneInv, TabInv
<1>10. QED BY <1>5, <1>6, <1>8, <1>9 DEF Kept, TabInv

\* A page that has a call is open, and not the login page.
LEMMA CallersAreOpen ==
  ASSUME NEW t \in Tabs, TabInv(t), NEW c \in Calls, tab[t].calls[c].phase # "idle"
  PROVE  tab[t].at \notin {"closed", "login", "toPanel"}
BY StartFields DEF TabInv, PageInv, AllIdle

LEMMA WriteKeeps ==
  ASSUME TypeOK, NEW t \in Tabs, TabInv(t), NEW c \in Calls, Write(t, c)
  PROVE  Kept(t)
<1> DEFINE call == Sent(access[t])
<1>1. /\ call \in Call /\ call.phase = "sent" /\ call.token = access[t]
      /\ call.status = "asked" /\ call.executed = 0
  BY StoredTypes, StartTypes, SentTypes
<1> HIDE DEF call
<1>2. /\ tab' = [tab EXCEPT ![t].calls[c] = call] /\ UNCHANGED <<storage, server>>
      /\ tab[t].at \in {"panel", "leaving"} /\ tab[t].calls[c].phase = "idle"
  BY DEF Write, call
<1>3. InOrder(call)
  BY <1>1 DEF InOrder
<1>4. QED BY <1>1, <1>2, <1>3, CallMoves

\* A call that has not been made is in order.
LEMMA NotCalledInOrder == InOrder(NotCalled)
BY StartFields DEF InOrder

LEMMA CallEndsKeeps ==
  ASSUME TypeOK, NEW t \in Tabs, TabInv(t), NEW c \in Calls, CallSucceeds(t, c) \/ CallTimesOut(t, c)
  PROVE  Kept(t)
<1>1. /\ tab' = [tab EXCEPT ![t].calls[c] = NotCalled] /\ UNCHANGED <<storage, server>>
      /\ tab[t].calls[c].phase = "sent"
  BY DEF CallSucceeds, CallTimesOut, Answered
<1>2. tab[t].at \notin {"closed", "login", "toPanel"}
  BY <1>1, CallersAreOpen
<1>3. QED BY <1>1, <1>2, StartTypes, StartFields, NotCalledInOrder, CallMoves

LEMMA ServeCallKeeps ==
  ASSUME TypeOK, NEW t \in Tabs, TabInv(t), NEW c \in Calls, ServeCall(t, c)
  PROVE  Kept(t)
<1> DEFINE old == tab[t].calls[c]
           call == Served(old)
<1>1. /\ old.phase = "sent" /\ old.status = "asked" /\ UNCHANGED <<storage, server>>
      /\ tab' = [tab EXCEPT ![t].calls[c] = call]
  BY DEF ServeCall
<1>2. old \in Call /\ old.executed = 0
  BY <1>1, StoredTypes DEF TabInv, PageInv, InOrder
<1>3. /\ call \in Call /\ call.phase = "sent" /\ call.token = old.token
      /\ call.executed = IF call.status = "done" THEN 1 ELSE 0
  <2>1. CASE old.token \in valid
    <3>1. call = [old EXCEPT !.status = "done", !.executed = old.executed + 1]
      BY <1>2, <2>1 DEF Served, Call
    <3>2. old.executed + 1 = 1 /\ 1 \in 0 .. 2
      BY <1>2
    <3>3. QED BY <1>1, <1>2, <3>1, <3>2 DEF Call
  <2>2. CASE old.token \notin valid
    BY <1>1, <1>2, <2>2 DEF Served, Call
  <2>3. QED BY <2>1, <2>2
<1> HIDE DEF call
<1>4. tab[t].at \notin {"closed", "login", "toPanel"}
  BY <1>1, CallersAreOpen
<1>5. InOrder(call)
  BY <1>3 DEF InOrder
<1>6. QED BY <1>1, <1>3, <1>4, <1>5, CallMoves

\* A page asks for a refresh, or joins the one that runs.
LEMMA RefreshMoves ==
  ASSUME TypeOK, NEW t \in Tabs, TabInv(t), NEW page \in Page,
         tab' = [tab EXCEPT ![t] = page], UNCHANGED <<storage, server>>,
         tab[t].at \notin {"closed", "login", "toPanel"}, page.at = tab[t].at,
         page.refresh = Shared(t, tab[t]), page.refresh.session # None,
         Awaited(page), \A c \in Calls : InOrder(page.calls[c]),
         Carries(page) => Carries(tab[t])
  PROVE  Kept(t)
<1>1. /\ TypeOK' /\ Others(t) /\ tab'[t] = page
      /\ sess' = sess /\ local' = local /\ access' = access
      /\ used' = used /\ live' = live /\ made' = made /\ RefreshToken(t)' = RefreshToken(t)
  BY PageMoves
<1>2. /\ tab[t] \in Page /\ RefreshToken(t) \in used \cup {None}
      /\ RefreshToken(t) = IF sess[t] # None THEN sess[t] ELSE local
  BY StoredTypes
<1>3. \/ tab[t].refresh.session # None /\ page.refresh = tab[t].refresh
      \/ /\ tab[t].refresh.session = None
         /\ page.refresh.session = RefreshToken(t) /\ page.refresh.status = "asked"
  BY <1>2, SharedTypes
<1>4. tab'[t].at # "closed" /\ (Alone(t)' <=> Alone(t))
  BY <1>1, StillAlone
<1>5. PageInv(t)'
  BY <1>1 DEF PageInv
<1>6. RefreshInv(t)'
  BY <1>1, <1>2, <1>3 DEF RefreshInv, TabInv
<1>7. StorageInv(t)'
  BY <1>1, <1>2, <1>3 DEF StorageInv, TabInv
<1>8. tab[t].refresh.session # None => Awaited(tab[t])
  BY DEF PageInv, TabInv
<1>9. AloneInv(t)'
  BY <1>1, <1>3, <1>4, <1>8 DEF AloneInv, TabInv
<1>10. QED BY <1>1, <1>4, <1>5, <1>6, <1>7, <1>9 DEF Kept, TabInv

LEMMA SilentRefreshKeeps ==
  ASSUME TypeOK, NEW t \in Tabs, TabInv(t), SilentRefresh(t)
  PROVE  Kept(t)
<1> DEFINE refresh == Shared(t, tab[t])
           page == [tab[t] EXCEPT !.refresh = refresh, !.silent = TRUE]
<1>1. tab[t] \in Page /\ refresh \in Refresh
  BY StoredTypes, SharedTypes
<1>2. tab[t].at \in {"panel", "leaving"} /\ UNCHANGED server
  BY DEF SilentRefresh
<1>3. CASE refresh.session = None
  <2>1. HandleLogout(t, tab[t], sess[t], local, 1)
    BY <1>3 DEF SilentRefresh
  <2>2. QED BY <1>1, <1>2, <2>1, HandleLogoutKeeps DEF TabInv, PageInv
<1>4. CASE refresh.session # None
  <2>1. /\ page \in Page /\ page.at = tab[t].at /\ page.refresh = refresh
        /\ page.silent = TRUE /\ page.calls = tab[t].calls
    BY <1>1 DEF Page
  <2>2. tab' = [tab EXCEPT ![t] = page] /\ UNCHANGED storage
    BY <1>1, <1>4 DEF SilentRefresh, TypeOK, Page
  <2> HIDE DEF page
  <2>3. Awaited(page) /\ (Carries(page) => Carries(tab[t]))
    BY <2>1, SameCalls DEF Awaited
  <2>4. \A c \in Calls : InOrder(page.calls[c])
    BY <2>1 DEF TabInv, PageInv
  <2>5. QED BY <1>2, <1>4, <2>1, <2>2, <2>3, <2>4, RefreshMoves
<1>5. QED BY <1>3, <1>4

LEMMA ConnectWsKeeps ==
  ASSUME TypeOK, NEW t \in Tabs, TabInv(t), ConnectWs(t)
  PROVE  Kept(t)
<1> DEFINE refresh == Shared(t, tab[t])
           page == [tab[t] EXCEPT !.refresh = refresh, !.socket = TRUE]
<1>1. tab[t] \in Page /\ refresh \in Refresh
  BY StoredTypes, SharedTypes
<1>2. /\ tab[t].at \in {"panel", "leaving"} /\ refresh.session # None
      /\ UNCHANGED <<storage, server>>
  BY DEF ConnectWs
<1>3. /\ page \in Page /\ page.at = tab[t].at /\ page.refresh = refresh
      /\ page.socket = TRUE /\ page.calls = tab[t].calls
  BY <1>1 DEF Page
<1>4. tab' = [tab EXCEPT ![t] = page]
  BY <1>1 DEF ConnectWs, TypeOK, Page
<1> HIDE DEF page
<1>5. Awaited(page) /\ (Carries(page) => Carries(tab[t]))
  BY <1>3, SameCalls DEF Awaited
<1>6. \A c \in Calls : InOrder(page.calls[c])
  BY <1>3 DEF TabInv, PageInv
<1>7. QED BY <1>2, <1>3, <1>4, <1>5, <1>6, RefreshMoves

LEMMA CallRefusedKeeps ==
  ASSUME TypeOK, NEW t \in Tabs, TabInv(t), NEW c \in Calls, CallRefused(t, c)
  PROVE  Kept(t)
<1> DEFINE old == tab[t].calls[c]
<1>1. /\ old.phase = "sent" /\ old.status = "refused" /\ UNCHANGED server
      /\ tab[t] \in Page /\ old \in Call /\ access[t] \in Token
      /\ tab[t].calls \in [Calls -> Call]
  BY StoredTypes DEF CallRefused, Answered
<1>2. tab[t].at \notin {"closed", "login", "toPanel"} /\ old.executed = 0
  BY <1>1, CallersAreOpen DEF TabInv, PageInv, InOrder
<1>3. CASE Unauthorized(t, c)
  <2>1. CASE c = Me
    <3> DEFINE calls == [tab[t].calls EXCEPT ![c] = NotCalled]
               page == [tab[t] EXCEPT !.calls = calls]
    <3>1. /\ calls \in [Calls -> Call]
          /\ \A d \in Calls : calls[d] = IF d = c THEN NotCalled ELSE tab[t].calls[d]
      BY <1>1, StartTypes
    <3>2. page = [tab[t] EXCEPT !.calls[c] = NotCalled]
      BY <1>1 DEF Page
    <3>3. HandleLogout(t, page, sess[t], local, 1)
      BY <1>3, <2>1, <3>2 DEF Unauthorized
    <3> HIDE DEF calls
    <3>4. /\ page \in Page /\ page.at = tab[t].at /\ page.refresh = tab[t].refresh
          /\ page.silent = tab[t].silent /\ page.socket = tab[t].socket /\ page.calls = calls
      BY <1>1, <3>1 DEF Page
    <3> HIDE DEF page
    <3>5. \A d \in Calls : InOrder(page.calls[d])
      BY <3>1, <3>4, NotCalledInOrder DEF TabInv, PageInv
    <3>6. \A d \in Calls : page.calls[d].phase = "waiting" <=> tab[t].calls[d].phase = "waiting"
      BY <1>1, <3>1, <3>4, StartFields
    <3>7. Awaited(page) <=> page.refresh.session # None
      BY <1>2, <3>4, <3>6 DEF TabInv, PageInv, Awaited
    <3>8. QED BY <1>1, <1>2, <3>3, <3>4, <3>5, <3>7, HandleLogoutKeeps
  <2>2. CASE c # Me
    <3>1. tab' = [tab EXCEPT ![t].calls[c] = NotCalled] /\ UNCHANGED storage
      BY <1>1, <1>3, <2>2 DEF Unauthorized, TypeOK
    <3>2. QED BY <1>1, <1>2, <3>1, StartTypes, StartFields, NotCalledInOrder, CallMoves
  <2>3. QED BY <2>1, <2>2
<1>4. CASE tab' = [tab EXCEPT ![t].calls[c] = SentAgain(old, access[t])] /\ UNCHANGED storage
  <2> DEFINE call == SentAgain(old, access[t])
  <2>1. /\ call \in Call /\ call.phase = "sent" /\ call.token = access[t]
        /\ call.status = "asked" /\ call.executed = 0
    BY <1>1, <1>2, SentTypes
  <2> HIDE DEF call
  <2>2. tab' = [tab EXCEPT ![t].calls[c] = call]
    BY <1>4 DEF call
  <2>3. InOrder(call)
    BY <2>1 DEF InOrder
  <2>4. QED BY <1>1, <1>2, <1>4, <2>1, <2>2, <2>3, CallMoves
<1>5. CASE /\ tab' = [tab EXCEPT ![t].calls[c] = Waiting(old), ![t].refresh = Shared(t, tab[t])]
           /\ Shared(t, tab[t]).session # None /\ UNCHANGED storage
  <2> DEFINE refresh == Shared(t, tab[t])
             call == Waiting(old)
             calls == [tab[t].calls EXCEPT ![c] = call]
             page == [tab[t] EXCEPT !.calls = calls, !.refresh = refresh]
  <2>1. /\ call \in Call /\ call.phase = "waiting" /\ call.token = 0
        /\ call.status = "refused" /\ call.executed = 0
    BY <1>1, <1>2, StartTypes, SentTypes
  <2>2. refresh \in Refresh
    BY <1>1, SharedTypes
  <2>3. tab' = [tab EXCEPT ![t] = page]
    BY <1>1, <1>5 DEF TypeOK, Page
  <2> HIDE DEF call, refresh
  <2>4. /\ calls \in [Calls -> Call]
        /\ \A d \in Calls : calls[d] = IF d = c THEN call ELSE tab[t].calls[d]
    BY <1>1, <2>1
  <2> HIDE DEF calls
  <2>5. /\ page \in Page /\ page.at = tab[t].at /\ page.refresh = refresh /\ page.calls = calls
    BY <1>1, <2>2, <2>4 DEF Page
  <2> HIDE DEF page
  <2>6. Awaited(page)
    BY <2>1, <2>4, <2>5 DEF Awaited
  <2>7. \A d \in Calls : InOrder(page.calls[d])
    BY <2>1, <2>4, <2>5 DEF InOrder, TabInv, PageInv
  <2>8. Carries(page) => Carries(tab[t])
    BY <2>1, <2>4, <2>5 DEF Carries
  <2>9. QED BY <1>1, <1>2, <1>5, <2>3, <2>5, <2>6, <2>7, <2>8, RefreshMoves DEF refresh
<1>6. QED BY <1>3, <1>4, <1>5 DEF CallRefused

LEMMA ServeRefreshKeeps ==
  ASSUME TypeOK, NEW t \in Tabs, TabInv(t), ServeRefresh(t)
  PROVE  Kept(t)
<1> DEFINE r == tab[t].refresh
           granted == [r EXCEPT !.status = "granted", !.token = Len(made) + 1]
           refused == [r EXCEPT !.status = "refused"]
           refresh == IF r.session \in live THEN granted ELSE refused
           page == [tab[t] EXCEPT !.refresh = refresh]
<1>1. /\ r.session # None /\ r.status = "asked" /\ r \in Refresh /\ tab[t] \in Page
      /\ UNCHANGED <<storage, used, live>>
  BY StoredTypes DEF ServeRefresh
<1>2. tab[t].at # "closed"
  BY <1>1, StartFields DEF TabInv, PageInv
<1>3. /\ Len(made) \in Nat
      /\ IF r.session \in live
         THEN /\ Len(made') = Len(made) + 1 /\ Len(made') <= MaxTokens
              /\ made' \in Seq(used) /\ valid' \subseteq 1 .. Len(made')
              /\ made'[Len(made) + 1] = r.session /\ \A i \in 1 .. Len(made) : made'[i] = made[i]
              /\ Len(made) + 1 \in Token \ {0}
         ELSE made' = made /\ valid' = valid
  <2>1. Len(made) \in Nat
    BY LenProperties DEF TypeOK
  <2>2. CASE r.session \in live
    <3>1. /\ r.session \in Sessions /\ used' = used \cup {r.session}
          /\ Len(made) < MaxTokens /\ Issue(r.session)
      BY <1>1, <2>2 DEF ServeRefresh, TypeOK
    <3>2. used' = used
      BY <1>1
    <3>3. QED BY <2>1, <2>2, <3>1, <3>2, Issues
  <2>3. CASE r.session \notin live
    BY <2>1, <2>3 DEF ServeRefresh
  <2>4. QED BY <2>2, <2>3
<1>4. /\ refresh \in Refresh /\ refresh.session = r.session
      /\ IF r.session \in live THEN refresh.status = "granted" /\ refresh.token = Len(made) + 1
                               ELSE refresh.status = "refused"
  BY <1>1, <1>3 DEF Refresh
<1>5. tab' = [tab EXCEPT ![t] = page]
  <2>1. CASE r.session \in live
    BY <1>1, <2>1 DEF ServeRefresh, TypeOK, Page, Refresh
  <2>2. CASE r.session \notin live
    BY <1>1, <2>2 DEF ServeRefresh, TypeOK, Page, Refresh
  <2>3. QED BY <2>1, <2>2
<1> HIDE DEF refresh
<1>6. /\ page \in Page /\ page.at = tab[t].at /\ page.refresh = refresh
      /\ page.silent = tab[t].silent /\ page.socket = tab[t].socket
      /\ page.calls = tab[t].calls
  BY <1>1, <1>4 DEF Page
<1> HIDE DEF page
<1>7. /\ Awaited(page) <=> Awaited(tab[t])
      /\ Carries(page) <=> Carries(tab[t])
      /\ AllIdle(page) <=> AllIdle(tab[t])
  BY <1>6, SameCalls
<1>8. tab' \in [Tabs -> Page] /\ tab'[t] = page /\ \A u \in Tabs \ {t} : tab'[u] = tab[u]
  BY <1>5, <1>6, TabBecomes
<1>9. TypeOK' /\ Others(t)
  <2>1. access' \in [Tabs -> 0 .. Len(made')] /\ made' \in Seq(used) /\ Len(made') <= MaxTokens
        /\ valid' \subseteq 1 .. Len(made')
    <3>1. access' = access /\ \A u \in Tabs : access[u] \in 0 .. Len(made)
      BY <1>1 DEF TypeOK, storage
    <3>2. access \in [Tabs -> 0 .. Len(made)] /\ 0 .. Len(made) \subseteq 0 .. Len(made')
      BY <1>3 DEF TypeOK
    <3>3. /\ made' \in Seq(used) /\ Len(made') <= MaxTokens /\ valid' \subseteq 1 .. Len(made')
      BY <1>3 DEF TypeOK
    <3>4. QED BY <3>1, <3>2, <3>3
  <2>2. QED BY <1>1, <1>8, <2>1 DEF TypeOK, Others, storage
<1>10. tab'[t].at # "closed" /\ (Alone(t)' <=> Alone(t)) /\ RefreshToken(t)' = RefreshToken(t)
  BY <1>1, <1>2, <1>6, <1>8, <1>9, StillAlone DEF storage, RefreshToken
<1>11. PageInv(t)'
  BY <1>2, <1>4, <1>6, <1>7, <1>8 DEF PageInv, TabInv
<1>12. RefreshInv(t)'
  <2>1. r.session \in used
    BY <1>1 DEF TabInv, RefreshInv
  <2>2. CASE r.session \in live
    <3>1. Len(made) + 1 \in 1 .. Len(made')
      BY <1>3, <2>2
    <3>2. QED BY <1>1, <1>3, <1>4, <1>6, <1>8, <2>1, <2>2, <3>1 DEF RefreshInv
  <2>3. CASE r.session \notin live
    BY <1>1, <1>4, <1>6, <1>8, <2>1, <2>3 DEF RefreshInv
  <2>4. QED BY <2>2, <2>3
<1>13. StorageInv(t)' /\ AloneInv(t)'
  BY <1>1, <1>4, <1>6, <1>7, <1>8, <1>10 DEF StorageInv, AloneInv, TabInv, storage
<1>14. QED BY <1>9, <1>10, <1>11, <1>12, <1>13 DEF Kept, TabInv

\* A refresh runs only in a page that is open, and nobody waits any more when it has settled.
LEMMA Settles ==
  ASSUME TypeOK, NEW t \in Tabs, TabInv(t), tab[t].refresh.session # None,
         NEW token \in Token, NEW page, page = Settled(tab[t], token)
  PROVE  /\ tab[t].at # "closed"
         /\ page \in Page /\ page.at = tab[t].at /\ page.refresh = NoRefresh
         /\ page.silent = FALSE /\ page.socket = FALSE /\ ~Awaited(page)
         /\ \A c \in Calls : InOrder(page.calls[c])
         /\ page.at \in {"login", "toPanel"} => AllIdle(page)
         /\ token = 0 /\ Carries(page) => Carries(tab[t])
         /\ tab[t].calls[Me].phase = "waiting" => page.calls[Me].token = token
<1>1. /\ tab[t] \in Page /\ tab[t].calls \in [Calls -> Call]
      /\ \A c \in Calls : tab[t].calls[c] \in Call
  BY StoredTypes
<1>2. /\ page \in Page /\ page.at = tab[t].at /\ page.refresh = NoRefresh
      /\ page.silent = FALSE /\ page.socket = FALSE
      /\ \A c \in Calls : page.calls[c] =
           IF tab[t].calls[c].phase # "waiting" THEN tab[t].calls[c]
           ELSE IF token = 0 THEN NotCalled ELSE SentAgain(tab[t].calls[c], token)
  BY <1>1, SettledTypes
<1>3. tab[t].at # "closed"
  BY StartFields DEF TabInv, PageInv
<1>4. ASSUME NEW c \in Calls
      PROVE  /\ InOrder(page.calls[c]) /\ page.calls[c].phase # "waiting"
             /\ tab[t].calls[c].phase = "idle" => page.calls[c].phase = "idle"
             /\ tab[t].calls[c].phase = "waiting" => page.calls[c].token = token
             /\ token = 0 /\ page.calls[c].token # 0 => tab[t].calls[c].token # 0
  <2> DEFINE old == tab[t].calls[c]
  <2>1. old \in Call /\ InOrder(old)
    BY <1>1 DEF TabInv, PageInv
  <2>2. CASE old.phase # "waiting"
    BY <1>2, <2>1, <2>2
  <2>3. CASE old.phase = "waiting" /\ token = 0
    BY <1>2, <2>3, NotCalledInOrder, StartFields
  <2>4. CASE old.phase = "waiting" /\ token # 0
    <3>1. page.calls[c] = SentAgain(old, token)
      BY <1>2, <2>4
    <3>2. old.executed = 0
      BY <2>1, <2>4 DEF InOrder
    <3>3. /\ SentAgain(old, token).phase = "sent" /\ SentAgain(old, token).token = token
          /\ SentAgain(old, token).status = "asked"
          /\ SentAgain(old, token).executed = old.executed
      BY <2>1, SentTypes
    <3>4. /\ page.calls[c].phase = "sent" /\ page.calls[c].token = token
          /\ page.calls[c].status = "asked" /\ page.calls[c].executed = 0
      BY <3>1, <3>2, <3>3, Zenon
    <3>5. QED BY <2>4, <3>4 DEF InOrder
  <2>5. QED BY <2>2, <2>3, <2>4
<1>5. ~Awaited(page) /\ (token = 0 /\ Carries(page) => Carries(tab[t]))
  BY <1>2, <1>4 DEF Awaited, Carries
<1>6. page.at \in {"login", "toPanel"} => AllIdle(page)
  BY <1>2, <1>4 DEF AllIdle, TabInv, PageInv
<1>7. QED BY <1>2, <1>3, <1>4, <1>5, <1>6, ClientAssumption

LEMMA RefreshFailsKeeps ==
  ASSUME TypeOK, NEW t \in Tabs, TabInv(t), RefreshFails(t)
  PROVE  Kept(t)
<1> DEFINE page == Settled(tab[t], 0)
<1>1. /\ tab[t].refresh.session # None /\ tab' = [tab EXCEPT ![t] = page]
      /\ UNCHANGED <<storage, server>>
  BY DEF RefreshFails
<1>2. 0 \in Token
  BY ClientAssumption DEF Token
<1>3. /\ tab[t].at # "closed"
      /\ page \in Page /\ page.at = tab[t].at /\ page.refresh = NoRefresh
      /\ page.silent = FALSE /\ page.socket = FALSE /\ ~Awaited(page)
      /\ \A c \in Calls : InOrder(page.calls[c])
      /\ page.at \in {"login", "toPanel"} => AllIdle(page)
      /\ Carries(page) => Carries(tab[t])
  BY <1>1, <1>2, Settles
<1> HIDE DEF page
<1>4. /\ TypeOK' /\ Others(t) /\ tab'[t] = page
      /\ sess' = sess /\ local' = local /\ access' = access
      /\ used' = used /\ live' = live /\ made' = made /\ RefreshToken(t)' = RefreshToken(t)
  BY <1>1, <1>3, PageMoves
<1>5. tab'[t].at # "closed" /\ (Alone(t)' <=> Alone(t))
  BY <1>3, <1>4, StillAlone
<1>6. PageInv(t)' /\ RefreshInv(t)'
  BY <1>3, <1>4, StartFields DEF PageInv, RefreshInv
<1>7. StorageInv(t)' /\ AloneInv(t)'
  BY <1>3, <1>4, <1>5, StartFields DEF StorageInv, AloneInv, TabInv
<1>8. QED BY <1>4, <1>5, <1>6, <1>7 DEF Kept, TabInv

LEMMA RefreshGrantedKeeps ==
  ASSUME TypeOK, NEW t \in Tabs, TabInv(t), RefreshGranted(t)
  PROVE  Kept(t)
<1> DEFINE r == tab[t].refresh
           settled == Settled(tab[t], r.token)
           page == [settled EXCEPT !.at = IF @ = "login" THEN "toPanel" ELSE @]
<1>1. /\ r.session # None /\ r.status = "granted" /\ RefreshToken(t) = r.session
      /\ access' = [access EXCEPT ![t] = r.token] /\ tab' = [tab EXCEPT ![t] = page]
      /\ UNCHANGED <<sess, local, server>>
  BY DEF RefreshGranted, StillStored
<1>2. r \in Refresh /\ r.token \in Token /\ r.token \in 1 .. Len(made)
  BY <1>1, StoredTypes DEF TabInv, RefreshInv, Refresh
<1>3. Len(made) \in Nat /\ r.token # 0
  BY <1>2, LenProperties DEF TypeOK
<1>4. /\ tab[t].at # "closed"
      /\ settled \in Page /\ settled.at = tab[t].at /\ settled.refresh = NoRefresh
      /\ settled.silent = FALSE /\ settled.socket = FALSE /\ ~Awaited(settled)
      /\ \A c \in Calls : InOrder(settled.calls[c])
      /\ settled.at \in {"login", "toPanel"} => AllIdle(settled)
  BY <1>1, <1>2, Settles
<1> HIDE DEF settled
<1>5. /\ page \in Page /\ page.at # "closed" /\ page.refresh = NoRefresh
      /\ page.silent = FALSE /\ page.socket = FALSE /\ page.calls = settled.calls
      /\ page.at \in {"login", "toPanel"} => settled.at \in {"login", "toPanel"}
  BY <1>4 DEF Page
<1> HIDE DEF page
<1>6. ~Awaited(page) /\ (AllIdle(page) <=> AllIdle(settled))
  BY <1>4, <1>5, SameCalls
<1>7. tab' \in [Tabs -> Page] /\ tab'[t] = page /\ \A u \in Tabs \ {t} : tab'[u] = tab[u]
  BY <1>1, <1>5, TabBecomes
<1>8. access' \in [Tabs -> 0 .. Len(made)] /\ access'[t] = r.token
      /\ \A u \in Tabs \ {t} : access'[u] = access[u]
  <2>1. r.token \in 0 .. Len(made)
    BY <1>2, <1>3
  <2>2. QED BY <1>1, <2>1 DEF TypeOK
<1>9. TypeOK' /\ Others(t)
  BY <1>1, <1>7, <1>8 DEF TypeOK, Others, server
<1>10. tab'[t].at # "closed" /\ RefreshToken(t)' = RefreshToken(t)
  BY <1>1, <1>5, <1>7 DEF RefreshToken
<1>11. PageInv(t)' /\ RefreshInv(t)'
  BY <1>4, <1>5, <1>6, <1>7, StartFields DEF PageInv, RefreshInv
<1>12. StorageInv(t)'
  BY <1>1, <1>3, <1>5, <1>7, <1>8, StartFields DEF StorageInv, TabInv
<1>13. AloneInv(t)'
  <2>1. Alone(t)' <=> Alone(t)
    BY <1>4, <1>9, <1>10, StillAlone
  <2>2. QED BY <1>1, <1>3, <1>4, <1>6, <1>7, <1>8, <1>10, <2>1 DEF AloneInv, TabInv
<1>14. QED BY <1>9, <1>10, <1>11, <1>12, <1>13 DEF Kept, TabInv

LEMMA RefreshNullKeeps ==
  ASSUME TypeOK, NEW t \in Tabs, TabInv(t), RefreshNull(t)
  PROVE  Kept(t)
<1> DEFINE page == Settled(tab[t], 0)
           s == IF StillStored(t) THEN None ELSE sess[t]
           l == IF StillStored(t) THEN None ELSE local
           logouts == (IF tab[t].silent THEN 1 ELSE 0)
                      + (IF tab[t].calls[Me].phase = "waiting" THEN 1 ELSE 0)
<1>1. /\ tab[t].refresh.session # None /\ UNCHANGED server
      /\ IF logouts > 0 THEN HandleLogout(t, page, s, l, logouts)
         ELSE /\ sess' = [sess EXCEPT ![t] = s] /\ local' = l
              /\ access' = [access EXCEPT ![t] = IF StillStored(t) THEN 0 ELSE @]
              /\ tab' = [tab EXCEPT ![t] = page]
  BY DEF RefreshNull
<1>2. 0 \in Token
  BY ClientAssumption DEF Token
<1>3. /\ tab[t].at # "closed"
      /\ page \in Page /\ page.at = tab[t].at /\ page.refresh = NoRefresh
      /\ page.silent = FALSE /\ page.socket = FALSE /\ ~Awaited(page)
      /\ \A c \in Calls : InOrder(page.calls[c])
      /\ page.at \in {"login", "toPanel"} => AllIdle(page)
      /\ Carries(page) => Carries(tab[t])
  BY <1>1, <1>2, Settles
<1> HIDE DEF page
<1>4. CASE logouts > 0
  <2>1. HandleLogout(t, page, s, l, logouts)
    BY <1>1, <1>4
  <2> HIDE DEF s, l, logouts
  <2>2. page.refresh.session = None
    BY <1>3, StartFields
  <2>3. QED BY <1>1, <1>3, <2>1, <2>2, HandleLogoutKeeps
<1>5. CASE ~(logouts > 0)
  <2>1. /\ sess' = [sess EXCEPT ![t] = s] /\ local' = l
        /\ access' = [access EXCEPT ![t] = IF StillStored(t) THEN 0 ELSE @]
        /\ tab' = [tab EXCEPT ![t] = page]
    BY <1>1, <1>5
  <2> HIDE DEF logouts
  <2>2. tab' \in [Tabs -> Page] /\ tab'[t] = page /\ \A u \in Tabs \ {t} : tab'[u] = tab[u]
    BY <1>3, <2>1, TabBecomes
  <2>3. /\ sess'[t] = s /\ access'[t] = (IF StillStored(t) THEN 0 ELSE access[t])
        /\ \A u \in Tabs \ {t} : sess'[u] = sess[u] /\ access'[u] = access[u]
        /\ sess' \in [Tabs -> used \cup {None}] /\ local' \in used \cup {None}
    BY <2>1 DEF TypeOK
  <2>4. access' \in [Tabs -> 0 .. Len(made)]
    <3>1. Len(made) \in Nat
      BY LenProperties DEF TypeOK
    <3>2. QED BY <2>1, <3>1 DEF TypeOK
  <2>5. TypeOK' /\ Others(t)
    BY <1>1, <2>2, <2>3, <2>4 DEF TypeOK, Others, server
  <2>6. tab'[t].at # "closed" /\ (Alone(t)' <=> Alone(t))
    BY <1>3, <2>2, <2>5, StillAlone
  <2>7. PageInv(t)' /\ RefreshInv(t)'
    BY <1>3, <2>2, StartFields DEF PageInv, RefreshInv
  <2>8. CASE StillStored(t)
    <3>1. sess'[t] = None /\ local' = None /\ access'[t] = 0
      BY <2>1, <2>3, <2>8
    <3>2. RefreshToken(t)' = None
      BY <3>1 DEF RefreshToken, First
    <3>3. StorageInv(t)' /\ AloneInv(t)'
      BY <1>3, <2>2, <3>1, <3>2, StartFields DEF StorageInv, AloneInv
    <3>4. QED BY <2>5, <2>6, <2>7, <3>3 DEF Kept, TabInv
  <2>9. CASE ~StillStored(t)
    <3>1. sess'[t] = sess[t] /\ local' = local /\ access'[t] = access[t]
      BY <2>1, <2>3, <2>9
    <3>2. RefreshToken(t)' = RefreshToken(t)
      BY <3>1 DEF RefreshToken
    <3>3. StorageInv(t)' /\ AloneInv(t)'
      BY <1>3, <2>2, <2>6, <3>1, <3>2, StartFields DEF StorageInv, AloneInv, TabInv
    <3>4. QED BY <2>5, <2>6, <2>7, <3>3 DEF Kept, TabInv
  <2>10. QED BY <2>8, <2>9
<1>6. QED BY <1>4, <1>5

LEMMA LoginKeeps ==
  ASSUME TypeOK, NEW t \in Tabs, TabInv(t), NEW s \in Sessions, NEW remember \in BOOLEAN,
         Login(t, s, remember)
  PROVE  Kept(t)
<1> DEFINE page == [tab[t] EXCEPT !.at = "toPanel"]
           token == Len(made) + 1
<1>1. /\ tab[t].at = "login" /\ s \notin used /\ used' = used \cup {s} /\ live' = live \cup {s}
      /\ Issue(s) /\ Len(made) < MaxTokens /\ SaveTokens(t, s, token, remember)
      /\ tab' = [tab EXCEPT ![t] = page]
  BY DEF Login
<1>2. /\ page \in Page /\ page.at = "toPanel" /\ page.refresh = tab[t].refresh
      /\ page.silent = tab[t].silent /\ page.socket = tab[t].socket /\ page.calls = tab[t].calls
  BY StoredTypes DEF Page
<1> HIDE DEF page
<1>3. tab' \in [Tabs -> Page] /\ tab'[t] = page /\ \A u \in Tabs \ {t} : tab'[u] = tab[u]
  BY <1>1, <1>2, TabBecomes
<1>4. /\ Len(made) \in Nat /\ Len(made') = Len(made) + 1 /\ Len(made') <= MaxTokens
      /\ made' \in Seq(used') /\ valid' \subseteq 1 .. Len(made')
      /\ made'[Len(made) + 1] = s /\ \A i \in 1 .. Len(made) : made'[i] = made[i]
  BY <1>1, Issues
<1>5. access' \in [Tabs -> 0 .. Len(made')] /\ access'[t] = token /\ token # 0
      /\ \A u \in Tabs \ {t} : access'[u] = access[u]
  <2>1. access \in [Tabs -> 0 .. Len(made')]
    <3>1. access \in [Tabs -> 0 .. Len(made)]
      BY DEF TypeOK
    <3>2. 0 .. Len(made) \subseteq 0 .. Len(made')
      BY <1>4
    <3>3. QED BY <3>1, <3>2
  <2>2. token \in 0 .. Len(made') /\ token # 0
    BY <1>4
  <2> HIDE DEF token
  <2>3. access' = [access EXCEPT ![t] = token]
    BY <1>1 DEF SaveTokens
  <2>4. QED BY <2>1, <2>2, <2>3
<1> HIDE DEF token
<1>6. /\ sess' \in [Tabs -> used' \cup {None}] /\ local' \in used' \cup {None}
      /\ \A u \in Tabs \ {t} : sess'[u] = sess[u]
      /\ \/ sess'[t] = None /\ local' = s
         \/ sess'[t] = s /\ local' = None
  BY <1>1 DEF SaveTokens, TypeOK
<1>7. s # None /\ s \in used' /\ RefreshToken(t)' = s
  BY <1>1, <1>6, ClientAssumption DEF RefreshToken, First
<1>8. TypeOK' /\ Others(t)
  BY <1>1, <1>3, <1>4, <1>5, <1>6 DEF TypeOK, Others
<1>9. /\ tab'[t].at # "closed" /\ ~page.silent /\ ~page.socket
      /\ AllIdle(page) /\ ~Awaited(page) /\ \A c \in Calls : InOrder(page.calls[c])
  <2>1. /\ ~tab[t].silent /\ ~tab[t].socket /\ AllIdle(tab[t])
        /\ \A c \in Calls : InOrder(tab[t].calls[c])
    BY <1>1 DEF TabInv, PageInv
  <2>2. AllIdle(page)
    BY <1>2, <2>1, SameCalls
  <2>3. QED BY <1>2, <1>3, <2>1, <2>2, IdleCarries
<1>10. PageInv(t)'
  BY <1>2, <1>3, <1>9, StartFields DEF PageInv
<1>11. tab[t].refresh.session \in used \cup {None}
  BY DEF TabInv, RefreshInv
<1>12. RefreshInv(t)'
  <2>1. 1 .. Len(made) \subseteq 1 .. Len(made')
    BY <1>4
  <2>2. tab[t].refresh.status = "refused" => tab[t].refresh.session \notin live'
    BY <1>1, <1>7, <1>11 DEF TabInv, RefreshInv
  <2>3. QED BY <1>1, <1>2, <1>3, <1>4, <1>11, <2>1, <2>2 DEF TabInv, RefreshInv
<1>13. StorageInv(t)' /\ AloneInv(t)'
  BY <1>1, <1>2, <1>3, <1>5, <1>6, <1>7, <1>9, <1>11, StartFields DEF StorageInv, AloneInv
<1>14. QED BY <1>8, <1>9, <1>10, <1>12, <1>13 DEF Kept, TabInv

\* Every action keeps the invariant of its tab.
LEMMA OwnKeeps ==
  ASSUME TypeOK, NEW t \in Tabs, TabInv(t), Own(t)
  PROVE  Kept(t)
BY OpenTabKeeps, OpenPanelKeeps, OpenLoginKeeps, LogoutKeeps, LeaveKeeps, WriteKeeps,
   SilentRefreshKeeps, ConnectWsKeeps, ServeRefreshKeeps, RefreshGrantedKeeps,
   RefreshNullKeeps, RefreshFailsKeeps, ServeCallKeeps, CallEndsKeeps, CallRefusedKeeps, LoginKeeps DEF Own

(***************************************************************************)
(* The other tabs, and the server.                                         *)
(***************************************************************************)

\* What a tab's step may change for the others: sessions and tokens are added, never taken
\* back, and the storage of all tabs gets a new session or none.
LEMMA SharedState ==
  ASSUME TypeOK, NEW t \in Tabs, Own(t)
  PROVE  /\ used \subseteq used' /\ used \cap live' \subseteq live /\ live' \subseteq Sessions
         /\ local' \in {local, None} \cup (Sessions \ used)
         /\ Len(made') \in Nat /\ Len(made) <= Len(made')
         /\ \A i \in 1 .. Len(made) : made'[i] = made[i]
<1>1. Len(made) \in Nat
  BY LenProperties DEF TypeOK
<1>2. CASE UNCHANGED server
  <2>1. local' \in {local, None}
    BY <1>2 DEF Own, HandleLogout, Logout, SilentRefresh, ConnectWs, CallRefused, Unauthorized, RefreshNull,
      OpenTab, OpenPanel, OpenLogin, Leave, Write, ServeRefresh, RefreshGranted, RefreshFails,
      ServeCall, CallSucceeds, CallTimesOut, Login, storage, server, TypeOK
  <2>2. QED BY <1>1, <1>2, <2>1 DEF server, TypeOK
<1>3. CASE ServeRefresh(t)
  <2>1. local' = local /\ used' = used /\ live' = live
    BY <1>3 DEF ServeRefresh, storage
  <2>2. CASE tab[t].refresh.session \in live
    <3>1. /\ tab[t].refresh.session \in Sessions /\ used' = used \cup {tab[t].refresh.session}
          /\ Len(made) < MaxTokens /\ Issue(tab[t].refresh.session)
      BY <1>3, <2>1, <2>2 DEF ServeRefresh, TypeOK
    <3>2. Len(made') = Len(made) + 1 /\ \A i \in 1 .. Len(made) : made'[i] = made[i]
      BY <3>1, Issues
    <3>3. QED BY <1>1, <2>1, <3>2 DEF TypeOK
  <2>3. CASE tab[t].refresh.session \notin live
    <3>1. made' = made
      BY <1>3, <2>3 DEF ServeRefresh
    <3>2. QED BY <1>1, <2>1, <3>1 DEF TypeOK
  <2>4. QED BY <2>2, <2>3
<1>4. ASSUME NEW s \in Sessions, NEW remember \in BOOLEAN, Login(t, s, remember)
      PROVE  /\ used \subseteq used' /\ used \cap live' \subseteq live /\ live' \subseteq Sessions
             /\ local' \in {local, None} \cup (Sessions \ used)
             /\ Len(made') \in Nat /\ Len(made) <= Len(made')
             /\ \A i \in 1 .. Len(made) : made'[i] = made[i]
  <2>1. /\ s \notin used /\ used' = used \cup {s} /\ live' = live \cup {s}
        /\ Issue(s) /\ Len(made) < MaxTokens /\ local' \in {s, None}
    BY <1>4 DEF Login, SaveTokens
  <2>2. Len(made') = Len(made) + 1 /\ \A i \in 1 .. Len(made) : made'[i] = made[i]
    BY <2>1, Issues
  <2>3. QED BY <1>1, <2>1, <2>2 DEF TypeOK
<1>5. QED
  BY <1>2, <1>3, <1>4 DEF Own, Logout, SilentRefresh, ConnectWs, CallRefused, RefreshNull, OpenTab, OpenPanel,
    OpenLogin, Leave, Write, RefreshGranted, RefreshFails, ServeCall, CallSucceeds, CallTimesOut

\* A step of the server alone, or none: no page moves.
LEMMA ServerSteps ==
  ASSUME ClientInv,
         \/ \E s \in Sessions : EndSession(s)
         \/ \E token \in Token : Expire(token)
         \/ UNCHANGED vars
  PROVE  ClientInv'
<1>1. TypeOK /\ \A t \in Tabs : TabInv(t)
  BY TabByTab
<1>2. /\ UNCHANGED <<sess, local, access, tab, used, made>>
      /\ live' \subseteq live /\ valid' \subseteq valid
  BY DEF EndSession, Expire, vars, storage
<1>3. TypeOK'
  BY <1>1, <1>2 DEF TypeOK
<1>4. Len(made) \in Nat
  BY <1>1, LenProperties DEF TypeOK
<1>5. ASSUME NEW t \in Tabs PROVE TabInv(t)'
  <2>1. used \subseteq used' /\ used \cap live' \subseteq live /\ live' \subseteq Sessions
    BY <1>1, <1>2 DEF TypeOK
  <2>2. Alone(t)' => Alone(t)
    BY <1>2 DEF Alone
  <2>3. QED BY <1>1, <1>2, <1>4, <2>1, <2>2, StandsStill
<1>6. QED BY <1>3, <1>5, TabByTabNext

\* Every step keeps the invariant.
LEMMA ClientInductive == ClientInv /\ [Next]_vars => ClientInv'
<1> SUFFICES ASSUME ClientInv, [Next]_vars PROVE ClientInv'
  OBVIOUS
<1>1. TypeOK /\ \A t \in Tabs : TabInv(t)
  BY TabByTab
<1>2. ASSUME NEW t \in Tabs, Own(t) PROVE ClientInv'
  <2>1. Kept(t)
    BY <1>1, <1>2, OwnKeeps
  <2>2. ASSUME NEW u \in Tabs \ {t} PROVE TabInv(u)'
    <3>1. ~Alone(u)'
      BY <2>1 DEF Kept, Alone
    <3>2. tab'[u] = tab[u] /\ sess'[u] = sess[u] /\ access'[u] = access[u]
      BY <2>1 DEF Kept, Others
    <3>3. QED BY <1>1, <1>2, <3>1, <3>2, SharedState, StandsStill
  <2>3. QED BY <2>1, <2>2, TabByTabNext DEF Kept
<1>3. QED BY <1>2, ServerSteps DEF Next, Own

\* At the start every tab is closed, and the remembered session is one that the server knows.
LEMMA InitClient == Init => ClientInv
<1> SUFFICES ASSUME Init PROVE ClientInv
  OBVIOUS
<1>1. TypeOK
  <2>1. Len(<<>>) = 0 /\ <<>> \in Seq(used)
    OBVIOUS
  <2>2. access \in [Tabs -> 0 .. Len(made)] /\ Len(made) <= MaxTokens
    BY <2>1, ClientAssumption DEF Init
  <2>3. QED BY <2>1, <2>2, StartTypes DEF Init, TypeOK
<1>2. ASSUME NEW t \in Tabs PROVE TabInv(t)
  <2>1. /\ tab[t] = Opened("closed") /\ sess[t] = None /\ access[t] = 0
        /\ tab[t].at = "closed" /\ tab[t].refresh = NoRefresh /\ ~tab[t].silent
        /\ ~tab[t].socket /\ \A c \in Calls : tab[t].calls[c] = NotCalled
    BY StartFields DEF Init
  <2>2. /\ ~Awaited(tab[t]) /\ ~Carries(tab[t]) /\ AllIdle(tab[t])
        /\ \A c \in Calls : InOrder(tab[t].calls[c])
    BY <2>1, FreshPage
  <2>3. PageInv(t) /\ RefreshInv(t) /\ StorageInv(t) /\ AloneInv(t)
    BY <2>1, <2>2, StartFields DEF PageInv, RefreshInv, StorageInv, AloneInv
  <2>4. QED BY <2>3 DEF TabInv
<1>3. QED BY <1>1, <1>2, TabByTab

\* ClientInv always holds: whoever waits for a refresh waits for one that runs, and a browser
\* with one tab is empty when it is signed out.
THEOREM ClientInvariant == Spec => []ClientInv
BY InitClient, ClientInductive, PTL DEF Spec

\* A request is carried out at most once, however refusals, refreshes and timeouts interleave.
THEOREM NoReplay == Spec => []ActedOnce
<1>1. ClientInv => ActedOnce
  <2> SUFFICES ASSUME ClientInv, NEW t \in Tabs, NEW c \in Calls
               PROVE  tab[t].calls[c].executed <= 1
    BY DEF ActedOnce
  <2>1. tab[t].calls[c].executed = 0 \/ tab[t].calls[c].executed = 1
    BY DEF ClientInv, CallsInOrder
  <2>2. QED BY <2>1
<1>2. QED BY <1>1, ClientInvariant, PTL

\* A refresh that ends after the logout does not bring the session back.
THEOREM SignedOutStaysEmpty == Spec => []SignedOutMeansEmpty
<1>1. ClientInv => SignedOutMeansEmpty
  BY DEF ClientInv
<1>2. QED BY <1>1, ClientInvariant, PTL

\* An access token is only written when it is made at a login or granted to a refresh.
LEMMA TokensComeFrom ==
  ASSUME TypeOK, NEW t \in Tabs, NEW u \in Tabs, Own(u), Others(u),
         access'[t] \notin {0, access[t]}
  PROVE  /\ t = u
         /\ \/ RefreshGranted(u)
            \/ \E s \in Sessions, remember \in BOOLEAN : Login(u, s, remember)
<1>1. t = u
  BY DEF Others
<1>2. QED
  BY <1>1 DEF Own, HandleLogout, Logout, SilentRefresh, ConnectWs, CallRefused, Unauthorized, RefreshNull,
    OpenTab, OpenPanel, OpenLogin, Leave, Write, ServeRefresh, RefreshFails,
    ServeCall, CallSucceeds, CallTimesOut, storage, TypeOK

\* An access token is stored only beside the refresh token it was made for.
THEOREM TokensMatch == Spec => NoLateToken
<1> DEFINE Beside == \A t \in Tabs :
             access'[t] \notin {0, access[t]} => made'[access'[t]] = RefreshToken(t)'
<1>1. ClientInv /\ [Next]_vars => Beside
  <2> SUFFICES ASSUME ClientInv, [Next]_vars, NEW t \in Tabs, access'[t] \notin {0, access[t]}
               PROVE  made'[access'[t]] = RefreshToken(t)'
    OBVIOUS
  <2>1. TypeOK /\ \A u \in Tabs : TabInv(u)
    BY TabByTab
  <2>2. ASSUME NEW u \in Tabs, Own(u) PROVE made'[access'[t]] = RefreshToken(t)'
    <3>1. Others(u)
      BY <2>1, <2>2, OwnKeeps DEF Kept
    <3>2. CASE RefreshGranted(u) /\ t = u
      <4>1. /\ access'[t] = tab[t].refresh.token /\ RefreshToken(t)' = RefreshToken(t)
            /\ RefreshToken(t) = tab[t].refresh.session /\ made' = made
            /\ tab[t].refresh.status = "granted"
        BY <2>1, <3>2 DEF RefreshGranted, StillStored, RefreshToken, server, TypeOK
      <4>2. QED BY <2>1, <4>1 DEF TabInv, RefreshInv
    <3>3. ASSUME NEW s \in Sessions, NEW remember \in BOOLEAN, Login(u, s, remember), t = u
          PROVE  made'[access'[t]] = RefreshToken(t)'
      <4>1. access'[t] = Len(made) + 1 /\ RefreshToken(t)' = s
        BY <2>1, <3>3, ClientAssumption DEF Login, SaveTokens, RefreshToken, First, TypeOK
      <4>2. made'[Len(made) + 1] = s
        BY <2>1, <3>3, Issues DEF Login
      <4>3. QED BY <4>1, <4>2
    <3>4. QED BY <2>1, <2>2, <3>1, <3>2, <3>3, TokensComeFrom
  <2>3. QED BY <2>2 DEF Next, Own, EndSession, Expire, vars, storage
<1>2. QED BY <1>1, ClientInvariant, PTL DEF Spec, NoLateToken

(***************************************************************************)
(* Who gives a session up.                                                 *)
(***************************************************************************)

\* The session of t is given up in a step of u that empties the storage.
GivenUp(t, u) ==
  /\ RefreshToken(t) \in live /\ RefreshToken(t)' # RefreshToken(t)
  /\ Others(u) /\ sess'[u] = None /\ local' = None

\* Then u had a refresh token; and if it is the only tab, it had the token that is given up.
LEMMA GivenUpByOwner ==
  ASSUME TypeOK, NEW t \in Tabs, NEW u \in Tabs, TabInv(t), TabInv(u), GivenUp(t, u)
  PROVE  RefreshToken(u) # None /\ (Alone(u) => RefreshToken(u) = RefreshToken(t))
<1>1. /\ RefreshToken(t) = IF sess[t] # None THEN sess[t] ELSE local
      /\ RefreshToken(u) = IF sess[u] # None THEN sess[u] ELSE local
      /\ RefreshToken(t)' = IF sess'[t] # None THEN sess'[t] ELSE local'
      /\ None \notin live
  BY StoredTypes DEF RefreshToken, First
<1>2. RefreshToken(t) # None /\ (t # u => sess'[t] = sess[t])
  BY <1>1 DEF GivenUp, Others
<1>3. RefreshToken(u) # None
  BY <1>1, <1>2 DEF GivenUp
<1>4. ASSUME Alone(u), t # u PROVE RefreshToken(u) = RefreshToken(t)
  <2>1. tab[t].at = "closed"
    BY <1>4 DEF Alone
  <2>2. sess[t] = None
    BY <2>1 DEF TabInv, PageInv
  <2>3. sess[u] = None \/ local = None
    BY <1>4 DEF TabInv, AloneInv
  <2>4. QED BY <1>1, <1>2, <2>2, <2>3
<1>5. QED BY <1>3, <1>4

\* The cause, when it is the refusal of a call: it is /me, sent for the second time or after
\* its tab has lost the access token, which one tab alone does not survive with a session.
LEMMA RefusedForCause ==
  ASSUME TypeOK, NEW t \in Tabs, NEW u \in Tabs, TabInv(t), TabInv(u),
         NEW c \in Calls, CallRefused(u, c),
         RefreshToken(t) \in live, RefreshToken(t)' # RefreshToken(t)
  PROVE  /\ c = Me
         /\ \/ tab[u].calls[c].again
            \/ ~Alone(u) /\ tab[u].calls[c].token # 0 /\ access[u] = 0
<1> DEFINE call == tab[u].calls[c]
<1>1. Others(u)
  BY OwnKeeps DEF Kept, Own
<1>2. Unauthorized(u, c) /\ c = Me
  BY DEF CallRefused, Unauthorized, RefreshToken, storage
<1>3. sess'[u] = None /\ local' = None
  BY <1>2 DEF Unauthorized, HandleLogout, TypeOK
<1>4. GivenUp(t, u)
  BY <1>1, <1>3 DEF GivenUp
<1>5. RefreshToken(u) # None /\ (Alone(u) => RefreshToken(u) = RefreshToken(t))
  BY <1>4, GivenUpByOwner
<1>6. Shared(u, tab[u]).session # None
  <2>1. tab[u] \in Page
    BY StoredTypes
  <2>2. QED BY <1>5, <2>1, SharedTypes
<1>7. CASE call.again
  BY <1>2, <1>7
<1>8. CASE ~call.again
  <2>1. UNCHANGED storage \/ (access[u] # call.token /\ access[u] = 0)
    BY <1>6, <1>8 DEF CallRefused
  <2>2. access[u] = 0 /\ call.token # 0
    BY <1>4, <2>1 DEF GivenUp, RefreshToken, storage
  <2>3. Carries(tab[u])
    BY <2>2 DEF Carries
  <2>4. ~Alone(u)
    BY <1>5, <2>2, <2>3 DEF TabInv, AloneInv
  <2>5. QED BY <1>2, <2>2, <2>4
<1>9. QED BY <1>7, <1>8

\* The cause, when a refresh resolves to null: with one tab there is none.
LEMMA NullForCause ==
  ASSUME TypeOK, NEW t \in Tabs, NEW u \in Tabs, TabInv(t), TabInv(u), RefreshNull(u),
         RefreshToken(t) \in live, RefreshToken(t)' # RefreshToken(t)
  PROVE  ~Alone(u) /\ tab[u].refresh.session # RefreshToken(t)
<1> DEFINE logouts == (IF tab[u].silent THEN 1 ELSE 0)
                      + (IF tab[u].calls[Me].phase = "waiting" THEN 1 ELSE 0)
<1>1. Others(u)
  BY OwnKeeps DEF Kept, Own
<1>2. /\ tab[u].refresh.session # None
      /\ tab[u].refresh.status = "refused" \/ ~StillStored(u)
  BY DEF RefreshNull
<1>3. logouts > 0 \/ StillStored(u)
  BY DEF RefreshNull, RefreshToken, TypeOK
<1>4. sess'[u] = None /\ local' = None
  <2>1. CASE logouts > 0
    BY <2>1 DEF RefreshNull, HandleLogout, TypeOK
  <2>2. CASE ~(logouts > 0)
    BY <1>3, <2>2 DEF RefreshNull, TypeOK
  <2>3. QED BY <2>1, <2>2
<1>5. GivenUp(t, u)
  BY <1>1, <1>4 DEF GivenUp
<1>6. RefreshToken(u) # None /\ (Alone(u) => RefreshToken(u) = RefreshToken(t))
  BY <1>5, GivenUpByOwner
<1>7. StillStored(u) <=> RefreshToken(u) = tab[u].refresh.session
  BY DEF StillStored
<1>8. tab[u].refresh.session # RefreshToken(t)
  <2>1. CASE tab[u].refresh.status = "refused"
    BY <2>1 DEF TabInv, RefreshInv
  <2>2. CASE ~StillStored(u)
    <3> SUFFICES ASSUME tab[u].refresh.session = RefreshToken(t) PROVE FALSE
      OBVIOUS
    <3>1. t # u
      BY <1>7, <2>2
    <3>2. RefreshToken(t) = local
      BY <1>5, <3>1 DEF GivenUp, Others, RefreshToken, First
    <3>3. sess[u] = None
      BY <1>2, <3>2 DEF TabInv, StorageInv
    <3>4. RefreshToken(u) = local
      BY <3>3 DEF RefreshToken, First
    <3>5. QED BY <1>7, <2>2, <3>2, <3>4
  <2>3. QED BY <1>2, <2>1, <2>2
<1>9. ~Alone(u)
  <2> SUFFICES ASSUME Alone(u) PROVE FALSE
    OBVIOUS
  <2>1. RefreshToken(u) # tab[u].refresh.session
    BY <1>6, <1>8
  <2>2. Awaited(tab[u])
    BY <1>3, <1>7, <2>1, ClientAssumption DEF Awaited
  <2>3. QED BY <1>6, <2>1, <2>2 DEF TabInv, AloneInv
<1>10. QED BY <1>8, <1>9

\* A session that the server would still renew is only given up by the user, by a second
\* refusal, or, with several tabs, by one that lost another session or its access token.
THEOREM SessionsAreKept == Spec => GivenUpForCause
<1> DEFINE Cause(t, u) ==
             \/ Logout(u) \/ \E s \in Sessions, remember \in BOOLEAN : Login(u, s, remember)
             \/ CallRefused(u, Me) /\ tab[u].calls[Me].again
             \/ /\ ~Alone(u)
                /\ \/ RefreshNull(u) /\ tab[u].refresh.session # RefreshToken(t)
                   \/ CallRefused(u, Me) /\ tab[u].calls[Me].token # 0 /\ access[u] = 0
           Caused == \A t \in Tabs :
             RefreshToken(t) \in live /\ RefreshToken(t)' # RefreshToken(t) =>
               \E u \in Tabs : Cause(t, u)
<1>1. ClientInv /\ [Next]_vars => Caused
  <2> SUFFICES ASSUME ClientInv, [Next]_vars, NEW t \in Tabs,
                      RefreshToken(t) \in live, RefreshToken(t)' # RefreshToken(t)
               PROVE  \E u \in Tabs : Cause(t, u)
    OBVIOUS
  <2>1. TypeOK /\ \A u \in Tabs : TabInv(u)
    BY TabByTab
  <2>2. \E u \in Tabs : Own(u)
    BY DEF Next, Own, EndSession, Expire, vars, storage, RefreshToken
  <2>3. PICK u \in Tabs : Own(u)
    BY <2>2
  <2>4. CASE SilentRefresh(u)
    <3>1. tab[u] \in Page /\ Others(u)
      BY <2>1, <2>3, StoredTypes, OwnKeeps DEF Kept
    <3>2. Shared(u, tab[u]).session = None
      BY <2>4 DEF SilentRefresh, RefreshToken, storage
    <3>3. RefreshToken(u) = None
      BY <2>1, <3>1, <3>2, SharedTypes
    <3>4. GivenUp(t, u)
      BY <2>1, <2>4, <3>1, <3>2 DEF SilentRefresh, HandleLogout, GivenUp, TypeOK
    <3>5. QED BY <2>1, <3>3, <3>4, GivenUpByOwner
  <2>5. ASSUME NEW c \in Calls, CallRefused(u, c) PROVE \E v \in Tabs : Cause(t, v)
    BY <2>1, <2>5, RefusedForCause
  <2>6. CASE RefreshNull(u)
    BY <2>1, <2>6, NullForCause
  <2>7. CASE sess' = sess /\ local' = local
    BY <2>7 DEF RefreshToken
  <2>8. QED
    BY <2>3, <2>4, <2>5, <2>6, <2>7 DEF Own, OpenTab, OpenPanel, OpenLogin, Leave, Write,
      ConnectWs, ServeRefresh, RefreshGranted, RefreshFails, ServeCall, CallSucceeds, CallTimesOut, storage
<1>2. QED BY <1>1, ClientInvariant, PTL DEF Spec, GivenUpForCause
=============================================================================
