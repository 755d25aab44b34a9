----------------------------- MODULE AdminPage -----------------------------
(***************************************************************************)
(* admin.js.  A refresh fetches all transformers, their meters into a map  *)
(* that all refreshes share, shows the totals, and fetches the users.      *)
(* Beside it, what is selected is loaded: a user's transformers, the keys  *)
(* and then the points of a transformer.  No answer is compared with the   *)
(* selection of the time it comes in.                                      *)
(*                                                                         *)
(* A task is one click, with the requests that follow from it.  Points are *)
(* told apart by their transformer; the meters of the selected user's      *)
(* transformers are fetched like those of all and are left out.            *)
(***************************************************************************)
EXTENDS Installations

VARIABLES
  users,               \* the list of users
  transformers,        \* allTransformers
  metersBy,            \* allMetersByTransformer
  user, transformer,   \* selectedUser, selectedTransformer
  detail,              \* userTransformers, as they are on the screen
  points,              \* the transformer whose points are shown
  astray               \* auxiliary: what is selected may be behind for another reason
                       \* than the order of answers

lists == <<users, transformers, metersBy>>
selection == <<user, transformer, detail, points>>
own == <<lists, selection, astray>>
vars == <<page, rows, task, summary, missed, own>>

TypeOK ==
  /\ RowsOK
  /\ users \subseteq User
  /\ transformers \subseteq Transformer
  /\ metersBy \in [Transformer -> SUBSET MeterId]
  /\ user \in User \cup {None} /\ transformer \in Transformer \cup {None}
  /\ detail \subseteq Transformer
  /\ points \in Transformer \cup {None}
  /\ astray \in BOOLEAN

\* What a refresh waits for, and what a selection waits for.
RefreshKinds == {"list", "meters", "users"}
DetailKinds == {"detail", "keys", "metrics"}
Runs(kinds, c) == \E d \in Caller \ {c} : task[d].kind \in kinds

(***************************************************************************)
(* The selection.                                                          *)
(***************************************************************************)

\* selectUser up to its await; the list on the screen is still that of the user before.
ShowUser(u, c) ==
  /\ user' = u /\ transformer' = None /\ points' = None
  /\ astray' = Runs(DetailKinds, c)
  /\ Do(c, AskAbout("detail", u, None))
  /\ UNCHANGED detail

\* renderUsers: a row for everybody, with the buttons for the three clicks on users.  The
\* search, which hides rows, and the form for passwords are left out.
UserRows == users

SelectUser(u, c) ==
  /\ Idle(c) /\ u \in UserRows
  /\ ShowUser(u, c)
  /\ UNCHANGED <<page, rows, summary, missed, lists>>

\* renderTransformers.
Rendered(ts) == IF user = None THEN {} ELSE ts

\* fetchTransformersForUser, of whatever user it was, and its rendering.
UserTransformersFetched(c) ==
  /\ Answered(c, "detail")
  /\ detail' = Rendered(task[c].list)
  /\ Done(c)
  /\ UNCHANGED <<page, rows, summary, missed, lists, user, transformer, points, astray>>

\* No list after an error.
UserTransformersFailed(c) ==
  /\ task[c].kind = "detail"
  /\ detail' = {}
  /\ Done(c)
  /\ astray' = TRUE
  /\ UNCHANGED <<page, rows, summary, missed, lists, user, transformer, points>>

\* Mutant: nothing is loaded.
SelectTransformerOnly(t, c) ==
  /\ Idle(c) /\ t \in detail
  /\ transformer' = t
  /\ UNCHANGED <<page, rows, task, summary, missed, lists, user, detail, points, astray>>

\* Of those on the screen, whose ever they are.  Points and keys before stay meanwhile.
SelectTransformer(t, c) ==
  /\ Idle(c) /\ t \in detail
  /\ transformer' = t
  /\ astray' = (astray \/ Runs(DetailKinds, c))
  /\ Do(c, AskAbout("keys", None, t))
  /\ UNCHANGED <<page, rows, summary, missed, lists, user, detail, points>>

\* loadMetricKeys: there are some, and loadMetrics looks at the selection of now; or none.
\* That the answer has been given and that it is handled is one step here and in
\* PointsShown: there is nothing in it that could be late but the transformer it is of.
KeysLoaded(c) ==
  /\ Sent(c, "keys") /\ Named(task[c])
  /\ \/ /\ IF transformer = None THEN Done(c) ELSE Do(c, AskAbout("metrics", None, transformer))
        /\ UNCHANGED points
     \/ points' = None /\ Done(c)
  /\ UNCHANGED <<page, rows, summary, missed, lists, user, transformer, detail, astray>>

\* The choice of a key or of a number of points.
LoadMetrics(c) ==
  /\ Idle(c) /\ transformer # None
  /\ astray' = (astray \/ Runs(DetailKinds, c))
  /\ Do(c, AskAbout("metrics", None, transformer))
  /\ UNCHANGED <<page, rows, summary, missed, lists, selection>>

PointsShown(c) ==
  /\ Sent(c, "metrics") /\ Named(task[c])
  /\ points' \in {task[c].transformer, None}
  /\ Done(c)
  /\ UNCHANGED <<page, rows, summary, missed, lists, user, transformer, detail, astray>>

\* The status line shows the error; what is shown stays.
DetailFails(c) ==
  /\ task[c].kind \in {"keys", "metrics"}
  /\ Done(c)
  /\ astray' = TRUE
  /\ UNCHANGED <<page, rows, summary, missed, lists, selection>>

(***************************************************************************)
(* The lists.                                                              *)
(***************************************************************************)

\* refreshAll, u's data having been deleted before.
RefreshAll(c, u) ==
  /\ missed' = (missed \/ Runs(RefreshKinds, c))
  /\ Do(c, AskAbout("list", u, None))

\* What c asks for next in its refresh.
GoesOn(c, kind) == AskAbout(kind, task[c].user, None)

\* Mutant: the map is not emptied.
TransformersFetchedKeepMap(c) ==
  LET q == task[c] IN
  /\ Answered(c, "list")
  /\ transformers' = q.list
  /\ Do(c, [GoesOn(c, "meters") EXCEPT !.asked = q.list])
  /\ UNCHANGED <<page, rows, summary, missed, users, metersBy, selection, astray>>

\* fetchTransformers, and fetchMetersAndRegisters up to its requests.
TransformersFetched(c) ==
  LET q == task[c] IN
  /\ Answered(c, "list")
  /\ transformers' = q.list
  /\ metersBy' = [t \in Transformer |-> {}]
  /\ Do(c, [GoesOn(c, "meters") EXCEPT !.asked = q.list])
  /\ UNCHANGED <<page, rows, summary, missed, users, selection, astray>>

\* Into the map there is now; as soon as it is given, which differs only if one deletes
\* meanwhile, and then refreshes.
StoreMeters(c, t) ==
  /\ AnswerMeters(c, t)
  /\ metersBy' = [metersBy EXCEPT ![t] = MetersAt(t)]
  /\ UNCHANGED <<page, users, transformers, selection, astray>>

\* None, after an error.
StoreNone(c, t) ==
  /\ FailMeters(c, t)
  /\ metersBy' = [metersBy EXCEPT ![t] = {}]
  /\ UNCHANGED <<page, users, transformers, selection, astray>>

\* updateStats, and fetchUsers up to its request.
UpdateStats(c) ==
  LET q == task[c] IN
  /\ q.kind = "meters" /\ q.asked = {}
  /\ summary' = [transformers |-> Cardinality(transformers),
                 meters |-> Cardinality(UNION {metersBy[t] : t \in Transformer})]
  /\ Do(c, GoesOn(c, "users"))
  /\ UNCHANGED <<page, rows, missed, own>>

\* Mutant: the selected user stays.
UsersFetchedOnly(c) ==
  /\ Answered(c, "users")
  /\ users' = task[c].list
  /\ Done(c)
  /\ UNCHANGED <<page, rows, summary, missed, transformers, metersBy, selection, astray>>

\* fetchUsers: a user who is gone is no longer selected.  deleteUserTransformers selects
\* the user again whose data are gone.
UsersFetched(c) ==
  LET list == task[c].list
      u == IF user \in list THEN user ELSE None
  IN
  /\ Answered(c, "users")
  /\ users' = list
  /\ IF u # None /\ u = task[c].user
     THEN ShowUser(u, c)
     ELSE /\ Done(c)
          /\ IF u # user
             THEN /\ user' = None /\ transformer' = None /\ points' = None /\ detail' = {}
                  /\ astray' = (astray \/ Runs(DetailKinds, c))
             ELSE UNCHANGED <<selection, astray>>
  /\ UNCHANGED <<page, rows, summary, missed, transformers, metersBy>>

\* The chain ends; the notice says so.
RefreshFails(c) ==
  /\ task[c].kind \in {"list", "users", "wipe", "expel"}
  /\ Done(c)
  /\ missed' = TRUE /\ astray' = TRUE
  /\ UNCHANGED <<page, rows, summary, lists, selection>>

DeleteUserTransformers(u, c) ==
  /\ Idle(c) /\ u \in UserRows
  /\ Do(c, AskAbout("wipe", u, None))
  /\ UNCHANGED <<page, rows, summary, missed, own>>

DeleteUser(u, c) ==
  /\ Idle(c) /\ u \in UserRows
  /\ Do(c, AskAbout("expel", u, None))
  /\ UNCHANGED <<page, rows, summary, missed, own>>

\* The refresh begins as soon as the rows are deleted: its first answer may be late.
UserDataDeleted(c) ==
  /\ \/ Sent(c, "wipe") /\ DeleteOf(task[c].user) /\ RefreshAll(c, task[c].user)
     \/ Sent(c, "expel") /\ DeleteAccount(task[c].user) /\ RefreshAll(c, None)
  /\ UNCHANGED <<page, summary, lists, selection, astray>>

\* A list shows what was written before; the totals are of one refresh, if it is alone.
AnswerTask(c) ==
  /\ ~Sent(c, "keys") /\ ~Sent(c, "metrics")
  /\ AnswerRead(c)
  /\ missed' = (missed /\ (~Sent(c, "list") \/ Runs(RefreshKinds, c)))
  /\ UNCHANGED <<page, own>>

Lists(c) ==
  \/ AnswerTask(c) \/ TransformersFetched(c) \/ UpdateStats(c) \/ UsersFetched(c) \/ RefreshFails(c)
  \/ \E t \in Transformer : StoreMeters(c, t) \/ StoreNone(c, t)
  \/ \E u \in User : DeleteUserTransformers(u, c) \/ DeleteUser(u, c)
  \/ UserDataDeleted(c)

Selection(c) ==
  \/ UserTransformersFetched(c) \/ UserTransformersFailed(c)
  \/ KeysLoaded(c) \/ LoadMetrics(c) \/ PointsShown(c) \/ DetailFails(c)
  \/ \E u \in User : SelectUser(u, c)
  \/ \E t \in Transformer : SelectTransformer(t, c)

Init ==
  /\ page = "admin"
  /\ RowsInit
  /\ \E c \in Caller : task = [d \in Caller |-> IF d = c THEN Ask("list") ELSE NoTask]
  /\ users = {} /\ transformers = {}
  /\ metersBy = [t \in Transformer |-> {}]
  /\ user = None /\ transformer = None
  /\ detail = {} /\ points = None
  /\ astray = FALSE

Next ==
  \/ \E c \in Caller : Lists(c) \/ Selection(c)
  \/ /\ DeleteAccountElsewhere   \* bound of the model: no other writes
     /\ astray' = TRUE
     /\ UNCHANGED <<page, lists, selection>>

Spec == Init /\ [][Next]_vars

(***************************************************************************)
(* Properties.                                                             *)
(***************************************************************************)

Quiet == \A c \in Caller : Idle(c)

\* A task has what its requests need.
TasksInOrder ==
  \A c \in Caller :
    LET q == task[c] IN
    /\ q.kind \in {"none", "wipe", "expel"} \cup RefreshKinds \cup DetailKinds
    /\ q.kind \in {"detail", "wipe", "expel"} => q.user \in User
    /\ q.kind \in {"keys", "metrics"} => q.transformer \in Transformer
    /\ q.kind \in {"list", "detail"} => q.list \subseteq Transformer
    /\ q.kind = "users" => q.list \subseteq User

\* Who is selected is in the list of users, so that the buttons beside name somebody.
SelectedIsListed == user \in users \cup {None}

TotalsAreRight ==
  /\ summary # None
  /\ summary.transformers = Cardinality(Existing)
  /\ summary.meters = Cardinality(UNION {MetersAt(t) : t \in Existing})

\* Unless something was missed, there is one refresh, which has found what is stored, or
\* there is none and what is stored is shown.
RefreshBecomesStored ==
  ~missed =>
    /\ \A c \in Caller :
         LET q == task[c] IN
         /\ q.kind \in RefreshKinds => ~Runs(RefreshKinds, c)
         /\ Answered(c, "list") => q.list = Existing
         /\ q.kind = "meters" =>
              /\ transformers = Existing
              /\ \A t \in Transformer \ q.asked : metersBy[t] = MetersAt(t)
         /\ q.kind = "users" => TotalsAreRight
         /\ Answered(c, "users") => q.list = accounts
    /\ (\A c \in Caller : task[c].kind \notin RefreshKinds) => TotalsAreRight /\ users = accounts

\* What is to be shown of the selected user.
OfSelected == {t \in Transformer : user # None /\ holder[t] = user}

\* A refresh after which the user is selected again, or no longer.
Reselects(c) ==
  /\ user # None /\ task[c].kind \in RefreshKinds
  /\ \/ task[c].user = user
     \/ user \notin accounts /\ (Answered(c, "users") => user \notin task[c].list)

\* Unless something else went astray, one task at most loads what is selected, and if the
\* screen is behind the rows, a refresh is running that will load it again.
SelectionIsLoaded ==
  ~astray =>
    /\ \A c \in Caller :
         LET q == task[c] IN
         /\ q.kind \in DetailKinds => ~Runs(DetailKinds, c)
         /\ q.kind = "detail" =>
              q.user = user /\ user # None /\ transformer = None /\ points = None
         /\ q.kind \in {"keys", "metrics"} => q.transformer = transformer
    /\ (\A c \in Caller : task[c].kind \notin DetailKinds) => points \in {transformer, None}
    /\ \/ \E c \in Caller : Reselects(c)
       \/ /\ \A c \in Caller : Answered(c, "detail") => task[c].list = OfSelected
          /\ (\A c \in Caller : task[c].kind # "detail") => detail = OfSelected

\* The inductive invariant.
AdminInv ==
  TypeOK /\ TasksInOrder /\ SelectedIsListed /\ RefreshBecomesStored /\ SelectionIsLoaded

\* A quiet page shows the totals of what is stored, unless refreshes have overlapped,
\* others wrote meanwhile, or a request failed.
AdminTotalsAreCurrent ==
  Quiet /\ ~missed =>
    /\ users = accounts
    /\ summary # None
    /\ summary.transformers = Cardinality(Existing)
    /\ summary.meters = Cardinality(UNION {MetersAt(t) : t \in Existing})

\* If nobody selects before the last selection has been loaded, the page then shows the
\* selected user's transformers and the selected transformer's points, or none: nothing
\* is left of the selections before, also when users and their data are deleted.
DetailIsOfSelection ==
  Quiet /\ ~astray =>
    /\ points \in {transformer, None}
    /\ detail = {} \/ user # None
    /\ detail = {t \in Transformer : user # None /\ holder[t] = user}
=============================================================================
