# Verification of Backend-Transformer

TLA+ models of the server and its WebSocket protocol, the configurations with
which TLC checks them on small instances, and theorems about them that TLAPS
checks for every instance. The reference is the code: each definition that stands
for code is listed with its lines in `PROJECT.json` (`map`).

Paths below are relative to `src/main/kotlin/` unless they start otherwise.

## 1. The system

A Ktor server keeps accounts, transformers, the meters and registers below a
transformer, and telemetry in a MySQL database (through Exposed). Devices post
readings and error reports by HTTP or by a WebSocket. A browser panel (plain
JavaScript) shows the installation, the history of readings and, by another
WebSocket, live readings. There may be several servers on one database; a hub of
live subscribers is local to each.

### Components

| component | code | state | operations |
|---|---|---|---|
| Relational store | `AuthRepository`, `TransformerRepository`, `MeterRepository`, `core/db` | tables users, transformers, meter, meter_register, refresh_sessions, and the existence of telemetry rows; row locks | create, delete and cascade at each level |
| Metrics ingestion | `MetricsRepository.upsertValue` | metrics_1m_kv (one aggregate per key and minute), metric_samples | POST or frame of one reading |
| History query | `MetricsRepository.list`, `listKeys` | none (reads the above) | pages of samples and of older aggregates |
| Transformer errors | `TransformerErrorRepository` | transformer_errors, five per transformer | report, list |
| Accounts and sessions | `features/auth`, `features/admin`, `plugins/Security*` | users, refresh_sessions, the tokens clients hold | register, login, refresh, logout, delete account, change password or role, bootstrap administrator |
| Live metrics hub | `MetricsWsHub`, `MetricsWsRoute` | map from transformer to subscribers' queues | add, remove, broadcast; writer coroutine |
| WebSocket authorization | `MetricsWsRoute` | timers of one connection | first-frame deadline, checks at admission, periodically, per frame |
| Installation routes | `TransformerRoute`, `MeterRoute` | none | read access in one transaction, write in another; PUT reads, merges, writes back |
| API client | `src/main/resources/static/api.js`, `login.js`, `panel-common.js` | tokens in local storage, the running refresh | request with one retry, silent refresh, logout |
| Readings page | `static/readings.js`, `readings-chart.js` | selected transformer, history, live points, socket | load history, connect, merge, reconnect |
| Pages of meters and registers | `static/meters.js`, `static/registers.js` | selected transformer and meter, the lists on display | load, choose, add, delete, reload |
| Pages of transformers and the dashboard | `static/transformers.js`, `dashboard.js`, `panel-data.js` | the list and its counts of meters, the totals; the selection in the browser's storage | load, add, remove, select, count |
| Administrator's page | `static/admin.js` | users, transformers and meters of everybody; the selected user, his transformers and their points | refresh, select, delete a user or his transformers |
| Profile and navigation | `static/profile.js`, `ui.js` | open menus and messages | rendering |
| Configuration, plumbing, DTOs | `core/config`, `plugins`, `web`, `*Dto.kt` | none | wiring and error mapping |

### How they interact

* Every handler runs one or more database transactions through `dbQuery`
  (`databaseFactory.kt:71`), which runs a block again when it fails with an SQL
  error. What a handler read in one transaction may be false in the next one.
* Row locks (`SELECT ... FOR UPDATE` of the parent row) are the only thing that
  keeps the tables consistent: the schema the program creates has no foreign keys
  but that of refresh_sessions.
* After the commit of a reading, and outside its lock, the handler broadcasts it to
  the hub. The hub's queues are drained by one writer coroutine per socket.
* The panel loads the history by HTTP after the socket says `ready` and merges live
  points into it by sample count. The tokens it uses are shared by all its tabs.
* Each page of the panel is an HTML file with its own scripts. What a page leaves to the next one is
  in the database and in the browser's storage: the tokens, the selected transformer and meter.

### What is hard, and what makes each component correct

| component | hard behaviour | correct when |
|---|---|---|
| Relational store | a child is inserted while a cascade deletes its parent; a cascade fails half-way; lock order; retries | there are no orphans; deletes stay in scope; lock waits end |
| Metrics ingestion | read, compute, write back by concurrent writers; lost commit answers; legacy rows; counter limit | aggregates equal their samples; the samples are a log |
| Transformer errors | insert and prune concurrently; equal times, clocks that differ between servers | at most five, the newest ones |
| Accounts and sessions | check in one transaction, write in the next; a slow request outliving the fact it checked | e-mails unique; sessions have accounts; a session that was ended stays ended |
| Live metrics hub | an empty set leaves the map while it is used; full queues; the end of a session races with broadcasts | no lost subscription, no leak, no silent gap, a slow client is told |
| WebSocket authorization | timers, expiry, withdrawal of rights | access ends in bounded time and its frames at once |
| History query | ties on the page boundary; minutes with aggregates and samples | pages enumerate everything once |
| Readings page | answers for an earlier selection; live points during a load; reconnects | a quiet view equals the log; nothing of another transformer is shown |
| API client | logout during a refresh; several tabs | a finished logout is not undone |
| Pages of meters and registers | answers in any order for any earlier selection; rows that others delete | a quiet list is current; deletes stay below the selection |
| Pages of transformers and the dashboard | a list that the page edits itself while whole lists are on their way; counts that overtake each other; some of the requests fail | each transformer is listed once with its count; totals are right or a dash |
| Administrator's page | two refreshes or selections at once; users who vanish while their data are being loaded | the selected user exists; nothing of a former selection stays beside it |
| Installation routes | PUT reads, merges, writes back while others do | stored rows are valid |

`PROJECT.json` lists each hazard at its line with the properties that cover it.

## 2. Modules

### InstallationStore: the tables and their locks

State: a foreign-key column per table (`owner`, `transformerOf`, `meterOf`,
`sessionUser`; `NoRow` where there is no row), which transformers have telemetry, who
holds each row lock, and per request its operation, key and progress.

A handler that has read its path's row starts (`Begin`) the transaction that writes.
That transaction goes lock by lock: the parent's row, for a cascade the transformers
in key order with their meters. The writes
touch only locked or new rows, so they are made in the commit step (`CreateMeter`,
`DeleteCascade`, ...).

The program runs at REPEATABLE READ (`databaseFactory.kt:37`), where InnoDB lets a DELETE or FOR UPDATE that searches an
index by a user, transformer or meter lock the gaps around the rows it finds as well, until the transaction ends
(`SearchedSessions`, `SearchedTransformers`, `SearchedMeters`). Such locks go together with each other, but an insert into a
locked gap waits (`GapBlockers`): below the searched parent, and below one whose rows come next in the index. Which
parents these are depends on all the rows, so it is a constant (`Adjoins`), of which the theorems assume nothing.
Requests that open a session have locked the account's row, so they wait for each other only in this way.
 A transaction may fail at any time (`SqlFailure` runs it again,
`GiveUp` ends it); nothing is then written. Which columns a PUT changes is left out:
it creates and deletes no rows.

### MetricsIngest and MetricLog: readings

`MetricsIngest` is `upsertValue` statement by statement for one transformer: lock the
transformer, read the aggregate, compute, write the aggregate and a sample numbered
with its count, commit. `UnansweredCommit` is the commit whose answer is lost and which
`dbQuery` therefore runs again. Aggregates older than the samples table may be there at
the start, with any of the columns for average, least and greatest reading NULL: the code
treats them one by one (MetricsRepository.kt:168-171). `DeleteTransformer` is the cascade of
the store. Averages are exact fractions; rounding of doubles is left out.

A row that begins with an average and without one end of the range gets that end from its
first sample alone, while the average goes on counting the readings before it: with an
average of 10 of 100 readings and no range, a reading of 3 leaves least = greatest = 3 and an
average near 9.9. `AverageWithinRange` and `RangeInv` except such a row on that side
(`LowKept`, `HighKept`), and only on that side; whether such rows exist depends on versions of the
program that are not in the repository.

`MetricLog` is what ingestion promises: each bucket is a log that only grows at its
end, until the transformer goes. `MetricsIngest` implements it under the mapping that
lists a bucket's samples in the order of their numbers (`IngestIsALog`).

### ErrorRing: error reports

`create` statement by statement: lock, insert, select the rows beyond the newest
`Keep`, delete them, read the own row back (or fail, `OwnRowDeleted`). `created_at` is the clock of the server that took
the report (`Instant.now()`), as the column keeps it. Several servers may write to one database and
clocks may be set back, so `InsertError` picks any time; times may be equal or go down, and ties may be resolved either way.

### AuthSessions: accounts and refresh sessions

Each handler is a chain of transactions, and its state is where it is in that chain
and what it has read: registration checks the e-mail and inserts; login verifies and
opens a session; refresh looks the token up and renews; the administrator's writes
authenticate, look the account up, then write. A password is its version number.
Logout, the expiry of tokens, aborted handlers and server starts happen in between.

### MetricsHub: subscribers, queues, broadcasts

One entry of the hub's map. `AddQueue` and `RemoveQueue` are the two functions that run
inside `compute`, so each is one step. `broadcast` takes the set once
(`StartBroadcast`), then walks it with an iterator of `ConcurrentHashMap`, which has always
looked up its next queue (`ahead`, `NextQueue`) and may or may not see what is added meanwhile.
It tries one queue per step (`TrySend`); a failed `trySend` is followed by `remove` and by
`close` in two later steps (`RemoveFailed`, `CloseFailed`). Sets that have left the map still
exist for whoever walks them: `members` is indexed by set. The writer coroutine takes a
payload, sends it, or closes the socket; the `finally` block of the route takes the queue
out of the map (`Leave`) and closes it (`CloseOwn`).

`LiveFeed` is what the hub promises a client: a session that has joined is offered every
payload announced from then on, once each and, of payloads announced at the same time, in any order;
it gets all of them, or it falls behind and is cut before the announcement it has missed is over.
A session that has fallen behind may still get other payloads until then: its queue may have room
again before it is closed. `MetricsHub` implements the feed (`HubIsAFeed`); the mapping reads what is due to a
session off the broadcasts that have not come to its queue.

### MetricsAccess: the right to a socket, in time

One connection, a discrete clock, and the right that `allowed()` reads, which the
database may withdraw and grant at any tick. `Admit`, `AuthorizationCheck`, `FrameCheck`
are the three places where it is read.

### LiveReadings: the readings page

The page of `readings.js` in front of the two abstractions, one `MetricLog` and one
`LiveFeed` with a topic per transformer. `charts` says which of the two pages it is. State: the
selected transformer, the chains of list loads on their way (the transformers and errors, then the
meters and registers of the selection they were asked for, then the history), the history loads with their generation, the socket with its generation and
whether it has the token, `ready` or is waiting to reconnect, and the points on display.
`StoreReading` appends to the log and leaves an announcement to make; `Announce` makes
announcements in any order, `LoseAnnouncement` drops one (a handler cancelled after its
commit). `Merge` is `mergeMetricPoints`: by sample on the charts page, by the higher
count of a bucket on the aggregates page. `Settled` is what the page relies on when it calls its view
complete: connected, and the latest load began after `ready` and after the last tick of a register.

### HistoryPaging: pages of the history

`MetricsRepository.list` with `resolution=samples` as an operator over the rows (`Page`), and
the client's loop over its cursor (`FetchPage`). A point is a time and a sequence number,
which is 0 for an aggregate. Devices insert samples at any time, before and behind the
cursor, while the client is paging.

### ApiClient: tokens in the browser

The storage of each tab (`sess`, `access`) and of the browser (`local`), and per tab the page
with its running refresh, the requests it has under way (`calls`) and who waits for the refresh: the silent
one (`silent`), the live feed (`socket`, `connectWs` of `readings.js`) and calls that are `waiting`. A panel page opens with `/me`
(the call `Me`) on its way beside the requests of its own script (`Write`), so a call may meet a 401 after the
refused refresh of another has emptied the storage. What a promise's settlement sets off in one turn of the event loop is one
step: `RefreshGranted`, `RefreshNull` and `RefreshFails` also move everyone who waits.
`toPanel` and `toLogin` are pages that have set `location.href` and still get answers.
A second caller of the same kind waits with the first: silent refreshes are ten minutes apart and a refresh takes 15 seconds
at most, and of several `connectWs` only the latest opens a socket (`LiveReadings`).
A session stands for its refresh token; an access token is its serial number. `ClientInv` says how
calls, pages and refreshes proceed in order, and which session and tokens each of them can still meet.

### SetupPages: the pages of meters and of registers

The routes of meters and registers (`LookUp`, then one of `AnswerList`, `AddMeter`, ..., `UpdateRegister`)
with one page of `meters.js` or `registers.js`, and other clients, which also update registers. One page is
enough: pages in two tabs know each other only by what they write, and the others write
everything a page can. `call` holds the requests on their way, those of the page (`own`) and
the others'; an answer is used in the order of arrival. `LoadRegisters` is the end of each
chain of `registers.js`. A register has the two columns that `validateRegister` compares; `Merged` is
`existing.copy(...)`.

`newest` and `missed` are auxiliary: they say when a list may be behind for a reason outside the
page's own doing (others wrote, a request failed) or because an answer was overtaken. `registers.js`
and `meters.js` do not guard against that: the list of an earlier selection then stays on display
until the next load. No sentence of the repository promises otherwise; `readings.js` has such guards.

### Installations, TransformersPage, AdminPage: the pages with whole installations

`Installations` has what the three pages share: the rows of accounts, transformers and meters, the
routes they use as steps of one transaction, other clients, and the tasks of the open page. A task is a
chain of requests and its answers so far: a list, then the meters of every transformer in it
(`AnswerMeters`, `FailMeters`, in any order). Registers are counted like meters and left out.

`TransformersPage` is `transformers.js` and `dashboard.js`. The page of transformers puts a created one
into its list (`TransformerAdded`) and takes a deleted one out without asking again, so `listing` says how often
each transformer is in it; which answers the server gave before one that is
still to be handled is in `ahead`. The
selection is in the storage, where another tab may write as well (`SelectElsewhere`).

`AdminPage` is `admin.js`: a refresh is one task (`TransformersFetched`, `StoreMeters`, `UpdateStats`, `UsersFetched`);
the selected user's transformers, a transformer's keys and its points are tasks of their own. Deleting a
user or his transformers ends in a refresh, at the end of which the user may be selected again
(`ShowUser`). The administrator's own account, which cannot be deleted there, is not in `User`.

`missed` and `astray` are auxiliary, as above. What they except the code does do:
a list of transformers or points that arrives after another user or transformer was selected is shown
(`admin.js:416`, `509`); a count that fails is shown as 0 (`transformers.js:129`, `admin.js:223`), while the dashboard
shows a dash; two refreshes at a time fill one map (`admin.js:199`); a created transformer whose list has come
before it is listed twice (`transformers.js:164`).

### PanelPages: a tab of the panel

The composition: in a tab one of the pages of meters, registers (`SetupPages`), transformers, the dashboard
(`TransformersPage`) or the administrator's page (`AdminPage`) is open; the variables of the others stand still. It states the
properties of all of them, so that one run checks them. The pages are not composed in time: what one
leaves to the next is the database and the storage, from any of whose states each page starts.

## 3. What is checked

Configurations that say `CHECK_DEADLOCK FALSE` do so because their instances run out
of something on purpose: ids, payloads, reports, clock ticks, or the transformer itself.

| run | shows | bounds and why they are enough |
|---|---|---|
| `store_safety` | no orphans, deletes in scope, which circles of lock waits there can be, and the inductive invariant `StoreInv`, a part of which is that cascades are complete (`CascadeComplete`) | two requests: every one of the hazards is between a deleting and an inserting (or a second deleting) transaction, and each known circle closes with two. Two accounts and two transformers, so that a cascade can have foreign rows beside it and a list with more than one entry; two sessions, so that two openings cross. Every index range adjoins every other of its kind, so that every circle can occur. Error reports, which are inserted like readings, are left to `store_progress` and to the theorems |
| `store_progress` | every request ends, those in a circle of waits included | two requests, so circular waits of two, with a password change or between an insert and a cascade; one account, two transformers, a meter and a session; two attempts, so a retried transaction meets a fresh one |
| `ingest` | aggregates equal their samples; average within range; log refinement; the inductive invariant `IngestInv` | two writers on two buckets, a limit of three readings, so that an average is weighted twice; one of them may be from before the samples table, in a row with any of its nullable columns NULL, and two more come after it; a negative and a positive reading, two attempts |
| `errors` | the bound, which errors stay, and that the latest time is listed first | three reporters, two errors kept, six reports: the ring turns over three times; four times to choose from, so that times agree with the order of the reports, tie, or go down |
| `auth_accounts` | unique e-mails and sessions with accounts (`AccountsInv`), ended sessions stay ended, how the last administrator can be lost | two handlers, two accounts, two tokens, two e-mails (one the bootstrap account's), one password change per account |
| `hub` | no lost subscription, no leak; the feed refinement, so no silent gap and no repetition; a client that was cut off is disconnected | two sessions (one may empty the set the other joins), two broadcasts at once, against a queue of one, so that the second payload finds it full |
| `live` | the page and its socket belong to the selection; a quiet page shows every stored sample (charts page) or the latest aggregates (the other one); a history takes nothing away; the inductive invariant `ReadingsInv` | two transformers, so that every answer can be late for a selection; two readings in all, so that announcements, loads and points of one bucket come in any order; two loads and two connects, so a load overtakes another and a socket is replaced |
| `history` | pages enumerate everything once and end | times 0 to 5 in minutes of two ticks, so three minutes; four samples and pages of two, so that a page boundary falls between equal times and between aggregate and sample |
| `client` | no request is carried out twice; everyone who waits for a refresh is told (`ClientInv`); a refresh that comes late restores nothing; a session is not given up without a cause | two tabs, each of which may open, log in and log out; two sessions, one of which may be remembered from before; two access tokens: a login and a renewal, or two of either; two calls per tab, `/me` and another, so one can empty the storage under the other, beside the silent refresh and the live feed. One tab at a time has requests or a live feed under way (`MaxBusy`; silent refreshes and the automatic login's run in both): meanwhile the other may log in or out, renew its token and open the login page, and so change the storage both share |
| `pages` | the selected meter and the selected user are among those listed, and stored registers are valid rows below rows (`PagesInv`); quiet lists, counts and totals are current, or a dash; deletes remove no register that is not below the selection (of meters: a meter goes with its registers, and is covered through them); nothing of a former selection stays beside the administrator's | two requests or chains at a time: an answer and the one that overtakes it, or two updates. Two transformers, two meters and two users, so that every list can be late for a selection. One register, since rows of one meter do not interact, and, on pages that only count, one meter. While the administrator's page is open others only delete accounts: creations and other deletions make its lists no staler than that |
| `access` | access ends in time, frames need access | every token age, periods of 3 and a life of 10 ticks, so a check falls before, at and after expiry |

One run ends in a violation on purpose, where the code disagrees with a
sentence of the repository.

* `auth_old_password`: `LoginService.kt:34` opens the session in a later transaction than
  the one in which the password was verified. When the password is changed in between,
  a session opened with the old password exists and can be renewed, while
  `docs/REVIEW.md:52` says that renewal is invalidated by a password change.

`errors` covers a smaller one: `TransformerErrorRepository.kt:68` orders errors by `created_at` alone, which is the clock of
the server that took the report. With several servers, with a clock that was set back, or in a database made from
`database/baza v4 .sql`, where that column has whole seconds, an older error may be kept and a newer one dropped, and a report may
be refused because its own row has been pruned (`OwnRowDeleted`), while `DEVICE_CLIENT_GUIDE.txt:240` says the
newest five are kept. `KeepsTheLatestTimes` and `LatestListedFirst` are what remains true: both are about times as they are stored. Where the
times of the reports agree with their order, the sentence holds (`NewestKeptWhileClocksAgree`).

Every property of a passing run has a mutant: an operator next to the definition it
replaces, commented `Mutant:`, that is the code with a plausible mistake, under which TLC
finds the property violated.

### Fairness

* `InstallationStore`: strong fairness of a request's next statement, since InnoDB grants
  a free lock to those waiting for it in turn; weak fairness of failing a transaction in a
  wait cycle, since InnoDB detects deadlocks. No request is made to start.
* `MetricsHub`: weak fairness of a running broadcast, of the writer coroutine (its send
  has a timeout of 5 seconds; the `close()` at `MetricsWsRoute.kt:73` has none of its own, and is assumed to return) and of the `finally` block (`Leave`, `CloseOwn`): the dispatcher runs what is
  ready. Nothing forces a client to join, read or leave.
* `HistoryPaging`: weak fairness of the next request of a client that pages: it asks as
  soon as it has a page, and requests are answered or fail visibly. No insertion is forced.

The other modules state safety only, so no fairness is assumed there.

## 4. What is proved

Every theorem holds for all values of the constants: any number of requests, sessions, tabs,
transformers or readings. What a theorem assumes of the constants is the `ASSUME` of its module: bounds are
natural numbers, the values that stand for "none" (`None`, `NoRow`, `Null`, `Free`) are not among the ids, and where it is counted
the set of requests, of transformers or of meters is finite. Nothing else is assumed. An invariant is proved
from a stronger, inductive one, which the run of the component checks as well; action properties
and refinements are proved from the same one.

* `InstallationStore_proofs`: `TypeCorrect`, `StoreInvariant` (`[]StoreInv`), `NoOrphansTheorem`,
  `DeletesInScope` and `CirclesKnown`.

  `NoOrphans` alone is not inductive: nothing in it says why a parent is still there
  when a child is inserted, or that a cascade deletes all children. `StoreInv` adds:
  `LockedRowsExist` (a locked row exists, and its holder is a running transaction that
  asked for it), `ParentHeld` (a transaction that will write below a parent has the
  parent's lock) and `CascadeComplete` (a cascade has locked every meter of the transformers
  it is done with; a `deleteUser` has listed or locked every transformer of its user).
  An insert then finds its parent; a delete removes only rows whose lock it holds, and
  no other transaction that relies on such a row can be about to write.

  `CirclesKnown`: there are circles that involve no password change. Two session openings for neighbours in the index
  each wait for the gap that the other's DELETE has locked (`AuthRepository.kt:26`), and an insert below one transformer waits for the gap
  locked by a cascade (`TransformerRepository.kt:93`) that waits for this transformer. In any other circle nobody waits for a
  gap, since a cascade that holds one has to go on to further transformers, and nobody for sessions, since both
  would hold the account's row. So everyone waits for a cascade of
  the circle, and such a cascade holds the transformer it is waited for and itself waits for one with a greater id (`LocksInOrder`).
  In a finite set of requests one waits for the greatest. Devices and single deletions therefore never deadlock among themselves.
  The database resolves the known circles, and `dbQuery` runs the victim again.

* `MetricsIngest_proofs`: `IngestInvariant` (`[]IngestInv`), `AverageInRange`, `AggregatesExact` and `IngestRefinesLog`, the
  refinement `Spec => IngestIsALog`.

  The numbering of samples (`NumbersContiguous`, `NumbersUnique`) rests on
  `NothingReadIsStale`: the row lock makes writers exclusive between their read and
  their commit, so the count a writer increments is the count in the table.
  `LegacyCounted` is needed because the first number follows the readings an old aggregate
  counts. From this each commit appends one value to one bucket's log, and the other steps change no log.

  `RangeInv` keeps the two ends of the range apart (`NextAboveLeast`, `NextBelowGreatest`), since a row may have begun
  with one of them: the next average is a mean of one not below the least reading and of a reading not below it.

  That a row is exact is an invariant of its own (`ExactInv`), with what a row without samples says (`LegacyStands`): its
  first sample is added to the row it began with. The average needs the sum of the samples, which the model takes
  from the library's fold: the sum of a set is that of an element the fold picks and of the rest.
  `SumOfMore` says that a new sample adds its value whichever elements are picked. The induction behind it
  goes by contradiction, since a set of finite sets has a least one (`LeastSubset`): the least finite set for which
  the fold would not have a value (`SumsExist`), or would depend on the element taken out first (`SumTakesAny`), does not exist.

* `HistoryPaging_proofs`: `PagingInvariant` (`[]PagingInv`) and `HistoryComplete`.

  A page is the `Limit` latest of two sets of latest points. In a total order (`Precedes`) the latest points of a finite set
  are those that nothing left out follows, so a full page has every point before the cursor that is not before
  its oldest one, which becomes the next cursor, and a page that is not full has all of them. `StillToCome` follows
  what was there at the beginning: it has come, or it is before the cursor and still stored. Nothing comes twice since what the
  client has is not before the cursor (`BehindTheCursor`). A minute does not come in both forms: a sample that has come is
  still stored and hides the aggregate from later pages, and the samples of a minute whose aggregate has come are not
  before it, not even in the first tick of the minute, where only their numbers are greater.

  The module also has the theorems of `ErrorRing`: `RingInvariant` (`[]RingInv`), `LatestTimesKept`, `NewestKept` and
  `LatestFirst`, for any size of the ring and whatever the clocks show.

  That at most `Keep` errors are stored needs `ReportPending`: what a transaction has selected as excess is still in
  excess when it commits, because of the lock (`LockProtects`). Which errors stay rests on
  `RoomIsUsed` (as many are stored as there is room for) and on the order by stored times; that ids are given in the order of
  insertion (`AcceptedNumbered`) gives the newest while the clocks agree.

* `AuthSessions_proofs`: `AccountsInvariant` (`[]AccountsInv`), `RevokedRefused` and `LastAdminLost`.

  Each handler is a chain of transactions, so `RequestsInScope` and `WritesSpareTheCaller` say what it may
  still rely on of what it read in an earlier one; `RevokedStayEnded` with `NewIdsAreUnused` says that the id
  of an ended session is never given to another.

  The module also has the theorems of `MetricsAccess`: `AccessInvariant` (`[]AccessInv`) and `FramesGuarded`, for every
  period, token life and deadline. That access ends in time needs `CheckComesInTime`: the next wake-up of the job
  is never after the expiry, nor more than a period after the right was withdrawn.

* `MetricsHub_proofs`: `HubInvariant` (`[]HubInv`), `NoLeak` and `HubRefinesFeed`, the refinement
  `Spec => HubIsAFeed`.

  `JoinedIsSubscribed` needs `SetsAreOfTheMap`: an empty set leaves the map in the step that empties it, and a
  broadcast may still be walking a set that has left. For the refinement `NobodyIsMissed` says that
  an iterator does not end before it has passed the sessions it owes its payload to, and `NothingComesTwice`
  that what a session was given the broadcast has passed. Each step of the hub then is one of the feed:
  for instance a `trySend` that succeeds is `Offer`, one that fails is `FallBehind`, and closing the failed
  queue is `Cut`, which comes before the end of the announcement.

* `LiveReadings_proofs`: `ReadingsInvariant` (`[]ReadingsInv`), `OnlyTheSelection`, `QuietIsCurrent` and `NothingTakenAway`.

  `QuietViewIsComplete` speaks of quiet pages only and says nothing of how they became so. `NothingIsMissed` follows
  each announced reading through a settled page: it is lost, due or in the channel, or shown by the view or, while a
  load is on its way, by its answer merged with what came live. `ConnectsInOrder` gives the reason why announcements
  reach the socket (it is subscribed to the selection before `ready`). `AnswerKeepsView` is why
  merging takes nothing away: a point that is shown is in the answer to the latest load or came live. It
  is not obvious on the aggregates page, where a live point may displace another that the answer does not have.
  The lemmas on `Merge` and `Show` carry these arguments for both pages at once.

* `ApiClient_proofs`: `ClientInvariant` (`[]ClientInv`), `NoReplay`, `SignedOutStaysEmpty`, `TokensMatch` and `SessionsAreKept`, for
  any number of tabs and sessions.

  `CallsInOrder` and `RefreshesInOrder` say how far a call and a refresh have come and which token they
  carry, `PagesInOrder` what a page that is leaving may still do, and that somebody waits for each of its refreshes. `SignedOutMeansEmpty` and
  `SessionsAreKept` rest on `LostWithTheSession`: in a browser with one tab, who waits for a refresh waits for that of the stored
  token or of none, and a call whose access token is gone lost it together with the refresh token, so that its 401 ends nothing.
  With several tabs another one may have remembered a session by then, which is why `GivenUpForCause` names that case.

* `PanelPages_proofs`: `PagesInvariant` (`[]PagesInv`), `QuietListsCurrent`, `TransformersCurrent`, `TotalsCurrent`,
  `DetailOfSelection` and `DeletesBelowSelection`, for any number of requests on their way, rows, users and other clients.

  The page that is open steps alone, and `PagesInv` is the invariant of each page while it is open, so each has its own proof.
  They have the same form. A screen is right when the page waits for nothing; the invariant says of
  every answer that is on its way what the screen will be when it comes, provided nothing was `missed`.

  Meters and registers: the last list the page has asked for is that of the selection (`LastListIsOfSelection`) and
  it is shown or comes (`ListIsShownOrComes`); a route that has found its row has it still, or the row is gone for good,
  since ids are given once (`FoundOrGone`).

  Transformers: the answers that are pending are in an order (`PendingInOrder`). The last list among them, or else the one on
  display, becomes what is stored by the edits that come after it (`ListsBecomeStored`, with
  `Edited`), so the page may add and remove by itself; it adds no transformer twice because it has not heard of one
  before the answer (`AddedIsUnknown`). The counts are those of the last counting, which counts what is listed (`CountsBecomeStored`).
  On the dashboard there is one task, its list is what is stored, and what failed is remembered (`StatsBecomeStored`).

  Administrator: unless something was missed one refresh runs, whose parts are right so far, or none and the totals are
  (`RefreshBecomesStored`). Unless a selection was overtaken (`astray`), the detail is that of the selection, or is being
  loaded, or a refresh is on its way that ends in selecting again (`SelectionIsLoaded`). Accounts never
  come back under an id that was deleted, so the user a refresh selects again is the one that was selected.

Model-checked only: liveness, which are `RequestsFinish`, `CutOffIsDisconnected` and `PagingEnds`. Fairness and `ENABLED` are out
of the prover's reach. What these properties need of safety is proved: which circles of waits there are
(`CirclesKnown`), no session that has left and is still subscribed (`NoLeak`), a cursor that moves with each full page (`PagingInv`).

## 5. Not modelled

* Validation and formatting of bodies, DTO mapping, pages and rendering: no state.
* `static/panel.js` and `static/script.js`: no page loads them.
* Cryptography: a token or a password is an identity; hashing is injective.
* Rounding of averages, and the width of `double`.
* Process crashes are covered as far as they matter to the database: a transaction
  may end at every step without effect (`GiveUp`, `Fail`, `Abort`), and servers start
  again (`ServerStart`). A crashed server's hub is simply gone with its sockets.
* The readings page's cache of pages (`pagehide`, `pageshow`), its limit of points and its
  rendering of errors. An answer that fails late (`loadTransformerErrors`) may empty the error list of a newer
  selection; the model has no error list.
* Several servers on one database: a broadcast reaches the subscribers of its own process
  only, as `docs/REVIEW.md:52` says.
* Of InnoDB's locks: the gap that a FOR UPDATE leaves in the primary key when it finds no row
  (`SkipMissingTransformer`), which an insert of a transformer may wait for (it closes no circle but with a password change,
  as who inserts a transformer holds only its account's row); those of
  unique keys and of single statements (`deleteMeter`, the pruning of errors), which end with the transaction that holds the parent; and
  what the optimizer does if it takes another index than that of the parent's id, or none.
* `from`, `to` and ascending order of the history query, and `listKeys`.
* PUT of transformers and meters. Like PUT of registers (`UpdateRegister`) it writes back every column
  of the row it read, so the later of two concurrent updates undoes the other's fields, and it answers 200
  also when the row has gone meanwhile; no panel page uses it.
* On the page of meters: selecting a meter, which writes to the browser's storage for other pages
  (`registers.js` starts with any stored meter, so also with one of another transformer), and transformers that
  come and go while the pages of meters or registers are open.
* A DELETE that timed out in the page and commits later. On the administrator's page a request
  that fails (`RefreshFails`, `FailMeters`) has no effect any more; the deletions of accounts by others are the only writes that come late there.
* On the administrator's page: the search, which hides rows of what is loaded, and the form for passwords and
  roles, whose requests are in `AuthSessions`. A refresh that ends in `selectUser` also writes the user into that form (`admin.js:239`).
* Requests that the script of a page sends after `requireAuth` has sent the page to the login (`panel-common.js:28`): there was no refresh token when that page
  opened, so a 401 finds none to renew with, unless another tab has remembered one in that moment.
* `profile.js` and `ui.js`: they show what is in the storage and open and close menus; nothing is awaited.

With two tabs the program gives up sessions that are in order. When the remembered token is
replaced by a login in another tab, the silent refresh of the first tab resolves to null
(`api.js:38`) and `panel-common.js:113` logs out, which sends the new token to `/auth/logout`. A page that has logged out
and still waits for its `/me` is refused and logs out again (`panel-common.js:141`), by then with whatever token
another tab has remembered. It need not have logged out: the refused refresh of a request of its own script
empties the storage as well (`api.js:40`), and `/me`, sent beside it, meets its 401 afterwards. These steps are in `ApiClient` (`HandleLogout`; the arrival of the request is
`EndSession`). `GivenUpForCause` is stated for any number of tabs and names them among the causes: it says that
nothing else takes a session away, above all no refresh that failed for a moment. `SignedOutMeansEmpty` is stated for
a browser with one tab open.

## 6. Plan

Next modules: several servers in `LiveReadings`; pages in two tabs that share the stored selection, in a
composition of `SetupPages` and `TransformersPage` over one set of rows; PUT of transformers and meters.

Next proofs: with the modules above, that several servers refine a `LiveFeed` of which each client sees the part of its own
server; and that a quiet pair of pages in two tabs agrees.
