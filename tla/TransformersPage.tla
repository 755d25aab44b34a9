-------------------------- MODULE TransformersPage --------------------------
(***************************************************************************)
(* transformers.js and dashboard.js.  The page of transformers edits its   *)
(* list itself when a transformer has been added or removed, while answers *)
(* with whole lists may be on their way; its counts of meters come after   *)
(* each change, all at once.  The selection is in the storage, where other *)
(* tabs write as well.                                                     *)
(***************************************************************************)
EXTENDS Installations

VARIABLES
  selected,   \* bt_transformer_selected in the storage
  listing,    \* how often each transformer is in the list
  counts,     \* meterCounts, None where there is no count
  newest,     \* auxiliary: the counting that was begun last, while it runs
  ahead       \* auxiliary: for each answer the page has yet to handle, those given before it

page_ == <<selected, listing, counts, newest, ahead>>
vars == <<page, rows, task, summary, missed, page_>>

TypeOK ==
  /\ RowsOK
  /\ selected \in Transformer \cup {None}
  /\ listing \in [Transformer -> 0 .. 2]
  /\ counts \in [Transformer -> 0 .. Cardinality(MeterId) \cup {None}]
  /\ newest \in Caller \cup {None} /\ ahead \in [Caller -> SUBSET Caller]

\* renderTransformers: what there are rows with buttons for.
Listed == {t \in Transformer : listing[t] > 0}

(***************************************************************************)
(* Answers.                                                                *)
(***************************************************************************)

\* Those the page has yet to handle.
Pending == {c \in Caller : task[c].kind \in {"list", "add", "remove"} /\ task[c].stage = "answered"}

\* For the auxiliary variable: c is answered, after all that are pending, and is so no longer.
IsLast(c) == ahead' = [ahead EXCEPT ![c] = Pending]
IsOver(c) == ahead' = [d \in Caller |-> IF d = c THEN {} ELSE ahead[d] \ {c}]

\* A list shows everything that was written before.
AnswerList(c) ==
  /\ task[c].kind = "list" /\ AnswerRead(c)
  /\ IsLast(c)
  /\ missed' = FALSE
  /\ UNCHANGED <<page, selected, listing, counts, newest>>

AnswerEdit(c) ==
  LET q == task[c] IN
  /\ \/ Sent(c, "add") /\ \E t \in Transformer :
          Create(t, q.user) /\ Do(c, [q EXCEPT !.stage = "answered", !.transformer = t])
     \/ /\ Sent(c, "remove") /\ Delete(q.transformer)
        /\ Do(c, [q EXCEPT !.stage = "answered"])
  /\ UNCHANGED summary
  /\ IsLast(c)
  /\ UNCHANGED <<page, missed, selected, listing, counts, newest>>

Refuse(c) ==
  /\ RefuseNamed(c)
  /\ UNCHANGED <<page, missed, page_>>

\* The page handles c's answer; an answer given before may not be behind it.
Handled(c) ==
  /\ IsOver(c)
  /\ missed' = (missed \/ ahead[c] # {})

\* An error or a timeout; the server may have carried the request out, or will.
Fails(c) ==
  /\ task[c].kind \in {"list", "add", "remove"}
  /\ Done(c)
  /\ IsOver(c)
  /\ missed' = (missed \/ task[c].stage # "refused")
  /\ UNCHANGED <<page, rows, summary, selected, listing, counts, newest>>

(***************************************************************************)
(* transformers.js.                                                        *)
(***************************************************************************)

At(p, c) == page = p /\ Idle(c)

\* loadMeterCounts, when ts are in the list.
LoadMeterCounts(c, ts) ==
  /\ Do(c, [Ask("counts") EXCEPT !.list = ts, !.asked = ts])
  /\ newest' = c

\* The page opens, or its button for refreshing.
FetchTransformers(c) ==
  /\ At("transformers", c)
  /\ Do(c, Ask("list"))
  /\ UNCHANGED <<page, rows, summary, missed, page_>>

\* Mutant: a selection that is not in the list stays.
TransformersFetchedOnly(c) ==
  /\ page = "transformers" /\ Answered(c, "list")
  /\ Handled(c)
  /\ listing' = [t \in Transformer |-> IF t \in task[c].list THEN 1 ELSE 0]
  /\ LoadMeterCounts(c, task[c].list)
  /\ UNCHANGED <<page, rows, summary, selected, counts>>

\* With ensureSelectedVisible.
TransformersFetched(c) ==
  /\ page = "transformers" /\ Answered(c, "list")
  /\ Handled(c)
  /\ listing' = [t \in Transformer |-> IF t \in task[c].list THEN 1 ELSE 0]
  /\ selected' = IF selected \in task[c].list THEN selected ELSE None
  /\ LoadMeterCounts(c, task[c].list)
  /\ UNCHANGED <<page, rows, summary, counts>>

AddTransformer(u, c) ==
  /\ At("transformers", c) /\ u \in accounts
  /\ Do(c, AskAbout("add", u, None))
  /\ UNCHANGED <<page, rows, summary, missed, page_>>

\* unshift does not look whether a list that came meanwhile has it already.
TransformerAdded(c) ==
  LET t == task[c].transformer IN
  /\ Answered(c, "add")
  /\ Handled(c)
  /\ listing' = [listing EXCEPT ![t] = @ + 1]
  /\ selected' = t
  /\ LoadMeterCounts(c, Listed \cup {t})
  /\ UNCHANGED <<page, rows, summary, counts>>

RemoveTransformer(t, c) ==
  /\ At("transformers", c) /\ t \in Listed
  /\ Do(c, AskAbout("remove", None, t))
  /\ UNCHANGED <<page, rows, summary, missed, page_>>

TransformerRemoved(c) ==
  LET t == task[c].transformer IN
  /\ Answered(c, "remove")
  /\ Handled(c)
  /\ listing' = [listing EXCEPT ![t] = 0]
  /\ selected' = IF selected = t THEN None ELSE selected
  /\ LoadMeterCounts(c, Listed \ {t})
  /\ UNCHANGED <<page, rows, summary, counts>>

SelectTransformer(t) ==
  /\ page = "transformers" /\ t \in Listed
  /\ selected' = t
  /\ UNCHANGED <<page, rows, task, summary, missed, listing, counts, newest, ahead>>

\* Another tab, which may show a transformer that is gone.
SelectElsewhere(t) ==
  /\ page = "transformers"
  /\ selected' = t
  /\ missed' = (missed \/ t \notin Existing)
  /\ UNCHANGED <<page, rows, task, summary, listing, counts, newest, ahead>>

\* All counts replace all that were there, also those that were begun later.
CountsLoaded(c) ==
  LET q == task[c] IN
  /\ page = "transformers" /\ q.kind = "counts" /\ q.asked = {}
  /\ counts' = [t \in Transformer |-> IF t \in q.list THEN Cardinality(q.got[t]) ELSE None]
  /\ newest' = IF newest = c THEN None ELSE newest
  /\ missed' = (missed \/ newest = None)
  /\ Done(c)
  /\ UNCHANGED <<page, rows, summary, selected, listing, ahead>>

(***************************************************************************)
(* dashboard.js: once for each opening of the page.                        *)
(***************************************************************************)

UpdateStats(c) ==
  /\ At("dashboard", c) /\ \A d \in Caller : Idle(d)
  /\ summary' = None
  /\ Do(c, Ask("list"))
  /\ UNCHANGED <<page, rows, missed, page_>>

\* The meters are asked for one after the other; here in any order.
CountInstallations(c) ==
  /\ page = "dashboard" /\ Answered(c, "list")
  /\ Do(c, [Ask("counts") EXCEPT !.list = task[c].list, !.asked = task[c].list])
  /\ Handled(c)
  /\ UNCHANGED <<page, rows, summary, selected, listing, counts, newest>>

\* Mutant: what could not be counted counts as none.
StatsShownComplete(c) ==
  LET q == task[c] IN
  /\ page = "dashboard" /\ q.kind = "counts" /\ q.asked = {}
  /\ summary' = [transformers |-> Cardinality(q.list),
                 meters |-> Cardinality(UNION {q.got[t] : t \in q.list})]
  /\ Done(c)
  /\ UNCHANGED <<page, rows, missed, page_>>

\* incomplete: a dash for the meters.
StatsShown(c) ==
  LET q == task[c] IN
  /\ page = "dashboard" /\ q.kind = "counts" /\ q.asked = {}
  /\ summary' = [transformers |-> Cardinality(q.list),
                 meters |-> IF q.failed # {} THEN None
                            ELSE Cardinality(UNION {q.got[t] : t \in q.list})]
  /\ Done(c)
  /\ UNCHANGED <<page, rows, missed, page_>>

Init ==
  /\ page \in {"transformers", "dashboard"}
  /\ RowsInit
  /\ task = [c \in Caller |-> NoTask]
  /\ \E u \in User : accounts = {u}   \* whoever is signed in; all rows are his
  /\ selected \in IF page = "transformers" THEN Transformer \cup {None} ELSE {None}
  /\ listing = [t \in Transformer |-> 0]
  /\ counts = [t \in Transformer |-> None]
  /\ newest = None /\ ahead = [c \in Caller |-> {}]

Page(c) ==
  \/ FetchTransformers(c) \/ TransformersFetched(c)
  \/ \E u \in User : AddTransformer(u, c)
  \/ TransformerAdded(c) \/ TransformerRemoved(c) \/ CountsLoaded(c)
  \/ \E t \in Transformer : RemoveTransformer(t, c)
  \/ UpdateStats(c) \/ CountInstallations(c) \/ StatsShown(c)

Server(c) ==
  \/ AnswerList(c) \/ AnswerEdit(c) \/ Refuse(c) \/ Fails(c)
  \/ \E t \in Transformer : (AnswerMeters(c, t) \/ FailMeters(c, t)) /\ UNCHANGED <<page, page_>>

Next ==
  \/ \E c \in Caller : Page(c) \/ Server(c)
  \/ \E t \in Transformer : SelectTransformer(t) \/ SelectElsewhere(t)
  \/ (WriteElsewhere \/ DeleteAccountElsewhere) /\ UNCHANGED <<page, page_>>

Spec == Init /\ [][Next]_vars

(***************************************************************************)
(* Properties.                                                             *)
(***************************************************************************)

Quiet == \A c \in Caller : Idle(c)

\* A task has what its requests need; the dashboard runs one, with dashes for totals, and
\* edits nothing.
TasksInOrder ==
  /\ \A c \in Caller :
       LET q == task[c] IN
       /\ q.kind \in {"none", "list", "add", "remove", "counts"}
       /\ q.kind = "add" => q.user \in User
       /\ q.kind = "remove" \/ Answered(c, "add") => q.transformer \in Transformer \cap used
       /\ q.list \subseteq Transformer \cap used
       /\ q.kind = "counts" =>
            /\ q.stage = "sent" /\ q.asked \subseteq q.list
            /\ \A t \in q.list \ q.asked : q.got[t] \in SUBSET MeterId
  /\ page = "dashboard" =>
       /\ \A c \in Caller : task[c].kind \notin {"add", "remove"}
       /\ \A c \in Caller : Idle(c) \/ summary = None
       /\ \A c, d \in Caller : Idle(c) \/ Idle(d) \/ c = d

\* An id is given once: what is stored or listed has one, and a transformer that was added
\* is in the list at most once before its answer is handled.
IdsGivenOnce ==
  /\ Existing \cup Listed \subseteq used
  /\ \A c \in Caller : Answered(c, "add") =>
       /\ listing[task[c].transformer] <= 1
       /\ \A d \in Caller : Answered(d, "add") /\ task[d].transformer = task[c].transformer => d = c

\* The pending answers are in an order.
PendingInOrder ==
  \A c \in Caller :
    /\ ahead[c] \subseteq Pending \ {c}
    /\ c \notin Pending => ahead[c] = {}
    /\ \A d \in ahead[c] : ahead[d] \subseteq ahead[c]
    /\ \A d \in Pending \ {c} : c \in Pending => (c \in ahead[d] <=> d \notin ahead[c])

\* What a list becomes by edits that the server has carried out.
Edited(ts, edits) ==
  {t \in Transformer :
     \/ \E c \in edits : Answered(c, "add") /\ task[c].transformer = t
     \/ t \in ts /\ \A c \in edits : ~(Answered(c, "remove") /\ task[c].transformer = t)}

Behind(c) == {d \in Pending : c \in ahead[d]}
PendingLists == {c \in Pending : task[c].kind = "list"}

\* Until its answer is handled, the page knows nothing of a transformer it has added, unless
\* from a list that comes after it.
AddedIsUnknown ==
  ~missed =>
    \A c \in Caller :
      LET t == task[c].transformer IN
      Answered(c, "add") /\ Behind(c) \cap PendingLists = {} =>
        /\ listing[t] = 0
        /\ \A d \in Caller : ~(task[d].kind = "remove" /\ task[d].transformer = t)
        /\ \A d \in PendingLists : t \notin task[d].list

\* The last list that is pending, or else the one that is shown, becomes what is stored.
ListsBecomeStored ==
  ~missed =>
    /\ \A c \in PendingLists :
         Behind(c) \cap PendingLists = {} => Existing = Edited(task[c].list, Behind(c))
    /\ PendingLists = {} =>
         /\ Existing = Edited(Listed, Pending)
         /\ \A t \in Transformer : listing[t] <= 1

\* With a list that becomes what is stored, so does the selection.
SelectionBecomesStored ==
  ~missed /\ PendingLists = {} =>
    \/ selected \in Existing \cup {None}
    \/ \E c \in Caller : Answered(c, "remove") /\ task[c].transformer = selected

\* The last counting counts what is listed.
CountsBecomeStored ==
  /\ newest # None => task[newest].kind = "counts"
  /\ ~missed /\ PendingLists = {} /\ newest # None =>
       \A t \in task[newest].list \ task[newest].asked :
         t \in Existing => task[newest].got[t] = MetersAt(t)
  /\ ~missed /\ Pending = {} =>
       IF newest = None THEN \A t \in Existing : counts[t] = Cardinality(MetersAt(t))
       ELSE task[newest].list = Listed

\* The dashboard has found what is stored.
StatsBecomeStored ==
  page = "dashboard" /\ ~missed =>
    \A c \in Caller :
      LET q == task[c] IN
      /\ Answered(c, "list") \/ q.kind = "counts" => q.list = Existing
      /\ q.kind = "counts" =>
           \A t \in q.list \ q.asked : t \in q.failed \/ q.got[t] = MetersAt(t)

\* A page of transformers that waits for nothing has every transformer in its list once,
\* with the right count, and only one of them can be selected, although it edits the
\* list itself: unless others wrote meanwhile, a request failed, or the page has handled
\* answers in another order than the server has given them.
TransformersAreCurrent ==
  page = "transformers" /\ Quiet /\ ~missed =>
    /\ \A t \in Transformer : listing[t] = IF t \in Existing THEN 1 ELSE 0
    /\ \A t \in Existing : counts[t] = Cardinality(MetersAt(t))
    /\ selected \in Existing \cup {None}

\* The dashboard shows totals of what is stored, or a dash if a part is unknown.
TotalsAreComplete ==
  page = "dashboard" /\ Quiet /\ ~missed /\ summary # None =>
    /\ summary.transformers = Cardinality(Existing)
    /\ summary.meters \in {None, Cardinality(UNION {MetersAt(t) : t \in Existing})}

\* The inductive invariant.
OverviewInv ==
  /\ TypeOK /\ TasksInOrder /\ IdsGivenOnce /\ PendingInOrder
  /\ page = "transformers" =>
       AddedIsUnknown /\ ListsBecomeStored /\ SelectionBecomesStored /\ CountsBecomeStored
  /\ StatsBecomeStored /\ TotalsAreComplete
=============================================================================
