--------------------------- MODULE Installations ---------------------------
(***************************************************************************)
(* What the pages that list whole installations have in common: the rows   *)
(* of accounts, transformers and meters, the requests of the open page,    *)
(* and other clients, whose writes are transactions of one step here.      *)
(*                                                                         *)
(* All three pages count: they ask for a list and then for the meters of   *)
(* every transformer in it.  Such a chain of requests is a task.  The      *)
(* registers of a meter are asked for and stored like the meters of a      *)
(* transformer and are left out.                                           *)
(***************************************************************************)
EXTENDS Naturals, FiniteSets

CONSTANTS
  User,     \* but for the administrator who has the page open: he cannot be deleted
  Transformer, MeterId,
  Caller,   \* bound of the model: tasks at a time
  None      \* none of these

VARIABLES
  page,       \* the page that is open
  accounts,   \* the users there are
  holder,     \* transformers.user_id, None where there is no row
  owner,      \* meter.transformer_id, likewise
  used,       \* ids that have been given
  task,       \* of each caller, what the page waits for
  summary,    \* the totals that are shown, None for a dash
  missed      \* auxiliary: the page may be behind for another reason than its own steps

rows == <<accounts, holder, owner, used>>

\* What the page asks for first, and what goes on from there.
Reading == {"list", "users", "detail", "keys", "metrics"}
Writing == {"add", "remove", "wipe", "expel"}
Counting == {"counts", "meters"}

Total == 0 .. Cardinality(Transformer \cup MeterId)
Summary == [transformers : Total, meters : Total \cup {None}]

Task == [kind : {"none"} \cup Reading \cup Writing \cup Counting,
         stage : {"sent", "answered", "refused"},
         user : User \cup {None},
         transformer : Transformer \cup {None},
         list : SUBSET (User \cup Transformer),
         asked : SUBSET Transformer,   \* whose meters have not been answered yet
         failed : SUBSET Transformer,  \* those that could not be had
         got : [Transformer -> (SUBSET MeterId) \cup {None}]]

NoTask == [kind |-> "none", stage |-> "sent", user |-> None, transformer |-> None,
           list |-> {}, asked |-> {}, failed |-> {}, got |-> [t \in Transformer |-> None]]

RowsOK ==
  /\ accounts \subseteq User
  /\ holder \in [Transformer -> accounts \cup {None}]
  /\ owner \in [MeterId -> {t \in Transformer : holder[t] # None} \cup {None}]
  /\ task \in [Caller -> Task]
  /\ summary \in Summary \cup {None} /\ missed \in BOOLEAN

Existing == {t \in Transformer : holder[t] # None}
MetersAt(t) == {m \in MeterId : owner[m] = t}

(***************************************************************************)
(* Requests.                                                               *)
(***************************************************************************)

Do(c, q) == task' = [task EXCEPT ![c] = q]
Done(c) == Do(c, NoTask)
Ask(kind) == [NoTask EXCEPT !.kind = kind]
AskAbout(kind, u, t) == [Ask(kind) EXCEPT !.user = u, !.transformer = t]

Idle(c) == task[c].kind = "none"
Sent(c, kind) == task[c].kind = kind /\ task[c].stage = "sent"
Answered(c, kind) == task[c].kind = kind /\ task[c].stage = "answered"

\* The row that the path of q names is there.
Named(q) ==
  CASE q.kind \in {"keys", "metrics", "remove"} -> holder[q.transformer] # None
    [] q.kind \in {"wipe", "expel"} -> q.user \in accounts
    [] OTHER -> TRUE

Result(q) ==
  CASE q.kind = "list" -> Existing
    [] q.kind = "users" -> accounts
    [] q.kind = "detail" -> {t \in Transformer : holder[t] = q.user}
    [] OTHER -> {}

AnswerRead(c) ==
  /\ task[c].kind \in Reading /\ task[c].stage = "sent" /\ Named(task[c])
  /\ Do(c, [task[c] EXCEPT !.stage = "answered", !.list = Result(task[c])])
  /\ UNCHANGED <<rows, summary>>

RefuseNamed(c) ==
  /\ task[c].kind \in Reading \cup Writing /\ task[c].stage = "sent" /\ ~Named(task[c])
  /\ Do(c, [task[c] EXCEPT !.stage = "refused"])
  /\ UNCHANGED <<rows, summary>>

\* With the meters below them, as the cascade does.
DropTransformers(ts) ==
  /\ holder' = [t \in Transformer |-> IF t \in ts THEN None ELSE holder[t]]
  /\ owner' = [m \in MeterId |-> IF owner[m] \in ts THEN None ELSE owner[m]]
  /\ UNCHANGED used

\* The four writes, of which the first gives an id that was never used: the steps of the
\* server, which a page or another client has asked for.
Create(t, u) ==
  /\ u \in accounts /\ t \notin used
  /\ holder' = [holder EXCEPT ![t] = u]
  /\ used' = used \cup {t}
  /\ UNCHANGED <<accounts, owner>>

Delete(t) == holder[t] # None /\ DropTransformers({t}) /\ UNCHANGED accounts

DeleteOf(u) ==
  /\ u \in accounts
  /\ DropTransformers({t \in Transformer : holder[t] = u})
  /\ UNCHANGED accounts

DeleteAccount(u) ==
  /\ u \in accounts
  /\ DropTransformers({t \in Transformer : holder[t] = u})
  /\ accounts' = accounts \ {u}

\* GET /transformers/{t}/meters of a counting task is carried out.
AnswerMeters(c, t) ==
  /\ task[c].kind \in Counting /\ t \in task[c].asked /\ holder[t] # None
  /\ Do(c, [task[c] EXCEPT !.asked = @ \ {t},
                           !.got[t] = IF task[c].kind = "meters" THEN @ ELSE MetersAt(t)])
  /\ UNCHANGED <<rows, summary, missed>>

\* It fails for a moment, or the transformer is gone.  Two of the pages then count none,
\* which is right only if it is gone.
FailMeters(c, t) ==
  /\ task[c].kind \in Counting /\ t \in task[c].asked
  /\ Do(c, IF task[c].kind = "meters"
           THEN [task[c] EXCEPT !.asked = @ \ {t}]
           ELSE [task[c] EXCEPT !.asked = @ \ {t}, !.failed = @ \cup {t}, !.got[t] = {}])
  /\ missed' = (missed \/ (holder[t] # None /\ page # "dashboard"))
  /\ UNCHANGED <<rows, summary>>

(***************************************************************************)
(* Other clients.  What they write the page learns by asking again.        *)
(***************************************************************************)

DeleteAccountElsewhere ==
  /\ \E u \in User : DeleteAccount(u)
  /\ missed' = TRUE
  /\ UNCHANGED <<task, summary>>

WriteElsewhere ==
  /\ \/ \E t \in Transformer : Delete(t) \/ \E u \in User : Create(t, u)
     \/ \E m \in MeterId \ used, t \in Existing :
          /\ owner' = [owner EXCEPT ![m] = t] /\ used' = used \cup {m}
          /\ UNCHANGED <<accounts, holder>>
  /\ missed' = TRUE
  /\ UNCHANGED <<task, summary>>

RowsInit ==
  /\ accounts \in SUBSET User
  /\ holder \in [Transformer -> accounts \cup {None}]
  /\ owner \in [MeterId -> Existing \cup {None}]
  /\ used = Existing \cup {m \in MeterId : owner[m] # None}
  /\ summary = None /\ missed = TRUE
=============================================================================
