----------------------------- MODULE SetupPages -----------------------------
(***************************************************************************)
(* meters.js or registers.js, open in a tab, with the routes of MeterRoute *)
(* that they use, and other clients of these routes.  The other page, in   *)
(* another tab, is such a client: it knows this one by what it writes.     *)
(* A handler looks the rows of its path up, each in a transaction, and     *)
(* then reads or writes in another one; looking up is one step here, since *)
(* rows can only vanish in between.                                        *)
(*                                                                         *)
(* The pages show the answers in the order they come in, whatever is       *)
(* selected by then.  A page's promise chain goes on in the caller it has  *)
(* begun in.  Transformers stay; meters have no columns here, registers    *)
(* have the two that are checked against each other.                       *)
(***************************************************************************)
EXTENDS Naturals, FiniteSets

CONSTANTS
  Transformer, MeterId, RegisterId,
  Caller,   \* bound of the model: requests at a time
  None

VARIABLES
  owner,     \* meter.transformer_id, None where there is no row
  meterOf,   \* meter_register.meter_id, likewise
  columns,   \* data_type and length of a register, likewise
  used,      \* auto-increment: ids that have been given
  page,      \* the page that is open
  selected,  \* its transformer
  meters,    \* the meters it has got
  meter,     \* of registers.js: the selected meter
  registers, \* of registers.js: the registers it shows
  call,      \* of each caller, its request
  newest,    \* auxiliary: the caller of the page's last request for its list
  missed     \* auxiliary: the list may be behind for another reason than the page's steps

rows == <<owner, meterOf, columns, used>>
shown == <<page, selected, meters, meter, registers>>
auxiliary == <<newest, missed>>
vars == <<rows, shown, call, auxiliary>>

Listing == {"listMeters", "listRegisters"}
Writing == {"addMeter", "removeMeter", "addRegister", "removeRegister", "updateRegister"}

Columns == [dataType : {"INT16", "INT32"}, length : {1, 2}]

ASSUME SetupAssumption ==
  None \notin Transformer \cup MeterId \cup RegisterId \cup Caller \cup Columns

\* The columns a PUT may name; the others keep the values that were read.
Form == Columns \cup [dataType : {"INT16", "INT32"}] \cup [length : {1, 2}]

Call == [kind : {"none"} \cup Listing \cup Writing,
         own : BOOLEAN,   \* whether the page waits for it
         stage : {"sent", "found", "answered", "refused"},
         transformer : Transformer \cup {None},
         meter : MeterId \cup {None},
         register : RegisterId \cup {None},
         columns : Form \cup {None},
         existing : Columns \cup {None},
         list : (SUBSET MeterId) \cup SUBSET RegisterId]

NoCall == [kind |-> "none", own |-> FALSE, stage |-> "sent", transformer |-> None,
           meter |-> None, register |-> None, columns |-> None, existing |-> None, list |-> {}]

TypeOK ==
  /\ owner \in [MeterId -> Transformer \cup {None}]
  /\ meterOf \in [RegisterId -> MeterId \cup {None}]
  /\ columns \in [RegisterId -> Columns \cup {None}]
  /\ used \subseteq MeterId \cup RegisterId
  /\ page \in {"meters", "registers"} /\ selected \in Transformer
  /\ meters \subseteq MeterId /\ meter \in MeterId \cup {None}
  /\ registers \subseteq RegisterId
  /\ call \in [Caller -> Call]
  /\ newest \in Caller \cup {None} /\ missed \in BOOLEAN

(***************************************************************************)
(* The server.                                                             *)
(***************************************************************************)

\* validateRegister, as far as it compares columns.
Valid(c) == c.length = IF c.dataType = "INT16" THEN 1 ELSE 2

\* Mutant: a register is found below any meter.
FoundAnywhere(q) ==
  CASE q.kind = "removeMeter" -> owner[q.meter] = q.transformer
    [] q.kind \in {"listRegisters", "addRegister"} -> owner[q.meter] # None
    [] q.kind \in {"removeRegister", "updateRegister"} -> meterOf[q.register] # None
    [] OTHER -> TRUE

\* What the path names is there, and below what it names before.
Found(q) ==
  CASE q.kind = "removeMeter" -> owner[q.meter] = q.transformer
    [] q.kind \in {"listRegisters", "addRegister"} -> owner[q.meter] # None
    [] q.kind \in {"removeRegister", "updateRegister"} ->
         owner[q.meter] # None /\ meterOf[q.register] = q.meter
    [] OTHER -> TRUE

\* req.length ?: existing.length and the like.
Merged(existing, form) ==
  [dataType |-> IF "dataType" \in DOMAIN form THEN form.dataType ELSE existing.dataType,
   length |-> IF "length" \in DOMAIN form THEN form.length ELSE existing.length]

\* In c, the request q, or the end of the chain.
Send(c, q) == call' = [call EXCEPT ![c] = q]
Finish(c) == Send(c, NoCall)

\* The answer, which only the page still waits for.
Reply(c, stage, list) ==
  IF call[c].own
  THEN Send(c, [NoCall EXCEPT !.kind = call[c].kind, !.own = TRUE, !.stage = stage, !.list = list])
  ELSE Finish(c)
Answer(c) == Reply(c, "answered", {})
Refuse(c) == Reply(c, "refused", {})

Has(c, kind, stage) == call[c].kind = kind /\ call[c].stage = stage

LookUp(c) ==
  LET q == call[c] IN
  /\ q.kind # "none" /\ q.stage = "sent"
  /\ IF Found(q)
     THEN Send(c, [q EXCEPT !.stage = "found",
                            !.existing = IF q.kind = "updateRegister" THEN columns[q.register]
                                         ELSE None])
     ELSE Refuse(c)
  /\ UNCHANGED <<rows, shown, auxiliary>>

AnswerList(c) ==
  LET q == call[c] IN
  /\ q.stage = "found" /\ q.kind \in Listing
  /\ Reply(c, "answered", IF q.kind = "listMeters" THEN {m \in MeterId : owner[m] = q.transformer}
                          ELSE {r \in RegisterId : meterOf[r] = q.meter})
  /\ missed' = (missed /\ newest # c)
  /\ UNCHANGED <<rows, shown, newest>>

\* renderMeters and renderRegisters: a row, with its button, for everything in the list.
MeterRows == meters
RegisterRows == registers

\* What the list of the page has to show, and what it shows.
Stored == IF page = "meters" THEN {m \in MeterId : owner[m] = selected}
          ELSE {r \in RegisterId : meter # None /\ meterOf[r] = meter}
Shown == IF page = "meters" THEN MeterRows ELSE RegisterRows

\* For the auxiliary variables: others have changed what the page has to show.
Behind(c) ==
  /\ UNCHANGED <<shown, newest>>
  /\ missed' = (missed \/ (~call[c].own /\ Stored' # Stored))

AddMeter(c) ==
  /\ Has(c, "addMeter", "found")
  /\ \E m \in MeterId \ used :
       /\ owner' = [owner EXCEPT ![m] = call[c].transformer]
       /\ used' = used \cup {m}
  /\ Answer(c)
  /\ UNCHANGED <<meterOf, columns>>
  /\ Behind(c)

DropRegisters(rs) ==
  /\ meterOf' = [r \in RegisterId |-> IF r \in rs THEN None ELSE meterOf[r]]
  /\ columns' = [r \in RegisterId |-> IF r \in rs THEN None ELSE columns[r]]

\* With its registers; the row may have gone since it was found.
RemoveMeter(c) ==
  /\ Has(c, "removeMeter", "found")
  /\ owner' = [owner EXCEPT ![call[c].meter] = None]
  /\ DropRegisters({r \in RegisterId : meterOf[r] = call[c].meter})
  /\ Answer(c)
  /\ UNCHANGED used
  /\ Behind(c)

AddRegister(c) ==
  LET q == call[c] IN
  /\ Has(c, "addRegister", "found")
  /\ IF Valid(q.columns) /\ owner[q.meter] # None
     THEN /\ \E r \in RegisterId \ used :
               /\ meterOf' = [meterOf EXCEPT ![r] = q.meter]
               /\ columns' = [columns EXCEPT ![r] = q.columns]
               /\ used' = used \cup {r}
          /\ Answer(c)
     ELSE Refuse(c) /\ UNCHANGED <<meterOf, columns, used>>
  /\ UNCHANGED owner
  /\ Behind(c)

RemoveRegister(c) ==
  /\ Has(c, "removeRegister", "found")
  /\ DropRegisters({call[c].register})
  /\ Answer(c)
  /\ UNCHANGED <<owner, used>>
  /\ Behind(c)

\* Mutant: only the columns the request names are written.
UpdateNamedColumns(c) ==
  LET q == call[c] IN
  /\ Has(c, "updateRegister", "found")
  /\ IF Valid(Merged(q.existing, q.columns))
     THEN /\ columns' = IF meterOf[q.register] = None THEN columns
                        ELSE [columns EXCEPT ![q.register] = Merged(@, q.columns)]
          /\ Answer(c)
     ELSE Refuse(c) /\ UNCHANGED columns
  /\ UNCHANGED <<owner, meterOf, used>>
  /\ Behind(c)

\* All columns at once, those of the request and those that were read; whether the row
\* was still there is not looked at.
UpdateRegister(c) ==
  LET q == call[c]
      updated == Merged(q.existing, q.columns)
  IN
  /\ Has(c, "updateRegister", "found")
  /\ IF Valid(updated)
     THEN /\ columns' = IF meterOf[q.register] = None THEN columns
                        ELSE [columns EXCEPT ![q.register] = updated]
          /\ Answer(c)
     ELSE Refuse(c) /\ UNCHANGED columns
  /\ UNCHANGED <<owner, meterOf, used>>
  /\ Behind(c)

\* The page stops waiting (timeout, network); the server goes on.
Abandon(c) ==
  /\ call[c].own
  /\ IF call[c].kind \in Writing /\ call[c].stage \in {"sent", "found"}
     THEN Send(c, [call[c] EXCEPT !.own = FALSE])
     ELSE Finish(c)
  /\ missed' = TRUE
  /\ newest' = IF newest = c THEN None ELSE newest
  /\ UNCHANGED <<rows, shown>>

(***************************************************************************)
(* Either page.                                                            *)
(***************************************************************************)

Asked(kind) == [NoCall EXCEPT !.kind = kind, !.own = TRUE]
MetersOf(t) == [Asked("listMeters") EXCEPT !.transformer = t]
RegistersOf(m) == [Asked("listRegisters") EXCEPT !.meter = m]

On(p, c) == page = p /\ call[c].kind = "none"
Answered(c, kind) == call[c].own /\ Has(c, kind, "answered")

\* The request of c for the list, which is now the last one.
List(c, q) == Send(c, q) /\ newest' = c

\* The list that c has waited for is shown; is it that of the last request?
ListShown(c) ==
  /\ missed' = (missed \/ newest # c)
  /\ newest' = IF newest = c THEN None ELSE newest
  /\ Finish(c)

\* The error goes to the status line; the chain ends, without a reload.
ShowError(c) ==
  /\ call[c].own /\ call[c].stage = "refused"
  /\ missed' = (missed \/ call[c].kind \in Listing)
  /\ newest' = IF newest = c THEN None ELSE newest
  /\ Finish(c)
  /\ UNCHANGED <<rows, shown>>

(***************************************************************************)
(* meters.js.                                                              *)
(***************************************************************************)

\* The page opens, or its button for refreshing: the transformers are loaded first, which
\* are the same here, so that it begins with their answer.
FetchTransformers(c) ==
  /\ On("meters", c)
  /\ meters' = {}
  /\ List(c, MetersOf(selected))
  /\ UNCHANGED <<rows, page, selected, meter, registers, missed>>

\* The button beside the list.
RefreshMeters(c) ==
  /\ On("meters", c)
  /\ List(c, MetersOf(selected))
  /\ UNCHANGED <<rows, shown, missed>>

HandleTransformerChange(t, c) ==
  /\ On("meters", c) /\ t # selected
  /\ selected' = t /\ meters' = {}
  /\ List(c, MetersOf(t))
  /\ UNCHANGED <<rows, page, meter, registers, missed>>

MetersShown(c) ==
  /\ page = "meters" /\ Answered(c, "listMeters")
  /\ meters' = call[c].list
  /\ ListShown(c)
  /\ UNCHANGED <<rows, page, selected, meter, registers>>

SubmitMeter(c) ==
  /\ On("meters", c)
  /\ Send(c, [Asked("addMeter") EXCEPT !.transformer = selected])
  /\ UNCHANGED <<rows, shown, auxiliary>>

\* Below the transformer that is selected, whatever list is shown.
DeleteMeter(m, c) ==
  /\ On("meters", c) /\ m \in MeterRows
  /\ Send(c, [Asked("removeMeter") EXCEPT !.transformer = selected, !.meter = m])
  /\ UNCHANGED <<rows, shown, auxiliary>>

\* Mutant: the list is not loaded again.
MeterWrittenOnly(c) ==
  /\ Answered(c, "addMeter") \/ Answered(c, "removeMeter")
  /\ Finish(c)
  /\ UNCHANGED <<rows, shown, auxiliary>>

MeterWritten(c) ==
  /\ Answered(c, "addMeter") \/ Answered(c, "removeMeter")
  /\ List(c, MetersOf(selected))
  /\ UNCHANGED <<rows, shown, missed>>

(***************************************************************************)
(* registers.js.                                                           *)
(***************************************************************************)

\* The page opens, or its button for refreshing, likewise.
LoadTransformers(c) ==
  /\ On("registers", c)
  /\ Send(c, MetersOf(selected))
  /\ UNCHANGED <<rows, shown, auxiliary>>

TransformerChosen(t, c) ==
  /\ On("registers", c) /\ t # selected
  /\ selected' = t /\ meter' = None
  /\ meters' = {} /\ registers' = {}
  /\ Send(c, MetersOf(t))
  /\ newest' = None
  /\ UNCHANGED <<rows, page, missed>>

\* loadRegisters, when m is selected and ms are the meters of the list.
LoadRegisters(c, m, ms) ==
  IF m \in ms
  THEN List(c, RegistersOf(m)) /\ UNCHANGED registers
  ELSE registers' = {} /\ Finish(c) /\ newest' = None

\* Mutant: the meter that was selected stays selected.
MetersLoadedKeepMeter(c) ==
  LET list == call[c].list IN
  /\ page = "registers" /\ Answered(c, "listMeters")
  /\ meters' = list
  /\ LoadRegisters(c, meter, list)
  /\ UNCHANGED <<rows, page, selected, meter, missed>>

\* The selected meter stays if it is in the list, whosever list that is; otherwise the
\* first one is selected.
MetersLoaded(c) ==
  LET list == call[c].list IN
  /\ page = "registers" /\ Answered(c, "listMeters")
  /\ meters' = list
  /\ meter' \in IF meter \in list THEN {meter} ELSE IF list = {} THEN {None} ELSE list
  /\ LoadRegisters(c, meter', list)
  /\ UNCHANGED <<rows, page, selected, missed>>

MeterChosen(m, c) ==
  /\ On("registers", c) /\ m \in meters \ {meter}
  /\ meter' = m /\ registers' = {}
  /\ List(c, RegistersOf(m))
  /\ UNCHANGED <<rows, page, selected, meters, missed>>

RegistersLoaded(c) ==
  /\ Answered(c, "listRegisters")
  /\ registers' = call[c].list
  /\ ListShown(c)
  /\ UNCHANGED <<rows, page, selected, meters, meter>>

\* The form has no length: the route adds the one that fits.
SubmitRegister(f, c) ==
  /\ On("registers", c) /\ meter \in meters
  /\ Send(c, [Asked("addRegister") EXCEPT !.meter = meter, !.columns = f])
  /\ UNCHANGED <<rows, shown, auxiliary>>

\* Below the meter that is selected, whatever list is shown.
DeleteRegister(r, c) ==
  /\ On("registers", c) /\ meter \in meters /\ r \in RegisterRows
  /\ Send(c, [Asked("removeRegister") EXCEPT !.meter = meter, !.register = r])
  /\ UNCHANGED <<rows, shown, auxiliary>>

RegisterWritten(c) ==
  /\ Answered(c, "addRegister") \/ Answered(c, "removeRegister")
  /\ LoadRegisters(c, meter, meters)
  /\ UNCHANGED <<rows, page, selected, meters, meter, missed>>

(***************************************************************************)
(* Other clients.                                                          *)
(***************************************************************************)

Elsewhere(kind, t, m, r, f) ==
  [NoCall EXCEPT !.kind = kind, !.transformer = t, !.meter = m, !.register = r, !.columns = f]

WriteElsewhere ==
  {Elsewhere("addMeter", t, None, None, None) : t \in Transformer}
  \cup {Elsewhere("removeMeter", t, m, None, None) : t \in Transformer, m \in MeterId}
  \cup {Elsewhere("addRegister", None, m, None, f) : m \in MeterId, f \in Columns}
  \cup {Elsewhere("removeRegister", None, m, r, None) : m \in MeterId, r \in RegisterId}
  \cup {Elsewhere("updateRegister", None, m, r, f) : m \in MeterId, r \in RegisterId, f \in Form}

SendElsewhere(w, c) ==
  /\ call[c].kind = "none"
  /\ Send(c, w)
  /\ UNCHANGED <<rows, shown, auxiliary>>

\* The page has its transformers, and what the storage says was selected.
Init ==
  /\ owner \in [MeterId -> Transformer \cup {None}]
  /\ meterOf \in [RegisterId -> {m \in MeterId : owner[m] # None} \cup {None}]
  /\ columns \in [RegisterId -> {f \in Columns : Valid(f)} \cup {None}]
  /\ \A r \in RegisterId : columns[r] = None <=> meterOf[r] = None
  /\ used = {m \in MeterId : owner[m] # None} \cup {r \in RegisterId : meterOf[r] # None}
  /\ page \in {"meters", "registers"} /\ selected \in Transformer
  /\ meters = {} /\ registers = {}
  /\ meter \in IF page = "meters" THEN {None} ELSE MeterId \cup {None}
  /\ call = [c \in Caller |-> NoCall]
  /\ newest = None /\ missed = TRUE

Server(c) ==
  \/ LookUp(c) \/ AnswerList(c)
  \/ AddMeter(c) \/ RemoveMeter(c)
  \/ AddRegister(c) \/ RemoveRegister(c) \/ UpdateRegister(c)

MetersPage(c) ==
  \/ FetchTransformers(c) \/ RefreshMeters(c) \/ MetersShown(c) \/ SubmitMeter(c) \/ MeterWritten(c)
  \/ \E t \in Transformer : HandleTransformerChange(t, c)
  \/ \E m \in MeterId : DeleteMeter(m, c)

RegistersPage(c) ==
  \/ LoadTransformers(c) \/ MetersLoaded(c) \/ RegistersLoaded(c) \/ RegisterWritten(c)
  \/ \E t \in Transformer : TransformerChosen(t, c)
  \/ \E m \in MeterId : MeterChosen(m, c)
  \/ \E f \in Columns : Valid(f) /\ SubmitRegister(f, c)
  \/ \E r \in RegisterId : DeleteRegister(r, c)

Next ==
  \E c \in Caller :
    \/ Server(c) \/ MetersPage(c) \/ RegistersPage(c)
    \/ ShowError(c) \/ Abandon(c)
    \/ \E w \in WriteElsewhere : SendElsewhere(w, c)

Spec == Init /\ [][Next]_vars

(***************************************************************************)
(* Properties.                                                             *)
(***************************************************************************)

OnSetup == page \in {"meters", "registers"}

\* What the page's buttons rely on, although lists come late and meters vanish: where
\* meters are listed, the selected one is among them.
SelectionIsListed == page = "registers" /\ meters # {} => meter \in meters

\* What the routes rely on: a register is a row below a row, and its columns fit each other,
\* although clients update some of them at the same time: a PUT checks and writes the whole
\* row it has merged.
RegistersAreWhole ==
  \A r \in RegisterId :
    /\ columns[r] = None <=> meterOf[r] = None
    /\ meterOf[r] # None => owner[meterOf[r]] # None /\ Valid(columns[r])

\* A request names what its route needs, and the page waits only for requests of its own.
CallInOrder(q) ==
  /\ q.stage \in {"sent", "found"} =>
       /\ q.kind \in {"listMeters", "addMeter", "removeMeter"} => q.transformer \in Transformer
       /\ q.kind \in {"listRegisters"} \cup (Writing \ {"addMeter"}) => q.meter \in MeterId
       /\ q.kind \in {"removeRegister", "updateRegister"} => q.register \in RegisterId
       /\ q.kind = "addRegister" => q.columns \in Columns
       /\ q.kind = "updateRegister" => q.columns \in Form
  /\ q.stage = "found" /\ q.kind = "updateRegister" => q.existing \in Columns
  /\ q.stage = "answered" /\ q.kind = "listMeters" => q.list \subseteq MeterId
  /\ q.stage = "answered" /\ q.kind = "listRegisters" => q.list \subseteq RegisterId
  /\ q.own => q.kind \in IF page = "meters" THEN {"listMeters", "addMeter", "removeMeter"}
                         ELSE {"listMeters", "listRegisters", "addRegister", "removeRegister"}

CallsInOrder == \A c \in Caller : CallInOrder(call[c])

\* Ids are given once, so that what has been found is later there, below the same row, or gone.
FoundOrGone ==
  /\ {m \in MeterId : owner[m] # None} \cup {r \in RegisterId : meterOf[r] # None} \subseteq used
  /\ \A c \in Caller :
       LET q == call[c] IN
       /\ Has(c, "removeMeter", "found") =>
            q.meter \in used /\ owner[q.meter] \in {q.transformer, None}
       /\ Has(c, "removeRegister", "found") =>
            q.register \in used /\ meterOf[q.register] \in {q.meter, None}

\* The last request for the list asks for what is selected.
LastListIsOfSelection ==
  newest # None =>
    LET q == call[newest] IN
    /\ q.own /\ q.kind = IF page = "meters" THEN "listMeters" ELSE "listRegisters"
    /\ q.stage \in {"sent", "found"} =>
         IF page = "meters" THEN q.transformer = selected ELSE q.meter = meter

\* A meter without the list it was selected from is what the storage says, before any list
\* has come.
MeterBeforeList ==
  page = "registers" /\ meters = {} /\ meter # None => missed /\ newest = None

\* Unless something was missed, what is stored is shown, on its way, or will be asked for
\* after the page's own write.
ListIsShownOrComes ==
  ~missed =>
    \/ \E c \in Caller : call[c].own /\ call[c].kind \in Writing /\ call[c].stage = "answered"
    \/ newest = None /\ Shown = Stored
    \/ newest # None /\ (call[newest].stage = "answered" => call[newest].list = Stored)

\* The inductive invariant.
SetupInv ==
  OnSetup =>
    /\ TypeOK /\ SelectionIsListed /\ RegistersAreWhole /\ CallsInOrder /\ FoundOrGone
    /\ LastListIsOfSelection /\ MeterBeforeList /\ ListIsShownOrComes

\* A list that came too late may show the rows of another meter or transformer; still,
\* deleting from it removes no register that is not below the selection of that click.
\* A meter is covered through its registers, which go with it.
DeletesStayBelowSelection ==
  [][OnSetup =>
       \A r \in RegisterId :
         meterOf[r] # None /\ meterOf'[r] # meterOf[r] =>
           \E c \in Caller :
             \/ RemoveRegister(c) /\ call[c].meter = meterOf[r]
             \/ RemoveMeter(c) /\ call[c].transformer = owner[meterOf[r]]]_vars

\* A page that waits for nothing shows what is stored: after its own writes, changes of
\* the selection and reloads in any order, unless others wrote meanwhile, a request
\* failed, or an answer was overtaken by a later one.
QuietListsAreCurrent ==
  OnSetup /\ (\A c \in Caller : ~call[c].own) /\ ~missed => Shown = Stored
=============================================================================
