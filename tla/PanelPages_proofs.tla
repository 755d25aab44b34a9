-------------------------- MODULE PanelPages_proofs --------------------------
(***************************************************************************)
(* Proofs about PanelPages: SetupPages (meters and registers) first, then  *)
(* TransformersPage (transformers, the dashboard) and AdminPage, each with *)
(* one lemma per action and part of its invariant, and at the end the      *)
(* theorems about the panel.                                               *)
(***************************************************************************)
EXTENDS PanelPages, FiniteSetTheorems, TLAPS

(***************************************************************************)
(* meters.js and registers.js.                                             *)
(***************************************************************************)

\* None is not a row, a caller or a set of columns.
LEMMA NoneApart ==
  /\ None \notin Transformer /\ None \notin MeterId /\ None \notin RegisterId
  /\ None \notin Caller /\ None \notin Columns
BY SetupAssumption

LEMMA NoCallType == NoCall \in Call
BY DEF NoCall, Call, Listing, Writing

\* The requests that a page or another client sends.
LEMMA ListRequest ==
  /\ \A t \in Transformer :
       /\ MetersOf(t) \in Call /\ MetersOf(t).kind = "listMeters" /\ MetersOf(t).own
       /\ MetersOf(t).stage = "sent" /\ MetersOf(t).transformer = t
  /\ \A m \in MeterId :
       /\ RegistersOf(m) \in Call /\ RegistersOf(m).kind = "listRegisters" /\ RegistersOf(m).own
       /\ RegistersOf(m).stage = "sent" /\ RegistersOf(m).meter = m
BY DEF MetersOf, RegistersOf, Asked, NoCall, Call, Listing, Writing

LEMMA WriteRequest ==
  ASSUME NEW t \in Transformer, NEW m \in MeterId, NEW r \in RegisterId, NEW f \in Columns,
         NEW q \in {[Asked("addMeter") EXCEPT !.transformer = t],
                    [Asked("removeMeter") EXCEPT !.transformer = t, !.meter = m],
                    [Asked("addRegister") EXCEPT !.meter = m, !.columns = f],
                    [Asked("removeRegister") EXCEPT !.meter = m, !.register = r]}
  PROVE  q \in Call /\ q.own /\ q.stage = "sent" /\ q.kind \in Writing
BY DEF Asked, NoCall, Call, Listing, Writing, Form

LEMMA ElsewhereFields ==
  ASSUME NEW kind \in Writing, NEW t \in Transformer \cup {None}, NEW m \in MeterId \cup {None},
         NEW r \in RegisterId \cup {None}, NEW f \in Form \cup {None},
         kind \in {"addMeter", "removeMeter"} => t \in Transformer,
         kind # "addMeter" => m \in MeterId,
         kind \in {"removeRegister", "updateRegister"} => r \in RegisterId,
         kind = "addRegister" => f \in Columns,
         kind = "updateRegister" => f \in Form,
         NEW w, w = Elsewhere(kind, t, m, r, f)
  PROVE  w \in Call /\ ~w.own /\ w.stage = "sent" /\ w.kind \in Writing /\ CallInOrder(w)
<1>1. /\ w \in Call /\ ~w.own /\ w.stage = "sent" /\ w.kind = kind
      /\ w.transformer = t /\ w.meter = m /\ w.register = r /\ w.columns = f
  BY DEF Elsewhere, NoCall, Call
<1> QED BY <1>1 DEF CallInOrder, Writing

LEMMA ElsewhereRequest ==
  ASSUME NEW w \in WriteElsewhere
  PROVE  w \in Call /\ ~w.own /\ w.stage = "sent" /\ w.kind \in Writing /\ CallInOrder(w)
<1>1. CASE w \in {Elsewhere("addMeter", t, None, None, None) : t \in Transformer}
  <2>1. PICK t \in Transformer : w = Elsewhere("addMeter", t, None, None, None)
    BY <1>1
  <2> QED BY <2>1, ElsewhereFields DEF Writing
<1>2. CASE w \in {Elsewhere("removeMeter", t, m, None, None) : t \in Transformer, m \in MeterId}
  <2>1. PICK t \in Transformer, m \in MeterId : w = Elsewhere("removeMeter", t, m, None, None)
    BY <1>2
  <2> QED BY <2>1, ElsewhereFields DEF Writing
<1>3. CASE w \in {Elsewhere("addRegister", None, m, None, f) : m \in MeterId, f \in Columns}
  <2>1. PICK m \in MeterId, f \in Columns : w = Elsewhere("addRegister", None, m, None, f)
    BY <1>3
  <2> QED BY <2>1, ElsewhereFields DEF Writing, Form
<1>4. CASE w \in {Elsewhere("removeRegister", None, m, r, None) : m \in MeterId, r \in RegisterId}
  <2>1. PICK m \in MeterId, r \in RegisterId : w = Elsewhere("removeRegister", None, m, r, None)
    BY <1>4
  <2> QED BY <2>1, ElsewhereFields DEF Writing
<1>5. CASE w \in {Elsewhere("updateRegister", None, m, r, f) :
                    m \in MeterId, r \in RegisterId, f \in Form}
  <2>1. PICK m \in MeterId, r \in RegisterId, f \in Form :
          w = Elsewhere("updateRegister", None, m, r, f)
    BY <1>5
  <2> QED BY <2>1, ElsewhereFields DEF Writing
<1> QED BY <1>1, <1>2, <1>3, <1>4, <1>5 DEF WriteElsewhere

\* A request or the end of a chain replaces that of its caller.
LEMMA SendChanges ==
  ASSUME call \in [Caller -> Call], NEW c \in Caller, NEW q \in Call, Send(c, q)
  PROVE  /\ call' \in [Caller -> Call] /\ call'[c] = q
         /\ \A d \in Caller \ {c} : call'[d] = call[d]
BY DEF Send

\* The columns that a PUT writes.
LEMMA MergedType ==
  ASSUME NEW existing \in Columns, NEW form \in Form
  PROVE  Merged(existing, form) \in Columns
BY DEF Merged, Form, Columns

\* What a route has found, and its answer.
LEMMA ReplyChanges ==
  ASSUME call \in [Caller -> Call], NEW c \in Caller, NEW stage \in {"answered", "refused"},
         NEW list \in (SUBSET MeterId) \cup SUBSET RegisterId, Reply(c, stage, list)
  PROVE  /\ call' \in [Caller -> Call]
         /\ \A d \in Caller \ {c} : call'[d] = call[d]
         /\ call[c].own =>
              /\ call'[c].own /\ call'[c].kind = call[c].kind
              /\ call'[c].stage = stage /\ call'[c].list = list
         /\ ~call[c].own => call'[c] = NoCall
<1>1. CASE call[c].own
  <2> DEFINE q == [NoCall EXCEPT !.kind = call[c].kind, !.own = TRUE, !.stage = stage, !.list = list]
  <2>1. q \in Call /\ q.own /\ q.kind = call[c].kind /\ q.stage = stage /\ q.list = list
    BY DEF Call, NoCall
  <2>2. Send(c, q)
    BY <1>1 DEF Reply
  <2> HIDE DEF q
  <2> QED BY <1>1, <2>1, <2>2, SendChanges
<1>2. CASE ~call[c].own
  BY <1>2, NoCallType, SendChanges DEF Reply, Finish
<1> QED BY <1>1, <1>2

-----------------------------------------------------------------------------
\* What a step of c does to the requests.
CallStep(c) ==
  /\ call' \in [Caller -> Call]
  /\ \A d \in Caller \ {c} : call'[d] = call[d]
  /\ CallInOrder(call[c])'

\* Between the steps of the server, a request that has been found names what it named.
SameNames(c) ==
  /\ call'[c].kind = call[c].kind /\ call'[c].stage = call[c].stage
  /\ call'[c].transformer = call[c].transformer /\ call'[c].meter = call[c].meter
  /\ call'[c].register = call[c].register

LEMMA LookUpCalls ==
  ASSUME TypeOK, CallsInOrder, RegistersAreWhole, NEW c \in Caller, LookUp(c)
  PROVE  CallStep(c)
<1> DEFINE q == call[c]
           found == [q EXCEPT !.stage = "found",
                              !.existing = IF q.kind = "updateRegister" THEN columns[q.register]
                                           ELSE None]
<1>1. q \in Call /\ CallInOrder(q) /\ q.stage = "sent" /\ q.kind # "none"
  BY DEF TypeOK, CallsInOrder, LookUp
<1>2. page' = page
  BY DEF LookUp, shown
<1>3. CASE Found(q)
  <2>1. q.kind = "updateRegister" => columns[q.register] \in Columns
    BY <1>1, <1>3, NoneApart DEF Found, CallInOrder, RegistersAreWhole, TypeOK, Writing
  <2>2. /\ found \in Call /\ found.kind = q.kind /\ found.own = q.own /\ found.stage = "found"
        /\ found.transformer = q.transformer /\ found.meter = q.meter
        /\ found.register = q.register /\ found.columns = q.columns
        /\ q.kind = "updateRegister" => found.existing \in Columns
    BY <1>1, <2>1 DEF Call
  <2>3. Send(c, found)
    BY <1>3 DEF LookUp
  <2> HIDE DEF found
  <2>4. call' \in [Caller -> Call] /\ call'[c] = found /\ \A d \in Caller \ {c} : call'[d] = call[d]
    BY <2>2, <2>3, SendChanges DEF TypeOK
  <2>5. CallInOrder(call[c])'
    BY <1>1, <1>2, <2>2, <2>4 DEF CallInOrder
  <2> QED BY <2>4, <2>5 DEF CallStep
<1>4. CASE ~Found(q)
  <2>1. Reply(c, "refused", {})
    BY <1>4 DEF LookUp, Refuse
  <2>2. /\ call' \in [Caller -> Call] /\ \A d \in Caller \ {c} : call'[d] = call[d]
        /\ q.own => call'[c].own /\ call'[c].kind = q.kind /\ call'[c].stage = "refused"
        /\ ~q.own => call'[c] = NoCall
    BY <2>1, ReplyChanges DEF TypeOK
  <2>3. CallInOrder(call[c])'
    BY <1>1, <1>2, <2>2 DEF CallInOrder, NoCall, Writing
  <2> QED BY <2>2, <2>3 DEF CallStep
<1> QED BY <1>3, <1>4

\* The answer to a write, or its refusal.
LEMMA AnswerCalls ==
  ASSUME TypeOK, CallsInOrder, NEW c \in Caller, page' = page, call[c].kind \in Writing,
         Answer(c) \/ Refuse(c)
  PROVE  CallStep(c)
<1>1. PICK stage \in {"answered", "refused"} : Reply(c, stage, {})
  BY DEF Answer, Refuse
<1>2. /\ call' \in [Caller -> Call] /\ \A d \in Caller \ {c} : call'[d] = call[d]
      /\ call[c].own => call'[c].own /\ call'[c].kind = call[c].kind /\ call'[c].stage = stage
      /\ ~call[c].own => call'[c] = NoCall
  BY <1>1, ReplyChanges DEF TypeOK
<1>3. CallInOrder(call[c])
  BY DEF CallsInOrder
<1>4. CallInOrder(call[c])'
  BY <1>2, <1>3 DEF CallInOrder, NoCall, Writing
<1> QED BY <1>2, <1>4 DEF CallStep

LEMMA ListAnswerCalls ==
  ASSUME TypeOK, CallsInOrder, NEW c \in Caller, AnswerList(c)
  PROVE  CallStep(c)
<1> DEFINE list == IF call[c].kind = "listMeters" THEN {m \in MeterId : owner[m] = call[c].transformer}
                   ELSE {r \in RegisterId : meterOf[r] = call[c].meter}
<1>1. Reply(c, "answered", list) /\ call[c].kind \in Listing /\ page' = page
  BY DEF AnswerList, shown
<1>2. list \in (SUBSET MeterId) \cup SUBSET RegisterId
  OBVIOUS
<1>3. /\ call[c].kind = "listMeters" => list \subseteq MeterId
      /\ call[c].kind = "listRegisters" => list \subseteq RegisterId
  OBVIOUS
<1> HIDE DEF list
<1>4. /\ call' \in [Caller -> Call] /\ \A d \in Caller \ {c} : call'[d] = call[d]
      /\ call[c].own => /\ call'[c].own /\ call'[c].kind = call[c].kind
                        /\ call'[c].stage = "answered" /\ call'[c].list = list
      /\ ~call[c].own => call'[c] = NoCall
  BY <1>1, <1>2, ReplyChanges DEF TypeOK
<1>5. CallInOrder(call[c])
  BY DEF CallsInOrder
<1>6. CallInOrder(call[c])'
  BY <1>1, <1>3, <1>4, <1>5 DEF CallInOrder, NoCall, Writing
<1> QED BY <1>4, <1>6 DEF CallStep

\* The end of a chain.
LEMMA FinishCalls ==
  ASSUME TypeOK, NEW c \in Caller, Finish(c)
  PROVE  CallStep(c) /\ call'[c] = NoCall
<1>1. /\ call' \in [Caller -> Call] /\ call'[c] = NoCall
      /\ \A d \in Caller \ {c} : call'[d] = call[d]
  BY NoCallType, SendChanges DEF Finish, TypeOK
<1>2. CallInOrder(call[c])'
  BY <1>1 DEF CallInOrder, NoCall, Writing
<1> QED BY <1>1, <1>2 DEF CallStep

\* A request for a list.
LEMMA ListCalls ==
  ASSUME TypeOK, NEW c \in Caller, page' = page,
         NEW q \in {MetersOf(t) : t \in Transformer} \cup {RegistersOf(m) : m \in MeterId},
         page = "meters" => q \in {MetersOf(t) : t \in Transformer},
         Send(c, q)
  PROVE  CallStep(c) /\ call'[c] = q
<1>1. /\ q \in Call /\ q.stage = "sent" /\ q.own
      /\ \/ q.kind = "listMeters" /\ q.transformer \in Transformer
         \/ page # "meters" /\ q.kind = "listRegisters" /\ q.meter \in MeterId
  BY ListRequest
<1>2. call' \in [Caller -> Call] /\ call'[c] = q /\ \A d \in Caller \ {c} : call'[d] = call[d]
  BY <1>1, SendChanges DEF TypeOK
<1>3. CallInOrder(call[c])'
  BY <1>1, <1>2 DEF CallInOrder, Writing
<1> QED BY <1>2, <1>3 DEF CallStep

LEMMA AbandonCalls ==
  ASSUME TypeOK, CallsInOrder, NEW c \in Caller, Abandon(c)
  PROVE  /\ CallStep(c)
         /\ \/ call'[c] = NoCall
            \/ SameNames(c) /\ ~call'[c].own /\ call'[c].kind \in Writing
<1>1. CASE Finish(c)
  BY <1>1, FinishCalls
<1>2. CASE call[c].kind \in Writing /\ Send(c, [call[c] EXCEPT !.own = FALSE])
  <2> DEFINE q == [call[c] EXCEPT !.own = FALSE]
  <2>1. /\ q \in Call /\ q.kind = call[c].kind /\ ~q.own /\ q.stage = call[c].stage
        /\ q.transformer = call[c].transformer /\ q.meter = call[c].meter
        /\ q.register = call[c].register /\ q.columns = call[c].columns
        /\ q.existing = call[c].existing /\ q.list = call[c].list
    BY DEF TypeOK, Call
  <2> HIDE DEF q
  <2>2. call' \in [Caller -> Call] /\ call'[c] = q /\ \A d \in Caller \ {c} : call'[d] = call[d]
    BY <1>2, <2>1, SendChanges DEF TypeOK, q
  <2>3. page' = page
    BY DEF Abandon, shown
  <2>4. CallInOrder(call[c])
    BY DEF CallsInOrder
  <2>5. CallInOrder(call[c])'
    BY <2>1, <2>2, <2>3, <2>4 DEF CallInOrder
  <2> QED BY <1>2, <2>1, <2>2, <2>5 DEF CallStep, SameNames
<1> QED BY <1>1, <1>2 DEF Abandon

\* A step of c: of the server, of the page, or of another client.
StepOf(c) ==
  \/ Server(c) \/ MetersPage(c) \/ RegistersPage(c)
  \/ ShowError(c) \/ Abandon(c)
  \/ \E w \in WriteElsewhere : SendElsewhere(w, c)

LEMMA StepIsOfOne == Next <=> \E c \in Caller : StepOf(c)
BY DEF Next, StepOf

LEMMA PageStays ==
  ASSUME NEW c \in Caller, StepOf(c)
  PROVE  page' = page
<1>1. CASE Server(c)
  BY <1>1 DEF Server, LookUp, AnswerList, AddMeter, RemoveMeter, AddRegister, RemoveRegister,
              UpdateRegister, Behind, shown
<1>2. CASE MetersPage(c)
  BY <1>2 DEF MetersPage, FetchTransformers, RefreshMeters, MetersShown, SubmitMeter, MeterWritten,
              HandleTransformerChange, DeleteMeter, shown
<1>3. CASE RegistersPage(c)
  BY <1>3 DEF RegistersPage, LoadTransformers, MetersLoaded, RegistersLoaded, RegisterWritten,
              TransformerChosen, MeterChosen, SubmitRegister, DeleteRegister, shown
<1>4. CASE ShowError(c) \/ Abandon(c) \/ \E w \in WriteElsewhere : SendElsewhere(w, c)
  BY <1>4 DEF ShowError, Abandon, SendElsewhere, shown
<1> QED BY <1>1, <1>2, <1>3, <1>4 DEF StepOf

LEMMA ServerCalls ==
  ASSUME TypeOK, CallsInOrder, RegistersAreWhole, NEW c \in Caller, page' = page, Server(c)
  PROVE  CallStep(c)
<1>1. CASE LookUp(c)
  BY <1>1, LookUpCalls
<1>2. CASE AnswerList(c)
  BY <1>2, ListAnswerCalls
<1>3. CASE AddMeter(c) \/ RemoveMeter(c) \/ AddRegister(c) \/ RemoveRegister(c) \/ UpdateRegister(c)
  <2>1. call[c].kind \in Writing /\ (Answer(c) \/ Refuse(c))
    BY <1>3 DEF AddMeter, RemoveMeter, AddRegister, RemoveRegister, UpdateRegister, Has, Writing
  <2> QED BY <2>1, AnswerCalls
<1> QED BY <1>1, <1>2, <1>3 DEF Server

\* What the page of meters sends is named in full.
LEMMA MetersPageCalls ==
  ASSUME TypeOK, NEW c \in Caller, page' = page, MetersPage(c)
  PROVE  CallStep(c) /\ call'[c].stage = "sent"
<1>1. CASE \/ FetchTransformers(c) \/ RefreshMeters(c) \/ MeterWritten(c)
           \/ \E t \in Transformer : HandleTransformerChange(t, c)
  <2>1. PICK t \in Transformer : Send(c, MetersOf(t))
    BY <1>1 DEF FetchTransformers, RefreshMeters, MeterWritten, HandleTransformerChange, List, TypeOK
  <2> QED BY <2>1, ListCalls, ListRequest
<1>2. CASE MetersShown(c)
  BY <1>2, FinishCalls DEF NoCall, MetersShown, ListShown
<1>3. CASE SubmitMeter(c)
  <2> DEFINE q == [Asked("addMeter") EXCEPT !.transformer = selected]
  <2>1. /\ q \in Call /\ q.own /\ q.stage = "sent" /\ q.kind = "addMeter"
        /\ q.transformer \in Transformer
    BY DEF TypeOK, Asked, NoCall, Call, Writing
  <2>2. Send(c, q) /\ page = "meters"
    BY <1>3 DEF SubmitMeter, On
  <2> HIDE DEF q
  <2>3. call' \in [Caller -> Call] /\ call'[c] = q /\ \A d \in Caller \ {c} : call'[d] = call[d]
    BY <2>1, <2>2, SendChanges DEF TypeOK
  <2>4. CallInOrder(call[c])'
    BY <2>1, <2>2, <2>3 DEF CallInOrder, Writing
  <2> QED BY <2>1, <2>3, <2>4 DEF CallStep
<1>4. CASE \E m \in MeterId : DeleteMeter(m, c)
  <2>1. PICK m \in MeterId : DeleteMeter(m, c)
    BY <1>4
  <2> DEFINE q == [Asked("removeMeter") EXCEPT !.transformer = selected, !.meter = m]
  <2>2. /\ q \in Call /\ q.own /\ q.stage = "sent" /\ q.kind = "removeMeter"
        /\ q.transformer \in Transformer /\ q.meter \in MeterId
    BY DEF TypeOK, Asked, NoCall, Call, Writing
  <2>3. Send(c, q) /\ page = "meters"
    BY <2>1 DEF DeleteMeter, On
  <2> HIDE DEF q
  <2>4. call' \in [Caller -> Call] /\ call'[c] = q /\ \A d \in Caller \ {c} : call'[d] = call[d]
    BY <2>2, <2>3, SendChanges DEF TypeOK
  <2>5. CallInOrder(call[c])'
    BY <2>2, <2>3, <2>4 DEF CallInOrder, Writing
  <2> QED BY <2>2, <2>4, <2>5 DEF CallStep
<1> QED BY <1>1, <1>2, <1>3, <1>4 DEF MetersPage

\* loadRegisters, and the page of registers.
LEMMA LoadRegistersCalls ==
  ASSUME TypeOK, NEW c \in Caller, page = "registers", page' = page, NEW m, NEW ms \in SUBSET MeterId,
         LoadRegisters(c, m, ms)
  PROVE  CallStep(c) /\ call'[c].stage = "sent"
<1>1. CASE m \in ms
  <2>1. Send(c, RegistersOf(m)) /\ m \in MeterId
    BY <1>1 DEF LoadRegisters, List
  <2> QED BY <2>1, ListCalls, ListRequest
<1>2. CASE m \notin ms
  BY <1>2, FinishCalls DEF NoCall, LoadRegisters
<1> QED BY <1>1, <1>2

LEMMA RegistersPageCalls ==
  ASSUME TypeOK, CallsInOrder, NEW c \in Caller, page' = page, RegistersPage(c)
  PROVE  CallStep(c) /\ call'[c].stage = "sent"
<1>1. CASE LoadTransformers(c) \/ \E t \in Transformer : TransformerChosen(t, c)
  <2>1. PICK t \in Transformer : Send(c, MetersOf(t))
    BY <1>1 DEF LoadTransformers, TransformerChosen, TypeOK
  <2> QED BY <2>1, ListCalls, ListRequest
<1>2. CASE MetersLoaded(c)
  <2>1. call[c].list \subseteq MeterId
    BY <1>2 DEF MetersLoaded, Answered, Has, CallsInOrder, CallInOrder
  <2> QED BY <1>2, <2>1, LoadRegistersCalls DEF MetersLoaded
<1>3. CASE RegistersLoaded(c)
  BY <1>3, FinishCalls DEF NoCall, RegistersLoaded, ListShown
<1>4. CASE RegisterWritten(c)
  <2>1. page = "registers"
    BY <1>4 DEF RegisterWritten, Answered, Has, CallsInOrder, CallInOrder, TypeOK
  <2> QED BY <1>4, <2>1, LoadRegistersCalls DEF RegisterWritten, TypeOK
<1>5. CASE \E m \in MeterId : MeterChosen(m, c)
  <2>1. PICK m \in MeterId : Send(c, RegistersOf(m)) /\ page = "registers"
    BY <1>5 DEF MeterChosen, List, On
  <2> QED BY <2>1, ListCalls, ListRequest
<1>6. CASE \E f \in Columns : Valid(f) /\ SubmitRegister(f, c)
  <2>1. PICK f \in Columns : SubmitRegister(f, c)
    BY <1>6
  <2> DEFINE q == [Asked("addRegister") EXCEPT !.meter = meter, !.columns = f]
  <2>2. meter \in MeterId /\ f \in Form
    BY <2>1 DEF SubmitRegister, TypeOK, Form
  <2>3. /\ q \in Call /\ q.own /\ q.stage = "sent" /\ q.kind = "addRegister"
        /\ q.meter \in MeterId /\ q.columns \in Columns
    BY <2>2 DEF Asked, NoCall, Call, Writing
  <2>4. Send(c, q) /\ page = "registers"
    BY <2>1 DEF SubmitRegister, On
  <2> HIDE DEF q
  <2>5. call' \in [Caller -> Call] /\ call'[c] = q /\ \A d \in Caller \ {c} : call'[d] = call[d]
    BY <2>3, <2>4, SendChanges DEF TypeOK
  <2>6. CallInOrder(call[c])'
    BY <2>3, <2>4, <2>5 DEF CallInOrder, Writing
  <2> QED BY <2>3, <2>5, <2>6 DEF CallStep
<1>7. CASE \E r \in RegisterId : DeleteRegister(r, c)
  <2>1. PICK r \in RegisterId : DeleteRegister(r, c)
    BY <1>7
  <2> DEFINE q == [Asked("removeRegister") EXCEPT !.meter = meter, !.register = r]
  <2>2. meter \in MeterId
    BY <2>1 DEF DeleteRegister, TypeOK
  <2>3. /\ q \in Call /\ q.own /\ q.stage = "sent" /\ q.kind = "removeRegister"
        /\ q.meter \in MeterId /\ q.register \in RegisterId
    BY <2>2 DEF Asked, NoCall, Call, Writing
  <2>4. Send(c, q) /\ page = "registers"
    BY <2>1 DEF DeleteRegister, On
  <2> HIDE DEF q
  <2>5. call' \in [Caller -> Call] /\ call'[c] = q /\ \A d \in Caller \ {c} : call'[d] = call[d]
    BY <2>3, <2>4, SendChanges DEF TypeOK
  <2>6. CallInOrder(call[c])'
    BY <2>3, <2>4, <2>5 DEF CallInOrder, Writing
  <2> QED BY <2>3, <2>5, <2>6 DEF CallStep
<1> QED BY <1>1, <1>2, <1>3, <1>4, <1>5, <1>6, <1>7 DEF RegistersPage

\* Every step keeps requests in order.
LEMMA StepCalls ==
  ASSUME TypeOK, CallsInOrder, RegistersAreWhole, NEW c \in Caller, StepOf(c)
  PROVE  CallStep(c)
<1>1. page' = page
  BY PageStays
<1>2. CASE ShowError(c)
  BY <1>2, FinishCalls DEF ShowError
<1>3. CASE \E w \in WriteElsewhere : SendElsewhere(w, c)
  <2>1. PICK w \in WriteElsewhere : Send(c, w)
    BY <1>3 DEF SendElsewhere
  <2>2. w \in Call /\ ~w.own /\ CallInOrder(w)
    BY ElsewhereRequest
  <2>3. call' \in [Caller -> Call] /\ call'[c] = w /\ \A d \in Caller \ {c} : call'[d] = call[d]
    BY <2>1, <2>2, SendChanges DEF TypeOK
  <2>4. CallInOrder(call[c])'
    BY <1>1, <2>2, <2>3 DEF CallInOrder
  <2> QED BY <2>3, <2>4 DEF CallStep
<1> QED BY <1>1, <1>2, <1>3, ServerCalls, MetersPageCalls, RegistersPageCalls, AbandonCalls DEF StepOf

LEMMA CallsKeptInOrder ==
  ASSUME CallsInOrder, NEW c \in Caller, page' = page, CallStep(c)
  PROVE  CallsInOrder'
<1> SUFFICES ASSUME NEW d \in Caller PROVE CallInOrder(call[d])'
  BY DEF CallsInOrder
<1>1. CASE d = c
  BY <1>1 DEF CallStep
<1>2. CASE d # c
  BY <1>2 DEF CallStep, CallsInOrder, CallInOrder
<1> QED BY <1>1, <1>2

-----------------------------------------------------------------------------
(***************************************************************************)
(* The rows: types, whole registers, ids given once.                       *)
(***************************************************************************)

RowsType ==
  /\ owner \in [MeterId -> Transformer \cup {None}]
  /\ meterOf \in [RegisterId -> MeterId \cup {None}]
  /\ columns \in [RegisterId -> Columns \cup {None}]
  /\ used \subseteq MeterId \cup RegisterId

\* Rows change in these steps only.
LEMMA RowSteps ==
  ASSUME NEW c \in Caller, StepOf(c)
  PROVE  \/ AddMeter(c) \/ RemoveMeter(c) \/ AddRegister(c) \/ RemoveRegister(c)
         \/ UpdateRegister(c)
         \/ UNCHANGED rows
<1>1. CASE Server(c)
  BY <1>1 DEF Server, LookUp, AnswerList
<1>2. CASE MetersPage(c)
  BY <1>2 DEF MetersPage, FetchTransformers, RefreshMeters, MetersShown, SubmitMeter, MeterWritten,
              HandleTransformerChange, DeleteMeter
<1>3. CASE RegistersPage(c)
  BY <1>3 DEF RegistersPage, LoadTransformers, MetersLoaded, RegistersLoaded, RegisterWritten,
              TransformerChosen, MeterChosen, SubmitRegister, DeleteRegister
<1>4. CASE ShowError(c) \/ Abandon(c) \/ \E w \in WriteElsewhere : SendElsewhere(w, c)
  BY <1>4 DEF ShowError, Abandon, SendElsewhere
<1> QED BY <1>1, <1>2, <1>3, <1>4 DEF StepOf

\* What has been found of the request of c.
LEMMA FoundCall ==
  ASSUME TypeOK, CallsInOrder, NEW c \in Caller, call[c].stage = "found"
  PROVE  /\ call[c].kind = "addMeter" => call[c].transformer \in Transformer
         /\ call[c].kind \in {"removeMeter", "addRegister", "removeRegister", "updateRegister"} =>
              call[c].meter \in MeterId
         /\ call[c].kind \in {"removeRegister", "updateRegister"} => call[c].register \in RegisterId
         /\ call[c].kind = "addRegister" => call[c].columns \in Columns
         /\ call[c].kind = "updateRegister" =>
              Merged(call[c].existing, call[c].columns) \in Columns
BY MergedType DEF CallsInOrder, CallInOrder, Writing

LEMMA RowsTypeKept ==
  ASSUME TypeOK, CallsInOrder, NEW c \in Caller, StepOf(c)
  PROVE  RowsType'
<1>1. CASE AddMeter(c)
  BY <1>1, FoundCall DEF AddMeter, Has, TypeOK, RowsType
<1>2. CASE RemoveMeter(c)
  BY <1>2 DEF RemoveMeter, DropRegisters, TypeOK, RowsType
<1>3. CASE AddRegister(c)
  BY <1>3, FoundCall DEF AddRegister, Has, TypeOK, RowsType
<1>4. CASE RemoveRegister(c)
  BY <1>4 DEF RemoveRegister, DropRegisters, TypeOK, RowsType
<1>5. CASE UpdateRegister(c)
  BY <1>5, FoundCall DEF UpdateRegister, Has, TypeOK, RowsType
<1>6. CASE UNCHANGED rows
  BY <1>6 DEF rows, TypeOK, RowsType
<1> QED BY <1>1, <1>2, <1>3, <1>4, <1>5, <1>6, RowSteps

LEMMA RegistersKeptWhole ==
  ASSUME TypeOK, CallsInOrder, RegistersAreWhole, FoundOrGone, NEW c \in Caller, StepOf(c)
  PROVE  RegistersAreWhole'
<1>1. CASE AddMeter(c)
  BY <1>1, FoundCall, NoneApart DEF AddMeter, Has, TypeOK, RegistersAreWhole, FoundOrGone
<1>2. CASE RemoveMeter(c)
  BY <1>2, NoneApart DEF RemoveMeter, DropRegisters, TypeOK, RegistersAreWhole
<1>3. CASE AddRegister(c)
  BY <1>3, FoundCall, NoneApart DEF AddRegister, Has, TypeOK, RegistersAreWhole
<1>4. CASE RemoveRegister(c)
  BY <1>4 DEF RemoveRegister, DropRegisters, TypeOK, RegistersAreWhole
<1>5. CASE UpdateRegister(c)
  BY <1>5, FoundCall, NoneApart DEF UpdateRegister, Has, TypeOK, RegistersAreWhole
<1>6. CASE UNCHANGED rows
  BY <1>6 DEF rows, RegistersAreWhole, Valid
<1> QED BY <1>1, <1>2, <1>3, <1>4, <1>5, <1>6, RowSteps

IdsUsed ==
  {m \in MeterId : owner[m] # None} \cup {r \in RegisterId : meterOf[r] # None} \subseteq used

LEMMA IdsKeptUsed ==
  ASSUME TypeOK, CallsInOrder, IdsUsed, NEW c \in Caller, StepOf(c)
  PROVE  IdsUsed' /\ used \subseteq used'
<1>1. CASE AddMeter(c)
  BY <1>1 DEF AddMeter, TypeOK, IdsUsed
<1>2. CASE RemoveMeter(c)
  BY <1>2 DEF RemoveMeter, DropRegisters, TypeOK, IdsUsed
<1>3. CASE AddRegister(c)
  BY <1>3 DEF AddRegister, TypeOK, IdsUsed
<1>4. CASE RemoveRegister(c)
  BY <1>4 DEF RemoveRegister, DropRegisters, TypeOK, IdsUsed
<1>5. CASE UpdateRegister(c)
  BY <1>5 DEF UpdateRegister, TypeOK, IdsUsed
<1>6. CASE UNCHANGED rows
  BY <1>6 DEF rows, IdsUsed
<1> QED BY <1>1, <1>2, <1>3, <1>4, <1>5, <1>6, RowSteps

\* A row whose id was given stays below its row, or goes.
LEMMA RowsStayBelow ==
  ASSUME TypeOK, CallsInOrder, NEW c \in Caller, StepOf(c)
  PROVE  /\ \A m \in MeterId \cap used : owner'[m] \in {owner[m], None}
         /\ \A r \in RegisterId \cap used : meterOf'[r] \in {meterOf[r], None}
<1>1. CASE AddMeter(c)
  BY <1>1 DEF AddMeter, TypeOK
<1>2. CASE RemoveMeter(c)
  BY <1>2 DEF RemoveMeter, DropRegisters, TypeOK
<1>3. CASE AddRegister(c)
  BY <1>3 DEF AddRegister, TypeOK
<1>4. CASE RemoveRegister(c)
  BY <1>4 DEF RemoveRegister, DropRegisters, TypeOK
<1>5. CASE UpdateRegister(c)
  BY <1>5 DEF UpdateRegister, TypeOK
<1>6. CASE UNCHANGED rows
  BY <1>6 DEF rows
<1> QED BY <1>1, <1>2, <1>3, <1>4, <1>5, <1>6, RowSteps

\* A request that is found now was found before, and names what it named, or is looked up.
LEMMA FoundSteps ==
  ASSUME TypeOK, CallsInOrder, NEW c \in Caller, StepOf(c), call'[c].stage = "found"
  PROVE  LookUp(c) \/ SameNames(c)
<1>1. CASE LookUp(c)
  BY <1>1
<1>2. CASE Abandon(c)
  BY <1>2, AbandonCalls DEF NoCall
<1>3. CASE AnswerList(c)
  <2>1. PICK list \in (SUBSET MeterId) \cup SUBSET RegisterId : Reply(c, "answered", list)
    BY <1>3 DEF AnswerList
  <2>2. call'[c].stage = "answered" \/ call'[c] = NoCall
    BY <2>1, ReplyChanges DEF TypeOK
  <2> QED BY <2>2 DEF NoCall
<1>4. CASE Answer(c) \/ Refuse(c)
  <2>1. PICK stage \in {"answered", "refused"} : Reply(c, stage, {})
    BY <1>4 DEF Answer, Refuse
  <2>2. call'[c].stage = stage \/ call'[c] = NoCall
    BY <2>1, ReplyChanges DEF TypeOK
  <2> QED BY <2>2 DEF NoCall
<1>5. CASE Finish(c)
  BY <1>5, FinishCalls DEF NoCall
<1>6. CASE MetersPage(c) \/ RegistersPage(c)
  BY <1>6, MetersPageCalls, RegistersPageCalls, PageStays
<1>7. CASE \E w \in WriteElsewhere : SendElsewhere(w, c)
  <2>1. PICK w \in WriteElsewhere : Send(c, w)
    BY <1>7 DEF SendElsewhere
  <2>2. call'[c] = w /\ w.stage = "sent"
    BY <2>1, ElsewhereRequest, SendChanges DEF TypeOK
  <2> QED BY <2>2
<1>8. ASSUME Server(c) PROVE LookUp(c) \/ AnswerList(c) \/ Answer(c) \/ Refuse(c)
  BY <1>8 DEF Server, AddMeter, RemoveMeter, AddRegister, RemoveRegister, UpdateRegister
<1> QED BY <1>1, <1>2, <1>3, <1>4, <1>5, <1>6, <1>7, <1>8 DEF StepOf, ShowError

LEMMA FoundKeptOrGone ==
  ASSUME TypeOK, CallsInOrder, RegistersAreWhole, FoundOrGone, NEW c \in Caller, StepOf(c)
  PROVE  FoundOrGone'
<1>1. IdsUsed' /\ used \subseteq used'
  BY IdsKeptUsed DEF FoundOrGone, IdsUsed
<1>2. CallStep(c)
  BY StepCalls
<1> SUFFICES ASSUME NEW d \in Caller
             PROVE  /\ Has(d, "removeMeter", "found")' =>
                         /\ call'[d].meter \in used'
                         /\ owner'[call'[d].meter] \in {call'[d].transformer, None}
                    /\ Has(d, "removeRegister", "found")' =>
                         /\ call'[d].register \in used'
                         /\ meterOf'[call'[d].register] \in {call'[d].meter, None}
  BY <1>1 DEF FoundOrGone, IdsUsed
<1>3. CASE d # c \/ SameNames(c)
  <2>1. /\ call'[d].kind = call[d].kind /\ call'[d].stage = call[d].stage
        /\ call'[d].transformer = call[d].transformer /\ call'[d].meter = call[d].meter
        /\ call'[d].register = call[d].register
    BY <1>2, <1>3 DEF CallStep, SameNames
  <2>2. /\ Has(d, "removeMeter", "found") =>
             call[d].meter \in MeterId \cap used /\ owner[call[d].meter] \in {call[d].transformer, None}
        /\ Has(d, "removeRegister", "found") =>
             /\ call[d].register \in RegisterId \cap used
             /\ meterOf[call[d].register] \in {call[d].meter, None}
    BY FoundCall DEF FoundOrGone, Has
  <2> QED BY <1>1, <2>1, <2>2, RowsStayBelow DEF Has
<1>4. CASE d = c /\ LookUp(c) /\ call'[c].stage = "found"
  <2>1. Found(call[c]) /\ UNCHANGED rows
    <3>1. CASE ~Found(call[c])
      <4>1. Reply(c, "refused", {})
        BY <1>4, <3>1 DEF LookUp, Refuse
      <4>2. call'[c].stage = "refused" \/ call'[c] = NoCall
        BY <4>1, ReplyChanges DEF TypeOK
      <4> QED BY <1>4, <4>2 DEF NoCall
    <3> QED BY <1>4, <3>1 DEF LookUp
  <2> DEFINE q == call[c]
             found == [q EXCEPT !.stage = "found",
                                !.existing = IF q.kind = "updateRegister" THEN columns[q.register]
                                             ELSE None]
  <2>2. call'[c] = found
    BY <1>4, <2>1 DEF LookUp, Send, TypeOK
  <2>3. q \in Call
    BY DEF TypeOK
  <2>4. /\ found.kind = q.kind /\ found.transformer = q.transformer /\ found.meter = q.meter
        /\ found.register = q.register
    BY <2>3 DEF Call
  <2>5. /\ q.kind = "removeMeter" =>
             q.transformer \in Transformer /\ q.meter \in MeterId /\ owner[q.meter] = q.transformer
        /\ q.kind = "removeRegister" =>
             q.meter \in MeterId /\ q.register \in RegisterId /\ meterOf[q.register] = q.meter
    BY <1>4, <2>1 DEF LookUp, Found, CallsInOrder, CallInOrder, Writing
  <2> HIDE DEF found, q
  <2>6. /\ q.kind = "removeMeter" => q.meter \in used
        /\ q.kind = "removeRegister" => q.register \in used
    BY <2>5, NoneApart DEF FoundOrGone
  <2> QED BY <1>1, <1>4, <2>1, <2>2, <2>4, <2>5, <2>6 DEF Has, rows
<1> QED BY <1>3, <1>4, FoundSteps DEF Has

-----------------------------------------------------------------------------
(***************************************************************************)
(* What the page shows.                                                    *)
(***************************************************************************)

\* The steps of the server leave the page alone.
LEMMA ServerShowsNothing ==
  ASSUME NEW c \in Caller, Server(c)
  PROVE  UNCHANGED shown /\ UNCHANGED newest
BY DEF Server, LookUp, AnswerList, AddMeter, RemoveMeter, AddRegister, RemoveRegister,
       UpdateRegister, Behind, auxiliary

ShownType ==
  /\ page \in {"meters", "registers"} /\ selected \in Transformer
  /\ meters \subseteq MeterId /\ meter \in MeterId \cup {None}
  /\ registers \subseteq RegisterId
  /\ newest \in Caller \cup {None} /\ missed \in BOOLEAN

LEMMA ShownTypeKept ==
  ASSUME TypeOK, CallsInOrder, NEW c \in Caller, StepOf(c)
  PROVE  ShownType'
<1>0. ShownType
  BY DEF TypeOK, ShownType
<1>1. CASE Server(c)
  <2>1. UNCHANGED <<page, selected, meters, meter, registers, newest>>
    BY <1>1, ServerShowsNothing DEF shown
  <2>2. missed' \in BOOLEAN
    BY <1>0, <1>1 DEF Server, LookUp, AnswerList, AddMeter, RemoveMeter, AddRegister, RemoveRegister,
                 UpdateRegister, Behind, auxiliary, ShownType
  <2> QED BY <1>0, <2>1, <2>2 DEF ShownType
<1>2. CASE MetersPage(c)
  <2>1. CASE MetersShown(c)
    <3>1. call[c].list \subseteq MeterId
      BY <2>1 DEF MetersShown, Answered, Has, CallsInOrder, CallInOrder
    <3> QED BY <1>0, <2>1, <3>1 DEF MetersShown, ListShown, ShownType
  <2>2. CASE MetersPage(c) /\ ~MetersShown(c)
    BY <1>0, <2>2 DEF MetersPage, FetchTransformers, RefreshMeters, SubmitMeter, MeterWritten,
              HandleTransformerChange, DeleteMeter, List, shown, auxiliary, ShownType
  <2> QED BY <1>2, <2>1, <2>2
<1>3. CASE RegistersPage(c)
  <2>1. CASE MetersLoaded(c)
    <3>1. call[c].list \subseteq MeterId
      BY <2>1 DEF MetersLoaded, Answered, Has, CallsInOrder, CallInOrder
    <3> QED BY <1>0, <2>1, <3>1 DEF MetersLoaded, LoadRegisters, List, ShownType
  <2>2. CASE RegistersLoaded(c)
    <3>1. call[c].list \subseteq RegisterId
      BY <2>2 DEF RegistersLoaded, Answered, Has, CallsInOrder, CallInOrder
    <3> QED BY <1>0, <2>2, <3>1 DEF RegistersLoaded, ListShown, ShownType
  <2>3. CASE RegistersPage(c) /\ ~MetersLoaded(c) /\ ~RegistersLoaded(c)
    BY <1>0, <2>3 DEF RegistersPage, LoadTransformers, RegisterWritten, LoadRegisters, List,
              TransformerChosen, MeterChosen, SubmitRegister, DeleteRegister, shown, auxiliary, ShownType
  <2> QED BY <1>3, <2>1, <2>2, <2>3
<1>4. CASE ShowError(c) \/ Abandon(c) \/ \E w \in WriteElsewhere : SendElsewhere(w, c)
  BY <1>0, <1>4 DEF ShowError, Abandon, SendElsewhere, shown, auxiliary, ShownType
<1> QED BY <1>1, <1>2, <1>3, <1>4 DEF StepOf

LEMMA TypeKept ==
  ASSUME TypeOK, CallsInOrder, RegistersAreWhole, NEW c \in Caller, StepOf(c)
  PROVE  TypeOK'
<1>1. RowsType'
  BY RowsTypeKept
<1>2. ShownType'
  BY ShownTypeKept
<1>3. call' \in [Caller -> Call]
  BY StepCalls DEF CallStep
<1> QED BY <1>1, <1>2, <1>3 DEF RowsType, ShownType, TypeOK

LEMMA SelectionKeptListed ==
  ASSUME TypeOK, CallsInOrder, SelectionIsListed, NEW c \in Caller, StepOf(c)
  PROVE  SelectionIsListed'
<1>1. page' = page
  BY PageStays
<1> SUFFICES ASSUME page = "registers" PROVE SelectionIsListed'
  BY <1>1 DEF SelectionIsListed
<1>2. CASE Server(c)
  BY <1>2, ServerShowsNothing DEF shown, SelectionIsListed
<1>3. CASE MetersPage(c)
  BY <1>3 DEF MetersPage, FetchTransformers, RefreshMeters, MetersShown, SubmitMeter, MeterWritten,
              HandleTransformerChange, DeleteMeter, On, shown, SelectionIsListed
<1>4. CASE RegistersPage(c)
  <2>1. CASE MetersLoaded(c)
    <3>1. meters' = call[c].list /\ (call[c].list # {} => meter' \in call[c].list)
      BY <2>1 DEF MetersLoaded
    <3> QED BY <3>1 DEF SelectionIsListed
  <2>2. CASE RegistersPage(c) /\ ~MetersLoaded(c)
    BY <2>2 DEF RegistersPage, LoadTransformers, RegistersLoaded, RegisterWritten, TransformerChosen,
                MeterChosen, SubmitRegister, DeleteRegister, shown, SelectionIsListed
  <2> QED BY <1>4, <2>1, <2>2
<1>5. CASE ShowError(c) \/ Abandon(c) \/ \E w \in WriteElsewhere : SendElsewhere(w, c)
  BY <1>5 DEF ShowError, Abandon, SendElsewhere, shown, SelectionIsListed
<1> QED BY <1>2, <1>3, <1>4, <1>5 DEF StepOf

-----------------------------------------------------------------------------
(***************************************************************************)
(* Quiet lists.  Besides the types, three invariants carry the proof: the  *)
(* last request for the list is of what is selected, there is a list where *)
(* a meter has been selected, and the list is right, on its way, or will   *)
(* be asked for.                                                           *)
(***************************************************************************)

ListInv == LastListIsOfSelection /\ MeterBeforeList /\ ListIsShownOrComes

\* c's own write has been answered, so that it will ask for the list.
WillAsk(c) == call[c].own /\ call[c].kind \in Writing /\ call[c].stage = "answered"

\* What is to be shown depends on rows and the selection.
LEMMA StoredStays ==
  ASSUME UNCHANGED rows, page' = page, selected' = selected, meter' = meter
  PROVE  Stored' = Stored
BY DEF rows, Stored

LEMMA ShownStays ==
  ASSUME page' = page, meters' = meters, registers' = registers
  PROVE  Shown' = Shown
BY DEF Shown, MeterRows, RegisterRows

\* Where nothing changes but a request that is neither the last one for the list nor about to
\* ask for it.
LEMMA OtherCallKeepsList ==
  ASSUME TypeOK, ListInv, NEW c \in Caller, CallStep(c), newest # c, ~WillAsk(c),
         UNCHANGED shown, newest' = newest, missed' = missed, Stored' = Stored
  PROVE  ListInv'
<1>1. UNCHANGED <<page, selected, meters, meter, registers>>
  BY DEF shown
<1>2. newest # None => newest \in Caller \ {c} /\ call'[newest] = call[newest]
  BY DEF TypeOK, CallStep
<1>3. LastListIsOfSelection'
  BY <1>1, <1>2 DEF ListInv, LastListIsOfSelection
<1>4. MeterBeforeList'
  BY <1>1 DEF ListInv, MeterBeforeList
<1>5. Shown' = Shown
  BY <1>1, ShownStays
<1>6. ListIsShownOrComes'
  <2> SUFFICES ASSUME ~missed PROVE ListIsShownOrComes'
    BY DEF ListIsShownOrComes
  <2>1. CASE \E d \in Caller : WillAsk(d)
    <3>1. PICK d \in Caller \ {c} : WillAsk(d)
      BY <2>1
    <3>2. call'[d] = call[d]
      BY DEF CallStep
    <3> QED BY <3>1, <3>2 DEF WillAsk, ListIsShownOrComes
  <2>2. CASE newest = None /\ Shown = Stored
    BY <1>5, <2>2 DEF ListIsShownOrComes
  <2>3. CASE newest # None /\ (call[newest].stage = "answered" => call[newest].list = Stored)
    BY <1>2, <2>3 DEF ListIsShownOrComes
  <2> QED BY <2>1, <2>2, <2>3 DEF ListInv, ListIsShownOrComes, WillAsk
<1> QED BY <1>3, <1>4, <1>6 DEF ListInv

\* A new request for the list.
LEMMA AskedListComes ==
  ASSUME TypeOK, NEW c \in Caller, page' = page, NEW q, Send(c, q), newest' = c,
         page = "meters" => q = MetersOf(selected') /\ selected' \in Transformer,
         page = "registers" => q = RegistersOf(meter') /\ meter' \in MeterId /\ meters' # {}
  PROVE  ListInv'
<1>1. page \in {"meters", "registers"}
  BY DEF TypeOK
<1>2. /\ q \in Call /\ q.own /\ q.stage = "sent"
      /\ page = "meters" => q.kind = "listMeters" /\ q.transformer = selected'
      /\ page = "registers" => q.kind = "listRegisters" /\ q.meter = meter'
  BY <1>1, ListRequest
<1>3. call'[c] = q
  BY <1>2, SendChanges DEF TypeOK
<1>4. newest' # None
  BY NoneApart
<1> QED BY <1>1, <1>2, <1>3, <1>4 DEF ListInv, LastListIsOfSelection, MeterBeforeList, ListIsShownOrComes

\* Nothing is selected, and nothing is shown.
LEMMA NothingIsShown ==
  ASSUME page' = page, page = "registers", meter' = None, registers' = {}, newest' = None
  PROVE  ListInv'
BY DEF ListInv, LastListIsOfSelection, MeterBeforeList, ListIsShownOrComes, Shown, RegisterRows, Stored

\* The list that the page has waited for.
LEMMA ShownListIsStored ==
  ASSUME TypeOK, ListInv, NEW c \in Caller, CallStep(c), page' = page, UNCHANGED rows,
         selected' = selected, meter' = meter,
         ListShown(c), call[c].stage = "answered", call[c].kind \in Listing,
         page = "meters" => meters' = call[c].list,
         page = "registers" => registers' = call[c].list /\ meters' = meters
  PROVE  ListInv'
<1>1. missed' = (missed \/ newest # c) /\ newest' = IF newest = c THEN None ELSE newest
  BY DEF ListShown
<1>2. Stored' = Stored
  BY StoredStays
<1>3. newest' # None => newest' = newest /\ newest \in Caller \ {c} /\ call'[newest] = call[newest]
  BY <1>1 DEF TypeOK, CallStep
<1>4. LastListIsOfSelection'
  BY <1>3 DEF ListInv, LastListIsOfSelection
<1>5. MeterBeforeList'
  BY <1>1 DEF ListInv, MeterBeforeList
<1>6. ListIsShownOrComes'
  <2> SUFFICES ASSUME ~missed, newest = c PROVE ListIsShownOrComes'
    BY <1>1 DEF ListIsShownOrComes
  <2>1. CASE \E d \in Caller : WillAsk(d)
    <3>1. PICK d \in Caller : WillAsk(d)
      BY <2>1
    <3>2. call'[d] = call[d]
      BY <3>1 DEF CallStep, WillAsk, Listing, Writing
    <3> QED BY <3>1, <3>2 DEF WillAsk, ListIsShownOrComes
  <2>2. CASE call[c].list = Stored
    <3>1. Shown' = call[c].list
      BY DEF Shown, MeterRows, RegisterRows, TypeOK
    <3> QED BY <1>1, <1>2, <2>2, <3>1 DEF ListIsShownOrComes
  <2> QED BY <2>1, <2>2, NoneApart DEF ListInv, ListIsShownOrComes, WillAsk
<1> QED BY <1>4, <1>5, <1>6 DEF ListInv

\* loadRegisters, with the meters of the list.
LEMMA LoadRegistersKeepsList ==
  ASSUME TypeOK, NEW c \in Caller, page' = page, page = "registers",
         meter' \in meters' \/ (meter' = None /\ meters' = {}), meters' \subseteq MeterId,
         LoadRegisters(c, meter', meters')
  PROVE  ListInv'
<1>1. CASE meter' \in meters'
  BY <1>1, AskedListComes DEF LoadRegisters, List
<1>2. CASE meter' = None /\ meters' = {}
  BY <1>2, NothingIsShown DEF LoadRegisters
<1> QED BY <1>1, <1>2

\* A write of the server: the page's own one is answered or changes nothing, and that of
\* another client is missed if it changes what is to be shown.
LEMMA WriteKeepsList ==
  ASSUME TypeOK, ListInv, NEW c \in Caller, CallStep(c), page' = page,
         call[c].kind \in Writing, call[c].stage = "found", Behind(c),
         Answer(c) \/ (Refuse(c) /\ UNCHANGED rows)
  PROVE  ListInv'
<1>1. UNCHANGED <<page, selected, meters, meter, registers, newest>>
  BY DEF Behind, shown
<1>2. newest # c /\ ~WillAsk(c)
  BY NoneApart DEF ListInv, LastListIsOfSelection, WillAsk, Writing
<1>3. CASE missed'
  <2>1. newest # None => newest \in Caller \ {c} /\ call'[newest] = call[newest]
    BY <1>2 DEF TypeOK, CallStep
  <2>2. LastListIsOfSelection'
    BY <1>1, <2>1 DEF ListInv, LastListIsOfSelection
  <2>3. MeterBeforeList'
    BY <1>1, <1>3 DEF ListInv, MeterBeforeList
  <2> QED BY <1>3, <2>2, <2>3 DEF ListInv, ListIsShownOrComes
<1>4. CASE ~missed' /\ call[c].own /\ Answer(c)
  <2>1. WillAsk(c)'
    BY <1>4, ReplyChanges DEF Answer, TypeOK, WillAsk
  <2>2. newest # None => newest \in Caller \ {c} /\ call'[newest] = call[newest]
    BY <1>2 DEF TypeOK, CallStep
  <2>3. LastListIsOfSelection'
    BY <1>1, <2>2 DEF ListInv, LastListIsOfSelection
  <2>4. MeterBeforeList'
    BY <1>1, <1>4 DEF ListInv, MeterBeforeList, Behind
  <2> QED BY <2>1, <2>3, <2>4 DEF ListInv, ListIsShownOrComes, WillAsk
<1>5. CASE ~missed' /\ (~call[c].own \/ UNCHANGED rows)
  <2>1. Stored' = Stored
    BY <1>1, <1>5, StoredStays DEF Behind
  <2>2. missed' = missed
    BY <1>5 DEF Behind, TypeOK
  <2> QED BY <1>1, <1>2, <2>1, <2>2, OtherCallKeepsList DEF shown
<1> QED BY <1>3, <1>4, <1>5

LEMMA LookUpKeepsList ==
  ASSUME TypeOK, ListInv, CallsInOrder, RegistersAreWhole, NEW c \in Caller, LookUp(c)
  PROVE  ListInv'
<1>1. CallStep(c)
  BY LookUpCalls
<1>2. UNCHANGED <<page, selected, meters, meter, registers, newest, missed>> /\ UNCHANGED rows
  BY DEF LookUp, shown, auxiliary
<1>3. Stored' = Stored /\ Shown' = Shown
  BY <1>2, StoredStays, ShownStays
<1>4. CASE newest # c
  BY <1>1, <1>2, <1>3, <1>4, OtherCallKeepsList DEF LookUp, WillAsk, shown
<1>5. CASE newest = c
  <2> DEFINE q == call[c]
             found == [q EXCEPT !.stage = "found",
                                !.existing = IF q.kind = "updateRegister" THEN columns[q.register]
                                             ELSE None]
  <2>1. q.own /\ q \in Call
    BY <1>5, NoneApart DEF ListInv, LastListIsOfSelection, TypeOK
  <2>2. /\ found.kind = q.kind /\ found.own = q.own /\ found.stage = "found"
        /\ found.transformer = q.transformer /\ found.meter = q.meter
    BY <2>1 DEF Call
  <2>3. \/ call'[c] = found
        \/ call'[c].own /\ call'[c].kind = q.kind /\ call'[c].stage = "refused"
    <3>1. CASE Found(q)
      BY <3>1 DEF LookUp, Send, TypeOK
    <3>2. CASE ~Found(q)
      BY <2>1, <3>2, ReplyChanges DEF LookUp, Refuse, TypeOK
    <3> QED BY <3>1, <3>2
  <2> HIDE DEF found
  <2>4. LastListIsOfSelection'
    BY <1>2, <1>5, <2>1, <2>2, <2>3 DEF ListInv, LastListIsOfSelection, LookUp
  <2>5. MeterBeforeList'
    BY <1>2 DEF ListInv, MeterBeforeList
  <2>6. ListIsShownOrComes'
    BY <1>2, <1>5, <2>2, <2>3, NoneApart DEF ListIsShownOrComes
  <2> QED BY <2>4, <2>5, <2>6 DEF ListInv
<1> QED BY <1>4, <1>5

LEMMA AnswerKeepsList ==
  ASSUME TypeOK, ListInv, CallsInOrder, NEW c \in Caller, AnswerList(c)
  PROVE  ListInv'
<1>1. CallStep(c)
  BY ListAnswerCalls
<1>2. /\ UNCHANGED <<page, selected, meters, meter, registers, newest>> /\ UNCHANGED rows
      /\ missed' = (missed /\ newest # c)
  BY DEF AnswerList, shown
<1>3. Stored' = Stored /\ Shown' = Shown
  BY <1>2, StoredStays, ShownStays
<1>4. CASE newest # c
  <2>1. missed' = missed /\ ~WillAsk(c)
    BY <1>2, <1>4 DEF TypeOK, AnswerList, WillAsk
  <2> QED BY <1>1, <1>2, <1>3, <1>4, <2>1, OtherCallKeepsList DEF shown
<1>5. CASE newest = c
  <2>1. /\ call[c].own /\ newest # None
        /\ call[c].kind = IF page = "meters" THEN "listMeters" ELSE "listRegisters"
        /\ IF page = "meters" THEN call[c].transformer = selected ELSE call[c].meter = meter
    BY <1>5, NoneApart DEF ListInv, LastListIsOfSelection, AnswerList
  <2>2. page = "registers" => meter \in MeterId
    BY <2>1 DEF AnswerList, CallsInOrder, CallInOrder, TypeOK
  <2>3. Stored = IF call[c].kind = "listMeters" THEN {m \in MeterId : owner[m] = call[c].transformer}
                 ELSE {r \in RegisterId : meterOf[r] = call[c].meter}
    <3>1. CASE page = "meters"
      BY <2>1, <3>1 DEF Stored
    <3>2. CASE page = "registers"
      <4>1. meter # None /\ call[c].meter = meter /\ call[c].kind = "listRegisters"
        BY <2>1, <2>2, <3>2, NoneApart
      <4>2. Stored = {r \in RegisterId : meter # None /\ meterOf[r] = meter}
        BY <3>2 DEF Stored
      <4> QED BY <4>1, <4>2
    <3> QED BY <3>1, <3>2 DEF TypeOK
  <2>4. Stored \in (SUBSET MeterId) \cup SUBSET RegisterId
    BY DEF Stored
  <2>5. Reply(c, "answered", Stored)
    BY <2>3 DEF AnswerList
  <2> HIDE DEF Stored
  <2>6. /\ call'[c].own /\ call'[c].kind = call[c].kind /\ call'[c].stage = "answered"
        /\ call'[c].list = Stored
    BY <2>1, <2>4, <2>5, ReplyChanges DEF TypeOK
  <2>7. LastListIsOfSelection'
    BY <1>2, <1>5, <2>1, <2>6 DEF LastListIsOfSelection
  <2>8. MeterBeforeList'
    BY <1>2, <2>1 DEF ListInv, MeterBeforeList
  <2>9. ListIsShownOrComes'
    BY <1>2, <1>3, <1>5, <2>1, <2>6 DEF ListIsShownOrComes
  <2> QED BY <2>7, <2>8, <2>9 DEF ListInv
<1> QED BY <1>4, <1>5

LEMMA ServerKeepsList ==
  ASSUME TypeOK, ListInv, CallsInOrder, RegistersAreWhole, NEW c \in Caller, Server(c), page' = page
  PROVE  ListInv'
<1>1. CASE LookUp(c)
  BY <1>1, LookUpKeepsList
<1>2. CASE AnswerList(c)
  BY <1>2, AnswerKeepsList
<1>3. CASE AddMeter(c) \/ RemoveMeter(c) \/ AddRegister(c) \/ RemoveRegister(c) \/ UpdateRegister(c)
  <2>1. call[c].kind \in Writing /\ call[c].stage = "found" /\ Behind(c)
    BY <1>3 DEF AddMeter, RemoveMeter, AddRegister, RemoveRegister, UpdateRegister, Has, Writing
  <2>2. Answer(c) \/ (Refuse(c) /\ UNCHANGED rows)
    BY <1>3 DEF AddMeter, RemoveMeter, AddRegister, RemoveRegister, UpdateRegister, rows
  <2> QED BY <2>1, <2>2, ServerCalls, WriteKeepsList
<1> QED BY <1>1, <1>2, <1>3 DEF Server

LEMMA MetersPageKeepsList ==
  ASSUME TypeOK, ListInv, CallsInOrder, NEW c \in Caller, CallStep(c), page' = page, MetersPage(c)
  PROVE  ListInv'
<1>1. page = "meters" => (newest = c => call[c].kind = "listMeters")
  BY NoneApart DEF ListInv, LastListIsOfSelection
<1>2. CASE FetchTransformers(c) \/ RefreshMeters(c) \/ \E t \in Transformer : HandleTransformerChange(t, c)
  BY <1>2, AskedListComes DEF FetchTransformers, RefreshMeters, HandleTransformerChange, On, List,
     shown, TypeOK
<1>3. CASE MetersShown(c)
  BY <1>3, ShownListIsStored DEF MetersShown, Answered, Has, Listing
<1>4. CASE SubmitMeter(c) \/ \E m \in MeterId : DeleteMeter(m, c)
  <2>1. UNCHANGED rows /\ UNCHANGED shown /\ UNCHANGED auxiliary
    BY <1>4 DEF SubmitMeter, DeleteMeter
  <2>2. page = "meters" /\ call[c].kind = "none"
    BY <1>4 DEF SubmitMeter, DeleteMeter, On
  <2>3. Stored' = Stored
    BY <2>1, StoredStays DEF shown
  <2> QED BY <1>1, <2>1, <2>2, <2>3, OtherCallKeepsList DEF auxiliary, WillAsk, Writing
<1>5. CASE MeterWritten(c)
  <2>1. page = "meters"
    BY <1>5 DEF MeterWritten, Answered, Has, CallsInOrder, CallInOrder, TypeOK
  <2> QED BY <1>5, <2>1, AskedListComes DEF MeterWritten, List, shown, TypeOK
<1> QED BY <1>2, <1>3, <1>4, <1>5 DEF MetersPage

LEMMA RegistersPageKeepsList ==
  ASSUME TypeOK, ListInv, CallsInOrder, SelectionIsListed,
         NEW c \in Caller, CallStep(c), page' = page, RegistersPage(c)
  PROVE  ListInv'
<1>1. page = "registers" => (newest = c => call[c].kind = "listRegisters")
  BY NoneApart DEF ListInv, LastListIsOfSelection
<1>2. CASE \E t \in Transformer : TransformerChosen(t, c)
  BY <1>2, NothingIsShown DEF TransformerChosen, On
<1>3. CASE \E m \in MeterId : MeterChosen(m, c)
  BY <1>3, AskedListComes DEF MeterChosen, On, List, TypeOK
<1>4. CASE \/ LoadTransformers(c) \/ (\E f \in Columns : SubmitRegister(f, c))
           \/ (\E r \in RegisterId : DeleteRegister(r, c))
  <2>1. UNCHANGED rows /\ UNCHANGED shown /\ UNCHANGED auxiliary
    BY <1>4 DEF LoadTransformers, SubmitRegister, DeleteRegister
  <2>2. page = "registers" /\ call[c].kind = "none"
    BY <1>4 DEF LoadTransformers, SubmitRegister, DeleteRegister, On
  <2>3. Stored' = Stored
    BY <2>1, StoredStays DEF shown
  <2> QED BY <1>1, <2>1, <2>2, <2>3, OtherCallKeepsList DEF auxiliary, WillAsk, Writing
<1>5. CASE MetersLoaded(c)
  <2>1. page = "registers" /\ call[c].list \subseteq MeterId
    BY <1>5 DEF MetersLoaded, Answered, Has, CallsInOrder, CallInOrder
  <2>2. meter' \in meters' \/ (meter' = None /\ meters' = {})
    BY <1>5 DEF MetersLoaded
  <2>3. LoadRegisters(c, meter', meters') /\ meters' \subseteq MeterId
    BY <1>5, <2>1 DEF MetersLoaded
  <2> QED BY <2>1, <2>2, <2>3, LoadRegistersKeepsList
<1>6. CASE RegistersLoaded(c)
  <2>1. page = "registers"
    BY <1>6 DEF RegistersLoaded, Answered, Has, CallsInOrder, CallInOrder, TypeOK
  <2> QED BY <1>6, <2>1, ShownListIsStored DEF RegistersLoaded, Answered, Has, Listing
<1>7. CASE RegisterWritten(c)
  <2>1. page = "registers" /\ UNCHANGED <<meters, meter, missed>> /\ LoadRegisters(c, meter, meters)
    BY <1>7 DEF RegisterWritten, Answered, Has, CallsInOrder, CallInOrder, TypeOK
  <2>2. CASE meter \in meters \/ (meter = None /\ meters = {})
    BY <2>1, <2>2, LoadRegistersKeepsList DEF TypeOK
  <2>3. CASE meters = {} /\ meter # None
    BY <2>1, <2>3 DEF ListInv, LastListIsOfSelection, MeterBeforeList, ListIsShownOrComes, LoadRegisters
  <2> QED BY <2>1, <2>2, <2>3 DEF SelectionIsListed
<1> QED BY <1>2, <1>3, <1>4, <1>5, <1>6, <1>7 DEF RegistersPage

LEMMA EndKeepsList ==
  ASSUME TypeOK, ListInv, CallsInOrder, NEW c \in Caller, CallStep(c), page' = page,
         ShowError(c) \/ Abandon(c)
  PROVE  ListInv'
<1>1. /\ UNCHANGED <<page, selected, meters, meter, registers>> /\ UNCHANGED rows
      /\ newest' = IF newest = c THEN None ELSE newest
      /\ missed => missed'
      /\ newest = c => missed'
  BY NoneApart DEF ShowError, Abandon, shown, ListInv, LastListIsOfSelection, Listing
<1>2. newest' # None => newest' = newest /\ newest \in Caller \ {c} /\ call'[newest] = call[newest]
  BY <1>1 DEF TypeOK, CallStep
<1>3. CASE missed'
  <2>1. LastListIsOfSelection'
    BY <1>1, <1>2 DEF ListInv, LastListIsOfSelection
  <2>2. MeterBeforeList'
    BY <1>1, <1>3 DEF ListInv, MeterBeforeList
  <2> QED BY <1>3, <2>1, <2>2 DEF ListInv, ListIsShownOrComes
<1>4. CASE ~missed'
  <2>1. ShowError(c) /\ newest # c /\ missed' = missed
    BY <1>1, <1>4 DEF Abandon, ShowError, TypeOK
  <2>2. ~WillAsk(c) /\ newest' = newest
    BY <1>1, <2>1 DEF ShowError, WillAsk
  <2>3. Stored' = Stored
    BY <1>1, StoredStays
  <2> QED BY <1>1, <2>1, <2>2, <2>3, OtherCallKeepsList DEF shown
<1> QED BY <1>3, <1>4

LEMMA ListKept ==
  ASSUME TypeOK, ListInv, CallsInOrder, RegistersAreWhole, SelectionIsListed,
         NEW c \in Caller, StepOf(c)
  PROVE  ListInv'
<1>1. CallStep(c) /\ page' = page
  BY StepCalls, PageStays
<1>2. CASE \E w \in WriteElsewhere : SendElsewhere(w, c)
  <2>1. UNCHANGED rows /\ UNCHANGED shown /\ UNCHANGED auxiliary /\ call[c].kind = "none"
    BY <1>2 DEF SendElsewhere
  <2>2. newest # c /\ ~WillAsk(c)
    BY <2>1, NoneApart DEF ListInv, LastListIsOfSelection, WillAsk, Writing
  <2>3. Stored' = Stored
    BY <2>1, StoredStays DEF shown
  <2> QED BY <1>1, <2>1, <2>2, <2>3, OtherCallKeepsList DEF auxiliary
<1> QED BY <1>1, <1>2, ServerKeepsList, MetersPageKeepsList, RegistersPageKeepsList, EndKeepsList DEF StepOf

-----------------------------------------------------------------------------
(***************************************************************************)
(* The invariant of these two pages, and what follows from it.             *)
(***************************************************************************)

SetupParts ==
  /\ TypeOK /\ SelectionIsListed /\ RegistersAreWhole /\ CallsInOrder /\ FoundOrGone
  /\ LastListIsOfSelection /\ MeterBeforeList /\ ListIsShownOrComes

LEMMA SetupBegins ==
  ASSUME Init
  PROVE  SetupParts
<1>1. call \in [Caller -> Call] /\ \A c \in Caller : call[c] = NoCall
  BY NoCallType DEF Init
<1>2. TypeOK
  BY <1>1 DEF Init, TypeOK
<1>3. SelectionIsListed /\ RegistersAreWhole
  BY <1>2, NoneApart DEF Init, SelectionIsListed, RegistersAreWhole, TypeOK
<1>4. CallsInOrder
  BY <1>1 DEF CallsInOrder, CallInOrder, NoCall, Writing
<1>5. FoundOrGone
  BY <1>1 DEF Init, FoundOrGone, Has, NoCall
<1>6. LastListIsOfSelection /\ MeterBeforeList /\ ListIsShownOrComes
  BY DEF Init, LastListIsOfSelection, MeterBeforeList, ListIsShownOrComes
<1> QED BY <1>2, <1>3, <1>4, <1>5, <1>6 DEF SetupParts

LEMMA SetupStep ==
  ASSUME SetupParts, Next
  PROVE  SetupParts' /\ page' = page
<1>1. PICK c \in Caller : StepOf(c)
  BY StepIsOfOne
<1>2. page' = page /\ CallStep(c)
  BY <1>1, PageStays, StepCalls DEF SetupParts
<1>3. TypeOK' /\ SelectionIsListed' /\ RegistersAreWhole' /\ CallsInOrder' /\ FoundOrGone'
  BY <1>1, <1>2, TypeKept, SelectionKeptListed, RegistersKeptWhole, CallsKeptInOrder, FoundKeptOrGone
     DEF SetupParts
<1>4. ListInv'
  BY <1>1, ListKept DEF SetupParts, ListInv
<1> QED BY <1>2, <1>3, <1>4 DEF SetupParts, ListInv

LEMMA SetupStands ==
  ASSUME SetupParts, UNCHANGED vars
  PROVE  SetupParts'
BY DEF SetupParts, vars, rows, shown, auxiliary, TypeOK, SelectionIsListed, RegistersAreWhole,
       CallsInOrder, CallInOrder, FoundOrGone, Has, LastListIsOfSelection, MeterBeforeList,
       ListIsShownOrComes, Shown, Stored, MeterRows, RegisterRows, Valid

\* A page that waits for nothing has no request for the list, and nothing to ask for.
LEMMA SetupQuiet ==
  ASSUME SetupParts, \A c \in Caller : ~call[c].own, ~missed
  PROVE  Shown = Stored
BY DEF SetupParts, LastListIsOfSelection, ListIsShownOrComes, TypeOK

\* A register goes, or goes below another meter, in two steps only, each below the selection
\* of its click.
LEMMA DeletesBelow ==
  ASSUME SetupParts, Next, NEW r \in RegisterId, meterOf[r] # None, meterOf'[r] # meterOf[r]
  PROVE  \E c \in Caller :
           \/ RemoveRegister(c) /\ call[c].meter = meterOf[r]
           \/ RemoveMeter(c) /\ call[c].transformer = owner[meterOf[r]]
<1>1. PICK c \in Caller : StepOf(c)
  BY StepIsOfOne
<1>2. r \in used /\ owner[meterOf[r]] # None
  BY DEF SetupParts, FoundOrGone, RegistersAreWhole
<1>3. CASE RemoveRegister(c)
  <2>1. r = call[c].register
    BY <1>3 DEF RemoveRegister, DropRegisters
  <2> QED BY <1>3, <2>1 DEF RemoveRegister, SetupParts, FoundOrGone
<1>4. CASE RemoveMeter(c)
  <2>1. call[c].meter = meterOf[r]
    BY <1>4 DEF RemoveMeter, DropRegisters
  <2> QED BY <1>2, <1>4, <2>1 DEF RemoveMeter, SetupParts, FoundOrGone
<1>5. CASE AddRegister(c)
  BY <1>2, <1>5 DEF AddRegister, SetupParts, TypeOK
<1>6. CASE AddMeter(c) \/ UpdateRegister(c) \/ UNCHANGED rows
  BY <1>6 DEF AddMeter, UpdateRegister, rows
<1> QED BY <1>1, <1>3, <1>4, <1>5, <1>6, RowSteps

-----------------------------------------------------------------------------
(***************************************************************************)
(* transformers.js and dashboard.js: the tasks.                            *)
(***************************************************************************)

\* The instances have operators of the library of their own, which are the same.
LEMMA OverviewCardinality ==
  ASSUME NEW S
  PROVE  Overview!Cardinality(S) = Cardinality(S)
BY DEF Overview!Cardinality, Cardinality

LEMMA OverviewNoTask ==
  LET q == Overview!NoTask IN
  q \in Overview!Task /\ q.kind = "none" /\ q.stage = "sent" /\ q.list = {}
BY DEF Overview!NoTask, Overview!Task

LEMMA OverviewAsk ==
  LET q == Overview!Ask("list") IN
  q \in Overview!Task /\ q.kind = "list" /\ q.stage = "sent" /\ q.list = {}
BY DEF Overview!Ask, Overview!NoTask, Overview!Task, Overview!Reading

LEMMA OverviewAskAdd ==
  ASSUME NEW u \in User
  PROVE  LET q == Overview!AskAbout("add", u, None) IN
         /\ q \in Overview!Task /\ q.kind = "add" /\ q.stage = "sent" /\ q.list = {} /\ q.user = u
BY DEF Overview!AskAbout, Overview!Ask, Overview!NoTask, Overview!Task, Overview!Writing

LEMMA OverviewAskRemove ==
  ASSUME NEW t \in Transformer
  PROVE  LET q == Overview!AskAbout("remove", None, t) IN
         /\ q \in Overview!Task /\ q.kind = "remove" /\ q.stage = "sent" /\ q.list = {}
         /\ q.transformer = t
BY DEF Overview!AskAbout, Overview!Ask, Overview!NoTask, Overview!Task, Overview!Writing

OverviewCounting(ts) == [Overview!Ask("counts") EXCEPT !.list = ts, !.asked = ts]

LEMMA OverviewAskCounts ==
  ASSUME NEW ts \in SUBSET Transformer
  PROVE  LET q == OverviewCounting(ts) IN
         /\ q \in Overview!Task /\ q.kind = "counts" /\ q.stage = "sent" /\ q.list = ts /\ q.asked = ts
BY DEF OverviewCounting, Overview!Ask, Overview!NoTask, Overview!Task, Overview!Counting

LEMMA OverviewDo ==
  ASSUME task \in [Caller -> Overview!Task], NEW c \in Caller, NEW q \in Overview!Task,
         Overview!Do(c, q)
  PROVE  /\ task' \in [Caller -> Overview!Task] /\ task'[c] = q
         /\ \A d \in Caller \ {c} : task'[d] = task[d]
BY DEF Overview!Do

\* What the server makes of a task.
WithList(q, ts) == [q EXCEPT !.stage = "answered", !.list = ts]
WithRow(q, t) == [q EXCEPT !.stage = "answered", !.transformer = t]
WithMeters(q, t, ms) == [q EXCEPT !.asked = @ \ {t}, !.got[t] = ms]
WithoutMeters(q, t) == [q EXCEPT !.asked = @ \ {t}, !.failed = @ \cup {t}, !.got[t] = {}]

LEMMA OverviewTaskAnswered ==
  ASSUME NEW q \in Overview!Task, NEW ts \in SUBSET Transformer,
         NEW a, a = WithList(q, ts)
  PROVE  /\ a \in Overview!Task /\ a.kind = q.kind /\ a.stage = "answered" /\ a.user = q.user
         /\ a.transformer = q.transformer /\ a.list = ts
BY DEF Overview!Task, WithList

LEMMA OverviewTaskAdded ==
  ASSUME NEW q \in Overview!Task, NEW t \in Transformer,
         NEW a, a = WithRow(q, t)
  PROVE  /\ a \in Overview!Task /\ a.kind = q.kind /\ a.stage = "answered" /\ a.user = q.user
         /\ a.transformer = t /\ a.list = q.list
BY DEF Overview!Task, WithRow

LEMMA OverviewTaskStage ==
  ASSUME NEW q \in Overview!Task, NEW stage \in {"answered", "refused"},
         NEW a, a = [q EXCEPT !.stage = stage]
  PROVE  /\ a \in Overview!Task /\ a.kind = q.kind /\ a.stage = stage /\ a.user = q.user
         /\ a.transformer = q.transformer /\ a.list = q.list
BY DEF Overview!Task

LEMMA OverviewTaskMeters ==
  ASSUME NEW q \in Overview!Task, NEW t \in Transformer, NEW ms \in SUBSET Counted,
         NEW a, a = WithMeters(q, t, ms)
  PROVE  /\ a \in Overview!Task /\ a.kind = q.kind /\ a.stage = q.stage /\ a.user = q.user
         /\ a.transformer = q.transformer /\ a.list = q.list /\ a.asked = q.asked \ {t}
         /\ a.failed = q.failed
         /\ a.got[t] = ms /\ \A x \in Transformer \ {t} : a.got[x] = q.got[x]
<1> DEFINE got == [q.got EXCEPT ![t] = ms]
<1>1. got \in [Transformer -> (SUBSET Counted) \cup {None}]
  BY DEF Overview!Task
<1>2. got[t] = ms /\ \A x \in Transformer \ {t} : got[x] = q.got[x]
  BY DEF Overview!Task
<1>3. a = [q EXCEPT !.asked = @ \ {t}, !.got = got]
  BY DEF WithMeters
<1> HIDE DEF got
<1> QED BY <1>1, <1>2, <1>3 DEF Overview!Task

LEMMA OverviewTaskFailed ==
  ASSUME NEW q \in Overview!Task, NEW t \in Transformer,
         NEW a, a = WithoutMeters(q, t)
  PROVE  /\ a \in Overview!Task /\ a.kind = q.kind /\ a.stage = q.stage /\ a.user = q.user
         /\ a.transformer = q.transformer /\ a.list = q.list /\ a.asked = q.asked \ {t}
         /\ a.failed = q.failed \cup {t}
         /\ a.got[t] = {} /\ \A x \in Transformer \ {t} : a.got[x] = q.got[x]
<1> DEFINE got == [q.got EXCEPT ![t] = {}]
<1>1. got \in [Transformer -> (SUBSET Counted) \cup {None}]
  BY DEF Overview!Task
<1>2. got[t] = {} /\ \A x \in Transformer \ {t} : got[x] = q.got[x]
  BY DEF Overview!Task
<1>3. a = [q EXCEPT !.asked = @ \ {t}, !.failed = @ \cup {t}, !.got = got]
  BY DEF WithoutMeters
<1> HIDE DEF got
<1>4. q.asked \ {t} \in SUBSET Transformer /\ q.failed \cup {t} \in SUBSET Transformer
  BY DEF Overview!Task
<1>5. /\ a.kind = q.kind /\ a.stage = q.stage /\ a.user = q.user
      /\ a.transformer = q.transformer /\ a.list = q.list /\ a.asked = q.asked \ {t}
      /\ a.failed = q.failed \cup {t} /\ a.got = got
  BY <1>3 DEF Overview!Task
<1>6. a \in Overview!Task
  BY <1>1, <1>3, <1>4 DEF Overview!Task
<1> QED BY <1>2, <1>5, <1>6

\* The steps of a caller, and what each does to the tasks.
OverviewStepOf(c) == Overview!Page(c) \/ Overview!Server(c)

TaskStep(c, a) ==
  /\ task' \in [Caller -> Overview!Task] /\ task'[c] = a /\ a \in Overview!Task
  /\ \A d \in Caller \ {c} : task'[d] = task[d]

\* A chain begins.
Begins(c, a) ==
  /\ task[c].kind = "none" /\ a.stage = "sent" /\ a.list = {}
  /\ a.kind \in {"list", "add", "remove"}
  /\ a.kind = "add" => a.user \in User
  /\ a.kind = "remove" => a.transformer \in Overview!Listed
  /\ page = "dashboard" =>
       a.kind = "list" /\ summary' = None /\ \A d \in Caller : task[d].kind = "none"

\* Its first answer.
ListAnswered(c, a) ==
  /\ task[c].kind = "list" /\ task[c].stage = "sent"
  /\ a.kind = "list" /\ a.stage = "answered" /\ a.list = Overview!Existing

EditAnswered(c, a) ==
  /\ task[c].kind \in {"add", "remove"} /\ task[c].stage = "sent"
  /\ a.kind = task[c].kind /\ a.stage = "answered" /\ a.user = task[c].user
  /\ a.list = task[c].list

LEMMA OverviewBegins ==
  ASSUME Overview!TypeOK, NEW c \in Caller,
         \/ Overview!FetchTransformers(c) \/ Overview!UpdateStats(c)
         \/ \E u \in User : Overview!AddTransformer(u, c)
         \/ \E t \in Transformer : Overview!RemoveTransformer(t, c)
  PROVE  \E a : TaskStep(c, a) /\ Begins(c, a)
<1>0. task \in [Caller -> Overview!Task]
  BY DEF Overview!TypeOK, Overview!RowsOK
<1>1. CASE Overview!FetchTransformers(c) \/ Overview!UpdateStats(c)
  <2>1. Overview!Do(c, Overview!Ask("list")) /\ task[c].kind = "none"
    BY <1>1 DEF Overview!FetchTransformers, Overview!UpdateStats, Overview!At, Overview!Idle
  <2>2. page = "dashboard" => summary' = None /\ \A d \in Caller : task[d].kind = "none"
    BY <1>1 DEF Overview!FetchTransformers, Overview!UpdateStats, Overview!At, Overview!Idle
  <2> DEFINE a == Overview!Ask("list")
  <2>3. TaskStep(c, a) /\ Begins(c, a)
    <3> HIDE DEF a
    <3>1. a \in Overview!Task /\ a.kind = "list" /\ a.stage = "sent" /\ a.list = {}
      BY OverviewAsk DEF a
    <3> QED BY <1>0, <2>1, <2>2, <3>1, OverviewDo DEF TaskStep, Begins, a
  <2> QED BY <2>3
<1>2. CASE \E u \in User : Overview!AddTransformer(u, c)
  <2>1. PICK u \in User : Overview!AddTransformer(u, c)
    BY <1>2
  <2> DEFINE a == Overview!AskAbout("add", u, None)
  <2>2. /\ a \in Overview!Task /\ a.kind = "add" /\ a.stage = "sent" /\ a.list = {} /\ a.user = u
    BY OverviewAskAdd
  <2>3. Overview!Do(c, a) /\ task[c].kind = "none" /\ page = "transformers"
    BY <2>1 DEF Overview!AddTransformer, Overview!At, Overview!Idle
  <2> HIDE DEF a
  <2>4. TaskStep(c, a) /\ Begins(c, a)
    BY <1>0, <2>2, <2>3, OverviewDo DEF TaskStep, Begins
  <2> QED BY <2>4
<1>3. CASE \E t \in Transformer : Overview!RemoveTransformer(t, c)
  <2>1. PICK t \in Transformer : Overview!RemoveTransformer(t, c)
    BY <1>3
  <2> DEFINE a == Overview!AskAbout("remove", None, t)
  <2>2. /\ a \in Overview!Task /\ a.kind = "remove" /\ a.stage = "sent" /\ a.list = {}
        /\ a.transformer = t
    BY OverviewAskRemove
  <2>3. /\ Overview!Do(c, a) /\ task[c].kind = "none" /\ page = "transformers"
        /\ t \in Overview!Listed
    BY <2>1 DEF Overview!RemoveTransformer, Overview!At, Overview!Idle
  <2> HIDE DEF a
  <2>4. TaskStep(c, a) /\ Begins(c, a)
    BY <1>0, <2>2, <2>3, OverviewDo DEF TaskStep, Begins
  <2> QED BY <2>4
<1> QED BY <1>1, <1>2, <1>3

LEMMA OverviewCounts ==
  ASSUME task \in [Caller -> Overview!Task], NEW c \in Caller, NEW ts \in SUBSET Transformer,
         Overview!Do(c, OverviewCounting(ts)), NEW a, a = OverviewCounting(ts)
  PROVE  /\ TaskStep(c, a) /\ a.kind = "counts" /\ a.stage = "sent" /\ a.list = ts /\ a.asked = ts
BY OverviewAskCounts, OverviewDo DEF TaskStep

LEMMA OverviewDone ==
  ASSUME task \in [Caller -> Overview!Task], NEW c \in Caller, Overview!Done(c)
  PROVE  /\ TaskStep(c, Overview!NoTask) /\ task'[c].kind = "none" /\ task'[c].stage = "sent"
         /\ task'[c].list = {}
BY OverviewNoTask, OverviewDo DEF TaskStep, Overview!Done

LEMMA OverviewAnswersList ==
  ASSUME task \in [Caller -> Overview!Task], NEW c \in Caller, Overview!AnswerList(c)
  PROVE  \E a : TaskStep(c, a) /\ ListAnswered(c, a)
<1> DEFINE q == task[c]
<1>0. PICK a : a = WithList(q, Overview!Existing)
  OBVIOUS
<1>1. q.kind = "list" /\ q.stage = "sent" /\ q \in Overview!Task
  BY DEF Overview!AnswerList, Overview!AnswerRead
<1>2. Overview!Result(q) = Overview!Existing
  BY <1>1 DEF Overview!Result
<1>3. Overview!Do(c, a)
  BY <1>0, <1>2 DEF Overview!AnswerList, Overview!AnswerRead, WithList
<1>4. Overview!Existing \in SUBSET Transformer
  BY DEF Overview!Existing
<1>5. /\ a \in Overview!Task /\ a.kind = q.kind /\ a.stage = "answered"
      /\ a.list = Overview!Existing
  BY <1>0, <1>1, <1>4, OverviewTaskAnswered
<1> QED BY <1>1, <1>3, <1>5, OverviewDo DEF TaskStep, ListAnswered

\* The two edits of the page, carried out.
LEMMA OverviewAnswersEdit ==
  ASSUME task \in [Caller -> Overview!Task], NEW c \in Caller, Overview!AnswerEdit(c),
         task[c].kind = "remove" => task[c].transformer \in Transformer
  PROVE  \E a : /\ TaskStep(c, a) /\ EditAnswered(c, a) /\ a.transformer \in Transformer
                /\ \/ a.kind = "add" /\ Overview!Create(a.transformer, a.user)
                   \/ /\ a.kind = "remove" /\ a.transformer = task[c].transformer
                      /\ Overview!Delete(a.transformer)
<1> DEFINE q == task[c]
<1>1. q \in Overview!Task
  OBVIOUS
<1>2. CASE q.kind = "add" /\ q.stage = "sent" /\
           \E t \in Transformer :
             /\ Overview!Create(t, q.user)
             /\ Overview!Do(c, [q EXCEPT !.stage = "answered", !.transformer = t])
  <2>1. PICK t \in Transformer :
             /\ Overview!Create(t, q.user)
             /\ Overview!Do(c, [q EXCEPT !.stage = "answered", !.transformer = t])
    BY <1>2
  <2>0. PICK a : a = WithRow(q, t)
    OBVIOUS
  <2>2. /\ a \in Overview!Task /\ a.kind = q.kind /\ a.stage = "answered" /\ a.user = q.user
        /\ a.transformer = t /\ a.list = q.list
    BY <1>1, <2>0, OverviewTaskAdded
  <2>3. Overview!Do(c, a)
    BY <2>0, <2>1 DEF WithRow
  <2>4. TaskStep(c, a) /\ EditAnswered(c, a)
    BY <1>2, <2>2, <2>3, OverviewDo DEF TaskStep, EditAnswered
  <2> QED BY <1>2, <2>1, <2>2, <2>4
<1>3. CASE /\ q.kind = "remove" /\ q.stage = "sent" /\ Overview!Delete(q.transformer)
           /\ Overview!Do(c, [q EXCEPT !.stage = "answered"])
  <2> DEFINE a == [q EXCEPT !.stage = "answered"]
  <2>1. /\ a \in Overview!Task /\ a.kind = q.kind /\ a.stage = "answered" /\ a.user = q.user
        /\ a.transformer = q.transformer /\ a.list = q.list
    BY <1>1, OverviewTaskStage
  <2>2. Overview!Do(c, a)
    BY <1>3
  <2> HIDE DEF a
  <2>3. TaskStep(c, a) /\ EditAnswered(c, a)
    BY <1>3, <2>1, <2>2, OverviewDo DEF TaskStep, EditAnswered
  <2> QED BY <1>3, <2>1, <2>3
<1> QED BY <1>2, <1>3 DEF Overview!AnswerEdit, Overview!Sent

LEMMA OverviewRefuses ==
  ASSUME task \in [Caller -> Overview!Task], NEW c \in Caller, Overview!Refuse(c)
  PROVE  \E a : /\ TaskStep(c, a) /\ task[c].stage = "sent" /\ a.stage = "refused"
                /\ a.kind = task[c].kind /\ a.user = task[c].user
                /\ a.transformer = task[c].transformer /\ a.list = task[c].list
                /\ a.kind \in Overview!Reading \cup Overview!Writing
<1> DEFINE q == task[c]
           a == [q EXCEPT !.stage = "refused"]
<1>1. q \in Overview!Task
  OBVIOUS
<1>2. /\ a \in Overview!Task /\ a.kind = q.kind /\ a.stage = "refused" /\ a.user = q.user
      /\ a.transformer = q.transformer /\ a.list = q.list
  BY <1>1, OverviewTaskStage
<1>3. /\ Overview!Do(c, a) /\ q.stage = "sent"
      /\ q.kind \in Overview!Reading \cup Overview!Writing
  BY DEF Overview!Refuse, Overview!RefuseNamed
<1> HIDE DEF a
<1> QED BY <1>2, <1>3, OverviewDo DEF TaskStep

\* A counting goes on by the meters of t, or without them.
LEMMA OverviewMeters ==
  ASSUME task \in [Caller -> Overview!Task], NEW c \in Caller, task[c].kind = "counts",
         NEW t \in Transformer, Overview!AnswerMeters(c, t) \/ Overview!FailMeters(c, t)
  PROVE  \E a :
           /\ TaskStep(c, a) /\ a.kind = "counts" /\ a.stage = task[c].stage
           /\ a.list = task[c].list /\ t \in task[c].asked /\ a.asked = task[c].asked \ {t}
           /\ \A x \in Transformer \ {t} : a.got[x] = task[c].got[x]
           /\ a.got[t] \in SUBSET Counted
           /\ \/ /\ a.got[t] = Overview!MetersAt(t) /\ a.failed = task[c].failed
                 /\ missed' = missed
              \/ /\ a.got[t] = {} /\ a.failed = task[c].failed \cup {t}
                 /\ missed' = (missed \/ (holder[t] # None /\ page # "dashboard"))
<1> DEFINE q == task[c]
<1>1. q \in Overview!Task
  OBVIOUS
<1>2. CASE Overview!AnswerMeters(c, t)
  <2> DEFINE ms == Overview!MetersAt(t)
  <2>0. PICK a : a = WithMeters(q, t, ms)
    OBVIOUS
  <2>1. ms \in SUBSET Counted
    BY DEF Overview!MetersAt
  <2>2. Overview!Do(c, a) /\ t \in q.asked /\ missed' = missed
    BY <1>2, <2>0 DEF Overview!AnswerMeters, WithMeters
  <2> HIDE DEF ms
  <2>3. /\ a \in Overview!Task /\ a.kind = q.kind /\ a.stage = q.stage /\ a.list = q.list
        /\ a.asked = q.asked \ {t} /\ a.failed = q.failed
        /\ a.got[t] = ms /\ \A x \in Transformer \ {t} : a.got[x] = q.got[x]
    BY <1>1, <2>0, <2>1, OverviewTaskMeters
  <2>4. TaskStep(c, a)
    BY <2>2, <2>3, OverviewDo DEF TaskStep
  <2> QED BY <2>1, <2>2, <2>3, <2>4 DEF ms
<1>3. CASE Overview!FailMeters(c, t)
  <2>0. PICK a : a = WithoutMeters(q, t)
    OBVIOUS
  <2>1. /\ Overview!Do(c, a) /\ t \in q.asked
        /\ missed' = (missed \/ (holder[t] # None /\ page # "dashboard"))
    BY <1>3, <2>0 DEF Overview!FailMeters, WithoutMeters
  <2>2. /\ a \in Overview!Task /\ a.kind = q.kind /\ a.stage = q.stage /\ a.list = q.list
        /\ a.asked = q.asked \ {t} /\ a.failed = q.failed \cup {t}
        /\ a.got[t] = {} /\ \A x \in Transformer \ {t} : a.got[x] = q.got[x]
    BY <1>1, <2>0, OverviewTaskFailed
  <2>3. TaskStep(c, a)
    BY <2>1, <2>2, OverviewDo DEF TaskStep
  <2> QED BY <2>1, <2>2, <2>3
<1> QED BY <1>2, <1>3

-----------------------------------------------------------------------------
(***************************************************************************)
(* The rows of these pages.                                                *)
(***************************************************************************)

OverviewRows ==
  /\ accounts \subseteq User
  /\ holder \in [Transformer -> accounts \cup {None}]
  /\ owner \in [Counted -> Overview!Existing \cup {None}]
  /\ Overview!Existing \subseteq used

LEMMA OverviewCreates ==
  ASSUME OverviewRows, NEW t \in Transformer, NEW u, Overview!Create(t, u)
  PROVE  /\ OverviewRows' /\ t \notin used /\ used' = used \cup {t} /\ accounts' = accounts
         /\ Overview!Existing' = Overview!Existing \cup {t}
         /\ \A x \in Transformer : Overview!MetersAt(x)' = Overview!MetersAt(x)
<1>1. /\ u \in accounts /\ t \notin used /\ holder' = [holder EXCEPT ![t] = u]
      /\ used' = used \cup {t} /\ accounts' = accounts /\ owner' = owner
  BY DEF Overview!Create
<1>2. u # None
  BY <1>1, PanelAssumption DEF OverviewRows
<1>3. Overview!Existing' = Overview!Existing \cup {t}
  BY <1>1, <1>2 DEF OverviewRows, Overview!Existing
<1>4. \A x \in Transformer : Overview!MetersAt(x)' = Overview!MetersAt(x)
  BY <1>1 DEF Overview!MetersAt
<1>5. OverviewRows'
  BY <1>1, <1>3 DEF OverviewRows
<1> QED BY <1>1, <1>3, <1>4, <1>5

LEMMA OverviewDrops ==
  ASSUME OverviewRows, NEW ts \in SUBSET Transformer, Overview!DropTransformers(ts),
         \/ accounts' = accounts
         \/ \E u : accounts' = accounts \ {u} /\ \A t \in Transformer : holder[t] = u => t \in ts
  PROVE  /\ OverviewRows' /\ used' = used
         /\ Overview!Existing' = Overview!Existing \ ts
         /\ \A x \in Transformer \ ts : Overview!MetersAt(x)' = Overview!MetersAt(x)
<1>1. /\ holder' = [t \in Transformer |-> IF t \in ts THEN None ELSE holder[t]]
      /\ owner' = [m \in Counted |-> IF owner[m] \in ts THEN None ELSE owner[m]]
      /\ used' = used
  BY DEF Overview!DropTransformers
<1>2. Overview!Existing' = Overview!Existing \ ts
  BY <1>1 DEF Overview!Existing
<1>3. ASSUME NEW x \in Transformer \ ts PROVE Overview!MetersAt(x)' = Overview!MetersAt(x)
  BY <1>1, NoneApart DEF Overview!MetersAt, OverviewRows
<1>4. holder' \in [Transformer -> accounts' \cup {None}] /\ accounts' \subseteq User
  BY <1>1 DEF OverviewRows
<1>5. owner' \in [Counted -> Overview!Existing' \cup {None}]
  BY <1>1, <1>2 DEF OverviewRows
<1> QED BY <1>1, <1>2, <1>3, <1>4, <1>5 DEF OverviewRows

LEMMA OverviewDeletes ==
  ASSUME OverviewRows, NEW t \in Transformer, Overview!Delete(t)
  PROVE  /\ OverviewRows' /\ used' = used /\ t \in Overview!Existing
         /\ Overview!Existing' = Overview!Existing \ {t}
         /\ \A x \in Transformer \ {t} : Overview!MetersAt(x)' = Overview!MetersAt(x)
BY OverviewDrops DEF Overview!Delete, Overview!Existing

LEMMA OverviewElsewhere ==
  ASSUME OverviewRows, Overview!WriteElsewhere \/ Overview!DeleteAccountElsewhere
  PROVE  OverviewRows' /\ used \subseteq used'
<1>1. CASE Overview!DeleteAccountElsewhere
  <2>1. PICK u \in User : Overview!DeleteAccount(u)
    BY <1>1 DEF Overview!DeleteAccountElsewhere
  <2> QED BY <2>1, OverviewDrops DEF Overview!DeleteAccount
<1>2. CASE \E t \in Transformer : Overview!Delete(t) \/ \E u \in User : Overview!Create(t, u)
  BY <1>2, OverviewCreates, OverviewDeletes
<1>3. CASE \E m \in Counted \ used, t \in Overview!Existing :
             /\ owner' = [owner EXCEPT ![m] = t] /\ used' = used \cup {m}
             /\ UNCHANGED <<accounts, holder>>
  BY <1>3 DEF OverviewRows, Overview!Existing
<1> QED BY <1>1, <1>2, <1>3 DEF Overview!WriteElsewhere

-----------------------------------------------------------------------------
(***************************************************************************)
(* The answers that the page has yet to handle.                            *)
(***************************************************************************)

IsPending(c) == task[c].kind \in {"list", "add", "remove"} /\ task[c].stage = "answered"

LEMMA PendingIs == \A c : c \in Overview!Pending <=> c \in Caller /\ IsPending(c)
BY DEF Overview!Pending, IsPending

\* Where c has no answer to be handled, before and after.
LEMMA PendingStays ==
  ASSUME NEW c \in Caller, \A d \in Caller \ {c} : task'[d] = task[d],
         ~IsPending(c), ~IsPending(c)', ahead' = ahead
  PROVE  /\ Overview!Pending' = Overview!Pending /\ Overview!PendingLists' = Overview!PendingLists
         /\ \A d \in Caller : Overview!Behind(d)' = Overview!Behind(d)
         /\ \A ts, es : es \subseteq Overview!Pending => Overview!Edited(ts, es)' = Overview!Edited(ts, es)
<1>1. Overview!Pending' = Overview!Pending
  BY DEF Overview!Pending, IsPending
<1>2. \A d \in Overview!Pending : d \in Caller \ {c} /\ task'[d] = task[d]
  BY DEF Overview!Pending, IsPending
<1>3. Overview!PendingLists' = Overview!PendingLists
  BY <1>1, <1>2 DEF Overview!PendingLists
<1>4. \A d \in Caller : Overview!Behind(d)' = Overview!Behind(d)
  BY <1>1 DEF Overview!Behind
<1>5. ASSUME NEW ts, NEW es \in SUBSET Overview!Pending
      PROVE  Overview!Edited(ts, es)' = Overview!Edited(ts, es)
  BY <1>2 DEF Overview!Edited, Overview!Answered
<1> QED BY <1>1, <1>3, <1>4, <1>5

\* c is answered.
LEMMA PendingGrows ==
  ASSUME Overview!PendingInOrder, ahead \in [Caller -> SUBSET Caller],
         NEW c \in Caller, \A d \in Caller \ {c} : task'[d] = task[d],
         ~IsPending(c), IsPending(c)', Overview!IsLast(c)
  PROVE  /\ Overview!Pending' = Overview!Pending \cup {c} /\ c \notin Overview!Pending
         /\ Overview!PendingInOrder' /\ ahead' \in [Caller -> SUBSET Caller]
         /\ Overview!Behind(c)' = {}
         /\ \A d \in Overview!Pending : Overview!Behind(d)' = Overview!Behind(d) \cup {c}
<1>1. Overview!Pending' = Overview!Pending \cup {c} /\ c \notin Overview!Pending
  BY DEF Overview!Pending, IsPending
<1>2. Overview!Pending \subseteq Caller
  BY DEF Overview!Pending
<1>3. ahead' \in [Caller -> SUBSET Caller]
  BY <1>2 DEF Overview!IsLast
<1>4. ahead'[c] = Overview!Pending /\ \A d \in Caller \ {c} : ahead'[d] = ahead[d]
  BY DEF Overview!IsLast
<1>5. \A d \in Caller : ahead[d] \subseteq Overview!Pending \ {d} /\ c \notin ahead[d]
  BY <1>1 DEF Overview!PendingInOrder
<1>6. Overview!PendingInOrder'
  BY <1>1, <1>2, <1>4, <1>5 DEF Overview!PendingInOrder
<1>7. Overview!Behind(c)' = {}
  BY <1>1, <1>2, <1>4, <1>5 DEF Overview!Behind
<1>8. ASSUME NEW d \in Overview!Pending PROVE Overview!Behind(d)' = Overview!Behind(d) \cup {c}
  BY <1>1, <1>2, <1>4, <1>5 DEF Overview!Behind
<1> QED BY <1>1, <1>3, <1>6, <1>7, <1>8

\* c's answer is handled, or never will be.
LEMMA PendingShrinks ==
  ASSUME Overview!PendingInOrder, ahead \in [Caller -> SUBSET Caller],
         NEW c \in Caller, \A d \in Caller \ {c} : task'[d] = task[d],
         ~IsPending(c)', Overview!IsOver(c)
  PROVE  /\ Overview!Pending' = Overview!Pending \ {c}
         /\ Overview!PendingInOrder' /\ ahead' \in [Caller -> SUBSET Caller]
         /\ \A d \in Caller \ {c} : Overview!Behind(d)' = Overview!Behind(d) \ {c}
<1>1. Overview!Pending' = Overview!Pending \ {c}
  BY DEF Overview!Pending, IsPending
<1>2. Overview!Pending \subseteq Caller
  BY DEF Overview!Pending
<1>3. ahead' \in [Caller -> SUBSET Caller]
  BY DEF Overview!IsOver
<1>4. ahead'[c] = {} /\ \A d \in Caller \ {c} : ahead'[d] = ahead[d] \ {c}
  BY DEF Overview!IsOver
<1>5. Overview!PendingInOrder'
  BY <1>1, <1>2, <1>4 DEF Overview!PendingInOrder
<1>6. ASSUME NEW d \in Caller \ {c} PROVE Overview!Behind(d)' = Overview!Behind(d) \ {c}
  BY <1>1, <1>2, <1>4 DEF Overview!Behind
<1> QED BY <1>1, <1>3, <1>5, <1>6

\* Where nothing is ahead of a pending answer, all others are behind it, and it is behind none.
LEMMA FirstPending ==
  ASSUME Overview!PendingInOrder, NEW c \in Overview!Pending, ahead[c] = {}
  PROVE  /\ Overview!Behind(c) = Overview!Pending \ {c}
         /\ \A d \in Caller : c \notin Overview!Behind(d)
BY DEF Overview!PendingInOrder, Overview!Pending, Overview!Behind

\* What is behind something behind c is behind c.
LEMMA BehindBehind ==
  ASSUME Overview!PendingInOrder, NEW c \in Caller, NEW d \in Overview!Behind(c)
  PROVE  Overview!Behind(d) \subseteq Overview!Behind(c)
BY DEF Overview!PendingInOrder, Overview!Pending, Overview!Behind

-----------------------------------------------------------------------------
(***************************************************************************)
(* Types and tasks.                                                        *)
(***************************************************************************)

OverviewShown ==
  /\ selected \in Transformer \cup {None}
  /\ listing \in [Transformer -> 0 .. 2]
  /\ counts \in [Transformer -> 0 .. Overview!Cardinality(Counted) \cup {None}]
  /\ newest \in Caller \cup {None}
  /\ summary \in Overview!Summary \cup {None} /\ missed \in BOOLEAN

\* What one task has.
OverviewTask(c) ==
  LET q == task[c] IN
  /\ q.kind \in {"none", "list", "add", "remove", "counts"}
  /\ q.kind = "add" => q.user \in User
  /\ q.kind = "remove" \/ (q.kind = "add" /\ q.stage = "answered") =>
       q.transformer \in Transformer \cap used
  /\ q.list \subseteq Transformer \cap used
  /\ q.kind = "counts" =>
       /\ q.stage = "sent" /\ q.asked \subseteq q.list
       /\ \A t \in q.list \ q.asked : q.got[t] \in SUBSET Counted

\* The dashboard runs one.
OneTaskOnly ==
  page = "dashboard" =>
    /\ \A c \in Caller : task[c].kind \notin {"add", "remove"}
    /\ \A c \in Caller : task[c].kind = "none" \/ summary = None
    /\ \A c, d \in Caller : task[c].kind = "none" \/ task[d].kind = "none" \/ c = d

\* A transformer that is added comes into the list once.
AddedOnce ==
  /\ Overview!Listed \subseteq used
  /\ \A c \in Caller : task[c].kind = "add" /\ task[c].stage = "answered" =>
       /\ listing[task[c].transformer] <= 1
       /\ \A d \in Caller :
            task[d].kind = "add" /\ task[d].stage = "answered"
              /\ task[d].transformer = task[c].transformer => d = c

OverviewBase ==
  /\ page \in {"transformers", "dashboard"}
  /\ OverviewRows /\ OverviewShown
  /\ task \in [Caller -> Overview!Task] /\ ahead \in [Caller -> SUBSET Caller]
  /\ (\A c \in Caller : OverviewTask(c)) /\ OneTaskOnly /\ AddedOnce /\ Overview!PendingInOrder

LEMMA OverviewBaseIs ==
  OverviewBase <=>
    /\ OnOverview /\ Overview!TypeOK /\ Overview!TasksInOrder /\ Overview!IdsGivenOnce
    /\ Overview!PendingInOrder
<1>1. Overview!TypeOK /\ Overview!Existing \subseteq used <=>
        /\ OverviewRows /\ OverviewShown
        /\ task \in [Caller -> Overview!Task] /\ ahead \in [Caller -> SUBSET Caller]
  BY DEF Overview!TypeOK, Overview!RowsOK, OverviewRows, OverviewShown, Overview!Existing
<1>2. Overview!TasksInOrder <=> (\A c \in Caller : OverviewTask(c)) /\ OneTaskOnly
  BY DEF Overview!TasksInOrder, OverviewTask, OneTaskOnly, Overview!Answered, Overview!Idle
<1>3. Overview!IdsGivenOnce <=> Overview!Existing \subseteq used /\ AddedOnce
  BY DEF Overview!IdsGivenOnce, AddedOnce, Overview!Answered
<1> QED BY <1>1, <1>2, <1>3 DEF OverviewBase, OnOverview

\* The tasks of the others keep what they have.
LEMMA OtherTasks ==
  ASSUME \A d \in Caller : OverviewTask(d), NEW c \in Caller, NEW a, TaskStep(c, a), OverviewTask(c)',
         used \subseteq used'
  PROVE  \A d \in Caller : OverviewTask(d)'
BY DEF OverviewTask, TaskStep

LEMMA OneTaskKept ==
  ASSUME OneTaskOnly, NEW c \in Caller, NEW a, TaskStep(c, a), page' = page,
         page = "dashboard" =>
           /\ a.kind \notin {"add", "remove"}
           /\ \/ task[c].kind # "none" /\ summary' = summary
              \/ task[c].kind # "none" /\ a.kind = "none"
              \/ summary' = None /\ \A d \in Caller : task[d].kind = "none"
  PROVE  OneTaskOnly'
BY DEF OneTaskOnly, TaskStep

LEMMA AddedOnceKept ==
  ASSUME AddedOnce, NEW c \in Caller, NEW a, TaskStep(c, a), ~(a.kind = "add" /\ a.stage = "answered"),
         used \subseteq used', Overview!Listed' \subseteq used',
         \A d \in Caller \ {c} : task[d].kind = "add" /\ task[d].stage = "answered" =>
           listing'[task[d].transformer] <= 1
  PROVE  AddedOnce'
BY DEF AddedOnce, TaskStep

\* The counts of a subset.
LEMMA OverviewCount ==
  ASSUME NEW ms \in SUBSET Counted
  PROVE  Overview!Cardinality(ms) \in 0 .. Overview!Cardinality(Counted)
<1>1. IsFiniteSet(ms) /\ Cardinality(ms) <= Cardinality(Counted)
  BY PanelAssumption, FS_Subset
<1>2. Cardinality(ms) \in Nat /\ Cardinality(Counted) \in Nat
  BY <1>1, PanelAssumption, FS_CardinalityType
<1> QED BY <1>1, <1>2, OverviewCardinality

LEMMA OverviewTotal ==
  ASSUME NEW ts \in SUBSET Transformer, NEW ms \in SUBSET Counted
  PROVE  /\ Overview!Cardinality(ts) \in Overview!Total
         /\ Overview!Cardinality(ms) \in Overview!Total
<1> DEFINE all == Transformer \cup Counted
<1>1. IsFiniteSet(all)
  BY PanelAssumption, FS_Union
<1>2. /\ IsFiniteSet(ts) /\ Cardinality(ts) <= Cardinality(all)
      /\ IsFiniteSet(ms) /\ Cardinality(ms) <= Cardinality(all)
  <2>1. ts \in SUBSET all /\ ms \in SUBSET all
    OBVIOUS
  <2> HIDE DEF all
  <2> QED BY <1>1, <2>1, FS_Subset
<1>3. Cardinality(ts) \in Nat /\ Cardinality(ms) \in Nat /\ Cardinality(all) \in Nat
  BY <1>1, <1>2, FS_CardinalityType
<1> QED BY <1>2, <1>3, OverviewCardinality DEF Overview!Total

\* Where neither rows nor what is shown of them change, but a task.
LEMMA OverviewTaskOnly ==
  ASSUME OverviewBase, NEW c \in Caller, NEW a, TaskStep(c, a), OverviewTask(c)',
         ~(a.kind = "add" /\ a.stage = "answered"),
         page' = page, UNCHANGED <<accounts, holder, owner, used, listing>>,
         OverviewShown', OneTaskOnly',
         Overview!PendingInOrder', ahead' \in [Caller -> SUBSET Caller]
  PROVE  OverviewBase'
<1>1. OverviewRows'
  BY DEF OverviewBase, OverviewRows, Overview!Existing
<1>2. AddedOnce'
  BY AddedOnceKept DEF OverviewBase, AddedOnce, Overview!Listed
<1>3. \A d \in Caller : OverviewTask(d)'
  BY OtherTasks DEF OverviewBase
<1> QED BY <1>1, <1>2, <1>3 DEF OverviewBase, TaskStep

LEMMA PendingOrderStays ==
  ASSUME Overview!PendingInOrder, Overview!Pending' = Overview!Pending, ahead' = ahead
  PROVE  Overview!PendingInOrder'
BY DEF Overview!PendingInOrder

LEMMA BeginsKeepsBase ==
  ASSUME OverviewBase, NEW c \in Caller,
         \/ Overview!FetchTransformers(c) \/ Overview!UpdateStats(c)
         \/ \E u \in User : Overview!AddTransformer(u, c)
         \/ \E t \in Transformer : Overview!RemoveTransformer(t, c)
  PROVE  OverviewBase'
<1>1. PICK a : TaskStep(c, a) /\ Begins(c, a)
  BY OverviewBegins, OverviewBaseIs
<1>2. /\ page' = page /\ UNCHANGED <<accounts, holder, owner, used>>
      /\ UNCHANGED <<selected, listing, counts, newest, ahead, missed>>
      /\ summary' = summary \/ summary' = None
  BY DEF Overview!FetchTransformers, Overview!UpdateStats, Overview!AddTransformer,
         Overview!RemoveTransformer, Overview!rows, Overview!page_
<1>3. OverviewShown'
  BY <1>2 DEF OverviewBase, OverviewShown
<1>4. OverviewTask(c)'
  BY <1>1, <1>2 DEF OverviewTask, TaskStep, Begins, OverviewBase, AddedOnce, Overview!Listed
<1>5. OneTaskOnly'
  BY <1>1, <1>2, OneTaskKept DEF OverviewBase, Begins
<1>6. Overview!PendingInOrder'
  BY <1>1, <1>2, PendingStays, PendingOrderStays DEF IsPending, TaskStep, Begins, OverviewBase
<1> QED BY <1>1, <1>2, <1>3, <1>4, <1>5, <1>6, OverviewTaskOnly DEF Begins, OverviewBase

LEMMA AnswerListKeepsBase ==
  ASSUME OverviewBase, NEW c \in Caller, Overview!AnswerList(c)
  PROVE  OverviewBase'
<1>1. PICK a : TaskStep(c, a) /\ ListAnswered(c, a)
  BY OverviewAnswersList DEF OverviewBase
<1>2. /\ page' = page /\ UNCHANGED <<accounts, holder, owner, used>> /\ missed' = FALSE
      /\ UNCHANGED <<selected, listing, counts, newest, summary>>
  BY DEF Overview!AnswerList, Overview!AnswerRead, Overview!rows
<1>3. OverviewShown'
  BY <1>2 DEF OverviewBase, OverviewShown
<1>4. OverviewTask(c)'
  BY <1>1, <1>2 DEF OverviewTask, TaskStep, ListAnswered, OverviewBase, OverviewRows, Overview!Existing
<1>5. OneTaskOnly'
  BY <1>1, <1>2, OneTaskKept DEF OverviewBase, ListAnswered
<1>6. Overview!PendingInOrder' /\ ahead' \in [Caller -> SUBSET Caller]
  BY <1>1, PendingGrows DEF IsPending, TaskStep, ListAnswered, OverviewBase, Overview!AnswerList
<1> QED BY <1>1, <1>2, <1>3, <1>4, <1>5, <1>6, OverviewTaskOnly DEF ListAnswered, OverviewBase

LEMMA RefuseKeepsBase ==
  ASSUME OverviewBase, NEW c \in Caller, Overview!Refuse(c)
  PROVE  OverviewBase'
<1>1. PICK a : /\ TaskStep(c, a) /\ task[c].stage = "sent" /\ a.stage = "refused"
               /\ a.kind = task[c].kind /\ a.user = task[c].user
               /\ a.transformer = task[c].transformer /\ a.list = task[c].list
               /\ a.kind \in Overview!Reading \cup Overview!Writing
  BY OverviewRefuses DEF OverviewBase
<1>2. /\ page' = page /\ UNCHANGED <<accounts, holder, owner, used>>
      /\ UNCHANGED <<selected, listing, counts, newest, ahead, summary, missed>>
  BY DEF Overview!Refuse, Overview!RefuseNamed, Overview!rows, Overview!page_
<1>3. OverviewShown'
  BY <1>2 DEF OverviewBase, OverviewShown
<1>4. OverviewTask(c)
  BY DEF OverviewBase
<1>5. OverviewTask(c)' /\ a.kind # "none"
  BY <1>1, <1>2, <1>4 DEF OverviewTask, TaskStep, Overview!Reading, Overview!Writing
<1>6. OneTaskOnly'
  BY <1>1, <1>2, <1>5, OneTaskKept DEF OverviewBase, OneTaskOnly
<1>7. Overview!PendingInOrder'
  BY <1>1, <1>2, PendingStays, PendingOrderStays DEF IsPending, TaskStep, OverviewBase
<1> QED BY <1>1, <1>2, <1>3, <1>5, <1>6, <1>7, OverviewTaskOnly DEF OverviewBase

LEMMA MetersKeepsBase ==
  ASSUME OverviewBase, NEW c \in Caller, NEW t \in Transformer,
         Overview!AnswerMeters(c, t) \/ Overview!FailMeters(c, t), UNCHANGED <<page, Overview!page_>>
  PROVE  OverviewBase'
<1>0. task[c].kind = "counts" /\ OverviewTask(c)
  BY DEF OverviewBase, OverviewTask, Overview!AnswerMeters, Overview!FailMeters, Overview!Counting
<1>1. PICK a :
           /\ TaskStep(c, a) /\ a.kind = "counts" /\ a.stage = task[c].stage
           /\ a.list = task[c].list /\ t \in task[c].asked /\ a.asked = task[c].asked \ {t}
           /\ \A x \in Transformer \ {t} : a.got[x] = task[c].got[x]
           /\ a.got[t] \in SUBSET Counted
  BY <1>0, OverviewMeters DEF OverviewBase
<1>2. /\ page' = page /\ UNCHANGED <<accounts, holder, owner, used>>
      /\ UNCHANGED <<selected, listing, counts, newest, ahead, summary>> /\ missed' \in BOOLEAN
  BY DEF Overview!AnswerMeters, Overview!FailMeters, Overview!rows, Overview!page_, OverviewBase,
         OverviewShown
<1>3. OverviewShown'
  BY <1>2 DEF OverviewBase, OverviewShown
<1>4. OverviewTask(c)'
  BY <1>0, <1>1, <1>2 DEF OverviewTask, TaskStep
<1>5. OneTaskOnly'
  BY <1>0, <1>1, <1>2, OneTaskKept DEF OverviewBase
<1>6. Overview!PendingInOrder'
  BY <1>0, <1>1, <1>2, PendingStays, PendingOrderStays DEF IsPending, TaskStep, OverviewBase
<1> QED BY <1>1, <1>2, <1>3, <1>4, <1>5, <1>6, OverviewTaskOnly DEF OverviewBase

\* The answer to an edit of the page, which is carried out.
LEMMA AnswerEditKeepsBase ==
  ASSUME OverviewBase, NEW c \in Caller, Overview!AnswerEdit(c)
  PROVE  OverviewBase'
<1>0. OverviewTask(c) /\ task \in [Caller -> Overview!Task] /\ OverviewRows
  BY DEF OverviewBase
<1>1. PICK a : /\ TaskStep(c, a) /\ EditAnswered(c, a) /\ a.transformer \in Transformer
               /\ \/ a.kind = "add" /\ Overview!Create(a.transformer, a.user)
                  \/ /\ a.kind = "remove" /\ a.transformer = task[c].transformer
                     /\ Overview!Delete(a.transformer)
  BY <1>0, OverviewAnswersEdit DEF OverviewTask
<1>2. /\ page' = page /\ UNCHANGED <<selected, listing, counts, newest, summary, missed>>
      /\ Overview!IsLast(c)
  BY DEF Overview!AnswerEdit
<1>3. /\ OverviewRows' /\ used \subseteq used'
      /\ a.kind = "add" => a.transformer \notin used /\ a.transformer \in used'
  BY <1>0, <1>1, OverviewCreates, OverviewDeletes
<1>4. OverviewShown'
  BY <1>2 DEF OverviewBase, OverviewShown
<1>5. OverviewTask(c)'
  BY <1>0, <1>1, <1>3 DEF OverviewTask, TaskStep, EditAnswered
<1>6. \A d \in Caller : OverviewTask(d)'
  BY <1>1, <1>3, <1>5, OtherTasks DEF OverviewBase
<1>7. OneTaskOnly'
  BY <1>1, <1>2, OneTaskKept DEF OverviewBase, EditAnswered, OneTaskOnly
<1>8. Overview!PendingInOrder' /\ ahead' \in [Caller -> SUBSET Caller]
  BY <1>1, <1>2, PendingGrows DEF IsPending, TaskStep, EditAnswered, OverviewBase
<1>9. AddedOnce'
  <2>1. Overview!Listed' = Overview!Listed /\ Overview!Listed \subseteq used
    BY <1>2 DEF Overview!Listed, OverviewBase, AddedOnce
  <2>2. CASE a.kind # "add"
    BY <1>1, <1>2, <1>3, <2>1, <2>2, AddedOnceKept DEF OverviewBase, AddedOnce
  <2>3. CASE a.kind = "add"
    <3>1. listing[a.transformer] <= 1
      BY <1>1, <1>3, <2>1, <2>3 DEF Overview!Listed, OverviewBase, OverviewShown
    <3>2. \A d \in Caller \ {c} :
            task[d].kind = "add" /\ task[d].stage = "answered" => task[d].transformer # a.transformer
      BY <1>3, <2>3 DEF OverviewBase, OverviewTask
    <3> QED BY <1>1, <1>2, <1>3, <2>1, <3>1, <3>2 DEF AddedOnce, OverviewBase, TaskStep
  <2> QED BY <2>2, <2>3
<1> QED BY <1>1, <1>2, <1>3, <1>4, <1>6, <1>7, <1>8, <1>9 DEF OverviewBase, TaskStep

\* The page handles an answer, and counts.
LEMMA HandlesKeepsBase ==
  ASSUME OverviewBase, NEW c \in Caller,
         \/ Overview!TransformersFetched(c) \/ Overview!TransformerAdded(c)
         \/ Overview!TransformerRemoved(c) \/ Overview!CountInstallations(c)
  PROVE  OverviewBase'
<1>0. OverviewTask(c) /\ task[c].kind \in {"list", "add", "remove"}
  BY DEF OverviewBase, Overview!TransformersFetched, Overview!TransformerAdded, Overview!Answered,
         Overview!TransformerRemoved, Overview!CountInstallations
<1>1. /\ task[c].list \subseteq Transformer \cap used
      /\ task[c].stage = "answered" /\ task[c].kind # "list" => task[c].transformer \in Transformer \cap used
      /\ Overview!Listed \subseteq Transformer \cap used
  BY <1>0 DEF OverviewTask, OverviewBase, AddedOnce, Overview!Listed
<1>2. PICK ts \in SUBSET (Transformer \cap used) : Overview!Do(c, OverviewCounting(ts))
  BY <1>1 DEF Overview!TransformersFetched, Overview!TransformerAdded, Overview!TransformerRemoved,
              Overview!CountInstallations, Overview!LoadMeterCounts, OverviewCounting,
              Overview!Answered
<1>3. PICK a : /\ TaskStep(c, a) /\ a.kind = "counts" /\ a.stage = "sent" /\ a.list = ts
               /\ a.asked = ts
  BY <1>2, OverviewCounts DEF OverviewBase
<1>4. /\ page' = page /\ UNCHANGED <<accounts, holder, owner, used>> /\ UNCHANGED <<summary, counts>>
      /\ Overview!IsOver(c) /\ missed' = (missed \/ ahead[c] # {})
  BY DEF Overview!TransformersFetched, Overview!TransformerAdded, Overview!TransformerRemoved,
              Overview!CountInstallations, Overview!Handled, Overview!rows
<1>5. OverviewTask(c)'
  BY <1>2, <1>3, <1>4 DEF OverviewTask, TaskStep
<1>6. \A d \in Caller : OverviewTask(d)'
  BY <1>3, <1>4, <1>5, OtherTasks DEF OverviewBase
<1>7. OneTaskOnly'
  BY <1>0, <1>3, <1>4, OneTaskKept DEF OverviewBase
<1>8. Overview!PendingInOrder' /\ ahead' \in [Caller -> SUBSET Caller]
  BY <1>3, <1>4, PendingShrinks DEF IsPending, TaskStep, OverviewBase
<1>9. OverviewShown' /\ AddedOnce'
  <2>1. OverviewShown /\ AddedOnce
    BY DEF OverviewBase
  <2>2. CASE Overview!TransformersFetched(c)
    <3>1. /\ listing' = [t \in Transformer |-> IF t \in task[c].list THEN 1 ELSE 0]
          /\ selected' \in {selected, None} /\ newest' = c
      BY <2>2 DEF Overview!TransformersFetched, Overview!LoadMeterCounts
    <3>2. OverviewShown'
      BY <1>4, <2>1, <3>1 DEF OverviewShown
    <3>3. Overview!Listed' = task[c].list /\ \A t \in Transformer : listing'[t] <= 1
      BY <1>1, <3>1 DEF Overview!Listed
    <3>4. \A d \in Caller \ {c} : task[d].kind = "add" /\ task[d].stage = "answered" =>
             listing'[task[d].transformer] <= 1
      BY <3>3 DEF OverviewBase, OverviewTask
    <3> QED BY <1>1, <1>3, <1>4, <2>1, <3>2, <3>3, <3>4, AddedOnceKept
  <2>3. CASE Overview!TransformerAdded(c)
    <3> DEFINE t == task[c].transformer
    <3>1. /\ listing' = [listing EXCEPT ![t] = @ + 1] /\ selected' = t /\ newest' = c
          /\ task[c].kind = "add" /\ task[c].stage = "answered"
      BY <2>3 DEF Overview!TransformerAdded, Overview!LoadMeterCounts, Overview!Answered
    <3>2. t \in Transformer \cap used /\ listing[t] <= 1
      BY <1>1, <2>1, <3>1 DEF AddedOnce
    <3>3. listing[t] + 1 \in 0 .. 2
      BY <2>1, <3>2 DEF OverviewShown
    <3>4. OverviewShown'
      BY <1>4, <2>1, <3>1, <3>2, <3>3 DEF OverviewShown
    <3>5. Overview!Listed' \subseteq Overview!Listed \cup {t}
      BY <2>1, <3>1, <3>2 DEF Overview!Listed, OverviewShown
    <3>6. \A d \in Caller \ {c} : task[d].kind = "add" /\ task[d].stage = "answered" =>
             listing'[task[d].transformer] <= 1
      <4> SUFFICES ASSUME NEW d \in Caller \ {c}, task[d].kind = "add", task[d].stage = "answered"
                   PROVE  listing'[task[d].transformer] <= 1
        OBVIOUS
      <4>1. task[d].transformer # t /\ listing[task[d].transformer] <= 1
        BY <2>1, <3>1 DEF AddedOnce
      <4>2. listing'[task[d].transformer] = listing[task[d].transformer]
        BY <2>1, <3>1, <4>1 DEF OverviewShown, OverviewBase, OverviewTask
      <4> QED BY <4>1, <4>2
    <3>7. Overview!Listed' \subseteq used'
      BY <1>1, <1>4, <3>2, <3>5
    <3> QED BY <1>3, <1>4, <2>1, <3>4, <3>6, <3>7, AddedOnceKept
  <2>4. CASE Overview!TransformerRemoved(c)
    <3> DEFINE t == task[c].transformer
    <3>1. /\ listing' = [listing EXCEPT ![t] = 0] /\ selected' \in {selected, None} /\ newest' = c
      BY <2>4 DEF Overview!TransformerRemoved, Overview!LoadMeterCounts
    <3>2. \A x \in Transformer : listing'[x] = 0 \/ listing'[x] = listing[x]
      BY <2>1, <3>1 DEF OverviewShown
    <3>5. listing' \in [Transformer -> 0 .. 2]
      <4>1. listing \in [Transformer -> 0 .. 2]
        BY <2>1 DEF OverviewShown
      <4>2. 0 \in 0 .. 2
        OBVIOUS
      <4>3. listing' = [listing EXCEPT ![t] = 0]
        BY <3>1
      <4> HIDE DEF t
      <4> QED BY <4>1, <4>2, <4>3
    <3>6. OverviewShown'
      BY <1>4, <2>1, <3>1, <3>5 DEF OverviewShown
    <3>3. Overview!Listed' \subseteq Overview!Listed
      BY <3>2 DEF Overview!Listed
    <3>4. \A d \in Caller \ {c} : task[d].kind = "add" /\ task[d].stage = "answered" =>
             listing'[task[d].transformer] <= 1
      BY <2>1, <3>2 DEF OverviewBase, OverviewTask, AddedOnce
    <3> QED BY <1>1, <1>3, <1>4, <2>1, <3>3, <3>4, <3>6, AddedOnceKept
  <2>5. CASE Overview!CountInstallations(c)
    <3>1. UNCHANGED <<selected, listing, newest>>
      BY <2>5 DEF Overview!CountInstallations
    <3>2. OverviewShown' /\ Overview!Listed' = Overview!Listed
      BY <1>4, <2>1, <3>1 DEF OverviewShown, Overview!Listed
    <3>3. \A d \in Caller \ {c} : task[d].kind = "add" /\ task[d].stage = "answered" =>
             listing'[task[d].transformer] <= 1
      BY <2>1, <3>1 DEF AddedOnce
    <3> QED BY <1>1, <1>3, <1>4, <2>1, <3>2, <3>3, AddedOnceKept
  <2> QED BY <2>2, <2>3, <2>4, <2>5
<1>10. OverviewRows'
  BY <1>4 DEF OverviewBase, OverviewRows, Overview!Existing
<1> QED BY <1>3, <1>4, <1>6, <1>7, <1>8, <1>9, <1>10 DEF OverviewBase, TaskStep

\* A task ends.
LEMMA EndsKeepsBase ==
  ASSUME OverviewBase, NEW c \in Caller,
         Overview!CountsLoaded(c) \/ Overview!StatsShown(c) \/ Overview!Fails(c)
  PROVE  OverviewBase'
<1>0. OverviewTask(c) /\ OverviewShown /\ task[c].kind # "none"
  BY DEF OverviewBase, Overview!CountsLoaded, Overview!StatsShown, Overview!Fails
<1>1. /\ TaskStep(c, Overview!NoTask) /\ Overview!NoTask.kind = "none"
      /\ Overview!NoTask.stage = "sent" /\ Overview!NoTask.list = {}
  BY OverviewDone, OverviewNoTask DEF OverviewBase, Overview!CountsLoaded, Overview!StatsShown,
     Overview!Fails
<1>2. /\ page' = page /\ UNCHANGED <<accounts, holder, owner, used, listing, selected>>
  BY DEF Overview!CountsLoaded, Overview!StatsShown, Overview!Fails, Overview!rows, Overview!page_
<1>3. OverviewTask(c)'
  BY <1>1 DEF OverviewTask, TaskStep
<1>4. OneTaskOnly'
  BY <1>0, <1>1, <1>2, OneTaskKept DEF OverviewBase
<1>5. Overview!PendingInOrder' /\ ahead' \in [Caller -> SUBSET Caller]
  <2>1. CASE Overview!Fails(c)
    BY <1>1, <2>1, PendingShrinks DEF Overview!Fails, IsPending, TaskStep, OverviewBase
  <2>2. CASE Overview!CountsLoaded(c) \/ Overview!StatsShown(c)
    <3>1. ahead' = ahead /\ task[c].kind = "counts"
      BY <2>2 DEF Overview!CountsLoaded, Overview!StatsShown, Overview!page_
    <3> QED BY <1>1, <3>1, PendingStays, PendingOrderStays DEF IsPending, TaskStep, OverviewBase
  <2> QED BY <2>1, <2>2
<1>6. OverviewShown'
  <2>1. CASE Overview!Fails(c)
    BY <1>0, <1>2, <2>1 DEF Overview!Fails, OverviewShown
  <2>2. CASE Overview!CountsLoaded(c)
    <3>1. \A t \in task[c].list : task[c].got[t] \in SUBSET Counted
      BY <1>0, <2>2 DEF Overview!CountsLoaded, OverviewTask
    <3>2. counts' \in [Transformer -> 0 .. Overview!Cardinality(Counted) \cup {None}]
      BY <2>2, <3>1, OverviewCount DEF Overview!CountsLoaded
    <3> QED BY <1>0, <1>2, <2>2, <3>2 DEF Overview!CountsLoaded, OverviewShown
  <2>3. CASE Overview!StatsShown(c)
    <3> DEFINE ms == UNION {task[c].got[t] : t \in task[c].list}
    <3>1. \A t \in task[c].list : task[c].got[t] \in SUBSET Counted
      BY <1>0, <2>3 DEF Overview!StatsShown, OverviewTask
    <3>2. ms \in SUBSET Counted /\ task[c].list \in SUBSET Transformer
      BY <1>0, <3>1 DEF OverviewTask
    <3>3. summary' = [transformers |-> Overview!Cardinality(task[c].list),
                      meters |-> IF task[c].failed # {} THEN None ELSE Overview!Cardinality(ms)]
      BY <2>3 DEF Overview!StatsShown
    <3> HIDE DEF ms
    <3>4. summary' \in Overview!Summary
      BY <3>2, <3>3, OverviewTotal DEF Overview!Summary
    <3> QED BY <1>0, <1>2, <2>3, <3>4 DEF Overview!StatsShown, Overview!page_, OverviewShown
  <2> QED BY <2>1, <2>2, <2>3
<1> QED BY <1>1, <1>2, <1>3, <1>4, <1>5, <1>6, OverviewTaskOnly DEF OverviewBase

\* The selection, and the writes of other clients.
LEMMA OthersKeepBase ==
  ASSUME OverviewBase,
         \/ \E t \in Transformer : Overview!SelectTransformer(t) \/ Overview!SelectElsewhere(t)
         \/ /\ Overview!WriteElsewhere \/ Overview!DeleteAccountElsewhere
            /\ UNCHANGED <<page, Overview!page_>>
  PROVE  OverviewBase'
<1>1. /\ page' = page /\ task' = task /\ UNCHANGED <<listing, counts, newest, ahead, summary>>
      /\ selected' \in Transformer \cup {None} /\ missed' \in BOOLEAN
  BY DEF Overview!SelectTransformer, Overview!SelectElsewhere, Overview!WriteElsewhere,
         Overview!DeleteAccountElsewhere, Overview!page_, OverviewBase, OverviewShown
<1>2. OverviewRows' /\ used \subseteq used'
  <2>1. CASE UNCHANGED <<accounts, holder, owner, used>>
    BY <2>1 DEF OverviewBase, OverviewRows, Overview!Existing
  <2>2. CASE Overview!WriteElsewhere \/ Overview!DeleteAccountElsewhere
    BY <2>2, OverviewElsewhere DEF OverviewBase
  <2> QED BY <2>1, <2>2 DEF Overview!SelectTransformer, Overview!SelectElsewhere, Overview!rows
<1>3. OverviewShown'
  BY <1>1 DEF OverviewBase, OverviewShown
<1>4. (\A c \in Caller : OverviewTask(c)') /\ OneTaskOnly'
  BY <1>1, <1>2 DEF OverviewBase, OverviewTask, OneTaskOnly
<1>5. AddedOnce' /\ Overview!PendingInOrder'
  BY <1>1, <1>2 DEF OverviewBase, AddedOnce, Overview!Listed, Overview!PendingInOrder, Overview!Pending
<1> QED BY <1>1, <1>2, <1>3, <1>4, <1>5 DEF OverviewBase

LEMMA OverviewBaseKept ==
  ASSUME OverviewBase, Overview!Next
  PROVE  OverviewBase'
BY BeginsKeepsBase, AnswerListKeepsBase, AnswerEditKeepsBase, RefuseKeepsBase, MetersKeepsBase,
   HandlesKeepsBase, EndsKeepsBase, OthersKeepBase
   DEF Overview!Next, Overview!Page, Overview!Server

-----------------------------------------------------------------------------
(***************************************************************************)
(* The list of transformers.  It becomes what is stored by the answers     *)
(* that are pending, in the order in which they were given; a step of the  *)
(* server adds the last of them, and a step of the page takes the first    *)
(* one, or else has missed something.                                      *)
(***************************************************************************)

TransformersInv ==
  /\ Overview!AddedIsUnknown /\ Overview!ListsBecomeStored
  /\ Overview!SelectionBecomesStored /\ Overview!CountsBecomeStored

\* Nothing is said of a page that has missed something, but of its counting.
LEMMA MissedKeepsList ==
  ASSUME missed' = TRUE, newest' # None => task'[newest'].kind = "counts"
  PROVE  TransformersInv'
BY DEF TransformersInv, Overview!AddedIsUnknown, Overview!ListsBecomeStored,
       Overview!SelectionBecomesStored, Overview!CountsBecomeStored

IsAdd(c, t) == task[c].kind = "add" /\ task[c].stage = "answered" /\ task[c].transformer = t
IsRemove(c, t) == task[c].kind = "remove" /\ task[c].stage = "answered" /\ task[c].transformer = t

LEMMA EditedIs ==
  ASSUME NEW ts, NEW es
  PROVE  Overview!Edited(ts, es) =
           {t \in Transformer : \/ \E c \in es : IsAdd(c, t)
                                \/ t \in ts /\ \A c \in es : ~IsRemove(c, t)}
BY DEF Overview!Edited, Overview!Answered, IsAdd, IsRemove

\* What a page knows that has missed nothing.
LEMMA NothingMissed ==
  ASSUME ~missed
  PROVE  /\ Overview!AddedIsUnknown <=>
              \A c \in Caller : \A t :
                IsAdd(c, t) /\ Overview!Behind(c) \cap Overview!PendingLists = {} =>
                  /\ listing[t] = 0
                  /\ \A d \in Caller : ~(task[d].kind = "remove" /\ task[d].transformer = t)
                  /\ \A d \in Overview!PendingLists : t \notin task[d].list
         /\ Overview!ListsBecomeStored <=>
              /\ \A c \in Overview!PendingLists :
                   Overview!Behind(c) \cap Overview!PendingLists = {} =>
                     Overview!Existing = Overview!Edited(task[c].list, Overview!Behind(c))
              /\ Overview!PendingLists = {} =>
                   /\ Overview!Existing = Overview!Edited(Overview!Listed, Overview!Pending)
                   /\ \A t \in Transformer : listing[t] <= 1
         /\ Overview!SelectionBecomesStored <=>
              (Overview!PendingLists = {} =>
                 \/ selected \in Overview!Existing \cup {None}
                 \/ \E c \in Caller : IsRemove(c, selected))
<1>1. Overview!AddedIsUnknown <=>
              \A c \in Caller : \A t :
                IsAdd(c, t) /\ Overview!Behind(c) \cap Overview!PendingLists = {} =>
                  /\ listing[t] = 0
                  /\ \A d \in Caller : ~(task[d].kind = "remove" /\ task[d].transformer = t)
                  /\ \A d \in Overview!PendingLists : t \notin task[d].list
  BY DEF Overview!AddedIsUnknown, Overview!Answered, IsAdd
<1>2. Overview!SelectionBecomesStored <=>
              (Overview!PendingLists = {} =>
                 \/ selected \in Overview!Existing \cup {None}
                 \/ \E c \in Caller : IsRemove(c, selected))
  BY DEF Overview!SelectionBecomesStored, Overview!Answered, IsRemove
<1> QED BY <1>1, <1>2 DEF Overview!ListsBecomeStored

\* What it has to know after a step.
LEMMA NothingMissedThen ==
  ASSUME \A c \in Caller : \A t :
           IsAdd(c, t)' /\ Overview!Behind(c)' \cap Overview!PendingLists' = {} =>
             /\ listing'[t] = 0
             /\ \A d \in Caller : ~(task'[d].kind = "remove" /\ task'[d].transformer = t)
             /\ \A d \in Overview!PendingLists' : t \notin task'[d].list,
         \A c \in Overview!PendingLists' :
           Overview!Behind(c)' \cap Overview!PendingLists' = {} =>
             Overview!Existing' = Overview!Edited(task[c].list, Overview!Behind(c))',
         Overview!PendingLists' = {} =>
           /\ Overview!Existing' = Overview!Edited(Overview!Listed, Overview!Pending)'
           /\ \A t \in Transformer : listing'[t] <= 1
           /\ \/ selected' \in Overview!Existing' \cup {None}
              \/ \E c \in Caller : IsRemove(c, selected)'
  PROVE  Overview!AddedIsUnknown' /\ Overview!ListsBecomeStored' /\ Overview!SelectionBecomesStored'
<1>1. Overview!AddedIsUnknown'
  BY DEF Overview!AddedIsUnknown, Overview!Answered, IsAdd
<1>2. Overview!SelectionBecomesStored'
  BY DEF Overview!SelectionBecomesStored, Overview!Answered, IsRemove
<1> QED BY <1>1, <1>2 DEF Overview!ListsBecomeStored

\* A step after which the same answers are pending.
LEMMA SameAnswersKeepList ==
  ASSUME TransformersInv, ~missed, NEW c \in Caller, NEW a, TaskStep(c, a),
         ~IsPending(c), ~IsPending(c)', ahead' = ahead,
         UNCHANGED <<holder, listing, selected>>,
         a.kind = "remove" =>
           \/ a.transformer \in Overview!Listed
           \/ task[c].kind = "remove" /\ a.transformer = task[c].transformer
  PROVE  Overview!AddedIsUnknown' /\ Overview!ListsBecomeStored' /\ Overview!SelectionBecomesStored'
<1>1. /\ Overview!Pending' = Overview!Pending /\ Overview!PendingLists' = Overview!PendingLists
      /\ \A d \in Caller : Overview!Behind(d)' = Overview!Behind(d)
      /\ \A ts, es : es \subseteq Overview!Pending => Overview!Edited(ts, es)' = Overview!Edited(ts, es)
  BY PendingStays DEF TaskStep
<1>2. Overview!Existing' = Overview!Existing /\ Overview!Listed' = Overview!Listed
  BY DEF Overview!Existing, Overview!Listed
<1>3. \A d \in Overview!Pending : d \in Caller \ {c} /\ task'[d] = task[d]
  BY PendingIs DEF TaskStep
<1>4. Overview!PendingLists \subseteq Overview!Pending /\ \A d : Overview!Behind(d) \subseteq Overview!Pending
  BY DEF Overview!PendingLists, Overview!Behind
<1>5. ASSUME NEW d \in Caller, NEW t, IsAdd(d, t)',
             Overview!Behind(d)' \cap Overview!PendingLists' = {}
      PROVE  /\ listing'[t] = 0
             /\ \A e \in Caller : ~(task'[e].kind = "remove" /\ task'[e].transformer = t)
             /\ \A e \in Overview!PendingLists' : t \notin task'[e].list
  <2>1. d # c /\ IsAdd(d, t)
    BY <1>5 DEF IsAdd, IsPending, TaskStep
  <2>2. /\ listing[t] = 0
        /\ \A e \in Caller : ~(task[e].kind = "remove" /\ task[e].transformer = t)
        /\ \A e \in Overview!PendingLists : t \notin task[e].list
    BY <1>1, <1>5, <2>1, NothingMissed DEF TransformersInv
  <2>3. a.kind = "remove" => a.transformer # t
    BY <2>2 DEF Overview!Listed
  <2> QED BY <1>1, <1>3, <1>4, <2>2, <2>3 DEF TaskStep
<1>6. ASSUME NEW d \in Overview!PendingLists', Overview!Behind(d)' \cap Overview!PendingLists' = {}
      PROVE  Overview!Existing' = Overview!Edited(task[d].list, Overview!Behind(d))'
  <2>1. d \in Caller /\ task'[d].list = task[d].list /\ Overview!Behind(d)' = Overview!Behind(d)
    BY <1>1, <1>3, <1>4, <1>6
  <2>2. Overview!Existing = Overview!Edited(task[d].list, Overview!Behind(d))
    BY <1>1, <1>6, <2>1, NothingMissed DEF TransformersInv
  <2>3. Overview!Edited(task[d].list, Overview!Behind(d))' = Overview!Edited(task[d].list, Overview!Behind(d))
    BY <1>1, <1>4, <2>1
  <2> QED BY <1>2, <2>2, <2>3
<1>7. ASSUME Overview!PendingLists' = {}
      PROVE  /\ Overview!Existing' = Overview!Edited(Overview!Listed, Overview!Pending)'
             /\ \A t \in Transformer : listing'[t] <= 1
             /\ \/ selected' \in Overview!Existing' \cup {None}
                \/ \E d \in Caller : IsRemove(d, selected)'
  <2>1. /\ Overview!Existing = Overview!Edited(Overview!Listed, Overview!Pending)
        /\ \A t \in Transformer : listing[t] <= 1
        /\ selected \in Overview!Existing \cup {None} \/ \E d \in Caller : IsRemove(d, selected)
    BY <1>1, <1>7, NothingMissed DEF TransformersInv
  <2>2. Overview!Edited(Overview!Listed, Overview!Pending)' = Overview!Edited(Overview!Listed, Overview!Pending)
    BY <1>1, <1>2
  <2>3. \A d \in Caller : IsRemove(d, selected) => IsRemove(d, selected)'
    BY DEF IsRemove, IsPending, TaskStep
  <2> QED BY <1>2, <2>1, <2>2, <2>3
<1> QED BY <1>5, <1>6, <1>7, NothingMissedThen

\* A step that is not of the counting that was begun last.
LEMMA CountsKept ==
  ASSUME Overview!CountsBecomeStored, missed => missed',
         newest' = newest, counts' = counts, newest # None => task'[newest] = task[newest],
         Overview!PendingLists' = {} => Overview!PendingLists = {},
         Overview!Pending' = {} =>
           /\ Overview!Pending = {} /\ Overview!Listed' = Overview!Listed
           /\ Overview!Existing' = Overview!Existing
           /\ \A t \in Overview!Existing : Overview!MetersAt(t)' = Overview!MetersAt(t),
         \A t \in Overview!Existing' : Overview!MetersAt(t)' = Overview!MetersAt(t),
         newest # None =>
           \A t \in Overview!Existing' : t \in task[newest].list => t \in Overview!Existing
  PROVE  Overview!CountsBecomeStored'
<1>1. newest # None => task'[newest].kind = "counts"
  BY DEF Overview!CountsBecomeStored
<1>2. ASSUME ~missed', Overview!PendingLists' = {}, newest # None,
             NEW t \in task[newest].list \ task[newest].asked, t \in Overview!Existing'
      PROVE  task[newest].got[t] = Overview!MetersAt(t)'
  BY <1>2 DEF Overview!CountsBecomeStored
<1>3. ASSUME ~missed', Overview!Pending' = {}
      PROVE  IF newest = None
             THEN \A t \in Overview!Existing' : counts[t] = Overview!Cardinality(Overview!MetersAt(t)')
             ELSE task[newest].list = Overview!Listed'
  BY <1>3 DEF Overview!CountsBecomeStored
<1>4. \A t : Overview!Cardinality(Overview!MetersAt(t))' = Overview!Cardinality(Overview!MetersAt(t)')
  OBVIOUS
<1> QED BY <1>1, <1>2, <1>3, <1>4 DEF Overview!CountsBecomeStored

LEMMA BeginsKeepsList ==
  ASSUME OverviewBase, TransformersInv, page = "transformers", NEW c \in Caller,
         \/ Overview!FetchTransformers(c) \/ Overview!UpdateStats(c)
         \/ \E u \in User : Overview!AddTransformer(u, c)
         \/ \E t \in Transformer : Overview!RemoveTransformer(t, c)
  PROVE  TransformersInv'
<1>1. PICK a : TaskStep(c, a) /\ Begins(c, a)
  BY OverviewBegins, OverviewBaseIs
<1>2. UNCHANGED <<holder, owner, selected, listing, counts, newest, ahead, missed>>
  BY DEF Overview!FetchTransformers, Overview!UpdateStats, Overview!AddTransformer,
         Overview!RemoveTransformer, Overview!rows, Overview!page_
<1>3. newest # None => newest # c /\ task'[newest] = task[newest]
  BY <1>1 DEF TransformersInv, Overview!CountsBecomeStored, Begins, TaskStep, OverviewBase, OverviewShown
<1>4. ~IsPending(c) /\ ~IsPending(c)'
  BY <1>1 DEF IsPending, Begins, TaskStep
<1>5. CASE missed
  BY <1>2, <1>3, <1>5, MissedKeepsList DEF TransformersInv, Overview!CountsBecomeStored
<1>6. CASE ~missed
  <2>1. Overview!AddedIsUnknown' /\ Overview!ListsBecomeStored' /\ Overview!SelectionBecomesStored'
    BY <1>1, <1>2, <1>4, <1>6, SameAnswersKeepList DEF Begins
  <2>2. /\ Overview!Pending' = Overview!Pending /\ Overview!PendingLists' = Overview!PendingLists
        /\ Overview!Existing' = Overview!Existing /\ Overview!Listed' = Overview!Listed
        /\ \A t : Overview!MetersAt(t)' = Overview!MetersAt(t)
    BY <1>1, <1>2, <1>4, PendingStays
       DEF TaskStep, Overview!Existing, Overview!Listed, Overview!MetersAt
  <2>3. Overview!CountsBecomeStored'
    BY <1>2, <1>3, <2>2, CountsKept DEF TransformersInv
  <2> QED BY <2>1, <2>3 DEF TransformersInv
<1> QED BY <1>2, <1>5, <1>6 DEF OverviewBase, OverviewShown

LEMMA RefuseKeepsList ==
  ASSUME OverviewBase, TransformersInv, page = "transformers", NEW c \in Caller, Overview!Refuse(c)
  PROVE  TransformersInv'
<1>1. PICK a : /\ TaskStep(c, a) /\ task[c].stage = "sent" /\ a.stage = "refused"
               /\ a.kind = task[c].kind /\ a.user = task[c].user
               /\ a.transformer = task[c].transformer /\ a.list = task[c].list
               /\ a.kind \in Overview!Reading \cup Overview!Writing
  BY OverviewRefuses DEF OverviewBase
<1>2. UNCHANGED <<holder, owner, selected, listing, counts, newest, ahead, missed>>
  BY DEF Overview!Refuse, Overview!RefuseNamed, Overview!rows, Overview!page_
<1>3. newest # None => newest # c /\ task'[newest] = task[newest]
  BY <1>1 DEF TransformersInv, Overview!CountsBecomeStored, TaskStep, OverviewBase, OverviewShown,
     Overview!Reading, Overview!Writing
<1>4. ~IsPending(c) /\ ~IsPending(c)'
  BY <1>1 DEF IsPending, TaskStep
<1>5. CASE missed
  BY <1>2, <1>3, <1>5, MissedKeepsList DEF TransformersInv, Overview!CountsBecomeStored
<1>6. CASE ~missed
  <2>1. Overview!AddedIsUnknown' /\ Overview!ListsBecomeStored' /\ Overview!SelectionBecomesStored'
    BY <1>1, <1>2, <1>4, <1>6, SameAnswersKeepList
  <2>2. /\ Overview!Pending' = Overview!Pending /\ Overview!PendingLists' = Overview!PendingLists
        /\ Overview!Existing' = Overview!Existing /\ Overview!Listed' = Overview!Listed
        /\ \A t : Overview!MetersAt(t)' = Overview!MetersAt(t)
    BY <1>1, <1>2, <1>4, PendingStays
       DEF TaskStep, Overview!Existing, Overview!Listed, Overview!MetersAt
  <2>3. Overview!CountsBecomeStored'
    BY <1>2, <1>3, <2>2, CountsKept DEF TransformersInv
  <2> QED BY <2>1, <2>3 DEF TransformersInv
<1> QED BY <1>2, <1>5, <1>6 DEF OverviewBase, OverviewShown

LEMMA FailsKeepsList ==
  ASSUME OverviewBase, TransformersInv, page = "transformers", NEW c \in Caller, Overview!Fails(c)
  PROVE  TransformersInv'
<1>1. /\ TaskStep(c, Overview!NoTask) /\ Overview!NoTask.kind = "none"
      /\ Overview!NoTask.stage = "sent" /\ Overview!NoTask.list = {}
  BY OverviewDone, OverviewNoTask DEF OverviewBase, Overview!Fails
<1>2. /\ UNCHANGED <<holder, owner, selected, listing, counts, newest>>
      /\ missed' = (missed \/ task[c].stage # "refused")
      /\ task[c].kind # "counts"
  BY DEF Overview!Fails, Overview!rows
<1>3. newest # None => newest # c /\ task'[newest] = task[newest]
  BY <1>1, <1>2 DEF TransformersInv, Overview!CountsBecomeStored, TaskStep, OverviewBase, OverviewShown
<1>4. CASE missed'
  BY <1>2, <1>3, <1>4, MissedKeepsList DEF TransformersInv, Overview!CountsBecomeStored, OverviewBase,
     OverviewShown
<1>5. CASE ~missed'
  <2>1. ~missed /\ ~IsPending(c) /\ ~IsPending(c)'
    BY <1>1, <1>2, <1>5 DEF IsPending, TaskStep
  <2>2. \A d \in Caller : ahead[d] \ {c} = ahead[d] /\ ahead[c] = {}
    BY <2>1, PendingIs DEF OverviewBase, Overview!PendingInOrder
  <2>3. ahead' = ahead
    BY <2>2 DEF Overview!Fails, Overview!IsOver, OverviewBase
  <2>4. Overview!AddedIsUnknown' /\ Overview!ListsBecomeStored' /\ Overview!SelectionBecomesStored'
    BY <1>1, <1>2, <2>1, <2>3, SameAnswersKeepList
  <2>5. /\ Overview!Pending' = Overview!Pending /\ Overview!PendingLists' = Overview!PendingLists
        /\ Overview!Existing' = Overview!Existing /\ Overview!Listed' = Overview!Listed
        /\ \A t : Overview!MetersAt(t)' = Overview!MetersAt(t)
    BY <1>1, <1>2, <2>1, <2>3, PendingStays
       DEF TaskStep, Overview!Existing, Overview!Listed, Overview!MetersAt
  <2>6. Overview!CountsBecomeStored'
    BY <1>2, <1>3, <2>1, <2>5, CountsKept DEF TransformersInv
  <2> QED BY <2>4, <2>6 DEF TransformersInv
<1> QED BY <1>4, <1>5

LEMMA MetersKeepsList ==
  ASSUME OverviewBase, TransformersInv, page = "transformers", NEW c \in Caller, NEW t \in Transformer,
         Overview!AnswerMeters(c, t) \/ Overview!FailMeters(c, t), UNCHANGED <<page, Overview!page_>>
  PROVE  TransformersInv'
<1>0. task[c].kind = "counts"
  BY DEF OverviewBase, OverviewTask, Overview!AnswerMeters, Overview!FailMeters, Overview!Counting
<1>1. PICK a :
           /\ TaskStep(c, a) /\ a.kind = "counts" /\ a.stage = task[c].stage
           /\ a.list = task[c].list /\ t \in task[c].asked /\ a.asked = task[c].asked \ {t}
           /\ \A x \in Transformer \ {t} : a.got[x] = task[c].got[x]
           /\ \/ a.got[t] = Overview!MetersAt(t) /\ missed' = missed
              \/ missed' = (missed \/ holder[t] # None)
  BY <1>0, OverviewMeters DEF OverviewBase
<1>2. UNCHANGED <<holder, owner, selected, listing, counts, newest, ahead>>
  BY DEF Overview!AnswerMeters, Overview!FailMeters, Overview!rows, Overview!page_
<1>3. newest' # None => newest' \in Caller /\ task'[newest'].kind = "counts"
  BY <1>1, <1>2 DEF TransformersInv, Overview!CountsBecomeStored, TaskStep, OverviewBase, OverviewShown
<1>4. CASE missed'
  BY <1>1, <1>3, <1>4, MissedKeepsList DEF OverviewBase, OverviewShown
<1>5. CASE ~missed'
  <2>1. ~missed /\ ~IsPending(c) /\ ~IsPending(c)' /\ (t \in Overview!Existing => a.got[t] = Overview!MetersAt(t))
    <3>1. ~IsPending(c) /\ ~IsPending(c)'
      BY <1>0, <1>1 DEF IsPending, TaskStep
    <3>2. missed' = missed \/ missed' = (missed \/ holder[t] # None)
      BY <1>1
    <3>3. ~missed
      BY <1>5, <3>2
    <3>4. CASE t \in Overview!Existing
      <4>1. holder[t] # None
        BY <3>4 DEF Overview!Existing
      <4> QED BY <1>1, <1>5, <3>1, <3>3, <4>1
    <3> QED BY <3>1, <3>3, <3>4
  <2>2. Overview!AddedIsUnknown' /\ Overview!ListsBecomeStored' /\ Overview!SelectionBecomesStored'
    BY <1>1, <1>2, <2>1, SameAnswersKeepList
  <2>3. /\ Overview!Pending' = Overview!Pending /\ Overview!PendingLists' = Overview!PendingLists
        /\ Overview!Existing' = Overview!Existing /\ Overview!Listed' = Overview!Listed
        /\ \A x : Overview!MetersAt(x)' = Overview!MetersAt(x)
    BY <1>1, <1>2, <2>1, PendingStays
       DEF TaskStep, Overview!Existing, Overview!Listed, Overview!MetersAt
  <2>4. Overview!CountsBecomeStored'
    <3>1. CASE newest # c
      <4>1. newest # None => task'[newest] = task[newest]
        BY <1>1, <3>1 DEF TaskStep, OverviewBase, OverviewShown
      <4> QED BY <1>1, <1>2, <2>1, <2>3, <4>1, CountsKept DEF TransformersInv
    <3>2. CASE newest = c
      <4>1. ASSUME Overview!PendingLists = {}, NEW x \in a.list \ a.asked, x \in Overview!Existing
            PROVE  a.got[x] = Overview!MetersAt(x)
        <5>1. CASE x = t
          BY <2>1, <4>1, <5>1
        <5>2. CASE x # t
          <6>1. x \in task[c].list \ task[c].asked /\ x \in Transformer
            BY <1>1, <4>1, <5>2 DEF Overview!Existing
          <6>2. task[c].got[x] = Overview!MetersAt(x)
            BY <2>1, <3>2, <4>1, <6>1, NoneApart DEF TransformersInv, Overview!CountsBecomeStored
          <6> QED BY <1>1, <5>2, <6>1, <6>2
        <5> QED BY <5>1, <5>2
      <4>2. newest' = c /\ c # None /\ task'[c] = a
        BY <1>1, <1>2, <3>2, NoneApart DEF TaskStep
      <4>3. Overview!Pending = {} => task[c].list = Overview!Listed
        BY <2>1, <3>2, NoneApart DEF TransformersInv, Overview!CountsBecomeStored
      <4> QED BY <1>1, <2>3, <4>1, <4>2, <4>3 DEF Overview!CountsBecomeStored
    <3> QED BY <3>1, <3>2
  <2> QED BY <2>2, <2>4 DEF TransformersInv
<1> QED BY <1>4, <1>5

LEMMA EditedByNone == \A ts \in SUBSET Transformer : Overview!Edited(ts, {}) = ts
BY EditedIs

LEMMA CountsLoadedKeepsList ==
  ASSUME OverviewBase, TransformersInv, page = "transformers", NEW c \in Caller, Overview!CountsLoaded(c)
  PROVE  TransformersInv'
<1>1. /\ TaskStep(c, Overview!NoTask) /\ Overview!NoTask.kind = "none"
      /\ Overview!NoTask.stage = "sent" /\ Overview!NoTask.list = {}
  BY OverviewDone, OverviewNoTask DEF OverviewBase, Overview!CountsLoaded
<1>2. /\ UNCHANGED <<holder, owner, selected, listing, ahead>>
      /\ newest' = (IF newest = c THEN None ELSE newest) /\ missed' = (missed \/ newest = None)
      /\ task[c].kind = "counts" /\ task[c].asked = {}
      /\ counts' = [t \in Transformer |-> IF t \in task[c].list
                                          THEN Overview!Cardinality(task[c].got[t]) ELSE None]
  BY DEF Overview!CountsLoaded, Overview!rows
<1>3. newest' # None => newest' = newest /\ newest # c /\ task'[newest] = task[newest]
  BY <1>1, <1>2 DEF TaskStep, OverviewBase, OverviewShown
<1>4. CASE missed'
  BY <1>2, <1>3, <1>4, MissedKeepsList DEF TransformersInv, Overview!CountsBecomeStored, OverviewBase,
     OverviewShown
<1>5. CASE ~missed'
  <2>1. ~missed /\ newest # None /\ ~IsPending(c) /\ ~IsPending(c)'
    BY <1>1, <1>2, <1>5 DEF IsPending, TaskStep
  <2>2. Overview!AddedIsUnknown' /\ Overview!ListsBecomeStored' /\ Overview!SelectionBecomesStored'
    BY <1>1, <1>2, <2>1, SameAnswersKeepList
  <2>3. /\ Overview!Pending' = Overview!Pending /\ Overview!PendingLists' = Overview!PendingLists
        /\ Overview!Existing' = Overview!Existing /\ Overview!Listed' = Overview!Listed
        /\ \A x : Overview!MetersAt(x)' = Overview!MetersAt(x)
    BY <1>1, <1>2, <2>1, PendingStays
       DEF TaskStep, Overview!Existing, Overview!Listed, Overview!MetersAt
  <2>4. Overview!CountsBecomeStored'
    <3>1. CASE newest # c
      <4>1. /\ task[newest].kind = "counts"
            /\ Overview!PendingLists = {} =>
                 \A t \in task[newest].list \ task[newest].asked :
                   t \in Overview!Existing => task[newest].got[t] = Overview!MetersAt(t)
            /\ Overview!Pending = {} => task[newest].list = Overview!Listed
        BY <2>1 DEF TransformersInv, Overview!CountsBecomeStored
      <4>2. newest' = newest /\ task'[newest] = task[newest]
        BY <1>2, <1>3, <2>1, <3>1
      <4> QED BY <2>1, <2>3, <4>1, <4>2 DEF Overview!CountsBecomeStored
    <3>2. CASE newest = c
      <4>1. ASSUME Overview!Pending = {}, NEW t \in Overview!Existing
            PROVE  counts'[t] = Overview!Cardinality(Overview!MetersAt(t))
        <5>1. Overview!PendingLists = {} /\ task[c].list = Overview!Listed
          BY <2>1, <3>2, <4>1 DEF TransformersInv, Overview!CountsBecomeStored, Overview!PendingLists
        <5>2. Overview!Existing = Overview!Edited(Overview!Listed, {})
          BY <2>1, <4>1, <5>1, NothingMissed DEF TransformersInv
        <5>3. t \in task[c].list /\ t \in Transformer
          BY <5>1, <5>2, EditedByNone DEF Overview!Listed, Overview!Existing
        <5>4. task[c].got[t] = Overview!MetersAt(t)
          BY <1>2, <2>1, <3>2, <5>1, <5>3 DEF TransformersInv, Overview!CountsBecomeStored
        <5> QED BY <1>2, <5>3, <5>4
      <4>2. newest' = None
        BY <1>2, <3>2
      <4>3. \A t : Overview!Cardinality(Overview!MetersAt(t))' = Overview!Cardinality(Overview!MetersAt(t)')
        OBVIOUS
      <4> QED BY <2>3, <4>1, <4>2, <4>3 DEF Overview!CountsBecomeStored
    <3> QED BY <3>1, <3>2
  <2> QED BY <2>2, <2>4 DEF TransformersInv
<1> QED BY <1>4, <1>5

\* A list that is answered now is what is stored, and comes after all that are pending.
LEMMA AnswerListKeepsList ==
  ASSUME OverviewBase, TransformersInv, page = "transformers", NEW c \in Caller, Overview!AnswerList(c)
  PROVE  TransformersInv'
<1>1. PICK a : TaskStep(c, a) /\ ListAnswered(c, a)
  BY OverviewAnswersList DEF OverviewBase
<1>2. UNCHANGED <<holder, owner, selected, listing, counts, newest>>
  BY DEF Overview!AnswerList, Overview!AnswerRead, Overview!rows
<1>3. /\ Overview!Pending' = Overview!Pending \cup {c} /\ c \notin Overview!Pending
      /\ Overview!Behind(c)' = {}
      /\ \A d \in Overview!Pending : Overview!Behind(d)' = Overview!Behind(d) \cup {c}
  BY <1>1, PendingGrows DEF IsPending, TaskStep, ListAnswered, OverviewBase, Overview!AnswerList
<1>4. c \in Overview!PendingLists'
  BY <1>1, <1>3 DEF Overview!PendingLists, TaskStep, ListAnswered
<1>5. ASSUME NEW d \in Caller, NEW t, IsAdd(d, t)',
             Overview!Behind(d)' \cap Overview!PendingLists' = {}
      PROVE  FALSE
  <2>1. d \in Overview!Pending
    BY <1>1, <1>5, PendingIs DEF IsAdd, IsPending, TaskStep, ListAnswered
  <2> QED BY <1>3, <1>4, <1>5, <2>1
<1>6. ASSUME NEW d \in Overview!PendingLists', Overview!Behind(d)' \cap Overview!PendingLists' = {}
      PROVE  Overview!Existing' = Overview!Edited(task[d].list, Overview!Behind(d))'
  <2>1. d = c
    BY <1>3, <1>4, <1>6 DEF Overview!PendingLists
  <2>2. task'[d].list = Overview!Existing /\ Overview!Behind(d)' = {}
    BY <1>1, <1>3, <2>1 DEF TaskStep, ListAnswered
  <2>3. Overview!Edited(task[d].list, Overview!Behind(d))' = Overview!Existing
    BY <2>2 DEF Overview!Edited, Overview!Existing
  <2> QED BY <1>2, <2>3 DEF Overview!Existing
<1>7. Overview!AddedIsUnknown' /\ Overview!ListsBecomeStored' /\ Overview!SelectionBecomesStored'
  BY <1>4, <1>5, <1>6, NothingMissedThen
<1>8. newest # None => newest # c /\ task'[newest] = task[newest]
  BY <1>1 DEF TransformersInv, Overview!CountsBecomeStored, TaskStep, ListAnswered, OverviewBase,
     OverviewShown
<1>9. Overview!CountsBecomeStored'
  BY <1>2, <1>3, <1>4, <1>8 DEF TransformersInv, Overview!CountsBecomeStored
<1> QED BY <1>7, <1>9 DEF TransformersInv

\* An edit that is answered now comes after all that are pending.
LEMMA AnswerEditKeepsList ==
  ASSUME OverviewBase, TransformersInv, page = "transformers", NEW c \in Caller, Overview!AnswerEdit(c)
  PROVE  TransformersInv'
<1>0. OverviewTask(c) /\ task \in [Caller -> Overview!Task] /\ OverviewRows
  BY DEF OverviewBase
<1>1. PICK a : /\ TaskStep(c, a) /\ EditAnswered(c, a) /\ a.transformer \in Transformer
               /\ \/ a.kind = "add" /\ Overview!Create(a.transformer, a.user)
                  \/ /\ a.kind = "remove" /\ a.transformer = task[c].transformer
                     /\ Overview!Delete(a.transformer)
  BY <1>0, OverviewAnswersEdit DEF OverviewTask
<1>2. /\ UNCHANGED <<selected, listing, counts, newest, missed>> /\ Overview!Listed' = Overview!Listed
  BY DEF Overview!AnswerEdit, Overview!Listed
<1>3. /\ Overview!Pending' = Overview!Pending \cup {c} /\ c \notin Overview!Pending
      /\ Overview!Behind(c)' = {}
      /\ \A d \in Overview!Pending : Overview!Behind(d)' = Overview!Behind(d) \cup {c}
  BY <1>1, PendingGrows DEF IsPending, TaskStep, EditAnswered, OverviewBase, Overview!AnswerEdit
<1>4. \A d \in Overview!Pending : d \in Caller \ {c} /\ task'[d] = task[d]
  BY <1>1, <1>3, PendingIs DEF TaskStep
<1>5. /\ Overview!PendingLists' = Overview!PendingLists /\ c \notin Overview!PendingLists
      /\ \A d : Overview!Behind(d) \subseteq Overview!Pending
      /\ Overview!PendingLists \subseteq Overview!Pending
  BY <1>1, <1>3, <1>4 DEF Overview!PendingLists, Overview!Behind, TaskStep, EditAnswered
<1> DEFINE t == a.transformer
<1>6. newest # None => newest # c /\ task'[newest] = task[newest]
  BY <1>1 DEF TransformersInv, Overview!CountsBecomeStored, TaskStep, EditAnswered, OverviewBase,
     OverviewShown
<1>7. CASE missed
  BY <1>2, <1>6, <1>7, MissedKeepsList DEF TransformersInv, Overview!CountsBecomeStored
<1>8. CASE ~missed /\ a.kind = "add"
  <2>1. /\ t \notin used /\ Overview!Existing' = Overview!Existing \cup {t}
        /\ \A x \in Transformer : Overview!MetersAt(x)' = Overview!MetersAt(x)
    BY <1>0, <1>1, <1>8, OverviewCreates
  <2>2. t \notin Overview!Listed /\ listing[t] = 0
    BY <1>1, <2>1 DEF OverviewBase, OverviewShown, AddedOnce, Overview!Listed
  <2>3. \A d \in Caller : task[d].kind = "remove" => task[d].transformer # t
    BY <2>1 DEF OverviewBase, OverviewTask
  <2>4. \A d \in Caller : t \notin task[d].list
    BY <2>1 DEF OverviewBase, OverviewTask
  <2>5. ASSUME NEW ts, NEW es \in SUBSET Overview!Pending
        PROVE  {x \in Transformer : \/ \E d \in es \cup {c} : IsAdd(d, x)'
                                    \/ x \in ts /\ \A d \in es \cup {c} : ~IsRemove(d, x)'} =
                 Overview!Edited(ts, es) \cup {t}
    <3>1. \A d \in es : \A x : (IsAdd(d, x)' <=> IsAdd(d, x)) /\ (IsRemove(d, x)' <=> IsRemove(d, x))
      BY <1>4 DEF IsAdd, IsRemove
    <3>2. \A x : (IsAdd(c, x)' <=> x = t) /\ ~IsRemove(c, x)'
      BY <1>1, <1>8 DEF IsAdd, IsRemove, TaskStep, EditAnswered
    <3> QED BY <1>1, <3>1, <3>2, EditedIs
  <2>6. ASSUME NEW d \in Caller, NEW x, IsAdd(d, x)',
               Overview!Behind(d)' \cap Overview!PendingLists' = {}
        PROVE  /\ listing'[x] = 0
               /\ \A e \in Caller : ~(task'[e].kind = "remove" /\ task'[e].transformer = x)
               /\ \A e \in Overview!PendingLists' : x \notin task'[e].list
    <3>1. CASE d = c
      <4>1. x = t
        BY <1>1, <2>6, <3>1 DEF IsAdd, TaskStep
      <4> QED BY <1>1, <1>2, <1>4, <1>5, <1>8, <2>2, <2>3, <2>4, <4>1 DEF TaskStep
    <3>2. CASE d # c
      <4>1. IsAdd(d, x) /\ d \in Overview!Pending
        BY <1>1, <2>6, <3>2, PendingIs DEF IsAdd, IsPending, TaskStep
      <4>2. Overview!Behind(d) \cap Overview!PendingLists = {}
        BY <1>3, <1>5, <2>6, <4>1
      <4>3. /\ listing[x] = 0
            /\ \A e \in Caller : ~(task[e].kind = "remove" /\ task[e].transformer = x)
            /\ \A e \in Overview!PendingLists : x \notin task[e].list
        BY <1>8, <4>1, <4>2, NothingMissed DEF TransformersInv
      <4> QED BY <1>1, <1>2, <1>4, <1>5, <1>8, <4>3 DEF TaskStep
    <3> QED BY <3>1, <3>2
  <2>7. ASSUME NEW d \in Overview!PendingLists', Overview!Behind(d)' \cap Overview!PendingLists' = {}
        PROVE  Overview!Existing' = Overview!Edited(task[d].list, Overview!Behind(d))'
    <3>1. d \in Overview!Pending /\ task'[d].list = task[d].list
          /\ Overview!Behind(d)' = Overview!Behind(d) \cup {c}
      BY <1>3, <1>4, <1>5, <2>7
    <3>2. Overview!Existing = Overview!Edited(task[d].list, Overview!Behind(d))
      BY <1>5, <1>8, <2>7, <3>1, NothingMissed DEF TransformersInv
    <3>3. Overview!Edited(task[d].list, Overview!Behind(d))' =
            {x \in Transformer : \/ \E e \in Overview!Behind(d) \cup {c} : IsAdd(e, x)'
                                 \/ /\ x \in task[d].list
                                    /\ \A e \in Overview!Behind(d) \cup {c} : ~IsRemove(e, x)'}
      BY <3>1 DEF Overview!Edited, Overview!Answered, IsAdd, IsRemove
    <3> QED BY <1>5, <2>1, <2>5, <3>2, <3>3
  <2>8. ASSUME Overview!PendingLists' = {}
        PROVE  /\ Overview!Existing' = Overview!Edited(Overview!Listed, Overview!Pending)'
               /\ \A x \in Transformer : listing'[x] <= 1
               /\ \/ selected' \in Overview!Existing' \cup {None}
                  \/ \E d \in Caller : IsRemove(d, selected)'
    <3>1. /\ Overview!Existing = Overview!Edited(Overview!Listed, Overview!Pending)
          /\ \A x \in Transformer : listing[x] <= 1
          /\ selected \in Overview!Existing \cup {None} \/ \E d \in Caller : IsRemove(d, selected)
      BY <1>5, <1>8, <2>8, NothingMissed DEF TransformersInv
    <3>2. Overview!Edited(Overview!Listed, Overview!Pending)' =
            {x \in Transformer : \/ \E e \in Overview!Pending \cup {c} : IsAdd(e, x)'
                                 \/ /\ x \in Overview!Listed
                                    /\ \A e \in Overview!Pending \cup {c} : ~IsRemove(e, x)'}
      BY <1>2, <1>3 DEF Overview!Edited, Overview!Answered, IsAdd, IsRemove
    <3>3. \A d \in Caller : IsRemove(d, selected) => IsRemove(d, selected)'
      BY <1>1, <1>2 DEF IsRemove, TaskStep, EditAnswered
    <3> QED BY <1>2, <2>1, <2>5, <3>1, <3>2, <3>3
  <2>9. Overview!CountsBecomeStored'
    <3>1. newest # None => t \notin task[newest].list
      BY <2>4 DEF OverviewBase, OverviewShown
    <3>2. Overview!Pending' # {}
      BY <1>3
    <3>3. \A x \in Overview!Existing' : x \in Transformer
      BY DEF Overview!Existing
    <3> QED BY <1>2, <1>5, <1>6, <2>1, <3>1, <3>2, <3>3, CountsKept DEF TransformersInv
  <2> QED BY <2>6, <2>7, <2>8, <2>9, NothingMissedThen DEF TransformersInv
<1>9. CASE ~missed /\ a.kind = "remove"
  <2>1. /\ Overview!Existing' = Overview!Existing \ {t} /\ task[c].transformer = t
        /\ \A x \in Transformer \ {t} : Overview!MetersAt(x)' = Overview!MetersAt(x)
        /\ task[c].kind = "remove"
    BY <1>0, <1>1, <1>9, OverviewDeletes DEF EditAnswered
  <2>2. ASSUME NEW d \in Overview!Pending, Overview!Behind(d) \cap Overview!PendingLists = {}
        PROVE  ~IsAdd(d, t)
    BY <1>4, <1>9, <2>1, <2>2, NothingMissed DEF TransformersInv
  <2>3. ASSUME NEW ts, NEW es \in SUBSET Overview!Pending, \A d \in es : ~IsAdd(d, t)
        PROVE  {x \in Transformer : \/ \E d \in es \cup {c} : IsAdd(d, x)'
                                    \/ x \in ts /\ \A d \in es \cup {c} : ~IsRemove(d, x)'} =
                 Overview!Edited(ts, es) \ {t}
    <3>1. \A d \in es : \A x : (IsAdd(d, x)' <=> IsAdd(d, x)) /\ (IsRemove(d, x)' <=> IsRemove(d, x))
      BY <1>4 DEF IsAdd, IsRemove
    <3>2. \A x : (IsRemove(c, x)' <=> x = t) /\ ~IsAdd(c, x)'
      BY <1>1, <1>9 DEF IsAdd, IsRemove, TaskStep, EditAnswered
    <3> QED BY <1>1, <2>3, <3>1, <3>2, EditedIs
  <2>4. ASSUME NEW d \in Caller, NEW x, IsAdd(d, x)',
               Overview!Behind(d)' \cap Overview!PendingLists' = {}
        PROVE  /\ listing'[x] = 0
               /\ \A e \in Caller : ~(task'[e].kind = "remove" /\ task'[e].transformer = x)
               /\ \A e \in Overview!PendingLists' : x \notin task'[e].list
    <3>1. IsAdd(d, x) /\ d \in Overview!Pending
      BY <1>1, <1>9, <2>4, PendingIs DEF IsAdd, IsPending, TaskStep
    <3>2. Overview!Behind(d) \cap Overview!PendingLists = {}
      BY <1>3, <1>5, <2>4, <3>1
    <3>3. /\ listing[x] = 0
          /\ \A e \in Caller : ~(task[e].kind = "remove" /\ task[e].transformer = x)
          /\ \A e \in Overview!PendingLists : x \notin task[e].list
      BY <1>9, <3>1, <3>2, NothingMissed DEF TransformersInv
    <3> QED BY <1>1, <1>2, <1>4, <1>5, <2>1, <3>3 DEF TaskStep
  <2>5. ASSUME NEW d \in Overview!PendingLists', Overview!Behind(d)' \cap Overview!PendingLists' = {}
        PROVE  Overview!Existing' = Overview!Edited(task[d].list, Overview!Behind(d))'
    <3>1. d \in Overview!Pending /\ d \in Caller /\ task'[d].list = task[d].list
          /\ Overview!Behind(d)' = Overview!Behind(d) \cup {c}
      BY <1>3, <1>4, <1>5, <2>5
    <3>2. Overview!Behind(d) \cap Overview!PendingLists = {}
      BY <1>5, <2>5, <3>1
    <3>3. Overview!Existing = Overview!Edited(task[d].list, Overview!Behind(d))
      BY <1>5, <1>9, <2>5, <3>2, NothingMissed DEF TransformersInv
    <3>4. Overview!Edited(task[d].list, Overview!Behind(d))' =
            {x \in Transformer : \/ \E e \in Overview!Behind(d) \cup {c} : IsAdd(e, x)'
                                 \/ /\ x \in task[d].list
                                    /\ \A e \in Overview!Behind(d) \cup {c} : ~IsRemove(e, x)'}
      BY <3>1 DEF Overview!Edited, Overview!Answered, IsAdd, IsRemove
    <3>5. ASSUME NEW e \in Overview!Behind(d) PROVE ~IsAdd(e, t)
      BY <1>5, <2>2, <3>1, <3>2, BehindBehind DEF OverviewBase
    <3> QED BY <1>5, <2>1, <2>3, <3>3, <3>4, <3>5
  <2>6. ASSUME Overview!PendingLists' = {}
        PROVE  /\ Overview!Existing' = Overview!Edited(Overview!Listed, Overview!Pending)'
               /\ \A x \in Transformer : listing'[x] <= 1
               /\ \/ selected' \in Overview!Existing' \cup {None}
                  \/ \E d \in Caller : IsRemove(d, selected)'
    <3>1. /\ Overview!Existing = Overview!Edited(Overview!Listed, Overview!Pending)
          /\ \A x \in Transformer : listing[x] <= 1
          /\ selected \in Overview!Existing \cup {None} \/ \E d \in Caller : IsRemove(d, selected)
      BY <1>5, <1>9, <2>6, NothingMissed DEF TransformersInv
    <3>2. Overview!Edited(Overview!Listed, Overview!Pending)' =
            {x \in Transformer : \/ \E e \in Overview!Pending \cup {c} : IsAdd(e, x)'
                                 \/ /\ x \in Overview!Listed
                                    /\ \A e \in Overview!Pending \cup {c} : ~IsRemove(e, x)'}
      BY <1>2, <1>3 DEF Overview!Edited, Overview!Answered, IsAdd, IsRemove
    <3>3. \A d \in Overview!Pending : ~IsAdd(d, t)
      BY <1>5, <2>2, <2>6
    <3>4. \A d \in Caller : IsRemove(d, selected) => IsRemove(d, selected)'
      BY <1>1, <1>2 DEF IsRemove, TaskStep, EditAnswered
    <3>5. IsRemove(c, t)'
      BY <1>1, <1>9 DEF IsRemove, TaskStep, EditAnswered
    <3>6. selected = t => IsRemove(c, selected)'
      BY <1>2, <3>5 DEF IsRemove
    <3> QED BY <1>2, <2>1, <2>3, <3>1, <3>2, <3>3, <3>4, <3>6
  <2>7. Overview!CountsBecomeStored'
    <3>1. Overview!Pending' # {} /\ \A x \in Overview!Existing' : x \in Transformer
      BY <1>3 DEF Overview!Existing
    <3> QED BY <1>2, <1>5, <1>6, <2>1, <3>1, CountsKept DEF TransformersInv
  <2> QED BY <2>4, <2>5, <2>6, <2>7, NothingMissedThen DEF TransformersInv
<1> QED BY <1>1, <1>7, <1>8, <1>9 DEF OverviewBase, OverviewShown

\* The page handles the first answer that is pending.
LEMMA FirstIsHandled ==
  ASSUME OverviewBase, NEW c \in Caller, NEW a, TaskStep(c, a), a.kind = "counts",
         IsPending(c), Overview!IsOver(c), ahead[c] = {}
  PROVE  /\ Overview!Behind(c) = Overview!Pending \ {c}
         /\ Overview!Pending' = Overview!Pending \ {c}
         /\ Overview!PendingLists' = Overview!PendingLists \ {c}
         /\ \A d \in Caller \ {c} : Overview!Behind(d)' = Overview!Behind(d) /\ c \notin Overview!Behind(d)
         /\ \A d \in Overview!Pending \ {c} : d \in Caller \ {c} /\ task'[d] = task[d]
         /\ \A d \in Caller \ {c} : \A ts, es : es \subseteq Overview!Pending \ {c} =>
              Overview!Edited(ts, es)' = Overview!Edited(ts, es)
<1>1. ~IsPending(c)' /\ c \in Overview!Pending
  BY PendingIs DEF IsPending, TaskStep
<1>2. /\ Overview!Pending' = Overview!Pending \ {c}
      /\ \A d \in Caller \ {c} : Overview!Behind(d)' = Overview!Behind(d) \ {c}
  BY <1>1, PendingShrinks DEF TaskStep, OverviewBase
<1>3. /\ Overview!Behind(c) = Overview!Pending \ {c}
      /\ \A d \in Caller : c \notin Overview!Behind(d)
  BY <1>1, FirstPending DEF OverviewBase
<1>4. \A d \in Overview!Pending \ {c} : d \in Caller \ {c} /\ task'[d] = task[d]
  BY PendingIs DEF TaskStep
<1>5. Overview!PendingLists' = Overview!PendingLists \ {c}
  BY <1>2, <1>4 DEF Overview!PendingLists
<1>6. ASSUME NEW ts, NEW es \in SUBSET (Overview!Pending \ {c})
      PROVE  Overview!Edited(ts, es)' = Overview!Edited(ts, es)
  BY <1>4 DEF Overview!Edited, Overview!Answered
<1> QED BY <1>2, <1>3, <1>4, <1>5, <1>6

\* What is known of the others' transformers, after the first answer has been handled.
LEMMA OthersUnknown ==
  ASSUME OverviewBase, TransformersInv, ~missed, NEW c \in Caller, NEW a, TaskStep(c, a), a.kind = "counts",
         IsPending(c), Overview!IsOver(c), ahead[c] = {},
         NEW d \in Caller, NEW t, IsAdd(d, t)', Overview!Behind(d)' \cap Overview!PendingLists' = {}
  PROVE  /\ IsAdd(d, t) /\ d # c
         /\ listing[t] = 0
         /\ \A e \in Caller : ~(task'[e].kind = "remove" /\ task'[e].transformer = t)
         /\ \A e \in Overview!PendingLists : t \notin task[e].list
         /\ \A e \in Overview!PendingLists' : t \notin task'[e].list
<1>1. IsAdd(d, t) /\ d # c
  BY DEF IsAdd, TaskStep
<1>2. Overview!Behind(d) \cap Overview!PendingLists = {}
  BY <1>1, FirstIsHandled
<1>3. /\ listing[t] = 0
      /\ \A e \in Caller : ~(task[e].kind = "remove" /\ task[e].transformer = t)
      /\ \A e \in Overview!PendingLists : t \notin task[e].list
  BY <1>1, <1>2, NothingMissed DEF TransformersInv
<1>4. \A e \in Caller : ~(task'[e].kind = "remove" /\ task'[e].transformer = t)
  BY <1>3 DEF TaskStep
<1>5. \A e \in Overview!PendingLists' : t \notin task'[e].list
  BY <1>3, FirstIsHandled DEF Overview!PendingLists
<1> QED BY <1>1, <1>3, <1>4, <1>5

\* The last list that is pending stays so, unless it is c's.
LEMMA LastListStays ==
  ASSUME OverviewBase, TransformersInv, ~missed, NEW c \in Caller, NEW a, TaskStep(c, a), a.kind = "counts",
         IsPending(c), Overview!IsOver(c), ahead[c] = {}, holder' = holder,
         NEW d \in Overview!PendingLists', Overview!Behind(d)' \cap Overview!PendingLists' = {}
  PROVE  Overview!Existing' = Overview!Edited(task[d].list, Overview!Behind(d))'
<1>1. /\ d \in Overview!PendingLists /\ d # c /\ d \in Caller /\ task'[d] = task[d]
      /\ Overview!Behind(d)' = Overview!Behind(d) /\ c \notin Overview!Behind(d)
  BY FirstIsHandled DEF Overview!PendingLists, Overview!Pending
<1>2. Overview!Behind(d) \cap Overview!PendingLists = {}
  BY <1>1, FirstIsHandled
<1>3. Overview!Existing = Overview!Edited(task[d].list, Overview!Behind(d))
  BY <1>1, <1>2, NothingMissed DEF TransformersInv
<1>4. Overview!Behind(d) \subseteq Overview!Pending \ {c} /\ task'[d].list = task[d].list
  BY <1>1 DEF Overview!Behind
<1>5. Overview!Edited(task[d].list, Overview!Behind(d))' = Overview!Edited(task[d].list, Overview!Behind(d))
  BY <1>1, <1>4, FirstIsHandled
<1> QED BY <1>3, <1>5 DEF Overview!Existing

\* The counting that c has begun, of all that is listed.
LEMMA NewCounting ==
  ASSUME NEW c \in Caller, NEW a, TaskStep(c, a), a.kind = "counts", a.asked = a.list,
         newest' = c, a.list = Overview!Listed'
  PROVE  Overview!CountsBecomeStored'
BY NoneApart DEF TaskStep, Overview!CountsBecomeStored

LEMMA FetchedKeepsList ==
  ASSUME OverviewBase, TransformersInv, page = "transformers", NEW c \in Caller,
         Overview!TransformersFetched(c)
  PROVE  TransformersInv'
<1> DEFINE ts == task[c].list
<1>0. OverviewTask(c)
  BY DEF OverviewBase
<1>1. /\ ts \subseteq Transformer /\ IsPending(c) /\ task[c].kind = "list"
      /\ Overview!IsOver(c) /\ missed' = (missed \/ ahead[c] # {})
      /\ listing' = [t \in Transformer |-> IF t \in ts THEN 1 ELSE 0]
      /\ selected' = (IF selected \in ts THEN selected ELSE None)
      /\ Overview!Do(c, OverviewCounting(ts)) /\ newest' = c
      /\ holder' = holder
  BY <1>0 DEF Overview!TransformersFetched, Overview!Answered, Overview!Handled, Overview!LoadMeterCounts,
     OverviewCounting, OverviewTask, IsPending, Overview!rows
<1>2. PICK a : /\ TaskStep(c, a) /\ a.kind = "counts" /\ a.stage = "sent" /\ a.list = ts
               /\ a.asked = ts
  BY <1>1, OverviewCounts DEF OverviewBase
<1>3. Overview!Listed' = ts
  BY <1>1 DEF Overview!Listed
<1>4. Overview!CountsBecomeStored'
  BY <1>1, <1>2, <1>3, NewCounting
<1>5. CASE missed'
  BY <1>1, <1>2, <1>5, MissedKeepsList DEF TaskStep, OverviewBase, OverviewShown
<1>6. CASE ~missed'
  <2>1. ~missed /\ ahead[c] = {}
    BY <1>1, <1>6
  <2>2. c \in Overview!PendingLists
    BY <1>1, PendingIs DEF Overview!PendingLists
  <2>3. ASSUME NEW d \in Caller, NEW t, IsAdd(d, t)',
               Overview!Behind(d)' \cap Overview!PendingLists' = {}
        PROVE  /\ listing'[t] = 0
               /\ \A e \in Caller : ~(task'[e].kind = "remove" /\ task'[e].transformer = t)
               /\ \A e \in Overview!PendingLists' : t \notin task'[e].list
    <3>1. /\ IsAdd(d, t)
          /\ \A e \in Caller : ~(task'[e].kind = "remove" /\ task'[e].transformer = t)
          /\ \A e \in Overview!PendingLists : t \notin task[e].list
          /\ \A e \in Overview!PendingLists' : t \notin task'[e].list
      BY <1>1, <1>2, <2>1, <2>3, OthersUnknown
    <3>2. t \notin ts /\ t \in Transformer
      BY <2>2, <3>1 DEF IsAdd, OverviewBase, OverviewTask
    <3> QED BY <1>1, <3>1, <3>2
  <2>4. ASSUME NEW d \in Overview!PendingLists', Overview!Behind(d)' \cap Overview!PendingLists' = {}
        PROVE  Overview!Existing' = Overview!Edited(task[d].list, Overview!Behind(d))'
    BY <1>1, <1>2, <2>1, <2>4, LastListStays
  <2>5. ASSUME Overview!PendingLists' = {}
        PROVE  /\ Overview!Existing' = Overview!Edited(Overview!Listed, Overview!Pending)'
               /\ \A t \in Transformer : listing'[t] <= 1
               /\ \/ selected' \in Overview!Existing' \cup {None}
                  \/ \E d \in Caller : IsRemove(d, selected)'
    <3>1. /\ Overview!PendingLists = {c} /\ Overview!Behind(c) = Overview!Pending \ {c}
          /\ Overview!Pending' = Overview!Pending \ {c}
      BY <1>1, <1>2, <2>1, <2>2, <2>5, FirstIsHandled
    <3>2. Overview!Existing = Overview!Edited(ts, Overview!Pending \ {c})
      BY <2>1, <2>2, <3>1, NothingMissed DEF TransformersInv
    <3>3. Overview!Edited(Overview!Listed, Overview!Pending)' = Overview!Edited(ts, Overview!Pending \ {c})
      <4>1. \A d \in Overview!Pending \ {c} : task'[d] = task[d]
        BY <1>1, <1>2, <2>1, FirstIsHandled
      <4> QED BY <1>3, <3>1, <4>1 DEF Overview!Edited, Overview!Answered
    <3>4. Overview!Existing' = Overview!Existing
      BY <1>1 DEF Overview!Existing
    <3>5. selected' \in Overview!Existing' \cup {None} \/ \E d \in Caller : IsRemove(d, selected)'
      <4>1. CASE selected \notin ts
        BY <1>1, <4>1
      <4>2. CASE selected \in ts
        <5>1. selected' = selected /\ selected \in Transformer
          BY <1>1, <4>2
        <5>2. CASE \E d \in Overview!Pending \ {c} : IsRemove(d, selected)
          BY <1>1, <1>2, <2>1, <5>1, <5>2, FirstIsHandled DEF IsRemove
        <5>3. CASE \A d \in Overview!Pending \ {c} : ~IsRemove(d, selected)
          BY <3>2, <3>4, <4>2, <5>1, <5>3, EditedIs
        <5> QED BY <5>2, <5>3
      <4> QED BY <4>1, <4>2
    <3> QED BY <1>1, <3>2, <3>3, <3>4, <3>5
  <2> QED BY <1>4, <2>3, <2>4, <2>5, NothingMissedThen DEF TransformersInv
<1> QED BY <1>5, <1>6

LEMMA AddedKeepsList ==
  ASSUME OverviewBase, TransformersInv, page = "transformers", NEW c \in Caller,
         Overview!TransformerAdded(c)
  PROVE  TransformersInv'
<1> DEFINE t == task[c].transformer
<1>0. OverviewTask(c) /\ OverviewShown /\ AddedOnce
  BY DEF OverviewBase
<1>1. /\ IsPending(c) /\ IsAdd(c, t) /\ task[c].kind = "add"
      /\ Overview!IsOver(c) /\ missed' = (missed \/ ahead[c] # {})
      /\ listing' = [listing EXCEPT ![t] = @ + 1] /\ selected' = t
      /\ Overview!Do(c, OverviewCounting(Overview!Listed \cup {t})) /\ newest' = c
      /\ holder' = holder
  BY DEF Overview!TransformerAdded, Overview!Answered, Overview!Handled, Overview!LoadMeterCounts,
     OverviewCounting, IsPending, IsAdd, Overview!rows
<1>2. t \in Transformer
  BY <1>0, <1>1 DEF OverviewTask, IsPending
<1>3. Overview!Listed \cup {t} \in SUBSET Transformer
  BY <1>2 DEF Overview!Listed
<1>4. PICK a : /\ TaskStep(c, a) /\ a.kind = "counts" /\ a.stage = "sent"
               /\ a.list = Overview!Listed \cup {t} /\ a.asked = Overview!Listed \cup {t}
  BY <1>1, <1>3, OverviewCounts DEF OverviewBase
<1>5. listing'[t] = listing[t] + 1 /\ \A x \in Transformer \ {t} : listing'[x] = listing[x]
  BY <1>0, <1>1, <1>2 DEF OverviewShown
<1>6. Overview!Listed' = Overview!Listed \cup {t}
  BY <1>0, <1>2, <1>5 DEF Overview!Listed, OverviewShown
<1>7. Overview!CountsBecomeStored'
  BY <1>1, <1>4, <1>6, NewCounting
<1>8. CASE missed'
  BY <1>1, <1>4, <1>8, MissedKeepsList DEF TaskStep, OverviewBase, OverviewShown
<1>9. CASE ~missed'
  <2>1. ~missed /\ ahead[c] = {}
    BY <1>1, <1>9
  <2>2. c \in Overview!Pending /\ c \notin Overview!PendingLists
    BY <1>1, PendingIs DEF Overview!PendingLists
  <2>3. ASSUME NEW d \in Caller, NEW x, IsAdd(d, x)',
               Overview!Behind(d)' \cap Overview!PendingLists' = {}
        PROVE  /\ listing'[x] = 0
               /\ \A e \in Caller : ~(task'[e].kind = "remove" /\ task'[e].transformer = x)
               /\ \A e \in Overview!PendingLists' : x \notin task'[e].list
    <3>1. /\ IsAdd(d, x) /\ d # c /\ listing[x] = 0
          /\ \A e \in Caller : ~(task'[e].kind = "remove" /\ task'[e].transformer = x)
          /\ \A e \in Overview!PendingLists' : x \notin task'[e].list
      BY <1>1, <1>4, <2>1, <2>3, OthersUnknown
    <3>2. x # t /\ x \in Transformer
      BY <1>0, <1>1, <3>1 DEF IsAdd, AddedOnce, OverviewBase, OverviewTask
    <3> QED BY <1>5, <3>1, <3>2
  <2>4. ASSUME NEW d \in Overview!PendingLists', Overview!Behind(d)' \cap Overview!PendingLists' = {}
        PROVE  Overview!Existing' = Overview!Edited(task[d].list, Overview!Behind(d))'
    BY <1>1, <1>4, <2>1, <2>4, LastListStays
  <2>5. ASSUME Overview!PendingLists' = {}
        PROVE  /\ Overview!Existing' = Overview!Edited(Overview!Listed, Overview!Pending)'
               /\ \A x \in Transformer : listing'[x] <= 1
               /\ \/ selected' \in Overview!Existing' \cup {None}
                  \/ \E d \in Caller : IsRemove(d, selected)'
    <3>1. /\ Overview!PendingLists = {} /\ Overview!Pending' = Overview!Pending \ {c}
          /\ \A d \in Overview!Pending \ {c} : task'[d] = task[d]
      BY <1>1, <1>4, <2>1, <2>2, <2>5, FirstIsHandled
    <3>2. /\ listing[t] = 0
          /\ \A d \in Caller : ~(task[d].kind = "remove" /\ task[d].transformer = t)
      BY <1>1, <2>1, <3>1, NothingMissed DEF TransformersInv
    <3>3. /\ Overview!Existing = Overview!Edited(Overview!Listed, Overview!Pending)
          /\ \A x \in Transformer : listing[x] <= 1
      BY <2>1, <3>1, NothingMissed DEF TransformersInv
    <3>4. /\ \A d \in Overview!Pending : \A x : IsAdd(d, x) => d \in Overview!Pending \ {c} \/ x = t
          /\ \A d \in Overview!Pending : \A x : IsRemove(d, x) => d \in Overview!Pending \ {c} /\ x # t
      BY <1>1, <3>2 DEF IsAdd, IsRemove, Overview!Pending
    <3>5. Overview!Edited(Overview!Listed, Overview!Pending)' =
            {x \in Transformer : \/ \E d \in Overview!Pending \ {c} : IsAdd(d, x)
                                 \/ /\ x \in Overview!Listed \cup {t}
                                    /\ \A d \in Overview!Pending \ {c} : ~IsRemove(d, x)}
      BY <1>6, <3>1 DEF Overview!Edited, Overview!Answered, IsAdd, IsRemove
    <3>6. Overview!Edited(Overview!Listed, Overview!Pending)' = Overview!Edited(Overview!Listed, Overview!Pending)
      BY <1>1, <1>2, <2>2, <3>4, <3>5, EditedIs
    <3>7. t \in Overview!Existing /\ Overview!Existing' = Overview!Existing
      BY <1>1, <1>2, <2>2, <3>3, EditedIs DEF Overview!Existing
    <3>8. \A x \in Transformer : listing'[x] <= 1
      BY <1>5, <3>2, <3>3
    <3> QED BY <1>1, <3>3, <3>6, <3>7, <3>8
  <2> QED BY <1>7, <2>3, <2>4, <2>5, NothingMissedThen DEF TransformersInv
<1> QED BY <1>8, <1>9

LEMMA RemovedKeepsList ==
  ASSUME OverviewBase, TransformersInv, page = "transformers", NEW c \in Caller,
         Overview!TransformerRemoved(c)
  PROVE  TransformersInv'
<1> DEFINE t == task[c].transformer
<1>0. OverviewTask(c) /\ OverviewShown
  BY DEF OverviewBase
<1>1. /\ IsPending(c) /\ IsRemove(c, t) /\ task[c].kind = "remove"
      /\ Overview!IsOver(c) /\ missed' = (missed \/ ahead[c] # {})
      /\ listing' = [listing EXCEPT ![t] = 0]
      /\ selected' = (IF selected = t THEN None ELSE selected)
      /\ Overview!Do(c, OverviewCounting(Overview!Listed \ {t})) /\ newest' = c
      /\ holder' = holder
  BY DEF Overview!TransformerRemoved, Overview!Answered, Overview!Handled, Overview!LoadMeterCounts,
     OverviewCounting, IsPending, IsRemove, Overview!rows
<1>2. t \in Transformer
  BY <1>0, <1>1 DEF OverviewTask
<1>3. Overview!Listed \ {t} \in SUBSET Transformer
  BY DEF Overview!Listed
<1>4. PICK a : /\ TaskStep(c, a) /\ a.kind = "counts" /\ a.stage = "sent"
               /\ a.list = Overview!Listed \ {t} /\ a.asked = Overview!Listed \ {t}
  BY <1>1, <1>3, OverviewCounts DEF OverviewBase
<1>5. listing'[t] = 0 /\ \A x \in Transformer \ {t} : listing'[x] = listing[x]
  BY <1>0, <1>1, <1>2 DEF OverviewShown
<1>6. Overview!Listed' = Overview!Listed \ {t}
  BY <1>5 DEF Overview!Listed
<1>7. Overview!CountsBecomeStored'
  BY <1>1, <1>4, <1>6, NewCounting
<1>8. CASE missed'
  BY <1>1, <1>4, <1>8, MissedKeepsList DEF TaskStep, OverviewBase, OverviewShown
<1>9. CASE ~missed'
  <2>1. ~missed /\ ahead[c] = {}
    BY <1>1, <1>9
  <2>2. c \in Overview!Pending /\ c \notin Overview!PendingLists
    BY <1>1, PendingIs DEF Overview!PendingLists
  <2>3. ASSUME NEW d \in Caller, NEW x, IsAdd(d, x)',
               Overview!Behind(d)' \cap Overview!PendingLists' = {}
        PROVE  /\ listing'[x] = 0
               /\ \A e \in Caller : ~(task'[e].kind = "remove" /\ task'[e].transformer = x)
               /\ \A e \in Overview!PendingLists' : x \notin task'[e].list
    <3>1. /\ IsAdd(d, x) /\ d # c /\ listing[x] = 0
          /\ \A e \in Caller : ~(task'[e].kind = "remove" /\ task'[e].transformer = x)
          /\ \A e \in Overview!PendingLists' : x \notin task'[e].list
      BY <1>1, <1>4, <2>1, <2>3, OthersUnknown
    <3>2. x \in Transformer
      BY <3>1 DEF IsAdd, OverviewBase, OverviewTask
    <3> QED BY <1>5, <3>1, <3>2
  <2>4. ASSUME NEW d \in Overview!PendingLists', Overview!Behind(d)' \cap Overview!PendingLists' = {}
        PROVE  Overview!Existing' = Overview!Edited(task[d].list, Overview!Behind(d))'
    BY <1>1, <1>4, <2>1, <2>4, LastListStays
  <2>5. ASSUME Overview!PendingLists' = {}
        PROVE  /\ Overview!Existing' = Overview!Edited(Overview!Listed, Overview!Pending)'
               /\ \A x \in Transformer : listing'[x] <= 1
               /\ \/ selected' \in Overview!Existing' \cup {None}
                  \/ \E d \in Caller : IsRemove(d, selected)'
    <3>1. /\ Overview!PendingLists = {} /\ Overview!Pending' = Overview!Pending \ {c}
          /\ \A d \in Overview!Pending \ {c} : task'[d] = task[d]
      BY <1>1, <1>4, <2>1, <2>2, <2>5, FirstIsHandled
    <3>2. /\ Overview!Existing = Overview!Edited(Overview!Listed, Overview!Pending)
          /\ \A x \in Transformer : listing[x] <= 1
          /\ selected \in Overview!Existing \cup {None} \/ \E d \in Caller : IsRemove(d, selected)
      BY <2>1, <3>1, NothingMissed DEF TransformersInv
    <3>3. /\ \A d \in Overview!Pending : \A x : IsAdd(d, x) => d \in Overview!Pending \ {c}
          /\ \A d \in Overview!Pending : \A x : IsRemove(d, x) => d \in Overview!Pending \ {c} \/ x = t
      BY <1>1 DEF IsAdd, IsRemove
    <3>4. Overview!Edited(Overview!Listed, Overview!Pending)' =
            {x \in Transformer : \/ \E d \in Overview!Pending \ {c} : IsAdd(d, x)
                                 \/ /\ x \in Overview!Listed \ {t}
                                    /\ \A d \in Overview!Pending \ {c} : ~IsRemove(d, x)}
      BY <1>6, <3>1 DEF Overview!Edited, Overview!Answered, IsAdd, IsRemove
    <3>5. Overview!Edited(Overview!Listed, Overview!Pending)' = Overview!Edited(Overview!Listed, Overview!Pending)
      BY <1>1, <2>2, <3>3, <3>4, EditedIs
    <3>6. Overview!Existing' = Overview!Existing /\ \A x \in Transformer : listing'[x] <= 1
      BY <1>1, <1>5, <3>2 DEF Overview!Existing
    <3>7. selected' \in Overview!Existing \cup {None} \/ \E d \in Caller : IsRemove(d, selected)'
      <4>1. CASE selected = t
        BY <1>1, <4>1
      <4>2. CASE selected # t /\ \E d \in Caller : IsRemove(d, selected)
        <5>1. PICK d \in Caller : IsRemove(d, selected)
          BY <4>2
        <5>2. d # c /\ task'[d] = task[d] /\ selected' = selected
          BY <1>1, <1>4, <4>2, <5>1 DEF IsRemove, TaskStep
        <5> QED BY <5>1, <5>2 DEF IsRemove
      <4> QED BY <1>1, <3>2, <4>1, <4>2
    <3> QED BY <3>2, <3>5, <3>6, <3>7
  <2> QED BY <1>7, <2>3, <2>4, <2>5, NothingMissedThen DEF TransformersInv
<1> QED BY <1>8, <1>9

\* The selection, and the writes of other clients.
LEMMA OthersKeepList ==
  ASSUME OverviewBase, TransformersInv, page = "transformers",
         \/ \E t \in Transformer : Overview!SelectTransformer(t) \/ Overview!SelectElsewhere(t)
         \/ /\ Overview!WriteElsewhere \/ Overview!DeleteAccountElsewhere
            /\ UNCHANGED <<page, Overview!page_>>
  PROVE  TransformersInv'
<1>1. task' = task /\ UNCHANGED <<listing, counts, newest, ahead>>
  BY DEF Overview!SelectTransformer, Overview!SelectElsewhere, Overview!WriteElsewhere,
         Overview!DeleteAccountElsewhere, Overview!page_
<1>2. CASE missed'
  BY <1>1, <1>2, MissedKeepsList DEF TransformersInv, Overview!CountsBecomeStored, OverviewBase,
     OverviewShown, Overview!SelectTransformer, Overview!SelectElsewhere, Overview!WriteElsewhere,
     Overview!DeleteAccountElsewhere
<1>3. CASE ~missed'
  <2>1. PICK t \in Transformer : Overview!SelectTransformer(t) \/ Overview!SelectElsewhere(t)
    BY <1>3 DEF Overview!WriteElsewhere, Overview!DeleteAccountElsewhere
  <2>2. /\ ~missed /\ selected' = t /\ UNCHANGED <<accounts, holder, owner, used>>
        /\ t \in Overview!Listed \/ t \in Overview!Existing
    <3>1. CASE Overview!SelectTransformer(t)
      BY <1>3, <3>1 DEF Overview!SelectTransformer, Overview!rows
    <3>2. CASE Overview!SelectElsewhere(t)
      <4>1. missed' = (missed \/ t \notin Overview!Existing)
        BY <3>2 DEF Overview!SelectElsewhere
      <4>2. ~missed
        BY <1>3, <4>1
      <4>3. t \in Overview!Existing
        BY <1>3, <4>1
      <4> QED BY <3>2, <4>2, <4>3 DEF Overview!SelectElsewhere, Overview!rows
    <3> QED BY <2>1, <3>1, <3>2
  <2>3. Overview!AddedIsUnknown' /\ Overview!ListsBecomeStored' /\ Overview!CountsBecomeStored'
    BY <1>1, <1>3, <2>2 DEF TransformersInv, Overview!AddedIsUnknown, Overview!ListsBecomeStored,
       Overview!CountsBecomeStored, Overview!Existing, Overview!Listed, Overview!Pending,
       Overview!PendingLists, Overview!Behind, Overview!Edited, Overview!Answered, Overview!MetersAt
  <2>4. ASSUME Overview!PendingLists = {}
        PROVE  t \in Overview!Existing \/ \E c \in Caller : IsRemove(c, t)
    <3>1. CASE t \in Overview!Existing
      BY <3>1
    <3>2. CASE t \in Overview!Listed
      <4>1. Overview!Existing = Overview!Edited(Overview!Listed, Overview!Pending)
        BY <2>2, <2>4, NothingMissed DEF TransformersInv
      <4> QED BY <3>2, <4>1, EditedIs DEF Overview!Pending
    <3> QED BY <2>2, <3>1, <3>2
  <2>5. Overview!SelectionBecomesStored'
    BY <1>1, <2>2, <2>4 DEF Overview!SelectionBecomesStored, Overview!PendingLists, Overview!Pending,
       Overview!Existing, IsRemove, Overview!Answered
  <2> QED BY <2>3, <2>5 DEF TransformersInv
<1> QED BY <1>2, <1>3

LEMMA TransformersInvKept ==
  ASSUME OverviewBase, TransformersInv, page = "transformers", Overview!Next
  PROVE  TransformersInv'
<1>1. \A c \in Caller : ~Overview!StatsShown(c) /\ ~Overview!CountInstallations(c)
  BY DEF Overview!StatsShown, Overview!CountInstallations
<1> QED BY <1>1, BeginsKeepsList, AnswerListKeepsList, AnswerEditKeepsList, RefuseKeepsList,
           FailsKeepsList, MetersKeepsList, CountsLoadedKeepsList, FetchedKeepsList, AddedKeepsList,
           RemovedKeepsList, OthersKeepList
           DEF Overview!Next, Overview!Page, Overview!Server

-----------------------------------------------------------------------------
(***************************************************************************)
(* dashboard.js.                                                           *)
(***************************************************************************)

\* What a task of the dashboard has found.
FoundIn(q) ==
  /\ (q.kind = "list" /\ q.stage = "answered") \/ q.kind = "counts" => q.list = Overview!Existing
  /\ q.kind = "counts" =>
       \A t \in q.list \ q.asked : t \in q.failed \/ q.got[t] = Overview!MetersAt(t)

DashboardInv == Overview!StatsBecomeStored /\ Overview!TotalsAreComplete

LEMMA StatsAre ==
  ASSUME page = "dashboard", ~missed
  PROVE  Overview!StatsBecomeStored <=> \A c \in Caller : FoundIn(task[c])
BY DEF Overview!StatsBecomeStored, Overview!Answered, FoundIn

\* A page that has missed something, or has another task, says nothing of the totals.
LEMMA MissedKeepsTotals ==
  ASSUME missed' \/ page' # "dashboard"
  PROVE  DashboardInv'
BY DEF DashboardInv, Overview!StatsBecomeStored, Overview!TotalsAreComplete

LEMMA TaskKeepsTotals ==
  ASSUME OverviewBase, Overview!StatsBecomeStored, ~missed, page = "dashboard", page' = page,
         NEW c \in Caller, NEW a, TaskStep(c, a), UNCHANGED <<holder, owner>>, FoundIn(a),
         summary' = None
  PROVE  DashboardInv'
<1>1. \A d \in Caller : FoundIn(task[d])
  BY StatsAre
<1>2. /\ Overview!Existing' = Overview!Existing
      /\ \A t : Overview!MetersAt(t)' = Overview!MetersAt(t)
  BY DEF Overview!Existing, Overview!MetersAt
<1>3. \A d \in Caller : task'[d] = a \/ (d # c /\ task'[d] = task[d])
  BY DEF TaskStep
<1>4. \A d \in Caller : FoundIn(task[d])'
  BY <1>1, <1>2, <1>3 DEF FoundIn
<1>5. Overview!StatsBecomeStored'
  BY <1>4 DEF Overview!StatsBecomeStored, Overview!Answered, FoundIn
<1> QED BY <1>5 DEF DashboardInv, Overview!TotalsAreComplete

\* The dashboard asks anew.
LEMMA StatsBegin ==
  ASSUME OverviewBase, DashboardInv, page = "dashboard", NEW c \in Caller, Overview!UpdateStats(c)
  PROVE  DashboardInv'
<1>1. PICK a : TaskStep(c, a) /\ Begins(c, a)
  BY OverviewBegins, OverviewBaseIs
<1>2. UNCHANGED <<page, holder, owner, missed>> /\ summary' = None
  BY DEF Overview!UpdateStats, Overview!rows
<1>3. FoundIn(a)
  BY <1>1 DEF FoundIn, Begins
<1>4. CASE missed
  BY <1>2, <1>4, MissedKeepsTotals
<1>5. CASE ~missed
  BY <1>1, <1>2, <1>3, <1>5, TaskKeepsTotals DEF DashboardInv
<1> QED BY <1>4, <1>5

\* The list is that of now, and nothing else runs.
LEMMA StatsList ==
  ASSUME OverviewBase, page = "dashboard", NEW c \in Caller, Overview!AnswerList(c)
  PROVE  DashboardInv'
<1>1. PICK a : TaskStep(c, a) /\ ListAnswered(c, a)
  BY OverviewAnswersList DEF OverviewBase
<1>2. UNCHANGED <<page, holder, owner, summary>>
  BY DEF Overview!AnswerList, Overview!AnswerRead, Overview!rows
<1>3. summary = None /\ \A d \in Caller \ {c} : task[d].kind = "none"
  BY <1>1 DEF OverviewBase, OneTaskOnly, ListAnswered
<1>4. /\ Overview!Existing' = Overview!Existing
      /\ \A d \in Caller : task'[d] = a \/ task'[d].kind = "none"
  BY <1>1, <1>2, <1>3 DEF TaskStep, Overview!Existing
<1>5. \A d \in Caller : FoundIn(task[d])'
  BY <1>1, <1>4 DEF FoundIn, ListAnswered
<1>6. Overview!StatsBecomeStored'
  BY <1>5 DEF Overview!StatsBecomeStored, Overview!Answered, FoundIn
<1> QED BY <1>2, <1>3, <1>6 DEF DashboardInv, Overview!TotalsAreComplete

LEMMA StatsRefused ==
  ASSUME OverviewBase, DashboardInv, page = "dashboard", NEW c \in Caller, Overview!Refuse(c)
  PROVE  DashboardInv'
<1>1. PICK a : /\ TaskStep(c, a) /\ task[c].stage = "sent" /\ a.stage = "refused"
               /\ a.kind = task[c].kind /\ a.kind \in Overview!Reading \cup Overview!Writing
  BY OverviewRefuses DEF OverviewBase
<1>2. UNCHANGED <<page, holder, owner, missed, summary>>
  BY DEF Overview!Refuse, Overview!RefuseNamed, Overview!rows
<1>3. FoundIn(a) /\ summary = None
  BY <1>1 DEF FoundIn, OverviewBase, OneTaskOnly, Overview!Reading, Overview!Writing
<1>4. CASE missed
  BY <1>2, <1>4, MissedKeepsTotals
<1>5. CASE ~missed
  BY <1>1, <1>2, <1>3, <1>5, TaskKeepsTotals DEF DashboardInv
<1> QED BY <1>4, <1>5

LEMMA StatsFail ==
  ASSUME OverviewBase, DashboardInv, page = "dashboard", NEW c \in Caller, Overview!Fails(c)
  PROVE  DashboardInv'
<1>1. TaskStep(c, Overview!NoTask) /\ FoundIn(Overview!NoTask)
  BY OverviewDone, OverviewNoTask DEF OverviewBase, Overview!Fails, FoundIn
<1>2. UNCHANGED <<page, holder, owner, summary>> /\ missed' = (missed \/ task[c].stage # "refused")
  BY DEF Overview!Fails, Overview!rows
<1>3. summary = None
  BY DEF OverviewBase, OneTaskOnly, Overview!Fails
<1>4. CASE missed'
  BY <1>4, MissedKeepsTotals
<1>5. CASE ~missed'
  <2>1. ~missed
    BY <1>2, <1>5
  <2> QED BY <1>1, <1>2, <1>3, <2>1, TaskKeepsTotals DEF DashboardInv
<1> QED BY <1>4, <1>5

\* The counting takes the list over.
LEMMA StatsCount ==
  ASSUME OverviewBase, DashboardInv, page = "dashboard", NEW c \in Caller,
         Overview!CountInstallations(c)
  PROVE  DashboardInv'
<1> DEFINE ts == task[c].list
<1>1. ts \in SUBSET Transformer
  BY DEF OverviewBase, OverviewTask
<1>2. Overview!Do(c, OverviewCounting(ts))
  BY DEF Overview!CountInstallations, OverviewCounting
<1>3. PICK a : TaskStep(c, a) /\ a.kind = "counts" /\ a.stage = "sent" /\ a.list = ts /\ a.asked = ts
  <2> HIDE DEF ts
  <2> QED BY <1>1, <1>2, OverviewCounts DEF OverviewBase
<1>4. /\ UNCHANGED <<page, holder, owner, summary>> /\ task[c].kind = "list" /\ task[c].stage = "answered"
      /\ missed' = (missed \/ ahead[c] # {})
  BY DEF Overview!CountInstallations, Overview!Handled, Overview!Answered, Overview!rows
<1>5. summary = None
  BY <1>4 DEF OverviewBase, OneTaskOnly
<1>6. CASE missed'
  BY <1>6, MissedKeepsTotals
<1>7. CASE ~missed'
  <2>1. ~missed
    BY <1>4, <1>7
  <2>2. ts = Overview!Existing
    BY <1>4, <2>1, StatsAre DEF DashboardInv, FoundIn
  <2>3. FoundIn(a)
    BY <1>3, <2>2 DEF FoundIn
  <2> QED BY <1>3, <1>4, <1>5, <2>1, <2>3, TaskKeepsTotals DEF DashboardInv
<1> QED BY <1>6, <1>7

\* An answer counts what is stored; an error is remembered.
LEMMA StatsMeters ==
  ASSUME OverviewBase, DashboardInv, page = "dashboard", page' = page,
         NEW c \in Caller, NEW t \in Transformer,
         Overview!AnswerMeters(c, t) \/ Overview!FailMeters(c, t)
  PROVE  DashboardInv'
<1>0. task[c].kind = "counts"
  BY DEF OverviewBase, OverviewTask, Overview!AnswerMeters, Overview!FailMeters, Overview!Counting
<1>1. PICK a :
           /\ TaskStep(c, a) /\ a.kind = "counts" /\ a.stage = task[c].stage
           /\ a.list = task[c].list /\ t \in task[c].asked /\ a.asked = task[c].asked \ {t}
           /\ \A x \in Transformer \ {t} : a.got[x] = task[c].got[x]
           /\ \/ a.got[t] = Overview!MetersAt(t) /\ a.failed = task[c].failed /\ missed' = missed
              \/ /\ a.failed = task[c].failed \cup {t}
                 /\ missed' = (missed \/ (holder[t] # None /\ page # "dashboard"))
  BY <1>0, OverviewMeters DEF OverviewBase
<1>2. UNCHANGED <<holder, owner, summary>>
  BY DEF Overview!AnswerMeters, Overview!FailMeters, Overview!rows
<1>3. summary = None
  BY <1>0 DEF OverviewBase, OneTaskOnly
<1>4. CASE missed'
  BY <1>4, MissedKeepsTotals
<1>5. CASE ~missed'
  <2>1. ~missed
    <3>1. missed' = missed \/ missed' = (missed \/ (holder[t] # None /\ page # "dashboard"))
      BY <1>1
    <3> QED BY <1>5, <3>1
  <2>2. FoundIn(task[c]) /\ task[c].list \subseteq Transformer
    BY <2>1, StatsAre DEF DashboardInv, OverviewBase, OverviewTask
  <2>3. FoundIn(a)
    BY <1>0, <1>1, <2>2 DEF FoundIn
  <2> QED BY <1>1, <1>2, <1>3, <2>1, <2>3, TaskKeepsTotals DEF DashboardInv
<1> QED BY <1>4, <1>5

\* The totals are those of what has been counted.
LEMMA StatsAreShown ==
  ASSUME OverviewBase, DashboardInv, page = "dashboard", NEW c \in Caller, Overview!StatsShown(c)
  PROVE  DashboardInv'
<1> DEFINE q == task[c]
           total == Overview!Cardinality(UNION {q.got[t] : t \in q.list})
<1>1. /\ TaskStep(c, Overview!NoTask) /\ Overview!NoTask.kind = "none"
      /\ UNCHANGED <<page, holder, owner, missed>>
      /\ q.kind = "counts" /\ q.asked = {}
  BY OverviewDone, OverviewNoTask DEF OverviewBase, Overview!StatsShown, Overview!rows
<1>2. /\ summary'.transformers = Overview!Cardinality(q.list)
      /\ summary'.meters = IF q.failed # {} THEN None ELSE total
  BY DEF Overview!StatsShown
<1>3. CASE missed
  BY <1>1, <1>3, MissedKeepsTotals
<1>4. CASE ~missed
  <2>1. \A d \in Caller : FoundIn(task[d])
    BY <1>4, StatsAre DEF DashboardInv
  <2>2. /\ Overview!Existing' = Overview!Existing
        /\ \A t : Overview!MetersAt(t)' = Overview!MetersAt(t)
    BY <1>1 DEF Overview!Existing, Overview!MetersAt
  <2>3. FoundIn(Overview!NoTask)
    BY <1>1 DEF FoundIn
  <2>4. \A d \in Caller : FoundIn(task[d])'
    BY <1>1, <2>1, <2>2, <2>3 DEF FoundIn, TaskStep
  <2>5. Overview!StatsBecomeStored'
    BY <2>4 DEF Overview!StatsBecomeStored, Overview!Answered, FoundIn
  <2>6. q.list = Overview!Existing /\ \A t \in q.list : t \in q.failed \/ q.got[t] = Overview!MetersAt(t)
    BY <1>1, <2>1 DEF FoundIn
  <2>7. CASE q.failed # {}
    <3>1. summary'.transformers = Overview!Cardinality(Overview!Existing') /\ summary'.meters = None
      BY <1>2, <2>2, <2>6, <2>7
    <3> QED BY <2>5, <3>1 DEF DashboardInv, Overview!TotalsAreComplete
  <2>8. CASE q.failed = {}
    <3>1. {q.got[t] : t \in q.list} = {Overview!MetersAt(t) : t \in Overview!Existing}
      BY <2>6, <2>8
    <3>2. {Overview!MetersAt(t) : t \in Overview!Existing} = {Overview!MetersAt(t)' : t \in Overview!Existing'}
      BY <2>2
    <3>3. /\ summary'.transformers = Overview!Cardinality(Overview!Existing')
          /\ summary'.meters = Overview!Cardinality(UNION {Overview!MetersAt(t)' : t \in Overview!Existing'})
      BY <1>2, <2>2, <2>6, <2>8, <3>1, <3>2
    <3> QED BY <2>5, <3>3 DEF DashboardInv, Overview!TotalsAreComplete
  <2> QED BY <2>7, <2>8
<1> QED BY <1>3, <1>4

LEMMA DashboardInvKept ==
  ASSUME OverviewBase, DashboardInv, page = "dashboard", Overview!Next
  PROVE  DashboardInv'
<1>1. CASE \E c \in Caller : Overview!Page(c)
  <2>1. PICK c \in Caller : Overview!Page(c)
    BY <1>1
  <2>2. Overview!UpdateStats(c) \/ Overview!CountInstallations(c) \/ Overview!StatsShown(c)
    BY <2>1 DEF Overview!Page, Overview!FetchTransformers, Overview!TransformersFetched,
       Overview!AddTransformer, Overview!TransformerAdded, Overview!TransformerRemoved,
       Overview!CountsLoaded, Overview!RemoveTransformer, Overview!At, Overview!Answered,
       OverviewBase, OneTaskOnly
  <2> QED BY <2>2, StatsBegin, StatsCount, StatsAreShown
<1>2. CASE \E c \in Caller : Overview!Server(c)
  <2>1. PICK c \in Caller : Overview!Server(c)
    BY <1>2
  <2>2. ~Overview!AnswerEdit(c)
    BY DEF Overview!AnswerEdit, Overview!Sent, OverviewBase, OneTaskOnly
  <2> QED BY <2>1, <2>2, StatsList, StatsRefused, StatsFail, StatsMeters DEF Overview!Server
<1>3. CASE ~\E c \in Caller : Overview!Page(c) \/ Overview!Server(c)
  <2>1. missed'
    BY <1>3 DEF Overview!Next, Overview!SelectTransformer, Overview!SelectElsewhere,
       Overview!WriteElsewhere, Overview!DeleteAccountElsewhere
  <2> QED BY <2>1, MissedKeepsTotals
<1> QED BY <1>1, <1>2, <1>3

-----------------------------------------------------------------------------
(***************************************************************************)
(* The inductive invariant of the two pages.                               *)
(***************************************************************************)

LEMMA OverviewInvIs ==
  Overview!OverviewInv /\ OnOverview <=>
    /\ OverviewBase
    /\ page = "transformers" => TransformersInv
    /\ page = "dashboard" => DashboardInv
<1>1. page # "dashboard" => DashboardInv
  BY DEF DashboardInv, Overview!StatsBecomeStored, Overview!TotalsAreComplete
<1> QED BY <1>1, OverviewBaseIs DEF Overview!OverviewInv, TransformersInv, DashboardInv, OverviewBase

LEMMA OverviewBegin ==
  ASSUME Overview!Init
  PROVE  OnOverview /\ Overview!OverviewInv
<1>1. page \in {"transformers", "dashboard"} /\ missed /\ summary = None
  BY DEF Overview!Init, Overview!RowsInit
<1>2. OverviewRows
  <2>1. PICK u \in User : accounts = {u}
    BY DEF Overview!Init
  <2> QED BY <2>1 DEF Overview!Init, Overview!RowsInit, OverviewRows, Overview!Existing
<1>3. OverviewShown
  <2>1. counts \in [Transformer -> 0 .. Overview!Cardinality(Counted) \cup {None}]
    BY DEF Overview!Init
  <2>2. listing \in [Transformer -> 0 .. 2]
    BY DEF Overview!Init
  <2>3. selected \in Transformer \cup {None} /\ newest = None
    BY DEF Overview!Init
  <2> QED BY <1>1, <2>1, <2>2, <2>3 DEF OverviewShown
<1>4. task \in [Caller -> Overview!Task] /\ \A c \in Caller : task[c] = Overview!NoTask
  BY OverviewNoTask DEF Overview!Init
<1>5. ahead \in [Caller -> SUBSET Caller] /\ \A c \in Caller : ahead[c] = {}
  BY DEF Overview!Init
<1>6. \A c \in Caller : OverviewTask(c) /\ ~IsPending(c)
  BY <1>4, OverviewNoTask DEF OverviewTask, IsPending
<1>7. OneTaskOnly
  BY <1>4, OverviewNoTask DEF OneTaskOnly
<1>8. AddedOnce
  BY <1>4, OverviewNoTask DEF AddedOnce, Overview!Listed, Overview!Init
<1>9. Overview!PendingInOrder
  BY <1>5, <1>6, PendingIs DEF Overview!PendingInOrder
<1>10. OverviewBase
  BY <1>1, <1>2, <1>3, <1>4, <1>5, <1>6, <1>7, <1>8, <1>9 DEF OverviewBase
<1>11. TransformersInv
  BY <1>1 DEF TransformersInv, Overview!AddedIsUnknown, Overview!ListsBecomeStored,
     Overview!SelectionBecomesStored, Overview!CountsBecomeStored, Overview!Init
<1>12. DashboardInv
  BY <1>1 DEF DashboardInv, Overview!StatsBecomeStored, Overview!TotalsAreComplete
<1> QED BY <1>10, <1>11, <1>12, OverviewInvIs

\* The same of the state after a step.
LEMMA OverviewInvThen ==
  ASSUME OverviewBase', page' = "transformers" => TransformersInv', page' = "dashboard" => DashboardInv'
  PROVE  OnOverview' /\ Overview!OverviewInv'
<1>1. Overview!TypeOK' /\ (Overview!Existing \subseteq used)'
  BY DEF OverviewBase, Overview!TypeOK, Overview!RowsOK, OverviewRows, OverviewShown, Overview!Existing
<1>2. Overview!TasksInOrder'
  BY DEF OverviewBase, Overview!TasksInOrder, OverviewTask, OneTaskOnly, Overview!Answered, Overview!Idle
<1>3. Overview!IdsGivenOnce'
  BY <1>1 DEF OverviewBase, Overview!IdsGivenOnce, AddedOnce, Overview!Answered
<1>4. page' # "dashboard" => DashboardInv'
  BY DEF DashboardInv, Overview!StatsBecomeStored, Overview!TotalsAreComplete
<1> QED BY <1>1, <1>2, <1>3, <1>4 DEF Overview!OverviewInv, TransformersInv, DashboardInv, OverviewBase,
           OnOverview

LEMMA OverviewStep ==
  ASSUME OnOverview, Overview!OverviewInv, Overview!Next
  PROVE  OnOverview' /\ Overview!OverviewInv' /\ page' = page
<1>1. OverviewBase
  BY OverviewInvIs
<1>2. OverviewBase'
  BY <1>1, OverviewBaseKept
<1>3. page' = page
  BY DEF Overview!Next, Overview!Page, Overview!Server, Overview!SelectTransformer,
     Overview!SelectElsewhere, Overview!FetchTransformers, Overview!TransformersFetched,
     Overview!AddTransformer, Overview!TransformerAdded, Overview!TransformerRemoved,
     Overview!CountsLoaded, Overview!RemoveTransformer, Overview!UpdateStats,
     Overview!CountInstallations, Overview!StatsShown, Overview!AnswerList, Overview!AnswerEdit,
     Overview!Refuse, Overview!Fails
<1>4. page = "transformers" => TransformersInv'
  BY <1>1, OverviewInvIs, TransformersInvKept
<1>5. page = "dashboard" => DashboardInv'
  BY <1>1, OverviewInvIs, DashboardInvKept
<1> QED BY <1>2, <1>3, <1>4, <1>5, OverviewInvThen

LEMMA OverviewStands ==
  ASSUME OnOverview, Overview!OverviewInv, UNCHANGED Overview!vars
  PROVE  OnOverview' /\ Overview!OverviewInv'
<1>1. OverviewBase
  BY OverviewInvIs
<1>2. /\ UNCHANGED <<page, accounts, holder, owner, used, task, summary, missed>>
      /\ UNCHANGED <<selected, listing, counts, newest, ahead>>
  BY DEF Overview!vars, Overview!rows, Overview!page_
<1>3. OverviewBase'
  BY <1>1, <1>2 DEF OverviewBase, OverviewRows, OverviewShown, OverviewTask, OneTaskOnly, AddedOnce,
     Overview!PendingInOrder, Overview!Pending, Overview!Listed, Overview!Existing
<1>4. TransformersInv => TransformersInv'
  BY <1>2 DEF TransformersInv, Overview!AddedIsUnknown, Overview!ListsBecomeStored,
     Overview!SelectionBecomesStored, Overview!CountsBecomeStored, Overview!Existing, Overview!Listed,
     Overview!Pending, Overview!PendingLists, Overview!Behind, Overview!Edited, Overview!Answered,
     Overview!MetersAt
<1>5. DashboardInv => DashboardInv'
  BY <1>2 DEF DashboardInv, Overview!StatsBecomeStored, Overview!TotalsAreComplete, Overview!Quiet,
     Overview!Idle, Overview!Existing, Overview!Answered, Overview!MetersAt
<1> QED BY <1>1, <1>2, <1>3, <1>4, <1>5, OverviewInvIs, OverviewInvThen

\* A page that waits for nothing has no answers to handle and nothing to count.
LEMMA OverviewQuiet ==
  ASSUME OnOverview, Overview!OverviewInv
  PROVE  Overview!TransformersAreCurrent /\ Overview!TotalsAreComplete
<1>1. OverviewBase /\ Overview!TotalsAreComplete
  BY OverviewInvIs DEF Overview!OverviewInv
<1>2. ASSUME page = "transformers", Overview!Quiet, ~missed
      PROVE  /\ \A t \in Transformer : listing[t] = IF t \in Overview!Existing THEN 1 ELSE 0
             /\ \A t \in Overview!Existing : counts[t] = Overview!Cardinality(Overview!MetersAt(t))
             /\ selected \in Overview!Existing \cup {None}
  <2>1. TransformersInv
    BY <1>2, OverviewInvIs
  <2>2. Overview!Pending = {} /\ Overview!PendingLists = {} /\ newest = None
    BY <1>1, <1>2, <2>1 DEF Overview!Quiet, Overview!Idle, Overview!Pending, Overview!PendingLists,
       TransformersInv, Overview!CountsBecomeStored, OverviewBase, OverviewShown
  <2>3. Overview!Existing = Overview!Edited(Overview!Listed, {}) /\ \A t \in Transformer : listing[t] <= 1
    BY <1>2, <2>1, <2>2, NothingMissed DEF TransformersInv
  <2>4. Overview!Existing = Overview!Listed
    BY <2>3, EditedByNone DEF Overview!Listed
  <2>5. \A t \in Transformer : listing[t] = IF t \in Overview!Existing THEN 1 ELSE 0
    BY <1>1, <2>3, <2>4 DEF Overview!Listed, OverviewBase, OverviewShown
  <2>6. \A t \in Overview!Existing : counts[t] = Overview!Cardinality(Overview!MetersAt(t))
    BY <1>2, <2>1, <2>2 DEF TransformersInv, Overview!CountsBecomeStored
  <2>7. selected \in Overview!Existing \cup {None}
    BY <1>2, <2>1, <2>2, NothingMissed DEF TransformersInv, IsRemove, Overview!Quiet, Overview!Idle
  <2> QED BY <2>5, <2>6, <2>7
<1> QED BY <1>1, <1>2 DEF Overview!TransformersAreCurrent

-----------------------------------------------------------------------------
(***************************************************************************)
(* admin.js: tasks and rows.                                               *)
(***************************************************************************)

\* Both instances of Installations say the same.
LEMMA AdminSame ==
  /\ Admin!Task = Overview!Task /\ Admin!NoTask = Overview!NoTask
  /\ Admin!Summary = Overview!Summary /\ Admin!Existing = Overview!Existing
  /\ \A t : Admin!MetersAt(t) = Overview!MetersAt(t)
  /\ \A c, q : Admin!Do(c, q) <=> Overview!Do(c, q)
  /\ \A S : Admin!Cardinality(S) = Overview!Cardinality(S)
BY DEF Admin!Task, Overview!Task, Admin!NoTask, Overview!NoTask, Admin!Summary, Overview!Summary,
       Admin!Total, Overview!Total, Admin!Cardinality, Overview!Cardinality,
       Admin!Existing, Overview!Existing, Admin!MetersAt, Overview!MetersAt, Admin!Do, Overview!Do,
       Admin!Reading, Overview!Reading, Admin!Writing, Overview!Writing, Admin!Counting,
       Overview!Counting

IsRefresh(q) == q.kind \in {"list", "meters", "users"}
IsDetail(q) == q.kind \in {"detail", "keys", "metrics"}

\* What a task has.
AdminTask(q) ==
  /\ q.kind \in {"none", "wipe", "expel"} \cup {"list", "meters", "users"} \cup {"detail", "keys", "metrics"}
  /\ q.kind \in {"detail", "wipe", "expel"} => q.user \in User
  /\ q.kind \in {"keys", "metrics"} => q.transformer \in Transformer
  /\ q.kind \in {"list", "detail"} => q.list \subseteq Transformer
  /\ q.kind = "users" => q.list \subseteq User

\* A request that has just been made.
Asks(a, kind, u, t) ==
  /\ a.kind = kind /\ a.stage = "sent" /\ a.user = u /\ a.transformer = t /\ a.list = {}

AskingKinds == {"list", "meters", "users", "detail", "keys", "metrics", "wipe", "expel"}

LEMMA AdminAskAbout ==
  ASSUME NEW kind \in AskingKinds, NEW u \in User \cup {None}, NEW t \in Transformer \cup {None}
  PROVE  LET a == Admin!AskAbout(kind, u, t) IN
         a \in Overview!Task /\ Asks(a, kind, u, t)
BY DEF AskingKinds, Asks, Admin!AskAbout, Admin!Ask, Admin!NoTask, Overview!Task, Overview!Reading,
       Overview!Writing, Overview!Counting

LEMMA AdminAsks ==
  ASSUME task \in [Caller -> Overview!Task], NEW c \in Caller,
         NEW kind \in AskingKinds, NEW u \in User \cup {None}, NEW t \in Transformer \cup {None},
         Admin!Do(c, Admin!AskAbout(kind, u, t))
  PROVE  \E a : TaskStep(c, a) /\ Asks(a, kind, u, t)
<1> DEFINE a == Admin!AskAbout(kind, u, t)
<1>1. a \in Overview!Task /\ Asks(a, kind, u, t)
  BY AdminAskAbout
<1>2. Overview!Do(c, a)
  BY AdminSame
<1> HIDE DEF a
<1>3. TaskStep(c, a)
  BY <1>1, <1>2, OverviewDo DEF TaskStep
<1> QED BY <1>1, <1>3

LEMMA AdminDone ==
  ASSUME task \in [Caller -> Overview!Task], NEW c \in Caller, Admin!Done(c)
  PROVE  \E a : /\ TaskStep(c, a) /\ a.kind = "none" /\ AdminTask(a)
<1>1. Overview!Do(c, Overview!NoTask)
  BY AdminSame DEF Admin!Done
<1>2. TaskStep(c, Overview!NoTask)
  BY <1>1, OverviewDo, OverviewNoTask DEF TaskStep
<1> QED BY <1>2, OverviewNoTask DEF AdminTask

Asking(q, ts) == [q EXCEPT !.asked = ts]

LEMMA AdminTaskAsked ==
  ASSUME NEW q \in Overview!Task, NEW ts \in SUBSET Transformer, NEW a, a = Asking(q, ts)
  PROVE  /\ a \in Overview!Task /\ a.kind = q.kind /\ a.stage = q.stage /\ a.user = q.user
         /\ a.transformer = q.transformer /\ a.list = q.list /\ a.asked = ts
BY DEF Overview!Task, Asking

LEMMA AdminTaskAnswered ==
  ASSUME NEW q \in Overview!Task, NEW ts \in SUBSET (User \cup Transformer), NEW a, a = WithList(q, ts)
  PROVE  /\ a \in Overview!Task /\ a.kind = q.kind /\ a.stage = "answered" /\ a.user = q.user
         /\ a.transformer = q.transformer /\ a.list = ts
BY DEF Overview!Task, WithList

\* The requests for meters, whose answers are in the map.
LEMMA AdminMeters ==
  ASSUME task \in [Caller -> Overview!Task], NEW c \in Caller, AdminTask(task[c]), NEW t \in Transformer,
         Admin!AnswerMeters(c, t) \/ Admin!FailMeters(c, t)
  PROVE  \E a : /\ TaskStep(c, a) /\ task[c].kind = "meters" /\ a.kind = "meters"
                /\ a.stage = task[c].stage /\ a.user = task[c].user /\ a.list = task[c].list
                /\ t \in task[c].asked /\ a.asked = task[c].asked \ {t}
<1> DEFINE q == task[c]
<1>1. q.kind = "meters" /\ t \in q.asked /\ q \in Overview!Task /\ q.got \in [Transformer -> (SUBSET Counted) \cup {None}]
  BY DEF AdminTask, Admin!AnswerMeters, Admin!FailMeters, Admin!Counting, Overview!Task
<1>2. CASE Admin!AnswerMeters(c, t)
  <2>1. Overview!Do(c, [q EXCEPT !.asked = @ \ {t}, !.got[t] = @])
    BY <1>1, <1>2 DEF Admin!AnswerMeters, Admin!Do, Overview!Do
  <2>2. [q.got EXCEPT ![t] = q.got[t]] = q.got
    BY <1>1
  <2>3. [q EXCEPT !.asked = @ \ {t}, !.got[t] = @] = Asking(q, q.asked \ {t})
    BY <1>1, <2>2 DEF Asking, Overview!Task
  <2>4. PICK a : a = Asking(q, q.asked \ {t})
    OBVIOUS
  <2>5. q.asked \ {t} \in SUBSET Transformer
    BY <1>1 DEF Overview!Task
  <2>6. /\ a \in Overview!Task /\ a.kind = q.kind /\ a.stage = q.stage /\ a.user = q.user
        /\ a.list = q.list /\ a.asked = q.asked \ {t}
    BY <1>1, <2>4, <2>5, AdminTaskAsked
  <2>7. TaskStep(c, a)
    BY <2>1, <2>3, <2>4, <2>6, OverviewDo DEF TaskStep
  <2> QED BY <1>1, <2>6, <2>7
<1>3. CASE Admin!FailMeters(c, t)
  <2>1. PICK a : a = Asking(q, q.asked \ {t})
    OBVIOUS
  <2>2. Overview!Do(c, a)
    BY <1>1, <1>3, <2>1 DEF Admin!FailMeters, Admin!Do, Overview!Do, Asking
  <2>3. q.asked \ {t} \in SUBSET Transformer
    BY <1>1 DEF Overview!Task
  <2>4. /\ a \in Overview!Task /\ a.kind = q.kind /\ a.stage = q.stage /\ a.user = q.user
        /\ a.list = q.list /\ a.asked = q.asked \ {t}
    BY <1>1, <2>1, <2>3, AdminTaskAsked
  <2>5. TaskStep(c, a)
    BY <2>2, <2>4, OverviewDo DEF TaskStep
  <2> QED BY <1>1, <2>4, <2>5
<1> QED BY <1>2, <1>3

\* The rows.  No account comes while this page is open.
AdminRows ==
  /\ accounts \subseteq User
  /\ holder \in [Transformer -> accounts \cup {None}]
  /\ owner \in [Counted -> Overview!Existing \cup {None}]

LEMMA AdminDrops ==
  ASSUME AdminRows, NEW u \in accounts,
         Admin!DropTransformers({t \in Transformer : holder[t] = u}),
         accounts' = accounts \/ accounts' = accounts \ {u}
  PROVE  /\ AdminRows'
         /\ \A t \in Transformer : holder'[t] = IF holder[t] = u THEN None ELSE holder[t]
<1>1. /\ holder' = [t \in Transformer |-> IF holder[t] = u THEN None ELSE holder[t]]
      /\ owner' = [m \in Counted |-> IF owner[m] \in {t \in Transformer : holder[t] = u}
                                     THEN None ELSE owner[m]]
  BY DEF Admin!DropTransformers
<1>2. holder' \in [Transformer -> accounts' \cup {None}] /\ accounts' \subseteq User
  BY <1>1 DEF AdminRows
<1>3. Overview!Existing' = Overview!Existing \ {t \in Transformer : holder[t] = u}
  BY <1>1 DEF Overview!Existing
<1>4. owner' \in [Counted -> Overview!Existing' \cup {None}]
  BY <1>1, <1>3 DEF AdminRows
<1> QED BY <1>1, <1>2, <1>4 DEF AdminRows

LEMMA NoMetersElsewhere ==
  ASSUME AdminRows, NEW t \in Transformer, t \notin Overview!Existing
  PROVE  Overview!MetersAt(t) = {}
BY NoneApart DEF AdminRows, Overview!MetersAt

-----------------------------------------------------------------------------
(***************************************************************************)
(* admin.js: its parts of the invariant, and the steps that leave one of   *)
(* them alone.                                                             *)
(***************************************************************************)

AdminShown ==
  /\ summary \in Overview!Summary \cup {None} /\ missed \in BOOLEAN
  /\ users \subseteq User
  /\ transformers \subseteq Transformer
  /\ metersBy \in [Transformer -> SUBSET Counted]
  /\ user \in users \cup {None} /\ transformer \in Transformer \cup {None}
  /\ detail \subseteq Transformer
  /\ points \in Transformer \cup {None}
  /\ astray \in BOOLEAN

AdminBase ==
  /\ page = "admin" /\ AdminRows /\ AdminShown
  /\ task \in [Caller -> Overview!Task] /\ \A c \in Caller : AdminTask(task[c])

TotalsRight ==
  /\ summary # None
  /\ summary.transformers = Overview!Cardinality(Overview!Existing)
  /\ summary.meters = Overview!Cardinality(UNION {Overview!MetersAt(t) : t \in Overview!Existing})

\* What a refresh has found.
RefreshTask(q) ==
  /\ q.kind = "list" /\ q.stage = "answered" => q.list = Overview!Existing
  /\ q.kind = "meters" =>
       /\ transformers = Overview!Existing
       /\ \A t \in Transformer \ q.asked : metersBy[t] = Overview!MetersAt(t)
  /\ q.kind = "users" => TotalsRight
  /\ q.kind = "users" /\ q.stage = "answered" => q.list = accounts

RefreshInv ==
  ~missed =>
    /\ \A c, d \in Caller : IsRefresh(task[c]) /\ IsRefresh(task[d]) => c = d
    /\ \A c \in Caller : RefreshTask(task[c])
    /\ (\A c \in Caller : ~IsRefresh(task[c])) => TotalsRight /\ users = accounts

OfUser == {t \in Transformer : user # None /\ holder[t] = user}

\* A refresh after which the user is loaded again, or gone.
Again(q) ==
  /\ user # None /\ IsRefresh(q)
  /\ \/ q.user = user
     \/ user \notin accounts /\ (q.kind = "users" /\ q.stage = "answered" => user \notin q.list)

\* What a task loads.
DetailTask(q) ==
  /\ q.kind = "detail" => q.user = user /\ user # None /\ transformer = None /\ points = None
  /\ q.kind \in {"keys", "metrics"} => q.transformer = transformer

SelectionInv ==
  ~astray =>
    /\ \A c, d \in Caller : IsDetail(task[c]) /\ IsDetail(task[d]) => c = d
    /\ \A c \in Caller : DetailTask(task[c])
    /\ (\A c \in Caller : ~IsDetail(task[c])) => points \in {transformer, None}
    /\ \/ \E c \in Caller : Again(task[c])
       \/ /\ \A c \in Caller : task[c].kind = "detail" /\ task[c].stage = "answered" => task[c].list = OfUser
          /\ (\A c \in Caller : task[c].kind # "detail") => detail = OfUser

AdminParts == AdminBase /\ RefreshInv /\ SelectionInv

LEMMA TotalsAre ==
  TotalsRight <=> Admin!TotalsAreRight
BY AdminSame DEF TotalsRight, Admin!TotalsAreRight

LEMMA AdminInvIs ==
  Admin!AdminInv /\ OnAdmin <=> AdminParts
<1>1. Admin!TypeOK /\ Admin!SelectedIsListed /\ Admin!TasksInOrder /\ OnAdmin <=> AdminBase
  <2>1. Admin!TasksInOrder <=> \A c \in Caller : AdminTask(task[c])
    BY DEF Admin!TasksInOrder, AdminTask, Admin!RefreshKinds, Admin!DetailKinds
  <2>2. Admin!RowsOK <=> /\ AdminRows /\ task \in [Caller -> Overview!Task]
                         /\ summary \in Overview!Summary \cup {None} /\ missed \in BOOLEAN
    BY AdminSame DEF Admin!RowsOK, AdminRows, Overview!Existing
  <2> QED BY <2>1, <2>2 DEF Admin!TypeOK, Admin!SelectedIsListed, AdminBase, AdminShown, OnAdmin
<1>2. Admin!RefreshBecomesStored <=> RefreshInv
  BY AdminSame, TotalsAre DEF Admin!RefreshBecomesStored, RefreshInv, RefreshTask, IsRefresh, Admin!Runs,
     Admin!RefreshKinds, Admin!Answered
<1>3. Admin!SelectionIsLoaded <=> SelectionInv
  BY DEF Admin!SelectionIsLoaded, SelectionInv, DetailTask, IsDetail, Admin!Runs, Admin!DetailKinds,
     Admin!Answered, Admin!Reselects, Again, IsRefresh, Admin!RefreshKinds, Admin!OfSelected, OfUser
<1> QED BY <1>1, <1>2, <1>3 DEF AdminParts, Admin!AdminInv

LEMMA AdminTaskKept ==
  ASSUME AdminBase, NEW c \in Caller, NEW a, TaskStep(c, a), AdminTask(a), page' = page,
         AdminRows', AdminShown'
  PROVE  AdminBase'
BY DEF AdminBase, TaskStep, AdminTask

LEMMA AdminRowsStay ==
  ASSUME AdminRows, UNCHANGED <<accounts, holder, owner>>
  PROVE  /\ AdminRows' /\ Overview!Existing' = Overview!Existing
         /\ \A t : Overview!MetersAt(t)' = Overview!MetersAt(t)
         /\ TotalsRight <=> summary # None
              /\ summary.transformers = Overview!Cardinality(Overview!Existing)'
              /\ summary.meters =
                   Overview!Cardinality(UNION {Overview!MetersAt(t) : t \in Overview!Existing})'
BY DEF AdminRows, Overview!Existing, Overview!MetersAt, TotalsRight

\* A step of the selection.
LEMMA RefreshStays ==
  ASSUME RefreshInv, NEW c \in Caller, NEW a, TaskStep(c, a), ~IsRefresh(task[c]), ~IsRefresh(a),
         UNCHANGED <<accounts, holder, owner, summary, missed, users, transformers, metersBy>>
  PROVE  RefreshInv'
<1>1. TotalsRight' <=> TotalsRight
  BY DEF TotalsRight, Overview!Existing, Overview!MetersAt
<1>2. /\ Overview!Existing' = Overview!Existing
      /\ \A t : Overview!MetersAt(t)' = Overview!MetersAt(t)
  BY DEF Overview!Existing, Overview!MetersAt
<1>3. \A d \in Caller : IsRefresh(task[d])' <=> IsRefresh(task[d])
  BY DEF TaskStep, IsRefresh
<1>4. \A d \in Caller : task'[d] = a \/ task'[d] = task[d]
  BY DEF TaskStep
<1>5. ASSUME ~missed PROVE \A d \in Caller : RefreshTask(task[d])'
  BY <1>1, <1>2, <1>4, <1>5 DEF RefreshInv, RefreshTask, IsRefresh
<1> QED BY <1>1, <1>3, <1>5 DEF RefreshInv

\* A step of the only refresh.
LEMMA OneRefresh ==
  ASSUME NEW c \in Caller, NEW a, TaskStep(c, a), IsRefresh(a), RefreshTask(a)',
         \A d \in Caller \ {c} : ~IsRefresh(task[d])
  PROVE  RefreshInv'
<1>1. \A d \in Caller \ {c} : ~IsRefresh(task'[d])
  BY DEF TaskStep
<1>2. \A d \in Caller : RefreshTask(task[d])'
  <2>1. \A d \in Caller \ {c} : RefreshTask(task[d])'
    BY <1>1 DEF RefreshTask, IsRefresh
  <2>2. RefreshTask(task[c])'
    BY DEF TaskStep, RefreshTask
  <2> QED BY <2>1, <2>2
<1> QED BY <1>1, <1>2 DEF RefreshInv, TaskStep, IsRefresh

LEMMA RefreshIsAlone ==
  ASSUME RefreshInv, ~missed, NEW c \in Caller, IsRefresh(task[c])
  PROVE  RefreshTask(task[c]) /\ \A d \in Caller \ {c} : ~IsRefresh(task[d])
BY DEF RefreshInv

LEMMA MissedRefresh ==
  ASSUME missed' PROVE RefreshInv'
BY DEF RefreshInv

LEMMA AstraySelection ==
  ASSUME astray' PROVE SelectionInv'
BY DEF SelectionInv

\* A step of a refresh, after which the selected user is loaded again if he was before.
LEMMA SelectionStays ==
  ASSUME SelectionInv, NEW c \in Caller, NEW a, TaskStep(c, a), ~IsDetail(task[c]), ~IsDetail(a),
         Again(task[c]) => Again(a),
         UNCHANGED <<accounts, holder, user, transformer, detail, points, astray>>
  PROVE  SelectionInv'
<1>1. OfUser' = OfUser /\ (\A q : DetailTask(q)' <=> DetailTask(q)) /\ (\A q : Again(q)' <=> Again(q))
  BY DEF OfUser, DetailTask, Again
<1>2. \A d \in Caller : IsDetail(task'[d]) <=> IsDetail(task[d])
  BY DEF TaskStep, IsDetail
<1>3. \A d \in Caller : (task'[d] = a /\ d = c) \/ task'[d] = task[d]
  BY DEF TaskStep
<1>4. SUFFICES ASSUME ~astray
               PROVE  /\ \A d, e \in Caller : IsDetail(task'[d]) /\ IsDetail(task'[e]) => d = e
                      /\ \A d \in Caller : DetailTask(task'[d])
                      /\ (\A d \in Caller : ~IsDetail(task'[d])) => points \in {transformer, None}
                      /\ \/ \E d \in Caller : Again(task'[d])
                         \/ /\ \A d \in Caller :
                                 task'[d].kind = "detail" /\ task'[d].stage = "answered" => task'[d].list = OfUser
                            /\ (\A d \in Caller : task'[d].kind # "detail") => detail = OfUser
  BY <1>1 DEF SelectionInv, DetailTask, Again, OfUser, IsDetail, IsRefresh
<1>5. DetailTask(a) /\ a.kind # "detail" /\ task[c].kind # "detail"
  BY DEF IsDetail, DetailTask
<1>6. \A d \in Caller : DetailTask(task'[d])
  BY <1>3, <1>4, <1>5 DEF SelectionInv
<1>7. (\E d \in Caller : Again(task[d])) => \E d \in Caller : Again(task'[d])
  BY <1>3
<1>8. \A d \in Caller : task'[d].kind = "detail" => task'[d] = task[d]
  BY <1>3, <1>5
<1>9. (\A d \in Caller : task'[d].kind # "detail") <=> (\A d \in Caller : task[d].kind # "detail")
  BY <1>3, <1>5
<1> QED BY <1>2, <1>4, <1>6, <1>7, <1>8, <1>9 DEF SelectionInv

\* One task loads the selection, or none does.
LEMMA OneDetail ==
  ASSUME NEW c \in Caller, NEW a, TaskStep(c, a), IsDetail(a), DetailTask(a)',
         \A d \in Caller \ {c} : ~IsDetail(task[d]),
         \/ \E d \in Caller : Again(task[d])'
         \/ /\ a.kind = "detail" /\ a.stage = "answered" => a.list = OfUser'
            /\ a.kind # "detail" => detail' = OfUser'
  PROVE  SelectionInv'
<1>1. \A d \in Caller \ {c} : ~IsDetail(task'[d])
  BY DEF TaskStep
<1>2. \A d \in Caller \ {c} : task'[d].kind \notin {"detail", "keys", "metrics"}
  BY <1>1 DEF IsDetail
<1>3. task'[c] = a
  BY DEF TaskStep
<1>4. \A d \in Caller : DetailTask(task[d])'
  BY <1>2, <1>3 DEF DetailTask
<1>5. \A d \in Caller : task'[d].kind = "detail" => d = c
  BY <1>2
<1>6. \A d, e \in Caller : IsDetail(task'[d]) /\ IsDetail(task'[e]) => d = e
  BY <1>1
<1>7. ~\A d \in Caller : ~IsDetail(task'[d])
  BY <1>3
<1>8. \/ \E d \in Caller : Again(task[d])'
      \/ /\ \A d \in Caller : task'[d].kind = "detail" /\ task'[d].stage = "answered" => task'[d].list = OfUser'
         /\ (\A d \in Caller : task'[d].kind # "detail") => detail' = OfUser'
  BY <1>3, <1>5
<1> QED BY <1>4, <1>6, <1>7, <1>8 DEF SelectionInv, IsDetail

LEMMA NoDetail ==
  ASSUME NEW c \in Caller, NEW a, TaskStep(c, a), ~IsDetail(a), points' \in {transformer', None},
         \A d \in Caller \ {c} : ~IsDetail(task[d]),
         (\E d \in Caller : Again(task[d])') \/ detail' = OfUser'
  PROVE  SelectionInv'
<1>1. \A d \in Caller : task'[d].kind \notin {"detail", "keys", "metrics"}
  BY DEF TaskStep, IsDetail
<1>2. \A d \in Caller : DetailTask(task[d])'
  BY <1>1 DEF DetailTask
<1> QED BY <1>1, <1>2 DEF SelectionInv, IsDetail

LEMMA DetailIsAlone ==
  ASSUME SelectionInv, ~astray, NEW c \in Caller, IsDetail(task[c])
  PROVE  /\ DetailTask(task[c]) /\ \A d \in Caller \ {c} : ~IsDetail(task[d])
         /\ \/ \E d \in Caller \ {c} : Again(task[d])
            \/ /\ task[c].kind = "detail" /\ task[c].stage = "answered" => task[c].list = OfUser
               /\ task[c].kind # "detail" => detail = OfUser
<1>1. DetailTask(task[c]) /\ \A d \in Caller \ {c} : ~IsDetail(task[d])
  BY DEF SelectionInv
<1>2. ~Again(task[c])
  BY DEF IsDetail, Again, IsRefresh
<1>3. \A d \in Caller : task[d].kind = "detail" => d = c
  BY <1>1 DEF IsDetail
<1> QED BY <1>1, <1>2, <1>3 DEF SelectionInv

\* The tasks of others that load the selected user again.
LEMMA OthersAgain ==
  ASSUME NEW c \in Caller, NEW a, TaskStep(c, a), user' = user, accounts' = accounts,
         \E d \in Caller \ {c} : Again(task[d])
  PROVE  \E d \in Caller : Again(task[d])'
<1>1. PICK d \in Caller \ {c} : Again(task[d])
  OBVIOUS
<1>2. Again(task[d])'
  BY <1>1 DEF TaskStep, Again
<1> QED BY <1>2

LEMMA RunsIs ==
  ASSUME NEW c \in Caller
  PROVE  /\ Admin!Runs(Admin!DetailKinds, c) <=> \E d \in Caller \ {c} : IsDetail(task[d])
         /\ Admin!Runs(Admin!RefreshKinds, c) <=> \E d \in Caller \ {c} : IsRefresh(task[d])
BY DEF Admin!Runs, Admin!DetailKinds, Admin!RefreshKinds, IsDetail, IsRefresh

-----------------------------------------------------------------------------
(***************************************************************************)
(* admin.js: the selection.                                                *)
(***************************************************************************)

\* selectUser and the renewed selection after a refresh.
LEMMA UserIsShown ==
  ASSUME AdminBase, NEW c \in Caller, NEW u \in User, Admin!ShowUser(u, c)
  PROVE  /\ \E a : TaskStep(c, a) /\ ~IsRefresh(a) /\ AdminTask(a)
         /\ SelectionInv'
         /\ user' = u /\ transformer' = None /\ points' = None /\ astray' \in BOOLEAN /\ detail' = detail
<1>1. /\ user' = u /\ transformer' = None /\ points' = None /\ detail' = detail
      /\ astray' = Admin!Runs(Admin!DetailKinds, c)
      /\ Admin!Do(c, Admin!AskAbout("detail", u, None))
  BY DEF Admin!ShowUser
<1>2. PICK a : TaskStep(c, a) /\ Asks(a, "detail", u, None)
  <2>1. "detail" \in AskingKinds /\ u \in User \cup {None} /\ None \in Transformer \cup {None}
    BY DEF AskingKinds
  <2> QED BY <1>1, <2>1, AdminAsks DEF AdminBase
<1>3. ~IsRefresh(a) /\ AdminTask(a) /\ u # None
  BY <1>2, PanelAssumption DEF Asks, IsRefresh, AdminTask
<1>4. astray' \in BOOLEAN
  <2>1. astray' = (\E d \in Caller \ {c} : task[d].kind \in Admin!DetailKinds)
    BY <1>1 DEF Admin!Runs
  <2> QED BY <2>1
<1>5. ASSUME ~astray' PROVE SelectionInv'
  <2>1. \A d \in Caller \ {c} : ~IsDetail(task[d])
    BY <1>1, <1>5, RunsIs
  <2>2. IsDetail(a) /\ DetailTask(a)' /\ a.kind = "detail" /\ a.stage # "answered"
    BY <1>1, <1>2, <1>3 DEF Asks, IsDetail, DetailTask
  <2> QED BY <1>2, <2>1, <2>2, OneDetail
<1>6. SelectionInv'
  BY <1>5, AstraySelection
<1>7. TaskStep(c, a) /\ ~IsRefresh(a) /\ AdminTask(a)
  BY <1>2, <1>3
<1>8. \E b : TaskStep(c, b) /\ ~IsRefresh(b) /\ AdminTask(b)
  BY <1>7, Zenon
<1> QED BY <1>1, <1>4, <1>6, <1>8

LEMMA SelectUserKeepsParts ==
  ASSUME AdminParts, NEW c \in Caller, NEW u \in User, Admin!SelectUser(u, c)
  PROVE  AdminParts'
<1>1. /\ Admin!ShowUser(u, c) /\ u \in users /\ task[c].kind = "none"
      /\ UNCHANGED <<page, accounts, holder, owner, summary, missed, users, transformers, metersBy>>
  BY DEF Admin!SelectUser, Admin!Idle, Admin!UserRows, Admin!rows, Admin!lists
<1>2. PICK a : TaskStep(c, a) /\ ~IsRefresh(a) /\ AdminTask(a)
  BY <1>1, UserIsShown DEF AdminParts
<1>3. /\ SelectionInv' /\ user' = u /\ transformer' = None /\ points' = None /\ astray' \in BOOLEAN
      /\ detail' = detail
  BY <1>1, UserIsShown DEF AdminParts
<1>4. RefreshInv'
  BY <1>1, <1>2, RefreshStays DEF AdminParts, IsRefresh
<1>5. AdminShown'
  BY <1>1, <1>3 DEF AdminParts, AdminBase, AdminShown
<1>6. AdminBase'
  BY <1>1, <1>2, <1>5, AdminTaskKept, AdminRowsStay DEF AdminParts, AdminBase
<1> QED BY <1>3, <1>4, <1>6 DEF AdminParts

LEMMA UserTransformersFetchedKeepsParts ==
  ASSUME AdminParts, NEW c \in Caller, Admin!UserTransformersFetched(c)
  PROVE  AdminParts'
<1>1. /\ UNCHANGED <<page, accounts, holder, owner, summary, missed, users, transformers, metersBy>>
      /\ UNCHANGED <<user, transformer, points, astray>>
      /\ task[c].kind = "detail" /\ task[c].stage = "answered"
      /\ detail' = IF user = None THEN {} ELSE task[c].list
      /\ Admin!Done(c)
  BY DEF Admin!UserTransformersFetched, Admin!Answered, Admin!Rendered, Admin!rows, Admin!lists
<1>2. PICK a : TaskStep(c, a) /\ a.kind = "none" /\ AdminTask(a)
  BY <1>1, AdminDone DEF AdminParts, AdminBase
<1>3. AdminShown'
  BY <1>1 DEF AdminParts, AdminBase, AdminShown, AdminTask
<1>4. AdminBase'
  BY <1>1, <1>2, <1>3, AdminTaskKept, AdminRowsStay DEF AdminParts, AdminBase
<1>5. RefreshInv'
  BY <1>1, <1>2, RefreshStays DEF AdminParts, IsRefresh
<1>6. SelectionInv'
  <2>1. CASE astray
    BY <1>1, <2>1, AstraySelection
  <2>2. CASE ~astray
    <3>1. IsDetail(task[c])
      BY <1>1 DEF IsDetail
    <3>2. /\ DetailTask(task[c]) /\ \A d \in Caller \ {c} : ~IsDetail(task[d])
          /\ (\E d \in Caller \ {c} : Again(task[d])) \/ task[c].list = OfUser
      BY <1>1, <2>2, <3>1, DetailIsAlone DEF AdminParts
    <3>3. user # None /\ points' \in {transformer', None} /\ OfUser' = OfUser
      BY <1>1, <3>2 DEF DetailTask, OfUser
    <3>4. (\E d \in Caller : Again(task[d])') \/ detail' = OfUser'
      BY <1>1, <1>2, <3>2, <3>3, OthersAgain
    <3> QED BY <1>2, <3>2, <3>3, <3>4, NoDetail DEF IsDetail
  <2> QED BY <2>1, <2>2
<1> QED BY <1>4, <1>5, <1>6 DEF AdminParts

\* UserTransformersFailed and DetailFails.
LEMMA DetailFailsKeepsParts ==
  ASSUME AdminParts, NEW c \in Caller, Admin!UserTransformersFailed(c) \/ Admin!DetailFails(c)
  PROVE  AdminParts'
<1>1. /\ UNCHANGED <<page, accounts, holder, owner, summary, missed, users, transformers, metersBy>>
      /\ UNCHANGED <<user, transformer, points>> /\ astray' = TRUE
      /\ task[c].kind \in {"detail", "keys", "metrics"}
      /\ detail' \in {{}, detail}
      /\ Admin!Done(c)
  BY DEF Admin!UserTransformersFailed, Admin!DetailFails, Admin!rows, Admin!lists, Admin!selection
<1>2. PICK a : TaskStep(c, a) /\ a.kind = "none" /\ AdminTask(a)
  BY <1>1, AdminDone DEF AdminParts, AdminBase
<1>3. AdminShown'
  BY <1>1 DEF AdminParts, AdminBase, AdminShown
<1>4. AdminBase'
  BY <1>1, <1>2, <1>3, AdminTaskKept, AdminRowsStay DEF AdminParts, AdminBase
<1>5. RefreshInv'
  BY <1>1, <1>2, RefreshStays DEF AdminParts, IsRefresh
<1> QED BY <1>1, <1>4, <1>5, AstraySelection DEF AdminParts

\* SelectTransformer and LoadMetrics.
LEMMA LoadKeepsParts ==
  ASSUME AdminParts, NEW c \in Caller,
         Admin!LoadMetrics(c) \/ \E t \in Transformer : Admin!SelectTransformer(t, c)
  PROVE  AdminParts'
<1>1. /\ UNCHANGED <<page, accounts, holder, owner, summary, missed, users, transformers, metersBy>>
      /\ UNCHANGED <<user, detail, points>> /\ transformer' \in Transformer
      /\ task[c].kind = "none"
      /\ astray' = (astray \/ Admin!Runs(Admin!DetailKinds, c))
      /\ \E kind \in {"keys", "metrics"} : Admin!Do(c, Admin!AskAbout(kind, None, transformer'))
  BY DEF Admin!LoadMetrics, Admin!SelectTransformer, Admin!Idle, Admin!rows, Admin!lists,
         Admin!selection, AdminParts, AdminBase, AdminShown
<1>2. PICK kind \in {"keys", "metrics"} : Admin!Do(c, Admin!AskAbout(kind, None, transformer'))
  BY <1>1
<1>3. PICK a : TaskStep(c, a) /\ Asks(a, kind, None, transformer')
  <2>1. kind \in AskingKinds /\ None \in User \cup {None}
    BY DEF AskingKinds
  <2>2. PICK t \in Transformer \cup {None} : t = transformer'
    BY <1>1
  <2> QED BY <1>2, <2>1, <2>2, AdminAsks DEF AdminParts, AdminBase
<1>4. ~IsRefresh(a) /\ ~IsRefresh(task[c]) /\ AdminTask(a)
  BY <1>1, <1>3 DEF Asks, IsRefresh, AdminTask
<1>5. astray' \in BOOLEAN
  <2>1. Admin!Runs(Admin!DetailKinds, c) \in BOOLEAN
    BY DEF Admin!Runs
  <2> QED BY <1>1, <2>1
<1>6. AdminShown'
  BY <1>1, <1>5 DEF AdminParts, AdminBase, AdminShown
<1>7. AdminBase'
  BY <1>1, <1>3, <1>4, <1>6, AdminTaskKept, AdminRowsStay DEF AdminParts, AdminBase
<1>8. RefreshInv'
  BY <1>1, <1>3, <1>4, RefreshStays DEF AdminParts
<1>9. ASSUME ~astray' PROVE SelectionInv'
  <2>1. ~astray /\ ~Admin!Runs(Admin!DetailKinds, c)
    BY <1>1, <1>9
  <2>2. \A d \in Caller \ {c} : ~IsDetail(task[d])
    BY <2>1, RunsIs
  <2>3. \A d \in Caller : task[d].kind # "detail"
    BY <1>1, <2>2 DEF IsDetail
  <2>4. (\E d \in Caller : Again(task[d])) \/ detail = OfUser
    BY <2>1, <2>3 DEF AdminParts, SelectionInv
  <2>5. ~Again(task[c]) /\ OfUser' = OfUser
    BY <1>1 DEF Again, IsRefresh, OfUser
  <2>6. (\E d \in Caller : Again(task[d])') \/ detail' = OfUser'
    BY <1>1, <1>3, <2>4, <2>5, OthersAgain
  <2>7. IsDetail(a) /\ DetailTask(a)' /\ a.stage # "answered"
    BY <1>3 DEF IsDetail, DetailTask, Asks
  <2> QED BY <1>3, <2>2, <2>6, <2>7, OneDetail
<1> QED BY <1>7, <1>8, <1>9, AstraySelection DEF AdminParts

\* KeysLoaded and PointsShown.
LEMMA LoadedKeepsParts ==
  ASSUME AdminParts, NEW c \in Caller, Admin!KeysLoaded(c) \/ Admin!PointsShown(c)
  PROVE  AdminParts'
<1>1. /\ UNCHANGED <<page, accounts, holder, owner, summary, missed, users, transformers, metersBy>>
      /\ UNCHANGED <<user, detail, transformer, astray>>
      /\ task[c].kind \in {"keys", "metrics"}
  BY DEF Admin!KeysLoaded, Admin!PointsShown, Admin!Sent, Admin!rows, Admin!lists
<1>2. /\ points' \in {points, task[c].transformer, None}
      /\ \/ Admin!Done(c) /\ (points' \in {task[c].transformer, None} \/ transformer = None)
         \/ /\ transformer # None /\ points' = points
            /\ Admin!Do(c, Admin!AskAbout("metrics", None, transformer))
  BY DEF Admin!KeysLoaded, Admin!PointsShown
<1>3. PICK a : /\ TaskStep(c, a) /\ ~IsRefresh(a) /\ AdminTask(a) /\ a.kind # "detail"
               /\ \/ ~IsDetail(a) /\ (points' \in {task[c].transformer, None} \/ transformer = None)
                  \/ IsDetail(a) /\ a.kind = "metrics" /\ a.transformer = transformer
  <2>1. CASE Admin!Done(c) /\ (points' \in {task[c].transformer, None} \/ transformer = None)
    <3>1. PICK a : TaskStep(c, a) /\ a.kind = "none" /\ AdminTask(a)
      BY <2>1, AdminDone DEF AdminParts, AdminBase
    <3>2. ~IsRefresh(a) /\ ~IsDetail(a) /\ a.kind # "detail"
      BY <3>1 DEF IsRefresh, IsDetail
    <3> QED BY <2>1, <3>1, <3>2
  <2>2. CASE transformer # None /\ Admin!Do(c, Admin!AskAbout("metrics", None, transformer))
    <3>1. /\ "metrics" \in AskingKinds /\ None \in User \cup {None} /\ transformer \in Transformer \cup {None}
      BY DEF AskingKinds, AdminParts, AdminBase, AdminShown
    <3>2. PICK a : TaskStep(c, a) /\ Asks(a, "metrics", None, transformer)
      BY <2>2, <3>1, AdminAsks DEF AdminParts, AdminBase
    <3>3. /\ a.kind = "metrics" /\ a.transformer = transformer /\ a.list = {} /\ transformer \in Transformer
      BY <2>2, <3>1, <3>2 DEF Asks
    <3>4. ~IsRefresh(a) /\ IsDetail(a) /\ AdminTask(a) /\ a.kind # "detail"
      BY <3>3 DEF IsRefresh, IsDetail, AdminTask
    <3> QED BY <3>2, <3>3, <3>4
  <2> QED BY <1>2, <2>1, <2>2
<1>4. task[c].transformer \in Transformer /\ ~IsRefresh(task[c]) /\ IsDetail(task[c])
  BY <1>1 DEF AdminParts, AdminBase, AdminTask, IsRefresh, IsDetail
<1>5. AdminShown'
  BY <1>1, <1>2, <1>4 DEF AdminParts, AdminBase, AdminShown
<1>6. AdminBase'
  BY <1>1, <1>3, <1>5, AdminTaskKept, AdminRowsStay DEF AdminParts, AdminBase
<1>7. RefreshInv'
  BY <1>1, <1>3, <1>4, RefreshStays DEF AdminParts
<1>8. ASSUME ~astray' PROVE SelectionInv'
  <2>1. /\ DetailTask(task[c]) /\ \A d \in Caller \ {c} : ~IsDetail(task[d])
        /\ (\E d \in Caller \ {c} : Again(task[d])) \/ detail = OfUser
    BY <1>1, <1>4, <1>8, DetailIsAlone DEF AdminParts
  <2>2. task[c].transformer = transformer /\ transformer # None /\ OfUser' = OfUser
    BY <1>1, <1>4, <2>1, NoneApart DEF DetailTask, OfUser
  <2>3. (\E d \in Caller : Again(task[d])') \/ detail' = OfUser'
    BY <1>1, <1>3, <2>1, <2>2, OthersAgain
  <2>4. CASE ~IsDetail(a) /\ (points' \in {task[c].transformer, None} \/ transformer = None)
    <3>1. points' \in {transformer', None}
      BY <1>1, <2>2, <2>4
    <3> QED BY <1>3, <2>1, <2>3, <2>4, <3>1, NoDetail
  <2>5. CASE IsDetail(a) /\ a.kind = "metrics" /\ a.transformer = transformer
    <3>1. DetailTask(a)'
      BY <1>1, <2>5 DEF DetailTask
    <3> QED BY <1>3, <2>1, <2>3, <2>5, <3>1, OneDetail
  <2> QED BY <1>3, <2>4, <2>5
<1> QED BY <1>6, <1>7, <1>8, AstraySelection DEF AdminParts

-----------------------------------------------------------------------------
(***************************************************************************)
(* admin.js: the lists.                                                    *)
(***************************************************************************)

\* DeleteUserTransformers and DeleteUser.
LEMMA DeleteKeepsParts ==
  ASSUME AdminParts, NEW c \in Caller, NEW u \in User,
         Admin!DeleteUserTransformers(u, c) \/ Admin!DeleteUser(u, c)
  PROVE  AdminParts'
<1>1. /\ UNCHANGED <<page, accounts, holder, owner, summary, missed, users, transformers, metersBy>>
      /\ UNCHANGED <<user, detail, points, transformer, astray>>
      /\ task[c].kind = "none"
  BY DEF Admin!DeleteUserTransformers, Admin!DeleteUser, Admin!Idle, Admin!rows, Admin!own,
         Admin!lists, Admin!selection
<1>2. PICK kind \in {"wipe", "expel"} : Admin!Do(c, Admin!AskAbout(kind, u, None))
  BY DEF Admin!DeleteUserTransformers, Admin!DeleteUser
<1>3. PICK a : TaskStep(c, a) /\ Asks(a, kind, u, None)
  <2>1. kind \in AskingKinds /\ u \in User \cup {None} /\ None \in Transformer \cup {None}
    BY DEF AskingKinds
  <2> QED BY <1>2, <2>1, AdminAsks DEF AdminParts, AdminBase
<1>4. /\ ~IsRefresh(a) /\ ~IsDetail(a) /\ AdminTask(a)
      /\ ~IsRefresh(task[c]) /\ ~IsDetail(task[c]) /\ ~Again(task[c])
  BY <1>1, <1>3 DEF Asks, IsRefresh, IsDetail, AdminTask, Again
<1>5. AdminShown'
  BY <1>1 DEF AdminParts, AdminBase, AdminShown
<1>6. AdminBase'
  BY <1>1, <1>3, <1>4, <1>5, AdminTaskKept, AdminRowsStay DEF AdminParts, AdminBase
<1>7. RefreshInv'
  BY <1>1, <1>3, <1>4, RefreshStays DEF AdminParts
<1>8. SelectionInv'
  BY <1>1, <1>3, <1>4, SelectionStays DEF AdminParts
<1> QED BY <1>6, <1>7, <1>8 DEF AdminParts

LEMMA RefreshFailsKeepsParts ==
  ASSUME AdminParts, NEW c \in Caller, Admin!RefreshFails(c)
  PROVE  AdminParts'
<1>1. /\ UNCHANGED <<page, accounts, holder, owner, summary, users, transformers, metersBy>>
      /\ UNCHANGED <<user, detail, points, transformer>> /\ astray' = TRUE /\ missed' = TRUE
      /\ Admin!Done(c)
  BY DEF Admin!RefreshFails, Admin!rows, Admin!lists, Admin!selection
<1>2. PICK a : TaskStep(c, a) /\ a.kind = "none" /\ AdminTask(a)
  BY <1>1, AdminDone DEF AdminParts, AdminBase
<1>3. AdminShown'
  BY <1>1 DEF AdminParts, AdminBase, AdminShown
<1>4. AdminBase'
  BY <1>1, <1>2, <1>3, AdminTaskKept, AdminRowsStay DEF AdminParts, AdminBase
<1> QED BY <1>1, <1>4, AstraySelection, MissedRefresh DEF AdminParts

LEMMA ElsewhereKeepsParts ==
  ASSUME AdminParts, Admin!DeleteAccountElsewhere, astray' = TRUE,
         UNCHANGED <<page, Admin!lists, Admin!selection>>
  PROVE  AdminParts'
<1>1. /\ UNCHANGED <<page, task, summary, users, transformers, metersBy>>
      /\ UNCHANGED <<user, detail, points, transformer>> /\ missed' = TRUE
  BY DEF Admin!DeleteAccountElsewhere, Admin!lists, Admin!selection
<1>2. PICK u \in User : /\ u \in accounts /\ accounts' = accounts \ {u}
                        /\ Admin!DropTransformers({t \in Transformer : holder[t] = u})
  BY DEF Admin!DeleteAccountElsewhere, Admin!DeleteAccount
<1>3. AdminRows'
  BY <1>2, AdminDrops DEF AdminParts, AdminBase
<1>4. AdminBase'
  BY <1>1, <1>3 DEF AdminParts, AdminBase, AdminShown, AdminTask
<1> QED BY <1>1, <1>4, AstraySelection, MissedRefresh DEF AdminParts

\* The rows of a user go, and a refresh begins that selects him again, or shows that he is gone.
LEMMA UserDataDeletedKeepsParts ==
  ASSUME AdminParts, NEW c \in Caller, Admin!UserDataDeleted(c)
  PROVE  AdminParts'
<1> DEFINE u == task[c].user
<1>1. /\ UNCHANGED <<page, summary, users, transformers, metersBy>>
      /\ UNCHANGED <<user, detail, points, transformer, astray>>
      /\ task[c].kind \in {"wipe", "expel"} /\ u \in accounts
      /\ Admin!DropTransformers({t \in Transformer : holder[t] = u})
      /\ missed' = (missed \/ Admin!Runs(Admin!RefreshKinds, c))
  BY DEF Admin!UserDataDeleted, Admin!Sent, Admin!DeleteOf, Admin!DeleteAccount, Admin!RefreshAll,
         Admin!lists, Admin!selection
<1>2. \/ accounts' = accounts /\ Admin!Do(c, Admin!AskAbout("list", u, None))
      \/ accounts' = accounts \ {u} /\ Admin!Do(c, Admin!AskAbout("list", None, None))
  BY DEF Admin!UserDataDeleted, Admin!DeleteOf, Admin!DeleteAccount, Admin!RefreshAll
<1>3. PICK a : /\ TaskStep(c, a) /\ Asks(a, "list", a.user, None)
               /\ (accounts' = accounts /\ a.user = u) \/ accounts' = accounts \ {u}
  <2>1. "list" \in AskingKinds /\ u \in User \cup {None} /\ None \in Transformer \cup {None}
        /\ None \in User \cup {None}
    BY <1>1 DEF AskingKinds, AdminParts, AdminBase, AdminRows
  <2>2. CASE accounts' = accounts /\ Admin!Do(c, Admin!AskAbout("list", u, None))
    <3>1. PICK a : TaskStep(c, a) /\ Asks(a, "list", u, None)
      BY <2>1, <2>2, AdminAsks DEF AdminParts, AdminBase
    <3> QED BY <2>2, <3>1 DEF Asks
  <2>3. CASE accounts' = accounts \ {u} /\ Admin!Do(c, Admin!AskAbout("list", None, None))
    <3>1. PICK a : TaskStep(c, a) /\ Asks(a, "list", None, None)
      BY <2>1, <2>3, AdminAsks DEF AdminParts, AdminBase
    <3> QED BY <2>3, <3>1 DEF Asks
  <2> QED BY <1>2, <2>2, <2>3
<1>4. /\ IsRefresh(a) /\ ~IsDetail(a) /\ AdminTask(a) /\ RefreshTask(a)'
      /\ ~IsRefresh(task[c]) /\ ~IsDetail(task[c]) /\ ~Again(task[c])
  BY <1>1, <1>3 DEF Asks, IsRefresh, IsDetail, AdminTask, RefreshTask, Again
<1>5. /\ AdminRows'
      /\ \A t \in Transformer : holder'[t] = IF holder[t] = u THEN None ELSE holder[t]
  BY <1>1, <1>3, AdminDrops DEF AdminParts, AdminBase
<1>6. missed' \in BOOLEAN
  <2>1. Admin!Runs(Admin!RefreshKinds, c) \in BOOLEAN
    BY DEF Admin!Runs
  <2> QED BY <1>1, <2>1
<1>7. AdminShown'
  BY <1>1, <1>6 DEF AdminParts, AdminBase, AdminShown
<1>8. AdminBase'
  BY <1>1, <1>3, <1>4, <1>5, <1>7, AdminTaskKept DEF AdminParts
<1>9. ASSUME ~missed' PROVE RefreshInv'
  <2>1. \A d \in Caller \ {c} : ~IsRefresh(task[d])
    <3>1. ~Admin!Runs(Admin!RefreshKinds, c)
      BY <1>1, <1>9
    <3> QED BY <3>1, RunsIs
  <2> QED BY <1>3, <1>4, <2>1, OneRefresh
<1>10. ASSUME ~astray PROVE SelectionInv'
  <2>1. CASE user = u
    <3>1. Again(a)'
      BY <1>1, <1>3, <1>4, <2>1, PanelAssumption
         DEF Again, Asks, AdminParts, AdminBase, AdminRows
    <3>2. Again(task[c])'
      BY <1>3, <3>1 DEF TaskStep, Again
    <3>3. /\ \A d \in Caller : task'[d] = a \/ task'[d] = task[d]
          /\ \A d \in Caller : IsDetail(task'[d]) <=> IsDetail(task[d])
      BY <1>3, <1>4 DEF TaskStep
    <3>4. ~IsDetail(a) /\ a.kind # "detail"
      BY <1>4 DEF IsDetail
    <3>5. \A d \in Caller : DetailTask(task[d])'
      <4>1. \A d \in Caller : DetailTask(task[d])
        BY <1>10 DEF AdminParts, SelectionInv
      <4>2. a.kind \notin {"detail", "keys", "metrics"}
        BY <1>4 DEF IsDetail
      <4> QED BY <1>1, <3>3, <4>1, <4>2 DEF DetailTask
    <3>6. \A d, e \in Caller : IsDetail(task'[d]) /\ IsDetail(task'[e]) => d = e
      BY <1>10, <3>3 DEF AdminParts, SelectionInv
    <3>7. (\A d \in Caller : ~IsDetail(task'[d])) => points \in {transformer, None}
      BY <1>10, <3>3 DEF AdminParts, SelectionInv
    <3> QED BY <1>1, <3>2, <3>5, <3>6, <3>7 DEF SelectionInv, IsDetail
  <2>2. CASE user # u
    <3>1. OfUser' = OfUser
      BY <1>1, <1>5, <2>2 DEF OfUser, AdminParts, AdminBase, AdminRows
    <3>2. ASSUME NEW d \in Caller, Again(task[d]) PROVE Again(task[d])'
      <4>1. d # c /\ task'[d] = task[d]
        BY <1>3, <1>4, <3>2 DEF TaskStep
      <4>2. accounts' \subseteq accounts
        BY <1>3
      <4> QED BY <1>1, <3>2, <4>1, <4>2 DEF Again
    <3>3. /\ \A d \in Caller : task'[d] = a \/ task'[d] = task[d]
          /\ \A d \in Caller : IsDetail(task'[d]) <=> IsDetail(task[d])
      BY <1>3, <1>4 DEF TaskStep
    <3>4. a.kind \notin {"detail", "keys", "metrics"} /\ task[c].kind # "detail"
      BY <1>4 DEF IsDetail
    <3>5. \A d \in Caller : DetailTask(task[d])'
      <4>1. \A d \in Caller : DetailTask(task[d])
        BY <1>10 DEF AdminParts, SelectionInv
      <4> QED BY <1>1, <3>3, <3>4, <4>1 DEF DetailTask
    <3>6. \A d, e \in Caller : IsDetail(task'[d]) /\ IsDetail(task'[e]) => d = e
      BY <1>10, <3>3 DEF AdminParts, SelectionInv
    <3>7. (\A d \in Caller : ~IsDetail(task'[d])) => points \in {transformer, None}
      BY <1>10, <3>3 DEF AdminParts, SelectionInv
    <3>8. \A d \in Caller : /\ task'[d].kind = "detail" => task'[d] = task[d]
                            /\ task[d].kind = "detail" => task'[d] = task[d]
      BY <1>3, <3>3, <3>4 DEF TaskStep
    <3>9. \/ \E d \in Caller : Again(task[d])'
          \/ /\ \A d \in Caller : task'[d].kind = "detail" /\ task'[d].stage = "answered" => task'[d].list = OfUser'
             /\ (\A d \in Caller : task'[d].kind # "detail") => detail' = OfUser'
      BY <1>1, <1>10, <3>1, <3>2, <3>8 DEF AdminParts, SelectionInv
    <3> QED BY <1>1, <3>5, <3>6, <3>7, <3>9 DEF SelectionInv, IsDetail
  <2> QED BY <2>1, <2>2
<1>11. RefreshInv'
  BY <1>9, MissedRefresh
<1>12. SelectionInv'
  BY <1>1, <1>10, AstraySelection
<1> QED BY <1>8, <1>11, <1>12 DEF AdminParts

\* What the server answers with.
LEMMA AdminAnswers ==
  ASSUME AdminBase, NEW c \in Caller, Admin!AnswerTask(c)
  PROVE  \E a : /\ TaskStep(c, a) /\ AdminTask(a)
                /\ task[c].kind \in {"list", "users", "detail"} /\ task[c].stage = "sent"
                /\ a.kind = task[c].kind /\ a.stage = "answered" /\ a.user = task[c].user
                /\ a.kind = "list" => a.list = Overview!Existing
                /\ a.kind = "users" => a.list = accounts
                /\ a.kind = "detail" => a.list = {t \in Transformer : holder[t] = a.user}
<1> DEFINE q == task[c]
           ts == Admin!Result(q)
<1>1. /\ q.kind \in {"list", "users", "detail"} /\ q.stage = "sent" /\ q \in Overview!Task
      /\ Admin!Do(c, [q EXCEPT !.stage = "answered", !.list = ts])
  BY DEF Admin!AnswerTask, Admin!AnswerRead, Admin!Sent, Admin!Reading, AdminBase, AdminTask
<1>2. /\ q.kind = "list" => ts = Overview!Existing
      /\ q.kind = "users" => ts = accounts
      /\ q.kind = "detail" => ts = {t \in Transformer : holder[t] = q.user}
  BY AdminSame DEF Admin!Result
<1>3. /\ q.kind \in {"list", "detail"} => ts \subseteq Transformer
      /\ q.kind = "users" => ts \subseteq User
  BY <1>2 DEF Overview!Existing, AdminBase, AdminRows
<1> HIDE DEF ts
<1>4. PICK a : a = WithList(q, ts)
  OBVIOUS
<1>5. ts \in SUBSET (User \cup Transformer)
  BY <1>1, <1>3
<1>6. /\ a \in Overview!Task /\ a.kind = q.kind /\ a.stage = "answered" /\ a.user = q.user
      /\ a.transformer = q.transformer /\ a.list = ts
  BY <1>1, <1>4, <1>5, AdminTaskAnswered
<1>7. Overview!Do(c, a)
  BY <1>1, <1>4, AdminSame DEF WithList
<1>8. TaskStep(c, a)
  BY <1>6, <1>7, OverviewDo DEF TaskStep, AdminBase
<1>9. AdminTask(q)
  BY DEF AdminBase
<1>10. AdminTask(a)
  BY <1>1, <1>3, <1>6, <1>9 DEF AdminTask
<1> QED BY <1>1, <1>2, <1>6, <1>8, <1>10

LEMMA AnswerKeepsParts ==
  ASSUME AdminParts, NEW c \in Caller, Admin!AnswerTask(c)
  PROVE  AdminParts'
<1>1. PICK a : /\ TaskStep(c, a) /\ AdminTask(a)
               /\ task[c].kind \in {"list", "users", "detail"} /\ task[c].stage = "sent"
               /\ a.kind = task[c].kind /\ a.stage = "answered" /\ a.user = task[c].user
               /\ a.kind = "list" => a.list = Overview!Existing
               /\ a.kind = "users" => a.list = accounts
               /\ a.kind = "detail" => a.list = {t \in Transformer : holder[t] = a.user}
  BY AdminAnswers DEF AdminParts
<1>2. /\ UNCHANGED <<page, accounts, holder, owner, summary, users, transformers, metersBy>>
      /\ UNCHANGED <<user, detail, points, transformer, astray>>
      /\ missed' = (missed /\ (~Admin!Sent(c, "list") \/ Admin!Runs(Admin!RefreshKinds, c)))
  BY DEF Admin!AnswerTask, Admin!AnswerRead, Admin!own, Admin!lists, Admin!selection, Admin!rows
<1>3. AdminShown'
  <2>1. Admin!Runs(Admin!RefreshKinds, c) \in BOOLEAN /\ Admin!Sent(c, "list") \in BOOLEAN
    BY DEF Admin!Runs, Admin!Sent
  <2>2. missed' \in BOOLEAN
    BY <1>2, <2>1
  <2> QED BY <1>2, <2>2 DEF AdminParts, AdminBase, AdminShown
<1>4. AdminBase'
  BY <1>1, <1>2, <1>3, AdminTaskKept, AdminRowsStay DEF AdminParts, AdminBase
<1>5. ASSUME ~missed' PROVE RefreshInv'
  <2>1. CASE IsRefresh(task[c])
    <3>1. \A d \in Caller \ {c} : ~IsRefresh(task[d])
      <4>1. ~missed \/ ~Admin!Runs(Admin!RefreshKinds, c)
        BY <1>2, <1>5
      <4>2. CASE ~missed
        BY <2>1, <4>2, RefreshIsAlone DEF AdminParts
      <4>3. CASE ~Admin!Runs(Admin!RefreshKinds, c)
        BY <4>3, RunsIs
      <4> QED BY <4>1, <4>2, <4>3
    <3>2. IsRefresh(a)
      BY <1>1, <2>1 DEF IsRefresh
    <3>3. a.kind = "users" => TotalsRight
      <4>1. CASE a.kind = "users"
        <5>1. ~missed
          <6>1. ~Admin!Sent(c, "list")
            BY <1>1, <4>1 DEF Admin!Sent
          <6> QED BY <1>2, <1>5, <6>1
        <5> QED BY <1>1, <2>1, <4>1, <5>1, RefreshIsAlone DEF AdminParts, RefreshTask
      <4> QED BY <4>1
    <3>4. /\ TotalsRight' <=> TotalsRight
          /\ Overview!Existing' = Overview!Existing
      BY <1>2 DEF TotalsRight, Overview!Existing, Overview!MetersAt
    <3>5. RefreshTask(a)'
      <4>1. a.kind # "meters"
        BY <1>1
      <4> QED BY <1>1, <1>2, <3>3, <3>4, <4>1 DEF RefreshTask
    <3> QED BY <1>1, <3>1, <3>2, <3>5, OneRefresh
  <2>2. CASE ~IsRefresh(task[c])
    <3>1. ~IsRefresh(a) /\ task[c].kind # "list"
      BY <1>1, <2>2 DEF IsRefresh
    <3>2. missed' = missed
      BY <1>2, <3>1 DEF Admin!Sent, AdminParts, AdminBase, AdminShown
    <3> QED BY <1>1, <1>2, <2>2, <3>1, <3>2, RefreshStays DEF AdminParts
  <2> QED BY <2>1, <2>2
<1>6. ASSUME ~astray PROVE SelectionInv'
  <2>1. CASE IsDetail(task[c])
    <3>1. /\ DetailTask(task[c]) /\ \A d \in Caller \ {c} : ~IsDetail(task[d])
      BY <1>6, <2>1, DetailIsAlone DEF AdminParts
    <3>2. IsDetail(a) /\ a.kind = "detail"
      BY <1>1, <2>1 DEF IsDetail
    <3>3. a.list = OfUser /\ OfUser' = OfUser /\ DetailTask(a)'
      BY <1>1, <1>2, <3>1, <3>2 DEF OfUser, DetailTask
    <3> QED BY <1>1, <3>1, <3>2, <3>3, OneDetail
  <2>2. CASE ~IsDetail(task[c])
    <3>1. ~IsDetail(a)
      BY <1>1, <2>2 DEF IsDetail
    <3>2. Again(task[c]) => Again(a)
      BY <1>1 DEF Again, IsRefresh
    <3> QED BY <1>1, <1>2, <2>2, <3>1, <3>2, SelectionStays DEF AdminParts
  <2> QED BY <2>1, <2>2
<1>7. RefreshInv' /\ SelectionInv'
  BY <1>2, <1>5, <1>6, AstraySelection, MissedRefresh
<1> QED BY <1>4, <1>7 DEF AdminParts

\* What a refresh asks for next, for the same user.
LEMMA GoesOnIs ==
  ASSUME AdminBase, NEW c \in Caller, IsRefresh(task[c])
  PROVE  task[c].user \in User \cup {None} /\ ~IsDetail(task[c])
BY DEF AdminBase, Overview!Task, IsRefresh, IsDetail

LEMMA TransformersFetchedKeepsParts ==
  ASSUME AdminParts, NEW c \in Caller, Admin!TransformersFetched(c)
  PROVE  AdminParts'
<1> DEFINE q == task[c]
           next == Admin!AskAbout("meters", q.user, None)
<1>1. /\ UNCHANGED <<page, accounts, holder, owner, summary, missed, users>>
      /\ UNCHANGED <<user, detail, points, transformer, astray>>
      /\ q.kind = "list" /\ q.stage = "answered"
      /\ transformers' = q.list /\ metersBy' = [t \in Transformer |-> {}]
      /\ Admin!Do(c, [next EXCEPT !.asked = q.list])
  BY DEF Admin!TransformersFetched, Admin!Answered, Admin!GoesOn, Admin!selection, Admin!rows
<1>2. IsRefresh(q) /\ q.list \in SUBSET Transformer
  BY <1>1 DEF IsRefresh, AdminParts, AdminBase, AdminTask
<1>3. PICK a : /\ TaskStep(c, a) /\ a.kind = "meters" /\ a.stage = "sent" /\ a.user = q.user
               /\ a.list = {} /\ a.asked = q.list
  <2>1. q.user \in User \cup {None} /\ "meters" \in AskingKinds /\ None \in Transformer \cup {None}
    BY <1>2, GoesOnIs DEF AskingKinds, AdminParts
  <2>2. next \in Overview!Task /\ Asks(next, "meters", q.user, None)
    BY <2>1, AdminAskAbout
  <2> HIDE DEF next
  <2>3. PICK a : a = Asking(next, q.list)
    OBVIOUS
  <2>4. /\ a \in Overview!Task /\ a.kind = next.kind /\ a.stage = next.stage /\ a.user = next.user
        /\ a.list = next.list /\ a.asked = q.list
    BY <1>2, <2>2, <2>3, AdminTaskAsked
  <2>5. Overview!Do(c, a)
    BY <1>1, <2>3, AdminSame DEF Asking
  <2>6. TaskStep(c, a)
    BY <2>4, <2>5, OverviewDo DEF TaskStep, AdminParts, AdminBase
  <2> QED BY <2>2, <2>4, <2>6 DEF Asks
<1>4. IsRefresh(a) /\ ~IsDetail(a) /\ ~IsDetail(q) /\ AdminTask(a)
  BY <1>1, <1>3 DEF IsRefresh, IsDetail, AdminTask
<1>5. AdminShown'
  BY <1>1, <1>2 DEF AdminParts, AdminBase, AdminShown
<1>6. AdminBase'
  BY <1>1, <1>3, <1>4, <1>5, AdminTaskKept, AdminRowsStay DEF AdminParts, AdminBase
<1>7. ASSUME ~missed PROVE RefreshInv'
  <2>1. RefreshTask(q) /\ \A d \in Caller \ {c} : ~IsRefresh(task[d])
    BY <1>2, <1>7, RefreshIsAlone DEF AdminParts
  <2>2. q.list = Overview!Existing
    BY <1>1, <2>1 DEF RefreshTask
  <2>3. \A t \in Transformer \ a.asked : metersBy'[t] = Overview!MetersAt(t)
    BY <1>1, <1>3, <2>2, NoMetersElsewhere DEF AdminParts, AdminBase
  <2>4. /\ Overview!Existing' = Overview!Existing
        /\ \A t : Overview!MetersAt(t)' = Overview!MetersAt(t)
    BY <1>1 DEF Overview!Existing, Overview!MetersAt
  <2>5. RefreshTask(a)'
    BY <1>1, <1>3, <2>2, <2>3, <2>4 DEF RefreshTask
  <2> QED BY <1>3, <1>4, <2>1, <2>5, OneRefresh
<1>8. RefreshInv'
  BY <1>1, <1>7, MissedRefresh
<1>9. Again(q) => Again(a)
  BY <1>3, <1>4 DEF Again
<1>10. SelectionInv'
  BY <1>1, <1>3, <1>4, <1>9, SelectionStays DEF AdminParts
<1> QED BY <1>6, <1>8, <1>10 DEF AdminParts

\* StoreMeters and StoreNone.
LEMMA StoreKeepsParts ==
  ASSUME AdminParts, NEW c \in Caller, NEW t \in Transformer,
         Admin!StoreMeters(c, t) \/ Admin!StoreNone(c, t)
  PROVE  AdminParts'
<1> DEFINE q == task[c]
<1>1. /\ UNCHANGED <<page, accounts, holder, owner, summary, users, transformers>>
      /\ UNCHANGED <<user, detail, points, transformer, astray>>
  BY DEF Admin!StoreMeters, Admin!StoreNone, Admin!AnswerMeters, Admin!FailMeters, Admin!selection,
         Admin!rows
<1>2. PICK a : /\ TaskStep(c, a) /\ q.kind = "meters" /\ a.kind = "meters"
               /\ a.stage = q.stage /\ a.user = q.user /\ a.list = q.list
               /\ t \in q.asked /\ a.asked = q.asked \ {t}
  BY AdminMeters DEF Admin!StoreMeters, Admin!StoreNone, AdminParts, AdminBase
<1>3. PICK ms \in SUBSET Counted :
        /\ metersBy' = [metersBy EXCEPT ![t] = ms]
        /\ \/ ms = Overview!MetersAt(t) /\ missed' = missed
           \/ ms = {} /\ missed' = (missed \/ holder[t] # None)
  <2>1. CASE Admin!StoreMeters(c, t)
    <3>1. /\ metersBy' = [metersBy EXCEPT ![t] = Overview!MetersAt(t)] /\ missed' = missed
          /\ Overview!MetersAt(t) \in SUBSET Counted
      BY <2>1, AdminSame DEF Admin!StoreMeters, Admin!AnswerMeters, Overview!MetersAt
    <3> QED BY <3>1
  <2>2. CASE Admin!StoreNone(c, t)
    <3>1. /\ metersBy' = [metersBy EXCEPT ![t] = {}]
          /\ missed' = (missed \/ (holder[t] # None /\ page # "dashboard"))
      BY <2>2 DEF Admin!StoreNone, Admin!FailMeters
    <3>2. page # "dashboard"
      BY DEF AdminParts, AdminBase
    <3>3. missed' = (missed \/ holder[t] # None)
      BY <3>1, <3>2
    <3> QED BY <3>1, <3>3
  <2> QED BY <2>1, <2>2
<1>4. IsRefresh(q) /\ IsRefresh(a) /\ ~IsDetail(a) /\ ~IsDetail(q) /\ AdminTask(a)
  BY <1>2 DEF IsRefresh, IsDetail, AdminTask
<1>5. /\ metersBy' \in [Transformer -> SUBSET Counted] /\ metersBy'[t] = ms
      /\ \A x \in Transformer \ {t} : metersBy'[x] = metersBy[x]
  BY <1>3 DEF AdminParts, AdminBase, AdminShown
<1>6. AdminShown'
  <2>1. missed' \in BOOLEAN
    BY <1>3 DEF AdminParts, AdminBase, AdminShown
  <2> QED BY <1>1, <1>5, <2>1 DEF AdminParts, AdminBase, AdminShown
<1>7. AdminBase'
  BY <1>1, <1>2, <1>4, <1>6, AdminTaskKept, AdminRowsStay DEF AdminParts, AdminBase
<1>8. ASSUME ~missed' PROVE RefreshInv'
  <2>1. ~missed /\ ms = Overview!MetersAt(t)
    <3>1. CASE ms = Overview!MetersAt(t) /\ missed' = missed
      BY <1>8, <3>1
    <3>2. CASE ms = {} /\ missed' = (missed \/ holder[t] # None)
      <4>1. ~missed /\ holder[t] = None
        BY <1>8, <3>2
      <4>2. Overview!MetersAt(t) = {}
        BY <4>1, NoMetersElsewhere DEF Overview!Existing, AdminParts, AdminBase
      <4> QED BY <3>2, <4>1, <4>2
    <3> QED BY <1>3, <3>1, <3>2
  <2>2. RefreshTask(q) /\ \A d \in Caller \ {c} : ~IsRefresh(task[d])
    BY <1>4, <2>1, RefreshIsAlone DEF AdminParts
  <2>3. transformers = Overview!Existing /\ \A x \in Transformer \ q.asked : metersBy[x] = Overview!MetersAt(x)
    BY <1>2, <2>2 DEF RefreshTask
  <2>4. \A x \in Transformer \ a.asked : metersBy'[x] = Overview!MetersAt(x)
    BY <1>2, <1>5, <2>1, <2>3
  <2>5. /\ Overview!Existing' = Overview!Existing
        /\ \A x : Overview!MetersAt(x)' = Overview!MetersAt(x)
    BY <1>1 DEF Overview!Existing, Overview!MetersAt
  <2>6. RefreshTask(a)'
    BY <1>1, <1>2, <2>3, <2>4, <2>5 DEF RefreshTask
  <2> QED BY <1>2, <1>4, <2>2, <2>6, OneRefresh
<1>9. RefreshInv'
  BY <1>8, MissedRefresh
<1>10. Again(q) => Again(a)
  BY <1>2, <1>4 DEF Again
<1>11. SelectionInv'
  BY <1>1, <1>2, <1>4, <1>10, SelectionStays DEF AdminParts
<1> QED BY <1>7, <1>9, <1>11 DEF AdminParts

\* The totals of one refresh are those of what is stored.
LEMMA UpdateStatsKeepsParts ==
  ASSUME AdminParts, NEW c \in Caller, Admin!UpdateStats(c)
  PROVE  AdminParts'
<1> DEFINE q == task[c]
           all == UNION {metersBy[t] : t \in Transformer}
<1>1. /\ UNCHANGED <<page, accounts, holder, owner, missed, users, transformers, metersBy>>
      /\ UNCHANGED <<user, detail, points, transformer, astray>>
      /\ q.kind = "meters" /\ q.asked = {}
      /\ Admin!Do(c, Admin!AskAbout("users", q.user, None))
  BY DEF Admin!UpdateStats, Admin!GoesOn, Admin!own, Admin!lists, Admin!selection, Admin!rows
<1>2. summary' = [transformers |-> Overview!Cardinality(transformers),
                  meters |-> Overview!Cardinality(all)]
  BY AdminSame DEF Admin!UpdateStats
<1>3. IsRefresh(q)
  BY <1>1 DEF IsRefresh
<1>4. PICK a : TaskStep(c, a) /\ Asks(a, "users", q.user, None)
  <2>1. q.user \in User \cup {None} /\ "users" \in AskingKinds /\ None \in Transformer \cup {None}
    BY <1>3, GoesOnIs DEF AskingKinds, AdminParts
  <2> QED BY <1>1, <2>1, AdminAsks DEF AdminParts, AdminBase
<1>5. IsRefresh(a) /\ ~IsDetail(a) /\ ~IsDetail(q) /\ AdminTask(a)
  BY <1>1, <1>4 DEF Asks, IsRefresh, IsDetail, AdminTask
<1>6. all \in SUBSET Counted /\ transformers \in SUBSET Transformer
  BY DEF AdminParts, AdminBase, AdminShown
<1>7. /\ summary' \in Overview!Summary /\ summary'.transformers = Overview!Cardinality(transformers)
      /\ summary'.meters = Overview!Cardinality(all)
  <2> HIDE DEF all
  <2>1. Overview!Cardinality(transformers) \in Overview!Total /\ Overview!Cardinality(all) \in Overview!Total
    BY <1>6, OverviewTotal
  <2> QED BY <1>2, <2>1 DEF Overview!Summary
<1>8. AdminShown'
  BY <1>1, <1>7 DEF AdminParts, AdminBase, AdminShown
<1>9. AdminBase'
  BY <1>1, <1>4, <1>5, <1>8, AdminTaskKept, AdminRowsStay DEF AdminParts, AdminBase
<1>10. ASSUME ~missed PROVE RefreshInv'
  <2>1. RefreshTask(q) /\ \A d \in Caller \ {c} : ~IsRefresh(task[d])
    BY <1>3, <1>10, RefreshIsAlone DEF AdminParts
  <2>2. transformers = Overview!Existing /\ \A t \in Transformer : metersBy[t] = Overview!MetersAt(t)
    BY <1>1, <2>1 DEF RefreshTask
  <2>3. all = UNION {Overview!MetersAt(t) : t \in Overview!Existing}
    <3>1. \A t \in Transformer : t \notin Overview!Existing => Overview!MetersAt(t) = {}
      BY NoMetersElsewhere DEF AdminParts, AdminBase
    <3>2. Overview!Existing \subseteq Transformer
      BY DEF Overview!Existing
    <3> QED BY <2>2, <3>1, <3>2
  <2>4. /\ Overview!Existing' = Overview!Existing
        /\ \A t : Overview!MetersAt(t)' = Overview!MetersAt(t)
    BY <1>1 DEF Overview!Existing, Overview!MetersAt
  <2>5. {Overview!MetersAt(t)' : t \in Overview!Existing'} = {Overview!MetersAt(t) : t \in Overview!Existing}
    BY <2>4
  <2>6. summary' # None
    BY <1>7, PanelAssumption
  <2>7. /\ summary'.transformers = Overview!Cardinality(Overview!Existing')
        /\ summary'.meters = Overview!Cardinality(UNION {Overview!MetersAt(t)' : t \in Overview!Existing'})
    <3> HIDE DEF all
    <3> QED BY <1>7, <2>2, <2>3, <2>4, <2>5
  <2>8. TotalsRight'
    BY <2>6, <2>7 DEF TotalsRight
  <2>9. RefreshTask(a)'
    BY <1>4, <2>8 DEF RefreshTask, Asks
  <2> QED BY <1>4, <1>5, <2>1, <2>9, OneRefresh
<1>11. RefreshInv'
  BY <1>1, <1>10, MissedRefresh
<1>12. Again(q) => Again(a)
  BY <1>4, <1>5 DEF Again, Asks
<1>13. SelectionInv'
  BY <1>1, <1>4, <1>5, <1>12, SelectionStays DEF AdminParts
<1> QED BY <1>9, <1>11, <1>13 DEF AdminParts

\* The last answer of a refresh.
LEMMA RefreshEnds ==
  ASSUME AdminParts, NEW c \in Caller, NEW a, TaskStep(c, a), ~IsRefresh(a),
         task[c].kind = "users", task[c].stage = "answered", users' = task[c].list,
         UNCHANGED <<accounts, holder, owner, summary, missed>>
  PROVE  RefreshInv'
<1>1. CASE missed
  BY <1>1, MissedRefresh
<1>2. CASE ~missed
  <2>1. IsRefresh(task[c])
    BY DEF IsRefresh
  <2>2. /\ TotalsRight /\ users' = accounts
        /\ \A d \in Caller \ {c} : ~IsRefresh(task[d])
    BY <1>2, <2>1, RefreshIsAlone DEF AdminParts, RefreshTask
  <2>3. \A d \in Caller : ~IsRefresh(task'[d])
    BY <2>2 DEF TaskStep
  <2>4. TotalsRight'
    BY <2>2 DEF TotalsRight, Overview!Existing, Overview!MetersAt
  <2>5. \A d \in Caller : RefreshTask(task[d])'
    BY <2>3 DEF IsRefresh, RefreshTask
  <2> QED BY <2>2, <2>3, <2>4, <2>5 DEF RefreshInv, IsRefresh
<1> QED BY <1>1, <1>2

\* With it, the selected user is selected again, or no longer, or stays selected.
LEMMA UsersFetchedKeepsParts ==
  ASSUME AdminParts, NEW c \in Caller, Admin!UsersFetched(c)
  PROVE  AdminParts'
<1> DEFINE q == task[c]
<1>0. PICK u : u = IF user \in q.list THEN user ELSE None
  OBVIOUS
<1>1. /\ UNCHANGED <<page, accounts, holder, owner, summary, missed, transformers, metersBy>>
      /\ q.kind = "users" /\ q.stage = "answered" /\ users' = q.list
      /\ \/ u # None /\ u = q.user /\ Admin!ShowUser(u, c)
         \/ /\ ~(u # None /\ u = q.user) /\ Admin!Done(c) /\ u # user
            /\ user' = None /\ transformer' = None /\ points' = None /\ detail' = {}
            /\ astray' = (astray \/ Admin!Runs(Admin!DetailKinds, c))
         \/ /\ ~(u # None /\ u = q.user) /\ Admin!Done(c) /\ u = user
            /\ UNCHANGED <<user, transformer, detail, points, astray>>
  <2>1. CASE u # None /\ u = q.user
    BY <1>0, <2>1 DEF Admin!UsersFetched, Admin!Answered, Admin!rows
  <2>2. CASE ~(u # None /\ u = q.user) /\ u # user
    BY <1>0, <2>2 DEF Admin!UsersFetched, Admin!Answered, Admin!rows
  <2>3. CASE ~(u # None /\ u = q.user) /\ u = user
    BY <1>0, <2>3 DEF Admin!UsersFetched, Admin!Answered, Admin!rows, Admin!selection
  <2> QED BY <2>1, <2>2, <2>3
<1>2. IsRefresh(q) /\ ~IsDetail(q) /\ q.list \subseteq User
  BY <1>1 DEF IsRefresh, IsDetail, AdminParts, AdminBase, AdminTask
<1>3. CASE u # None /\ u = q.user /\ Admin!ShowUser(u, c)
  <2>1. u \in q.list /\ u \in User
    BY <1>0, <1>2, <1>3
  <2>2. PICK a : TaskStep(c, a) /\ ~IsRefresh(a) /\ AdminTask(a)
    BY <1>3, <2>1, UserIsShown DEF AdminParts
  <2>3. /\ SelectionInv' /\ user' = u /\ transformer' = None /\ points' = None /\ astray' \in BOOLEAN
        /\ detail' = detail
    BY <1>3, <2>1, UserIsShown DEF AdminParts
  <2>4. AdminShown'
    BY <1>1, <1>2, <2>1, <2>3 DEF AdminParts, AdminBase, AdminShown
  <2>5. AdminBase'
    BY <1>1, <2>2, <2>4, AdminTaskKept, AdminRowsStay DEF AdminParts, AdminBase
  <2>6. RefreshInv'
    BY <1>1, <2>2, RefreshEnds
  <2> QED BY <2>3, <2>5, <2>6 DEF AdminParts
<1>4. CASE /\ Admin!Done(c) /\ u # user
           /\ user' = None /\ transformer' = None /\ points' = None /\ detail' = {}
           /\ astray' = (astray \/ Admin!Runs(Admin!DetailKinds, c))
  <2>1. PICK a : TaskStep(c, a) /\ a.kind = "none" /\ AdminTask(a)
    BY <1>4, AdminDone DEF AdminParts, AdminBase
  <2>2. ~IsRefresh(a) /\ ~IsDetail(a)
    BY <2>1 DEF IsRefresh, IsDetail
  <2>3. AdminShown'
    <3>1. Admin!Runs(Admin!DetailKinds, c) \in BOOLEAN
      BY DEF Admin!Runs
    <3>2. astray' \in BOOLEAN
      BY <1>4, <3>1
    <3> QED BY <1>1, <1>2, <1>4, <3>2 DEF AdminParts, AdminBase, AdminShown
  <2>4. AdminBase'
    BY <1>1, <2>1, <2>3, AdminTaskKept, AdminRowsStay DEF AdminParts, AdminBase
  <2>5. RefreshInv'
    BY <1>1, <2>1, <2>2, RefreshEnds
  <2>6. ASSUME ~astray' PROVE SelectionInv'
    <3>1. ~Admin!Runs(Admin!DetailKinds, c)
      BY <1>4, <2>6
    <3>2. \A d \in Caller \ {c} : ~IsDetail(task[d])
      BY <3>1, RunsIs
    <3>3. OfUser' = {} /\ points' \in {transformer', None} /\ detail' = OfUser'
      BY <1>4 DEF OfUser
    <3> QED BY <2>1, <2>2, <3>2, <3>3, NoDetail
  <2> QED BY <2>4, <2>5, <2>6, AstraySelection DEF AdminParts
<1>5. CASE /\ ~(u # None /\ u = q.user) /\ Admin!Done(c) /\ u = user
           /\ UNCHANGED <<user, transformer, detail, points, astray>>
  <2>1. PICK a : TaskStep(c, a) /\ a.kind = "none" /\ AdminTask(a)
    BY <1>5, AdminDone DEF AdminParts, AdminBase
  <2>2. ~IsRefresh(a) /\ ~IsDetail(a)
    BY <2>1 DEF IsRefresh, IsDetail
  <2>3. user \in q.list \/ user = None
    BY <1>0, <1>5
  <2>4. AdminShown'
    BY <1>1, <1>2, <1>5, <2>3 DEF AdminParts, AdminBase, AdminShown
  <2>5. AdminBase'
    BY <1>1, <2>1, <2>4, AdminTaskKept, AdminRowsStay DEF AdminParts, AdminBase
  <2>6. RefreshInv'
    BY <1>1, <2>1, <2>2, RefreshEnds
  <2>7. ~Again(q)
    BY <1>1, <1>5, <2>3 DEF Again
  <2>8. SelectionInv'
    BY <1>1, <1>2, <1>5, <2>1, <2>2, <2>7, SelectionStays DEF AdminParts
  <2> QED BY <2>5, <2>6, <2>8 DEF AdminParts
<1> QED BY <1>1, <1>3, <1>4, <1>5

-----------------------------------------------------------------------------
(***************************************************************************)
(* admin.js: its inductive invariant.                                      *)
(***************************************************************************)

LEMMA AdminBegins ==
  ASSUME Admin!Init
  PROVE  OnAdmin /\ Admin!AdminInv
<1>1. /\ page = "admin" /\ summary = None /\ missed = TRUE /\ users = {} /\ transformers = {}
      /\ user = None /\ transformer = None /\ detail = {} /\ points = None /\ astray = FALSE
      /\ metersBy = [t \in Transformer |-> {}]
  BY DEF Admin!Init, Admin!RowsInit
<1>2. AdminRows
  BY AdminSame DEF Admin!Init, Admin!RowsInit, AdminRows
<1>3. AdminShown
  BY <1>1 DEF AdminShown
<1>4. PICK c \in Caller : task = [d \in Caller |-> IF d = c THEN Admin!Ask("list") ELSE Admin!NoTask]
  BY DEF Admin!Init
<1>5. /\ Admin!Ask("list") \in Overview!Task /\ Admin!Ask("list").kind = "list"
      /\ Admin!Ask("list").stage = "sent" /\ Admin!Ask("list").list = {}
  BY DEF Admin!Ask, Admin!NoTask, Overview!Task, Overview!Reading
<1>6. Admin!NoTask \in Overview!Task /\ Admin!NoTask.kind = "none"
  BY AdminSame, OverviewNoTask
<1>7. task \in [Caller -> Overview!Task] /\ \A d \in Caller : task[d].kind \in {"none", "list"} /\ AdminTask(task[d])
  BY <1>4, <1>5, <1>6 DEF AdminTask
<1>8. AdminBase
  BY <1>1, <1>2, <1>3, <1>7 DEF AdminBase
<1>9. RefreshInv
  BY <1>1 DEF RefreshInv
<1>10. \A d \in Caller : ~IsDetail(task[d]) /\ DetailTask(task[d]) /\ task[d].kind # "detail"
  BY <1>7 DEF IsDetail, DetailTask
<1>11. SelectionInv
  BY <1>1, <1>10 DEF SelectionInv, OfUser
<1> QED BY <1>8, <1>9, <1>11, AdminInvIs DEF AdminParts

\* The same of the state after a step.
LEMMA AdminInvThen ==
  ASSUME AdminParts'
  PROVE  OnAdmin' /\ Admin!AdminInv'
<1>1. (Admin!TypeOK /\ Admin!SelectedIsListed /\ Admin!TasksInOrder /\ OnAdmin)'
  <2>1. Admin!TasksInOrder'
    BY DEF AdminParts, AdminBase, Admin!TasksInOrder, AdminTask, Admin!RefreshKinds, Admin!DetailKinds
  <2>2. Admin!Task = Overview!Task /\ Admin!Summary = Overview!Summary /\ Admin!Existing' = Overview!Existing'
    BY AdminSame DEF Admin!Existing, Overview!Existing
  <2>3. Admin!RowsOK'
    BY <2>2 DEF AdminParts, AdminBase, Admin!RowsOK, AdminRows, AdminShown, Overview!Existing
  <2> QED BY <2>1, <2>3 DEF AdminParts, AdminBase, AdminShown, Admin!TypeOK, Admin!SelectedIsListed, OnAdmin
<1>2. Admin!RefreshBecomesStored'
  <2>1. /\ Admin!Existing' = Overview!Existing' /\ \A t : Admin!MetersAt(t)' = Overview!MetersAt(t)'
        /\ \A S : Admin!Cardinality(S) = Overview!Cardinality(S)
    BY AdminSame DEF Admin!Existing, Overview!Existing, Admin!MetersAt, Overview!MetersAt
  <2>2. Admin!TotalsAreRight' <=> TotalsRight'
    BY <2>1 DEF Admin!TotalsAreRight, TotalsRight
  <2>3. RefreshInv'
    BY DEF AdminParts
  <2> QED BY <2>1, <2>2, <2>3 DEF Admin!RefreshBecomesStored, RefreshInv, RefreshTask, IsRefresh,
             Admin!Runs, Admin!RefreshKinds, Admin!Answered
<1>3. Admin!SelectionIsLoaded'
  BY DEF AdminParts, Admin!SelectionIsLoaded, SelectionInv, DetailTask, IsDetail, Admin!Runs,
     Admin!DetailKinds, Admin!Answered, Admin!Reselects, Again, IsRefresh, Admin!RefreshKinds,
     Admin!OfSelected, OfUser
<1> QED BY <1>1, <1>2, <1>3 DEF Admin!AdminInv

LEMMA AdminStep ==
  ASSUME OnAdmin, Admin!AdminInv, Admin!Next
  PROVE  OnAdmin' /\ Admin!AdminInv' /\ page' = page
<1>1. AdminParts
  BY AdminInvIs
<1>2. AdminParts'
  <2>1. ASSUME NEW c \in Caller, Admin!Lists(c) PROVE AdminParts'
    BY <1>1, <2>1, AnswerKeepsParts, TransformersFetchedKeepsParts, UpdateStatsKeepsParts,
       UsersFetchedKeepsParts, RefreshFailsKeepsParts, StoreKeepsParts, DeleteKeepsParts,
       UserDataDeletedKeepsParts DEF Admin!Lists
  <2>2. ASSUME NEW c \in Caller, Admin!Selection(c) PROVE AdminParts'
    BY <1>1, <2>2, UserTransformersFetchedKeepsParts, DetailFailsKeepsParts, LoadedKeepsParts,
       LoadKeepsParts, SelectUserKeepsParts DEF Admin!Selection
  <2> QED BY <1>1, <2>1, <2>2, ElsewhereKeepsParts DEF Admin!Next
<1>3. page' = page
  BY <1>1, <1>2 DEF AdminParts, AdminBase
<1> QED BY <1>2, <1>3, AdminInvThen

LEMMA AdminStands ==
  ASSUME OnAdmin, Admin!AdminInv, UNCHANGED Admin!vars
  PROVE  OnAdmin' /\ Admin!AdminInv'
<1>1. AdminParts
  BY AdminInvIs
<1>2. /\ UNCHANGED <<page, accounts, holder, owner, used, task, summary, missed>>
      /\ UNCHANGED <<users, transformers, metersBy, user, transformer, detail, points, astray>>
  BY DEF Admin!vars, Admin!rows, Admin!own, Admin!lists, Admin!selection
<1>3. AdminBase'
  BY <1>1, <1>2 DEF AdminParts, AdminBase, AdminRows, AdminShown, AdminTask, Overview!Existing
<1>4. RefreshInv'
  <2>1. /\ Overview!Existing' = Overview!Existing /\ \A t : Overview!MetersAt(t)' = Overview!MetersAt(t)
        /\ TotalsRight' <=> TotalsRight
    BY <1>2 DEF Overview!Existing, Overview!MetersAt, TotalsRight
  <2>2. \A c \in Caller : RefreshTask(task[c]) => RefreshTask(task[c])'
    BY <1>2, <2>1 DEF RefreshTask
  <2> QED BY <1>1, <1>2, <2>1, <2>2 DEF AdminParts, RefreshInv, IsRefresh
<1>5. SelectionInv'
  BY <1>1, <1>2 DEF AdminParts, SelectionInv, IsDetail, DetailTask, Again, IsRefresh, OfUser
<1> QED BY <1>3, <1>4, <1>5, AdminInvThen DEF AdminParts

\* A page that waits for nothing has no refresh, and no task that loads the selection.
LEMMA AdminQuiet ==
  ASSUME OnAdmin, Admin!AdminInv
  PROVE  Admin!AdminTotalsAreCurrent /\ Admin!DetailIsOfSelection
<1>1. AdminParts
  BY AdminInvIs
<1>2. ASSUME Admin!Quiet, ~missed
      PROVE  TotalsRight /\ users = accounts
  BY <1>1, <1>2 DEF AdminParts, RefreshInv, IsRefresh, Admin!Quiet, Admin!Idle
<1>3. Admin!AdminTotalsAreCurrent
  BY <1>2, AdminSame DEF TotalsRight, Admin!AdminTotalsAreCurrent
<1>4. ASSUME Admin!Quiet, ~astray
      PROVE  points \in {transformer, None} /\ detail = OfUser
  BY <1>1, <1>4 DEF AdminParts, SelectionInv, IsDetail, Again, IsRefresh, Admin!Quiet, Admin!Idle
<1>5. Admin!DetailIsOfSelection
  BY <1>4 DEF Admin!DetailIsOfSelection, OfUser
<1> QED BY <1>3, <1>5

-----------------------------------------------------------------------------
(***************************************************************************)
(* The panel.                                                              *)
(***************************************************************************)

LEMMA PagesApart ==
  /\ OnSetup => ~OnOverview /\ ~OnAdmin
  /\ OnOverview => ~OnSetup /\ ~OnAdmin
  /\ OnAdmin => ~OnSetup /\ ~OnOverview
BY DEF OnSetup, OnOverview, OnAdmin

LEMMA PanelBegins ==
  ASSUME PanelInit
  PROVE  PagesInv
<1>1. CASE Init
  <2>1. SetupParts /\ OnSetup
    BY <1>1, SetupBegins DEF Init, OnSetup
  <2> QED BY <2>1, PagesApart DEF PagesInv, SetupInv, SetupParts
<1>2. CASE Overview!Init
  BY <1>2, OverviewBegin, PagesApart DEF PagesInv, SetupInv
<1>3. CASE Admin!Init
  BY <1>3, AdminBegins, PagesApart DEF PagesInv, SetupInv
<1> QED BY <1>1, <1>2, <1>3 DEF PanelInit

\* Each page steps alone, and stays open.
LEMMA PanelStep ==
  ASSUME PagesInv, [PanelNext]_panelVars
  PROVE  PagesInv' /\ page' = page
<1>1. CASE OnSetup /\ Next
  <2>1. SetupParts' /\ page' = page
    BY <1>1, SetupStep DEF PagesInv, SetupInv, SetupParts
  <2> QED BY <1>1, <2>1 DEF PagesInv, SetupInv, SetupParts, OnSetup, OnOverview, OnAdmin
<1>2. CASE OnOverview /\ Overview!Next
  <2>1. Overview!OverviewInv' /\ page' = page
    BY <1>2, OverviewStep DEF PagesInv
  <2> QED BY <1>2, <2>1 DEF PagesInv, SetupInv, OnSetup, OnOverview, OnAdmin
<1>3. CASE OnAdmin /\ Admin!Next
  <2>1. Admin!AdminInv' /\ page' = page
    BY <1>3, AdminStep DEF PagesInv
  <2> QED BY <1>3, <2>1 DEF PagesInv, SetupInv, OnSetup, OnOverview, OnAdmin
<1>4. CASE UNCHANGED panelVars
  <2>1. UNCHANGED vars /\ UNCHANGED Overview!vars /\ UNCHANGED Admin!vars /\ page' = page
    BY <1>4 DEF panelVars, installations_, overview_, admin_, vars, rows, shown, auxiliary,
       Overview!vars, Overview!rows, Overview!page_, Admin!vars, Admin!rows, Admin!own, Admin!lists,
       Admin!selection
  <2>2. CASE OnSetup
    <3>1. SetupParts'
      BY <2>1, <2>2, SetupStands DEF PagesInv, SetupInv, SetupParts
    <3> QED BY <2>1, <2>2, <3>1 DEF PagesInv, SetupInv, SetupParts, OnSetup, OnOverview, OnAdmin
  <2>3. CASE OnOverview
    <3>1. Overview!OverviewInv'
      BY <2>1, <2>3, OverviewStands DEF PagesInv
    <3> QED BY <2>1, <2>3, <3>1 DEF PagesInv, SetupInv, OnSetup, OnOverview, OnAdmin
  <2>4. CASE OnAdmin
    <3>1. Admin!AdminInv'
      BY <2>1, <2>4, AdminStands DEF PagesInv
    <3> QED BY <2>1, <2>4, <3>1 DEF PagesInv, SetupInv, OnSetup, OnOverview, OnAdmin
  <2>5. CASE ~OnSetup /\ ~OnOverview /\ ~OnAdmin
    BY <2>1, <2>5 DEF PagesInv, SetupInv, OnSetup, OnOverview, OnAdmin
  <2> QED BY <2>1, <2>2, <2>3, <2>4, <2>5
<1> QED BY <1>1, <1>2, <1>3, <1>4 DEF PanelNext

\* The inductive invariant of all five pages: among others, what their buttons rely on stays
\* true in every order of answers, edits and writes of others.
THEOREM PagesInvariant == PanelSpec => []PagesInv
<1>1. PanelInit => PagesInv
  BY PanelBegins
<1>2. PagesInv /\ [PanelNext]_panelVars => PagesInv'
  BY PanelStep
<1> QED BY <1>1, <1>2, PTL DEF PanelSpec

\* A page of meters or registers that waits for nothing shows what is stored (meters.js,
\* registers.js).
THEOREM QuietListsCurrent == PanelSpec => []QuietListsAreCurrent
<1>1. PagesInv => QuietListsAreCurrent
  BY SetupQuiet DEF PagesInv, SetupInv, SetupParts, QuietListsAreCurrent
<1> QED BY <1>1, PagesInvariant, PTL

\* The list that transformers.js edits itself becomes what is stored, with its counts and
\* the selection.
THEOREM TransformersCurrent == PanelSpec => []TransformersAreCurrent
<1>1. PagesInv => TransformersAreCurrent
  BY OverviewQuiet DEF PagesInv, TransformersAreCurrent
<1> QED BY <1>1, PagesInvariant, PTL

\* The totals of dashboard.js and admin.js are those of what is stored, or a dash.
THEOREM TotalsCurrent == PanelSpec => []TotalsAreCurrent
<1>1. PagesInv => TotalsAreCurrent
  BY OverviewQuiet, AdminQuiet DEF PagesInv, TotalsAreCurrent
<1> QED BY <1>1, PagesInvariant, PTL

\* The administrator's page shows nothing of another user or transformer than the selected
\* ones, also after users and their data have been deleted (admin.js).
THEOREM DetailOfSelection == PanelSpec => []DetailIsOfSelection
<1>1. PagesInv => DetailIsOfSelection
  BY AdminQuiet DEF PagesInv, DetailIsOfSelection
<1> QED BY <1>1, PagesInvariant, PTL

\* Whatever list is on the screen, deleting from it removes no register that is not below
\* the selection of that click (meters.js, registers.js, and their routes).
THEOREM DeletesBelowSelection == PanelSpec => DeletesStayBelowSelection
<1> DEFINE Below ==
      OnSetup =>
        \A r \in RegisterId :
          meterOf[r] # None /\ meterOf'[r] # meterOf[r] =>
            \E c \in Caller :
              \/ RemoveRegister(c) /\ call[c].meter = meterOf[r]
              \/ RemoveMeter(c) /\ call[c].transformer = owner[meterOf[r]]
<1>1. PagesInv /\ [PanelNext]_panelVars => [Below]_vars
  <2> SUFFICES ASSUME PagesInv, [PanelNext]_panelVars, OnSetup,
                      NEW r \in RegisterId, meterOf[r] # None, meterOf'[r] # meterOf[r]
               PROVE  \E c \in Caller :
                        \/ RemoveRegister(c) /\ call[c].meter = meterOf[r]
                        \/ RemoveMeter(c) /\ call[c].transformer = owner[meterOf[r]]
    OBVIOUS
  <2>1. SetupParts
    BY DEF PagesInv, SetupInv, SetupParts
  <2>2. Next
    BY PagesApart DEF PanelNext, panelVars, vars, rows
  <2> QED BY <2>1, <2>2, DeletesBelow
<1> HIDE DEF Below
<1>2. PanelSpec => [][Below]_vars
  BY <1>1, PagesInvariant, PTL DEF PanelSpec
<1> QED BY <1>2 DEF Below, DeletesStayBelowSelection
=============================================================================
