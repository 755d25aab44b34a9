----------------------------- MODULE PanelPages -----------------------------
(***************************************************************************)
(* A tab of the panel, in which one of its pages with lists is open:       *)
(* meters, registers (SetupPages), transformers, the dashboard             *)
(* (TransformersPage) or the administrator's (AdminPage).  Each is an HTML *)
(* file with its own scripts, so that nothing of one page lives on in the  *)
(* next but what is in the database and in the storage; a tab is followed  *)
(* from the opening of its page on.                                        *)
(***************************************************************************)
EXTENDS SetupPages

CONSTANTS
  User,
  Counted   \* the meters where they are only counted

VARIABLES
  accounts, holder, task, summary,                    \* of Installations
  listing, counts, ahead,                             \* of TransformersPage
  users, transformers, metersBy, user, transformer,   \* of AdminPage
  detail, points, astray

Overview == INSTANCE TransformersPage WITH MeterId <- Counted
Admin == INSTANCE AdminPage WITH MeterId <- Counted

ASSUME PanelAssumption ==
  /\ None \notin User \cup Transformer \cup Counted \cup Caller \cup Overview!Summary
  /\ IsFiniteSet(Transformer) /\ IsFiniteSet(Counted)

setup_ == <<meterOf, columns, meters, meter, registers, call>>
installations_ == <<accounts, holder, task, summary>>
overview_ == <<listing, counts, ahead>>
admin_ == <<users, transformers, metersBy, user, transformer, detail, points, astray>>
panelVars == <<vars, installations_, overview_, admin_>>

\* Where another page is open, the variables of these modules stand still.
NoSetup ==
  /\ meterOf = None /\ columns = None /\ meters = None
  /\ meter = None /\ registers = None /\ call = None

NoInstallations == accounts = None /\ holder = None /\ task = None /\ summary = None

NoOverview == listing = None /\ counts = None /\ ahead = None

NoAdmin ==
  /\ users = None /\ transformers = None /\ metersBy = None
  /\ user = None /\ transformer = None /\ detail = None /\ points = None
  /\ astray = None

PanelInit ==
  \/ Init /\ NoInstallations /\ NoOverview /\ NoAdmin
  \/ Overview!Init /\ NoSetup /\ NoAdmin
  \/ Admin!Init /\ NoSetup /\ NoOverview /\ selected = None /\ newest = None

OnOverview == page \in {"transformers", "dashboard"}
OnAdmin == page = "admin"

PanelNext ==
  \/ OnSetup /\ Next /\ UNCHANGED <<installations_, overview_, admin_>>
  \/ OnOverview /\ Overview!Next /\ UNCHANGED <<setup_, admin_>>
  \/ OnAdmin /\ Admin!Next /\ UNCHANGED <<setup_, overview_, selected, newest>>

PanelSpec == PanelInit /\ [][PanelNext]_panelVars

(***************************************************************************)
(* Properties, each of the pages it is about.                              *)
(***************************************************************************)

\* What the buttons of the pages rely on: the selected meter and the selected user are in
\* the lists they are selected from, although lists come late and rows vanish; and what
\* the register routes rely on (SetupInv).
PagesInv ==
  /\ SetupInv
  /\ OnOverview => Overview!OverviewInv
  /\ OnAdmin => Admin!AdminInv

\* A quiet page of transformers shows each of them once, with its count, although it edits
\* its list itself (TransformersPage).
TransformersAreCurrent == OnOverview => Overview!TransformersAreCurrent

\* The totals of the dashboard and of the administrator are those of what is stored, or a
\* dash (TransformersPage, AdminPage).
TotalsAreCurrent ==
  /\ OnOverview => Overview!TotalsAreComplete
  /\ OnAdmin => Admin!AdminTotalsAreCurrent

\* Nothing of another user or transformer stays beside the administrator's selection
\* (AdminPage).
DetailIsOfSelection == OnAdmin => Admin!DetailIsOfSelection
=============================================================================
