---------------------------- MODULE MetricsAccess ----------------------------
(***************************************************************************)
(* One metrics WebSocket and the right to use it, in time: the deadline    *)
(* for the first frame, the check before the subscription, the check       *)
(* before every frame, and the job that checks again at the latest after   *)
(* Period and when the access token expires.                               *)
(*                                                                         *)
(* A tick is an arbitrary unit.  Timers are assumed to fire within the     *)
(* tick they are due in: time does not pass a due timer.  The right is     *)
(* what allowed() reads: the account exists, the transformer exists, and   *)
(* the account owns it or is an administrator.                             *)
(***************************************************************************)
EXTENDS Naturals

CONSTANTS
  AuthTimeout,  \* for the first frame, 5 seconds
  Period,       \* of the authorization check, 30 seconds
  TokenLife,    \* of an access token, 15 minutes
  MaxClock      \* bound of the model

ASSUME AccessAssumption ==
  /\ AuthTimeout \in Nat /\ TokenLife \in Nat /\ MaxClock \in Nat
  /\ Period \in Nat \ {0}

VARIABLES
  clock,
  expiresAt,   \* of the token the client presents
  right,       \* what the database says
  revokedAt,   \* auxiliary: when the right was last taken away
  phase,       \* connecting, subscribed, closed
  nextCheck,   \* when the authorization job wakes up
  frame,       \* the frame being handled: none, received, permitted
  barred       \* auxiliary: there was no access since that frame arrived

accessVars == <<clock, expiresAt, right, revokedAt, phase, nextCheck, frame, barred>>

AccessType ==
  /\ clock \in 0 .. MaxClock
  /\ expiresAt \in 0 .. TokenLife
  /\ right \in BOOLEAN
  /\ revokedAt \in 0 .. MaxClock
  /\ phase \in {"connecting", "subscribed", "closed"}
  /\ nextCheck \in 0 .. MaxClock + Period
  /\ frame \in {"none", "received", "permitted"}
  /\ barred \in BOOLEAN
  /\ phase = "subscribed" => nextCheck \in clock .. clock + Period

Allowed == right /\ clock < expiresAt

\* Mutant: the job sleeps a whole period even if the token expires before.
CheckAfterPeriod == clock + Period

\* delay(min(Period, time to expiry, at least one tick)).
CheckTime ==
  LET left == IF expiresAt <= clock THEN 1 ELSE expiresAt - clock IN
  clock + IF left < Period THEN left ELSE Period

Tick ==
  /\ clock < MaxClock
  /\ phase = "subscribed" => clock < nextCheck
  /\ phase = "connecting" => clock < AuthTimeout
  /\ clock' = clock + 1
  /\ UNCHANGED <<expiresAt, right, revokedAt, phase, nextCheck, frame, barred>>

Revoke ==
  /\ right
  /\ right' = FALSE /\ revokedAt' = clock
  /\ UNCHANGED <<clock, expiresAt, phase, nextCheck, frame, barred>>

\* An administrator may give a role back; a deleted row does not come back.
Grant ==
  /\ ~right
  /\ right' = TRUE
  /\ barred' = (barred /\ clock >= expiresAt)
  /\ UNCHANGED <<clock, expiresAt, revokedAt, phase, nextCheck, frame>>

\* A token in the header, the query or the first frame, and the first allowed().
Admit ==
  /\ phase = "connecting" /\ Allowed
  /\ phase' = "subscribed"
  /\ nextCheck' = CheckTime
  /\ UNCHANGED <<clock, expiresAt, right, revokedAt, frame, barred>>

Reject ==
  /\ phase = "connecting"
  /\ ~Allowed \/ clock = AuthTimeout
  /\ phase' = "closed"
  /\ UNCHANGED <<clock, expiresAt, right, revokedAt, nextCheck, frame, barred>>

AuthorizationCheck ==
  /\ phase = "subscribed" /\ clock = nextCheck
  /\ IF Allowed THEN nextCheck' = CheckTime /\ UNCHANGED phase
                ELSE phase' = "closed" /\ UNCHANGED nextCheck
  /\ UNCHANGED <<clock, expiresAt, right, revokedAt, frame, barred>>

FrameArrives ==
  /\ phase = "subscribed" /\ frame = "none"
  /\ frame' = "received"
  /\ barred' = ~Allowed
  /\ UNCHANGED <<clock, expiresAt, right, revokedAt, phase, nextCheck>>

\* Mutant: the frame is not checked, the job will notice.
FrameUnchecked ==
  /\ frame = "received"
  /\ frame' = "permitted"
  /\ UNCHANGED <<clock, expiresAt, right, revokedAt, phase, nextCheck, barred>>

FrameCheck ==
  /\ frame = "received"
  /\ IF Allowed THEN frame' = "permitted" /\ UNCHANGED <<phase, barred>>
                ELSE frame' = "none" /\ phase' = "closed" /\ barred' = FALSE
  /\ UNCHANGED <<clock, expiresAt, right, revokedAt, nextCheck>>

\* The reading is stored and broadcast, or answered with an error frame.
FrameHandled ==
  /\ frame = "permitted"
  /\ frame' = "none" /\ barred' = FALSE
  /\ UNCHANGED <<clock, expiresAt, right, revokedAt, phase, nextCheck>>

\* The client leaves, is too slow, or the connection fails.
Disconnect ==
  /\ phase = "subscribed"
  /\ phase' = "closed"
  /\ UNCHANGED <<clock, expiresAt, right, revokedAt, nextCheck, frame, barred>>

AccessInit ==
  /\ clock = 0
  /\ expiresAt \in 0 .. TokenLife
  /\ right \in BOOLEAN
  /\ revokedAt = 0
  /\ phase = "connecting"
  /\ nextCheck = 0
  /\ frame = "none" /\ barred = FALSE

AccessNext ==
  \/ Tick \/ Revoke \/ Grant
  \/ Admit \/ Reject \/ AuthorizationCheck
  \/ FrameArrives \/ FrameCheck \/ FrameHandled \/ Disconnect

AccessSpec == AccessInit /\ [][AccessNext]_accessVars

(***************************************************************************)
(* Properties.                                                             *)
(***************************************************************************)

\* "WebSocket checks the role before a write and periodically at most every 30 seconds;
\* it closes the connection when the JWT expires": no socket stays open past the token's
\* expiry, nor longer than Period after the right was taken away for good.
AccessEndsInTime ==
  phase = "subscribed" =>
    /\ clock <= expiresAt
    /\ right \/ clock <= revokedAt + Period

\* The next check of an open socket comes before the token expires, and no later than
\* Period after the right was taken away: which is why access ends in time.
CheckComesInTime ==
  phase = "subscribed" =>
    /\ nextCheck <= expiresAt
    /\ right \/ nextCheck <= revokedAt + Period

\* A frame that is barred waits for its check, and there is no access yet.
BarredFramesWait == barred => frame = "received" /\ ~Allowed

\* The inductive invariant: the types, what it is for (AccessEndsInTime), and the two
\* reasons for it and for FramesNeedAccess.
AccessInv == AccessType /\ AccessEndsInTime /\ CheckComesInTime /\ BarredFramesWait

\* A frame that arrived when there was no access, and none since, is not stored, also
\* while the socket is still open because the job has not woken up yet.
FramesNeedAccess == frame = "permitted" => ~barred
=============================================================================
