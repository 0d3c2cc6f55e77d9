-------------------------------- MODULE Services --------------------------------
(***************************************************************************)
(* Four services of Aegis that share no state: the keys and tokens, the    *)
(* sign-in limiter, the calendar and the alerts.  What two of them promise *)
(* in the same words is stated here once.                                  *)
(***************************************************************************)
EXTENDS AccessKeys, SignInLimiter, CalendarBooking, AlertOutbox

\* What is final stays so, whoever writes from what was read before: a revocation, the stamp
\* of a delivered alert, and that it is not sent again.
NothingIsTakenBack ==
  /\ RevokedStaysRevoked /\ StampedStaysStamped /\ SerialStampedIsFinal

\* A service refuses for its reason only: a client for its failures, a meeting for a clash.
RefusedForAReason ==
  /\ RefusedForFailures /\ RefusedForAClash
=============================================================================
