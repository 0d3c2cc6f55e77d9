------------------------------- MODULE MCServices -------------------------------
(***************************************************************************)
(* Five parts of Aegis that share no state, for TLC: the keys and tokens,  *)
(* the sign-in limiter, the calendar, the alerts and the writers of the    *)
(* ledger.  A behaviour chooses one of them and runs it; the others stay as *)
(* they start, so that the states add up and do not multiply.              *)
(*                                                                         *)
(* Writers append with the advisory lock (PostgreSQL) and without it: then *)
(* Unlocked relies on the unique constraint and the retries alone.         *)
(***************************************************************************)
EXTENDS Services, LedgerAppend

CONSTANT TwoAtOnce   \* the two slots for requests, attempts, bookings, passes or
                     \* transactions at once

VARIABLES
  part,        \* which part runs; chosen once
  advisory     \* whether lock_tenant takes the lock; chosen once

Unlocked == INSTANCE LedgerAppend WITH Advisory <- FALSE

servicesVars == <<keysVars, limiterVars, calendarVars, alertVars, ledgerVars, part, advisory>>

TheConditions == <<"drift">>

\* An earlier alert that was tried once and not delivered: what it becomes is the other
\* rows a table can hold.
EarlierAlert == { [key |-> "drift", attempts |-> 1, delivered |-> FALSE] }

MCInit ==
  /\ part \in {"keys", "limiter", "calendar", "alerts", "ledger"}
  /\ KeysInit /\ LimiterInit /\ CalendarInit /\ AlertInit /\ LedgerInit
  /\ advisory \in BOOLEAN /\ (part = "ledger" \/ advisory)
  /\ IF part = "alerts" THEN ToSet(alerts) \subseteq EarlierAlert ELSE alerts = << >>

KeysStill == UNCHANGED keysVars
LimiterStill == UNCHANGED limiterVars
CalendarStill == UNCHANGED calendarVars
AlertsStill == UNCHANGED alertVars
LedgerStill == UNCHANGED ledgerVars

MCNext ==
  /\ UNCHANGED <<part, advisory>>
  /\ \/ part = "keys" /\ KeysNext /\ LimiterStill /\ CalendarStill /\ AlertsStill /\ LedgerStill
     \/ part = "limiter" /\ LimiterNext /\ KeysStill /\ CalendarStill /\ AlertsStill /\ LedgerStill
     \/ part = "calendar" /\ CalendarNext /\ KeysStill /\ LimiterStill /\ AlertsStill /\ LedgerStill
     \/ part = "alerts" /\ AlertNext /\ KeysStill /\ LimiterStill /\ CalendarStill /\ LedgerStill
     \/ /\ part = "ledger" /\ IF advisory THEN LedgerNext ELSE Unlocked!LedgerNext
        /\ KeysStill /\ LimiterStill /\ CalendarStill /\ AlertsStill

\* The fairness of the parts; a slot takes steps of the part that runs and no other.
ProceedPart(p) ==
  \/ part = "keys" /\ ProceedKeys(p) /\ LimiterStill /\ CalendarStill /\ AlertsStill /\ LedgerStill
  \/ /\ part = "limiter" /\ (Succeed(p) \/ RecordFailure(p) \/ Answer429(p))
     /\ KeysStill /\ CalendarStill /\ AlertsStill /\ LedgerStill
  \/ part = "calendar" /\ ProceedBooking(p) /\ KeysStill /\ LimiterStill /\ AlertsStill /\ LedgerStill
  \/ part = "alerts" /\ ProceedPass(p) /\ KeysStill /\ LimiterStill /\ CalendarStill /\ LedgerStill
  \/ /\ part = "ledger" /\ IF advisory THEN Proceed(p) ELSE Unlocked!Proceed(p)
     /\ KeysStill /\ LimiterStill /\ CalendarStill /\ AlertsStill

MCSpec ==
  /\ MCInit /\ [][MCNext]_servicesVars
  /\ \A p \in TwoAtOnce : SF_servicesVars(ProceedPart(p) /\ UNCHANGED <<part, advisory>>)
  /\ WF_servicesVars(/\ part = "limiter" /\ Later
                     /\ KeysStill /\ CalendarStill /\ AlertsStill /\ LedgerStill
                     /\ UNCHANGED <<part, advisory>>)

-----------------------------------------------------------------------------
\* Whatever is begun in a service ends: transactions on the ledger and on keys, a lockout,
\* a booking, and the queue of alerts, which takes up every condition that stays bad.
ServicesEnd ==
  /\ TransactionsEnd /\ KeyRequestsEnd /\ LockoutEnds /\ BookingsEnd /\ BadIsQueued
  /\ QueuedEnds

=============================================================================
