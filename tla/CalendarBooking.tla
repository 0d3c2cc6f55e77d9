---------------------------- MODULE CalendarBooking ----------------------------
(***************************************************************************)
(* PersistentCalendar (aegis/integrations/calendar.py): bookings of        *)
(* interviews and check-ins by concurrent requests of one tenant.  A       *)
(* booking takes the tenant's advisory lock, which it keeps until its      *)
(* transaction ends, looks at the committed slots of every attendee, and   *)
(* inserts one row for each.  A clash is an answer, not an error: the      *)
(* request goes on and commits without the rows.                           *)
(* Left out: what CalendarTool.execute refuses before it books (no         *)
(* attendees, no start, a start in the past), and the event reference.     *)
(***************************************************************************)
EXTENDS Naturals, Sequences

CONSTANTS
  BookingRequest,   \* slots for requests in progress
  NoBooking,        \* nobody holds the lock
  Attendee,
  Hours,            \* bound: meetings begin at 0..Hours-1
  Longest           \* bound: a meeting's length

ASSUME CalendarAssumption ==
  /\ NoBooking \notin BookingRequest
  /\ Hours \in Nat \ {0} /\ Longest \in Nat \ {0}

VARIABLES
  booked,     \* committed slots of each attendee, in the order of insertion
  booking,    \* what each request wants and where it is
  lockedBy    \* the request that holds the tenant's advisory lock

calendarVars == <<booked, booking, lockedBy>>

Slot == [startsAt : 0..(Hours - 1), length : 1..Longest]
Meeting == [attendees : (SUBSET Attendee) \ {{}}, slot : Slot]
NoMeeting == [attendees |-> {}, slot |-> [startsAt |-> 0, length |-> 1]]

CalendarTypeOK ==
  /\ booked \in [Attendee -> Seq(Slot)]
  /\ \A b \in BookingRequest :
       /\ booking[b].pc \in {"idle", "asked", "looking", "inserted", "refused"}
       /\ booking[b].wants \in Meeting \cup {NoMeeting}
       /\ lockedBy = b <=> booking[b].pc \in {"looking", "inserted", "refused"}
  /\ lockedBy \in BookingRequest \cup {NoBooking}

-----------------------------------------------------------------------------
CalendarInit ==
  /\ booked = [a \in Attendee |-> << >>]
  /\ booking = [b \in BookingRequest |-> [pc |-> "idle", wants |-> NoMeeting]]
  /\ lockedBy = NoBooking

EndsAt(slot) == slot.startsAt + slot.length

\* Mutant of Overlaps: meetings back to back count as overlapping.
OverlapsClosed(s, t) == s.startsAt <= EndsAt(t) /\ t.startsAt <= EndsAt(s)

\* Slot.overlaps
Overlaps(s, t) == s.startsAt < EndsAt(t) /\ t.startsAt < EndsAt(s)

\* Whether book() finds somebody booked already.
Clash(meeting) ==
  \E a \in meeting.attendees : \E i \in DOMAIN booked[a] : Overlaps(booked[a][i], meeting.slot)

\* CalendarTool.execute has accepted the payload; which meeting it is matters at Look.
Ask(b) ==
  /\ booking[b].pc = "idle"
  /\ booking' = [booking EXCEPT ![b].pc = "asked"]
  /\ UNCHANGED <<booked, lockedBy>>

\* lock_tenant
LockCalendar(b) ==
  /\ booking[b].pc = "asked" /\ lockedBy = NoBooking
  /\ lockedBy' = b
  /\ booking' = [booking EXCEPT ![b].pc = "looking"]
  /\ UNCHANGED booked

\* Mutant of Look: only the first attendee's calendar is looked at.
LookAtOne(b, meeting) ==
  /\ booking[b].pc = "looking"
  /\ LET one == CHOOSE a \in meeting.attendees : TRUE IN
     booking' = [booking EXCEPT ![b] =
       [wants |-> meeting,
        pc |-> IF \E i \in DOMAIN booked[one] : Overlaps(booked[one][i], meeting.slot)
               THEN "refused" ELSE "inserted"]]
  /\ UNCHANGED <<booked, lockedBy>>

\* book(): the attendees' committed slots are read; CalendarError, or the rows are added.
Look(b, meeting) ==
  /\ booking[b].pc = "looking"
  /\ booking' = [booking EXCEPT ![b] =
       [wants |-> meeting, pc |-> IF Clash(meeting) THEN "refused" ELSE "inserted"]]
  /\ UNCHANGED <<booked, lockedBy>>

\* The transaction ends, and the lock with it.
Leave(b) ==
  /\ booking' = [booking EXCEPT ![b] = [pc |-> "idle", wants |-> NoMeeting]]
  /\ lockedBy' = IF lockedBy = b THEN NoBooking ELSE lockedBy

CommitBooking(b) ==
  /\ booking[b].pc \in {"inserted", "refused"}
  /\ booked' = [a \in Attendee |->
       IF booking[b].pc = "inserted" /\ a \in booking[b].wants.attendees
       THEN Append(booked[a], booking[b].wants.slot) ELSE booked[a]]
  /\ Leave(b)

\* The rest of the request fails, or its process dies.
AbandonBooking(b) ==
  /\ booking[b].pc # "idle"
  /\ Leave(b)
  /\ UNCHANGED booked

ProceedBooking(b) ==
  LockCalendar(b) \/ (\E meeting \in Meeting : Look(b, meeting)) \/ CommitBooking(b)

CalendarNext ==
  \E b \in BookingRequest :
    Ask(b) \/ ProceedBooking(b) \/ AbandonBooking(b)

\* A transaction goes on; the lock is granted in the order it was asked for.
CalendarFairness == \A b \in BookingRequest : SF_calendarVars(ProceedBooking(b))

CalendarSpec == CalendarInit /\ [][CalendarNext]_calendarVars /\ CalendarFairness

-----------------------------------------------------------------------------
\* The hours a meeting takes: what Overlaps is about, said without its comparisons.
HoursOf(slot) == slot.startsAt .. (EndsAt(slot) - 1)

\* "Two requests cannot both take the same slot": nobody is ever in two meetings at the
\* same hour, however the requests interleave.
NobodyDoubleBooked ==
  \A a \in Attendee : \A i, j \in DOMAIN booked[a] :
    i # j => HoursOf(booked[a][i]) \cap HoursOf(booked[a][j]) = {}

\* A booking is refused only for a meeting that stands and shares an hour with it:
\* meetings back to back are booked, and one that was rolled back is in nobody's way.
RefusedForAClash ==
  [][\A b \in BookingRequest : booking[b].pc # "refused" /\ booking'[b].pc = "refused" =>
       \E a \in booking'[b].wants.attendees : \E i \in DOMAIN booked[a] :
         HoursOf(booked[a][i]) \cap HoursOf(booking'[b].wants.slot) # {}]_calendarVars

\* Every booking comes to an end, those that are refused too.
BookingsEnd == \A b \in BookingRequest : booking[b].pc = "asked" ~> booking[b].pc = "idle"

\* The calendar: whoever holds its lock is looking or booking, and nobody is booked twice.
CalendarIsConsistent ==
  /\ CalendarTypeOK /\ NobodyDoubleBooked

=============================================================================
