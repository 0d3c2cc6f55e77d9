------------------------------ MODULE ServicesProofs ------------------------------
(***************************************************************************)
(* Proofs about the services of Aegis, for any number of requests,         *)
(* attendees, hours, attempts, keys, passes, conditions and readings of    *)
(* the clock.  For each service: the inductive invariant, that it holds in *)
(* every behaviour, and what follows from it.                              *)
(***************************************************************************)
EXTENDS Services, Integers, FiniteSetTheorems, SequenceTheorems, WellFoundedInduction, TLAPS

\* A set of naturals has a least element: what CHOOSE of a least one needs.
LEMMA LeastNatural ==
  ASSUME NEW T \in SUBSET Nat, T # {}
  PROVE  \E n \in T : \A m \in T : n <= m
<1> DEFINE R == OpToRel(<, Nat)
<1>1. IsWellFoundedOn(R, Nat)
  BY NatLessThanWellFounded
<1>2. \A m, n \in Nat : m < n => <<m, n>> \in R
  BY DEF OpToRel
<1> HIDE DEF R
<1>3. PICK n \in T : \A m \in T : ~ (<<m, n>> \in R)
  BY <1>1, WFMin
<1>4. ASSUME NEW m \in T PROVE n <= m
  <2>1. ~(<<m, n>> \in R)
    BY <1>3
  <2>2. ~(m < n)
    BY <1>2, <2>1
  <2> QED
    BY <2>2
<1> QED
  BY <1>4

-----------------------------------------------------------------------------
(***************************************************************************)
(* The calendar.  Only the holder of the tenant's lock is past looking, so *)
(* what it found free is still free when it commits.                       *)
(***************************************************************************)
BookingMemory ==
  [ pc : {"idle", "asked", "looking", "inserted", "refused"},
    wants : Meeting \cup {NoMeeting} ]

\* A meeting that is inserted clashes with none that is booked; one that is refused does.
LookedAt ==
  \A b \in BookingRequest :
    /\ booking[b].pc = "inserted" => booking[b].wants \in Meeting /\ ~Clash(booking[b].wants)
    /\ booking[b].pc = "refused" => Clash(booking[b].wants)

CalendarInv ==
  /\ CalendarTypeOK /\ booking \in [BookingRequest -> BookingMemory]
  /\ NobodyDoubleBooked /\ LookedAt

\* The comparisons of overlaps() say that two meetings share an hour.
LEMMA OverlapsMeansAnHour ==
  ASSUME NEW s \in Slot, NEW t \in Slot
  PROVE  Overlaps(s, t) <=> HoursOf(s) \cap HoursOf(t) # {}
<1> DEFINE x == s.startsAt
           y == t.startsAt
<1>1. /\ x \in Nat /\ y \in Nat /\ s.length \in Nat \ {0} /\ t.length \in Nat \ {0}
  BY CalendarAssumption DEF Slot
<1>2. ASSUME Overlaps(s, t)
      PROVE  HoursOf(s) \cap HoursOf(t) # {}
  <2>1. CASE x <= y
    <3>1. y \in HoursOf(s) /\ y \in HoursOf(t)
      BY <1>1, <1>2, <2>1 DEF Overlaps, HoursOf, EndsAt
    <3> QED
      BY <3>1
  <2>2. CASE y < x
    <3>1. x \in HoursOf(s) /\ x \in HoursOf(t)
      BY <1>1, <1>2, <2>2 DEF Overlaps, HoursOf, EndsAt
    <3> QED
      BY <3>1
  <2> QED
    BY <1>1, <2>1, <2>2
<1>3. ASSUME NEW h \in HoursOf(s) \cap HoursOf(t)
      PROVE  Overlaps(s, t)
  BY <1>1, <1>3 DEF Overlaps, HoursOf, EndsAt
<1> QED
  BY <1>2, <1>3

LEMMA CalendarFirst == CalendarInit => CalendarInv
<1> SUFFICES ASSUME CalendarInit PROVE CalendarInv
  OBVIOUS
<1>1. booking \in [BookingRequest -> BookingMemory]
  BY DEF CalendarInit, BookingMemory
<1>2. CalendarTypeOK
  BY CalendarAssumption, EmptySeq DEF CalendarInit, CalendarTypeOK
<1>3. NobodyDoubleBooked /\ LookedAt
  BY DEF CalendarInit, NobodyDoubleBooked, LookedAt
<1> QED
  BY <1>1, <1>2, <1>3 DEF CalendarInv

\* What is committed is added to the calendars of those who attend and clashes with
\* nothing in them.
LEMMA CommitKeepsCalendars ==
  ASSUME CalendarInv, NEW b \in BookingRequest, CommitBooking(b)
  PROVE  booked' \in [Attendee -> Seq(Slot)] /\ NobodyDoubleBooked'
<1>1. booked \in [Attendee -> Seq(Slot)]
  BY DEF CalendarInv, CalendarTypeOK
<1>2. CASE booking[b].pc # "inserted"
  <2>1. booked' = booked
    BY <1>1, <1>2 DEF CommitBooking
  <2> QED
    BY <1>1, <2>1 DEF CalendarInv, NobodyDoubleBooked
<1>3. CASE booking[b].pc = "inserted"
  <2> DEFINE slot == booking[b].wants.slot
             who == booking[b].wants.attendees
  <2>1. /\ slot \in Slot
        /\ \A a \in who : \A i \in DOMAIN booked[a] : ~Overlaps(booked[a][i], slot)
    BY <1>3 DEF CalendarInv, LookedAt, Clash, Meeting
  <2>2. \A a \in Attendee : booked'[a] = IF a \in who THEN Append(booked[a], slot) ELSE booked[a]
    BY <1>3 DEF CommitBooking
  <2>3. booked' = [a \in Attendee |-> IF a \in who THEN Append(booked[a], slot) ELSE booked[a]]
    BY <1>3 DEF CommitBooking
  <2> HIDE DEF slot, who
  <2>4. ASSUME NEW a \in Attendee
        PROVE  /\ booked'[a] \in Seq(Slot)
               /\ \A i, j \in DOMAIN booked'[a] :
                    i # j => HoursOf(booked'[a][i]) \cap HoursOf(booked'[a][j]) = {}
    <3>1. CASE a \notin who
      BY <1>1, <2>2, <3>1 DEF CalendarInv, NobodyDoubleBooked
    <3>2. CASE a \in who
      <4> DEFINE q == booked[a]
                 n == Len(booked[a])
                 p == Append(booked[a], slot)
      <4>1. /\ q \in Seq(Slot) /\ n \in Nat /\ DOMAIN q = 1..n /\ \A i \in 1..n : q[i] \in Slot
        BY <1>1, LenProperties
      <4>2. /\ p \in Seq(Slot) /\ DOMAIN p = 1..(n + 1)
            /\ \A i \in 1..n : p[i] = q[i]
            /\ p[n + 1] = slot
        BY <1>1, <2>1, AppendProperties, LenProperties
      <4>3. booked'[a] = p
        BY <2>2, <3>2
      <4>4. \A i, j \in 1..n : i # j => HoursOf(q[i]) \cap HoursOf(q[j]) = {}
        BY <4>1 DEF CalendarInv, NobodyDoubleBooked
      <4>5. \A i \in 1..n : HoursOf(q[i]) \cap HoursOf(slot) = {}
        BY <2>1, <3>2, <4>1, OverlapsMeansAnHour
      <4> HIDE DEF q, n, p
      <4>6. \A i \in 1..(n + 1) : i \in 1..n \/ i = n + 1
        BY <4>1
      <4>7. \A i, j \in 1..(n + 1) : i # j => HoursOf(p[i]) \cap HoursOf(p[j]) = {}
        BY <4>2, <4>4, <4>5, <4>6
      <4> QED
        BY <4>2, <4>3, <4>7
    <3> QED
      BY <3>1, <3>2
  <2>5. booked' \in [Attendee -> Seq(Slot)]
    BY <2>3, <2>4
  <2> QED
    BY <2>4, <2>5 DEF NobodyDoubleBooked
<1> QED
  BY <1>2, <1>3

LEMMA CalendarStep ==
  ASSUME CalendarInv, [CalendarNext]_calendarVars
  PROVE  CalendarInv'
<1>1. /\ booking \in [BookingRequest -> BookingMemory] /\ booked \in [Attendee -> Seq(Slot)]
      /\ lockedBy \in BookingRequest \cup {NoBooking}
      /\ \A b \in BookingRequest :
           lockedBy = b <=> booking[b].pc \in {"looking", "inserted", "refused"}
  BY DEF CalendarInv, CalendarTypeOK
<1>2. ASSUME NEW b \in BookingRequest, Ask(b)
      PROVE  CalendarInv'
  <2>1. /\ booking'[b].pc = "asked" /\ booking' \in [BookingRequest -> BookingMemory]
        /\ \A c \in BookingRequest \ {b} : booking'[c] = booking[c]
        /\ booking[b].pc = "idle" /\ booked' = booked /\ lockedBy' = lockedBy
    BY <1>1, <1>2 DEF Ask, BookingMemory
  <2>2. CalendarTypeOK' /\ NobodyDoubleBooked' /\ LookedAt'
    BY <1>1, <2>1 DEF CalendarInv, CalendarTypeOK, BookingMemory, NobodyDoubleBooked, LookedAt, Clash
  <2> QED
    BY <2>1, <2>2 DEF CalendarInv
<1>3. ASSUME NEW b \in BookingRequest, LockCalendar(b)
      PROVE  CalendarInv'
  <2>1. /\ booking'[b].pc = "looking" /\ booking' \in [BookingRequest -> BookingMemory]
        /\ \A c \in BookingRequest \ {b} : booking'[c] = booking[c]
        /\ lockedBy = NoBooking /\ booked' = booked /\ lockedBy' = b
    BY <1>1, <1>3 DEF LockCalendar, BookingMemory
  <2>2. CalendarTypeOK' /\ NobodyDoubleBooked' /\ LookedAt'
    BY <1>1, <2>1, CalendarAssumption
       DEF CalendarInv, CalendarTypeOK, BookingMemory, NobodyDoubleBooked, LookedAt, Clash
  <2> QED
    BY <2>1, <2>2 DEF CalendarInv
<1>4. ASSUME NEW b \in BookingRequest, NEW meeting \in Meeting, Look(b, meeting)
      PROVE  CalendarInv'
  <2>1. /\ booking'[b] = [wants |-> meeting, pc |-> IF Clash(meeting) THEN "refused" ELSE "inserted"]
        /\ booking' \in [BookingRequest -> BookingMemory]
        /\ \A c \in BookingRequest \ {b} : booking'[c] = booking[c]
        /\ booking[b].pc = "looking" /\ booked' = booked /\ lockedBy' = lockedBy
    BY <1>1, <1>4 DEF Look, BookingMemory
  <2>2. CalendarTypeOK' /\ NobodyDoubleBooked'
    BY <1>1, <2>1 DEF CalendarInv, CalendarTypeOK, BookingMemory, NobodyDoubleBooked
  <2>3. LookedAt'
    BY <2>1 DEF CalendarInv, LookedAt, Clash
  <2> QED
    BY <2>1, <2>2, <2>3 DEF CalendarInv
<1>5. ASSUME NEW b \in BookingRequest, CommitBooking(b) \/ AbandonBooking(b)
      PROVE  CalendarInv'
  <2>1. /\ booking'[b] = [pc |-> "idle", wants |-> NoMeeting]
        /\ booking' \in [BookingRequest -> BookingMemory]
        /\ \A c \in BookingRequest \ {b} : booking'[c] = booking[c]
        /\ lockedBy' = IF lockedBy = b THEN NoBooking ELSE lockedBy
    BY <1>1, <1>5 DEF CommitBooking, AbandonBooking, Leave, BookingMemory
  <2>2. booked' \in [Attendee -> Seq(Slot)] /\ NobodyDoubleBooked'
    BY <1>1, <1>5, CommitKeepsCalendars DEF AbandonBooking, CalendarInv, NobodyDoubleBooked
  <2>3. CalendarTypeOK'
    BY <1>1, <2>1, <2>2, CalendarAssumption DEF CalendarTypeOK, BookingMemory
  <2>4. booked' = booked \/ lockedBy = b
    BY <1>1, <1>5 DEF CommitBooking, AbandonBooking
  <2>5. LookedAt'
    BY <1>1, <2>1, <2>4 DEF CalendarInv, LookedAt, Clash
  <2> QED
    BY <2>1, <2>2, <2>3, <2>5 DEF CalendarInv
<1>6. CASE UNCHANGED calendarVars
  BY <1>6 DEF calendarVars, CalendarInv, CalendarTypeOK, NobodyDoubleBooked, LookedAt, Clash
<1> QED
  BY <1>2, <1>3, <1>4, <1>5, <1>6 DEF CalendarNext, ProceedBooking

\* The calendar's invariant is inductive: it holds in every behaviour.
THEOREM CalendarAlways == CalendarSpec => []CalendarInv
BY CalendarFirst, CalendarStep, PTL DEF CalendarSpec

\* However bookings interleave, die or are rolled back, nobody is in two meetings at the
\* same hour, and whoever looks or books holds the tenant's lock.
THEOREM CalendarAlwaysConsistent == CalendarSpec => []CalendarIsConsistent
<1>1. CalendarInv => CalendarIsConsistent
  BY DEF CalendarInv, CalendarIsConsistent
<1> QED
  BY <1>1, CalendarAlways, PTL

\* A booking is refused only for a meeting that stands and shares an hour with it.
THEOREM ClashesAreReal == CalendarSpec => RefusedForAClash
<1> DEFINE Reason ==
      \A b \in BookingRequest : booking[b].pc # "refused" /\ booking'[b].pc = "refused" =>
        \E a \in booking'[b].wants.attendees : \E i \in DOMAIN booked[a] :
          HoursOf(booked[a][i]) \cap HoursOf(booking'[b].wants.slot) # {}
<1>1. ASSUME CalendarInv, [CalendarNext]_calendarVars
      PROVE  [Reason]_calendarVars
  <2>1. CASE UNCHANGED calendarVars
    BY <2>1
  <2>2. CASE CalendarNext
    <3> SUFFICES ASSUME NEW b \in BookingRequest,
                        booking[b].pc # "refused", booking'[b].pc = "refused"
                 PROVE  \E a \in booking'[b].wants.attendees : \E i \in DOMAIN booked[a] :
                          HoursOf(booked[a][i]) \cap HoursOf(booking'[b].wants.slot) # {}
      OBVIOUS
    <3>1. booking \in [BookingRequest -> BookingMemory] /\ booked \in [Attendee -> Seq(Slot)]
      BY <1>1 DEF CalendarInv, CalendarTypeOK
    <3>2. \A c \in BookingRequest :
            Ask(c) \/ LockCalendar(c) \/ CommitBooking(c) \/ AbandonBooking(c)
              => booking'[b].pc # "refused"
      <4> SUFFICES ASSUME NEW c \in BookingRequest,
                          Ask(c) \/ LockCalendar(c) \/ CommitBooking(c) \/ AbandonBooking(c)
                   PROVE  booking'[b].pc # "refused"
        OBVIOUS
      <4>1. CASE Ask(c)
        BY <3>1, <4>1 DEF Ask, BookingMemory
      <4>2. CASE LockCalendar(c)
        BY <3>1, <4>2 DEF LockCalendar, BookingMemory
      <4>3. CASE CommitBooking(c) \/ AbandonBooking(c)
        BY <3>1, <4>3 DEF CommitBooking, AbandonBooking, Leave, BookingMemory
      <4> QED
        BY <4>1, <4>2, <4>3
    <3>3. PICK c \in BookingRequest, meeting \in Meeting : Look(c, meeting)
      BY <2>2, <3>2 DEF CalendarNext, ProceedBooking
    <3>4. c = b /\ booking'[b].wants = meeting /\ Clash(meeting)
      BY <3>1, <3>3 DEF Look, BookingMemory
    <3>5. PICK a \in meeting.attendees : \E i \in DOMAIN booked[a] : Overlaps(booked[a][i], meeting.slot)
      BY <3>4 DEF Clash
    <3>6. PICK i \in DOMAIN booked[a] : Overlaps(booked[a][i], meeting.slot)
      BY <3>5
    <3>7. booked[a][i] \in Slot /\ meeting.slot \in Slot
      <4>1. a \in Attendee /\ meeting.slot \in Slot
        BY DEF Meeting
      <4> QED
        BY <3>1, <3>6, <4>1, LenProperties, ElementOfSeq
    <3> QED
      BY <3>4, <3>6, <3>7, OverlapsMeansAnHour
  <2> QED
    BY <1>1, <2>1, <2>2
<1> QED
  BY <1>1, CalendarAlways, PTL DEF CalendarSpec, RefusedForAClash

-----------------------------------------------------------------------------
(***************************************************************************)
(* The sign-in limiter.  Its failures are kept oldest first, so that the   *)
(* recent ones are a suffix and are exactly the wrong passwords recorded   *)
(* within the window; each attempt still resolving may add one more.       *)
(***************************************************************************)
Age == 0..Old

\* Older failures come first.
OldestFirst(hits) == \A i, j \in 1..Len(hits) : i < j => hits[j] <= hits[i]

\* The hits before the n-th and the n-th are too old, and the next is not.
Divides(hits, n) ==
  /\ n \in 0..Len(hits)
  /\ \A i \in 1..n : hits[i] > Window
  /\ n < Len(hits) => hits[n + 1] <= Window

Resolving == {a \in Attempt : attempt[a] = "resolving"}

LimiterInv ==
  /\ LimiterTypeOK /\ OldestFirst(failures)
  /\ wrong = Recent(failures)
  /\ Len(wrong) + Cardinality(Resolving) <= Limit + Cardinality(Attempt) - 1

LEMMA AgesAreNumbers ==
  /\ Window \in Nat \ {0} /\ Old = Window + 1
  /\ \A x \in Age : x \in Nat /\ x <= Window + 1
  /\ \A x \in Age : x <= Window \/ x = Old
BY LimiterAssumption DEF Age, Old

LEMMA StaleDivides ==
  ASSUME NEW hits \in Seq(Age)
  PROVE  Divides(hits, Stale(hits))
<1> DEFINE L == Len(hits)
           ends == {n \in 0..L : n < L => hits[n + 1] <= Window}
<1>1. L \in Nat /\ \A i \in 1..L : hits[i] \in Age
  BY LenProperties, ElementOfSeq
<1>2. ends \in SUBSET Nat /\ L \in ends
  BY <1>1
<1>3. PICK n \in ends : \A m \in ends : n <= m
  BY <1>2, LeastNatural
<1>4. ASSUME NEW i \in 1..n
      PROVE  hits[i] > Window
  <2>1. i - 1 \in 0..L /\ i - 1 < n /\ i - 1 < L /\ i \in 1..L
    BY <1>1
  <2>2. i - 1 \notin ends
    BY <1>3, <2>1
  <2>3. ~(hits[(i - 1) + 1] <= Window)
    BY <2>1, <2>2
  <2>4. hits[i] \in Age /\ (i - 1) + 1 = i
    BY <1>1, <2>1
  <2> QED
    BY <2>3, <2>4, AgesAreNumbers
<1>5. Divides(hits, n)
  BY <1>4 DEF Divides
<1>6. \E m \in 0..Len(hits) :
        /\ \A i \in 1..m : hits[i] > Window
        /\ m < Len(hits) => hits[m + 1] <= Window
  BY <1>5 DEF Divides
<1> QED
  BY <1>6 DEF Stale, Divides

\* Of a sequence of ages with the oldest first, the recent ones are those within the window.
LEMMA DividesOne ==
  ASSUME NEW hits \in Seq(Age), OldestFirst(hits), NEW n, Divides(hits, n)
  PROVE  /\ \A i \in (n + 1)..Len(hits) : hits[i] <= Window
         /\ \A i \in 1..Len(hits) : hits[i] <= Window <=> i > n
         /\ Stale(hits) = n
<1>1. Len(hits) \in Nat /\ n \in 0..Len(hits) /\ \A i \in 1..Len(hits) : hits[i] \in Age
  BY LenProperties, ElementOfSeq DEF Divides
<1>2. ASSUME NEW i \in (n + 1)..Len(hits)
      PROVE  hits[i] <= Window
  <2>1. n < Len(hits) /\ n + 1 \in 1..Len(hits) /\ i \in 1..Len(hits)
    BY <1>1
  <2>2. hits[n + 1] <= Window /\ hits[n + 1] \in Age /\ hits[i] \in Age
    BY <1>1, <2>1 DEF Divides
  <2>3. hits[i] <= hits[n + 1]
    BY <2>1, <2>2, AgesAreNumbers DEF OldestFirst
  <2> QED
    BY <2>2, <2>3, AgesAreNumbers
<1>3. ASSUME NEW i \in 1..Len(hits)
      PROVE  hits[i] <= Window <=> i > n
  <2>1. i \in 1..n \/ i \in (n + 1)..Len(hits)
    BY <1>1
  <2>2. CASE i \in 1..n
    BY <1>1, <1>3, <2>2, AgesAreNumbers DEF Divides
  <2> QED
    BY <1>1, <1>2, <2>1, <2>2
<1>4. Stale(hits) = n
  <2> DEFINE m == Stale(hits)
  <2>1. m \in 0..Len(hits) /\ Divides(hits, m)
    BY StaleDivides DEF Divides
  <2> HIDE DEF m
  <2>2. CASE m < n
    <3>1. m + 1 \in 1..Len(hits) /\ hits[m + 1] <= Window
      BY <1>1, <2>1, <2>2 DEF Divides
    <3> QED
      BY <1>1, <1>3, <2>1, <2>2, <3>1
  <2>3. CASE n < m
    <3>1. m \in 1..Len(hits) /\ hits[m] > Window /\ hits[m] \in Age
      BY <1>1, <2>1, <2>3 DEF Divides
    <3> QED
      BY <1>1, <1>3, <2>3, <3>1, AgesAreNumbers
  <2> QED
    BY <1>1, <2>1, <2>2, <2>3 DEF m
<1> QED
  BY <1>2, <1>3, <1>4

\* The recent hits are a suffix: what is within the window, and all of it.
LEMMA RecentIsASuffix ==
  ASSUME NEW hits \in Seq(Age), OldestFirst(hits)
  PROVE  /\ Stale(hits) \in 0..Len(hits)
         /\ Recent(hits) \in Seq(0..Window)
         /\ Len(Recent(hits)) = Len(hits) - Stale(hits)
         /\ \A i \in 1..(Len(hits) - Stale(hits)) : Recent(hits)[i] = hits[Stale(hits) + i]
<1> DEFINE n == Stale(hits)
           L == Len(hits)
<1>1. L \in Nat /\ n \in 0..L /\ \A i \in 1..L : hits[i] \in Age
  BY StaleDivides, LenProperties, ElementOfSeq DEF Divides
<1>2. \A i \in (n + 1)..L : hits[i] <= Window
  BY StaleDivides, DividesOne
<1> HIDE DEF n, L
<1>3. \A i \in (n + 1)..L : hits[i] \in 0..Window
  <2> SUFFICES ASSUME NEW i \in (n + 1)..L PROVE hits[i] \in 0..Window
    OBVIOUS
  <2>1. i \in 1..L
    BY <1>1
  <2> QED
    BY <1>1, <1>2, <2>1, AgesAreNumbers
<1>4. n + 1 \in Int /\ L \in Int
  BY <1>1
<1>5. /\ SubSeq(hits, n + 1, L) \in Seq(0..Window)
      /\ Len(SubSeq(hits, n + 1, L)) = IF n + 1 <= L THEN L - (n + 1) + 1 ELSE 0
      /\ \A i \in 1..(L - (n + 1) + 1) : SubSeq(hits, n + 1, L)[i] = hits[(n + 1) + i - 1]
  BY <1>3, <1>4, SubSeqProperties
<1>6. Recent(hits) = SubSeq(hits, n + 1, L)
  BY DEF Recent, n, L
<1>7. L - (n + 1) + 1 = L - n /\ (IF n + 1 <= L THEN L - (n + 1) + 1 ELSE 0) = L - n
  BY <1>1
<1>8. \A i \in 1..(L - n) : Recent(hits)[i] = hits[n + i]
  <2> SUFFICES ASSUME NEW i \in 1..(L - n) PROVE Recent(hits)[i] = hits[n + i]
    OBVIOUS
  <2>1. (n + 1) + i - 1 = n + i
    BY <1>1
  <2> QED
    BY <1>5, <1>6, <1>7, <2>1
<1> QED
  BY <1>1, <1>5, <1>6, <1>7, <1>8 DEF n, L

LEMMA WithinTheWindow == \A hits \in Seq(0..Window) : hits \in Seq(Age)
<1>1. 0..Window \subseteq Age
  BY AgesAreNumbers DEF Age
<1> QED
  BY <1>1, SeqMonotonic

LEMMA RecentIsOldestFirst ==
  ASSUME NEW hits \in Seq(Age), OldestFirst(hits)
  PROVE  /\ Recent(hits) \in Seq(Age) /\ OldestFirst(Recent(hits))
         /\ Recent(Recent(hits)) = Recent(hits)
<1> DEFINE n == Stale(hits)
           g == Recent(hits)
<1>1. /\ Len(hits) \in Nat /\ n \in 0..Len(hits)
      /\ g \in Seq(0..Window) /\ g \in Seq(Age) /\ Len(g) = Len(hits) - n
      /\ \A i \in 1..(Len(hits) - n) : g[i] = hits[n + i]
  BY RecentIsASuffix, WithinTheWindow, LenProperties
<1> HIDE DEF n, g
<1>2. OldestFirst(g)
  <2> SUFFICES ASSUME NEW i \in 1..Len(g), NEW j \in 1..Len(g), i < j PROVE g[j] <= g[i]
    BY DEF OldestFirst
  <2>1. n + i \in 1..Len(hits) /\ n + j \in 1..Len(hits) /\ n + i < n + j
    BY <1>1
  <2>2. hits[n + j] <= hits[n + i]
    BY <2>1 DEF OldestFirst
  <2> QED
    BY <1>1, <2>2
<1>3. Divides(g, 0)
  <2>1. Len(g) \in Nat /\ \A i \in 1..Len(g) : g[i] \in 0..Window
    BY <1>1, LenProperties, ElementOfSeq
  <2> QED
    BY <2>1, AgesAreNumbers DEF Divides
<1>4. Stale(g) = 0
  BY <1>1, <1>2, <1>3, DividesOne
<1>5. Recent(g) = g
  BY <1>1, <1>4, SubSeqFull DEF Recent
<1> QED
  BY <1>1, <1>2, <1>5 DEF g

\* A failure that is appended is the most recent one.
LEMMA RecentOfAppend ==
  ASSUME NEW hits \in Seq(Age), OldestFirst(hits)
  PROVE  /\ Append(hits, 0) \in Seq(Age) /\ OldestFirst(Append(hits, 0))
         /\ Recent(Append(hits, 0)) = Append(Recent(hits), 0)
<1> DEFINE n == Stale(hits)
           L == Len(hits)
           h == Append(hits, 0)
           g == Recent(hits)
<1>0. 0 \in Age /\ 0 \in 0..Window
  BY AgesAreNumbers DEF Age
<1>1. /\ L \in Nat /\ n \in 0..L
      /\ \A i \in 1..L : hits[i] \in Age
      /\ g \in Seq(0..Window) /\ Len(g) = L - n
      /\ \A i \in 1..(L - n) : g[i] = hits[n + i]
  BY RecentIsASuffix, LenProperties, ElementOfSeq
<1>2. /\ h \in Seq(Age) /\ Len(h) = L + 1
      /\ \A i \in 1..L : h[i] = hits[i]
      /\ h[L + 1] = 0
  BY <1>0, AppendProperties
<1>3. /\ Append(g, 0) \in Seq(0..Window) /\ Len(Append(g, 0)) = L - n + 1
      /\ \A i \in 1..(L - n) : Append(g, 0)[i] = g[i]
      /\ Append(g, 0)[L - n + 1] = 0
  BY <1>0, <1>1, AppendProperties
<1>4. Divides(hits, n)
  BY StaleDivides
<1> HIDE DEF n, L, h, g
<1>5. OldestFirst(h)
  <2> SUFFICES ASSUME NEW i \in 1..Len(h), NEW j \in 1..Len(h), i < j PROVE h[j] <= h[i]
    BY DEF OldestFirst
  <2>1. i \in 1..L /\ (j \in 1..L \/ j = L + 1)
    BY <1>1, <1>2
  <2>2. CASE j \in 1..L
    BY <1>2, <2>1, <2>2 DEF OldestFirst, L
  <2>3. CASE j = L + 1
    BY <1>1, <1>2, <2>1, <2>3, AgesAreNumbers
  <2> QED
    BY <2>1, <2>2, <2>3
<1>6. Divides(h, n)
  <2>1. n \in 0..Len(h)
    BY <1>1, <1>2
  <2>2. ASSUME NEW i \in 1..n PROVE h[i] > Window
    <3>1. i \in 1..L
      BY <1>1
    <3>2. hits[i] > Window
      BY <1>4 DEF Divides
    <3> QED
      BY <1>2, <3>1, <3>2
  <2>3. h[n + 1] <= Window
    <3>1. CASE n < L
      <4>1. n + 1 \in 1..L /\ hits[n + 1] <= Window
        BY <1>1, <1>4, <3>1 DEF Divides, L
      <4> QED
        BY <1>2, <4>1
    <3>2. CASE n = L
      BY <1>2, <3>2, AgesAreNumbers
    <3> QED
      BY <1>1, <3>1, <3>2
  <2> QED
    BY <2>1, <2>2, <2>3 DEF Divides
<1>7. Stale(h) = n
  BY <1>2, <1>5, <1>6, DividesOne
<1>8. /\ Recent(h) \in Seq(0..Window) /\ Len(Recent(h)) = (L + 1) - n
      /\ \A i \in 1..((L + 1) - n) : Recent(h)[i] = h[n + i]
  BY <1>2, <1>5, <1>7, RecentIsASuffix
<1>9. ASSUME NEW i \in 1..Len(Recent(h))
      PROVE  Recent(h)[i] = Append(g, 0)[i]
  <2>1. i \in 1..((L + 1) - n) /\ (i \in 1..(L - n) \/ i = L - n + 1)
    BY <1>1, <1>8
  <2>2. CASE i \in 1..(L - n)
    <3>1. n + i \in 1..L
      BY <1>1, <2>2
    <3> QED
      BY <1>1, <1>2, <1>3, <1>8, <2>1, <2>2, <3>1
  <2>3. CASE i = L - n + 1
    <3>1. n + i = L + 1
      BY <1>1, <2>3
    <3> QED
      BY <1>2, <1>3, <1>8, <2>1, <2>3, <3>1
  <2> QED
    BY <2>1, <2>2, <2>3
<1>10. Len(Recent(h)) = Len(Append(g, 0))
  BY <1>1, <1>3, <1>8
<1>11. Recent(h) = Append(g, 0)
  BY <1>3, <1>8, <1>9, <1>10, SeqEqual
<1> QED
  BY <1>2, <1>5, <1>11 DEF h, g

LEMMA AgedAges ==
  ASSUME NEW hits \in Seq(Age)
  PROVE  /\ Aged(hits) \in Seq(Age) /\ Len(Aged(hits)) = Len(hits)
         /\ \A i \in 1..Len(hits) :
              /\ Aged(hits)[i] = IF hits[i] = Old THEN Old ELSE hits[i] + 1
              /\ hits[i] > Window => Aged(hits)[i] > Window
         /\ OldestFirst(hits) => OldestFirst(Aged(hits))
<1> DEFINE h == Aged(hits)
           L == Len(hits)
<1>1. L \in Nat /\ DOMAIN hits = 1..L /\ \A i \in 1..L : hits[i] \in Age
  BY LenProperties, ElementOfSeq
<1>2. h = [i \in 1..L |-> IF hits[i] = Old THEN Old ELSE hits[i] + 1]
  BY <1>1 DEF Aged
<1>3. \A i \in 1..L : h[i] = (IF hits[i] = Old THEN Old ELSE hits[i] + 1) /\ h[i] \in Age
  BY <1>1, <1>2, AgesAreNumbers DEF Age
<1>4. h \in [1..L -> Age]
  BY <1>2, <1>3
<1>5. h \in Seq(Age) /\ Len(h) = L
  BY <1>1, <1>2, <1>4
<1> HIDE DEF h, L
<1>6. ASSUME NEW i \in 1..L
      PROVE  hits[i] > Window => h[i] > Window
  BY <1>1, <1>3, AgesAreNumbers
<1>7. ASSUME OldestFirst(hits)
      PROVE  OldestFirst(h)
  <2> SUFFICES ASSUME NEW i \in 1..L, NEW j \in 1..L, i < j PROVE h[j] <= h[i]
    BY <1>5 DEF OldestFirst
  <2>1. hits[j] <= hits[i] /\ hits[i] \in Age /\ hits[j] \in Age
    BY <1>1, <1>7 DEF OldestFirst, L
  <2>2. h[i] = (IF hits[i] = Old THEN Old ELSE hits[i] + 1) /\ h[i] \in Age
    BY <1>3
  <2>3. h[j] = (IF hits[j] = Old THEN Old ELSE hits[j] + 1) /\ h[j] \in Age
    BY <1>3
  <2> QED
    BY <2>1, <2>2, <2>3, AgesAreNumbers
<1> QED
  BY <1>3, <1>5, <1>6, <1>7 DEF h, L

\* What leaves the window by itself and what was popped before are together what is popped
\* now: popping early loses nothing.
LEMMA RecentOfAged ==
  ASSUME NEW hits \in Seq(Age), OldestFirst(hits)
  PROVE  Recent(Aged(Recent(hits))) = Recent(Aged(hits))
<1> DEFINE m == Stale(hits)
           L == Len(hits)
           g == Recent(hits)
           h == Aged(hits)
           k == Aged(g)
           n == Stale(k)
<1>1. /\ L \in Nat /\ m \in 0..L /\ \A i \in 1..L : hits[i] \in Age
      /\ g \in Seq(Age) /\ OldestFirst(g) /\ Len(g) = L - m
      /\ \A i \in 1..(L - m) : g[i] = hits[m + i]
  BY RecentIsASuffix, RecentIsOldestFirst, LenProperties, ElementOfSeq
<1>2. \A i \in 1..m : hits[i] > Window
  BY StaleDivides DEF Divides
<1>3. /\ h \in Seq(Age) /\ Len(h) = L /\ OldestFirst(h)
      /\ \A i \in 1..L : h[i] = IF hits[i] = Old THEN Old ELSE hits[i] + 1
      /\ \A i \in 1..L : hits[i] > Window => h[i] > Window
  BY AgedAges
<1> HIDE DEF m, L, g, h
<1>4. /\ k \in Seq(Age) /\ Len(k) = L - m /\ OldestFirst(k)
      /\ \A i \in 1..(L - m) : k[i] = IF g[i] = Old THEN Old ELSE g[i] + 1
  BY <1>1, AgedAges
<1>5. /\ n \in 0..(L - m) /\ \A i \in 1..n : k[i] > Window
      /\ n < L - m => k[n + 1] <= Window
  BY <1>4, StaleDivides DEF Divides
<1>6. /\ Recent(k) \in Seq(0..Window) /\ Len(Recent(k)) = (L - m) - n
      /\ \A i \in 1..((L - m) - n) : Recent(k)[i] = k[n + i]
  BY <1>4, RecentIsASuffix
<1> HIDE DEF k, n
<1>7. \A i \in 1..(L - m) : m + i \in 1..L /\ k[i] = h[m + i]
  <2> SUFFICES ASSUME NEW i \in 1..(L - m) PROVE m + i \in 1..L /\ k[i] = h[m + i]
    OBVIOUS
  <2>1. m + i \in 1..L
    BY <1>1
  <2> QED
    BY <1>1, <1>3, <1>4, <2>1
<1>8. Divides(h, m + n)
  <2>1. m + n \in 0..Len(h)
    BY <1>1, <1>3, <1>5
  <2>2. ASSUME NEW i \in 1..(m + n)
        PROVE  h[i] > Window
    <3>1. CASE i <= m
      <4>1. i \in 1..m /\ i \in 1..L
        BY <1>1, <1>5, <3>1
      <4> QED
        BY <1>2, <1>3, <4>1
    <3>2. CASE i > m
      <4>1. i - m \in 1..n /\ i - m \in 1..(L - m) /\ m + (i - m) = i
        BY <1>1, <1>5, <3>2
      <4> QED
        BY <1>5, <1>7, <4>1
    <3> QED
      BY <1>1, <1>5, <3>1, <3>2
  <2>3. ASSUME m + n < Len(h)
        PROVE  h[m + n + 1] <= Window
    <3>1. n + 1 \in 1..(L - m) /\ n < L - m /\ m + (n + 1) = m + n + 1
      BY <1>1, <1>3, <1>5, <2>3
    <3> QED
      BY <1>5, <1>7, <3>1
  <2> QED
    BY <2>1, <2>2, <2>3 DEF Divides
<1>9. Stale(h) = m + n
  BY <1>3, <1>8, DividesOne
<1>10. /\ Recent(h) \in Seq(0..Window) /\ Len(Recent(h)) = L - (m + n)
       /\ \A i \in 1..(L - (m + n)) : Recent(h)[i] = h[(m + n) + i]
  <2>1. /\ Recent(h) \in Seq(0..Window) /\ Len(Recent(h)) = Len(h) - Stale(h)
        /\ \A i \in 1..(Len(h) - Stale(h)) : Recent(h)[i] = h[Stale(h) + i]
    BY <1>3, RecentIsASuffix
  <2> QED
    BY <1>3, <1>9, <2>1
<1>11. ASSUME NEW i \in 1..Len(Recent(k))
       PROVE  Recent(k)[i] = Recent(h)[i]
  <2>1. /\ n + i \in 1..(L - m) /\ i \in 1..((L - m) - n) /\ i \in 1..(L - (m + n))
        /\ m + (n + i) = (m + n) + i
    BY <1>1, <1>5, <1>6
  <2> QED
    BY <1>6, <1>7, <1>10, <2>1
<1>12. Len(Recent(k)) = Len(Recent(h))
  BY <1>1, <1>5, <1>6, <1>10
<1>13. Recent(k) = Recent(h)
  BY <1>6, <1>10, <1>11, <1>12, SeqEqual
<1> QED
  BY <1>13 DEF k, h, g

\* The last of a sequence of ages, as many as are within the window, are the recent ones.
LEMMA LastOnesAreRecent ==
  ASSUME NEW hits \in Seq(Age), OldestFirst(hits)
  PROVE  SubSeq(hits, Len(hits) - Cardinality({i \in DOMAIN hits : hits[i] <= Window}) + 1, Len(hits))
           = Recent(hits)
<1> DEFINE L == Len(hits)
           n == Stale(hits)
<1>1. L \in Nat /\ DOMAIN hits = 1..L /\ n \in 0..L
  BY LenProperties, RecentIsASuffix
<1>2. \A i \in 1..L : hits[i] <= Window <=> i > n
  BY StaleDivides, DividesOne
<1> HIDE DEF n
<1>3. {i \in DOMAIN hits : hits[i] <= Window} = (n + 1)..L
  BY <1>1, <1>2
<1>4. Cardinality((n + 1)..L) = L - n
  <2>1. n + 1 \in Int /\ L \in Int
    BY <1>1
  <2>2. Cardinality((n + 1)..L) = IF n + 1 > L THEN 0 ELSE L - (n + 1) + 1
    BY <2>1, FS_Interval
  <2> QED
    BY <1>1, <2>2
<1>5. L - (L - n) + 1 = n + 1
  BY <1>1
<1> QED
  BY <1>3, <1>4, <1>5 DEF Recent, n

-----------------------------------------------------------------------------
LEMMA ResolvingAreFew ==
  /\ IsFiniteSet(Attempt) /\ Cardinality(Attempt) \in Nat
  /\ \A S \in SUBSET Attempt : IsFiniteSet(S) /\ Cardinality(S) \in Nat
  /\ \A S \in SUBSET Attempt, a \in Attempt :
       /\ a \notin S => /\ Cardinality(S \cup {a}) = Cardinality(S) + 1
                        /\ Cardinality(S) + 1 <= Cardinality(Attempt)
       /\ a \in S => Cardinality(S \ {a}) = Cardinality(S) - 1
<1>1. IsFiniteSet(Attempt) /\ Cardinality(Attempt) \in Nat
  BY LimiterAssumption, FS_CardinalityType
<1>2. ASSUME NEW S \in SUBSET Attempt
      PROVE  IsFiniteSet(S) /\ Cardinality(S) \in Nat /\ Cardinality(S) <= Cardinality(Attempt)
  BY <1>1, FS_Subset, FS_CardinalityType
<1>3. ASSUME NEW S \in SUBSET Attempt, NEW a \in Attempt
      PROVE  /\ a \notin S => /\ Cardinality(S \cup {a}) = Cardinality(S) + 1
                              /\ Cardinality(S) + 1 <= Cardinality(Attempt)
             /\ a \in S => Cardinality(S \ {a}) = Cardinality(S) - 1
  <2>1. S \cup {a} \in SUBSET Attempt
    OBVIOUS
  <2>2. Cardinality(S \cup {a}) = IF a \in S THEN Cardinality(S) ELSE Cardinality(S) + 1
    BY <1>2, FS_AddElement
  <2>3. Cardinality(S \ {a}) = IF a \in S THEN Cardinality(S) - 1 ELSE Cardinality(S)
    BY <1>2, FS_RemoveElement
  <2>4. Cardinality(S \cup {a}) <= Cardinality(Attempt)
    BY <1>2, <2>1
  <2> QED
    BY <2>2, <2>3, <2>4
<1> QED
  BY <1>1, <1>2, <1>3

LEMMA LimiterFirst == LimiterInit => LimiterInv
<1> SUFFICES ASSUME LimiterInit PROVE LimiterInv
  OBVIOUS
<1>1. failures = << >> /\ << >> \in Seq(Age) /\ Len(<< >>) = 0 /\ << >> \in Seq(0..Window)
  BY EmptySeq DEF LimiterInit
<1>2. OldestFirst(failures)
  BY <1>1 DEF OldestFirst
<1>3. wrong = Recent(failures)
  <2> DEFINE n == Stale(failures)
  <2>1. failures \in Seq(Age) /\ Len(failures) = 0
    BY <1>1
  <2>2. n \in 0..0 /\ Recent(failures) \in Seq(0..Window) /\ Len(Recent(failures)) = 0 - n
    BY <1>2, <2>1, RecentIsASuffix
  <2>3. Len(Recent(failures)) = 0 /\ Recent(failures) \in Seq(0..Window)
    <3>1. n = 0
      BY <2>2
    <3>2. 0 - n = 0
      BY <3>1
    <3> QED
      BY <2>2, <3>2
  <2>4. Recent(failures) = << >>
    BY <2>3, EmptySeq
  <2> QED
    BY <2>4 DEF LimiterInit
<1>4. Resolving = {}
  BY DEF LimiterInit, Resolving
<1>5. Len(wrong) + Cardinality(Resolving) <= Limit + Cardinality(Attempt) - 1
  BY <1>1, <1>4, FS_EmptySet, ResolvingAreFew, LimiterAssumption DEF LimiterInit
<1>6. LimiterTypeOK
  BY <1>1 DEF LimiterInit, LimiterTypeOK, Age
<1> QED
  BY <1>2, <1>3, <1>5, <1>6 DEF LimiterInv

LEMMA LimiterStep ==
  ASSUME LimiterInv, [LimiterNext]_limiterVars
  PROVE  LimiterInv'
<1>1. /\ failures \in Seq(Age) /\ wrong \in Seq(0..Window)
      /\ attempt \in [Attempt -> {"idle", "resolving", "refused"}]
      /\ OldestFirst(failures) /\ wrong = Recent(failures)
      /\ Len(wrong) \in Nat /\ Resolving \in SUBSET Attempt
      /\ Len(wrong) + Cardinality(Resolving) <= Limit + Cardinality(Attempt) - 1
      /\ Limit \in Nat \ {0}
  BY LenProperties, LimiterAssumption DEF LimiterInv, LimiterTypeOK, Resolving, Age
<1> DEFINE Kept == failures' \in Seq(Age) /\ wrong' \in Seq(0..Window) /\ OldestFirst(failures')
                   /\ wrong' = Recent(failures')
           Placed == attempt' \in [Attempt -> {"idle", "resolving", "refused"}]
           Few == Len(wrong') + Cardinality(Resolving') <= Limit + Cardinality(Attempt) - 1
<1>2. ASSUME Kept, Placed, Few
      PROVE  LimiterInv'
  <2>1. LimiterTypeOK'
    BY <1>2 DEF LimiterTypeOK, Age, Old
  <2>2. OldestFirst(failures)' /\ (wrong = Recent(failures))'
    BY <1>2 DEF OldestFirst, Recent, Stale
  <2> QED
    BY <1>2, <2>1, <2>2 DEF LimiterInv
<1>3. ASSUME NEW a \in Attempt, Check(a)
      PROVE  Kept /\ Placed /\ Few
  <2>1. /\ failures' = Recent(failures) /\ wrong' = wrong /\ attempt[a] = "idle"
        /\ attempt' = [attempt EXCEPT ![a] = IF Len(Recent(failures)) >= Limit THEN "refused"
                                             ELSE "resolving"]
    BY <1>3 DEF Check
  <2>2. Kept
    BY <1>1, <2>1, RecentIsOldestFirst
  <2>3. Placed
    BY <1>1, <2>1
  <2>4. CASE Len(wrong) >= Limit
    <3>1. Resolving' = Resolving
      BY <1>1, <2>1, <2>4 DEF Resolving
    <3> QED
      BY <1>1, <2>1, <2>2, <2>3, <3>1
  <2>5. CASE ~(Len(wrong) >= Limit)
    <3>1. Resolving' = Resolving \cup {a} /\ a \notin Resolving
      BY <1>1, <2>1, <2>5 DEF Resolving
    <3>2. /\ Cardinality(Resolving') = Cardinality(Resolving) + 1
          /\ Cardinality(Resolving) + 1 <= Cardinality(Attempt)
          /\ Cardinality(Resolving) \in Nat /\ Cardinality(Attempt) \in Nat
      BY <1>1, <3>1, ResolvingAreFew
    <3>3. Few
      BY <1>1, <2>1, <2>5, <3>2
    <3> QED
      BY <2>2, <2>3, <3>3
  <2> QED
    BY <2>4, <2>5
<1>4. ASSUME NEW a \in Attempt, Succeed(a) \/ Answer429(a)
      PROVE  Kept /\ Placed /\ Few
  <2>1. /\ failures' = failures /\ wrong' = wrong
        /\ attempt' = [attempt EXCEPT ![a] = "idle"]
    BY <1>4 DEF Succeed, Answer429
  <2>2. Kept /\ Placed
    BY <1>1, <2>1
  <2>3. Resolving' = Resolving \/ (a \in Resolving /\ Resolving' = Resolving \ {a})
    BY <1>1, <2>1 DEF Resolving
  <2>4. Cardinality(Resolving') <= Cardinality(Resolving) /\ Cardinality(Resolving') \in Nat
    <3>1. Cardinality(Resolving) \in Nat
      BY <1>1, ResolvingAreFew
    <3>2. CASE Resolving' = Resolving
      BY <3>1, <3>2
    <3>3. CASE a \in Resolving /\ Resolving' = Resolving \ {a}
      <4>1. Cardinality(Resolving') = Cardinality(Resolving) - 1
        BY <1>1, <3>3, ResolvingAreFew
      <4>2. Resolving' \in SUBSET Attempt
        BY <1>1, <3>3
      <4>3. Cardinality(Resolving') \in Nat
        BY <4>2, ResolvingAreFew
      <4> QED
        BY <3>1, <4>1, <4>3
    <3> QED
      BY <2>3, <3>2, <3>3
  <2>5. Few
    BY <1>1, <2>1, <2>4, ResolvingAreFew
  <2> QED
    BY <2>2, <2>5
<1>5. ASSUME NEW a \in Attempt, RecordFailure(a)
      PROVE  Kept /\ Placed /\ Few
  <2>1. /\ failures' = Append(failures, 0) /\ wrong' = Append(wrong, 0)
        /\ attempt' = [attempt EXCEPT ![a] = "idle"] /\ attempt[a] = "resolving"
    BY <1>5 DEF RecordFailure
  <2>2. 0 \in 0..Window
    BY AgesAreNumbers
  <2>3. wrong' \in Seq(0..Window) /\ Len(wrong') = Len(wrong) + 1
    BY <1>1, <2>1, <2>2, AppendProperties
  <2>4. Kept
    BY <1>1, <2>1, <2>3, RecentOfAppend
  <2>5. Placed
    BY <1>1, <2>1
  <2>6. a \in Resolving /\ Resolving' = Resolving \ {a}
    BY <1>1, <2>1 DEF Resolving
  <2>7. Cardinality(Resolving') = Cardinality(Resolving) - 1 /\ Cardinality(Resolving) \in Nat
    BY <1>1, <2>6, ResolvingAreFew
  <2>8. Few
    BY <1>1, <2>3, <2>7, ResolvingAreFew
  <2> QED
    BY <2>4, <2>5, <2>8
<1>6. ASSUME Later
      PROVE  Kept /\ Placed /\ Few
  <2> DEFINE older == Aged(wrong)
  <2>1. /\ failures' = Aged(failures) /\ attempt' = attempt
        /\ wrong' = SubSeq(older, Len(older) - Cardinality({i \in DOMAIN older : older[i] <= Window}) + 1,
                           Len(older))
    BY <1>6 DEF Later
  <2>2. failures' \in Seq(Age) /\ OldestFirst(failures')
    BY <1>1, <2>1, AgedAges
  <2>3. wrong \in Seq(Age) /\ OldestFirst(wrong)
    BY <1>1, RecentIsOldestFirst
  <2>4. older \in Seq(Age) /\ OldestFirst(older) /\ Len(older) = Len(wrong)
    BY <2>3, AgedAges
  <2>5. wrong' = Recent(older)
    BY <2>1, <2>4, LastOnesAreRecent
  <2>6. wrong' = Recent(failures')
    BY <1>1, <2>1, <2>5, RecentOfAged
  <2>7. Len(wrong') <= Len(wrong) /\ Len(wrong') \in Nat /\ wrong' \in Seq(0..Window)
    BY <1>1, <2>4, <2>5, RecentIsASuffix
  <2>8. Resolving' = Resolving
    BY <2>1 DEF Resolving
  <2>9. Few
    BY <1>1, <2>7, <2>8, ResolvingAreFew
  <2> QED
    BY <1>1, <2>1, <2>2, <2>6, <2>7, <2>9
<1>7. CASE UNCHANGED limiterVars
  BY <1>7 DEF limiterVars, LimiterInv, LimiterTypeOK, OldestFirst, Recent, Stale, Resolving
<1> QED
  BY <1>2, <1>3, <1>4, <1>5, <1>6, <1>7 DEF LimiterNext

\* The limiter's invariant holds in every behaviour.
THEOREM LimiterAlways == LimiterSpec => []LimiterInv
BY LimiterFirst, LimiterStep, PTL DEF LimiterSpec

\* However attempts race between the check and the record, no more failures than the limit
\* allows, and one for each attempt but one in flight, get into a window.
THEOREM LimiterAlwaysHolds == LimiterSpec => []LimiterHolds
<1>1. LimiterInv => LimiterHolds
  <2> SUFFICES ASSUME LimiterInv PROVE LimiterHolds
    OBVIOUS
  <2>1. /\ Resolving \in SUBSET Attempt /\ wrong \in Seq(0..Window) /\ wrong = Recent(failures)
        /\ Len(wrong) + Cardinality(Resolving) <= Limit + Cardinality(Attempt) - 1
    BY DEF LimiterInv, LimiterTypeOK, Resolving
  <2>2. Cardinality(Resolving) \in Nat /\ Cardinality(Attempt) \in Nat /\ Len(wrong) \in Nat
    BY <2>1, ResolvingAreFew, LenProperties
  <2>3. WindowBounded
    BY <2>1, <2>2, LimiterAssumption DEF WindowBounded
  <2> QED
    BY <2>3 DEF LimiterInv, LimiterHolds
<1> QED
  BY <1>1, LimiterAlways, PTL

\* A client is refused only when as many of its attempts as the limit failed within one
\* window.
THEOREM RefusalsAreEarned == LimiterSpec => RefusedForFailures
<1> DEFINE Reason == \A a \in Attempt : attempt[a] # "refused" /\ attempt'[a] = "refused" =>
                       Len(wrong) >= Limit
<1>1. ASSUME LimiterInv, [LimiterNext]_limiterVars
      PROVE  [Reason]_limiterVars
  <2>1. attempt \in [Attempt -> {"idle", "resolving", "refused"}] /\ wrong = Recent(failures)
    BY <1>1 DEF LimiterInv, LimiterTypeOK
  <2>2. ASSUME NEW a \in Attempt, attempt[a] # "refused", attempt'[a] = "refused"
        PROVE  Len(wrong) >= Limit
    <3>1. attempt' # attempt
      BY <2>2
    <3>2. ~Later
      BY <3>1 DEF Later
    <3>3. PICK b \in Attempt : Check(b) \/ Succeed(b) \/ RecordFailure(b) \/ Answer429(b)
      BY <1>1, <3>1, <3>2 DEF LimiterNext, limiterVars
    <3>4. CASE Succeed(b) \/ RecordFailure(b) \/ Answer429(b)
      BY <2>1, <2>2, <3>4 DEF Succeed, RecordFailure, Answer429
    <3>5. CASE Check(b)
      <4>1. /\ failures' = Recent(failures)
            /\ attempt' = [attempt EXCEPT ![b] = IF Len(Recent(failures)) >= Limit THEN "refused"
                                                 ELSE "resolving"]
        BY <3>5 DEF Check
      <4> QED
        BY <2>1, <2>2, <4>1
    <3> QED
      BY <3>3, <3>4, <3>5
  <2> QED
    BY <2>2
<1> QED
  BY <1>1, LimiterAlways, PTL DEF LimiterSpec, RefusedForFailures

-----------------------------------------------------------------------------
(***************************************************************************)
(* Keys and tokens.  What a request in flight remembers makes sense of the *)
(* keys as they are now.  While removals do not overlap, one request at a  *)
(* time takes a key away, and what it checked is still so when it commits. *)
(***************************************************************************)
KeyMemory ==
  [ pc : {"idle", "update", "commit", "mint"},
    op : {"issue", "rotate", "revoke", "end", "exchange"},
    target : Key \cup {NoKey}, fresh : Key \cup {NoKey}, admin : BOOLEAN, stamp : 0..MaxTime ]

\* A new key is nobody's yet, and the key a request is about was issued; a replacement is
\* an ADMIN key when the key it replaces is.
Sensible(r, m) ==
  /\ m.target # NoKey => keys[m.target].status # "none"
  /\ m.fresh # NoKey => /\ keys[m.fresh].status = "none"
                        /\ \A q \in KeyRequest \ {r} : request[q].fresh # m.fresh
  /\ m.op = "rotate" => /\ m.target \in Key /\ m.fresh \in Key
                        /\ m.admin = keys[m.target].admin
  /\ m.op \in {"revoke", "end", "exchange"} => m.fresh = NoKey /\ m.target \in Key
  /\ m.op = "issue" => m.target = NoKey
  /\ m.pc = "mint" => m.target \in Key

Meaningful == \A r \in KeyRequest : Sensible(r, request[r])

\* A key that was not issued has no tokens that ended, and no line but its own.
NewKeysAreClean ==
  \A k \in Key : keys[k].status = "none" =>
    /\ endedAt[k] = 0 /\ keys[k].notBefore = 0
    /\ \A j \in Key : line[j] = k <=> j = k

TokensInOrder == \A t \in tokens : t.issuedAt <= t.minted

\* A key's row tells when its tokens were ended last, and whoever ends them now read the
\* clock after that.
EndsInOrder ==
  /\ \A r \in KeyRequest : request[r].stamp <= now
  /\ \A k \in Key :
       /\ endedAt[k] <= now
       /\ k \notin raced =>
            /\ keys[k].notBefore = endedAt[k]
            /\ \A r \in KeyRequest : Ending(r, k) =>
                 /\ request[r].stamp > endedAt[k]
                 /\ \A q \in KeyRequest : Ending(q, k) => q = r

\* One request at a time takes a key away, and what it found is still so.
AloneRemoving(r) ==
  /\ \A q \in KeyRequest : Removing(q) => q = r
  /\ request[r].op = "revoke" => StandingAdmins \ {request[r].target} # {}
  /\ request[r].op = "rotate" => Standing(request[r].target)

SerialRemoval == ~overlapped => \A r \in KeyRequest : Removing(r) => AloneRemoving(r)

KeysInv ==
  /\ KeysTypeOK /\ Meaningful /\ NewKeysAreClean /\ TokensInOrder /\ EndsInOrder
  /\ SerialAdminRemains /\ SerialOneOfALine /\ SerialRemoval

-----------------------------------------------------------------------------
LEMMA MillisecondsPast == \A time \in Nat : Milliseconds(time) \in 0..time
<1> SUFFICES ASSUME NEW time \in Nat PROVE Milliseconds(time) \in 0..time
  OBVIOUS
<1>1. time % Tick \in 0..time
  BY AccessKeysAssumption, Z3
<1> QED
  BY <1>1 DEF Milliseconds

LEMMA UnusedHasALowest == Unused # {} => Lowest(Unused) \in Unused
<1>1. Unused \in SUBSET Nat
  BY AccessKeysAssumption DEF Unused, Key
<1>2. Unused # {} => \E k \in Unused : \A j \in Unused : k <= j
  BY <1>1, LeastNatural
<1> QED
  BY <1>2 DEF Lowest

LEMMA KeysAreNumbers ==
  /\ \A k \in Key : k # NoKey
  /\ 1 \in Key /\ 0 \in 0..MaxTime /\ MaxTime \in Nat
BY AccessKeysAssumption DEF Key, NoKey

LEMMA MemoriesAreTyped == KeysTypeOK <=>
  /\ keys \in [Key -> KeyRow] /\ request \in [KeyRequest -> KeyMemory] /\ tokens \subseteq Token
  /\ now \in 0..MaxTime /\ line \in [Key -> Key] /\ endedAt \in [Key -> 0..MaxTime]
  /\ raced \subseteq Key /\ overlapped \in BOOLEAN
BY DEF KeysTypeOK, KeyMemory

LEMMA IdleIsAMemory ==
  /\ Idle \in KeyMemory /\ Idle.pc = "idle" /\ Idle.op = "issue" /\ Idle.target = NoKey
  /\ Idle.fresh = NoKey /\ Idle.stamp = 0
BY KeysAreNumbers DEF Idle, KeyMemory

LEMMA KeysFirst == KeysInit => KeysInv
<1> SUFFICES ASSUME KeysInit PROVE KeysInv
  OBVIOUS
<1>1. /\ keys = [k \in Key |-> [status |-> IF k = 1 THEN "active" ELSE "none",
                                admin |-> k = 1, notBefore |-> 0]]
      /\ request = [r \in KeyRequest |-> Idle] /\ line = [k \in Key |-> k]
      /\ endedAt = [k \in Key |-> 0] /\ tokens = {} /\ now = 0 /\ raced = {} /\ overlapped = FALSE
  BY DEF KeysInit
<1>2. keys \in [Key -> KeyRow]
  BY <1>1, KeysAreNumbers DEF KeyRow
<1>3. KeysTypeOK
  BY <1>1, <1>2, IdleIsAMemory, KeysAreNumbers, MemoriesAreTyped
<1>4. Meaningful
  BY <1>1, IdleIsAMemory DEF Meaningful, Sensible
<1>5. NewKeysAreClean /\ TokensInOrder
  BY <1>1 DEF NewKeysAreClean, TokensInOrder
<1>6. \A r \in KeyRequest : request[r].pc = "idle" /\ request[r].stamp = 0
  BY <1>1, IdleIsAMemory
<1>7. EndsInOrder
  BY <1>1, <1>6 DEF EndsInOrder, Ending
<1>8. SerialRemoval
  BY <1>6 DEF SerialRemoval, Removing
<1>9. \A k \in Key : keys[k].status = "active" <=> k = 1
  BY <1>1
<1>10. 1 \in StandingAdmins
  BY <1>1, <1>9, KeysAreNumbers DEF StandingAdmins, Standing
<1>11. SerialOneOfALine
  BY <1>9 DEF SerialOneOfALine, Standing
<1> QED
  BY <1>3, <1>4, <1>5, <1>7, <1>8, <1>10, <1>11 DEF KeysInv, SerialAdminRemains

-----------------------------------------------------------------------------
\* Request r now knows m, and no row has changed.
Knows(r, m) ==
  /\ keys' = keys /\ line' = line /\ endedAt' = endedAt
  /\ request' = [request EXCEPT ![r] = m]
  /\ m \in KeyMemory /\ Sensible(r, m)
  /\ now' \in 0..MaxTime /\ now <= now' /\ m.stamp <= now'

\* What it knows now takes no key away and ends no tokens, or it did that before.
Harmless(r, m) ==
  \/ m.pc = "idle" \/ m.op \in {"issue", "exchange"}
  \/ /\ request[r].pc # "idle" /\ m.op = request[r].op /\ m.target = request[r].target
     /\ m.stamp = request[r].stamp

LEMMA KnowsKeepsSense ==
  ASSUME KeysInv, NEW r \in KeyRequest, NEW m, Knows(r, m)
  PROVE  /\ request' \in [KeyRequest -> KeyMemory] /\ request'[r] = m
         /\ \A q \in KeyRequest \ {r} : request'[q] = request[q]
         /\ Meaningful' /\ NewKeysAreClean'
<1>1. request \in [KeyRequest -> KeyMemory]
  BY MemoriesAreTyped DEF KeysInv
<1>2. /\ request' \in [KeyRequest -> KeyMemory] /\ request'[r] = m
      /\ \A q \in KeyRequest \ {r} : request'[q] = request[q]
  BY <1>1 DEF Knows
<1>3. Sensible(r, m) /\ \A q \in KeyRequest : Sensible(q, request[q])
  BY DEF KeysInv, Meaningful, Knows
<1>4. ASSUME NEW q \in KeyRequest
      PROVE  Sensible(q, request[q])'
  <2>1. keys' = keys
    BY DEF Knows
  <2>2. CASE q = r
    BY <1>2, <1>3, <2>1, <2>2 DEF Sensible
  <2>3. CASE q # r
    <3>1. Sensible(q, request[q]) /\ request'[q] = request[q]
      BY <1>2, <1>3, <2>3
    <3>2. ASSUME request[q].fresh # NoKey
          PROVE  \A p \in KeyRequest \ {q} : request'[p].fresh # request[q].fresh
      <4>1. \A p \in KeyRequest \ {q, r} : request'[p].fresh # request[q].fresh
        BY <1>2, <3>1, <3>2 DEF Sensible
      <4>2. m.fresh # request[q].fresh
        BY <1>3, <2>3, <3>2 DEF Sensible
      <4> QED
        BY <1>2, <4>1, <4>2
    <3> QED
      BY <2>1, <3>1, <3>2 DEF Sensible
  <2> QED
    BY <2>2, <2>3
<1>5. Meaningful'
  BY <1>4 DEF Meaningful
<1>6. NewKeysAreClean'
  BY DEF KeysInv, NewKeysAreClean, Knows
<1> QED
  BY <1>2, <1>5, <1>6

LEMMA HarmlessKeepsOrder ==
  ASSUME KeysInv, NEW r \in KeyRequest, NEW m, Knows(r, m), Harmless(r, m), raced' = raced
  PROVE  EndsInOrder'
<1>1. /\ request'[r] = m /\ \A q \in KeyRequest \ {r} : request'[q] = request[q]
      /\ \A q \in KeyRequest : request[q] \in KeyMemory /\ request[q].stamp <= now
      /\ now \in Nat /\ now' \in Nat /\ now <= now' /\ m \in KeyMemory /\ m.stamp <= now'
  BY KnowsKeepsSense, MemoriesAreTyped, AccessKeysAssumption DEF KeysInv, EndsInOrder, Knows
<1>2. keys' = keys /\ endedAt' = endedAt /\ \A k \in Key : endedAt[k] \in Nat /\ endedAt[k] <= now
  BY MemoriesAreTyped, AccessKeysAssumption DEF KeysInv, EndsInOrder, Knows
<1>3. \A q \in KeyRequest : request'[q].stamp <= now'
  <2> SUFFICES ASSUME NEW q \in KeyRequest PROVE request'[q].stamp <= now'
    OBVIOUS
  <2>1. CASE q = r
    BY <1>1, <2>1
  <2>2. CASE q # r
    <3>1. request'[q].stamp = request[q].stamp /\ request[q].stamp \in Nat
      BY <1>1, <2>2, AccessKeysAssumption DEF KeyMemory
    <3> QED
      BY <1>1, <3>1
  <2> QED
    BY <2>1, <2>2
<1>4. ASSUME NEW k \in Key, NEW q \in KeyRequest, Ending(q, k)'
      PROVE  Ending(q, k) /\ request'[q].stamp = request[q].stamp
  BY <1>1, <1>4 DEF Ending, Harmless
<1>5. \A k \in Key : endedAt'[k] <= now'
  BY <1>1, <1>2
<1> HIDE DEF Ending
<1>6. ASSUME NEW k \in Key, k \notin raced'
      PROVE  /\ keys'[k].notBefore = endedAt'[k]
             /\ \A q \in KeyRequest : Ending(q, k)' =>
                  /\ request'[q].stamp > endedAt'[k]
                  /\ \A p \in KeyRequest : Ending(p, k)' => p = q
  BY <1>2, <1>4, <1>6 DEF KeysInv, EndsInOrder
<1> QED
  BY <1>3, <1>5, <1>6 DEF EndsInOrder

LEMMA HarmlessKeepsAdmins ==
  ASSUME KeysInv, NEW r \in KeyRequest, NEW m, Knows(r, m), Harmless(r, m),
         overlapped' = overlapped
  PROVE  SerialAdminRemains' /\ SerialOneOfALine' /\ SerialRemoval'
<1>1. /\ request'[r] = m /\ \A q \in KeyRequest \ {r} : request'[q] = request[q]
      /\ keys' = keys /\ line' = line
  BY KnowsKeepsSense DEF Knows
<1>2. StandingAdmins' = StandingAdmins /\ \A k \in Key : Standing(k)' = Standing(k)
  BY <1>1 DEF StandingAdmins, Standing
<1>3. SerialAdminRemains' /\ SerialOneOfALine'
  BY <1>1, <1>2 DEF KeysInv, SerialAdminRemains, SerialOneOfALine, Standing
<1>4. ASSUME NEW q \in KeyRequest, Removing(q)'
      PROVE  /\ Removing(q) /\ request'[q].op = request[q].op
             /\ request'[q].target = request[q].target
  BY <1>1, <1>4 DEF Removing, Harmless
<1>5. ASSUME ~overlapped', NEW q \in KeyRequest, Removing(q)'
      PROVE  AloneRemoving(q)'
  <2>1. AloneRemoving(q)
    BY <1>4, <1>5 DEF KeysInv, SerialRemoval
  <2>2. \A p \in KeyRequest : Removing(p)' => p = q
    BY <1>4, <2>1 DEF AloneRemoving
  <2>3. request'[q].op = request[q].op /\ request'[q].target = request[q].target
    BY <1>4, <1>5
  <2> QED
    BY <1>1, <1>2, <2>1, <2>2, <2>3 DEF AloneRemoving, Standing
<1>6. SerialRemoval'
  BY <1>5 DEF SerialRemoval
<1> QED
  BY <1>3, <1>6

LEMMA HarmlessStep ==
  ASSUME KeysInv, NEW r \in KeyRequest, NEW m, Knows(r, m), Harmless(r, m),
         raced' = raced, overlapped' = overlapped, tokens' \subseteq Token, TokensInOrder'
  PROVE  KeysInv'
<1>1. KeysTypeOK'
  <2>1. /\ keys' = keys /\ line' = line /\ endedAt' = endedAt /\ now' \in 0..MaxTime
        /\ request' \in [KeyRequest -> KeyMemory]
    BY KnowsKeepsSense DEF Knows
  <2>2. KeysTypeOK
    BY DEF KeysInv
  <2> QED
    BY <2>1, <2>2 DEF KeysTypeOK, KeyMemory, Key, KeyRow, Token
<1>2. Meaningful' /\ NewKeysAreClean' /\ EndsInOrder'
  BY KnowsKeepsSense, HarmlessKeepsOrder
<1>3. SerialAdminRemains' /\ SerialOneOfALine' /\ SerialRemoval'
  BY HarmlessKeepsAdmins
<1> QED
  BY <1>1, <1>2, <1>3 DEF KeysInv

LEMMA ClockGoesOn ==
  ASSUME KeysInv, now < MaxTime, now' = now + 1
  PROVE  now \in Nat /\ now' \in 0..MaxTime /\ now < now'
BY AccessKeysAssumption DEF KeysInv, KeysTypeOK

LEMMA IssueIsHarmless ==
  ASSUME KeysInv, NEW r \in KeyRequest, NEW admin \in BOOLEAN, BeginIssue(r, admin)
  PROVE  KeysInv'
<1> DEFINE m == [Idle EXCEPT !.pc = "commit", !.fresh = Lowest(Unused), !.admin = admin]
<1>1. /\ Lowest(Unused) \in Key /\ keys[Lowest(Unused)].status = "none"
      /\ \A q \in KeyRequest : request[q].fresh # Lowest(Unused)
  BY UnusedHasALowest DEF BeginIssue, Unused
<1>2. /\ m.pc = "commit" /\ m.op = "issue" /\ m.target = NoKey /\ m.fresh = Lowest(Unused)
      /\ m.stamp = 0 /\ m \in KeyMemory
  BY <1>1, KeysAreNumbers DEF Idle, KeyMemory
<1>3. /\ request' = [request EXCEPT ![r] = m] /\ now < MaxTime /\ now' = now + 1
      /\ UNCHANGED <<keys, tokens, line, endedAt, raced, overlapped>>
  BY DEF BeginIssue, BeginKeyRequest
<1> HIDE DEF m
<1>4. Sensible(r, m)
  BY <1>1, <1>2 DEF Sensible
<1>5. Knows(r, m)
  BY <1>2, <1>3, <1>4, ClockGoesOn DEF Knows
<1>6. Harmless(r, m)
  BY <1>2 DEF Harmless
<1>7. tokens' \subseteq Token /\ TokensInOrder'
  BY <1>3 DEF KeysInv, KeysTypeOK, TokensInOrder, Token, Key
<1> QED
  BY <1>3, <1>5, <1>6, <1>7, HarmlessStep

LEMMA ResolveIsHarmless ==
  ASSUME KeysInv, NEW r \in KeyRequest, NEW k \in Key, Resolve(r, k)
  PROVE  KeysInv'
<1> DEFINE m == [Idle EXCEPT !.pc = "mint", !.op = "exchange", !.target = k]
<1>1. /\ m.op = "exchange" /\ m.target = k /\ m.fresh = NoKey /\ m.stamp = 0 /\ m \in KeyMemory
  BY KeysAreNumbers DEF Idle, KeyMemory
<1>2. /\ request' = [request EXCEPT ![r] = m] /\ Standing(k)
      /\ UNCHANGED <<keys, tokens, now, line, endedAt, raced, overlapped>>
  BY DEF Resolve
<1> HIDE DEF m
<1>3. Sensible(r, m)
  BY <1>1, <1>2 DEF Sensible, Standing
<1>4. now \in 0..MaxTime /\ now \in Nat
  BY AccessKeysAssumption DEF KeysInv, KeysTypeOK
<1>5. Knows(r, m)
  BY <1>1, <1>2, <1>3, <1>4 DEF Knows
<1>6. Harmless(r, m)
  BY <1>1 DEF Harmless
<1>7. tokens' \subseteq Token /\ TokensInOrder'
  BY <1>2 DEF KeysInv, KeysTypeOK, TokensInOrder, Token, Key
<1> QED
  BY <1>2, <1>5, <1>6, <1>7, HarmlessStep

LEMMA IdleIsKnown ==
  ASSUME KeysInv, NEW r \in KeyRequest, request' = [request EXCEPT ![r] = Idle],
         UNCHANGED <<keys, line, endedAt>>, now' \in 0..MaxTime, now <= now'
  PROVE  Knows(r, Idle) /\ Harmless(r, Idle)
<1>1. Sensible(r, Idle)
  BY IdleIsAMemory DEF Sensible
<1>2. 0 <= now'
  BY AccessKeysAssumption
<1> QED
  BY <1>1, <1>2, IdleIsAMemory DEF Knows, Harmless

LEMMA FailIsHarmless ==
  ASSUME KeysInv, NEW r \in KeyRequest, FailKeys(r)
  PROVE  KeysInv'
<1>1. /\ request' = [request EXCEPT ![r] = Idle]
      /\ UNCHANGED <<keys, tokens, now, line, endedAt, raced, overlapped>>
  BY DEF FailKeys
<1>2. now \in 0..MaxTime /\ now <= now
  BY AccessKeysAssumption DEF KeysInv, KeysTypeOK
<1>3. Knows(r, Idle) /\ Harmless(r, Idle)
  BY <1>1, <1>2, IdleIsKnown
<1>4. tokens' \subseteq Token /\ TokensInOrder'
  BY <1>1 DEF KeysInv, KeysTypeOK, TokensInOrder, Token, Key
<1> QED
  BY <1>1, <1>3, <1>4, HarmlessStep

LEMMA MintIsHarmless ==
  ASSUME KeysInv, NEW r \in KeyRequest, Mint(r)
  PROVE  KeysInv'
<1> DEFINE t == [key |-> request[r].target, minted |-> now', issuedAt |-> Milliseconds(now')]
<1>1. /\ request' = [request EXCEPT ![r] = Idle] /\ request[r].pc = "mint"
      /\ now < MaxTime /\ now' = now + 1 /\ tokens' = tokens \cup {t}
      /\ UNCHANGED <<keys, line, endedAt, raced, overlapped>>
  BY DEF Mint
<1>2. now \in Nat /\ now' \in 0..MaxTime /\ now <= now' /\ now' \in 1..MaxTime /\ now' \in Nat
  BY <1>1, ClockGoesOn, AccessKeysAssumption
<1>3. Knows(r, Idle) /\ Harmless(r, Idle)
  BY <1>1, <1>2, IdleIsKnown
<1>4. Milliseconds(now') \in 0..now'
  BY <1>2, MillisecondsPast
<1>5. Milliseconds(now') \in 0..MaxTime /\ Milliseconds(now') <= now'
  BY <1>2, <1>4, AccessKeysAssumption
<1>6. request[r].target \in Key
  BY <1>1 DEF KeysInv, Meaningful, Sensible
<1>7. t \in Token /\ t.issuedAt <= t.minted
  BY <1>2, <1>5, <1>6 DEF Token
<1> HIDE DEF t
<1>8. tokens' \subseteq Token /\ TokensInOrder'
  BY <1>1, <1>7 DEF KeysInv, KeysTypeOK, TokensInOrder
<1> QED
  BY <1>1, <1>3, <1>8, HarmlessStep

LEMMA UpdateIsHarmless ==
  ASSUME KeysInv, NEW r \in KeyRequest, UpdateRow(r)
  PROVE  KeysInv'
<1> DEFINE old == request[r]
           m == [request[r] EXCEPT !.pc = "commit"]
<1>1. old \in KeyMemory /\ Sensible(r, old) /\ old.stamp <= now
  BY MemoriesAreTyped DEF KeysInv, Meaningful, EndsInOrder
<1>2. request \in [KeyRequest -> KeyMemory]
  BY MemoriesAreTyped DEF KeysInv
<1>3. /\ old.pc = "update" /\ request' = [request EXCEPT ![r] = m]
      /\ UNCHANGED <<keys, tokens, now, line, endedAt, raced, overlapped>>
  BY <1>2 DEF UpdateRow
<1>4. /\ m \in KeyMemory /\ m.pc = "commit" /\ m.op = old.op /\ m.target = old.target
      /\ m.fresh = old.fresh /\ m.admin = old.admin /\ m.stamp = old.stamp
  BY <1>1 DEF KeyMemory
<1> HIDE DEF m
<1>5. Sensible(r, m)
  BY <1>1, <1>4 DEF Sensible
<1>6. now \in 0..MaxTime /\ now <= now
  BY AccessKeysAssumption DEF KeysInv, KeysTypeOK
<1>7. Knows(r, m)
  BY <1>1, <1>3, <1>4, <1>5, <1>6 DEF Knows
<1>8. Harmless(r, m)
  BY <1>3, <1>4 DEF Harmless
<1>9. tokens' \subseteq Token /\ TokensInOrder'
  BY <1>3 DEF KeysInv, KeysTypeOK, TokensInOrder, Token, Key
<1> QED
  BY <1>3, <1>7, <1>8, <1>9, HarmlessStep

\* A request that takes a key away begins: it is alone, or overlapped says that it is not.
LEMMA RemovalBegins ==
  ASSUME KeysInv, NEW r \in KeyRequest, NEW m, Knows(r, m), request[r].pc = "idle",
         m.op \in {"rotate", "revoke"}, NoteRemoval(r), raced' = raced, tokens' = tokens,
         m.op = "revoke" => StandingAdmins \ {m.target} # {},
         m.op = "rotate" => Standing(m.target),
         StandingAdmins # {}
  PROVE  KeysInv'
<1>1. /\ request'[r] = m /\ \A q \in KeyRequest \ {r} : request'[q] = request[q]
      /\ keys' = keys /\ line' = line /\ endedAt' = endedAt
      /\ request' \in [KeyRequest -> KeyMemory] /\ Meaningful' /\ NewKeysAreClean'
      /\ now' \in 0..MaxTime /\ now <= now' /\ m.stamp <= now'
  BY KnowsKeepsSense DEF Knows
<1>2. StandingAdmins' = StandingAdmins /\ \A k \in Key : Standing(k)' = Standing(k)
  BY <1>1 DEF StandingAdmins, Standing
<1>3. overlapped' \in BOOLEAN
  BY MemoriesAreTyped DEF KeysInv, NoteRemoval
<1>4. KeysTypeOK'
  <2>1. KeysTypeOK
    BY DEF KeysInv
  <2> QED
    BY <1>1, <1>3, <2>1 DEF KeysTypeOK, KeyMemory, Key, KeyRow, Token
<1>5. ASSUME ~overlapped'
      PROVE  ~overlapped /\ \A q \in KeyRequest \ {r} : ~Removing(q)
  BY <1>5 DEF NoteRemoval
<1>6. SerialAdminRemains'
  BY <1>2 DEF SerialAdminRemains
<1>7. SerialOneOfALine'
  BY <1>1, <1>2, <1>5 DEF KeysInv, SerialOneOfALine, Standing
<1>8. ASSUME ~overlapped', NEW q \in KeyRequest, Removing(q)'
      PROVE  AloneRemoving(q)'
  <2>1. \A p \in KeyRequest : Removing(p)' => p = r
    BY <1>1, <1>5, <1>8 DEF Removing
  <2>2. q = r
    BY <1>8, <2>1
  <2> QED
    BY <1>1, <1>2, <2>1, <2>2 DEF AloneRemoving, Standing
<1>9. SerialRemoval'
  BY <1>8 DEF SerialRemoval
<1>10. TokensInOrder'
  BY DEF KeysInv, TokensInOrder
<1>11. EndsInOrder'
  <2>1. /\ \A q \in KeyRequest : request[q] \in KeyMemory /\ request[q].stamp <= now
        /\ \A k \in Key : endedAt[k] \in Nat /\ endedAt[k] <= now
        /\ now \in Nat /\ now' \in Nat
    BY <1>1, MemoriesAreTyped, AccessKeysAssumption DEF KeysInv, EndsInOrder
  <2>2. ASSUME NEW q \in KeyRequest
        PROVE  request'[q].stamp <= now'
    <3>1. CASE q = r
      BY <1>1, <3>1
    <3>2. CASE q # r
      <4>1. request'[q].stamp = request[q].stamp /\ request[q].stamp \in Nat
        BY <1>1, <2>1, <3>2, AccessKeysAssumption DEF KeyMemory
      <4> QED
        BY <1>1, <2>1, <4>1
    <3> QED
      BY <3>1, <3>2
  <2>3. \A k \in Key : endedAt'[k] <= now'
    BY <1>1, <2>1
  <2>4. ASSUME NEW k \in Key, NEW q \in KeyRequest, Ending(q, k)'
        PROVE  Ending(q, k) /\ request'[q].stamp = request[q].stamp
    BY <1>1, <2>4 DEF Ending
  <2> HIDE DEF Ending
  <2>5. ASSUME NEW k \in Key, k \notin raced'
        PROVE  /\ keys'[k].notBefore = endedAt'[k]
               /\ \A q \in KeyRequest : Ending(q, k)' =>
                    /\ request'[q].stamp > endedAt'[k]
                    /\ \A p \in KeyRequest : Ending(p, k)' => p = q
    BY <1>1, <2>4, <2>5 DEF KeysInv, EndsInOrder
  <2> QED
    BY <2>2, <2>3, <2>5 DEF EndsInOrder
<1> QED
  BY <1>1, <1>4, <1>6, <1>7, <1>9, <1>10, <1>11 DEF KeysInv

LEMMA RotateBegins ==
  ASSUME KeysInv, NEW r \in KeyRequest, NEW k \in Key, BeginRotate(r, k)
  PROVE  KeysInv'
<1> DEFINE m == [Idle EXCEPT !.pc = "update", !.op = "rotate", !.target = k,
                   !.fresh = Lowest(Unused), !.admin = keys[k].admin]
<1>1. /\ Lowest(Unused) \in Key /\ keys[Lowest(Unused)].status = "none"
      /\ \A q \in KeyRequest : request[q].fresh # Lowest(Unused)
  BY UnusedHasALowest DEF BeginRotate, Unused
<1>2. keys[k].admin \in BOOLEAN
  BY DEF KeysInv, KeysTypeOK, KeyRow
<1>3. /\ m.op = "rotate" /\ m.target = k /\ m.fresh = Lowest(Unused) /\ m.pc = "update"
      /\ m.admin = keys[k].admin /\ m.stamp = 0 /\ m \in KeyMemory
  BY <1>1, <1>2, KeysAreNumbers DEF Idle, KeyMemory
<1>4. /\ request' = [request EXCEPT ![r] = m] /\ now < MaxTime /\ now' = now + 1
      /\ UNCHANGED <<keys, tokens, line, endedAt, raced>> /\ NoteRemoval(r)
      /\ Standing(k) /\ StandingAdmins # {} /\ request[r].pc = "idle"
  BY IdleIsAMemory DEF BeginRotate, BeginKeyRequest
<1> HIDE DEF m
<1>5. Sensible(r, m)
  BY <1>1, <1>3, <1>4 DEF Sensible, Standing
<1>6. Knows(r, m)
  BY <1>3, <1>4, <1>5, ClockGoesOn DEF Knows
<1> QED
  BY <1>3, <1>4, <1>6, RemovalBegins

LEMMA RevokeBegins ==
  ASSUME KeysInv, NEW r \in KeyRequest, NEW k \in Key, BeginRevoke(r, k)
  PROVE  KeysInv'
<1> DEFINE m == [Idle EXCEPT !.pc = "update", !.op = "revoke", !.target = k]
<1>1. /\ m.op = "revoke" /\ m.target = k /\ m.fresh = NoKey /\ m.pc = "update"
      /\ m.stamp = 0 /\ m \in KeyMemory
  BY KeysAreNumbers DEF Idle, KeyMemory
<1>2. /\ request' = [request EXCEPT ![r] = m] /\ now < MaxTime /\ now' = now + 1
      /\ UNCHANGED <<keys, tokens, line, endedAt, raced>> /\ NoteRemoval(r)
      /\ keys[k].status # "none" /\ StandingAdmins # {} /\ StandingAdmins # {k}
      /\ request[r].pc = "idle"
  BY IdleIsAMemory DEF BeginRevoke, BeginKeyRequest, WouldRemoveLastAdmin
<1> HIDE DEF m
<1>3. Sensible(r, m)
  BY <1>1, <1>2 DEF Sensible
<1>4. Knows(r, m)
  BY <1>1, <1>2, <1>3, ClockGoesOn DEF Knows
<1>5. StandingAdmins \ {k} # {}
  BY <1>2
<1> QED
  BY <1>1, <1>2, <1>4, <1>5, RemovalBegins

LEMMA EndBegins ==
  ASSUME KeysInv, NEW r \in KeyRequest, NEW k \in Key, BeginEndTokens(r, k)
  PROVE  KeysInv'
<1> DEFINE m == [Idle EXCEPT !.pc = "update", !.op = "end", !.target = k, !.stamp = now + 1]
<1>0. now \in Nat /\ now' \in 0..MaxTime /\ now < now' /\ now' = now + 1 /\ now' \in Nat
  BY ClockGoesOn, AccessKeysAssumption DEF BeginEndTokens, BeginKeyRequest
<1>1. /\ m.op = "end" /\ m.target = k /\ m.fresh = NoKey /\ m.pc = "update"
      /\ m.stamp = now' /\ m \in KeyMemory
  BY <1>0, KeysAreNumbers DEF Idle, KeyMemory
<1>2. /\ request' = [request EXCEPT ![r] = m] /\ request[r].pc = "idle"
      /\ UNCHANGED <<keys, tokens, line, endedAt, overlapped>>
      /\ keys[k].status # "none"
      /\ raced' = IF \E q \in KeyRequest \ {r} : Ending(q, k) THEN raced \cup {k} ELSE raced
  BY IdleIsAMemory DEF BeginEndTokens, BeginKeyRequest
<1> HIDE DEF m
<1>3. Sensible(r, m)
  BY <1>1, <1>2 DEF Sensible
<1>4. Knows(r, m)
  BY <1>0, <1>1, <1>2, <1>3 DEF Knows
<1>5. /\ request'[r] = m /\ \A q \in KeyRequest \ {r} : request'[q] = request[q]
      /\ request' \in [KeyRequest -> KeyMemory] /\ Meaningful' /\ NewKeysAreClean'
  BY <1>4, KnowsKeepsSense
<1>6. KeysTypeOK'
  <2>1. KeysTypeOK
    BY DEF KeysInv
  <2>2. raced' \subseteq Key
    BY <1>2, <2>1 DEF KeysTypeOK
  <2> QED
    BY <1>0, <1>2, <1>5, <2>1, <2>2 DEF KeysTypeOK, KeyMemory, Key, KeyRow, Token
<1>7. SerialAdminRemains' /\ SerialOneOfALine'
  BY <1>2 DEF KeysInv, SerialAdminRemains, SerialOneOfALine, Standing, StandingAdmins
<1>8. SerialRemoval'
  <2>1. ASSUME NEW q \in KeyRequest, Removing(q)'
        PROVE  Removing(q) /\ request'[q] = request[q]
    BY <1>1, <1>5, <2>1 DEF Removing
  <2>2. ASSUME ~overlapped', NEW q \in KeyRequest, Removing(q)'
        PROVE  AloneRemoving(q)'
    <3>1. AloneRemoving(q) /\ request'[q] = request[q]
      BY <1>2, <2>1, <2>2 DEF KeysInv, SerialRemoval
    <3>2. \A p \in KeyRequest : Removing(p)' => p = q
      BY <2>1, <3>1 DEF AloneRemoving
    <3> QED
      BY <1>2, <3>1, <3>2 DEF AloneRemoving, Standing, StandingAdmins
  <2> QED
    BY <2>2 DEF SerialRemoval
<1>9. EndsInOrder'
  <2>1. /\ \A q \in KeyRequest : request[q] \in KeyMemory /\ request[q].stamp <= now
        /\ \A j \in Key : endedAt[j] \in Nat /\ endedAt[j] <= now
    BY MemoriesAreTyped, AccessKeysAssumption DEF KeysInv, EndsInOrder
  <2>2. ASSUME NEW q \in KeyRequest
        PROVE  request'[q].stamp <= now'
    <3>1. CASE q = r
      BY <1>0, <1>1, <1>5, <3>1
    <3>2. CASE q # r
      <4>1. request'[q].stamp = request[q].stamp /\ request[q].stamp \in Nat
        BY <1>5, <2>1, <3>2, AccessKeysAssumption DEF KeyMemory
      <4> QED
        BY <1>0, <2>1, <4>1
    <3> QED
      BY <3>1, <3>2
  <2>3. \A j \in Key : endedAt'[j] <= now' /\ endedAt'[j] < now'
    BY <1>0, <1>2, <2>1
  <2>4. ASSUME NEW j \in Key, NEW q \in KeyRequest, Ending(q, j)'
        PROVE  \/ q = r /\ j = k /\ request'[q].stamp = now'
               \/ q # r /\ Ending(q, j) /\ request'[q].stamp = request[q].stamp
    BY <1>1, <1>5, <2>4 DEF Ending
  <2>5. \A j \in Key : j \notin raced' => j \notin raced
    BY <1>2
  <2>6. k \notin raced' => \A q \in KeyRequest \ {r} : ~Ending(q, k)
    BY <1>2
  <2> HIDE DEF Ending
  <2>7. ASSUME NEW j \in Key, j \notin raced', NEW q \in KeyRequest, Ending(q, j)'
        PROVE  /\ request'[q].stamp > endedAt'[j]
               /\ \A p \in KeyRequest : Ending(p, j)' => p = q
    <3>1. CASE q = r
      <4>1. j = k /\ request'[q].stamp = now'
        BY <2>4, <2>7, <3>1
      <4>2. request'[q].stamp > endedAt'[j]
        BY <1>0, <1>2, <2>1, <2>3, <4>1
      <4> QED
        BY <2>4, <2>6, <2>7, <3>1, <4>1, <4>2
    <3>2. CASE q # r
      <4>1. Ending(q, j) /\ request'[q].stamp = request[q].stamp /\ j # k
        BY <2>4, <2>6, <2>7, <3>2
      <4>2. /\ request[q].stamp > endedAt[j]
            /\ \A p \in KeyRequest : Ending(p, j) => p = q
        BY <2>5, <2>7, <4>1 DEF KeysInv, EndsInOrder
      <4> QED
        BY <1>2, <2>4, <4>1, <4>2
    <3> QED
      BY <3>1, <3>2
  <2>8. \A j \in Key : j \notin raced' => keys'[j].notBefore = endedAt'[j]
    BY <1>2, <2>5 DEF KeysInv, EndsInOrder
  <2> QED
    BY <2>2, <2>3, <2>7, <2>8 DEF EndsInOrder
<1>10. TokensInOrder'
  BY <1>2 DEF KeysInv, TokensInOrder
<1> QED
  BY <1>5, <1>6, <1>7, <1>8, <1>9, <1>10 DEF KeysInv

-----------------------------------------------------------------------------
Removes(m, k) == k = m.target /\ m.op \in {"rotate", "revoke"}
Ends(m, k) == k = m.target /\ m.op = "end"

\* What request r, which knew m, has left in the rows.
Leaves(m) ==
  \A k \in Key :
    /\ keys'[k].status = IF k = m.fresh THEN "active"
                         ELSE IF Removes(m, k) THEN "revoked" ELSE keys[k].status
    /\ keys'[k].admin = IF k = m.fresh THEN m.admin ELSE keys[k].admin
    /\ keys'[k].notBefore = IF k = m.fresh THEN 0
                            ELSE IF Ends(m, k) THEN m.stamp ELSE keys[k].notBefore
    /\ line'[k] = IF m.op = "rotate" /\ k = m.fresh THEN line[m.target] ELSE line[k]
    /\ endedAt'[k] = IF Ends(m, k) /\ m.stamp > endedAt[k] THEN m.stamp ELSE endedAt[k]

LEMMA CommitLeaves ==
  ASSUME KeysInv, NEW r \in KeyRequest, CommitKeys(r)
  PROVE  /\ KeysTypeOK' /\ Leaves(request[r]) /\ request[r].pc = "commit"
         /\ request'[r] = Idle /\ \A q \in KeyRequest \ {r} : request'[q] = request[q]
         /\ UNCHANGED <<tokens, now, raced, overlapped>>
<1> DEFINE m == request[r]
<1>1. /\ keys \in [Key -> KeyRow] /\ request \in [KeyRequest -> KeyMemory]
      /\ line \in [Key -> Key] /\ endedAt \in [Key -> 0..MaxTime] /\ m \in KeyMemory
      /\ Sensible(r, m)
  BY MemoriesAreTyped DEF KeysInv, Meaningful
<1>2. /\ m.pc = "commit" /\ keys' = [k \in Key |-> Written(r, k)]
      /\ request' = [request EXCEPT ![r] = Idle]
      /\ line' = IF m.op = "rotate" THEN [line EXCEPT ![m.fresh] = line[m.target]] ELSE line
      /\ endedAt' = IF m.op = "end" /\ m.stamp > endedAt[m.target]
                    THEN [endedAt EXCEPT ![m.target] = m.stamp] ELSE endedAt
      /\ UNCHANGED <<tokens, now, raced, overlapped>>
  BY DEF CommitKeys
<1>3. /\ m.fresh \in Key \cup {NoKey} /\ m.target \in Key \cup {NoKey} /\ m.admin \in BOOLEAN
      /\ m.stamp \in 0..MaxTime
  BY <1>1 DEF KeyMemory
<1>4. ASSUME NEW k \in Key
      PROVE  Written(r, k) =
               IF k = m.fresh THEN [status |-> "active", admin |-> m.admin, notBefore |-> 0]
               ELSE IF Removes(m, k) THEN [keys[k] EXCEPT !.status = "revoked"]
               ELSE IF Ends(m, k) THEN [keys[k] EXCEPT !.notBefore = m.stamp]
               ELSE keys[k]
  <2>1. CASE k = m.fresh
    <3>1. ~ (k = m.target)
      BY <1>1, <2>1, KeysAreNumbers DEF Sensible
    <3> QED
      BY <2>1, <3>1 DEF Written
  <2>2. CASE k # m.fresh
    BY <2>2 DEF Written, Removes, Ends
  <2> QED
    BY <2>1, <2>2
<1> HIDE DEF m
<1>5. ASSUME NEW k \in Key
      PROVE  /\ keys'[k] \in KeyRow
             /\ keys'[k].status = IF k = m.fresh THEN "active"
                                  ELSE IF Removes(m, k) THEN "revoked" ELSE keys[k].status
             /\ keys'[k].admin = IF k = m.fresh THEN m.admin ELSE keys[k].admin
             /\ keys'[k].notBefore = IF k = m.fresh THEN 0
                                     ELSE IF Ends(m, k) THEN m.stamp ELSE keys[k].notBefore
  <2>1. keys[k] \in KeyRow /\ keys'[k] = Written(r, k) /\ 0 \in 0..MaxTime
    BY <1>1, <1>2, KeysAreNumbers
  <2>2. ~(Removes(m, k) /\ Ends(m, k))
    BY DEF Removes, Ends
  <2>3. CASE k = m.fresh
    BY <1>3, <1>4, <2>1, <2>3 DEF KeyRow
  <2>4. CASE k # m.fresh /\ Removes(m, k)
    BY <1>4, <2>1, <2>2, <2>4 DEF KeyRow
  <2>5. CASE k # m.fresh /\ Ends(m, k)
    BY <1>3, <1>4, <2>1, <2>2, <2>5 DEF KeyRow
  <2>6. CASE k # m.fresh /\ ~Removes(m, k) /\ ~Ends(m, k)
    BY <1>4, <2>1, <2>6
  <2> QED
    BY <2>3, <2>4, <2>5, <2>6
<1>6. m.op = "rotate" => m.fresh \in Key /\ m.target \in Key
  BY <1>1 DEF Sensible, m
<1>7. m.op = "end" => m.target \in Key
  BY <1>1 DEF Sensible, m
<1>8. /\ line' \in [Key -> Key]
      /\ \A k \in Key :
           line'[k] = IF m.op = "rotate" /\ k = m.fresh THEN line[m.target] ELSE line[k]
  BY <1>1, <1>2, <1>6
<1>9. /\ endedAt' \in [Key -> 0..MaxTime]
      /\ \A k \in Key :
           endedAt'[k] = IF Ends(m, k) /\ m.stamp > endedAt[k] THEN m.stamp ELSE endedAt[k]
  BY <1>1, <1>2, <1>3, <1>7 DEF Ends
<1>10. Leaves(m)
  BY <1>5, <1>8, <1>9 DEF Leaves
<1>11. request' \in [KeyRequest -> KeyMemory]
  BY <1>1, <1>2, IdleIsAMemory
<1>12. keys' \in [Key -> KeyRow]
  BY <1>2, <1>5
<1>13. KeysTypeOK'
  <2>1. KeysTypeOK
    BY DEF KeysInv
  <2> QED
    BY <1>2, <1>8, <1>9, <1>11, <1>12, <2>1 DEF KeysTypeOK, KeyMemory, Key, KeyRow, Token
<1> QED
  BY <1>1, <1>2, <1>10, <1>13 DEF m

LEMMA CommitMakesSense ==
  ASSUME KeysInv, NEW r \in KeyRequest, CommitKeys(r)
  PROVE  Meaningful' /\ NewKeysAreClean'
<1> DEFINE m == request[r]
<1>1. /\ Leaves(m) /\ request'[r] = Idle
      /\ \A q \in KeyRequest \ {r} : request'[q] = request[q]
  BY CommitLeaves
<1>2. /\ \A q \in KeyRequest : Sensible(q, request[q]) /\ request[q] \in KeyMemory
      /\ NewKeysAreClean
  BY MemoriesAreTyped DEF KeysInv, Meaningful
<1>3. Sensible(r, m) /\ m \in KeyMemory
  BY <1>2
<1> HIDE DEF m
<1>4. \A k \in Key : keys'[k].status = "none" =>
        keys[k].status = "none" /\ k # m.fresh /\ k # m.target
  BY <1>1, <1>3, KeysAreNumbers DEF Leaves, Sensible
<1>5. ASSUME NEW q \in KeyRequest
      PROVE  Sensible(q, request[q])'
  <2>1. CASE q = r
    BY <1>1, <2>1, IdleIsAMemory DEF Sensible
  <2>2. CASE q # r
    <3>1. /\ request'[q] = request[q] /\ Sensible(q, request[q])
          /\ request[q].target \in Key \cup {NoKey} /\ request[q].fresh \in Key \cup {NoKey}
      BY <1>1, <1>2, <2>2 DEF KeyMemory
    <3>2. request[q].target # NoKey => keys'[request[q].target].status # "none"
      BY <1>4, <3>1 DEF Sensible
    <3>3. ASSUME request[q].fresh # NoKey
          PROVE  keys'[request[q].fresh].status = "none"
      <4> DEFINE f == request[q].fresh
      <4>1. f \in Key /\ keys[f].status = "none" /\ f # m.fresh
        BY <1>3, <2>2, <3>1, <3>3 DEF Sensible, m
      <4>2. f # m.target
        BY <1>3, <4>1, KeysAreNumbers DEF Sensible
      <4> QED
        BY <1>1, <4>1, <4>2 DEF Leaves, Removes
    <3>4. ASSUME request[q].fresh # NoKey
          PROVE  \A p \in KeyRequest \ {q} : request'[p].fresh # request[q].fresh
      <4>1. \A p \in KeyRequest \ {q, r} : request'[p].fresh # request[q].fresh
        BY <1>1, <3>1, <3>4 DEF Sensible
      <4>2. request'[r].fresh # request[q].fresh
        BY <1>1, <3>4, IdleIsAMemory
      <4> QED
        BY <4>1, <4>2
    <3>5. request[q].op = "rotate" => keys'[request[q].target].admin = keys[request[q].target].admin
      <4> SUFFICES ASSUME request[q].op = "rotate"
                   PROVE  keys'[request[q].target].admin = keys[request[q].target].admin
        OBVIOUS
      <4> DEFINE k == request[q].target
      <4>1. k \in Key /\ keys[k].status # "none"
        BY <3>1, KeysAreNumbers DEF Sensible
      <4>2. k # m.fresh
        BY <1>3, <4>1, KeysAreNumbers DEF Sensible
      <4> QED
        BY <1>1, <4>1, <4>2 DEF Leaves
    <3> QED
      BY <3>1, <3>2, <3>3, <3>4, <3>5 DEF Sensible
  <2> QED
    BY <2>1, <2>2
<1>6. ASSUME NEW k \in Key, keys'[k].status = "none"
      PROVE  /\ endedAt'[k] = 0 /\ keys'[k].notBefore = 0
             /\ \A j \in Key : line'[j] = k <=> j = k
  <2>1. /\ keys[k].status = "none" /\ k # m.fresh /\ k # m.target
        /\ endedAt[k] = 0 /\ keys[k].notBefore = 0 /\ \A j \in Key : line[j] = k <=> j = k
    BY <1>2, <1>4, <1>6 DEF NewKeysAreClean
  <2>2. m.op = "rotate" => m.target \in Key
    BY <1>3 DEF Sensible
  <2>3. ASSUME NEW j \in Key
        PROVE  line'[j] = k <=> j = k
    <3>1. line'[j] = IF m.op = "rotate" /\ j = m.fresh THEN line[m.target] ELSE line[j]
      BY <1>1 DEF Leaves
    <3> QED
      BY <2>1, <2>2, <3>1
  <2>4. endedAt'[k] = 0 /\ keys'[k].notBefore = 0
    BY <1>1, <2>1 DEF Leaves, Ends
  <2> QED
    BY <2>3, <2>4
<1> QED
  BY <1>5, <1>6 DEF Meaningful, NewKeysAreClean

LEMMA CommitKeepsOrder ==
  ASSUME KeysInv, NEW r \in KeyRequest, CommitKeys(r)
  PROVE  EndsInOrder' /\ TokensInOrder'
<1> DEFINE m == request[r]
<1>1. /\ Leaves(m) /\ request'[r] = Idle /\ m.pc = "commit"
      /\ \A q \in KeyRequest \ {r} : request'[q] = request[q]
      /\ UNCHANGED <<tokens, now, raced, overlapped>>
  BY CommitLeaves
<1>2. /\ Sensible(r, m) /\ m \in KeyMemory /\ NewKeysAreClean /\ EndsInOrder /\ TokensInOrder
      /\ now \in Nat /\ \A k \in Key : endedAt[k] \in Nat
  BY MemoriesAreTyped, AccessKeysAssumption DEF KeysInv, Meaningful
<1>3. TokensInOrder'
  BY <1>1, <1>2 DEF TokensInOrder
<1>4. \A k \in Key : Ends(m, k) => Ending(r, k)
  BY <1>1 DEF Ends, Ending
<1>5. m.stamp <= now /\ m.stamp \in Nat
  BY <1>2, AccessKeysAssumption DEF EndsInOrder, KeyMemory
<1>6. ASSUME NEW q \in KeyRequest, NEW k \in Key, Ending(q, k)'
      PROVE  q # r /\ Ending(q, k) /\ request'[q] = request[q]
  BY <1>1, <1>6, IdleIsAMemory DEF Ending
<1>7. \A q \in KeyRequest : request'[q].stamp <= now'
  <2> SUFFICES ASSUME NEW q \in KeyRequest PROVE request'[q].stamp <= now'
    OBVIOUS
  <2>1. CASE q = r
    BY <1>1, <1>2, <2>1, IdleIsAMemory
  <2>2. CASE q # r
    BY <1>1, <1>2, <2>2 DEF EndsInOrder
  <2> QED
    BY <2>1, <2>2
<1> HIDE DEF m, Ending
<1>8. \A k \in Key : endedAt'[k] <= now'
  <2> SUFFICES ASSUME NEW k \in Key PROVE endedAt'[k] <= now
    BY <1>1
  <2>1. endedAt[k] <= now
    BY <1>2 DEF EndsInOrder
  <2>2. endedAt'[k] = m.stamp \/ endedAt'[k] = endedAt[k]
    BY <1>1 DEF Leaves
  <2> QED
    BY <1>5, <2>1, <2>2
<1>9. ASSUME NEW k \in Key, k \notin raced
      PROVE  /\ keys'[k].notBefore = endedAt'[k]
             /\ \A q \in KeyRequest : Ending(q, k)' =>
                  /\ request'[q].stamp > endedAt'[k]
                  /\ \A p \in KeyRequest : Ending(p, k)' => p = q
  <2>1. /\ keys[k].notBefore = endedAt[k]
        /\ \A q \in KeyRequest : Ending(q, k) =>
             /\ request[q].stamp > endedAt[k]
             /\ \A p \in KeyRequest : Ending(p, k) => p = q
    BY <1>2, <1>9 DEF EndsInOrder
  <2>2. CASE Ends(m, k)
    <3>1. m.stamp > endedAt[k] /\ \A q \in KeyRequest : ~Ending(q, k)'
      BY <1>4, <1>6, <2>1, <2>2 DEF m
    <3>2. k # m.fresh
      BY <1>2, <2>2, KeysAreNumbers DEF Sensible, Ends
    <3> QED
      BY <1>1, <2>2, <3>1, <3>2 DEF Leaves
  <2>3. CASE ~Ends(m, k) /\ k = m.fresh
    <3>1. endedAt[k] = 0 /\ keys[k].notBefore = 0
      BY <1>2, <2>3, KeysAreNumbers DEF Sensible, NewKeysAreClean
    <3>2. keys'[k].notBefore = 0 /\ endedAt'[k] = 0
      BY <1>1, <2>3, <3>1 DEF Leaves
    <3> QED
      BY <1>6, <2>1, <3>1, <3>2
  <2>4. CASE ~Ends(m, k) /\ k # m.fresh
    <3>1. keys'[k].notBefore = keys[k].notBefore /\ endedAt'[k] = endedAt[k]
      BY <1>1, <2>4 DEF Leaves
    <3> QED
      BY <1>6, <2>1, <3>1
  <2> QED
    BY <2>2, <2>3, <2>4
<1>10. EndsInOrder'
  BY <1>1, <1>7, <1>8, <1>9 DEF EndsInOrder
<1> QED
  BY <1>3, <1>10

\* A removal that was alone leaves an administrator and one key to a line; any other commit
\* takes no key away.
LEMMA CommitKeepsAdmins ==
  ASSUME KeysInv, NEW r \in KeyRequest, CommitKeys(r)
  PROVE  SerialAdminRemains' /\ SerialOneOfALine' /\ SerialRemoval'
<1> DEFINE m == request[r]
<1>1. /\ Leaves(m) /\ request'[r] = Idle /\ m.pc = "commit"
      /\ \A q \in KeyRequest \ {r} : request'[q] = request[q]
      /\ UNCHANGED <<tokens, now, raced, overlapped>>
  BY CommitLeaves
<1>2. /\ Sensible(r, m) /\ m \in KeyMemory /\ NewKeysAreClean
      /\ SerialAdminRemains /\ SerialOneOfALine /\ SerialRemoval
  BY MemoriesAreTyped DEF KeysInv, Meaningful
<1>3. \A q \in KeyRequest : Removing(q)' => q # r /\ Removing(q) /\ request'[q] = request[q]
  BY <1>1, IdleIsAMemory DEF Removing
<1>4. m.op \in {"rotate", "revoke"} => Removing(r)
  BY <1>1 DEF Removing
<1> HIDE DEF m
<1>5. m.fresh \in Key => keys[m.fresh].status = "none" /\ ~Standing(m.fresh)
  BY <1>2, KeysAreNumbers DEF Sensible, Standing
<1>6. \A k \in Key : Standing(k)' <=> k = m.fresh \/ (Standing(k) /\ ~Removes(m, k))
  BY <1>1 DEF Leaves, Standing
<1>7. \A k \in StandingAdmins : k # m.fresh
  BY <1>5 DEF StandingAdmins
<1>8. \A k \in StandingAdmins : ~Removes(m, k) => k \in StandingAdmins'
  BY <1>1, <1>6, <1>7 DEF Leaves, StandingAdmins
<1> SUFFICES ASSUME ~overlapped
             PROVE  /\ StandingAdmins' # {}
                    /\ \A j, k \in Key : Standing(j)' /\ Standing(k)' /\ line'[j] = line'[k] => j = k
                    /\ \A q \in KeyRequest : Removing(q)' => AloneRemoving(q)'
  BY <1>1 DEF SerialAdminRemains, SerialOneOfALine, SerialRemoval, Standing
<1>9. /\ StandingAdmins # {}
      /\ \A j, k \in Key : Standing(j) /\ Standing(k) /\ line[j] = line[k] => j = k
      /\ \A q \in KeyRequest : Removing(q) => AloneRemoving(q)
  BY <1>2 DEF SerialAdminRemains, SerialOneOfALine, SerialRemoval
<1>10. CASE m.op \in {"rotate", "revoke"}
  <2>1. AloneRemoving(r)
    BY <1>4, <1>9, <1>10
  <2>2. \A q \in KeyRequest : ~Removing(q)'
    BY <1>3, <2>1 DEF AloneRemoving
  <2>3. CASE m.op = "revoke"
    <3>1. PICK k \in StandingAdmins : k # m.target
      BY <2>1, <2>3 DEF AloneRemoving, m
    <3>2. StandingAdmins' # {}
      BY <1>8, <3>1 DEF Removes
    <3>3. \A i \in Key : Standing(i)' => Standing(i) /\ line'[i] = line[i]
      BY <1>1, <1>2, <1>6, <2>3, KeysAreNumbers DEF Sensible, Leaves
    <3> QED
      BY <1>9, <2>2, <3>2, <3>3
  <2>4. CASE m.op = "rotate"
    <3>1. /\ m.target \in Key /\ m.fresh \in Key /\ m.admin = keys[m.target].admin
          /\ Standing(m.target)
      BY <1>2, <2>1, <2>4 DEF Sensible, AloneRemoving, m
    <3>2. m.fresh \in Key /\ keys'[m.fresh].status = "active" /\ keys'[m.fresh].admin = m.admin
      BY <1>1, <3>1 DEF Leaves
    <3>3. PICK k \in StandingAdmins : TRUE
      BY <1>9
    <3>4. StandingAdmins' # {}
      <4>1. CASE k # m.target
        BY <1>8, <4>1 DEF Removes
      <4>2. CASE k = m.target
        <5>1. keys[m.target].admin
          BY <4>2 DEF StandingAdmins
        <5>2. m.fresh \in StandingAdmins'
          BY <3>1, <3>2, <5>1 DEF StandingAdmins, Standing
        <5> QED
          BY <5>2
      <4> QED
        BY <4>1, <4>2
    <3>5. ASSUME NEW j \in Key, Standing(j)'
          PROVE  \/ j = m.fresh /\ line'[j] = line[m.target]
                 \/ j # m.fresh /\ Standing(j) /\ j # m.target /\ line'[j] = line[j]
      BY <1>1, <1>6, <2>4, <3>5 DEF Leaves, Removes
    <3>6. \A i, j \in Key : Standing(i)' /\ Standing(j)' /\ line'[i] = line'[j] => i = j
      BY <1>9, <3>1, <3>5
    <3> QED
      BY <2>2, <3>4, <3>6
  <2> QED
    BY <1>10, <2>3, <2>4
<1>11. CASE m.op \notin {"rotate", "revoke"}
  <2>1. \A k \in Key : ~Removes(m, k) /\ line'[k] = line[k]
    BY <1>1, <1>11 DEF Leaves, Removes
  <2>2. StandingAdmins \subseteq StandingAdmins'
    BY <1>8, <2>1 DEF StandingAdmins
  <2>3. ASSUME NEW j \in Key, NEW k \in Key, Standing(j)', Standing(k)', line'[j] = line'[k]
        PROVE  j = k
    <3>1. line[j] = line[k] /\ (j = m.fresh \/ Standing(j)) /\ (k = m.fresh \/ Standing(k))
      BY <1>6, <2>1, <2>3
    <3>2. m.fresh \in Key => \A i \in Key : line[i] = m.fresh <=> i = m.fresh
      BY <1>2, <1>5 DEF NewKeysAreClean
    <3> QED
      BY <1>9, <3>1, <3>2
  <2>4. ASSUME NEW q \in KeyRequest, Removing(q)'
        PROVE  AloneRemoving(q)'
    <3>1. q # r /\ Removing(q) /\ request'[q] = request[q] /\ AloneRemoving(q)
      BY <1>3, <1>9, <2>4
    <3>2. \A p \in KeyRequest : Removing(p)' => p = q
      BY <1>3, <3>1 DEF AloneRemoving
    <3>3. request[q].op = "revoke" => StandingAdmins' \ {request[q].target} # {}
      BY <2>2, <3>1 DEF AloneRemoving
    <3>4. request[q].op = "rotate" => Standing(request[q].target)'
      <4> SUFFICES ASSUME request[q].op = "rotate" PROVE Standing(request[q].target)'
        OBVIOUS
      <4>1. request[q].target \in Key
        BY DEF KeysInv, Meaningful, Sensible
      <4>2. request[q].target \in Key /\ Standing(request[q].target)
        BY <3>1, <4>1 DEF AloneRemoving
      <4>3. keys'[request[q].target].status = "active"
        BY <1>1, <2>1, <4>2 DEF Leaves, Standing
      <4> QED
        BY <3>1, <4>3 DEF Standing
    <3> QED
      BY <3>1, <3>2, <3>3, <3>4 DEF AloneRemoving, Standing
  <2> QED
    BY <1>9, <2>2, <2>3, <2>4
<1> QED
  BY <1>10, <1>11

-----------------------------------------------------------------------------
LEMMA KeysStep ==
  ASSUME KeysInv, [KeysNext]_keysVars
  PROVE  KeysInv'
<1>1. ASSUME NEW r \in KeyRequest, CommitKeys(r)
      PROVE  KeysInv'
  BY <1>1, CommitLeaves, CommitMakesSense, CommitKeepsOrder, CommitKeepsAdmins DEF KeysInv
<1>2. CASE UNCHANGED keysVars
  BY <1>2 DEF keysVars, KeysInv, KeysTypeOK, Meaningful, Sensible, NewKeysAreClean,
     TokensInOrder, EndsInOrder, Ending, SerialAdminRemains, SerialOneOfALine, SerialRemoval,
     Removing, AloneRemoving, StandingAdmins, Standing, Key, KeyRow, Token
<1>3. CASE KeysNext
  <2>1. PICK r \in KeyRequest :
          \/ \E admin \in BOOLEAN : BeginIssue(r, admin)
          \/ \E k \in Key : BeginRotate(r, k) \/ BeginRevoke(r, k) \/ BeginEndTokens(r, k)
                            \/ Resolve(r, k)
          \/ UpdateRow(r) \/ CommitKeys(r) \/ Mint(r) \/ FailKeys(r)
    BY <1>3 DEF KeysNext
  <2>2. CASE \E admin \in BOOLEAN : BeginIssue(r, admin)
    BY <2>2, IssueIsHarmless
  <2>3. CASE \E k \in Key : BeginRotate(r, k) \/ BeginRevoke(r, k) \/ BeginEndTokens(r, k)
                            \/ Resolve(r, k)
    BY <2>3, RotateBegins, RevokeBegins, EndBegins, ResolveIsHarmless
  <2>4. CASE UpdateRow(r) \/ CommitKeys(r) \/ Mint(r) \/ FailKeys(r)
    BY <1>1, <2>4, UpdateIsHarmless, MintIsHarmless, FailIsHarmless
  <2> QED
    BY <2>1, <2>2, <2>3, <2>4
<1> QED
  BY <1>2, <1>3

\* The invariant of keys, tokens and requests in flight holds in every behaviour.
THEOREM KeysAlways == KeysSpec => []KeysInv
BY KeysFirst, KeysStep, PTL DEF KeysSpec

\* However requests on keys overlap, fail or die: tokens that were ended stay refused, and
\* as long as removals do not overlap an administrator remains and one key to a line.
THEOREM KeysAlwaysKeepTheirPromise == KeysSpec => []KeysKeepTheirPromise
<1>1. KeysInv => KeysKeepTheirPromise
  <2> SUFFICES ASSUME KeysInv PROVE KeysKeepTheirPromise
    OBVIOUS
  <2>1. EndedTokensStayRefused
    <3> SUFFICES ASSUME NEW t \in tokens, t.key \notin raced, t.minted < endedAt[t.key]
                 PROVE  ~Accepts(t)
      BY DEF EndedTokensStayRefused
    <3>1. /\ t.key \in Key /\ t.issuedAt \in Nat /\ t.minted \in Nat /\ t.issuedAt <= t.minted
          /\ endedAt[t.key] \in Nat
      BY AccessKeysAssumption DEF KeysInv, KeysTypeOK, Token, TokensInOrder
    <3>2. keys[t.key].notBefore = endedAt[t.key]
      BY <3>1 DEF KeysInv, EndsInOrder
    <3>3. t.issuedAt < keys[t.key].notBefore
      BY <3>1, <3>2
    <3> QED
      BY <3>3 DEF Accepts
  <2> QED
    BY <2>1 DEF KeysInv, KeysKeepTheirPromise
<1> QED
  BY <1>1, KeysAlways, PTL

\* A key that was revoked or rotated away never stands again, whatever is in flight.
THEOREM RevokedIsFinal == KeysSpec => RevokedStaysRevoked
<1> DEFINE Final == \A k \in Key : keys[k].status = "revoked" => keys'[k].status = "revoked"
<1>1. ASSUME KeysInv, [KeysNext]_keysVars
      PROVE  [Final]_keysVars
  <2>1. CASE keys' = keys
    BY <2>1
  <2>2. CASE keys' # keys
    <3>1. PICK r \in KeyRequest : CommitKeys(r)
      BY <1>1, <2>2 DEF KeysNext, keysVars, BeginIssue, BeginRotate, BeginRevoke, BeginEndTokens,
         BeginKeyRequest, Resolve, UpdateRow, Mint, FailKeys
    <3>2. Leaves(request[r]) /\ Sensible(r, request[r])
      BY <1>1, <3>1, CommitLeaves DEF KeysInv, Meaningful
    <3>3. ASSUME NEW k \in Key, keys[k].status = "revoked"
          PROVE  keys'[k].status = "revoked"
      <4>1. k # request[r].fresh
        BY <3>2, <3>3, KeysAreNumbers DEF Sensible
      <4> QED
        BY <3>2, <3>3, <4>1 DEF Leaves
    <3> QED
      BY <3>3
  <2> QED
    BY <2>1, <2>2
<1> QED
  BY <1>1, KeysAlways, PTL DEF KeysSpec, RevokedStaysRevoked

-----------------------------------------------------------------------------
(***************************************************************************)
(* The alert outbox.  Every condition that turns bad accounts for at most  *)
(* one new row of each pass: a row that is there, one that a pass is about *)
(* to insert, or one it may still raise.  While passes do not overlap, what *)
(* the only one in progress has read is what the rows hold.                *)
(***************************************************************************)
PassMemory ==
  [ pc : {"idle", "check", "insert", "pending", "send", "sent", "unsent"},
    at : 1..(Len(Conditions) + 1), todo : SUBSET Nat,
    read : UNION {[D -> 0..(MaxAttempts - 1)] : D \in SUBSET Nat},
    marked : UNION {[D -> BOOLEAN] : D \in SUBSET Nat} ]

\* What a pass is still to try and what it has tried are rows it has read, of those there are.
SenseOf(m, rows) ==
  /\ m.todo \subseteq DOMAIN m.read /\ DOMAIN m.marked \subseteq DOMAIN m.read
  /\ m.todo \cap DOMAIN m.marked = {}
  /\ DOMAIN m.read \subseteq rows
  /\ m.pc = "insert" => m.at <= Len(Conditions)
  /\ m.pc \in {"sent", "unsent"} => m.todo # {}
  /\ m.pc \notin {"pending", "sent", "unsent"} => DOMAIN m.read = {}
PassSense(p) == SenseOf(pass[p], DOMAIN alerts)

AlertShape ==
  /\ bad \subseteq Condition /\ alerts \in Seq(Row)
  /\ pass \in [Pass -> PassMemory] /\ \A p \in Pass : PassSense(p)
  /\ turns \in Nat /\ faults \in Nat /\ turns + faults <= MaxEvents
  /\ sent \in Seq(Nat) /\ Len(sent) = Len(alerts) /\ together \in BOOLEAN

\* Conditions that hold and are on no row: every pass may still raise each of them.
Open == {c \in bad : RowsFor(c) = {}}
\* Passes about to raise a condition that is not, or no longer, one of these.
Late == {p \in Pass : pass[p].pc = "insert" /\ Looking(p) \notin Open}

QueueBounded ==
  Len(alerts) + Cardinality(Late) + Cardinality(Pass) * Cardinality(Open)
    <= 1 + Cardinality(Pass) * turns

\* While no two passes were in progress at once: there is one; no key is on two rows; what
\* it found missing is missing; what it read is what the rows hold.
Alone == \A p, q \in Pass : pass[p].pc # "idle" /\ pass[q].pc # "idle" => p = q
OneOfAKey ==
  \A i, j \in DOMAIN alerts :
    alerts[i].key = alerts[j].key /\ alerts[i].key # Cleared => i = j
StillMissing == \A p \in Pass : pass[p].pc = "insert" => RowsFor(Looking(p)) = {}
StillPending ==
  \A p \in Pass : \A i \in DOMAIN pass[p].read :
    ~alerts[i].delivered /\ alerts[i].attempts = pass[p].read[i]

\* An alert was sent as often as its row says, or once more by the pass that is at it.
Underway(i, p) == Holds(i, p) \/ (pass[p].pc \in {"sent", "unsent"} /\ i = NextAlert(p))
TriesCounted ==
  \A i \in DOMAIN alerts :
    /\ sent[i] <= alerts[i].attempts + 1
    /\ sent[i] <= alerts[i].attempts \/ \E p \in Pass : Underway(i, p)

SerialSense ==
  ~together =>
    /\ Alone /\ OneOfAKey /\ StillMissing /\ StillPending /\ (faults = 0 => TriesCounted)

AlertInv == AlertShape /\ QueueBounded /\ SerialSense

-----------------------------------------------------------------------------
LEMMA ConditionsAreFew ==
  /\ Len(Conditions) \in Nat
  /\ \A n \in 1..Len(Conditions) : Conditions[n] \in Condition
  /\ IsFiniteSet(Condition) /\ Cleared \notin Condition
<1> DEFINE L == Len(Conditions)
<1>1. /\ L \in Nat /\ DOMAIN Conditions = 1..L /\ Conditions \in [1..L -> Condition]
  BY AlertAssumption, LenProperties
<1>2. Condition = {Conditions[i] : i \in 1..L}
  BY <1>1 DEF Condition, ToSet
<1>3. Conditions \in Surjection(1..L, Condition)
  BY <1>1, <1>2 DEF Surjection
<1>4. IsFiniteSet(1..L)
  BY <1>1, FS_Interval
<1>5. IsFiniteSet(Condition)
  BY <1>3, <1>4, FS_Surjection
<1> QED
  BY <1>1, <1>5, AlertAssumption

Starting == [Idling EXCEPT !.pc = "check"]

LEMMA IdlingIsAMemory ==
  /\ Idling \in PassMemory /\ Starting \in PassMemory
  /\ Idling.pc = "idle" /\ Idling.todo = {} /\ DOMAIN Idling.read = {} /\ DOMAIN Idling.marked = {}
  /\ Starting.pc = "check" /\ Starting.todo = {} /\ DOMAIN Starting.read = {}
  /\ DOMAIN Starting.marked = {}
<1>1. DOMAIN << >> = {} /\ << >> = [x \in {} |-> {}]
  OBVIOUS
<1>2. << >> \in [{} -> 0..(MaxAttempts - 1)] /\ << >> \in [{} -> BOOLEAN]
  BY <1>1
<1>3. /\ << >> \in UNION {[D -> 0..(MaxAttempts - 1)] : D \in SUBSET Nat}
      /\ << >> \in UNION {[D -> BOOLEAN] : D \in SUBSET Nat}
  BY <1>2
<1>4. 1 \in 1..(Len(Conditions) + 1)
  BY ConditionsAreFew
<1>5. Idling \in PassMemory
  BY <1>3, <1>4 DEF Idling, PassMemory
<1>6. Starting \in PassMemory
  BY <1>3, <1>4 DEF Idling, Starting, PassMemory
<1>7. /\ Idling.pc = "idle" /\ Idling.todo = {} /\ Idling.read = << >> /\ Idling.marked = << >>
      /\ Starting.pc = "check" /\ Starting.todo = {} /\ Starting.read = << >>
      /\ Starting.marked = << >>
  BY DEF Idling, Starting
<1> QED
  BY <1>1, <1>5, <1>6, <1>7

LEMMA RowsAreNumbered ==
  ASSUME AlertShape
  PROVE  /\ Len(alerts) \in Nat /\ DOMAIN alerts = 1..Len(alerts)
         /\ \A i \in DOMAIN alerts : alerts[i] \in Row
         /\ DOMAIN sent = 1..Len(alerts) /\ \A i \in DOMAIN sent : sent[i] \in Nat
BY LenProperties, ElementOfSeq DEF AlertShape

LEMMA NextIsToDo ==
  ASSUME AlertShape, NEW p \in Pass, pass[p].todo # {}
  PROVE  /\ NextAlert(p) \in pass[p].todo /\ NextAlert(p) \in DOMAIN alerts
         /\ NextAlert(p) \in DOMAIN pass[p].read /\ NextAlert(p) \notin DOMAIN pass[p].marked
<1>1. pass[p].todo \in SUBSET Nat /\ PassSense(p)
  BY DEF AlertShape, PassMemory
<1>2. \E i \in pass[p].todo : \A j \in pass[p].todo : i <= j
  BY <1>1, LeastNatural
<1>3. NextAlert(p) \in pass[p].todo
  BY <1>2 DEF NextAlert
<1> QED
  BY <1>1, <1>3 DEF PassSense, SenseOf

LEMMA CountsAreNumbers ==
  ASSUME AlertShape
  PROVE  /\ Cardinality(Pass) \in Nat /\ Cardinality(Open) \in Nat /\ Cardinality(Late) \in Nat
         /\ IsFiniteSet(Open) /\ IsFiniteSet(Late) /\ IsFiniteSet(Pass)
         /\ Len(alerts) \in Nat /\ turns \in Nat
<1>1. Open \in SUBSET Condition /\ Late \in SUBSET Pass
  BY DEF AlertShape, Open, Late
<1> QED
  BY <1>1, ConditionsAreFew, AlertAssumption, FS_Subset, FS_CardinalityType, RowsAreNumbered
     DEF AlertShape

LEMMA QueueQuiet ==
  ASSUME AlertShape, QueueBounded, Open' = Open, Len(alerts') = Len(alerts), Late' \subseteq Late,
         turns' = turns
  PROVE  QueueBounded'
<1>1. Cardinality(Late') <= Cardinality(Late) /\ Cardinality(Late') \in Nat
  BY CountsAreNumbers, FS_Subset, FS_CardinalityType
<1>2. QueueBounded' <=> Len(alerts) + Cardinality(Late') + Cardinality(Pass) * Cardinality(Open)
                          <= 1 + Cardinality(Pass) * turns
  BY DEF QueueBounded
<1> DEFINE x == Cardinality(Pass) * Cardinality(Open)
           y == Cardinality(Pass) * turns
<1>3. x \in Nat /\ y \in Nat
  BY CountsAreNumbers
<1>4. Len(alerts) + Cardinality(Late) + x <= 1 + y
  BY DEF QueueBounded
<1> HIDE DEF x, y
<1>5. Len(alerts) + Cardinality(Late') + x <= 1 + y
  BY <1>1, <1>3, <1>4, CountsAreNumbers
<1> QED
  BY <1>2, <1>5 DEF x, y

-----------------------------------------------------------------------------
\* Pass p now knows m.
Becomes(p, m) ==
  /\ m \in PassMemory
  /\ pass' = [pass EXCEPT ![p] = m]

LEMMA BecomesOne ==
  ASSUME AlertShape, NEW p \in Pass, NEW m, Becomes(p, m)
  PROVE  /\ pass' \in [Pass -> PassMemory] /\ pass'[p] = m
         /\ \A q \in Pass \ {p} : pass'[q] = pass[q]
BY DEF Becomes, AlertShape

LEMMA ShapeStays ==
  ASSUME AlertShape, NEW p \in Pass, NEW m, Becomes(p, m),
         bad' = bad, turns' = turns, faults' \in Nat, turns' + faults' <= MaxEvents,
         alerts' \in Seq(Row), Len(alerts') \in Nat, Len(alerts) <= Len(alerts'),
         SenseOf(m, 1..Len(alerts')),
         sent' \in Seq(Nat), Len(sent') = Len(alerts'), together' \in BOOLEAN
  PROVE  AlertShape'
<1>1. DOMAIN alerts = 1..Len(alerts) /\ Len(alerts) \in Nat
  BY RowsAreNumbered
<1>2. DOMAIN alerts' = 1..Len(alerts')
  BY LenProperties
<1>3. DOMAIN alerts \subseteq DOMAIN alerts'
  BY <1>1, <1>2
<1>4. ASSUME NEW q \in Pass
      PROVE  PassSense(q)'
  <2>1. CASE q = p
    <3>1. SenseOf(pass'[q], DOMAIN alerts')
      BY <1>2, <2>1, BecomesOne
    <3> QED
      BY <3>1 DEF PassSense, SenseOf
  <2>2. CASE q # p
    <3>1. pass'[q] = pass[q] /\ SenseOf(pass[q], DOMAIN alerts)
      BY <2>2, BecomesOne DEF AlertShape, PassSense
    <3>2. SenseOf(pass'[q], DOMAIN alerts')
      BY <1>3, <3>1 DEF SenseOf
    <3> QED
      BY <3>2 DEF PassSense, SenseOf
  <2> QED
    BY <2>1, <2>2
<1>5. pass' \in [Pass -> PassMemory]
  BY BecomesOne
<1> QED
  BY <1>4, <1>5 DEF AlertShape, PassMemory, Row, Condition

\* The queue is bounded when no row, no condition and no pass that raises one is new.
LEMMA QueueStays ==
  ASSUME AlertShape, QueueBounded, NEW p \in Pass, NEW m, Becomes(p, m), m.pc # "insert",
         bad' = bad, turns' = turns, Len(alerts') = Len(alerts),
         \A c \in bad : RowsFor(c)' = {} <=> RowsFor(c) = {}
  PROVE  QueueBounded'
<1>1. Open' = Open
  BY DEF Open
<1>2. Late' \subseteq Late
  <2> SUFFICES ASSUME NEW q \in Late' PROVE q \in Late
    OBVIOUS
  <2>1. q \in Pass /\ pass'[q].pc = "insert" /\ Conditions[pass'[q].at] \notin Open
    BY <1>1 DEF Late, Looking
  <2>2. q # p
    BY <2>1, BecomesOne
  <2>3. pass'[q] = pass[q]
    BY <2>1, <2>2, BecomesOne
  <2> QED
    BY <2>1, <2>3 DEF Late, Looking
<1> QED
  BY <1>1, <1>2, QueueQuiet

\* Alone: the others are idle and at no row.
LEMMA OthersAreIdle ==
  ASSUME AlertShape, Alone, NEW p \in Pass, pass[p].pc # "idle"
  PROVE  \A q \in Pass \ {p} : pass[q].pc = "idle"
BY DEF Alone

LEMMA IdleIsAtNoRow ==
  ASSUME AlertShape, NEW q \in Pass, pass[q].pc \in {"idle", "check", "insert"}
  PROVE  /\ DOMAIN pass[q].read = {} /\ DOMAIN pass[q].marked = {} /\ pass[q].todo = {}
         /\ \A i : ~Underway(i, q)
BY DEF AlertShape, PassSense, SenseOf, Underway, Holds

\* What is left to show of a step of the only pass in progress.
LEMMA SerialStays ==
  ASSUME AlertShape, NEW p \in Pass, NEW m, Becomes(p, m),
         \A q \in Pass \ {p} : pass[q].pc = "idle",
         OneOfAKey',
         m.pc = "insert" => \A i \in DOMAIN alerts' : alerts'[i].key # Conditions[m.at],
         \A i \in DOMAIN m.read : ~alerts'[i].delivered /\ alerts'[i].attempts = m.read[i],
         faults' = 0 => \A i \in DOMAIN alerts' :
           /\ sent'[i] <= alerts'[i].attempts + 1
           /\ sent'[i] <= alerts'[i].attempts \/ Underway(i, p)'
  PROVE  SerialSense'
<1>1. /\ pass'[p] = m /\ \A q \in Pass \ {p} : pass'[q] = pass[q]
  BY BecomesOne
<1>2. \A q \in Pass \ {p} : DOMAIN pass[q].read = {}
  BY IdleIsAtNoRow
<1>3. Alone'
  BY <1>1 DEF Alone
<1>4. StillMissing'
  <2> SUFFICES ASSUME NEW q \in Pass, pass'[q].pc = "insert" PROVE RowsFor(Looking(q))' = {}
    BY DEF StillMissing
  <2>1. q = p
    BY <1>1
  <2> QED
    BY <1>1, <2>1 DEF Looking, RowsFor
<1>5. StillPending'
  <2> SUFFICES ASSUME NEW q \in Pass, NEW i \in DOMAIN pass'[q].read
               PROVE  ~alerts'[i].delivered /\ alerts'[i].attempts = pass'[q].read[i]
    BY DEF StillPending
  <2>1. q = p
    BY <1>1, <1>2
  <2> QED
    BY <1>1, <2>1
<1>6. faults' = 0 => TriesCounted'
  BY DEF TriesCounted
<1> QED
  BY <1>3, <1>4, <1>5, <1>6 DEF SerialSense

-----------------------------------------------------------------------------
LEMMA AlertFirst == AlertInit => AlertInv
<1> SUFFICES ASSUME AlertInit PROVE AlertInv
  OBVIOUS
<1>1. /\ bad = {} /\ turns = 0 /\ faults = 0 /\ sent = [i \in DOMAIN alerts |-> 0] /\ together = FALSE
      /\ pass = [p \in Pass |-> Idling] /\ MaxEvents \in Nat
  BY AlertAssumption DEF AlertInit, Unsent
<1>2. /\ alerts \in Seq(Row) /\ Len(alerts) \in Nat /\ Len(alerts) <= 1
      /\ DOMAIN alerts = 1..Len(alerts)
  <2>1. alerts = << >> \/ \E row \in Row : alerts = <<row>>
    BY DEF AlertInit, Left
  <2>2. CASE alerts = << >>
    BY <2>2
  <2>3. CASE \E row \in Row : alerts = <<row>>
    BY <2>3
  <2> QED
    BY <2>1, <2>2, <2>3
<1>3. sent \in Seq(Nat) /\ Len(sent) = Len(alerts) /\ \A i \in DOMAIN alerts : sent[i] = 0
  BY <1>1, <1>2
<1>4. pass \in [Pass -> PassMemory] /\ \A p \in Pass : pass[p] = Idling
  BY <1>1, IdlingIsAMemory
<1>5. \A p \in Pass : PassSense(p)
  BY <1>4, IdlingIsAMemory DEF PassSense, SenseOf
<1>6. AlertShape
  <2>1. bad \subseteq Condition /\ turns \in Nat /\ faults \in Nat /\ turns + faults <= MaxEvents
        /\ together \in BOOLEAN
    <3>1. bad = {} /\ turns = 0 /\ faults = 0 /\ together = FALSE /\ 0 + 0 <= MaxEvents
      BY <1>1
    <3> QED
      BY <3>1
  <2> QED
    BY <1>2, <1>3, <1>4, <1>5, <2>1 DEF AlertShape
<1>7. QueueBounded
  <2>1. Open = {} /\ Late = {}
    BY <1>1, <1>4, IdlingIsAMemory DEF Open, Late
  <2>2. Cardinality(Open) = 0 /\ Cardinality(Late) = 0
    BY <2>1, FS_EmptySet
  <2>3. Cardinality(Pass) \in Nat
    BY <1>6, CountsAreNumbers
  <2>4. Cardinality(Pass) * 0 = 0
    BY <2>3
  <2> QED
    BY <1>1, <1>2, <2>2, <2>4 DEF QueueBounded
<1>8. OneOfAKey
  BY <1>2 DEF OneOfAKey
<1>9. Alone /\ StillMissing /\ StillPending
  BY <1>4, IdlingIsAMemory DEF Alone, StillMissing, StillPending
<1>10. TriesCounted
  <2> SUFFICES ASSUME NEW i \in DOMAIN alerts PROVE sent[i] <= alerts[i].attempts + 1 /\ sent[i] <= alerts[i].attempts
    BY DEF TriesCounted
  <2>1. alerts[i] \in Row
    BY <1>6, RowsAreNumbered
  <2>2. alerts[i].attempts \in Nat
    BY <2>1, AlertAssumption DEF Row
  <2> QED
    BY <1>3, <2>2
<1> QED
  BY <1>6, <1>7, <1>8, <1>9, <1>10 DEF AlertInv, SerialSense

\* A step that changes neither rows nor what any pass knows.
LEMMA WorldTurns ==
  ASSUME AlertInv, NEW c \in Condition, TurnBad(c) \/ TurnGood(c)
  PROVE  AlertInv'
<1>1. /\ alerts' = alerts /\ pass' = pass /\ faults' = faults /\ sent' = sent
      /\ together' = together
      /\ \/ bad' = bad \cup {c} /\ c \notin bad /\ turns' = turns + 1 /\ turns + faults < MaxEvents
         \/ bad' = bad \ {c} /\ turns' = turns
  BY DEF TurnBad, TurnGood
<1>2. AlertShape /\ QueueBounded /\ SerialSense
  BY DEF AlertInv
<1>3. AlertShape'
  <2>1. turns' \in Nat /\ faults' \in Nat /\ turns' + faults' <= MaxEvents
    BY <1>1, <1>2, AlertAssumption DEF AlertShape
  <2>2. bad' \subseteq Condition
    BY <1>1, <1>2 DEF AlertShape
  <2>3. \A p \in Pass : PassSense(p)'
    BY <1>1, <1>2 DEF AlertShape, PassSense, SenseOf
  <2> QED
    BY <1>1, <1>2, <2>1, <2>2, <2>3 DEF AlertShape, PassMemory, Row, Condition
<1>4. SerialSense'
  BY <1>1, <1>2 DEF SerialSense, Alone, OneOfAKey, StillMissing, StillPending, TriesCounted,
     RowsFor, Looking, Underway, Holds, NextAlert
<1> DEFINE N == Cardinality(Pass)
           o == Cardinality(Open)
           l == Cardinality(Late)
<1>5. /\ N \in Nat /\ o \in Nat /\ l \in Nat /\ IsFiniteSet(Open) /\ Len(alerts) \in Nat
      /\ turns \in Nat /\ IsFiniteSet(Pass) /\ IsFiniteSet(Late)
  BY <1>2, CountsAreNumbers
<1>6. \A d : RowsFor(d)' = RowsFor(d)
  BY <1>1 DEF RowsFor
<1>7. \A p \in Pass : pass'[p].pc = pass[p].pc /\ Looking(p)' = Looking(p)
  BY <1>1 DEF Looking
<1>8. Len(alerts) + l + N * o <= 1 + N * turns
  BY <1>2 DEF QueueBounded
<1>9. QueueBounded' <=> Len(alerts) + Cardinality(Late') + N * Cardinality(Open') <= 1 + N * turns'
  BY <1>1 DEF QueueBounded
<1>10. ASSUME Open' = Open /\ Late' = Late /\ turns' = turns
       PROVE  QueueBounded'
  BY <1>8, <1>9, <1>10
<1>11. ASSUME Open' = Open /\ Late' = Late /\ turns' = turns + 1
       PROVE  QueueBounded'
  <2>1. N * (turns + 1) = N * turns + N
    BY <1>5
  <2>2. N * turns \in Nat /\ N * o \in Nat
    BY <1>5
  <2> HIDE DEF N, o, l
  <2>3. Len(alerts) + l + N * o <= 1 + (N * turns + N)
    BY <1>5, <1>8, <2>2
  <2> QED
    BY <1>9, <1>11, <2>1, <2>3 DEF o, l
<1>12. ASSUME Open' = Open \cup {c} /\ c \notin Open /\ Late' \subseteq Late /\ turns' = turns + 1
       PROVE  QueueBounded'
  <2>1. Cardinality(Open') = o + 1
    BY <1>5, <1>12, FS_AddElement
  <2>2. Cardinality(Late') <= l /\ Cardinality(Late') \in Nat
    BY <1>5, <1>12, FS_Subset, FS_CardinalityType
  <2>3. N * (turns + 1) = N * turns + N /\ N * (o + 1) = N * o + N
    BY <1>5
  <2>4. N * turns \in Nat /\ N * o \in Nat
    BY <1>5
  <2> HIDE DEF N, o, l
  <2>5. Len(alerts) + Cardinality(Late') + (N * o + N) <= 1 + (N * turns + N)
    BY <1>5, <1>8, <2>2, <2>4
  <2> QED
    BY <1>9, <1>12, <2>1, <2>3, <2>5
<1>13. ASSUME Open' = Open \ {c} /\ c \in Open /\ turns' = turns
       PROVE  QueueBounded'
  <2>1. Cardinality(Open') = o - 1 /\ o - 1 \in Nat
    <3>1. IsFiniteSet(Open \ {c}) /\ Cardinality(Open \ {c}) = o - 1
      BY <1>5, <1>13, FS_RemoveElement
    <3>2. Cardinality(Open \ {c}) \in Nat
      BY <3>1, FS_CardinalityType
    <3> QED
      BY <1>13, <3>1, <3>2
  <2>2. Late' \subseteq Pass
    BY DEF Late
  <2>3. Cardinality(Late') <= N /\ Cardinality(Late') \in Nat
    BY <1>5, <2>2, FS_Subset, FS_CardinalityType
  <2>4. N * (o - 1) = N * o - N
    BY <1>5
  <2>5. N * turns \in Nat /\ N * o \in Nat
    BY <1>5
  <2> HIDE DEF N, o, l
  <2>6. Len(alerts) + Cardinality(Late') + (N * o - N) <= 1 + N * turns
    BY <1>5, <1>8, <2>3, <2>5
  <2> QED
    BY <1>9, <1>13, <2>1, <2>4, <2>6
<1>14. \/ Open' = Open /\ Late' = Late /\ turns' = turns
       \/ Open' = Open /\ Late' = Late /\ turns' = turns + 1
       \/ Open' = Open \cup {c} /\ c \notin Open /\ Late' \subseteq Late /\ turns' = turns + 1
       \/ Open' = Open \ {c} /\ c \in Open /\ turns' = turns
  <2>1. CASE bad' = bad \cup {c} /\ c \notin bad /\ turns' = turns + 1
    <3>1. Open' = IF RowsFor(c) = {} THEN Open \cup {c} ELSE Open
      BY <1>6, <2>1 DEF Open
    <3>2. c \notin Open
      BY <2>1 DEF Open
    <3>3. Late' \subseteq Late /\ (Open' = Open => Late' = Late)
      BY <1>7, <3>1 DEF Late
    <3> QED
      BY <2>1, <3>1, <3>2, <3>3
  <2>2. CASE bad' = bad \ {c} /\ turns' = turns
    <3>1. Open' = Open \ {c}
      BY <1>6, <2>2 DEF Open
    <3>2. Open' = Open => Late' = Late
      BY <1>7 DEF Late
    <3>3. c \notin Open => Open' = Open
      BY <3>1
    <3> QED
      BY <2>2, <3>1, <3>2, <3>3
  <2> QED
    BY <1>1, <2>1, <2>2
<1> QED
  BY <1>3, <1>4, <1>10, <1>11, <1>12, <1>13, <1>14 DEF AlertInv

LEMMA ShapeFacts ==
  ASSUME AlertInv
  PROVE  /\ AlertShape /\ QueueBounded /\ SerialSense
         /\ alerts \in Seq(Row) /\ Len(alerts) \in Nat /\ DOMAIN alerts = 1..Len(alerts)
         /\ \A i \in DOMAIN alerts :
              /\ alerts[i] \in Row /\ alerts[i].attempts \in 0..MaxAttempts
              /\ alerts[i].attempts \in Nat
         /\ sent \in Seq(Nat) /\ Len(sent) = Len(alerts) /\ \A i \in DOMAIN alerts : sent[i] \in Nat
         /\ \A p \in Pass : pass[p] \in PassMemory /\ SenseOf(pass[p], 1..Len(alerts))
         /\ turns \in Nat /\ faults \in Nat /\ turns + faults <= MaxEvents
         /\ together \in BOOLEAN
<1>1. AlertShape /\ QueueBounded /\ SerialSense
  BY DEF AlertInv
<1>2. /\ Len(alerts) \in Nat /\ DOMAIN alerts = 1..Len(alerts)
      /\ \A i \in DOMAIN alerts : alerts[i] \in Row
      /\ \A i \in DOMAIN alerts : sent[i] \in Nat
  BY <1>1, RowsAreNumbered
<1>3. \A i \in DOMAIN alerts : alerts[i].attempts \in 0..MaxAttempts /\ alerts[i].attempts \in Nat
  BY <1>2, AlertAssumption DEF Row
<1> QED
  BY <1>1, <1>2, <1>3 DEF AlertShape, PassSense

\* The history once it no longer counts.
LEMMA UnsentIsAHistory ==
  ASSUME AlertInv
  PROVE  Unsent \in Seq(Nat) /\ Len(Unsent) = Len(alerts)
<1>1. Len(alerts) \in Nat /\ DOMAIN alerts = 1..Len(alerts)
  BY ShapeFacts
<1> QED
  BY <1>1 DEF Unsent

LEMMA StartKeeps ==
  ASSUME AlertInv, NEW p \in Pass, StartPass(p)
  PROVE  AlertInv'
<1>1. /\ pass[p].pc = "idle" /\ pass' = [pass EXCEPT ![p] = Starting]
      /\ together' = (together \/ \E q \in Pass \ {p} : pass[q].pc # "idle")
      /\ sent' = IF together' THEN Unsent ELSE sent
      /\ UNCHANGED <<bad, alerts, turns, faults>>
  BY DEF StartPass, Starting
<1>2. Becomes(p, Starting)
  BY <1>1, IdlingIsAMemory DEF Becomes
<1>3. SenseOf(Starting, 1..Len(alerts)) /\ Starting.pc # "insert" /\ DOMAIN Starting.read = {}
  BY IdlingIsAMemory DEF SenseOf
<1>4. sent' \in Seq(Nat) /\ Len(sent') = Len(alerts) /\ together' \in BOOLEAN
  BY <1>1, ShapeFacts, UnsentIsAHistory
<1>5. AlertShape'
  BY <1>1, <1>2, <1>3, <1>4, ShapeFacts, ShapeStays
<1>6. QueueBounded'
  <2>1. \A c \in bad : RowsFor(c)' = {} <=> RowsFor(c) = {}
    BY <1>1 DEF RowsFor
  <2> QED
    BY <1>1, <1>2, <1>3, <2>1, ShapeFacts, QueueStays
<1>7. ASSUME ~together'
      PROVE  SerialSense'
  <2>1. /\ ~together /\ sent' = sent /\ \A q \in Pass : pass[q].pc = "idle"
    BY <1>1, <1>7
  <2>2. OneOfAKey /\ (faults = 0 => TriesCounted)
    BY <2>1, ShapeFacts DEF SerialSense
  <2>3. OneOfAKey'
    BY <1>1, <2>2 DEF OneOfAKey
  <2>4. \A i \in DOMAIN alerts : ~ \E q \in Pass : Underway(i, q)
    BY <2>1, ShapeFacts, IdleIsAtNoRow
  <2>5. faults' = 0 => \A i \in DOMAIN alerts' :
           /\ sent'[i] <= alerts'[i].attempts + 1
           /\ sent'[i] <= alerts'[i].attempts \/ Underway(i, p)'
    BY <1>1, <2>1, <2>2, <2>4 DEF TriesCounted
  <2> QED
    BY <1>2, <1>3, <2>1, <2>3, <2>5, ShapeFacts, SerialStays
<1>8. CASE together'
  BY <1>5, <1>6, <1>8 DEF AlertInv, SerialSense
<1> QED
  BY <1>5, <1>6, <1>7, <1>8 DEF AlertInv

LEMMA DieKeeps ==
  ASSUME AlertInv, NEW p \in Pass, DiePass(p)
  PROVE  AlertInv'
<1>1. /\ pass[p].pc # "idle" /\ pass' = [pass EXCEPT ![p] = Idling] /\ turns + faults < MaxEvents
      /\ faults' = faults + 1 /\ sent' = Unsent
      /\ UNCHANGED <<bad, alerts, turns, together>>
  BY DEF DiePass
<1>2. Becomes(p, Idling)
  BY <1>1, IdlingIsAMemory DEF Becomes
<1>3. SenseOf(Idling, 1..Len(alerts)) /\ Idling.pc # "insert" /\ DOMAIN Idling.read = {}
  BY IdlingIsAMemory DEF SenseOf
<1>4. faults' \in Nat /\ turns' + faults' <= MaxEvents /\ faults' # 0
  BY <1>1, ShapeFacts, AlertAssumption
<1>5. AlertShape'
  BY <1>1, <1>2, <1>3, <1>4, ShapeFacts, ShapeStays, UnsentIsAHistory
<1>6. QueueBounded'
  <2>1. \A c \in bad : RowsFor(c)' = {} <=> RowsFor(c) = {}
    BY <1>1 DEF RowsFor
  <2> QED
    BY <1>1, <1>2, <1>3, <2>1, ShapeFacts, QueueStays
<1>7. ASSUME ~together
      PROVE  SerialSense'
  <2>1. Alone /\ OneOfAKey
    BY <1>7, ShapeFacts DEF SerialSense
  <2>2. \A q \in Pass \ {p} : pass[q].pc = "idle"
    BY <1>1, <2>1, ShapeFacts, OthersAreIdle
  <2>3. OneOfAKey'
    BY <1>1, <2>1 DEF OneOfAKey
  <2> QED
    BY <1>2, <1>3, <1>4, <2>2, <2>3, ShapeFacts, SerialStays
<1>8. CASE together
  BY <1>1, <1>5, <1>6, <1>8 DEF AlertInv, SerialSense
<1> QED
  BY <1>5, <1>6, <1>7, <1>8 DEF AlertInv

\* A step of pass p that leaves the rows alone and raises nothing.
LEMMA QuietStep ==
  ASSUME AlertInv, NEW p \in Pass, NEW m, pass[p].pc # "idle", Becomes(p, m), m.pc # "insert",
         SenseOf(m, 1..Len(alerts)),
         UNCHANGED <<bad, alerts, turns, faults, together>>,
         sent' \in Seq(Nat), Len(sent') = Len(alerts),
         ~together => \A i \in DOMAIN m.read : ~alerts[i].delivered /\ alerts[i].attempts = m.read[i],
         ~together /\ faults = 0 => \A i \in DOMAIN alerts :
           /\ sent'[i] <= alerts[i].attempts + 1
           /\ sent'[i] <= alerts[i].attempts \/ Underway(i, p)'
  PROVE  AlertInv'
<1>1. AlertShape'
  BY ShapeFacts, ShapeStays
<1>2. QueueBounded'
  <2>1. \A c \in bad : RowsFor(c)' = {} <=> RowsFor(c) = {}
    BY DEF RowsFor
  <2> QED
    BY <2>1, ShapeFacts, QueueStays
<1>3. ASSUME ~together
      PROVE  SerialSense'
  <2>1. Alone /\ OneOfAKey
    BY <1>3, ShapeFacts DEF SerialSense
  <2>2. \A q \in Pass \ {p} : pass[q].pc = "idle"
    BY <2>1, ShapeFacts, OthersAreIdle
  <2>3. OneOfAKey'
    BY <2>1 DEF OneOfAKey
  <2> QED
    BY <1>3, <2>2, <2>3, ShapeFacts, SerialStays
<1>4. CASE together
  BY <1>1, <1>2, <1>4 DEF AlertInv, SerialSense
<1> QED
  BY <1>1, <1>2, <1>3, <1>4 DEF AlertInv

\* While it is the only one: whatever is sent once more than its row says is at its hands.
LEMMA OnlyItsOwn ==
  ASSUME AlertInv, NEW p \in Pass, pass[p].pc # "idle", ~together
  PROVE  /\ \A q \in Pass \ {p} : pass[q].pc = "idle" /\ \A i : ~Underway(i, q)
         /\ \A i \in DOMAIN pass[p].read :
              ~alerts[i].delivered /\ alerts[i].attempts = pass[p].read[i]
         /\ faults = 0 => \A i \in DOMAIN alerts :
              /\ sent[i] <= alerts[i].attempts + 1
              /\ sent[i] <= alerts[i].attempts \/ Underway(i, p)
<1>1. Alone /\ StillPending /\ (faults = 0 => TriesCounted)
  BY ShapeFacts DEF SerialSense
<1>2. \A q \in Pass \ {p} : pass[q].pc = "idle"
  BY <1>1, ShapeFacts, OthersAreIdle
<1>3. \A q \in Pass \ {p} : \A i : ~Underway(i, q)
  BY <1>2, ShapeFacts, IdleIsAtNoRow
<1> QED
  BY <1>1, <1>2, <1>3 DEF StillPending, TriesCounted

LEMMA ReadKeeps ==
  ASSUME AlertInv, NEW p \in Pass, ReadPending(p)
  PROVE  AlertInv'
<1> DEFINE due == {i \in DOMAIN alerts : IsPending(alerts[i])}
           m == [pass[p] EXCEPT !.pc = "pending", !.todo = due,
                                !.read = [i \in due |-> alerts[i].attempts]]
<1>1. /\ pass[p].pc = "check" /\ pass[p] \in PassMemory /\ pass \in [Pass -> PassMemory]
      /\ UNCHANGED <<bad, alerts, turns, faults, sent, together>>
  BY ShapeFacts DEF ReadPending, AlertShape
<1>2. pass' = [pass EXCEPT ![p].pc = "pending", ![p].todo = due,
                           ![p].read = [i \in due |-> alerts[i].attempts]]
  BY DEF ReadPending
<1>3. due \in SUBSET Nat /\ due \subseteq 1..Len(alerts)
  BY ShapeFacts
<1>4. \A i \in due : ~alerts[i].delivered /\ alerts[i].attempts \in 0..(MaxAttempts - 1)
  BY ShapeFacts, AlertAssumption DEF IsPending
<1>5. [i \in due |-> alerts[i].attempts] \in [due -> 0..(MaxAttempts - 1)]
  BY <1>4
<1>6. [i \in due |-> alerts[i].attempts] \in UNION {[D -> 0..(MaxAttempts - 1)] : D \in SUBSET Nat}
  BY <1>3, <1>5
<1>7. m \in PassMemory
  BY <1>1, <1>3, <1>6 DEF PassMemory
<1>8. /\ m.pc = "pending" /\ m.todo = due /\ m.read = [i \in due |-> alerts[i].attempts]
      /\ m.marked = pass[p].marked
  BY <1>1 DEF PassMemory
<1>9. pass' = [pass EXCEPT ![p] = m]
  BY <1>1, <1>2
<1> HIDE DEF m
<1>10. Becomes(p, m)
  BY <1>7, <1>9 DEF Becomes
<1>11. DOMAIN m.marked = {} /\ DOMAIN m.read = due
  BY <1>1, <1>8, ShapeFacts DEF SenseOf
<1>12. SenseOf(m, 1..Len(alerts))
  BY <1>3, <1>8, <1>11 DEF SenseOf
<1>13. \A i \in DOMAIN m.read : ~alerts[i].delivered /\ alerts[i].attempts = m.read[i]
  BY <1>4, <1>8
<1>14. ASSUME ~together, faults = 0, NEW i \in DOMAIN alerts
       PROVE  sent'[i] <= alerts[i].attempts + 1 /\ sent'[i] <= alerts[i].attempts
  <2>1. ~Underway(i, p)
    BY <1>1, ShapeFacts, IdleIsAtNoRow
  <2> QED
    BY <1>1, <1>14, <2>1, OnlyItsOwn
<1> QED
  BY <1>1, <1>8, <1>10, <1>12, <1>13, <1>14, ShapeFacts, QuietStep

LEMMA SendKeeps ==
  ASSUME AlertInv, NEW p \in Pass, NEW outcome \in {"sent", "unsent"}, Send(p, outcome)
  PROVE  AlertInv'
<1> DEFINE m == [pass[p] EXCEPT !.pc = outcome]
           n == NextAlert(p)
<1>1. /\ pass[p].pc = "pending" /\ pass[p].todo # {} /\ pass[p] \in PassMemory
      /\ pass \in [Pass -> PassMemory] /\ SenseOf(pass[p], 1..Len(alerts))
      /\ sent' = IF together \/ faults > 0 THEN sent ELSE [sent EXCEPT ![n] = @ + 1]
      /\ UNCHANGED <<bad, alerts, turns, faults, together>>
  BY ShapeFacts DEF Send, AlertShape
<1>2. pass' = [pass EXCEPT ![p].pc = outcome]
  BY DEF Send
<1>3. m \in PassMemory /\ m.pc = outcome /\ m.todo = pass[p].todo /\ m.read = pass[p].read
      /\ m.marked = pass[p].marked
  BY <1>1 DEF PassMemory
<1>4. pass' = [pass EXCEPT ![p] = m]
  BY <1>1, <1>2
<1> HIDE DEF m
<1>5. Becomes(p, m) /\ pass'[p] = m
  BY <1>1, <1>3, <1>4 DEF Becomes
<1>6. SenseOf(m, 1..Len(alerts))
  BY <1>1, <1>3 DEF SenseOf
<1>7. /\ n \in pass[p].todo /\ n \in DOMAIN alerts /\ n \in DOMAIN pass[p].read
      /\ n \notin DOMAIN pass[p].marked
  BY <1>1, ShapeFacts, NextIsToDo
<1>8. NextAlert(p)' = n
  BY <1>3, <1>5 DEF NextAlert
<1>9. sent' \in Seq(Nat) /\ Len(sent') = Len(alerts)
  <2>1. sent \in Seq(Nat) /\ Len(sent) = Len(alerts) /\ n \in 1..Len(sent) /\ sent[n] + 1 \in Nat
    BY <1>7, ShapeFacts
  <2>2. /\ [sent EXCEPT ![n] = sent[n] + 1] \in Seq(Nat)
        /\ Len([sent EXCEPT ![n] = sent[n] + 1]) = Len(sent)
    BY <2>1, ExceptSeq
  <2> QED
    BY <1>1, <2>1, <2>2
<1> HIDE DEF n
<1>10. ~together => \A i \in DOMAIN m.read : ~alerts[i].delivered /\ alerts[i].attempts = m.read[i]
  BY <1>1, <1>3, OnlyItsOwn
<1>11. ASSUME ~together, faults = 0, NEW i \in DOMAIN alerts
       PROVE  /\ sent'[i] <= alerts[i].attempts + 1
              /\ sent'[i] <= alerts[i].attempts \/ Underway(i, p)'
  <2>1. /\ sent[i] <= alerts[i].attempts + 1
        /\ sent[i] <= alerts[i].attempts \/ Underway(i, p)
    BY <1>1, <1>11, OnlyItsOwn
  <2>2. Underway(i, p) <=> i \in DOMAIN pass[p].marked
    BY <1>1 DEF Underway, Holds
  <2>3. Underway(i, p)' <=> i \in DOMAIN pass[p].marked \/ i = n
    BY <1>3, <1>5, <1>8 DEF Underway, Holds
  <2>4. DOMAIN sent = 1..Len(alerts) /\ i \in DOMAIN sent
    BY ShapeFacts, RowsAreNumbered
  <2>5. sent'[i] = IF i = n THEN sent[i] + 1 ELSE sent[i]
    BY <1>1, <1>11, <2>4
  <2>6. CASE i = n
    <3>1. sent[i] <= alerts[i].attempts
      BY <1>7, <2>1, <2>2, <2>6
    <3>2. sent[i] \in Nat /\ alerts[i].attempts \in Nat
      BY ShapeFacts
    <3> QED
      BY <2>3, <2>5, <2>6, <3>1, <3>2
  <2>7. CASE i # n
    BY <2>1, <2>2, <2>3, <2>5, <2>7
  <2> QED
    BY <2>6, <2>7
<1> QED
  BY <1>1, <1>3, <1>5, <1>6, <1>9, <1>10, <1>11, ShapeFacts, QuietStep

LEMMA MarkKeeps ==
  ASSUME AlertInv, NEW p \in Pass, Mark(p)
  PROVE  AlertInv'
<1> DEFINE n == NextAlert(p)
           old == pass[p]
           marks == [j \in DOMAIN pass[p].marked \cup {n} |->
                       IF j = n THEN pass[p].pc = "sent" ELSE pass[p].marked[j]]
           m == [pass[p] EXCEPT !.pc = "pending", !.todo = pass[p].todo \ {n}, !.marked = marks]
<1>1. /\ old.pc \in {"sent", "unsent"} /\ old \in PassMemory
      /\ pass \in [Pass -> PassMemory] /\ SenseOf(old, 1..Len(alerts)) /\ old.todo # {}
      /\ UNCHANGED <<bad, alerts, turns, faults, sent, together>>
  BY ShapeFacts DEF Mark, AlertShape, SenseOf
<1>2. pass' = [pass EXCEPT ![p].pc = "pending", ![p].todo = pass[p].todo \ {n}, ![p].marked = marks]
  BY DEF Mark
<1>3. /\ n \in old.todo /\ n \in DOMAIN alerts /\ n \in DOMAIN old.read /\ n \notin DOMAIN old.marked
      /\ n \in Nat
  BY <1>1, ShapeFacts, NextIsToDo
<1>4. marks \in UNION {[D -> BOOLEAN] : D \in SUBSET Nat}
  <2>1. PICK D \in SUBSET Nat : old.marked \in [D -> BOOLEAN]
    BY <1>1 DEF PassMemory
  <2>2. DOMAIN old.marked = D /\ D \cup {n} \in SUBSET Nat
    BY <1>3, <2>1
  <2>3. marks \in [D \cup {n} -> BOOLEAN]
    BY <2>1, <2>2
  <2> QED
    BY <2>2, <2>3
<1>5. DOMAIN marks = DOMAIN old.marked \cup {n}
  OBVIOUS
<1> HIDE DEF marks
<1>6. m \in PassMemory /\ m.pc = "pending" /\ m.todo = old.todo \ {n} /\ m.read = old.read
      /\ m.marked = marks
  BY <1>1, <1>4 DEF PassMemory
<1>7. pass' = [pass EXCEPT ![p] = m]
  BY <1>1, <1>2
<1> HIDE DEF m
<1>8. Becomes(p, m) /\ pass'[p] = m
  BY <1>1, <1>6, <1>7 DEF Becomes
<1>9. SenseOf(m, 1..Len(alerts))
  BY <1>1, <1>3, <1>5, <1>6 DEF SenseOf
<1>10. ~together => \A i \in DOMAIN m.read : ~alerts[i].delivered /\ alerts[i].attempts = m.read[i]
  BY <1>1, <1>6, OnlyItsOwn
<1>11. ASSUME ~together, faults = 0, NEW i \in DOMAIN alerts
       PROVE  /\ sent'[i] <= alerts[i].attempts + 1
              /\ sent'[i] <= alerts[i].attempts \/ Underway(i, p)'
  <2>1. /\ sent[i] <= alerts[i].attempts + 1
        /\ sent[i] <= alerts[i].attempts \/ Underway(i, p)
    BY <1>1, <1>11, OnlyItsOwn
  <2>2. Underway(i, p) => Underway(i, p)'
    BY <1>1, <1>5, <1>6, <1>8 DEF Underway, Holds
  <2> QED
    BY <1>1, <2>1, <2>2
<1> QED
  BY <1>1, <1>6, <1>8, <1>9, <1>10, <1>11, ShapeFacts, QuietStep

LEMMA FindBadKeeps ==
  ASSUME AlertInv, NEW p \in Pass, FindBad(p)
  PROVE  AlertInv'
<1> DEFINE old == pass[p]
           c == Looking(p)
<1>1. /\ old.pc = "check" /\ old.at <= Len(Conditions) /\ c \in bad /\ old \in PassMemory
      /\ pass \in [Pass -> PassMemory] /\ SenseOf(old, 1..Len(alerts))
      /\ old.at \in Nat \ {0} /\ Len(Conditions) \in Nat
      /\ UNCHANGED <<bad, alerts, turns, faults, sent, together>>
      /\ pass' = IF Suppressed(c) THEN [pass EXCEPT ![p].at = @ + 1]
                 ELSE [pass EXCEPT ![p].pc = "insert"]
  BY ShapeFacts, ConditionsAreFew DEF FindBad, ToCheck, AlertShape, PassMemory
<1>2. \A i : ~Underway(i, p)
  BY <1>1, ShapeFacts, IdleIsAtNoRow
<1>3. DOMAIN old.read = {}
  BY <1>1 DEF SenseOf
<1>4. CASE Suppressed(c)
  <2> DEFINE m == [pass[p] EXCEPT !.at = pass[p].at + 1]
  <2>1. pass[p].at + 1 \in 1..(Len(Conditions) + 1)
    BY <1>1
  <2>2. m \in PassMemory /\ m.pc = "check" /\ m.todo = old.todo /\ m.read = old.read
        /\ m.marked = old.marked
    BY <1>1, <2>1 DEF PassMemory
  <2>3. pass' = [pass EXCEPT ![p] = m]
    BY <1>1, <1>4
  <2> HIDE DEF m
  <2>4. Becomes(p, m)
    BY <2>2, <2>3 DEF Becomes
  <2>5. SenseOf(m, 1..Len(alerts))
    BY <1>1, <2>2 DEF SenseOf
  <2>6. ~together /\ faults = 0 => \A i \in DOMAIN alerts :
           /\ sent'[i] <= alerts[i].attempts + 1
           /\ sent'[i] <= alerts[i].attempts \/ Underway(i, p)'
    BY <1>1, <1>2, OnlyItsOwn
  <2> QED
    BY <1>1, <1>3, <2>2, <2>4, <2>5, <2>6, ShapeFacts, QuietStep
<1>5. CASE ~Suppressed(c)
  <2> DEFINE m == [pass[p] EXCEPT !.pc = "insert"]
  <2>1. m \in PassMemory /\ m.pc = "insert" /\ m.todo = old.todo /\ m.read = old.read
        /\ m.marked = old.marked /\ m.at = old.at
    BY <1>1 DEF PassMemory
  <2>2. pass' = [pass EXCEPT ![p] = m]
    BY <1>1, <1>5
  <2> HIDE DEF m
  <2>3. Becomes(p, m) /\ pass'[p] = m /\ \A q \in Pass \ {p} : pass'[q] = pass[q]
    BY <1>1, <2>1, <2>2 DEF Becomes
  <2>4. SenseOf(m, 1..Len(alerts))
    BY <1>1, <2>1 DEF SenseOf
  <2>5. RowsFor(c) = {} /\ c \in Open
    BY <1>1, <1>5 DEF Suppressed, Open
  <2>6. AlertShape'
    BY <1>1, <2>3, <2>4, ShapeFacts, ShapeStays
  <2>7. QueueBounded'
    <3>1. Open' = Open
      BY <1>1 DEF Open, RowsFor
    <3>2. Late' \subseteq Late
      <4> SUFFICES ASSUME NEW q \in Late' PROVE q \in Late
        OBVIOUS
      <4>1. q \in Pass /\ pass'[q].pc = "insert" /\ Conditions[pass'[q].at] \notin Open
        BY <3>1 DEF Late, Looking
      <4>2. q # p
        BY <2>1, <2>3, <2>5, <4>1 DEF Looking
      <4>3. pass'[q] = pass[q]
        BY <2>3, <4>1, <4>2
      <4> QED
        BY <4>1, <4>3 DEF Late, Looking
    <3> QED
      BY <1>1, <3>1, <3>2, ShapeFacts, QueueQuiet
  <2>8. ASSUME ~together
        PROVE  SerialSense'
    <3>1. OneOfAKey /\ \A q \in Pass \ {p} : pass[q].pc = "idle"
      BY <1>1, <2>8, ShapeFacts, OnlyItsOwn DEF SerialSense
    <3>2. OneOfAKey'
      BY <1>1, <3>1 DEF OneOfAKey
    <3>3. \A i \in DOMAIN alerts' : alerts'[i].key # Conditions[m.at]
      BY <1>1, <2>1, <2>5 DEF RowsFor, Looking
    <3>4. faults' = 0 => \A i \in DOMAIN alerts' :
           /\ sent'[i] <= alerts'[i].attempts + 1
           /\ sent'[i] <= alerts'[i].attempts \/ Underway(i, p)'
      BY <1>1, <1>2, <2>8, OnlyItsOwn
    <3> QED
      BY <1>3, <2>1, <2>3, <3>1, <3>2, <3>3, <3>4, ShapeFacts, SerialStays
  <2>9. CASE together
    BY <1>1, <2>6, <2>7, <2>9 DEF AlertInv, SerialSense
  <2> QED
    BY <2>6, <2>7, <2>8, <2>9 DEF AlertInv
<1> QED
  BY <1>4, <1>5

\* A condition is raised: the queue grows by a row of a key that, alone, was on none.
LEMMA InsertKeeps ==
  ASSUME AlertInv, NEW p \in Pass, InsertAlert(p)
  PROVE  AlertInv'
<1> DEFINE old == pass[p]
           c == Conditions[old.at]
           row == [key |-> c, attempts |-> 0, delivered |-> FALSE]
           L == Len(alerts)
           m == [pass[p] EXCEPT !.pc = "check", !.at = pass[p].at + 1]
<1>1. /\ old.pc = "insert" /\ old \in PassMemory /\ pass \in [Pass -> PassMemory]
      /\ SenseOf(old, 1..L)
  BY ShapeFacts DEF InsertAlert, AlertShape
<1>2. old.at <= Len(Conditions) /\ DOMAIN old.read = {}
  BY <1>1 DEF SenseOf
<1>3. old.at \in Nat \ {0} /\ Len(Conditions) \in Nat
  BY <1>1, ConditionsAreFew DEF PassMemory
<1>4. /\ alerts' = Append(alerts, row) /\ sent' = Append(sent, 0)
      /\ UNCHANGED <<bad, turns, faults, together>>
  BY DEF InsertAlert, Looking
<1>5. /\ old.pc = "insert" /\ old.at <= Len(Conditions) /\ old \in PassMemory
      /\ pass \in [Pass -> PassMemory] /\ SenseOf(old, 1..L) /\ DOMAIN old.read = {}
      /\ old.at \in Nat \ {0} /\ Len(Conditions) \in Nat
      /\ alerts' = Append(alerts, row) /\ sent' = Append(sent, 0)
      /\ UNCHANGED <<bad, turns, faults, together>>
  BY <1>1, <1>2, <1>3, <1>4
<1>6. pass[p].at + 1 \in 1..(Len(Conditions) + 1)
  BY <1>5
<1>7. pass' = [pass EXCEPT ![p].pc = "check", ![p].at = pass[p].at + 1]
  BY DEF InsertAlert
<1>8. m \in PassMemory /\ m.pc = "check" /\ m.todo = old.todo /\ m.read = old.read
      /\ m.marked = old.marked
  BY <1>5, <1>6 DEF PassMemory
<1>9. pass' = [pass EXCEPT ![p] = m]
  BY <1>5, <1>7
<1>10. c \in Condition /\ c # Cleared
  BY <1>5, ConditionsAreFew
<1> HIDE DEF m, c
<1>11. row \in Row /\ row.key = c /\ row.attempts = 0 /\ ~row.delivered
  BY <1>10, AlertAssumption DEF Row
<1> HIDE DEF row
<1>12. Becomes(p, m) /\ pass'[p] = m /\ \A q \in Pass \ {p} : pass'[q] = pass[q]
  BY <1>5, <1>8, <1>9 DEF Becomes
<1>13. /\ alerts' \in Seq(Row) /\ Len(alerts') = L + 1 /\ L \in Nat
       /\ DOMAIN alerts' = 1..(L + 1) /\ DOMAIN alerts = 1..L
       /\ \A i \in 1..L : alerts'[i] = alerts[i]
       /\ alerts'[L + 1] = row
  BY <1>5, <1>11, ShapeFacts, AppendProperties, LenProperties
<1>14. /\ sent' \in Seq(Nat) /\ Len(sent') = L + 1
       /\ \A i \in 1..L : sent'[i] = sent[i]
       /\ sent'[L + 1] = 0
  BY <1>5, ShapeFacts, AppendProperties
<1>15. SenseOf(m, 1..Len(alerts'))
  BY <1>5, <1>8, <1>13 DEF SenseOf
<1>16. AlertShape'
  BY <1>5, <1>12, <1>13, <1>14, <1>15, ShapeFacts, ShapeStays
<1>17. /\ \A d : d # c => RowsFor(d)' = RowsFor(d)
       /\ \A d : d = c => RowsFor(d)' # {}
  <2> HIDE DEF L
  <2>1. ASSUME NEW d, d # c
        PROVE  RowsFor(d)' = RowsFor(d)
    <3>1. \A i \in 1..(L + 1) : i \in 1..L \/ i = L + 1
      BY <1>13
    <3>2. \A i : i \in 1..(L + 1) /\ alerts'[i].key = d <=> i \in 1..L /\ alerts[i].key = d
      BY <1>11, <1>13, <2>1, <3>1
    <3> QED
      BY <1>13, <3>2 DEF RowsFor
  <2>2. L + 1 \in DOMAIN alerts' /\ alerts'[L + 1].key = c
    BY <1>11, <1>13
  <2>3. ASSUME NEW d, d = c
        PROVE  RowsFor(d)' # {}
    <3>1. L + 1 \in RowsFor(d)'
      BY <2>2, <2>3 DEF RowsFor
    <3> QED
      BY <3>1
  <2> QED
    BY <2>1, <2>3
<1>18. Open' = Open \ {c}
  BY <1>5, <1>17 DEF Open
<1>19. QueueBounded'
  <2> DEFINE N == Cardinality(Pass)
             o == Cardinality(Open)
             l == Cardinality(Late)
  <2>1. /\ N \in Nat /\ o \in Nat /\ l \in Nat /\ IsFiniteSet(Open) /\ turns \in Nat
        /\ IsFiniteSet(Pass) /\ IsFiniteSet(Late) /\ Late \subseteq Pass
    BY ShapeFacts, CountsAreNumbers DEF Late
  <2>2. L + l + N * o <= 1 + N * turns
    BY ShapeFacts DEF QueueBounded
  <2>3. QueueBounded' <=> (L + 1) + Cardinality(Late') + N * Cardinality(Open') <= 1 + N * turns
    BY <1>5, <1>13 DEF QueueBounded
  <2>4. p \notin Late' /\ Late' \subseteq Pass
    BY <1>8, <1>12 DEF Late
  <2>5. N * turns \in Nat /\ N * o \in Nat
    BY <2>1
  <2>6. CASE c \in Open
    <3>1. Cardinality(Open') = o - 1
      BY <1>18, <2>1, <2>6, FS_RemoveElement
    <3>2. Late' \subseteq Pass \ {p}
      BY <2>4
    <3>3. IsFiniteSet(Pass \ {p}) /\ Cardinality(Pass \ {p}) = N - 1
      BY <2>1, FS_RemoveElement
    <3>4. Cardinality(Late') <= N - 1 /\ Cardinality(Late') \in Nat
      BY <3>2, <3>3, FS_Subset, FS_CardinalityType
    <3>5. N * (o - 1) = N * o - N
      BY <2>1
    <3> HIDE DEF N, o, l, L
    <3>6. (L + 1) + Cardinality(Late') + (N * o - N) <= 1 + N * turns
      BY <1>13, <2>1, <2>2, <2>5, <3>4
    <3> QED
      BY <2>3, <3>1, <3>5, <3>6
  <2>7. CASE c \notin Open
    <3>1. Open' = Open /\ p \in Late
      BY <1>5, <1>18, <2>7 DEF Late, Looking, c
    <3>2. Late' \subseteq Late \ {p}
      BY <1>12, <2>4, <3>1 DEF Late, Looking
    <3>3. IsFiniteSet(Late \ {p}) /\ Cardinality(Late \ {p}) = l - 1
      BY <2>1, <3>1, FS_RemoveElement
    <3>4. Cardinality(Late') <= l - 1 /\ Cardinality(Late') \in Nat
      BY <3>2, <3>3, FS_Subset, FS_CardinalityType
    <3> HIDE DEF N, o, l, L
    <3>5. (L + 1) + Cardinality(Late') + N * o <= 1 + N * turns
      BY <1>13, <2>1, <2>2, <2>5, <3>4
    <3> QED
      BY <2>3, <3>1, <3>5 DEF o
  <2> QED
    BY <2>6, <2>7
<1>20. ASSUME ~together
       PROVE  SerialSense'
  <2>1. /\ OneOfAKey /\ StillMissing /\ \A q \in Pass \ {p} : pass[q].pc = "idle"
        /\ faults = 0 => \A i \in DOMAIN alerts : sent[i] <= alerts[i].attempts
    <3>1. \A i : ~Underway(i, p)
      BY <1>5, ShapeFacts, IdleIsAtNoRow
    <3> QED
      BY <1>5, <1>20, <3>1, ShapeFacts, OnlyItsOwn DEF SerialSense
  <2>2. \A i \in 1..L : alerts[i].key # c
    BY <1>5, <1>13, <2>1 DEF StillMissing, RowsFor, Looking, c
  <2>3. OneOfAKey'
    <3> SUFFICES ASSUME NEW i \in 1..(L + 1), NEW j \in 1..(L + 1),
                        alerts'[i].key = alerts'[j].key, alerts'[i].key # Cleared
                 PROVE  i = j
      BY <1>13 DEF OneOfAKey
    <3>1. (i \in 1..L \/ i = L + 1) /\ (j \in 1..L \/ j = L + 1)
      BY <1>13
    <3>2. CASE i \in 1..L /\ j \in 1..L
      BY <1>13, <2>1, <3>2 DEF OneOfAKey
    <3>3. CASE i = L + 1 \/ j = L + 1
      BY <1>11, <1>13, <2>2, <3>1, <3>3
    <3> QED
      BY <3>1, <3>2, <3>3
  <2>4. ASSUME faults' = 0, NEW i \in DOMAIN alerts'
        PROVE  sent'[i] <= alerts'[i].attempts + 1 /\ sent'[i] <= alerts'[i].attempts
    <3>1. i \in 1..L \/ i = L + 1
      BY <1>13
    <3>2. CASE i \in 1..L
      BY <1>5, <1>13, <1>14, <2>1, <2>4, <3>2, ShapeFacts
    <3>3. CASE i = L + 1
      BY <1>11, <1>13, <1>14, <3>3
    <3> QED
      BY <3>1, <3>2, <3>3
  <2> QED
    BY <1>5, <1>8, <1>12, <2>1, <2>3, <2>4, ShapeFacts, SerialStays
<1>21. CASE together
  BY <1>5, <1>16, <1>19, <1>21 DEF AlertInv, SerialSense
<1> QED
  BY <1>16, <1>19, <1>20, <1>21 DEF AlertInv

\* Clearing a condition that is good takes rows out of its way and puts none into another's.
LEMMA FindGoodKeeps ==
  ASSUME AlertInv, NEW p \in Pass, FindGood(p)
  PROVE  AlertInv'
<1> DEFINE old == pass[p]
           c == Looking(p)
           L == Len(alerts)
           m == [pass[p] EXCEPT !.at = pass[p].at + 1]
<1>1. /\ old.pc = "check" /\ old.at <= Len(Conditions) /\ c \notin bad /\ old \in PassMemory
      /\ pass \in [Pass -> PassMemory] /\ SenseOf(old, 1..L)
      /\ UNCHANGED <<bad, turns, faults, sent, together>>
      /\ pass' = [pass EXCEPT ![p].at = pass[p].at + 1]
  BY ShapeFacts DEF FindGood, ToCheck, AlertShape
<1>2. /\ old.at \in Nat \ {0} /\ Len(Conditions) \in Nat /\ DOMAIN old.read = {}
      /\ pass[p].at + 1 \in 1..(Len(Conditions) + 1)
  BY <1>1, ConditionsAreFew DEF PassMemory, SenseOf
<1>3. m \in PassMemory /\ m.pc = "check" /\ m.todo = old.todo /\ m.read = old.read
      /\ m.marked = old.marked
  BY <1>1, <1>2 DEF PassMemory
<1>4. pass' = [pass EXCEPT ![p] = m]
  BY <1>1
<1> HIDE DEF m
<1>5. Becomes(p, m) /\ pass'[p] = m
  BY <1>1, <1>3, <1>4 DEF Becomes
<1>6. c \in Condition /\ L \in Nat /\ DOMAIN alerts = 1..L
  BY <1>1, <1>2, ShapeFacts, ConditionsAreFew DEF Looking
<1>7. \/ alerts' = alerts
      \/ alerts' = [i \in DOMAIN alerts |->
                      IF alerts[i].key = c THEN [alerts[i] EXCEPT !.key = Cleared] ELSE alerts[i]]
  BY DEF FindGood
<1> HIDE DEF c
<1>8. ASSUME NEW i \in 1..L
      PROVE  /\ alerts'[i] \in Row /\ alerts'[i].attempts = alerts[i].attempts
             /\ alerts'[i].delivered = alerts[i].delivered
             /\ \/ alerts'[i].key = alerts[i].key
                \/ alerts[i].key = c /\ alerts'[i].key = Cleared
  <2>1. alerts[i] \in Row
    BY <1>6, ShapeFacts
  <2>2. CASE alerts' = alerts
    BY <2>1, <2>2
  <2>3. CASE alerts' = [j \in DOMAIN alerts |->
                      IF alerts[j].key = c THEN [alerts[j] EXCEPT !.key = Cleared] ELSE alerts[j]]
    <3>1. alerts'[i] = IF alerts[i].key = c THEN [alerts[i] EXCEPT !.key = Cleared] ELSE alerts[i]
      BY <1>6, <2>3
    <3> QED
      BY <2>1, <3>1 DEF Row
  <2> QED
    BY <1>7, <2>2, <2>3
<1>9. alerts' \in Seq(Row) /\ Len(alerts') = L /\ DOMAIN alerts' = 1..L
  <2>1. CASE alerts' = alerts
    BY <1>6, <2>1, ShapeFacts
  <2>2. CASE alerts' # alerts
    <3>1. alerts' = [i \in 1..L |-> alerts'[i]]
      BY <1>6, <1>7, <2>2
    <3>2. alerts' \in [1..L -> Row]
      BY <1>8, <3>1
    <3> QED
      BY <1>6, <3>1, <3>2
  <2> QED
    BY <2>1, <2>2
<1>10. AlertShape'
  <2>1. SenseOf(m, 1..Len(alerts'))
    BY <1>1, <1>3, <1>9 DEF SenseOf
  <2> QED
    BY <1>1, <1>5, <1>6, <1>9, <2>1, ShapeFacts, ShapeStays
<1>11. ASSUME NEW d \in bad
       PROVE  RowsFor(d)' = RowsFor(d)
  <2>1. d # c /\ d # Cleared
    BY <1>1, <1>11, ShapeFacts, ConditionsAreFew DEF AlertShape, c
  <2>2. \A i \in 1..L : alerts'[i].key = d <=> alerts[i].key = d
    BY <1>8, <2>1
  <2> QED
    BY <1>6, <1>9, <2>2 DEF RowsFor
<1>12. QueueBounded'
  BY <1>1, <1>3, <1>5, <1>9, <1>11, ShapeFacts, QueueStays
<1>13. ASSUME ~together
       PROVE  SerialSense'
  <2>1. \A i : ~Underway(i, p)
    BY <1>1, ShapeFacts, IdleIsAtNoRow
  <2>2. /\ OneOfAKey /\ \A q \in Pass \ {p} : pass[q].pc = "idle"
        /\ faults = 0 => \A i \in DOMAIN alerts : sent[i] <= alerts[i].attempts
    BY <1>1, <1>13, <2>1, ShapeFacts, OnlyItsOwn DEF SerialSense
  <2>3. OneOfAKey'
    BY <1>6, <1>8, <1>9, <2>2 DEF OneOfAKey
  <2>4. ASSUME faults' = 0, NEW i \in DOMAIN alerts'
        PROVE  sent'[i] <= alerts'[i].attempts + 1 /\ sent'[i] <= alerts'[i].attempts
    <3>1. i \in 1..L /\ sent' = sent /\ faults = 0
      BY <1>1, <1>9, <2>4
    <3>2. alerts'[i].attempts = alerts[i].attempts /\ alerts'[i] \in Row
      BY <1>8, <3>1
    <3>3. sent[i] <= alerts[i].attempts /\ sent[i] \in Nat /\ alerts[i].attempts \in Nat
      BY <1>6, <2>2, <3>1, ShapeFacts DEF AlertShape, Row
    <3> QED
      BY <3>1, <3>2, <3>3
  <2> QED
    BY <1>1, <1>2, <1>3, <1>5, <2>2, <2>3, <2>4, ShapeFacts, SerialStays
<1>14. CASE together
  BY <1>1, <1>10, <1>12, <1>14 DEF AlertInv, SerialSense
<1> QED
  BY <1>10, <1>12, <1>13, <1>14 DEF AlertInv

\* What a pass marked is written from what it read, which alone is what the rows held.
LEMMA CommitPassKeeps ==
  ASSUME AlertInv, NEW p \in Pass, CommitPass(p)
  PROVE  AlertInv'
<1> DEFINE old == pass[p]
           L == Len(alerts)
           held == DOMAIN pass[p].marked
<1>1. /\ old.pc = "pending" /\ old \in PassMemory /\ pass' = [pass EXCEPT ![p] = Idling]
      /\ SenseOf(old, 1..L)
      /\ UNCHANGED <<bad, turns, faults, sent, together>>
      /\ alerts' = [i \in DOMAIN alerts |-> IF Holds(i, p) THEN Marked(p, i) ELSE alerts[i]]
  BY ShapeFacts DEF CommitPass
<1>2. Becomes(p, Idling)
  BY <1>1, IdlingIsAMemory DEF Becomes
<1>3. L \in Nat /\ DOMAIN alerts = 1..L
  BY ShapeFacts
<1>4. ASSUME NEW i \in held
      PROVE  /\ i \in DOMAIN old.read /\ old.read[i] \in 0..(MaxAttempts - 1)
             /\ old.marked[i] \in BOOLEAN
  <2>1. i \in DOMAIN old.read
    BY <1>1, <1>4 DEF SenseOf
  <2>2. PICK D \in SUBSET Nat : old.read \in [D -> 0..(MaxAttempts - 1)]
    BY <1>1 DEF PassMemory
  <2>3. PICK E \in SUBSET Nat : old.marked \in [E -> BOOLEAN]
    BY <1>1 DEF PassMemory
  <2> QED
    BY <1>4, <2>1, <2>2, <2>3
<1>5. ASSUME NEW i \in 1..L
      PROVE  /\ alerts'[i] \in Row /\ alerts'[i].key = alerts[i].key
             /\ i \in held => alerts'[i].attempts = old.read[i] + 1
             /\ i \notin held => alerts'[i] = alerts[i]
             /\ alerts[i].delivered => alerts'[i].delivered
  <2>1. alerts[i] \in Row /\ alerts'[i] = IF Holds(i, p) THEN Marked(p, i) ELSE alerts[i]
    BY <1>1, <1>3, ShapeFacts
  <2>2. CASE i \notin held
    BY <2>1, <2>2 DEF Holds
  <2>3. CASE i \in held
    <3>1. /\ old.read[i] + 1 \in 0..MaxAttempts /\ old.marked[i] \in BOOLEAN
      BY <1>4, <2>3, AlertAssumption
    <3>2. alerts'[i] = [alerts[i] EXCEPT !.attempts = old.read[i] + 1,
                                        !.delivered = alerts[i].delivered \/ old.marked[i]]
      BY <2>1, <2>3 DEF Holds, Marked
    <3>3. (alerts[i].delivered \/ old.marked[i]) \in BOOLEAN
      OBVIOUS
    <3> QED
      BY <2>1, <2>3, <3>1, <3>2, <3>3 DEF Row
  <2> QED
    BY <2>2, <2>3
<1> HIDE DEF held
<1>6. alerts' \in Seq(Row) /\ Len(alerts') = L /\ DOMAIN alerts' = 1..L
  <2>1. alerts' = [i \in 1..L |-> alerts'[i]]
    BY <1>1, <1>3
  <2>2. alerts' \in [1..L -> Row]
    BY <1>5, <2>1
  <2> QED
    BY <1>3, <2>1, <2>2
<1>7. /\ SenseOf(Idling, 1..Len(alerts')) /\ Idling.pc # "insert" /\ DOMAIN Idling.read = {}
  BY IdlingIsAMemory DEF SenseOf
<1>8. AlertShape'
  BY <1>1, <1>2, <1>3, <1>6, <1>7, ShapeFacts, ShapeStays
<1>9. \A c \in bad : RowsFor(c)' = RowsFor(c)
  BY <1>3, <1>5, <1>6 DEF RowsFor
<1>10. QueueBounded'
  BY <1>1, <1>2, <1>6, <1>7, <1>9, ShapeFacts, QueueStays
<1>11. ASSUME ~together
       PROVE  SerialSense'
  <2>1. /\ OneOfAKey /\ \A q \in Pass \ {p} : pass[q].pc = "idle"
        /\ \A i \in DOMAIN old.read : alerts[i].attempts = old.read[i]
        /\ faults = 0 => \A i \in DOMAIN alerts :
             /\ sent[i] <= alerts[i].attempts + 1
             /\ sent[i] <= alerts[i].attempts \/ Underway(i, p)
    BY <1>1, <1>11, ShapeFacts, OnlyItsOwn DEF SerialSense
  <2>2. OneOfAKey'
    BY <1>3, <1>5, <1>6, <2>1 DEF OneOfAKey
  <2>3. ASSUME faults' = 0, NEW i \in DOMAIN alerts'
        PROVE  sent'[i] <= alerts'[i].attempts + 1 /\ sent'[i] <= alerts'[i].attempts
    <3>1. i \in 1..L /\ sent'[i] = sent[i] /\ sent[i] \in Nat /\ alerts[i].attempts \in Nat
      BY <1>1, <1>3, <1>6, <2>3, ShapeFacts
    <3>2. CASE i \in held
      <4>1. alerts'[i].attempts = alerts[i].attempts + 1
        BY <1>4, <1>5, <2>1, <3>1, <3>2 DEF held
      <4> QED
        BY <1>1, <1>3, <2>1, <2>3, <3>1, <4>1
    <3>3. CASE i \notin held
      <4>1. alerts'[i] = alerts[i] /\ ~Underway(i, p)
        BY <1>1, <1>5, <3>1, <3>3 DEF Underway, Holds, held
      <4> QED
        BY <1>1, <1>3, <2>1, <2>3, <3>1, <4>1
    <3> QED
      BY <3>2, <3>3
  <2> QED
    BY <1>1, <1>2, <1>7, <2>1, <2>2, <2>3, ShapeFacts, SerialStays
<1>12. CASE together
  BY <1>1, <1>8, <1>10, <1>12 DEF AlertInv, SerialSense
<1> QED
  BY <1>8, <1>10, <1>11, <1>12 DEF AlertInv

-----------------------------------------------------------------------------
LEMMA AlertStep ==
  ASSUME AlertInv, [AlertNext]_alertVars
  PROVE  AlertInv'
<1>1. ASSUME NEW p \in Pass, ProceedPass(p)
      PROVE  AlertInv'
  BY <1>1, StartKeeps, FindBadKeeps, InsertKeeps, FindGoodKeeps, ReadKeeps, SendKeeps, MarkKeeps,
     CommitPassKeeps DEF ProceedPass
<1>2. CASE UNCHANGED alertVars
  <2>1. /\ bad' = bad /\ alerts' = alerts /\ pass' = pass /\ turns' = turns /\ faults' = faults
        /\ sent' = sent /\ together' = together
    BY <1>2 DEF alertVars
  <2>2. \A p \in Pass : PassSense(p)' <=> PassSense(p)
    BY <2>1 DEF PassSense, SenseOf
  <2>3. AlertShape'
    BY <2>1, <2>2 DEF AlertInv, AlertShape, PassMemory, Row, Condition
  <2>4. Open' = Open
    BY <2>1 DEF Open, RowsFor
  <2>5. Late' \subseteq Late
    BY <2>1, <2>4 DEF Late, Looking
  <2>6. QueueBounded'
    BY <2>1, <2>4, <2>5, QueueQuiet DEF AlertInv
  <2>7. /\ Alone => Alone'
        /\ OneOfAKey => OneOfAKey'
        /\ StillMissing => StillMissing'
        /\ StillPending => StillPending'
    BY <2>1 DEF Alone, OneOfAKey, StillMissing, StillPending, RowsFor, Looking
  <2>8. TriesCounted => TriesCounted'
    BY <2>1 DEF TriesCounted, Underway, Holds, NextAlert
  <2>9. SerialSense'
    BY <2>1, <2>7, <2>8 DEF AlertInv, SerialSense
  <2> QED
    BY <2>3, <2>6, <2>9 DEF AlertInv
<1> QED
  BY <1>1, <1>2, WorldTurns, DieKeeps DEF AlertNext

\* The outbox's invariant holds in every behaviour, crashes and overlapping passes included.
THEOREM AlertsAlways == AlertSpec => []AlertInv
BY AlertFirst, AlertStep, PTL DEF AlertSpec

\* The rows a condition has while passes do not overlap: one or none.
LEMMA FewRows ==
  ASSUME AlertInv, ~together, NEW c \in Condition
  PROVE  Cardinality(RowsFor(c)) <= 1
<1>1. OneOfAKey /\ c # Cleared
  BY ConditionsAreFew DEF AlertInv, SerialSense
<1>2. CASE RowsFor(c) = {}
  BY <1>2, FS_EmptySet
<1>3. CASE RowsFor(c) # {}
  <2>1. PICK i \in RowsFor(c) : TRUE
    BY <1>3
  <2>2. RowsFor(c) = {i}
    BY <1>1, <2>1 DEF RowsFor, OneOfAKey
  <2>3. Cardinality({i}) = 1
    BY FS_Singleton
  <2> QED
    BY <2>2, <2>3
<1> QED
  BY <1>2, <1>3

LEMMA QueueIsShort ==
  ASSUME AlertInv
  PROVE  Len(alerts) <= MaxAlerts
<1> DEFINE N == Cardinality(Pass)
           x == N * Cardinality(Open)
           y == N * turns
           z == MaxEvents * N
<1>1. N \in Nat /\ x \in Nat /\ y \in Nat /\ z \in Nat /\ y <= z
  <2>1. N \in Nat /\ Cardinality(Open) \in Nat /\ turns \in Nat /\ MaxEvents \in Nat
        /\ faults \in Nat /\ turns + faults <= MaxEvents
    BY CountsAreNumbers, AlertAssumption DEF AlertInv, AlertShape
  <2>2. turns <= MaxEvents
    BY <2>1
  <2> HIDE DEF N
  <2>3. N * turns <= N * MaxEvents
    BY <2>1, <2>2, Z3
  <2> QED
    BY <2>1, <2>3, Z3
<1>2. Len(alerts) + Cardinality(Late) + x <= 1 + y
  BY DEF AlertInv, QueueBounded
<1>3. Len(alerts) \in Nat /\ Cardinality(Late) \in Nat
  BY CountsAreNumbers DEF AlertInv
<1>4. MaxAlerts = 1 + z
  BY DEF MaxAlerts
<1> HIDE DEF x, y, z, N
<1> QED
  BY <1>1, <1>2, <1>3, <1>4

LEMMA AlertPromise == AlertInv => AlertsAreBounded
<1> SUFFICES ASSUME AlertInv PROVE AlertsAreBounded
  OBVIOUS
<1>1. AlertTypeOK
  <2>1. ASSUME NEW p \in Pass
        PROVE  /\ pass[p].pc \in {"idle", "check", "insert", "pending", "send", "sent", "unsent"}
               /\ pass[p].at \in 1..(Len(Conditions) + 1)
               /\ pass[p].todo \subseteq DOMAIN alerts
               /\ \A i \in DOMAIN pass[p].marked : pass[p].read[i] < MaxAttempts
    <3>1. pass[p] \in PassMemory /\ SenseOf(pass[p], DOMAIN alerts)
      BY DEF AlertInv, AlertShape, PassSense
    <3>2. PICK D \in SUBSET Nat : pass[p].read \in [D -> 0..(MaxAttempts - 1)]
      BY <3>1 DEF PassMemory
    <3>3. ASSUME NEW i \in DOMAIN pass[p].marked PROVE pass[p].read[i] < MaxAttempts
      <4>1. i \in D
        BY <3>1, <3>2 DEF SenseOf
      <4>2. pass[p].read[i] \in 0..(MaxAttempts - 1)
        BY <3>2, <4>1
      <4> QED
        BY <4>2, AlertAssumption
    <3> QED
      BY <3>1, <3>3 DEF SenseOf, PassMemory
  <2>2. /\ bad \subseteq Condition /\ alerts \in Seq(Row) /\ turns \in Nat /\ faults \in Nat
        /\ turns + faults <= MaxEvents /\ sent \in Seq(Nat) /\ Len(sent) = Len(alerts)
        /\ together \in BOOLEAN
    BY DEF AlertInv, AlertShape
  <2> QED
    BY <2>1, <2>2, QueueIsShort DEF AlertTypeOK
<1>2. SerialTriesBounded
  <2> SUFFICES ASSUME ~together, faults = 0, NEW i \in DOMAIN sent PROVE sent[i] <= MaxAttempts
    BY DEF SerialTriesBounded
  <2>1. /\ i \in DOMAIN alerts /\ sent[i] \in Nat /\ alerts[i] \in Row
        /\ MaxAttempts \in Nat \ {0}
    BY RowsAreNumbered, AlertAssumption DEF AlertInv
  <2>2. alerts[i].attempts \in 0..MaxAttempts
    BY <2>1 DEF Row
  <2>3. TriesCounted /\ StillPending
    BY DEF AlertInv, SerialSense
  <2>4. CASE sent[i] <= alerts[i].attempts
    BY <2>1, <2>2, <2>4
  <2>5. ASSUME NEW p \in Pass, Underway(i, p) PROVE sent[i] <= MaxAttempts
    <3>1. pass[p] \in PassMemory /\ PassSense(p) /\ AlertShape
      BY DEF AlertInv, AlertShape
    <3>2. i \in DOMAIN pass[p].read
      <4>1. CASE Holds(i, p)
        BY <3>1, <4>1 DEF Holds, PassSense, SenseOf
      <4>2. CASE pass[p].pc \in {"sent", "unsent"} /\ i = NextAlert(p)
        BY <3>1, <4>2, NextIsToDo DEF PassSense, SenseOf
      <4> QED
        BY <2>5, <4>1, <4>2 DEF Underway
    <3>3. PICK D \in SUBSET Nat : pass[p].read \in [D -> 0..(MaxAttempts - 1)]
      BY <3>1 DEF PassMemory
    <3>4. pass[p].read[i] \in 0..(MaxAttempts - 1)
      BY <3>2, <3>3
    <3>5. alerts[i].attempts = pass[p].read[i]
      BY <2>3, <3>2 DEF StillPending
    <3>6. sent[i] <= alerts[i].attempts + 1
      BY <2>1, <2>3 DEF TriesCounted
    <3> QED
      BY <2>1, <3>4, <3>5, <3>6
  <2> QED
    BY <2>1, <2>3, <2>4, <2>5 DEF TriesCounted
<1>3. SerialOneAlert
  BY FewRows DEF SerialOneAlert
<1> QED
  BY <1>1, <1>2, <1>3 DEF AlertsAreBounded

\* While passes do not overlap no condition has two rows, and while none dies no alert is
\* tried more often than MaxAttempts; in any case the queue never outgrows what the
\* conditions that turned bad account for.
THEOREM AlertsAlwaysBounded == AlertSpec => []AlertsAreBounded
BY AlertsAlways, AlertPromise, PTL

-----------------------------------------------------------------------------
LEMMA StampStays ==
  ASSUME AlertInv, [AlertNext]_alertVars, NEW i \in DOMAIN alerts, alerts[i].delivered
  PROVE  alerts'[i].delivered
<1>1. i \in 1..Len(alerts) /\ Len(alerts) \in Nat /\ alerts \in Seq(Row) /\ alerts[i] \in Row
  BY ShapeFacts
<1>2. ASSUME NEW p \in Pass, InsertAlert(p) PROVE alerts'[i].delivered
  <2>1. alerts' = Append(alerts, [key |-> Looking(p), attempts |-> 0, delivered |-> FALSE])
    BY <1>2 DEF InsertAlert
  <2>2. alerts'[i] = alerts[i]
    BY <1>1, <2>1
  <2> QED
    BY <2>2
<1>3. ASSUME NEW p \in Pass, FindGood(p) PROVE alerts'[i].delivered
  <2>1. \/ alerts' = alerts
        \/ alerts' = [j \in DOMAIN alerts |->
                        IF alerts[j].key = Looking(p) THEN [alerts[j] EXCEPT !.key = Cleared]
                        ELSE alerts[j]]
    BY <1>3 DEF FindGood
  <2>2. \/ alerts'[i] = alerts[i]
        \/ alerts'[i] = [alerts[i] EXCEPT !.key = Cleared]
    BY <2>1
  <2>3. [alerts[i] EXCEPT !.key = Cleared].delivered = alerts[i].delivered
    BY <1>1 DEF Row
  <2> QED
    BY <2>2, <2>3
<1>4. ASSUME NEW p \in Pass, CommitPass(p) PROVE alerts'[i].delivered
  <2>1. alerts' = [j \in DOMAIN alerts |-> IF Holds(j, p) THEN Marked(p, j) ELSE alerts[j]]
    BY <1>4 DEF CommitPass
  <2>2. Marked(p, i).delivered = (alerts[i].delivered \/ pass[p].marked[i])
    BY <1>1 DEF Row, Marked
  <2> QED
    BY <2>1, <2>2
<1>5. ASSUME UNCHANGED alerts PROVE alerts'[i].delivered
  BY <1>5
<1>6. ASSUME NEW p \in Pass, ProceedPass(p) PROVE alerts'[i].delivered
  BY <1>2, <1>3, <1>4, <1>5, <1>6 DEF ProceedPass, StartPass, FindBad, ReadPending, Send, Mark
<1> QED
  BY <1>5, <1>6 DEF AlertNext, alertVars, TurnBad, TurnGood, DiePass

\* The only pass in progress sends what its session read as not delivered, and still is not.
LEMMA SendIsFirst ==
  ASSUME AlertInv, AlertNext, NEW p \in Pass, pass[p].pc = "pending",
         pass'[p].pc \in {"sent", "unsent"}, ~together
  PROVE  ~alerts[NextAlert(p)].delivered
<1>1. AlertShape /\ StillPending /\ pass \in [Pass -> PassMemory]
  BY DEF AlertInv, SerialSense, AlertShape
<1>2. pass[p].todo # {}
  <2>1. CASE \E o \in {"sent", "unsent"} : Send(p, o)
    BY <2>1 DEF Send
  <2>2. CASE ~\E o \in {"sent", "unsent"} : Send(p, o)
    <3>1. ASSUME NEW q \in Pass, q # p, ProceedPass(q) PROVE FALSE
      <4>1. pass'[p] = pass[p]
        BY <1>1, <3>1 DEF ProceedPass, StartPass, FindBad, InsertAlert, FindGood, ReadPending,
           Send, Mark, CommitPass
      <4> QED
        BY <4>1
    <3>2. ASSUME ProceedPass(p) PROVE FALSE
      <4>1. CommitPass(p)
        BY <2>2, <3>2 DEF ProceedPass, StartPass, FindBad, InsertAlert, FindGood, ToCheck,
           ReadPending, Mark
      <4>2. pass'[p] = Idling
        BY <1>1, <4>1 DEF CommitPass
      <4> QED
        BY <4>2, IdlingIsAMemory
    <3>3. ASSUME NEW q \in Pass, DiePass(q) PROVE FALSE
      <4>1. pass'[p] = pass[p] \/ pass'[p] = Idling
        BY <1>1, <3>3 DEF DiePass
      <4> QED
        BY <4>1, IdlingIsAMemory
    <3>4. ASSUME NEW c \in Condition, TurnBad(c) \/ TurnGood(c) PROVE FALSE
      BY <3>4 DEF TurnBad, TurnGood
    <3> QED
      BY <3>1, <3>2, <3>3, <3>4 DEF AlertNext
  <2> QED
    BY <2>1, <2>2
<1>3. NextAlert(p) \in DOMAIN pass[p].read
  BY <1>1, <1>2, NextIsToDo
<1> QED
  BY <1>1, <1>3 DEF StillPending

LEMMA AlertStepsAreFinal ==
  ASSUME AlertInv, [AlertNext]_alertVars
  PROVE  /\ [\A i \in DOMAIN alerts : alerts[i].delivered => alerts'[i].delivered]_alertVars
         /\ [\A p \in Pass : pass[p].pc = "pending" /\ pass'[p].pc \in {"sent", "unsent"} =>
               together \/ ~alerts[NextAlert(p)].delivered]_alertVars
BY StampStays, SendIsFirst

\* A stamp stays, whatever another pass writes from what it read before; and while passes do
\* not overlap a stamped alert is not sent again.
THEOREM StampsAreFinal == AlertSpec => StampedStaysStamped /\ SerialStampedIsFinal
BY AlertsAlways, AlertStepsAreFinal, PTL DEF AlertSpec, StampedStaysStamped, SerialStampedIsFinal

-----------------------------------------------------------------------------
\* A revoked key stays revoked, a stamped alert stays stamped and is not sent again by passes
\* that do not overlap, whichever writers started from what they read before.
THEOREM NothingIsEverTakenBack == KeysSpec /\ AlertSpec => NothingIsTakenBack
BY RevokedIsFinal, StampsAreFinal DEF NothingIsTakenBack

\* A client is refused only for as many failures as the limit, a meeting only for a clash.
THEOREM RefusalsHaveAReason == LimiterSpec /\ CalendarSpec => RefusedForAReason
BY RefusalsAreEarned, ClashesAreReal DEF RefusedForAReason
=============================================================================
