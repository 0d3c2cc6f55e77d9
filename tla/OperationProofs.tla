---------------------------- MODULE OperationProofs ----------------------------
(***************************************************************************)
(* Proofs about what runs beside the feeds of Sifa, for any number of      *)
(* features, upheavals, callers, deaths, clients, jobs, feeds, items and   *)
(* arms: the scheduler, the start of the process, the benchmark jobs, and  *)
(* what feedback counts for.                                               *)
(***************************************************************************)
EXTENDS SifaFeedback, SifaScheduler, SifaBoot, SifaBenchmark, Integers, FiniteSetTheorems,
        SequenceTheorems, WellFoundedInduction, TLAPS

\* A set of naturals has a least element: what CHOOSE of a least one needs.
LEMMA LeastNatural ==
  ASSUME NEW T \in SUBSET Nat, T # {}
  PROVE  \E n \in T : \A m \in T : n <= m
<1> DEFINE R == OpToRel(<, Nat)
<1>1. IsWellFoundedOn(R, Nat)
  BY NatLessThanWellFounded
<1>2. \A m, n \in Nat : m < n => <<m, n>> \in R
  BY DEF OpToRel
<1> HIDE DEF R
<1>3. PICK n \in T : \A m \in T : ~ (<<m, n>> \in R)
  BY <1>1, WFMin
<1>4. ASSUME NEW m \in T PROVE n <= m
  <2>1. ~(<<m, n>> \in R)
    BY <1>3
  <2>2. ~(m < n)
    BY <1>2, <2>1
  <2> QED
    BY <2>2
<1> QED
  BY <1>4

-----------------------------------------------------------------------------
(***************************************************************************)
(* The scheduler.  What the tick has in hand is undelivered until it marks *)
(* it; every alert, and what will be one, is accounted for by an upheaval. *)
(***************************************************************************)
Alert == [kind : {"drift", "retrain", "guard_rollback"}, features : SUBSET Feature,
          attempts : 0..MaxTries, delivered : BOOLEAN]
TickSteps == {"sleep", "retrain", "shadow", "canary", "stamp", "tell", "deliver", "post", "mark"}

FlagSense ==
  /\ drifted \subseteq Feature /\ driftKey \subseteq Feature
  /\ due \in BOOLEAN /\ shadow \in BOOLEAN /\ canary \in BOOLEAN
  /\ guardTells \in BOOLEAN /\ promoted \in BOOLEAN /\ garbled \in BOOLEAN
  /\ upheavals \in 0..MaxUpheavals /\ restarts \in 0..upheavals

\* What is counted of the posts of an alert.
Times == [seen : Nat, unseen : Nat]

OutboxSense ==
  /\ outbox \in Seq(Alert) /\ posted \in Seq(Times) /\ Len(posted) = Len(outbox)
  /\ tick \in [pc : TickSteps, queue : SUBSET (1..Len(outbox)), ok : BOOLEAN]
  /\ tick.pc \in {"post", "mark"} => tick.queue # {}
  /\ \A i \in tick.queue : IsUndelivered(outbox[i])

\* An answer to an alert that is not delivered was seen in earlier lives only, once in each;
\* in this life, if it is delivered or about to be marked so.
Accepted(i) == outbox[i].delivered \/ (tick.pc = "mark" /\ tick.ok /\ i = InHand)

\* Each post the webhook took is an attempt, or about to be one, or was cut off by a restart.
Sent(i) == posted[i].seen + posted[i].unseen
Tried(i) == outbox[i].attempts + (IF tick.pc = "mark" /\ i = InHand THEN 1 ELSE 0)
PostSense ==
  \A i \in 1..Len(outbox) :
    /\ posted[i].seen <= IF Accepted(i) THEN restarts + 1 ELSE restarts
    /\ Sent(i) <= Tried(i) + restarts

One(b) == IF b THEN 1 ELSE 0

\* What will be an alert, or may.
Owed == One(drifted # driftKey) + One(due) + One(tick.pc = "tell") + One(guardTells)

AlertsAccounted ==
  /\ Len(outbox) + Owed <= upheavals + 1
  /\ tick.pc \in {"shadow", "canary", "stamp"} => due

\* With no operator and no restart, the tick that found no canary finds none when it promotes.
ShadowSense ==
  restarts = 0 /\ ~promoted =>
    /\ shadow => tick.pc = "canary"
    /\ tick.pc \in {"shadow", "canary"} => ~canary

SchedulerInv ==
  FlagSense /\ OutboxSense /\ PostSense /\ AlertsAccounted /\ DriftIsNamed /\ ShadowSense

LEMMA SchedulerStarts == SchedulerInit => SchedulerInv
<1> SUFFICES ASSUME SchedulerInit
             PROVE  SchedulerInv
  OBVIOUS
<1>1. Sleeping \in [pc : TickSteps, queue : SUBSET (1..0), ok : BOOLEAN]
  BY DEF Sleeping, TickSteps
<1>2. << >> \in Seq(Alert) /\ << >> \in Seq(Times) /\ Len(<< >>) = 0
  OBVIOUS
<1>3. FlagSense
  <2>1. MaxUpheavals \in Nat
    BY SchedulerAssumption
  <2>2. upheavals \in 0..MaxUpheavals /\ restarts \in 0..upheavals
    BY <2>1 DEF SchedulerInit
  <2> QED
    BY <2>2 DEF SchedulerInit, FlagSense
<1>4. OutboxSense /\ PostSense
  BY <1>1, <1>2 DEF SchedulerInit, OutboxSense, PostSense, Sleeping
<1>5. AlertsAccounted
  BY <1>2 DEF SchedulerInit, AlertsAccounted, Owed, One, Sleeping
<1>6. DriftIsNamed /\ ShadowSense
  BY DEF SchedulerInit, DriftIsNamed, ShadowSense, Sleeping
<1> QED
  BY <1>3, <1>4, <1>5, <1>6 DEF SchedulerInv

\* What an alert adds.
LEMMA EnqueueAdds ==
  ASSUME OutboxSense, NEW kind \in {"drift", "retrain", "guard_rollback"},
         NEW features \in SUBSET Feature, Enqueue(AlertOf(kind, features))
  PROVE  /\ outbox' \in Seq(Alert) /\ posted' \in Seq(Times)
         /\ Len(outbox') = Len(outbox) + 1 /\ Len(posted') = Len(outbox')
         /\ \A i \in 1..Len(outbox) : outbox'[i] = outbox[i] /\ posted'[i] = posted[i]
         /\ outbox'[Len(outbox) + 1] = AlertOf(kind, features)
         /\ posted'[Len(outbox) + 1] = [seen |-> 0, unseen |-> 0]
<1>1. AlertOf(kind, features) \in Alert /\ [seen |-> 0, unseen |-> 0] \in Times
  BY SchedulerAssumption DEF AlertOf, Alert, Times
<1>2. outbox \in Seq(Alert) /\ posted \in Seq(Times) /\ Len(posted) = Len(outbox)
  BY DEF OutboxSense
<1> QED
  BY <1>1, <1>2, AppendProperties DEF Enqueue

LEMMA InHandIsLeast ==
  ASSUME OutboxSense, tick.pc \in {"post", "mark"}
  PROVE  InHand \in tick.queue
<1>1. tick.queue \in SUBSET Nat /\ tick.queue # {}
  BY DEF OutboxSense
<1>2. \E i \in tick.queue : \A j \in tick.queue : i <= j
  BY <1>1, LeastNatural
<1> QED
  BY <1>2 DEF InHand

\* A step of the tick, or of others, that leaves the outbox as it is and takes nothing in hand.
Quiet ==
  /\ UNCHANGED Outbox /\ restarts' \in Nat /\ restarts' >= restarts
  /\ \/ UNCHANGED tick
     \/ \E pc \in TickSteps \ {"post", "mark"} :
          tick' = [tick EXCEPT !.pc = pc] \/ tick' = [Sleeping EXCEPT !.pc = pc]
  /\ tick.pc \in {"post", "mark"} => restarts' = restarts /\ tick' = tick

\* What is counted of each alert.
LEMMA CountsAreNumbers ==
  ASSUME OutboxSense
  PROVE  \A i \in 1..Len(outbox) : /\ posted[i].seen \in Nat /\ posted[i].unseen \in Nat
                                   /\ outbox[i].attempts \in Nat
<1>1. outbox \in Seq(Alert) /\ posted \in Seq(Times) /\ Len(posted) = Len(outbox)
  BY DEF OutboxSense
<1>2. \A i \in 1..Len(outbox) : outbox[i] \in Alert /\ posted[i] \in Times
  BY <1>1, ElementOfSeq
<1>3. \A a \in Alert : a.attempts \in Nat
  BY SchedulerAssumption DEF Alert
<1>4. \A t \in Times : t.seen \in Nat /\ t.unseen \in Nat
  BY DEF Times
<1> QED
  BY <1>2, <1>3, <1>4

LEMMA QuietKeeps ==
  ASSUME FlagSense, OutboxSense, PostSense, Quiet
  PROVE  OutboxSense' /\ PostSense'
<1>1. /\ outbox' = outbox /\ posted' = posted /\ restarts \in Nat
      /\ restarts' \in Nat /\ restarts' >= restarts
  BY DEF Quiet, Outbox, FlagSense
<1>2. \A i \in 1..Len(outbox) : posted[i].seen \in Nat /\ posted[i].unseen \in Nat /\ outbox[i].attempts \in Nat
  BY CountsAreNumbers
<1>3. CASE UNCHANGED tick
  <2>1. InHand' = InHand
    BY <1>3 DEF InHand
  <2>2. OutboxSense'
    BY <1>1, <1>3 DEF OutboxSense
  <2>3. \A i \in 1..Len(outbox) : (Accepted(i)' <=> Accepted(i)) /\ Tried(i)' = Tried(i) /\ Sent(i)' = Sent(i)
    BY <1>1, <1>3, <2>1 DEF Accepted, Tried, Sent
  <2>4. \A i \in 1..Len(outbox) : Tried(i) \in Nat /\ Sent(i) \in Nat
    BY <1>2 DEF Tried, Sent
  <2> QED
    BY <1>1, <1>2, <2>2, <2>3, <2>4 DEF PostSense
<1>4. CASE ~UNCHANGED tick
  <2>1. PICK pc \in TickSteps \ {"post", "mark"} :
          tick' = [tick EXCEPT !.pc = pc] \/ tick' = [Sleeping EXCEPT !.pc = pc]
    BY <1>4 DEF Quiet
  <2>2. tick.pc \notin {"post", "mark"} /\ tick'.pc = pc
    BY <1>4, <2>1 DEF Quiet, OutboxSense, Sleeping
  <2>3. tick'.queue \in {tick.queue, {}}
        /\ tick' \in [pc : TickSteps, queue : SUBSET (1..Len(outbox)), ok : BOOLEAN]
    BY <2>1 DEF OutboxSense, Sleeping
  <2>4. OutboxSense'
    BY <1>1, <2>2, <2>3 DEF OutboxSense
  <2>5. \A i \in 1..Len(outbox) : (Accepted(i) <=> outbox[i].delivered) /\ (Accepted(i)' <=> outbox[i].delivered)
    BY <1>1, <2>2 DEF Accepted
  <2>6. \A i \in 1..Len(outbox) : /\ Tried(i) = outbox[i].attempts /\ Tried(i)' = outbox[i].attempts
                                  /\ Sent(i)' = Sent(i) /\ Sent(i) \in Nat
    BY <1>1, <1>2, <2>2 DEF Tried, Sent
  <2>7. ASSUME NEW i \in 1..Len(outbox)
        PROVE  /\ posted'[i].seen <= IF Accepted(i)' THEN restarts' + 1 ELSE restarts'
               /\ Sent(i)' <= Tried(i)' + restarts'
    <3>1. /\ posted[i].seen <= IF Accepted(i) THEN restarts + 1 ELSE restarts
          /\ Sent(i) <= Tried(i) + restarts
      BY DEF PostSense
    <3>2. posted[i].seen <= IF Accepted(i)' THEN restarts' + 1 ELSE restarts'
      BY <1>1, <1>2, <2>5, <3>1
    <3>3. Sent(i)' <= Tried(i)' + restarts'
      <4>1. Sent(i) \in Nat /\ Tried(i) \in Nat /\ Sent(i)' = Sent(i) /\ Tried(i)' = Tried(i)
        BY <1>2, <2>6
      <4> QED
        BY <1>1, <3>1, <4>1
    <3> QED
      BY <1>1, <3>2, <3>3
  <2>8. PostSense'
    BY <1>1, <2>7 DEF PostSense
  <2> QED
    BY <2>4, <2>8
<1> QED
  BY <1>3, <1>4

\* An alert is queued, by the tick between two deliveries or by the guard.
Queues ==
  /\ \E kind \in {"drift", "retrain", "guard_rollback"}, features \in SUBSET Feature :
       Enqueue(AlertOf(kind, features))
  /\ \/ UNCHANGED tick
     \/ tick.pc \notin {"post", "mark"} /\ \E pc \in TickSteps \ {"post", "mark"} : tick' = [tick EXCEPT !.pc = pc]
  /\ UNCHANGED restarts

LEMMA QueuesKeeps ==
  ASSUME FlagSense, OutboxSense, PostSense, Queues
  PROVE  OutboxSense' /\ PostSense'
<1>1. PICK kind \in {"drift", "retrain", "guard_rollback"}, features \in SUBSET Feature :
        Enqueue(AlertOf(kind, features))
  BY DEF Queues
<1>2. /\ outbox' \in Seq(Alert) /\ posted' \in Seq(Times)
      /\ Len(outbox') = Len(outbox) + 1 /\ Len(posted') = Len(outbox')
      /\ \A i \in 1..Len(outbox) : outbox'[i] = outbox[i] /\ posted'[i] = posted[i]
      /\ ~outbox'[Len(outbox) + 1].delivered /\ outbox'[Len(outbox) + 1].attempts = 0
      /\ posted'[Len(outbox) + 1] = [seen |-> 0, unseen |-> 0]
  BY <1>1, EnqueueAdds DEF AlertOf
<1>3. /\ tick'.queue = tick.queue /\ tick'.ok = tick.ok
      /\ tick.pc \in {"post", "mark"} <=> tick'.pc \in {"post", "mark"}
      /\ tick.pc = "mark" <=> tick'.pc = "mark"
      /\ tick' \in [pc : TickSteps, queue : SUBSET (1..Len(outbox)), ok : BOOLEAN]
  BY DEF Queues, OutboxSense
<1>4. Len(outbox) \in Nat /\ 1..Len(outbox) \subseteq 1..Len(outbox') /\ restarts' = restarts /\ restarts \in Nat
  BY <1>2 DEF OutboxSense, FlagSense, Queues
<1>5. tick' \in [pc : TickSteps, queue : SUBSET (1..Len(outbox')), ok : BOOLEAN]
  BY <1>3, <1>4
<1>6. \A i \in tick'.queue : IsUndelivered(outbox'[i])
  BY <1>2, <1>3 DEF OutboxSense
<1>7. OutboxSense'
  BY <1>2, <1>3, <1>5, <1>6 DEF OutboxSense
<1>8. InHand' = InHand
  BY <1>3 DEF InHand
<1>9. \A i \in 1..Len(outbox) : Accepted(i)' = Accepted(i) /\ Tried(i)' = Tried(i) /\ Sent(i)' = Sent(i)
  BY <1>2, <1>3, <1>8 DEF Accepted, Tried, Sent
<1>10. \A i \in 1..Len(outbox') : i \in 1..Len(outbox) \/ i = Len(outbox) + 1
  BY <1>2, <1>4
<1>11. ASSUME NEW i \in 1..Len(outbox')
       PROVE  /\ posted'[i].seen <= IF Accepted(i)' THEN restarts' + 1 ELSE restarts'
              /\ Sent(i)' <= Tried(i)' + restarts'
  <2>1. CASE i \in 1..Len(outbox)
    BY <1>2, <1>4, <1>9, <2>1 DEF PostSense
  <2>2. CASE i = Len(outbox) + 1
    <3>1. posted'[i].seen = 0 /\ Sent(i)' = 0
      BY <1>2, <2>2 DEF Sent
    <3>2. Tried(i)' \in {0, 1}
      BY <1>2, <2>2 DEF Tried
    <3> QED
      BY <1>4, <3>1, <3>2
  <2> QED
    BY <1>10, <2>1, <2>2
<1>12. PostSense'
  BY <1>11 DEF PostSense
<1> QED
  BY <1>7, <1>12

\* An alert is posted, and its answer seen or not.
Posts == PostSeen \/ PostUnseen

LEMMA DeliveryKeeps ==
  ASSUME FlagSense, OutboxSense, PostSense, ReadPending \/ Posts \/ MarkAlert
  PROVE  OutboxSense' /\ PostSense'
<1>0. /\ restarts' = restarts /\ restarts \in Nat /\ outbox \in Seq(Alert) /\ posted \in Seq(Times)
      /\ Len(posted) = Len(outbox) /\ Len(outbox) \in Nat
      /\ \A i \in 1..Len(outbox) : /\ posted[i] \in Times /\ outbox[i] \in Alert
                                   /\ posted[i].seen \in Nat /\ posted[i].unseen \in Nat
                                   /\ outbox[i].attempts \in Nat
  <2>1. restarts' = restarts
    BY DEF ReadPending, Posts, PostSeen, PostUnseen, MarkAlert, History
  <2>2. outbox \in Seq(Alert) /\ posted \in Seq(Times) /\ Len(posted) = Len(outbox)
    BY DEF OutboxSense
  <2>3. Len(outbox) \in Nat /\ \A i \in 1..Len(outbox) : posted[i] \in Times /\ outbox[i] \in Alert
    BY <2>2, LenProperties, ElementOfSeq
  <2>5. \A i \in 1..Len(outbox) : /\ posted[i].seen \in Nat /\ posted[i].unseen \in Nat
                                  /\ outbox[i].attempts \in Nat
    BY <2>3, SchedulerAssumption DEF Times, Alert
  <2>4. restarts \in Nat
    BY DEF FlagSense
  <2> QED
    BY <2>1, <2>2, <2>3, <2>4, <2>5
<1>1. CASE ReadPending
  <2>1. outbox' = outbox /\ posted' = posted /\ tick.pc = "deliver"
    BY <1>1 DEF ReadPending, Outbox, At
  <2>2. /\ tick' \in [pc : TickSteps, queue : SUBSET (1..Len(outbox)), ok : BOOLEAN]
        /\ tick'.pc \in {"sleep", "post"}
        /\ tick'.pc = "post" => tick'.queue # {}
        /\ \A i \in tick'.queue : IsUndelivered(outbox[i])
    <3> DEFINE pending == {i \in DOMAIN outbox : IsUndelivered(outbox[i])}
    <3>1. tick' = IF pending = {} THEN Sleeping ELSE [Sleeping EXCEPT !.pc = "post", !.queue = pending]
      BY <1>1 DEF ReadPending
    <3>2. pending \subseteq 1..Len(outbox) /\ \A i \in pending : IsUndelivered(outbox[i])
      BY <1>0
    <3> HIDE DEF pending
    <3> QED
      BY <3>1, <3>2 DEF Sleeping, TickSteps
  <2>3. \A i \in 1..Len(outbox) : (Accepted(i) <=> outbox[i].delivered) /\ (Accepted(i)' <=> outbox[i].delivered)
    BY <2>1, <2>2 DEF Accepted
  <2>4. \A i \in 1..Len(outbox) : Tried(i)' = Tried(i) /\ Sent(i)' = Sent(i)
    BY <2>1, <2>2 DEF Tried, Sent
  <2> QED
    BY <1>0, <2>1, <2>2, <2>3, <2>4 DEF OutboxSense, PostSense
<1>2. CASE Posts
  <2> DEFINE p == posted[InHand]
  <2>0. InHand \in 1..Len(outbox) /\ p \in Times /\ p.seen \in Nat /\ p.unseen \in Nat
    <3>1. InHand \in 1..Len(outbox)
      BY <1>2, InHandIsLeast DEF Posts, PostSeen, PostUnseen, At, OutboxSense
    <3>2. p \in Times
      BY <1>0, <3>1
    <3> QED
      BY <3>1, <3>2 DEF Times
  <2>1. PICK ok \in BOOLEAN, t \in Times :
          /\ tick' = [tick EXCEPT !.pc = "mark", !.ok = ok]
          /\ posted' = [posted EXCEPT ![InHand] = t]
          /\ t.seen <= p.seen + 1 /\ (t.seen = p.seen \/ ok)
          /\ t.seen + t.unseen <= p.seen + p.unseen + 1
    <3>1. CASE PostSeen
      <4> DEFINE u == [p EXCEPT !.seen = @ + 1]
      <4>1. u \in Times /\ u.seen = p.seen + 1 /\ u.unseen = p.unseen
        BY <2>0 DEF Times
      <4>2. posted' = [posted EXCEPT ![InHand] = u] /\ tick' = [tick EXCEPT !.pc = "mark", !.ok = TRUE]
        BY <3>1 DEF PostSeen
      <4> HIDE DEF u, p
      <4> u \in Times
        BY <4>1
      <4> WITNESS TRUE \in BOOLEAN, u \in Times
      <4> QED
        BY <2>0, <4>1, <4>2
    <3>2. CASE PostUnseen /\ posted' # posted
      <4> DEFINE u == [p EXCEPT !.unseen = @ + 1]
      <4>1. u \in Times /\ u.seen = p.seen /\ u.unseen = p.unseen + 1
        BY <2>0 DEF Times
      <4>2. posted' = [posted EXCEPT ![InHand] = u] /\ tick' = [tick EXCEPT !.pc = "mark", !.ok = FALSE]
        BY <3>2 DEF PostUnseen
      <4> HIDE DEF u, p
      <4> u \in Times
        BY <4>1
      <4> WITNESS FALSE \in BOOLEAN, u \in Times
      <4> QED
        BY <2>0, <4>1, <4>2
    <3>3. CASE PostUnseen /\ posted' = posted
      <4>1. tick' = [tick EXCEPT !.pc = "mark", !.ok = FALSE]
        BY <3>3 DEF PostUnseen
      <4>2. posted = [posted EXCEPT ![InHand] = p]
        BY <1>0, <2>0
      <4>3. posted' = [posted EXCEPT ![InHand] = p]
        BY <3>3, <4>2
      <4> HIDE DEF p
      <4> p \in Times
        BY <2>0
      <4> WITNESS FALSE \in BOOLEAN, p \in Times
      <4> QED
        BY <2>0, <4>1, <4>3
    <3> QED
      BY <1>2, <3>1, <3>2, <3>3 DEF Posts
  <2>2. tick.pc = "post" /\ outbox' = outbox /\ InHand \in tick.queue
    BY <1>2, InHandIsLeast DEF Posts, PostSeen, PostUnseen, At
  <2>3. /\ tick'.pc = "mark" /\ tick'.queue = tick.queue /\ tick'.ok = ok
        /\ tick' \in [pc : TickSteps, queue : SUBSET (1..Len(outbox)), ok : BOOLEAN]
    BY <2>1 DEF OutboxSense, TickSteps
  <2>4. InHand' = InHand /\ InHand \in 1..Len(outbox) /\ ~outbox[InHand].delivered
    BY <2>2, <2>3 DEF InHand, OutboxSense, IsUndelivered
  <2>5. /\ posted' \in Seq(Times) /\ Len(posted') = Len(posted)
        /\ \A i \in 1..Len(outbox) : i # InHand => posted'[i] = posted[i]
        /\ posted'[InHand] = t
    BY <1>0, <2>0, <2>1
  <2>6. \A i \in 1..Len(outbox) :
          /\ Accepted(i) <=> outbox[i].delivered
          /\ Accepted(i)' <=> outbox[i].delivered \/ (ok /\ i = InHand)
    BY <2>2, <2>3, <2>4 DEF Accepted
  <2>7. OutboxSense'
    BY <1>0, <2>2, <2>3, <2>5 DEF OutboxSense
  <2>8. ASSUME NEW i \in 1..Len(outbox)
        PROVE  /\ posted'[i].seen <= IF Accepted(i)' THEN restarts + 1 ELSE restarts
               /\ Sent(i)' <= Tried(i)' + restarts
    <3>1. /\ posted[i].seen <= IF Accepted(i) THEN restarts + 1 ELSE restarts
          /\ Sent(i) <= Tried(i) + restarts
      BY DEF PostSense
    <3>2. CASE i = InHand
      <4>1. posted[i].seen <= restarts /\ Tried(i) = outbox[i].attempts /\ Tried(i)' = outbox[i].attempts + 1
        BY <1>0, <2>2, <2>3, <2>4, <2>6, <3>1, <3>2 DEF Tried
      <4>2. posted'[i].seen <= IF Accepted(i)' THEN restarts + 1 ELSE restarts
        <5>1. posted'[i] = t /\ t.seen \in Nat /\ (Accepted(i)' <=> ok)
          BY <2>1, <2>4, <2>5, <2>6, <3>2 DEF Times
        <5> QED
          BY <1>0, <2>0, <2>1, <3>2, <4>1, <5>1
      <4>3. Sent(i)' <= Sent(i) + 1 /\ Sent(i)' \in Nat /\ Sent(i) \in Nat
        <5>1. t.seen \in Nat /\ t.unseen \in Nat
          BY <2>1 DEF Times
        <5>2. Sent(i)' = t.seen + t.unseen /\ Sent(i) = p.seen + p.unseen
          BY <2>5, <3>2 DEF Sent
        <5> QED
          BY <2>0, <2>1, <5>1, <5>2
      <4> QED
        BY <1>0, <3>1, <4>1, <4>2, <4>3
    <3>3. CASE i # InHand
      <4>1. Sent(i)' = Sent(i) /\ Tried(i)' = Tried(i) /\ (Accepted(i)' <=> Accepted(i)) /\ posted'[i] = posted[i]
        BY <2>2, <2>3, <2>4, <2>5, <2>6, <3>3 DEF Sent, Tried
      <4> QED
        BY <3>1, <4>1
    <3> QED
      BY <3>2, <3>3
  <2> QED
    BY <1>0, <2>2, <2>7, <2>8 DEF PostSense
<1>3. CASE MarkAlert
  <2> DEFINE rest == tick.queue \ {InHand}
  <2>1. tick.pc = "mark" /\ posted' = posted /\ InHand \in tick.queue
    BY <1>3, InHandIsLeast DEF MarkAlert, At
  <2>2. /\ outbox' = [outbox EXCEPT ![InHand] = MarkedAlert(@, tick.ok)]
        /\ tick' = IF rest = {} THEN Sleeping ELSE [Sleeping EXCEPT !.pc = "post", !.queue = rest]
    BY <1>3 DEF MarkAlert
  <2>3. /\ InHand \in 1..Len(outbox) /\ IsUndelivered(outbox[InHand]) /\ tick.ok \in BOOLEAN
        /\ rest \subseteq 1..Len(outbox)
    BY <2>1 DEF OutboxSense
  <2>4. MarkedAlert(outbox[InHand], tick.ok) \in Alert
        /\ MarkedAlert(outbox[InHand], tick.ok).delivered = tick.ok
        /\ MarkedAlert(outbox[InHand], tick.ok).attempts = outbox[InHand].attempts + 1
    <3>1. /\ outbox[InHand] \in Alert /\ outbox[InHand].attempts < MaxTries
          /\ MaxTries \in Nat
      BY <1>0, <2>3, SchedulerAssumption DEF IsUndelivered
    <3>2. outbox[InHand].attempts + 1 \in 0..MaxTries
      BY <3>1 DEF Alert
    <3> QED
      BY <2>3, <3>1, <3>2 DEF MarkedAlert, Alert
  <2>5. /\ outbox' \in Seq(Alert) /\ Len(outbox') = Len(outbox)
        /\ \A i \in 1..Len(outbox) : i # InHand => outbox'[i] = outbox[i]
        /\ outbox'[InHand].delivered = tick.ok
        /\ outbox'[InHand].attempts = outbox[InHand].attempts + 1
    <3>1. outbox' = [outbox EXCEPT ![InHand] = MarkedAlert(outbox[InHand], tick.ok)]
      BY <2>2
    <3> QED
      BY <1>0, <2>3, <2>4, <3>1
  <2>6. /\ tick' \in [pc : TickSteps, queue : SUBSET (1..Len(outbox)), ok : BOOLEAN]
        /\ tick'.pc \in {"sleep", "post"}
        /\ tick'.pc = "post" => tick'.queue # {}
        /\ \A i \in tick'.queue : i \in tick.queue /\ i # InHand
    BY <2>2, <2>3 DEF Sleeping, TickSteps
  <2>7. OutboxSense'
    <3>1. \A i \in tick'.queue : IsUndelivered(outbox'[i])
      BY <2>5, <2>6 DEF OutboxSense
    <3> QED
      BY <1>0, <2>1, <2>5, <2>6, <3>1 DEF OutboxSense
  <2>8. \A i \in 1..Len(outbox) : Accepted(i)' <=> outbox'[i].delivered
    BY <2>6 DEF Accepted
  <2>9. \A i \in 1..Len(outbox) : i # InHand => (Accepted(i) <=> Accepted(i)')
    BY <2>5, <2>8 DEF Accepted
  <2>10. \A i \in 1..Len(outbox) : i = InHand => (Accepted(i) <=> Accepted(i)')
    <3>1. \A i \in 1..Len(outbox) : i = InHand => (Accepted(i) <=> tick.ok)
      BY <2>1, <2>3 DEF Accepted, IsUndelivered
    <3> QED
      BY <2>5, <2>8, <3>1
  <2>11. \A i \in 1..Len(outbox) : Accepted(i) <=> Accepted(i)'
    BY <2>9, <2>10
  <2>12. \A i \in 1..Len(outbox) : Tried(i)' = Tried(i) /\ Sent(i)' = Sent(i)
    BY <1>0, <2>1, <2>3, <2>5, <2>6 DEF Tried, Sent
  <2> QED
    BY <1>0, <2>1, <2>5, <2>7, <2>11, <2>12 DEF PostSense
<1> QED
  BY <1>1, <1>2, <1>3

LEMMA RestartKeeps ==
  ASSUME FlagSense, OutboxSense, PostSense, Restart
  PROVE  OutboxSense' /\ PostSense'
<1>1. /\ outbox' = outbox /\ posted' = posted /\ tick' = Sleeping
      /\ restarts' = restarts + 1 /\ restarts \in Nat
  BY DEF Restart, Outbox, FlagSense
<1>2. OutboxSense'
  BY <1>1 DEF OutboxSense, Sleeping, TickSteps
<1>3. ASSUME NEW i \in 1..Len(outbox)
      PROVE  /\ posted'[i].seen <= IF Accepted(i)' THEN restarts' + 1 ELSE restarts'
             /\ Sent(i)' <= Tried(i)' + restarts'
  <2>1. posted[i].seen \in Nat /\ posted[i].unseen \in Nat /\ outbox[i].attempts \in Nat
    BY CountsAreNumbers
  <2>2. /\ posted[i].seen <= IF Accepted(i) THEN restarts + 1 ELSE restarts
        /\ Sent(i) <= Tried(i) + restarts
    BY DEF PostSense
  <2>3. Tried(i) \in {outbox[i].attempts, outbox[i].attempts + 1} /\ Sent(i) \in Nat
    BY <2>1 DEF Tried, Sent
  <2>4. Sent(i)' = Sent(i)
    BY <1>1 DEF Sent
  <2>5. Tried(i)' = outbox[i].attempts
    <3>1. tick'.pc # "mark"
      BY <1>1 DEF Sleeping
    <3>2. outbox'[i].attempts + 0 = outbox[i].attempts
      BY <1>1, <2>1
    <3> QED
      BY <3>1, <3>2 DEF Tried
  <2>6. posted'[i].seen <= restarts + 1
    BY <1>1, <2>1, <2>2
  <2>7. posted'[i].seen <= IF Accepted(i)' THEN restarts' + 1 ELSE restarts'
    BY <1>1, <2>1, <2>6
  <2> QED
    BY <1>1, <2>1, <2>2, <2>3, <2>4, <2>5, <2>7
<1> QED
  BY <1>1, <1>2, <1>3 DEF PostSense

LEMMA OutboxStep ==
  ASSUME SchedulerInv, [SchedulerNext]_schedulerVars
  PROVE  OutboxSense' /\ PostSense'
<1>0. FlagSense /\ OutboxSense /\ PostSense /\ restarts \in Nat /\ tick.pc \in TickSteps
  BY DEF SchedulerInv, OutboxSense, FlagSense
<1>1. CASE ReadPending \/ Posts \/ MarkAlert
  BY <1>0, <1>1, DeliveryKeeps
<1>8. CASE PostGarbled
  <2>1. outbox' = outbox /\ posted' = posted /\ tick' = Sleeping /\ restarts' = restarts /\ tick.pc = "post"
    BY <1>8 DEF PostGarbled, At, History
  <2>2. OutboxSense'
    BY <1>0, <2>1 DEF OutboxSense, Sleeping, TickSteps
  <2>3. \A i \in 1..Len(outbox) : /\ Accepted(i)' <=> Accepted(i)
                                  /\ Tried(i)' = Tried(i) /\ Sent(i)' = Sent(i)
    BY <2>1 DEF Accepted, Tried, Sent, Sleeping
  <2> QED
    BY <1>0, <2>1, <2>2, <2>3 DEF PostSense
<1>2. CASE Restart
  BY <1>0, <1>2, RestartKeeps
<1>3. CASE CheckDrift
  <2>1. tick.pc = "sleep" /\ tick' = [tick EXCEPT !.pc = "retrain"] /\ restarts' = restarts
    BY <1>3 DEF CheckDrift, At, Go, History
  <2>2. CASE IsNews
    <3>1. Queues
      BY <1>0, <1>3, <2>1, <2>2 DEF CheckDrift, Queues, TickSteps, FlagSense
    <3> QED
      BY <1>0, <3>1, QueuesKeeps
  <2>3. CASE ~IsNews
    <3>1. Quiet
      BY <1>0, <1>3, <2>1, <2>3 DEF CheckDrift, Quiet, TickSteps
    <3> QED
      BY <1>0, <3>1, QuietKeeps
  <2> QED
    BY <2>2, <2>3
<1>4. CASE TellRetrain
  <2>1. Queues
    BY <1>0, <1>4 DEF TellRetrain, Queues, TickSteps, At, Go, History
  <2> QED
    BY <1>0, <2>1, QueuesKeeps
<1>5. CASE GuardTells
  <2>1. Queues
    BY <1>0, <1>5 DEF GuardTells, Queues, History
  <2> QED
    BY <1>0, <2>1, QueuesKeeps
<1>6. CASE CheckRetrain \/ ToShadow \/ ToCanary \/ Stamp
  <2>1. /\ UNCHANGED <<outbox, posted, garbled, restarts>> /\ tick.pc \notin {"post", "mark"}
        /\ \E pc \in TickSteps \ {"post", "mark"} :
             tick' = [tick EXCEPT !.pc = pc] \/ tick' = Sleeping
    BY <1>6 DEF CheckRetrain, ToShadow, ToCanary, Stamp, At, Go, Outbox, History, TickSteps
  <2>2. Sleeping = [Sleeping EXCEPT !.pc = "sleep"] /\ "sleep" \in TickSteps \ {"post", "mark"}
    BY DEF Sleeping, TickSteps
  <2>3. Quiet
    BY <1>0, <2>1, <2>2 DEF Quiet, Outbox
  <2> QED
    BY <1>0, <2>3, QuietKeeps
<1>7. CASE TrafficDrifts \/ RetrainFallsDue \/ GuardRollsBack \/ OperatorPromotes \/ OperatorTakesCanary
           \/ UNCHANGED schedulerVars
  <2>1. Quiet
    BY <1>0, <1>7 DEF TrafficDrifts, RetrainFallsDue, GuardRollsBack, OperatorPromotes,
                      OperatorTakesCanary, schedulerVars, Quiet, Outbox, History
  <2> QED
    BY <1>0, <2>1, QuietKeeps
<1> QED
  BY <1>1, <1>2, <1>3, <1>4, <1>5, <1>6, <1>7, <1>8 DEF SchedulerNext, ProceedTick, Posts

LEMMA FlagStep ==
  ASSUME FlagSense, [SchedulerNext]_schedulerVars
  PROVE  FlagSense'
<1>0. /\ drifted \subseteq Feature /\ driftKey \subseteq Feature
      /\ due \in BOOLEAN /\ shadow \in BOOLEAN /\ canary \in BOOLEAN
      /\ guardTells \in BOOLEAN /\ promoted \in BOOLEAN /\ garbled \in BOOLEAN
      /\ upheavals \in 0..MaxUpheavals /\ restarts \in 0..upheavals /\ MaxUpheavals \in Nat
  BY SchedulerAssumption DEF FlagSense
<1>1. CASE ProceedTick
  <2>1. /\ drifted' = drifted /\ driftKey' \in {drifted, driftKey} /\ due' \in {due, FALSE}
        /\ shadow' \in BOOLEAN /\ canary' \in BOOLEAN /\ garbled' \in BOOLEAN
        /\ UNCHANGED <<guardTells, promoted, upheavals, restarts>>
    BY <1>0, <1>1 DEF ProceedTick, CheckDrift, CheckRetrain, ToShadow, ToCanary, Stamp, TellRetrain,
                      ReadPending, PostSeen, PostUnseen, PostGarbled, MarkAlert, Models, History,
                      Outbox, Enqueue
  <2> QED
    BY <1>0, <2>1 DEF FlagSense
<1>2. CASE GuardTells
  BY <1>0, <1>2 DEF GuardTells, FlagSense, Models, History, Enqueue
<1>3. CASE Upheaval /\ (TrafficDrifts \/ RetrainFallsDue \/ GuardRollsBack \/ OperatorPromotes)
  <2>1. /\ upheavals' \in 0..MaxUpheavals /\ restarts \in 0..upheavals' /\ restarts' = restarts
    BY <1>0, <1>3 DEF Upheaval, TrafficDrifts, RetrainFallsDue, GuardRollsBack, OperatorPromotes
  <2>2. /\ drifted' \subseteq Feature /\ driftKey' = driftKey /\ due' \in BOOLEAN
        /\ shadow' \in BOOLEAN /\ canary' \in BOOLEAN /\ guardTells' \in BOOLEAN
        /\ promoted' \in BOOLEAN /\ garbled' = garbled
    BY <1>0, <1>3 DEF TrafficDrifts, RetrainFallsDue, GuardRollsBack, OperatorPromotes, Models, Outbox
  <2> QED
    BY <2>1, <2>2 DEF FlagSense
<1>4. CASE OperatorTakesCanary
  BY <1>0, <1>4 DEF OperatorTakesCanary, FlagSense, History, Outbox
<1>5. CASE Restart
  <2>1. upheavals' \in 0..MaxUpheavals /\ restarts' \in 0..upheavals'
    BY <1>0, <1>5 DEF Restart, Upheaval
  <2>2. /\ drifted' = {} /\ driftKey' = {} /\ guardTells' = FALSE
        /\ UNCHANGED <<due, shadow, canary, promoted, garbled>>
    BY <1>5 DEF Restart, Models, Outbox
  <2> QED
    BY <1>0, <2>1, <2>2 DEF FlagSense
<1>6. CASE UNCHANGED schedulerVars
  BY <1>0, <1>6 DEF schedulerVars, FlagSense, Models, History
<1> QED
  BY <1>1, <1>2, <1>3, <1>4, <1>5, <1>6
     DEF SchedulerNext, TrafficDrifts, RetrainFallsDue, GuardRollsBack, OperatorPromotes

\* Each alert uses up what was owed, or an upheaval adds to it.
LEMMA AccountStep ==
  ASSUME SchedulerInv, [SchedulerNext]_schedulerVars
  PROVE  AlertsAccounted'
<1> DEFINE n == Len(outbox)
           news == One(drifted # driftKey)
           falls == One(due)
           tells == One(tick.pc = "tell")
           guards == One(guardTells)
<1>0. /\ FlagSense /\ OutboxSense /\ AlertsAccounted
      /\ n \in Nat /\ upheavals \in Nat /\ n + news + falls + tells + guards <= upheavals + 1
      /\ news \in {0, 1} /\ falls \in {0, 1} /\ tells \in {0, 1} /\ guards \in {0, 1}
      /\ tick \in [pc : TickSteps, queue : SUBSET (1..Len(outbox)), ok : BOOLEAN]
      /\ Sleeping.pc = "sleep"
  <2>1. FlagSense /\ OutboxSense /\ AlertsAccounted
    BY DEF SchedulerInv
  <2>2. n \in Nat /\ upheavals \in Nat
    BY <2>1 DEF OutboxSense, FlagSense
  <2>3. n + news + falls + tells + guards <= upheavals + 1
    <3>1. Owed = news + falls + tells + guards
      BY DEF Owed, One
    <3>2. news \in Nat /\ falls \in Nat /\ tells \in Nat /\ guards \in Nat
      BY DEF One
    <3> HIDE DEF news, falls, tells, guards
    <3> QED
      BY <2>1, <2>2, <3>1, <3>2 DEF AlertsAccounted
  <2>4. /\ news \in {0, 1} /\ falls \in {0, 1} /\ tells \in {0, 1} /\ guards \in {0, 1}
    BY DEF One
  <2>5. tick \in [pc : TickSteps, queue : SUBSET (1..Len(outbox)), ok : BOOLEAN] /\ Sleeping.pc = "sleep"
    BY <2>1 DEF OutboxSense, Sleeping
  <2> HIDE DEF n, news, falls, tells, guards
  <2> QED
    BY <2>1, <2>2, <2>3, <2>4, <2>5
<1>1. \A kind \in {"drift", "retrain", "guard_rollback"}, features \in SUBSET Feature :
        Enqueue(AlertOf(kind, features)) => Len(outbox') = n + 1
  BY <1>0, EnqueueAdds
<1> SUFFICES /\ Len(outbox') + news' + falls' + tells' + guards' <= upheavals' + 1
             /\ tick'.pc \in {"shadow", "canary", "stamp"} => due'
  <2>1. /\ Len(outbox') \in Int /\ news' \in {0, 1} /\ falls' \in {0, 1}
        /\ tells' \in {0, 1} /\ guards' \in {0, 1}
    <3>1. OutboxSense'
      BY OutboxStep
    <3> QED
      BY <3>1 DEF OutboxSense, One
  <2>2. Owed' = news' + falls' + tells' + guards'
    BY DEF Owed, One
  <2> HIDE DEF news, falls, tells, guards
  <2> QED
    BY <2>1, <2>2 DEF AlertsAccounted
<1>2. CASE CheckDrift
  <2>1. /\ news' = 0 /\ falls' = falls /\ tells' = 0 /\ guards' = guards /\ upheavals' = upheavals
        /\ tick'.pc = "retrain"
    BY <1>0, <1>2 DEF CheckDrift, At, Go, One, History
  <2>2. Len(outbox') <= n + news
    <3>1. CASE IsNews
      BY <1>0, <1>1, <1>2, <3>1 DEF CheckDrift, IsNews, FlagSense, One
    <3>2. CASE ~IsNews
      BY <1>0, <1>2, <3>2 DEF CheckDrift, Outbox
    <3> QED
      BY <3>1, <3>2
  <2>3. Len(outbox') \in Nat
    BY <1>0, <1>1, <1>2 DEF CheckDrift, IsNews, FlagSense, Outbox
  <2> HIDE DEF n, news, falls, tells, guards
  <2> QED
    BY <1>0, <2>1, <2>2, <2>3
<1>3. CASE CheckRetrain \/ ToShadow \/ ToCanary
  <2>1. /\ outbox' = outbox /\ news' = news /\ falls' = falls /\ guards' = guards /\ upheavals' = upheavals
        /\ due' = due
    BY <1>3 DEF CheckRetrain, ToShadow, ToCanary, Outbox, History
  <2>2. tells' = 0 /\ (tick'.pc \in {"shadow", "canary", "stamp"} => due)
    BY <1>0, <1>3 DEF CheckRetrain, ToShadow, ToCanary, At, Go, MayRetrain, AlertsAccounted, One
  <2> HIDE DEF news, falls, tells, guards
  <2> QED
    BY <1>0, <2>1, <2>2
<1>4. CASE Stamp
  <2>1. /\ outbox' = outbox /\ news' = news /\ falls = 1 /\ falls' = 0 /\ tells = 0 /\ tells' = 1
        /\ guards' = guards /\ upheavals' = upheavals /\ tick'.pc = "tell"
    BY <1>0, <1>4 DEF Stamp, At, Go, AlertsAccounted, Outbox, History, One
  <2> HIDE DEF news, falls, tells, guards
  <2> QED
    BY <1>0, <2>1
<1>5. CASE TellRetrain
  <2>1. /\ Len(outbox') = n + 1 /\ news' = news /\ falls' = falls /\ tells = 1 /\ tells' = 0
        /\ guards' = guards /\ upheavals' = upheavals /\ tick'.pc = "deliver"
    BY <1>0, <1>1, <1>5 DEF TellRetrain, At, Go, History, One
  <2> HIDE DEF n, news, falls, tells, guards
  <2> QED
    BY <1>0, <2>1
<1>6. CASE ReadPending \/ PostSeen \/ PostUnseen \/ PostGarbled \/ MarkAlert
  <2>1. /\ Len(outbox') = n /\ news' = news /\ falls' = falls
        /\ guards' = guards /\ upheavals' = upheavals
    <3>1. /\ UNCHANGED <<drifted, driftKey, due, guardTells, upheavals>>
          /\ outbox' = outbox \/ outbox' = [outbox EXCEPT ![InHand] = MarkedAlert(@, tick.ok)]
      BY <1>6 DEF ReadPending, PostSeen, PostUnseen, PostGarbled, MarkAlert, History, Outbox
    <3>2. outbox \in Seq(Alert) /\ outbox' \in Seq(Alert) /\ DOMAIN outbox' = DOMAIN outbox
      <4>1. OutboxSense'
        BY OutboxStep
      <4> QED
        BY <1>0, <3>1, <4>1 DEF OutboxSense
    <3>3. Len(outbox') = n
      BY <3>2
    <3> QED
      BY <3>1, <3>3
  <2>2. tells' = 0 /\ tick'.pc \notin {"shadow", "canary", "stamp"}
    BY <1>0, <1>6 DEF ReadPending, PostSeen, PostUnseen, PostGarbled, MarkAlert, One, Sleeping
  <2> HIDE DEF n, news, falls, tells, guards
  <2> QED
    BY <1>0, <2>1, <2>2
<1>7. CASE GuardTells
  <2>1. /\ Len(outbox') = n + 1 /\ news' = news /\ falls' = falls /\ tells' = tells
        /\ guards = 1 /\ guards' = 0 /\ upheavals' = upheavals /\ tick' = tick /\ due' = due
    BY <1>1, <1>7 DEF GuardTells, History, One
  <2> HIDE DEF n, news, falls, tells, guards
  <2> QED
    BY <1>0, <2>1 DEF AlertsAccounted
<1>8. CASE TrafficDrifts \/ RetrainFallsDue \/ GuardRollsBack \/ OperatorPromotes
  <2>1. /\ outbox' = outbox /\ tells' = tells /\ tick' = tick /\ upheavals' = upheavals + 1
        /\ news' \in {0, 1} /\ falls' \in {0, 1} /\ guards' \in {0, 1}
        /\ due' = due \/ due'
    BY <1>8 DEF TrafficDrifts, RetrainFallsDue, GuardRollsBack, OperatorPromotes, Upheaval,
                Outbox, One
  <2>2. \/ falls' = falls /\ guards' = guards
        \/ news' = news /\ falls = 0 /\ guards' = guards
        \/ news' = news /\ falls' = falls /\ guards = 0
    BY <1>8 DEF TrafficDrifts, RetrainFallsDue, GuardRollsBack, OperatorPromotes, LockFree, One
  <2>3. tick'.pc \in {"shadow", "canary", "stamp"} => due'
    BY <1>0, <2>1 DEF AlertsAccounted
  <2>4. Len(outbox') = n
    BY <2>1
  <2> HIDE DEF n, news, falls, tells, guards
  <2>5. /\ news \in {0, 1} /\ falls \in {0, 1} /\ tells \in {0, 1} /\ guards \in {0, 1}
        /\ news' \in {0, 1} /\ falls' \in {0, 1} /\ guards' \in {0, 1} /\ tells' = tells
        /\ n \in Nat /\ upheavals \in Nat /\ upheavals' = upheavals + 1
        /\ n + news + falls + tells + guards <= upheavals + 1
    BY <1>0, <2>1
  <2>6. /\ news \in Nat /\ falls \in Nat /\ guards \in Nat /\ tells \in Nat
        /\ news' \in Nat /\ falls' \in Nat /\ guards' \in Nat
        /\ news' <= 1 /\ falls' <= 1 /\ guards' <= 1
    BY <2>5
  <2>7. PICK x1, y1, z1 \in Nat : x1 = news' /\ y1 = falls' /\ z1 = guards'
    BY ONLY <2>6
  <2>8. PICK x, y, z, t, m, v \in Nat :
          x = news /\ y = falls /\ z = guards /\ t = tells /\ m = n /\ v = upheavals
    BY ONLY <2>5, <2>6
  <2>9. x1 + y1 + z1 <= x + y + z + 1
    <3>1. /\ x1 <= 1 /\ y1 <= 1 /\ z1 <= 1
          /\ \/ y1 = y /\ z1 = z
             \/ x1 = x /\ y = 0 /\ z1 = z
             \/ x1 = x /\ y1 = y /\ z = 0
      BY <2>2, <2>6, <2>7, <2>8
    <3> QED
      BY ONLY <3>1, x \in Nat, y \in Nat, z \in Nat, x1 \in Nat, y1 \in Nat, z1 \in Nat
  <2>10. m + x + y + t + z <= v + 1
    BY ONLY <2>5, <2>8
  <2>11. m + x1 + y1 + t + z1 <= v + 2
    BY ONLY <2>9, <2>10, x \in Nat, y \in Nat, z \in Nat, t \in Nat, m \in Nat, v \in Nat,
            x1 \in Nat, y1 \in Nat, z1 \in Nat
  <2>12. v + 2 = upheavals' + 1
    BY ONLY <2>5, <2>8, v \in Nat
  <2>13. n + news' + falls' + tells' + guards' <= upheavals' + 1
    BY ONLY <2>5, <2>7, <2>8, <2>11, <2>12
  <2> QED
    BY <2>3, <2>4, <2>13
<1>9. CASE OperatorTakesCanary \/ UNCHANGED schedulerVars
  <2>1. UNCHANGED <<outbox, drifted, driftKey, due, tick, guardTells, upheavals>>
    BY <1>9 DEF OperatorTakesCanary, schedulerVars, Outbox, History
  <2> QED
    BY <1>0, <2>1 DEF AlertsAccounted
<1>10. CASE Restart
  <2>1. /\ outbox' = outbox /\ news' = 0 /\ falls' = falls /\ tells' = 0 /\ guards' = 0
        /\ upheavals' = upheavals + 1 /\ tick'.pc = "sleep"
    BY <1>0, <1>10 DEF Restart, Upheaval, Outbox, One
  <2> HIDE DEF news, falls, tells, guards
  <2> QED
    BY <1>0, <2>1
<1> QED
  BY <1>2, <1>3, <1>4, <1>5, <1>6, <1>7, <1>8, <1>9, <1>10 DEF SchedulerNext, ProceedTick

\* The last alert about drift is the key's: a newer one comes with a newer key.
LEMMA DriftStep ==
  ASSUME SchedulerInv, [SchedulerNext]_schedulerVars
  PROVE  DriftIsNamed'
<1>0. FlagSense /\ OutboxSense /\ DriftIsNamed /\ outbox \in Seq(Alert) /\ Len(outbox) \in Nat
  BY DEF SchedulerInv, OutboxSense
<1>1. ASSUME NEW kind \in {"drift", "retrain", "guard_rollback"}, NEW features \in SUBSET Feature,
             Enqueue(AlertOf(kind, features))
      PROVE  /\ DOMAIN outbox' = 1..(Len(outbox) + 1) /\ DOMAIN outbox = 1..Len(outbox)
             /\ \A i \in DOMAIN outbox : outbox'[i] = outbox[i]
             /\ outbox'[Len(outbox) + 1].kind = kind
             /\ outbox'[Len(outbox) + 1].features = features
  <2>1. /\ outbox' \in Seq(Alert) /\ Len(outbox') = Len(outbox) + 1
        /\ \A i \in 1..Len(outbox) : outbox'[i] = outbox[i]
        /\ outbox'[Len(outbox) + 1] = AlertOf(kind, features)
    BY <1>0, <1>1, EnqueueAdds
  <2> QED
    BY <1>0, <2>1 DEF AlertOf
<1>2. ASSUME NEW kind \in {"retrain", "guard_rollback"}, Enqueue(AlertOf(kind, {})), driftKey' = driftKey
      PROVE  DriftIsNamed'
  <2>1. /\ DOMAIN outbox' = 1..(Len(outbox) + 1) /\ DOMAIN outbox = 1..Len(outbox)
        /\ \A i \in DOMAIN outbox : outbox'[i] = outbox[i]
        /\ outbox'[Len(outbox) + 1].kind = kind
    BY <1>1, <1>2
  <2>2. \A j \in DOMAIN outbox' : j \in DOMAIN outbox \/ j = Len(outbox) + 1
    BY <1>0, <2>1
  <2>3. DOMAIN outbox \subseteq DOMAIN outbox'
    BY <1>0, <2>1
  <2> QED
    BY <1>0, <1>2, <2>1, <2>2, <2>3 DEF DriftIsNamed
<1>3. CASE CheckDrift
  <2>1. driftKey' = drifted
    BY <1>3 DEF CheckDrift
  <2>2. CASE IsNews
    <3>1. /\ DOMAIN outbox' = 1..(Len(outbox) + 1)
          /\ outbox'[Len(outbox) + 1].kind = "drift"
          /\ outbox'[Len(outbox) + 1].features = drifted
      BY <1>0, <1>1, <1>3, <2>2 DEF CheckDrift, FlagSense
    <3>2. Len(outbox) + 1 \in DOMAIN outbox' /\ \A j \in DOMAIN outbox' : ~(j > Len(outbox) + 1)
      BY <1>0, <3>1
    <3> QED
      BY <2>1, <3>1, <3>2 DEF DriftIsNamed
  <2>3. CASE ~IsNews
    BY <1>0, <1>3, <2>1, <2>3 DEF CheckDrift, IsNews, DriftIsNamed, Outbox
  <2> QED
    BY <2>2, <2>3
<1>4. CASE TellRetrain
  BY <1>2, <1>4 DEF TellRetrain
<1>5. CASE GuardTells
  BY <1>2, <1>5 DEF GuardTells
<1>6. CASE MarkAlert
  <2>1. /\ outbox' = [outbox EXCEPT ![InHand] = MarkedAlert(@, tick.ok)] /\ driftKey' = driftKey
    BY <1>6 DEF MarkAlert
  <2>2. \A i \in DOMAIN outbox : outbox[i] \in Alert
    BY <1>0
  <2>3. /\ DOMAIN outbox' = DOMAIN outbox
        /\ \A i \in DOMAIN outbox : /\ outbox'[i].kind = outbox[i].kind
                                    /\ outbox'[i].features = outbox[i].features
    BY <2>1, <2>2 DEF MarkedAlert, Alert
  <2> QED
    BY <1>0, <2>1, <2>3 DEF DriftIsNamed
<1>7. CASE Restart
  BY <1>7 DEF Restart, DriftIsNamed
<1>8. CASE UNCHANGED <<outbox, driftKey>>
  BY <1>0, <1>8 DEF DriftIsNamed
<1>9. [SchedulerNext]_schedulerVars =>
        CheckDrift \/ TellRetrain \/ GuardTells \/ MarkAlert \/ Restart \/ UNCHANGED <<outbox, driftKey>>
  BY DEF SchedulerNext, ProceedTick, CheckRetrain, ToShadow, ToCanary, Stamp, ReadPending,
         PostSeen, PostUnseen, PostGarbled, TrafficDrifts, RetrainFallsDue, GuardRollsBack, OperatorPromotes, OperatorTakesCanary,
         schedulerVars, Outbox
<1> QED
  BY <1>3, <1>4, <1>5, <1>6, <1>7, <1>8, <1>9

LEMMA ShadowStep ==
  ASSUME SchedulerInv, [SchedulerNext]_schedulerVars
  PROVE  ShadowSense'
<1>0. /\ ShadowSense /\ restarts \in Nat /\ promoted \in BOOLEAN
      /\ tick \in [pc : TickSteps, queue : SUBSET (1..Len(outbox)), ok : BOOLEAN]
      /\ Sleeping.pc = "sleep"
  BY DEF SchedulerInv, OutboxSense, FlagSense, Sleeping
<1> SUFFICES ASSUME restarts' = 0, ~promoted'
             PROVE  /\ shadow' => tick'.pc = "canary"
                    /\ tick'.pc \in {"shadow", "canary"} => ~canary'
  BY DEF ShadowSense
<1>1. restarts = 0 /\ ~promoted /\ ~Restart /\ ~OperatorPromotes
  <2>1. ~Restart /\ ~OperatorPromotes
    BY <1>0 DEF Restart, OperatorPromotes
  <2>2. CASE UNCHANGED <<restarts, promoted>>
    BY <2>1, <2>2
  <2>3. ~Restart /\ ~OperatorPromotes => UNCHANGED <<restarts, promoted>>
    BY DEF SchedulerNext, ProceedTick, CheckDrift, CheckRetrain, ToShadow, ToCanary, Stamp,
           TellRetrain, ReadPending, PostSeen, PostUnseen, PostGarbled, MarkAlert, GuardTells,
           TrafficDrifts, RetrainFallsDue,
           GuardRollsBack, OperatorTakesCanary, schedulerVars, History
  <2> QED
    BY <2>1, <2>2, <2>3
<1>2. /\ shadow => tick.pc = "canary"
      /\ tick.pc \in {"shadow", "canary"} => ~canary
  BY <1>0, <1>1 DEF ShadowSense
<1>3. CASE CheckDrift \/ CheckRetrain \/ ToShadow \/ ToCanary
  BY <1>0, <1>2, <1>3 DEF CheckDrift, CheckRetrain, MayRetrain, ToShadow, ToCanary, At, Go, Models
<1>4. CASE Stamp \/ TellRetrain \/ ReadPending \/ PostSeen \/ PostUnseen \/ PostGarbled \/ MarkAlert
  <2>1. /\ tick'.pc \notin {"shadow", "canary"} /\ tick.pc # "canary" /\ shadow' = shadow
    BY <1>0, <1>4 DEF Stamp, TellRetrain, ReadPending, PostSeen, PostUnseen, PostGarbled, MarkAlert,
                      At, Go, Models, Sleeping
  <2> QED
    BY <1>2, <2>1
<1>5. CASE GuardTells \/ TrafficDrifts \/ RetrainFallsDue \/ GuardRollsBack \/ OperatorTakesCanary
           \/ UNCHANGED schedulerVars
  BY <1>2, <1>5 DEF GuardTells, TrafficDrifts, RetrainFallsDue, GuardRollsBack, OperatorTakesCanary,
                    schedulerVars, Models
<1> QED
  BY <1>1, <1>3, <1>4, <1>5 DEF SchedulerNext, ProceedTick

\* The inductive invariant of the scheduler.
THEOREM SchedulerAlways == SchedulerSpec => []SchedulerInv
<1>1. SchedulerInv /\ [SchedulerNext]_schedulerVars => SchedulerInv'
  BY OutboxStep, FlagStep, AccountStep, DriftStep, ShadowStep DEF SchedulerInv
<1> QED
  BY <1>1, SchedulerStarts, PTL DEF SchedulerSpec

\* Whatever answers are lost, late or bad, an alert whose delivery was seen is not posted
\* again in the same life, the webhook gets none more often than MaxTries times and once for
\* each restart (but for answers that are not HTTP), the last alert about drift names all
\* that has drifted, a tick by itself strands no version in SHADOW, and alerts are no more
\* than the events that cause them.
THEOREM SchedulerAlwaysPrecise == SchedulerSpec => []SchedulerIsPrecise
<1>1. SchedulerInv => SchedulerIsPrecise
  <2> SUFFICES ASSUME SchedulerInv PROVE SchedulerIsPrecise
    OBVIOUS
  <2>1. /\ FlagSense /\ OutboxSense /\ PostSense /\ AlertsAccounted /\ DriftIsNamed /\ ShadowSense
        /\ MaxUpheavals \in Nat
    BY SchedulerAssumption DEF SchedulerInv
  <2>2. /\ DOMAIN outbox = 1..Len(outbox) /\ DOMAIN posted = 1..Len(outbox) /\ Len(outbox) \in Nat
        /\ \A i \in 1..Len(outbox) : outbox[i] \in Alert /\ posted[i] \in Times
    BY <2>1 DEF OutboxSense
  <2>3. Len(outbox) <= MaxAlerts
    BY <2>1, <2>2 DEF AlertsAccounted, Owed, One, MaxAlerts, FlagSense
  <2>4. restarts \in 0..MaxUpheavals
    BY <2>1 DEF FlagSense
  <2>5. SchedulerTypeOK
    BY <2>1, <2>2, <2>3, <2>4 DEF SchedulerTypeOK, FlagSense, OutboxSense, Alert, TickSteps, Times
  <2>6. ASSUME NEW i \in 1..Len(outbox)
        PROVE  posted[i].seen <= 1 + restarts /\ posted[i].seen + posted[i].unseen <= MaxTries + restarts
    <3>1. /\ posted[i].seen <= IF Accepted(i) THEN restarts + 1 ELSE restarts
          /\ posted[i].seen + posted[i].unseen <= Tried(i) + restarts
      BY <2>1 DEF PostSense, Sent
    <3>2. /\ restarts \in Nat /\ posted[i].seen \in Nat /\ posted[i].unseen \in Nat
          /\ outbox[i].attempts \in 0..MaxTries /\ MaxTries \in Nat
      BY <2>2, <2>4, SchedulerAssumption DEF Times, Alert
    <3>3. Tried(i) \in Nat /\ Tried(i) <= MaxTries
      <4>1. CASE tick.pc = "mark" /\ i = InHand
        <5>1. outbox[i].attempts < MaxTries
          BY <2>1, <4>1, InHandIsLeast DEF OutboxSense, IsUndelivered
        <5> QED
          BY <3>2, <4>1, <5>1 DEF Tried
      <4>2. CASE ~(tick.pc = "mark" /\ i = InHand)
        BY <3>2, <4>2 DEF Tried
      <4> QED
        BY <4>1, <4>2
    <3> QED
      BY <3>1, <3>2, <3>3
  <2>8. DeliveriesAreBounded
    BY <2>2, <2>6 DEF DeliveriesAreBounded
  <2>7. SerialLeavesNoShadow
    BY <2>1 DEF SerialLeavesNoShadow, ShadowSense, At
  <2> QED
    BY <2>1, <2>5, <2>7, <2>8 DEF SchedulerIsPrecise
<1> QED
  BY <1>1, SchedulerAlways, PTL

-----------------------------------------------------------------------------
(***************************************************************************)
(* The start of the process.  A request builds only when the thread is     *)
(* dead and has left no platform, which it does only when it failed.       *)
(***************************************************************************)
Stage == {"draft", "shadow", "canary", "live", "archived", "rolled_back"}

\* What is stored after each step of seed_release_history.
Story == << <<"live", "draft">>, <<"live", "shadow">>, <<"live", "canary">>,
            <<"archived", "canary">>, <<"archived", "live">>,
            <<"archived", "live", "draft">>, <<"archived", "live", "shadow">>,
            <<"archived", "live", "canary">>, <<"archived", "live", "rolled_back">> >>

BootTypes ==
  /\ boot \in {"building", "warming", "warm", "scheduled", "published", "failing", "dead"}
  /\ platform \in {Nobody, Thread} \cup Caller
  /\ bootError \in BOOLEAN /\ scheduler \in BOOLEAN
  /\ builder \in {Nobody} \cup Caller
  /\ caller \in [Caller -> Callers]
  /\ marked \in BOOLEAN /\ saves \in 0..4
  /\ seeded \in 0..9 /\ deaths \in 0..MaxDeaths

\* What is stored before the directory is marked is how far a first build has come, and then
\* a beginning of the story; this life's, as far as it has told it.
FirstBuilds == {<< >>, <<"draft">>, <<"shadow">>, <<"canary">>, <<"live">>}
StorySense ==
  /\ ~marked => versions \in FirstBuilds
  /\ saves # 0 => ~marked /\ versions = <<FirstStages[saves]>>
  /\ marked => versions = <<"live">> \/ \E k \in 1..9 : versions = Story[k]
  /\ seeded # 0 => marked /\ versions = Story[seeded]
  /\ boot = "building" => seeded = 0
  /\ boot \in {"warming", "warm", "scheduled", "published"} => marked

ThreadSense ==
  /\ boot \in {"building", "warming", "warm", "scheduled", "failing"} => platform = Nobody
  /\ boot \in {"scheduled", "published"} => scheduler
  /\ boot = "published" => platform = Thread
  /\ boot = "failing" => bootError
  /\ boot = "dead" => bootError \/ (platform = Thread /\ scheduler)
  /\ platform # Nobody => scheduler \/ bootError

CallerSense ==
  \A c \in Caller :
    /\ caller[c].at = "served" => caller[c].given = platform /\ platform # Nobody
    /\ caller[c].at \in {"locks", "builds"} => boot = "dead"
    /\ caller[c].at = "builds" => builder = c /\ platform = Nobody

BootInv == BootTypes /\ StorySense /\ ThreadSense /\ CallerSense

\* Where every request is when the process comes up.
Arriving == [c \in Caller |-> [at |-> "arrives", given |-> Nobody]]

LEMMA ArrivingIsTyped ==
  /\ Arriving \in [Caller -> Callers]
  /\ \A c \in Caller : Arriving[c].at = "arrives"
BY DEF Arriving, Callers

LEMMA BootStarts == BootInit => BootInv
<1> SUFFICES ASSUME BootInit PROVE BootInv
  OBVIOUS
<1>1. /\ boot = "building" /\ platform = Nobody /\ bootError = FALSE /\ scheduler = FALSE
      /\ builder = Nobody /\ caller = Arriving /\ versions = << >> /\ seeded = 0 /\ deaths = 0
      /\ marked = FALSE /\ saves = 0 /\ MaxDeaths \in Nat
  BY BootAssumption DEF BootInit, Arriving
<1>2. BootTypes
  <2>1. Arriving \in [Caller -> Callers] /\ 0 \in 0..MaxDeaths /\ 0 \in 0..9 /\ 0 \in 0..4
    BY <1>1, ArrivingIsTyped
  <2> HIDE DEF Arriving
  <2> QED
    BY <1>1, <2>1 DEF BootTypes
<1>3. CallerSense
  BY <1>1, ArrivingIsTyped DEF CallerSense
<1>4. StorySense /\ ThreadSense
  BY <1>1 DEF StorySense, ThreadSense, FirstBuilds
<1> QED
  BY <1>2, <1>3, <1>4 DEF BootInv

\* What a request does to its slot.
LEMMA GoesGoes ==
  ASSUME caller \in [Caller -> Callers], NEW c \in Caller,
         NEW at \in {"arrives", "no platform", "no error", "locks", "builds", "served", "refused"},
         Goes(c, at)
  PROVE  /\ caller' \in [Caller -> Callers] /\ caller'[c].at = at
         /\ \A d \in Caller \ {c} : caller'[d] = caller[d]
<1>1. caller' = [caller EXCEPT ![c] = [caller[c] EXCEPT !.at = at]]
  BY DEF Goes
<1>2. caller[c] \in Callers
  OBVIOUS
<1>3. [caller[c] EXCEPT !.at = at] \in Callers /\ [caller[c] EXCEPT !.at = at].at = at
  BY <1>2 DEF Callers
<1> QED
  BY <1>1, <1>3

LEMMA GivenIsGiven ==
  ASSUME caller \in [Caller -> Callers], NEW c \in Caller,
         NEW built \in {Nobody, Thread} \cup Caller, Given(c, built)
  PROVE  /\ caller' \in [Caller -> Callers] /\ caller'[c].at = "served" /\ caller'[c].given = built
         /\ \A d \in Caller \ {c} : caller'[d] = caller[d]
<1>1. [at |-> "served", given |-> built] \in Callers
  BY DEF Callers
<1> QED
  BY <1>1 DEF Given

LEMMA WarmTells ==
  ASSUME StorySense, seeded \in 0..9, Seeds, marked
  PROVE  seeded + 1 \in 1..9 /\ Seed(seeded + 1, versions) = Story[seeded + 1]
<1>1. CASE seeded = 0
  <2>1. Len(versions) = 1
    BY <1>1 DEF Seeds
  <2>2. \A k \in 1..9 : Len(Story[k]) # 1
    BY DEF Story
  <2>3. versions = <<"live">>
    BY <2>1, <2>2 DEF StorySense
  <2>4. Seed(1, versions) = Append(versions, "draft") /\ Story[1] = <<"live", "draft">>
    BY DEF Seed, Story
  <2> QED
    BY <1>1, <2>3, <2>4
<1>2. CASE seeded # 0
  <2>1. seeded \in {1, 2, 3, 4, 5, 6, 7, 8} /\ versions = Story[seeded]
    BY <1>2 DEF Seeds, StorySense
  <2>2. CASE seeded = 1
    BY <2>1, <2>2 DEF Seed, Story, Latest
  <2>3. CASE seeded = 2
    BY <2>1, <2>3 DEF Seed, Story, Latest
  <2>4. CASE seeded = 3
    BY <2>1, <2>4 DEF Seed, Story, Latest
  <2>5. CASE seeded = 4
    BY <2>1, <2>5 DEF Seed, Story, Latest
  <2>6. CASE seeded = 5
    <3>1. versions = <<"archived", "live">>
      BY <2>1, <2>6 DEF Story
    <3>2. Seed(6, versions) = Append(versions, "draft") /\ Story[6] = <<"archived", "live", "draft">>
      BY DEF Seed, Story
    <3> QED
      BY <2>6, <3>1, <3>2
  <2>7. CASE seeded = 6
    BY <2>1, <2>7 DEF Seed, Story, Latest
  <2>8. CASE seeded = 7
    BY <2>1, <2>8 DEF Seed, Story, Latest
  <2>9. CASE seeded = 8
    BY <2>1, <2>9 DEF Seed, Story, Latest
  <2> QED
    BY <2>1, <2>2, <2>3, <2>4, <2>5, <2>6, <2>7, <2>8, <2>9
<1> QED
  BY <1>1, <1>2

\* A save of a first build, or its mark.
LEMMA ColdBuildKeeps ==
  ASSUME BootTypes, StorySense, ColdBuild, UNCHANGED seeded, ~marked
  PROVE  /\ marked' \in BOOLEAN /\ saves' \in 0..4 /\ seeded = 0
         /\ ~marked' => versions' \in FirstBuilds
         /\ saves' # 0 => ~marked' /\ versions' = <<FirstStages[saves']>>
         /\ marked' => versions' = <<"live">>
<1>1. saves \in {0, 1, 2, 3, 4} /\ versions \in FirstBuilds /\ seeded = 0 /\ Len(FirstStages) = 4
  BY DEF BootTypes, StorySense, FirstStages
<1>2. CASE saves = 4
  <2>1. marked' = TRUE /\ saves' = 0 /\ versions' = versions
    BY <1>1, <1>2 DEF ColdBuild
  <2>2. versions = <<"live">>
    BY <1>2 DEF StorySense, FirstStages
  <2> QED
    BY <1>1, <2>1, <2>2
<1>3. CASE saves # 4
  <2>1. /\ versions' = Saved(versions, FirstStages[saves + 1]) /\ saves' = saves + 1
        /\ marked' = marked /\ saves + 1 \in {1, 2, 3, 4}
    BY <1>1, <1>3 DEF ColdBuild
  <2>2. \A stage : Saved(versions, stage) = <<stage>>
    BY <1>1 DEF Saved, FirstBuilds
  <2>3. FirstStages[saves + 1] \in {"draft", "shadow", "canary", "live"}
    BY <2>1 DEF FirstStages
  <2>4. versions' = <<FirstStages[saves']>>
    BY <2>1, <2>2
  <2>5. versions' \in FirstBuilds
    BY <2>1, <2>3, <2>4 DEF FirstBuilds
  <2>6. saves' \in 0..4 /\ saves' # 0 /\ ~marked' /\ marked' \in BOOLEAN
    BY <2>1 DEF BootTypes
  <2> QED
    BY <1>1, <2>4, <2>5, <2>6
<1> QED
  BY <1>2, <1>3

LEMMA BootStepKeeps ==
  ASSUME BootInv, BootStep \/ FailToBoot \/ Die
  PROVE  BootInv'
<1>0. BootTypes /\ StorySense /\ ThreadSense /\ CallerSense
  BY DEF BootInv
<1>1. CASE BuildInThread
  <2>1. /\ UNCHANGED <<platform, bootError, scheduler, builder, caller, seeded, deaths>>
        /\ boot = "building" /\ boot' \in {"building", "warming"}
        /\ boot' = "warming" => marked'
    BY <1>1 DEF BuildInThread, Directory
  <2>2. CASE ColdBuild
    <3>1. /\ marked' \in BOOLEAN /\ saves' \in 0..4 /\ seeded = 0
          /\ ~marked' => versions' \in FirstBuilds
          /\ saves' # 0 => ~marked' /\ versions' = <<FirstStages[saves']>>
          /\ marked' => versions' = <<"live">>
      <4>1. ~marked
        BY <2>2 DEF ColdBuild
      <4> QED
        BY <1>0, <2>1, <2>2, <4>1, ColdBuildKeeps
    <3> QED
      BY <1>0, <2>1, <3>1 DEF BootInv, BootTypes, StorySense, ThreadSense, CallerSense
  <2>3. CASE UNCHANGED <<versions, marked, saves>>
    BY <1>0, <2>1, <2>3 DEF BootInv, BootTypes, StorySense, ThreadSense, CallerSense
  <2> QED
    BY <1>1, <2>2, <2>3 DEF BuildInThread, Directory
<1>2. CASE Warm
  <2>1. boot = "warming" /\ boot' \in {"warming", "warm"} /\ marked
        /\ UNCHANGED <<platform, bootError, scheduler, builder, caller, marked, saves, deaths>>
    BY <1>0, <1>2 DEF Warm, StorySense
  <2>4. seeded \in 0..9 /\ seeded' \in 0..9
    BY <1>0, <1>2, <2>1, WarmTells DEF Warm, BootTypes
  <2>2. StorySense'
    <3>1. CASE Seeds
      <4>1. seeded + 1 \in 1..9 /\ Seed(seeded + 1, versions) = Story[seeded + 1]
        BY <1>0, <2>1, <2>4, <3>1, WarmTells
      <4>2. seeded' = seeded + 1 /\ versions' = Story[seeded'] /\ boot' = "warming"
        BY <1>2, <3>1, <4>1 DEF Warm
      <4>3. saves = 0
        BY <1>0, <2>1 DEF StorySense
      <4> QED
        BY <2>1, <4>1, <4>2, <4>3 DEF StorySense
    <3>2. CASE ~Seeds
      BY <1>0, <1>2, <2>1, <3>2 DEF Warm, StorySense
    <3> QED
      BY <3>1, <3>2
  <2>3. BootTypes' /\ ThreadSense' /\ CallerSense'
    BY <1>0, <2>1, <2>4 DEF BootTypes, ThreadSense, CallerSense
  <2> QED
    BY <2>2, <2>3 DEF BootInv
<1>3. CASE StartScheduler \/ Publish \/ EndThread \/ FailToBoot
  <2>0. /\ UNCHANGED <<builder, caller, versions, marked, seeded, deaths>>
        /\ platform' \in {platform, Thread} /\ (saves' = saves \/ saves' = 0)
        /\ boot' \in {"scheduled", "published", "failing", "dead"}
        /\ boot' \in {"scheduled", "published"} => marked
        /\ bootError' \in {bootError, TRUE} /\ scheduler' \in {scheduler, TRUE}
    BY <1>0, <1>3 DEF StartScheduler, Publish, EndThread, FailToBoot, Directory, StorySense
  <2>1. BootTypes' /\ StorySense'
    <3>1. BootTypes'
      <4>1. /\ boot' \in {"building", "warming", "warm", "scheduled", "published", "failing", "dead"}
            /\ platform' \in {Nobody, Thread} \cup Caller
            /\ bootError' \in BOOLEAN /\ scheduler' \in BOOLEAN
        BY <1>0, <2>0 DEF BootTypes
      <4>2. saves' \in 0..4
        BY <1>0, <2>0 DEF BootTypes
      <4>3. /\ builder' \in {Nobody} \cup Caller /\ caller' \in [Caller -> Callers]
            /\ marked' \in BOOLEAN /\ seeded' \in 0..9 /\ deaths' \in 0..MaxDeaths
        BY <1>0, <2>0 DEF BootTypes
      <4> QED
        BY <4>1, <4>2, <4>3 DEF BootTypes
    <3>2. StorySense'
      BY <1>0, <2>0 DEF StorySense
    <3> QED
      BY <3>1, <3>2
  <2>2. ThreadSense'
    BY <1>0, <1>3 DEF StartScheduler, Publish, EndThread, FailToBoot, ThreadSense, BootTypes
  <2>3. CallerSense'
    BY <1>0, <1>3 DEF StartScheduler, Publish, EndThread, FailToBoot, ThreadSense, CallerSense
  <2> QED
    BY <2>1, <2>2, <2>3 DEF BootInv
<1>4. CASE Die
  <2>1. deaths' \in 0..MaxDeaths
    BY <1>0, <1>4, BootAssumption DEF Die, BootTypes
  <2>2. /\ boot' = "building" /\ platform' = Nobody /\ bootError' = FALSE /\ scheduler' = FALSE
        /\ builder' = Nobody /\ caller' = Arriving /\ UNCHANGED <<versions, marked>>
        /\ saves' = 0 /\ seeded' = 0
    BY <1>4 DEF Die, Arriving
  <2>3. BootTypes'
    <3>1. Arriving \in [Caller -> Callers] /\ 0 \in 0..9 /\ 0 \in 0..4
      BY ArrivingIsTyped
    <3> QED
      BY <1>0, <2>1, <2>2, <3>1 DEF BootTypes
  <2>4. CallerSense'
    BY <2>2, ArrivingIsTyped DEF CallerSense
  <2>5. StorySense' /\ ThreadSense'
    BY <1>0, <2>2 DEF StorySense, ThreadSense
  <2> QED
    BY <2>3, <2>4, <2>5 DEF BootInv
<1> QED
  BY <1>1, <1>2, <1>3, <1>4 DEF BootStep

LEMMA CallerStepKeeps ==
  ASSUME BootInv, NEW c \in Caller, ProceedCaller(c) \/ Arrive(c)
  PROVE  BootInv'
<1>0. /\ BootTypes /\ StorySense /\ ThreadSense /\ CallerSense
      /\ caller \in [Caller -> Callers]
  BY DEF BootInv, BootTypes
<1>1. CASE LookForPlatform(c) \/ LookForError(c) \/ LookForThread(c) \/ Arrive(c)
  <2>1. UNCHANGED <<boot, platform, bootError, scheduler, builder, versions, marked, saves, seeded, deaths>>
    BY <1>1 DEF LookForPlatform, LookForError, LookForThread, Arrive, NoThread, Directory
  <2>2. /\ caller' \in [Caller -> Callers]
        /\ \A d \in Caller \ {c} : caller'[d] = caller[d]
        /\ caller'[c].at # "builds"
        /\ caller'[c].at = "locks" => boot = "dead"
        /\ caller'[c].at = "served" => caller'[c].given = platform /\ platform # Nobody
    <3>1. CASE LookForPlatform(c)
      BY <1>0, <3>1, GoesGoes, GivenIsGiven DEF LookForPlatform, BootTypes
    <3>2. CASE LookForError(c)
      BY <1>0, <3>2, GoesGoes DEF LookForError
    <3>3. CASE LookForThread(c)
      BY <1>0, <3>3, GoesGoes DEF LookForThread
    <3>4. CASE Arrive(c)
      BY <1>0, <3>4 DEF Arrive, Callers
    <3> QED
      BY <1>1, <3>1, <3>2, <3>3, <3>4
  <2>3. BootTypes' /\ StorySense' /\ ThreadSense'
    BY <1>0, <2>1, <2>2 DEF BootTypes, StorySense, ThreadSense
  <2>4. CallerSense'
    BY <1>0, <2>1, <2>2 DEF CallerSense
  <2> QED
    BY <2>3, <2>4 DEF BootInv
<1>2. CASE Lock(c)
  <2>1. UNCHANGED <<boot, platform, bootError, scheduler, versions, marked, saves, seeded, deaths>>
    BY <1>2 DEF Lock, NoThread, Directory
  <2>2. /\ caller' \in [Caller -> Callers] /\ builder' \in {Nobody, c} /\ boot = "dead"
        /\ \A d \in Caller \ {c} : caller'[d] = caller[d] /\ caller[d].at # "builds"
        /\ caller'[c].at # "locks"
        /\ caller'[c].at = "builds" => builder' = c /\ platform = Nobody
        /\ caller'[c].at = "served" => caller'[c].given = platform /\ platform # Nobody
    <3>1. caller[c].at = "locks" /\ builder = Nobody /\ boot = "dead"
      BY <1>0, <1>2 DEF Lock, CallerSense
    <3>2. \A d \in Caller : caller[d].at # "builds"
      BY <1>0, <3>1, BootAssumption DEF CallerSense
    <3>3. CASE platform = Nobody
      BY <1>0, <1>2, <3>1, <3>2, <3>3, GoesGoes DEF Lock
    <3>4. CASE platform # Nobody
      BY <1>0, <1>2, <3>1, <3>2, <3>4, GivenIsGiven DEF Lock, BootTypes
    <3> QED
      BY <3>3, <3>4
  <2>3. BootTypes' /\ StorySense' /\ ThreadSense'
    BY <1>0, <2>1, <2>2 DEF BootTypes, StorySense, ThreadSense
  <2>4. CallerSense'
    BY <1>0, <2>1, <2>2 DEF CallerSense
  <2> QED
    BY <2>3, <2>4 DEF BootInv
<1>3. CASE BuildOnRequest(c)
  <2>1. /\ UNCHANGED <<boot, bootError, scheduler, seeded, deaths>>
        /\ boot = "dead" /\ builder = c /\ platform = Nobody /\ c # Nobody /\ caller[c].at = "builds"
    BY <1>0, <1>3, BootAssumption DEF BuildOnRequest, NoThread, CallerSense
  <2>2. bootError
    BY <1>0, <2>1 DEF ThreadSense, Nobody, Thread
  <2>3. \A d \in Caller \ {c} : caller[d].at \notin {"builds", "served"}
    BY <1>0, <2>1 DEF CallerSense
  <2>4. CASE ColdBuild /\ UNCHANGED <<platform, builder, caller>>
    <3>1. /\ marked' \in BOOLEAN /\ saves' \in 0..4 /\ seeded = 0
          /\ ~marked' => versions' \in FirstBuilds
          /\ saves' # 0 => ~marked' /\ versions' = <<FirstStages[saves']>>
          /\ marked' => versions' = <<"live">>
      <4>1. ~marked
        BY <2>4 DEF ColdBuild
      <4> QED
        BY <1>0, <2>1, <2>4, <4>1, ColdBuildKeeps
    <3> QED
      BY <1>0, <2>1, <2>4, <3>1 DEF BootInv, BootTypes, StorySense, ThreadSense, CallerSense
  <2>5. CASE ~(ColdBuild /\ UNCHANGED <<platform, builder, caller>>)
    <3>1. /\ caller' \in [Caller -> Callers] /\ platform' \in {Nobody, c} /\ builder' = Nobody
          /\ UNCHANGED <<versions, marked>> /\ saves' \in {saves, 0}
          /\ \A d \in Caller \ {c} : caller'[d] = caller[d]
          /\ caller'[c].at \in {"served", "refused"}
          /\ caller'[c].at = "served" => caller'[c].given = platform' /\ platform' # Nobody
      <4>1. CASE platform' = c /\ Given(c, c) /\ builder' = Nobody /\ UNCHANGED Directory
        BY <1>0, <2>1, <4>1, GivenIsGiven DEF Directory
      <4>2. CASE Goes(c, "refused") /\ saves' = 0 /\ builder' = Nobody /\ UNCHANGED <<platform, versions, marked>>
        BY <1>0, <2>1, <4>2, GoesGoes
      <4> QED
        BY <1>3, <2>5, <4>1, <4>2 DEF BuildOnRequest
    <3>2. BootTypes' /\ ThreadSense' /\ CallerSense'
      BY <1>0, <2>1, <2>2, <2>3, <3>1 DEF BootTypes, ThreadSense, CallerSense
    <3>3. StorySense'
      BY <1>0, <2>1, <3>1 DEF StorySense
    <3> QED
      BY <3>2, <3>3 DEF BootInv
  <2> QED
    BY <2>4, <2>5
<1> QED
  BY <1>1, <1>2, <1>3 DEF ProceedCaller

\* The inductive invariant of the start.
THEOREM BootAlways == BootSpec => []BootInv
<1>1. BootInv /\ [BootNext]_bootVars => BootInv'
  <2> SUFFICES ASSUME BootInv, [BootNext]_bootVars PROVE BootInv'
    OBVIOUS
  <2>1. CASE UNCHANGED bootVars
    BY <2>1 DEF bootVars, BootInv, BootTypes, StorySense, ThreadSense, CallerSense
  <2> QED
    BY <2>1, BootStepKeeps, CallerStepKeeps DEF BootNext
<1> QED
  BY <1>1, BootStarts, PTL DEF BootSpec

\* What the story tells: at every step but one, one version is live; of three at most.
LEMMA StoryIsSound ==
  ASSUME NEW k \in 1..9
  PROVE  /\ Story[k] \in Seq(Stage) /\ Len(Story[k]) <= 3
         /\ \A v, w \in DOMAIN Story[k] : Story[k][v] = "live" /\ Story[k][w] = "live" => v = w
         /\ k = 4 \/ \E v \in DOMAIN Story[k] : Story[k][v] = "live"
         /\ Story[4] = <<"archived", "canary">>
<1>1. CASE k = 1
  <2>1. /\ DOMAIN Story[k] = {1, 2} /\ Story[k][1] = "live" /\ Story[k][2] # "live"
        /\ Story[k] \in Seq(Stage) /\ Len(Story[k]) = 2 /\ Story[4] = <<"archived", "canary">>
    BY <1>1 DEF Story, Stage
  <2> QED
    BY <1>1, <2>1
<1>2. CASE k = 2
  <2>1. /\ DOMAIN Story[k] = {1, 2} /\ Story[k][1] = "live" /\ Story[k][2] # "live"
        /\ Story[k] \in Seq(Stage) /\ Len(Story[k]) = 2 /\ Story[4] = <<"archived", "canary">>
    BY <1>2 DEF Story, Stage
  <2> QED
    BY <1>2, <2>1
<1>3. CASE k = 3
  <2>1. /\ DOMAIN Story[k] = {1, 2} /\ Story[k][1] = "live" /\ Story[k][2] # "live"
        /\ Story[k] \in Seq(Stage) /\ Len(Story[k]) = 2 /\ Story[4] = <<"archived", "canary">>
    BY <1>3 DEF Story, Stage
  <2> QED
    BY <1>3, <2>1
<1>4. CASE k = 4
  <2>1. /\ DOMAIN Story[k] = {1, 2} /\ Story[k][1] # "live" /\ Story[k][2] # "live"
        /\ Story[k] \in Seq(Stage) /\ Len(Story[k]) = 2 /\ Story[4] = <<"archived", "canary">>
    BY <1>4 DEF Story, Stage
  <2> QED
    BY <1>4, <2>1
<1>5. CASE k = 5
  <2>1. /\ DOMAIN Story[k] = {1, 2} /\ Story[k][1] # "live" /\ Story[k][2] = "live"
        /\ Story[k] \in Seq(Stage) /\ Len(Story[k]) = 2 /\ Story[4] = <<"archived", "canary">>
    BY <1>5 DEF Story, Stage
  <2> QED
    BY <1>5, <2>1
<1>6. CASE k = 6
  <2>1. /\ DOMAIN Story[k] = {1, 2, 3} /\ Story[k][1] # "live" /\ Story[k][2] = "live" /\ Story[k][3] # "live"
        /\ Story[k] \in Seq(Stage) /\ Len(Story[k]) = 3 /\ Story[4] = <<"archived", "canary">>
    BY <1>6 DEF Story, Stage
  <2> QED
    BY <1>6, <2>1
<1>7. CASE k = 7
  <2>1. /\ DOMAIN Story[k] = {1, 2, 3} /\ Story[k][1] # "live" /\ Story[k][2] = "live" /\ Story[k][3] # "live"
        /\ Story[k] \in Seq(Stage) /\ Len(Story[k]) = 3 /\ Story[4] = <<"archived", "canary">>
    BY <1>7 DEF Story, Stage
  <2> QED
    BY <1>7, <2>1
<1>8. CASE k = 8
  <2>1. /\ DOMAIN Story[k] = {1, 2, 3} /\ Story[k][1] # "live" /\ Story[k][2] = "live" /\ Story[k][3] # "live"
        /\ Story[k] \in Seq(Stage) /\ Len(Story[k]) = 3 /\ Story[4] = <<"archived", "canary">>
    BY <1>8 DEF Story, Stage
  <2> QED
    BY <1>8, <2>1
<1>9. CASE k = 9
  <2>1. /\ DOMAIN Story[k] = {1, 2, 3} /\ Story[k][1] # "live" /\ Story[k][2] = "live" /\ Story[k][3] # "live"
        /\ Story[k] \in Seq(Stage) /\ Len(Story[k]) = 3 /\ Story[4] = <<"archived", "canary">>
    BY <1>9 DEF Story, Stage
  <2> QED
    BY <1>9, <2>1
<1> QED
  BY <1>1, <1>2, <1>3, <1>4, <1>5, <1>6, <1>7, <1>8, <1>9

\* However requests race the end of the boot thread, all are given one platform, and it is
\* watched unless the boot failed; wherever the process dies, between two saves as well, no two
\* stored versions are live, none is only where it died between the two saves of a promotion
\* or before the first build was marked, and the history is written once and never built over.
THEOREM BootAlwaysConsistent == BootSpec => []BootIsConsistent
<1>1. BootInv => BootIsConsistent
  <2> SUFFICES ASSUME BootInv PROVE BootIsConsistent
    OBVIOUS
  <2>1. BootTypes /\ StorySense /\ ThreadSense /\ CallerSense
    BY DEF BootInv
  <2>2. /\ versions \in Seq(Stage) /\ Len(versions) <= 3
        /\ \A v, w \in DOMAIN versions : versions[v] = "live" /\ versions[w] = "live" => v = w
        /\ marked => \/ \E v \in DOMAIN versions : versions[v] = "live"
                     \/ versions = <<"archived", "canary">>
        /\ ~marked => Len(versions) <= 1
    <3>1. CASE versions \in FirstBuilds
      <4>1. \A s \in Stage : <<s>> \in Seq(Stage) /\ Len(<<s>>) = 1 /\ DOMAIN <<s>> = {1} /\ <<s>>[1] = s
        OBVIOUS
      <4>2. << >> \in Seq(Stage) /\ Len(<< >>) = 0 /\ DOMAIN << >> = {}
        OBVIOUS
      <4>3. /\ versions \in Seq(Stage) /\ Len(versions) <= 1
            /\ \A v, w \in DOMAIN versions : v = w
        <5>1. versions = << >> \/ \E s \in Stage : versions = <<s>>
          BY <3>1 DEF FirstBuilds, Stage
        <5>2. CASE versions = << >>
          BY <4>2, <5>2
        <5>3. ASSUME NEW s \in Stage, versions = <<s>>
              PROVE  /\ versions \in Seq(Stage) /\ Len(versions) <= 1
                     /\ \A v, w \in DOMAIN versions : v = w
          BY <4>1, <5>3
        <5> QED
          BY <5>1, <5>2, <5>3
      <4>4. marked => \E v \in DOMAIN versions : versions[v] = "live"
        <5> SUFFICES ASSUME marked PROVE \E v \in DOMAIN versions : versions[v] = "live"
          OBVIOUS
        <5>1. CASE versions = <<"live">>
          BY <5>1
        <5>2. ASSUME NEW k \in 1..9, versions = Story[k] PROVE FALSE
          <6>1. Len(Story[k]) >= 2
            BY DEF Story
          <6> QED
            BY <4>3, <5>2, <6>1
        <5> QED
          BY <2>1, <5>1, <5>2 DEF StorySense
      <4> QED
        BY <4>3, <4>4
    <3>2. CASE \E k \in 1..9 : versions = Story[k]
      <4>1. PICK k \in 1..9 : versions = Story[k]
        BY <3>2
      <4>2. marked \/ versions \in FirstBuilds
        BY <2>1 DEF StorySense
      <4>3. ~marked => Len(versions) <= 1
        <5>1. versions \in FirstBuilds => Len(versions) <= 1
          BY DEF FirstBuilds
        <5> QED
          BY <4>2, <5>1
      <4>4. k = 4 => versions = <<"archived", "canary">>
        BY <4>1, StoryIsSound
      <4> QED
        BY <4>1, <4>3, <4>4, StoryIsSound
    <3> QED
      BY <2>1, <3>1, <3>2 DEF StorySense, FirstBuilds
  <2>3. OneLiveThroughout /\ NothingIsBuiltOver
    BY <2>2 DEF OneLiveThroughout, NothingIsBuiltOver, Live
  <2>4. BootTypeOK
    BY <2>1, <2>2 DEF BootTypeOK, BootTypes, CallerSense, Stage
  <2>5. OnePlatform /\ ReadyIsWatched /\ SeededOnce
    BY <2>1, <2>2 DEF OnePlatform, ReadyIsWatched, SeededOnce, CallerSense, ThreadSense
  <2> QED
    BY <2>3, <2>4, <2>5 DEF BootIsConsistent
<1> QED
  BY <1>1, BootAlways, PTL

-----------------------------------------------------------------------------
(***************************************************************************)
(* The benchmark jobs.  The lock has one owner: a request that starts a    *)
(* job, the job's thread or a job whose thread never started.  What can be *)
(* polled is the newest jobs, as many as are kept.                         *)
(***************************************************************************)
Places == {"idle", "counted", "allowed", "locked", "listed", "started", "429", "403", "409", "500"}
JobRecord == [status : {"running", "done", "failed"},
              result : BOOLEAN, error : BOOLEAN, finished : BOOLEAN]

JobTypes ==
  /\ operators \subseteq Client
  /\ counted \in [Client -> Seq(0..Expired)] /\ \A c \in Client : Len(counted[c]) <= PerWindow
  /\ client \in [Client -> [at : Places, job : 0..MaxStarted]]
  /\ busy \in BOOLEAN
  /\ jobs \in Seq(JobRecord) /\ Len(jobs) <= MaxStarted
  /\ threads \subseteq Job /\ noThread \subseteq Job
  /\ IsFiniteSet(noThread) /\ Cardinality(noThread) <= MaxNoThread

Holds(c) == client[c].at \in {"locked", "listed"}

LockSense ==
  /\ \A c, d \in Client : Holds(c) /\ Holds(d) => c = d
  /\ \A i, j \in threads : i = j
  /\ \A c \in Client : Holds(c) => threads = {} /\ noThread = {}
  /\ threads # {} => noThread = {}
  /\ busy <=> threads # {} \/ noThread # {} \/ \E c \in Client : Holds(c)
  /\ \A c \in Client : /\ client[c].at = "locked" => Len(jobs) < MaxStarted
                       /\ client[c].at = "listed" => client[c].job \in Job

ListSense ==
  /\ listed \in Seq(Nat)
  /\ Len(listed) = IF Len(jobs) < MaxJobs THEN Len(jobs) ELSE MaxJobs
  /\ \A i \in 1..Len(listed) : listed[i] = Len(jobs) - Len(listed) + i

JobsInv == JobTypes /\ LockSense /\ ListSense /\ DoneHasResult

LEMMA JobsStart == BenchmarkInit => JobsInv
<1> SUFFICES ASSUME BenchmarkInit PROVE JobsInv
  OBVIOUS
<1>1. /\ MaxStarted \in Nat /\ MaxNoThread \in Nat /\ MaxJobs \in Nat \ {0} /\ PerWindow \in Nat
  BY BenchmarkAssumption
<1>2. IsFiniteSet({}) /\ Cardinality({}) = 0
  BY FS_EmptySet
<1>3. /\ << >> \in Seq(JobRecord) /\ << >> \in Seq(Nat) /\ << >> \in Seq(0..Expired)
      /\ Len(<< >>) = 0 /\ DOMAIN << >> = {}
  OBVIOUS
<1>4. JobTypes
  <2>1. client \in [Client -> [at : Places, job : 0..MaxStarted]]
    BY <1>1 DEF BenchmarkInit, Places
  <2>2. counted \in [Client -> Seq(0..Expired)] /\ \A c \in Client : Len(counted[c]) <= PerWindow
    BY <1>1, <1>3 DEF BenchmarkInit
  <2> QED
    <3>1. /\ operators \subseteq Client /\ busy = FALSE /\ jobs = << >>
          /\ threads = {} /\ noThread = {}
      BY DEF BenchmarkInit
    <3>2. jobs \in Seq(JobRecord) /\ Len(jobs) <= MaxStarted
      BY <1>1, <1>3, <3>1
    <3>3. IsFiniteSet(noThread) /\ Cardinality(noThread) <= MaxNoThread
      BY <1>1, <1>2, <3>1
    <3>4. busy \in BOOLEAN /\ threads \subseteq Job /\ noThread \subseteq Job
      BY <3>1
    <3> QED
      BY <2>1, <2>2, <3>1, <3>2, <3>3, <3>4 DEF JobTypes
<1>5. LockSense
  BY DEF BenchmarkInit, LockSense, Holds
<1>6. ListSense
  BY <1>1, <1>3 DEF BenchmarkInit, ListSense
<1>7. DoneHasResult
  BY <1>3 DEF BenchmarkInit, DoneHasResult, Job
<1> QED
  BY <1>4, <1>5, <1>6, <1>7 DEF JobsInv

\* Dropping what has left the window leaves a history no longer than before.
LEMMA CurrentIsShorter ==
  ASSUME NEW hits \in Seq(0..Expired)
  PROVE  Current(hits) \in Seq(0..Expired) /\ Len(Current(hits)) <= Len(hits)
<1> DEFINE L == Len(hits)
           Gone(n) == /\ \A i \in 1..n : hits[i] > Minute
                      /\ n < L => hits[n + 1] <= Minute
           ends == {n \in 0..L : n < L => hits[n + 1] <= Minute}
           gone == CHOOSE n \in 0..L : Gone(n)
<1>1. L \in Nat /\ Minute \in Nat /\ \A i \in 1..L : hits[i] \in 0..Expired
  BY LenProperties, ElementOfSeq, BenchmarkAssumption
<1>2. ends \in SUBSET Nat /\ L \in ends
  BY <1>1
<1>3. PICK n \in ends : \A m \in ends : n <= m
  BY <1>2, LeastNatural
<1>4. ASSUME NEW i \in 1..n
      PROVE  hits[i] > Minute
  <2>1. i - 1 \in 0..L /\ i - 1 < n /\ i - 1 < L /\ i \in 1..L
    BY <1>1
  <2>2. i - 1 \notin ends
    BY <1>3, <2>1
  <2>3. ~(hits[(i - 1) + 1] <= Minute)
    BY <2>1, <2>2
  <2>4. hits[i] \in 0..Expired /\ (i - 1) + 1 = i
    BY <1>1, <2>1
  <2> QED
    BY <1>1, <2>3, <2>4 DEF Expired
<1>5. \E m \in 0..L : Gone(m)
  BY <1>4
<1>6. gone \in 0..L
  <2> HIDE DEF Gone
  <2> QED
    BY <1>5
<1>7. Current(hits) = SubSeq(hits, gone + 1, L)
  BY DEF Current
<1> HIDE DEF gone, L
<1>8. L = Len(hits)
  BY DEF L
<1> QED
  BY <1>1, <1>6, <1>7, <1>8, SubSeqProperties

\* A request moves, and neither the lock nor the jobs do.
LEMMA ClientMoves ==
  ASSUME JobsInv, NEW c \in Client, RateCheck(c) \/ RoleCheck(c) \/ Ask(c)
  PROVE  JobsInv'
<1>0. /\ JobTypes /\ LockSense /\ ListSense /\ DoneHasResult
      /\ client \in [Client -> [at : Places, job : 0..MaxStarted]]
      /\ MaxStarted \in Nat /\ PerWindow \in Nat
  BY BenchmarkAssumption DEF JobsInv, JobTypes
<1>1. UNCHANGED <<operators, busy, jobs, listed, threads, noThread>>
  BY DEF RateCheck, RoleCheck, Ask
<1>2. /\ client' \in [Client -> [at : Places, job : 0..MaxStarted]]
      /\ \A d \in Client \ {c} : client'[d] = client[d]
      /\ client[c].at \notin {"locked", "listed"} /\ client'[c].at \notin {"locked", "listed"}
  <2>1. PICK at \in Places \ {"locked", "listed"} :
          Reaches(c, at) \/ client' = [client EXCEPT ![c] = [at |-> at, job |-> 0]]
    BY DEF RateCheck, RoleCheck, Ask, Places
  <2>2. client[c] \in [at : Places, job : 0..MaxStarted]
    BY <1>0
  <2>3. client[c].at \notin {"locked", "listed"}
    BY DEF RateCheck, RoleCheck, Ask
  <2> QED
    BY <1>0, <2>1, <2>2, <2>3 DEF Reaches
<1>3. /\ counted' \in [Client -> Seq(0..Expired)]
      /\ \A d \in Client : Len(counted'[d]) <= PerWindow
  <2>1. CASE counted' = counted
    BY <1>0, <2>1 DEF JobTypes
  <2>2. CASE RateCheck(c)
    <3> DEFINE hits == Current(counted[c])
    <3>1. /\ counted \in [Client -> Seq(0..Expired)] /\ 0 \in 0..Expired
          /\ \A d \in Client : Len(counted[d]) <= PerWindow
      BY <1>0, BenchmarkAssumption DEF JobTypes, Expired
    <3>2. hits \in Seq(0..Expired) /\ Len(hits) \in Nat /\ Len(hits) <= PerWindow
      <4>1. counted[c] \in Seq(0..Expired) /\ Len(counted[c]) <= PerWindow
        BY <3>1
      <4>2. hits \in Seq(0..Expired) /\ Len(hits) <= Len(counted[c])
        BY <4>1, CurrentIsShorter
      <4>3. Len(hits) \in Nat /\ Len(counted[c]) \in Nat
        BY <4>1, <4>2, LenProperties
      <4> HIDE DEF hits
      <4> QED
        BY <1>0, <4>1, <4>2, <4>3
    <3>3. \/ counted' = [counted EXCEPT ![c] = hits]
          \/ counted' = [counted EXCEPT ![c] = Append(hits, 0)] /\ Len(hits) < PerWindow
      BY <1>0, <2>2, <3>2 DEF RateCheck
    <3>4. Append(hits, 0) \in Seq(0..Expired) /\ Len(Append(hits, 0)) = Len(hits) + 1
      BY <3>1, <3>2, AppendProperties
    <3> HIDE DEF hits
    <3>5. PICK new \in Seq(0..Expired) : counted' = [counted EXCEPT ![c] = new] /\ Len(new) <= PerWindow
      <4>1. CASE counted' = [counted EXCEPT ![c] = hits]
        BY <3>2, <4>1
      <4>2. CASE counted' = [counted EXCEPT ![c] = Append(hits, 0)] /\ Len(hits) < PerWindow
        <5>1. Len(Append(hits, 0)) <= PerWindow
          BY <1>0, <3>2, <3>4, <4>2
        <5> QED
          BY <3>4, <4>2, <5>1
      <4> QED
        BY <3>3, <4>1, <4>2
    <3> QED
      BY <3>1, <3>5
  <2> QED
    <3>1. ~RateCheck(c) => counted' = counted
      BY DEF RoleCheck, Ask
    <3> QED
      BY <2>1, <2>2, <3>1
<1>4. JobTypes'
  BY <1>0, <1>1, <1>2, <1>3 DEF JobTypes, Job
<1>5. LockSense'
  BY <1>0, <1>1, <1>2 DEF LockSense, Holds, Job
<1>6. ListSense' /\ DoneHasResult'
  BY <1>0, <1>1 DEF ListSense, DoneHasResult, Job
<1> QED
  BY <1>4, <1>5, <1>6 DEF JobsInv

LEMMA LockTaken ==
  ASSUME JobsInv, NEW c \in Client, TakeLock(c)
  PROVE  JobsInv'
<1>0. /\ JobTypes /\ LockSense /\ ListSense /\ DoneHasResult
      /\ client \in [Client -> [at : Places, job : 0..MaxStarted]]
  BY DEF JobsInv, JobTypes
<1>1. /\ UNCHANGED <<operators, counted, jobs, listed, threads, noThread>>
      /\ busy' = TRUE /\ Len(jobs) < MaxStarted
  BY DEF TakeLock
<1>2. /\ client' \in [Client -> [at : Places, job : 0..MaxStarted]]
      /\ \A d \in Client \ {c} : client'[d] = client[d]
      /\ client[c].at = "allowed"
      /\ client'[c].at = IF busy THEN "409" ELSE "locked"
  <2>1. client[c] \in [at : Places, job : 0..MaxStarted]
    BY <1>0
  <2> QED
    BY <1>0, <2>1 DEF TakeLock, Reaches, Places
<1>3. JobTypes'
  BY <1>0, <1>1, <1>2 DEF JobTypes, Job
<1>4. LockSense'
  <2>1. CASE busy
    BY <1>0, <1>1, <1>2, <2>1 DEF LockSense, Holds, Job
  <2>2. CASE ~busy
    <3>1. threads = {} /\ noThread = {} /\ \A d \in Client : ~Holds(d)
      BY <1>0, <2>2 DEF LockSense
    <3>2. Holds(c)' /\ \A d \in Client \ {c} : ~Holds(d)' /\ client'[c].at = "locked"
      BY <1>2, <2>2, <3>1 DEF Holds
    <3>3. \A d \in Client \ {c} : client'[d].at \notin {"locked", "listed"}
      BY <1>2, <3>1 DEF Holds
    <3> QED
      BY <1>1, <1>2, <2>2, <3>1, <3>2, <3>3 DEF LockSense
  <2> QED
    BY <2>1, <2>2
<1>5. ListSense' /\ DoneHasResult'
  BY <1>0, <1>1 DEF ListSense, DoneHasResult, Job
<1> QED
  BY <1>3, <1>4, <1>5 DEF JobsInv

\* The new job is the newest that can be polled; the oldest is let go of when there are too many.
LEMMA JobIsListed ==
  ASSUME JobsInv, NEW c \in Client, ListJob(c)
  PROVE  JobsInv'
<1> DEFINE n == Len(jobs)
           record == [status |-> "running", result |-> FALSE, error |-> FALSE, finished |-> FALSE]
           more == Append(listed, n + 1)
<1>0. /\ JobTypes /\ LockSense /\ ListSense /\ DoneHasResult
      /\ client \in [Client -> [at : Places, job : 0..MaxStarted]]
      /\ MaxStarted \in Nat /\ MaxJobs \in Nat \ {0}
  BY BenchmarkAssumption DEF JobsInv, JobTypes
<1>1. /\ UNCHANGED <<operators, counted, busy, threads, noThread>>
      /\ client[c].at = "locked" /\ jobs' = Append(jobs, record) /\ listed' = KeptJobs(more)
      /\ client' = [client EXCEPT ![c] = [at |-> "listed", job |-> n + 1]]
  BY DEF ListJob
<1>2. /\ n \in Nat /\ n < MaxStarted /\ jobs \in Seq(JobRecord) /\ Job = 1..n
      /\ threads = {} /\ noThread = {}
  BY <1>0, <1>1 DEF JobTypes, LockSense, Holds, Job
<1>3. record \in JobRecord
  BY DEF JobRecord
<1>4. /\ jobs' \in Seq(JobRecord) /\ Len(jobs') = n + 1 /\ Job' = 1..(n + 1)
      /\ \A j \in 1..n : jobs'[j] = jobs[j]
      /\ jobs'[n + 1] = record
  <2> HIDE DEF record
  <2> QED
    BY <1>1, <1>2, <1>3, AppendProperties DEF Job
<1>5. /\ client' \in [Client -> [at : Places, job : 0..MaxStarted]]
      /\ \A d \in Client \ {c} : client'[d] = client[d] /\ ~Holds(d)
      /\ client'[c].at = "listed" /\ client'[c].job = n + 1
  <2>1. [at |-> "listed", job |-> n + 1] \in [at : Places, job : 0..MaxStarted]
    BY <1>0, <1>2 DEF Places
  <2>2. \A d \in Client \ {c} : ~Holds(d)
    BY <1>0, <1>1 DEF LockSense, Holds
  <2> QED
    BY <1>0, <1>1, <2>1, <2>2
<1>6. JobTypes'
  BY <1>0, <1>1, <1>2, <1>4, <1>5 DEF JobTypes
<1>7. LockSense'
  <2>1. \A d \in Client : Holds(d)' <=> d = c
    BY <1>5 DEF Holds
  <2>2. busy
    BY <1>0, <1>1 DEF LockSense, Holds
  <2>3. \A d \in Client : client'[d].at # "locked" /\ (client'[d].at = "listed" => client'[d].job \in Job')
    BY <1>2, <1>4, <1>5 DEF Holds
  <2> QED
    BY <1>1, <1>2, <2>1, <2>2, <2>3 DEF LockSense
<1>8. DoneHasResult'
  <2>1. \A j \in Job' : j \in Job \/ j = n + 1
    BY <1>2, <1>4
  <2> QED
    BY <1>0, <1>2, <1>4, <2>1 DEF DoneHasResult
<1>9. ListSense'
  <2> DEFINE k == Len(listed)
  <2>1. /\ listed \in Seq(Nat) /\ k \in Nat /\ (n < MaxJobs => k = n) /\ (n >= MaxJobs => k = MaxJobs)
        /\ \A i \in 1..k : listed[i] = n - k + i
    <3>1. listed \in Seq(Nat) /\ Len(listed) \in Nat
      BY <1>0, LenProperties DEF ListSense
    <3>2. k = IF n < MaxJobs THEN n ELSE MaxJobs
      BY <1>0 DEF ListSense
    <3>3. \A i \in 1..k : listed[i] = n - k + i
      BY <1>0 DEF ListSense
    <3> HIDE DEF n, k
    <3>4. (n < MaxJobs => k = n) /\ (n >= MaxJobs => k = MaxJobs)
      BY <1>0, <1>2, <3>2
    <3> QED
      BY <3>1, <3>3, <3>4 DEF k
  <2>2. /\ more \in Seq(Nat) /\ Len(more) = k + 1
        /\ \A i \in 1..(k + 1) : more[i] = n - k + i
    <3>1. /\ more \in Seq(Nat) /\ Len(more) = k + 1
          /\ \A i \in 1..k : more[i] = listed[i]
          /\ more[k + 1] = n + 1
      BY <1>2, <2>1, AppendProperties
    <3> HIDE DEF more, k, n
    <3>2. ASSUME NEW i \in 1..(k + 1)
          PROVE  more[i] = n - k + i
      <4>1. CASE i = k + 1
        BY <1>2, <2>1, <3>1, <4>1
      <4>2. CASE i # k + 1
        <5>1. i \in 1..k
          BY <2>1, <4>2
        <5> QED
          BY <2>1, <3>1, <5>1
      <4> QED
        BY <4>1, <4>2
    <3> QED
      BY <3>1, <3>2
  <2> HIDE DEF more, k
  <2>3. CASE k + 1 > MaxJobs
    <3>1. listed' = Tail(more)
      BY <1>1, <2>2, <2>3 DEF KeptJobs
    <3>2. /\ Tail(more) \in Seq(Nat) /\ Len(Tail(more)) = k
          /\ \A i \in 1..k : Tail(more)[i] = more[i + 1]
      BY <2>1, <2>2, HeadTailProperties
    <3>3. n >= MaxJobs /\ k = MaxJobs
      BY <1>0, <1>2, <2>1, <2>3
    <3>4. \A i \in 1..k : Tail(more)[i] = n + 1 - k + i
      <4> SUFFICES ASSUME NEW i \in 1..k PROVE Tail(more)[i] = n + 1 - k + i
        OBVIOUS
      <4>1. i + 1 \in 1..(k + 1) /\ Tail(more)[i] = more[i + 1]
        BY <2>1, <3>2
      <4>2. more[i + 1] = n - k + (i + 1)
        BY <2>2, <4>1
      <4>3. n \in Nat /\ k \in Nat /\ i \in Nat
        BY <1>2, <2>1
      <4> HIDE DEF n
      <4>4. n - k + (i + 1) = n + 1 - k + i
        BY <4>3
      <4> QED
        BY <4>1, <4>2, <4>4
    <3> HIDE DEF n
    <3>5. Len(jobs') = n + 1 /\ ~(n + 1 < MaxJobs)
      BY <1>0, <1>2, <1>4, <3>3
    <3>6. Len(listed') = k /\ k = IF Len(jobs') < MaxJobs THEN Len(jobs') ELSE MaxJobs
      BY <3>1, <3>2, <3>3, <3>5
    <3>7. \A i \in 1..Len(listed') : listed'[i] = Len(jobs') - Len(listed') + i
      <4>1. Len(listed') = k /\ Len(jobs') = n + 1
        BY <3>5, <3>6
      <4> SUFFICES ASSUME NEW i \in 1..Len(listed')
                   PROVE  listed'[i] = Len(jobs') - Len(listed') + i
        OBVIOUS
      <4>2. i \in 1..k
        BY <4>1
      <4>3. listed'[i] = n + 1 - k + i
        BY <3>1, <3>4, <4>2
      <4>4. Len(jobs') - Len(listed') + i = n + 1 - k + i
        <5>1. Len(jobs') - Len(listed') + i = (n + 1) - k + i
          BY ONLY <4>1
        <5>2. n \in Nat /\ k \in Nat
          BY <1>2, <2>1
        <5> QED
          BY ONLY <5>1, <5>2
      <4> QED
        BY ONLY <4>3, <4>4
    <3> QED
      BY <3>1, <3>2, <3>6, <3>7 DEF ListSense
  <2>4. CASE ~(k + 1 > MaxJobs)
    <3>1. listed' = more
      BY <1>1, <2>2, <2>4 DEF KeptJobs
    <3>2. n < MaxJobs /\ k = n
      BY <1>0, <1>2, <2>1, <2>4
    <3> HIDE DEF n
    <3>3. Len(more) = IF n + 1 < MaxJobs THEN n + 1 ELSE MaxJobs
      BY <1>0, <1>2, <2>2, <2>4, <3>2
    <3>4. \A i \in 1..(k + 1) : more[i] = (n + 1) - (k + 1) + i
      <4> SUFFICES ASSUME NEW i \in 1..(k + 1) PROVE more[i] = (n + 1) - (k + 1) + i
        OBVIOUS
      <4>1. more[i] = n - k + i
        BY <2>2
      <4> QED
        BY <1>2, <2>1, <4>1
    <3>5. \A i \in 1..Len(listed') : listed'[i] = Len(jobs') - Len(listed') + i
      <4>1. Len(listed') = k + 1 /\ Len(jobs') = n + 1
        BY <1>4, <2>2, <3>1 DEF n
      <4>2. \A i \in 1..(k + 1) : listed'[i] = (n + 1) - (k + 1) + i
        BY <3>1, <3>4
      <4> SUFFICES ASSUME NEW i \in 1..Len(listed')
                   PROVE  listed'[i] = Len(jobs') - Len(listed') + i
        OBVIOUS
      <4>3. i \in 1..(k + 1)
        BY <4>1
      <4>4. listed'[i] = (n + 1) - (k + 1) + i
        BY <4>2, <4>3
      <4>5. Len(jobs') - Len(listed') + i = (n + 1) - (k + 1) + i
        BY ONLY <4>1
      <4> QED
        BY ONLY <4>4, <4>5
    <3>6. Len(listed') = IF Len(jobs') < MaxJobs THEN Len(jobs') ELSE MaxJobs
      BY <1>4, <3>1, <3>3 DEF n
    <3> QED
      BY <2>2, <3>1, <3>5, <3>6 DEF ListSense
  <2> QED
    BY <2>3, <2>4
<1> QED
  BY <1>6, <1>7, <1>8, <1>9 DEF JobsInv

LEMMA ThreadStarted ==
  ASSUME JobsInv, NEW c \in Client, StartThread(c)
  PROVE  JobsInv'
<1> DEFINE j == client[c].job
<1>0. /\ JobTypes /\ LockSense /\ ListSense /\ DoneHasResult
      /\ client \in [Client -> [at : Places, job : 0..MaxStarted]] /\ MaxNoThread \in Nat
  BY BenchmarkAssumption DEF JobsInv, JobTypes
<1>1. /\ UNCHANGED <<operators, counted, busy, jobs, listed>> /\ client[c].at = "listed"
      /\ \/ Reaches(c, "started") /\ threads' = threads \cup {j} /\ noThread' = noThread
         \/ /\ Cardinality(noThread) < MaxNoThread
            /\ Reaches(c, "500") /\ noThread' = noThread \cup {j} /\ threads' = threads
  BY DEF StartThread
<1>2. /\ j \in Job /\ threads = {} /\ noThread = {} /\ busy
      /\ \A d \in Client \ {c} : ~Holds(d)
  BY <1>0, <1>1 DEF LockSense, Holds
<1>3. /\ client' \in [Client -> [at : Places, job : 0..MaxStarted]]
      /\ \A d \in Client \ {c} : client'[d] = client[d]
      /\ client'[c].at \in {"started", "500"}
  <2>1. client[c] \in [at : Places, job : 0..MaxStarted]
    BY <1>0
  <2> QED
    BY <1>0, <1>1, <2>1 DEF Reaches, Places
<1>4. \/ threads' = {j} /\ noThread' = {}
      \/ threads' = {} /\ noThread' = {j} /\ 0 < MaxNoThread
  <2>1. Cardinality(noThread) = 0
    BY <1>2, FS_EmptySet
  <2> QED
    BY <1>1, <1>2, <2>1
<1> HIDE DEF j
<1>5. JobTypes'
  <2>1. /\ IsFiniteSet({}) /\ Cardinality({}) = 0
        /\ IsFiniteSet({j}) /\ Cardinality({j}) = 1
    BY FS_EmptySet, FS_Singleton
  <2>2. IsFiniteSet(noThread') /\ Cardinality(noThread') <= MaxNoThread
    BY <1>0, <1>4, <2>1
  <2>3. threads' \subseteq Job' /\ noThread' \subseteq Job'
    BY <1>1, <1>2, <1>4 DEF Job
  <2> QED
    BY <1>0, <1>1, <1>3, <2>2, <2>3 DEF JobTypes
<1>6. LockSense'
  <2>1. \A d \in Client : ~Holds(d)'
    BY <1>2, <1>3 DEF Holds
  <2>2. \A d \in Client : client'[d].at \notin {"locked", "listed"}
    BY <2>1 DEF Holds
  <2>3. busy'
    BY <1>1, <1>2
  <2> QED
    BY <1>4, <2>1, <2>2, <2>3 DEF LockSense
<1>7. ListSense' /\ DoneHasResult'
  BY <1>0, <1>1 DEF ListSense, DoneHasResult, Job
<1> QED
  BY <1>5, <1>6, <1>7 DEF JobsInv

LEMMA WorkKeeps ==
  ASSUME JobsInv, NEW j \in Job, Compute(j) \/ SetStatus(j) \/ Finish(j) \/ Release(j)
  PROVE  JobsInv'
<1>0. /\ JobTypes /\ LockSense /\ ListSense /\ DoneHasResult
      /\ jobs \in Seq(JobRecord) /\ jobs[j] \in JobRecord
  <2>1. JobTypes /\ jobs \in Seq(JobRecord)
    BY DEF JobsInv, JobTypes
  <2> QED
    BY <2>1 DEF JobsInv, Job
<1>1. CASE Compute(j) \/ SetStatus(j) \/ Finish(j)
  <2>1. UNCHANGED <<operators, counted, client, busy, listed, threads, noThread>>
    BY <1>1 DEF Compute, SetStatus, Finish
  <2>2. \E record \in JobRecord :
          /\ jobs' = [jobs EXCEPT ![j] = record]
          /\ record.status = "done" => record.result
          /\ record.status = "failed" => record.error
    <3>1. CASE Compute(j)
      <4>1. PICK ok \in BOOLEAN : jobs' = [jobs EXCEPT ![j].result = ok, ![j].error = ~ok]
        BY <3>1 DEF Compute
      <4> DEFINE record == [jobs[j] EXCEPT !.result = ok, !.error = ~ok]
      <4>2. record \in JobRecord /\ record.status = "running"
        BY <1>0, <3>1 DEF JobRecord, Compute
      <4>3. jobs' = [jobs EXCEPT ![j] = record]
        BY <1>0, <4>1 DEF JobRecord
      <4> HIDE DEF record
      <4> QED
        BY <4>2, <4>3
    <3>2. CASE SetStatus(j)
      <4> DEFINE record == [jobs[j] EXCEPT !.status = IF jobs[j].result THEN "done" ELSE "failed"]
      <4>1. jobs' = [jobs EXCEPT ![j] = record] /\ (jobs[j].result \/ jobs[j].error)
        BY <3>2 DEF SetStatus
      <4>2. /\ record \in JobRecord /\ (record.status = "done" => record.result)
            /\ (record.status = "failed" => record.error)
        BY <1>0, <4>1 DEF JobRecord
      <4> HIDE DEF record
      <4> QED
        BY <4>1, <4>2
    <3>3. CASE Finish(j)
      <4> DEFINE record == [jobs[j] EXCEPT !.finished = TRUE]
      <4>1. jobs' = [jobs EXCEPT ![j] = record]
        BY <3>3 DEF Finish
      <4>2. /\ record \in JobRecord /\ (record.status = "done" => record.result)
            /\ (record.status = "failed" => record.error)
        BY <1>0 DEF JobRecord, DoneHasResult
      <4> HIDE DEF record
      <4> QED
        BY <4>1, <4>2
    <3> QED
      BY <1>1, <3>1, <3>2, <3>3
  <2>3. PICK record \in JobRecord :
          /\ jobs' = [jobs EXCEPT ![j] = record]
          /\ record.status = "done" => record.result
          /\ record.status = "failed" => record.error
    BY <2>2
  <2>4. /\ jobs' \in Seq(JobRecord) /\ Len(jobs') = Len(jobs) /\ Job' = Job
        /\ \A i \in Job : jobs'[i] = IF i = j THEN record ELSE jobs[i]
    BY <1>0, <2>3 DEF Job
  <2>5. JobTypes'
    BY <1>0, <2>1, <2>4 DEF JobTypes
  <2>6. LockSense'
    BY <1>0, <2>1, <2>4 DEF LockSense, Holds
  <2>7. ListSense'
    BY <1>0, <2>1, <2>4 DEF ListSense
  <2>8. DoneHasResult'
    BY <1>0, <2>3, <2>4 DEF DoneHasResult
  <2> QED
    BY <2>5, <2>6, <2>7, <2>8 DEF JobsInv
<1>2. CASE Release(j)
  <2>1. /\ UNCHANGED <<operators, counted, client, jobs, listed, noThread>> /\ j \in threads
        /\ busy' = FALSE /\ threads' = threads \ {j}
    BY <1>2 DEF Release
  <2>2. threads' = {} /\ noThread = {} /\ \A c \in Client : ~Holds(c)
    BY <1>0, <2>1 DEF LockSense
  <2>3. JobTypes'
    BY <1>0, <2>1 DEF JobTypes, Job
  <2>4. LockSense'
    BY <1>0, <2>1, <2>2 DEF LockSense, Holds, Job
  <2>5. ListSense' /\ DoneHasResult'
    BY <1>0, <2>1 DEF ListSense, DoneHasResult, Job
  <2> QED
    BY <2>3, <2>4, <2>5 DEF JobsInv
<1> QED
  BY <1>1, <1>2

LEMMA OlderKeeps ==
  ASSUME JobsInv, Older
  PROVE  JobsInv'
<1>0. /\ JobTypes /\ LockSense /\ ListSense /\ DoneHasResult /\ Expired \in Nat
      /\ counted \in [Client -> Seq(0..Expired)] /\ \A c \in Client : Len(counted[c]) <= PerWindow
  BY BenchmarkAssumption DEF JobsInv, JobTypes, Expired
<1>1. UNCHANGED <<operators, client, busy, jobs, listed, threads, noThread>>
  BY DEF Older
<1> DEFINE Aged(hits) == [i \in DOMAIN hits |-> IF hits[i] = Expired THEN Expired ELSE hits[i] + 1]
<1>2. \A hits \in Seq(0..Expired) : Aged(hits) \in Seq(0..Expired) /\ Len(Aged(hits)) = Len(hits)
  <2> SUFFICES ASSUME NEW hits \in Seq(0..Expired)
               PROVE  Aged(hits) \in Seq(0..Expired) /\ Len(Aged(hits)) = Len(hits)
    OBVIOUS
  <2>1. DOMAIN hits = 1..Len(hits) /\ Len(hits) \in Nat
    OBVIOUS
  <2>2. \A i \in 1..Len(hits) : (IF hits[i] = Expired THEN Expired ELSE hits[i] + 1) \in 0..Expired
    BY <1>0
  <2>3. Aged(hits) = [i \in 1..Len(hits) |-> IF hits[i] = Expired THEN Expired ELSE hits[i] + 1]
    BY <2>1
  <2> QED
    BY <2>1, <2>2, <2>3
<1>3. counted' = [c \in Client |-> Aged(counted[c])]
  BY DEF Older
<1> HIDE DEF Aged
<1>4. /\ counted' \in [Client -> Seq(0..Expired)] /\ \A c \in Client : Len(counted'[c]) <= PerWindow
  BY <1>0, <1>2, <1>3
<1>5. JobTypes'
  BY <1>0, <1>1, <1>4 DEF JobTypes, Job
<1>6. LockSense' /\ ListSense' /\ DoneHasResult'
  BY <1>0, <1>1 DEF LockSense, ListSense, DoneHasResult, Holds, Job
<1> QED
  BY <1>5, <1>6 DEF JobsInv

\* The inductive invariant of the jobs.
THEOREM JobsAlways == BenchmarkSpec => []JobsInv
<1>1. JobsInv /\ [BenchmarkNext]_benchmarkVars => JobsInv'
  <2> SUFFICES ASSUME JobsInv, [BenchmarkNext]_benchmarkVars PROVE JobsInv'
    OBVIOUS
  <2>1. CASE UNCHANGED benchmarkVars
    BY <2>1 DEF benchmarkVars, JobsInv, JobTypes, LockSense, ListSense, DoneHasResult, Holds, Job
  <2> QED
    BY <2>1, ClientMoves, LockTaken, JobIsListed, ThreadStarted, WorkKeeps, OlderKeeps
       DEF BenchmarkNext, ProceedClient, Work
<1> QED
  BY <1>1, JobsStart, PTL DEF BenchmarkSpec

\* One job is worked on at a time, the lock it holds has an owner, the newest jobs can be
\* polled, and one that is done has its result.
THEOREM JobsAlwaysKept == BenchmarkSpec => []JobsAreKept
<1>1. JobsInv => JobsAreKept
  <2> SUFFICES ASSUME JobsInv PROVE JobsAreKept
    OBVIOUS
  <2>1. /\ JobTypes /\ LockSense /\ ListSense /\ DoneHasResult
        /\ MaxJobs \in Nat \ {0} /\ jobs \in Seq(JobRecord)
    BY BenchmarkAssumption DEF JobsInv, JobTypes
  <2>2. /\ listed \in Seq(Nat) /\ Len(listed) \in Nat /\ DOMAIN listed = 1..Len(listed)
        /\ Len(jobs) \in Nat /\ Job = 1..Len(jobs)
        /\ Len(listed) = IF Len(jobs) < MaxJobs THEN Len(jobs) ELSE MaxJobs
        /\ \A i \in 1..Len(listed) : listed[i] = Len(jobs) - Len(listed) + i
    <3>1. listed \in Seq(Nat) /\ Len(listed) \in Nat /\ DOMAIN listed = 1..Len(listed)
      BY <2>1, LenProperties DEF ListSense
    <3>2. Len(jobs) \in Nat /\ Job = 1..Len(jobs)
      BY <2>1, LenProperties DEF Job
    <3> QED
      BY <2>1, <3>1, <3>2 DEF ListSense
  <2>3. IsInjective(listed) /\ ToSet(listed) \subseteq Job /\ Len(listed) <= MaxJobs
    <3>1. Len(listed) <= MaxJobs /\ Len(listed) <= Len(jobs)
      BY <2>1, <2>2
    <3>2. \A i \in 1..Len(listed) : listed[i] \in 1..Len(jobs)
      BY <2>2, <3>1
    <3>3. \A i, j \in 1..Len(listed) : listed[i] = listed[j] => i = j
      BY <2>2
    <3>4. IsInjective(listed)
      BY <2>2, <3>3 DEF IsInjective
    <3>5. ToSet(listed) \subseteq Job
      BY <2>2, <3>2 DEF ToSet
    <3> QED
      BY <3>1, <3>4, <3>5
  <2>4. AnsweredCanBePolled
    <3> SUFFICES ASSUME NEW j \in Job, j + MaxJobs > Len(jobs)
                 PROVE  j \in ToSet(listed)
      BY DEF AnsweredCanBePolled
    <3>1. j - Len(jobs) + Len(listed) \in 1..Len(listed)
      BY <2>1, <2>2
    <3>2. listed[j - Len(jobs) + Len(listed)] = j
      BY <2>2, <3>1
    <3> QED
      BY <2>2, <3>1, <3>2 DEF ToSet
  <2>5. OneWorksAtATime
    <3>1. CASE threads = {}
      <4>1. Cardinality({}) = 0
        BY FS_EmptySet
      <4> QED
        BY <3>1, <4>1 DEF OneWorksAtATime
    <3>2. CASE threads # {}
      <4>1. PICK j \in threads : threads = {j}
        BY <2>1, <3>2 DEF LockSense
      <4>2. Cardinality({j}) = 1
        BY FS_Singleton
      <4> QED
        BY <4>1, <4>2 DEF OneWorksAtATime
    <3> QED
      BY <3>1, <3>2
  <2>6. LockHasAnOwner
    BY <2>1 DEF LockHasAnOwner, LockSense, Holds
  <2>7. BenchmarkTypeOK
    BY <2>1, <2>3 DEF BenchmarkTypeOK, JobTypes, JobRecord, Places
  <2> QED
    BY <2>1, <2>4, <2>5, <2>6, <2>7 DEF JobsAreKept
<1> QED
  BY <1>1, JobsAlways, PTL

-----------------------------------------------------------------------------
\* What feedback counts for.
Lane == Arm \cup {"holdout"}
Tally == [mode : Mode, trials : [Arm -> Nat], successes : [Arm -> Nat],
          window : [Side -> Seq(Event)], rewards : Nat]

\* The types, with the counters still unbounded.
Shape ==
  /\ memory \in Tally /\ saved \in Tally
  /\ impressions \subseteq [feed : Feed, arm : Lane, source : Mode, credited : BOOLEAN]
  /\ \A i, j \in impressions : i.feed = j.feed => i = j
  /\ feedback \subseteq [feed : Feed, item : Item, clicked : BOOLEAN]
  /\ \A b, d \in feedback : b.feed = d.feed /\ b.item = d.item => b = d
  /\ feed \in [Feed -> [pc : {"new", "decided", "recorded", "over"},
                        arm : Lane, side : Side, clicked : BOOLEAN]]
  /\ working \in [pc : {"free", "count", "reward", "clicked", "credit", "success", "window",
                        "live", "canary", "counters", "mode"}, feed : Feed]
  /\ switches \in 0..MaxUpsets /\ crashes \in 0..MaxUpsets
  /\ late \in BOOLEAN

Shown(f) == \E i \in impressions : i.feed = f

\* An impression is of a feed that is over, feedback is about one that is shown, and the
\* holder of the lock works on a feed that is where its step needs it.
WorkSense ==
  /\ \A i \in impressions : feed[i.feed].pc = "over"
  /\ \A b \in feedback : Shown(b.feed)
  /\ working.pc = "count" => feed[working.feed].pc = "recorded"
  /\ working.pc \in {"reward", "clicked", "credit", "success", "window"} => Shown(working.feed)
  /\ working.pc = "credit" => Credits(ImpressionOf(working.feed))

LEMMA BoundsAreNumbers ==
  /\ MaxFeeds \in Nat /\ 1 \in Feed /\ WindowSize \in Nat /\ WindowSize > 0 /\ MaxUpsets \in Nat
  /\ \A a \in Arm : a # "holdout"
BY FeedbackAssumption DEF Feed

LEMMA TheImpression ==
  ASSUME Shape, NEW f, Shown(f)
  PROVE  /\ ImpressionOf(f) \in impressions /\ ImpressionOf(f).feed = f
         /\ \A i \in impressions : i.feed = f => i = ImpressionOf(f)
<1>1. ImpressionOf(f) \in impressions /\ ImpressionOf(f).feed = f
  BY DEF Shown, ImpressionOf
<1> HIDE DEF ImpressionOf
<1> QED
  BY <1>1 DEF Shape

LEMMA FreshIs ==
  ASSUME NEW mode \in Mode, NEW n \in Nat
  PROVE  /\ Fresh(mode, n) \in Tally
         /\ Fresh(mode, n).mode = mode /\ Fresh(mode, n).rewards = n
         /\ \A a \in Arm : Fresh(mode, n).trials[a] = 0 /\ Fresh(mode, n).successes[a] = 0
         /\ \A w \in Side : Fresh(mode, n).window[w] = << >>
BY DEF Fresh, Tally

\* c is the counters o, with the arm's trials and successes raised.
Raised(c, o, arm, t, s) ==
  /\ c \in Tally /\ c.mode = o.mode /\ c.window = o.window /\ c.rewards = o.rewards
  /\ \A a \in Arm :
       /\ c.trials[a] = o.trials[a] + (IF a = arm THEN t ELSE 0)
       /\ c.successes[a] = o.successes[a] + (IF a = arm THEN s ELSE 0)

LEMMA CountedIs ==
  ASSUME NEW o \in Tally, NEW arm \in Lane, NEW t \in Nat, NEW s \in Nat
  PROVE  Raised(Counted(o, arm, t, s), o, arm, t, s)
<1>1. \A a \in Arm : a # "holdout"
  BY BoundsAreNumbers
<1>2. /\ o.trials \in [Arm -> Nat] /\ o.successes \in [Arm -> Nat]
      /\ o.mode \in Mode /\ o.window \in [Side -> Seq(Event)] /\ o.rewards \in Nat
  BY DEF Tally
<1>3. \A a \in Arm : o.trials[a] \in Nat /\ o.successes[a] \in Nat
  BY <1>2
<1>4. CASE arm = "holdout"
  BY <1>1, <1>3, <1>4 DEF Counted, Raised
<1>5. CASE arm # "holdout"
  <2> DEFINE ts == [o.trials EXCEPT ![arm] = @ + t]
             ss == [o.successes EXCEPT ![arm] = @ + s]
  <2>1. arm \in Arm
    BY <1>5 DEF Lane
  <2>2. /\ ts \in [Arm -> Nat] /\ ss \in [Arm -> Nat]
        /\ \A a \in Arm : /\ ts[a] = o.trials[a] + (IF a = arm THEN t ELSE 0)
                          /\ ss[a] = o.successes[a] + (IF a = arm THEN s ELSE 0)
    BY <1>2, <1>3, <2>1
  <2>3. Counted(o, arm, t, s) = [o EXCEPT !.trials = ts, !.successes = ss]
    BY <1>5 DEF Counted, Tally
  <2> HIDE DEF ts, ss
  <2> QED
    BY <2>2, <2>3 DEF Tally, Raised
<1> QED
  BY <1>4, <1>5

-----------------------------------------------------------------------------
\* What each transaction does to the counts, field by field.
LEMMA EventIsRecorded ==
  ASSUME Shape, NEW f \in Feed, RecordEvent(f)
  PROVE  LET side == feed[f].side
             event == [feed |-> f, clicked |-> feed[f].clicked]
         IN /\ memory' \in Tally /\ saved' \in Tally /\ event \in Event
            /\ memory'.mode = memory.mode /\ memory'.rewards = memory.rewards
            /\ \A a \in Arm :
                 /\ memory'.trials[a] = memory.trials[a] + (IF a = feed[f].arm THEN 1 ELSE 0)
                 /\ memory'.successes[a] = memory.successes[a]
                      + (IF a = feed[f].arm /\ feed[f].clicked THEN 1 ELSE 0)
            /\ saved'.mode = saved.mode /\ saved'.rewards = saved.rewards
            /\ saved'.trials = saved.trials /\ saved'.successes = saved.successes
            /\ memory'.window = [memory.window EXCEPT ![side] = Append(@, event)]
            /\ saved'.window = [saved.window EXCEPT ![side] = Append(@, event)]
<1> DEFINE side == feed[f].side
           event == [feed |-> f, clicked |-> feed[f].clicked]
           s == IF feed[f].clicked THEN 1 ELSE 0
           new == Counted(memory, feed[f].arm, 1, s)
<1>1. /\ feed[f].arm \in Lane /\ side \in Side /\ event \in Event /\ s \in Nat
      /\ memory \in Tally /\ saved \in Tally
  BY DEF Shape, Event
<1> HIDE DEF side, event, s
<1>0. Raised(new, memory, feed[f].arm, 1, s)
  BY <1>1, CountedIs
<1>2. /\ new \in Tally /\ new.mode = memory.mode /\ new.window = memory.window
      /\ new.rewards = memory.rewards
      /\ \A a \in Arm : /\ new.trials[a] = memory.trials[a] + (IF a = feed[f].arm THEN 1 ELSE 0)
                        /\ new.successes[a] = memory.successes[a] + (IF a = feed[f].arm THEN s ELSE 0)
  BY <1>0 DEF Raised
<1>3. /\ memory' = [new EXCEPT !.window[side] = Append(@, event)]
      /\ saved' = [saved EXCEPT !.window[side] = Append(@, event)]
  BY DEF RecordEvent, Under, side, event, s
<1>4. \A a \in Arm : memory.successes[a] \in Nat
  BY <1>1 DEF Tally
<1>5. \A a \in Arm : new.successes[a] = memory.successes[a]
                       + (IF a = feed[f].arm /\ feed[f].clicked THEN 1 ELSE 0)
  BY <1>2, <1>4 DEF s
<1> HIDE DEF new
<1>6. /\ \A w \in Side : memory.window[w] \in Seq(Event) /\ saved.window[w] \in Seq(Event)
      /\ memory.window \in [Side -> Seq(Event)] /\ saved.window \in [Side -> Seq(Event)]
  BY <1>1 DEF Tally
<1>7. Append(memory.window[side], event) \in Seq(Event) /\ Append(saved.window[side], event) \in Seq(Event)
  BY <1>1, <1>6, AppendProperties
<1>8. /\ memory' = [new EXCEPT !.window = [memory.window EXCEPT ![side] = Append(@, event)]]
      /\ saved' = [saved EXCEPT !.window = [saved.window EXCEPT ![side] = Append(@, event)]]
  BY <1>1, <1>2, <1>3
<1>9. memory' \in Tally /\ saved' \in Tally
  BY <1>1, <1>2, <1>6, <1>7, <1>8 DEF Tally
<1>10. /\ memory'.mode = memory.mode /\ memory'.rewards = memory.rewards
       /\ memory'.trials = new.trials /\ memory'.successes = new.successes
       /\ saved'.mode = saved.mode /\ saved'.rewards = saved.rewards
       /\ saved'.trials = saved.trials /\ saved'.successes = saved.successes
       /\ memory'.window = [memory.window EXCEPT ![side] = Append(@, event)]
       /\ saved'.window = [saved.window EXCEPT ![side] = Append(@, event)]
  BY <1>1, <1>2, <1>8 DEF Tally
<1> QED
  BY <1>1, <1>2, <1>5, <1>9, <1>10 DEF event, side

LEMMA CountersArePut ==
  ASSUME Shape, NEW next, PutCounters(next)
  PROVE  /\ memory' = memory /\ saved' \in Tally
         /\ saved'.mode = saved.mode /\ saved'.rewards = saved.rewards
         /\ saved'.window = saved.window
         /\ saved'.trials = memory.trials /\ saved'.successes = memory.successes
BY DEF Shape, PutCounters, Under, Tally

LEMMA BanditIsRewarded ==
  ASSUME Shape, Reward
  PROVE  /\ memory' \in Tally /\ saved' \in Tally
         /\ memory'.mode = memory.mode /\ memory'.window = memory.window
         /\ memory'.trials = memory.trials /\ memory'.successes = memory.successes
         /\ memory'.rewards = memory.rewards + 1
         /\ saved'.mode = saved.mode /\ saved'.window = saved.window
         /\ saved'.trials = saved.trials /\ saved'.successes = saved.successes
         /\ saved'.rewards = memory.rewards + 1
<1>1. memory \in Tally /\ saved \in Tally /\ memory.rewards + 1 \in Nat
  BY DEF Shape, Tally
<1>2. /\ memory' = [memory EXCEPT !.rewards = memory.rewards + 1]
      /\ saved' = [saved EXCEPT !.rewards = memory'.rewards]
  BY DEF Reward, Under
<1>3. memory' \in Tally /\ memory'.rewards = memory.rewards + 1
  BY <1>1, <1>2 DEF Tally
<1>4. saved' \in Tally /\ saved'.rewards = memory.rewards + 1
  BY <1>1, <1>2, <1>3 DEF Tally
<1> QED
  BY <1>1, <1>2, <1>3, <1>4 DEF Tally

LEMMA SuccessIsCounted ==
  ASSUME Shape, Shown(working.feed), CountSuccess
  PROVE  LET arm == ImpressionOf(working.feed).arm IN
         /\ memory' \in Tally /\ saved' \in Tally
         /\ memory'.mode = memory.mode /\ memory'.window = memory.window
         /\ memory'.rewards = memory.rewards
         /\ memory'.trials = memory.trials
         /\ \A a \in Arm :
              memory'.successes[a] = memory.successes[a] + (IF a = arm THEN 1 ELSE 0)
         /\ saved'.mode = saved.mode /\ saved'.window = saved.window
         /\ saved'.rewards = saved.rewards
         /\ saved'.trials = memory'.trials /\ saved'.successes = memory'.successes
<1> DEFINE arm == ImpressionOf(working.feed).arm
           new == Counted(memory, arm, 0, 1)
<1>1. arm \in Lane /\ memory \in Tally /\ saved \in Tally
  BY TheImpression DEF Shape
<1>0. Raised(new, memory, arm, 0, 1)
  BY <1>1, CountedIs
<1>2. /\ new \in Tally /\ new.mode = memory.mode /\ new.window = memory.window
      /\ new.rewards = memory.rewards
      /\ \A a \in Arm : /\ new.trials[a] = memory.trials[a] + (IF a = arm THEN 0 ELSE 0)
                        /\ new.successes[a] = memory.successes[a] + (IF a = arm THEN 1 ELSE 0)
  BY <1>0 DEF Raised
<1>3. /\ memory' = new
      /\ saved' = [saved EXCEPT !.trials = new.trials, !.successes = new.successes]
  BY DEF CountSuccess, Under
<1>4. new.trials = memory.trials
  BY <1>1, <1>2 DEF Tally
<1> HIDE DEF new, arm
<1>5. saved' \in Tally /\ saved'.mode = saved.mode /\ saved'.window = saved.window
      /\ saved'.rewards = saved.rewards
      /\ saved'.trials = new.trials /\ saved'.successes = new.successes
  BY <1>1, <1>2, <1>3 DEF Tally
<1> QED
  BY <1>2, <1>3, <1>4, <1>5 DEF arm

LEMMA ClicksKeepWindows ==
  ASSUME NEW window \in Seq(Event), NEW f \in Feed
  PROVE  /\ ClickKept(window, f) \in Seq(Event) /\ Clicked(window, f) \in Seq(Event)
         /\ Len(ClickKept(window, f)) = Len(window) /\ Len(Clicked(window, f)) = Len(window)
         /\ \A k \in 1..Len(window) :
              /\ Clicked(window, f)[k] = IF window[k].feed = f
                                         THEN [window[k] EXCEPT !.clicked = TRUE] ELSE window[k]
              /\ k > Len(window) - WindowSize =>
                   ClickKept(window, f)[k] = IF window[k].feed = f
                                         THEN [window[k] EXCEPT !.clicked = TRUE] ELSE window[k]
<1>1. DOMAIN window = 1..Len(window) /\ Len(window) \in Nat /\ \A k \in 1..Len(window) : window[k] \in Event
  BY LenProperties, ElementOfSeq
<1>2. \A k \in 1..Len(window) : [window[k] EXCEPT !.clicked = TRUE] \in Event
  BY <1>1 DEF Event
<1>3. /\ Clicked(window, f) \in [1..Len(window) -> Event]
      /\ ClickKept(window, f) \in [1..Len(window) -> Event]
  BY <1>1, <1>2 DEF Clicked, ClickKept
<1>4. \A s \in [1..Len(window) -> Event] : s \in Seq(Event) /\ Len(s) = Len(window)
  BY <1>1
<1>5. /\ Clicked(window, f) \in Seq(Event) /\ ClickKept(window, f) \in Seq(Event)
      /\ Len(ClickKept(window, f)) = Len(window) /\ Len(Clicked(window, f)) = Len(window)
  BY <1>3, <1>4
<1>6. \A k \in 1..Len(window) :
        /\ Clicked(window, f)[k] = IF window[k].feed = f
                                   THEN [window[k] EXCEPT !.clicked = TRUE] ELSE window[k]
        /\ k > Len(window) - WindowSize =>
             ClickKept(window, f)[k] = IF window[k].feed = f
                                       THEN [window[k] EXCEPT !.clicked = TRUE] ELSE window[k]
  BY <1>1 DEF Clicked, ClickKept
<1> QED
  BY <1>5, <1>6

LEMMA ClickIsCredited ==
  ASSUME Shape, CreditWindow
  PROVE  /\ memory' \in Tally /\ saved' \in Tally
         /\ memory'.mode = memory.mode /\ memory'.rewards = memory.rewards
         /\ memory'.trials = memory.trials /\ memory'.successes = memory.successes
         /\ saved'.mode = saved.mode /\ saved'.rewards = saved.rewards
         /\ saved'.trials = saved.trials /\ saved'.successes = saved.successes
         /\ \A w \in Side : /\ memory'.window[w] = ClickKept(memory.window[w], working.feed)
                            /\ saved'.window[w] = Clicked(saved.window[w], working.feed)
<1> DEFINE m == [w \in Side |-> ClickKept(memory.window[w], working.feed)]
           s == [w \in Side |-> Clicked(saved.window[w], working.feed)]
<1>1. /\ working.feed \in Feed /\ memory \in Tally /\ saved \in Tally
      /\ \A w \in Side : memory.window[w] \in Seq(Event) /\ saved.window[w] \in Seq(Event)
  BY DEF Shape, Tally
<1>2. m \in [Side -> Seq(Event)] /\ s \in [Side -> Seq(Event)]
  BY <1>1, ClicksKeepWindows
<1>3. memory' = [memory EXCEPT !.window = m] /\ saved' = [saved EXCEPT !.window = s]
  BY DEF CreditWindow, Under
<1>4. \A w \in Side : /\ m[w] = ClickKept(memory.window[w], working.feed)
                      /\ s[w] = Clicked(saved.window[w], working.feed)
  OBVIOUS
<1> HIDE DEF m, s
<1>5. memory' \in Tally /\ saved' \in Tally /\ memory'.window = m /\ saved'.window = s
  BY <1>1, <1>2, <1>3 DEF Tally
<1>6. /\ memory'.mode = memory.mode /\ memory'.rewards = memory.rewards
      /\ memory'.trials = memory.trials /\ memory'.successes = memory.successes
      /\ saved'.mode = saved.mode /\ saved'.rewards = saved.rewards
      /\ saved'.trials = saved.trials /\ saved'.successes = saved.successes
  BY <1>1, <1>3 DEF Tally
<1> QED
  BY <1>4, <1>5, <1>6

LEMMA MemoryIsFresh ==
  ASSUME Shape, NEW mode \in Mode, SwitchMode(mode)
  PROVE  /\ memory' \in Tally /\ saved' = saved
         /\ memory'.mode = mode /\ memory'.rewards = memory.rewards
         /\ \A a \in Arm : memory'.trials[a] = 0 /\ memory'.successes[a] = 0
         /\ \A w \in Side : memory'.window[w] = << >>
<1>1. memory.rewards \in Nat
  BY DEF Shape, Tally
<1> QED
  BY <1>1, FreshIs DEF SwitchMode, AfterSwitch

LEMMA WindowIsCleared ==
  ASSUME Shape, ClearWindow
  PROVE  /\ memory' = memory /\ saved' \in Tally
         /\ saved'.mode = saved.mode /\ saved'.rewards = saved.rewards
         /\ saved'.trials = saved.trials /\ saved'.successes = saved.successes
         /\ working.pc \in Side
         /\ saved'.window = [saved.window EXCEPT ![working.pc] = << >>]
<1>1. /\ working.pc \in Side /\ memory' = memory /\ saved \in Tally
      /\ saved' = [saved EXCEPT !.window[working.pc] = << >>]
  BY DEF ClearWindow, Under, Shape
<1>2. saved.window \in [Side -> Seq(Event)] /\ << >> \in Seq(Event)
  BY <1>1, EmptySeq DEF Tally
<1>3. saved' = [saved EXCEPT !.window = [saved.window EXCEPT ![working.pc] = << >>]]
  BY <1>1
<1> QED
  BY <1>1, <1>2, <1>3 DEF Tally

LEMMA ModeIsSet ==
  ASSUME Shape, SetMode
  PROVE  /\ memory' = memory /\ saved' \in Tally
         /\ saved'.mode = memory.mode /\ saved'.rewards = saved.rewards
         /\ saved'.trials = saved.trials /\ saved'.successes = saved.successes
         /\ saved'.window = saved.window
BY DEF Shape, SetMode, Under, Tally

\* The deque of a window, of its past.
LEMMA KeptIs ==
  ASSUME NEW window \in Seq(Event)
  PROVE  Kept(window) \in Seq(Event)
<1>1. Len(window) \in Nat /\ \A k \in 1..Len(window) : window[k] \in Event
  BY LenProperties, ElementOfSeq
<1> DEFINE first == IF Len(window) > WindowSize THEN Len(window) - WindowSize + 1 ELSE 1
<1>2. first \in Int /\ first >= 1
  BY <1>1, BoundsAreNumbers
<1>3. Kept(window) = SubSeq(window, first, Len(window))
  BY DEF Kept
<1> HIDE DEF first
<1> QED
  BY <1>1, <1>2, <1>3, SubSeqProperties

LEMMA MemoryIsRestored ==
  ASSUME Shape, CrashAndRestore
  PROVE  /\ memory' = saved' /\ memory' \in Tally
         /\ memory'.mode = saved.mode /\ memory'.rewards = saved.rewards
         /\ memory'.trials = saved.trials /\ memory'.successes = saved.successes
<1> DEFINE m == [w \in Side |-> Kept(saved.window[w])]
<1>1. saved \in Tally /\ \A w \in Side : saved.window[w] \in Seq(Event)
  BY DEF Shape, Tally
<1>2. m \in [Side -> Seq(Event)]
  BY <1>1, KeptIs
<1>3. memory' = [saved EXCEPT !.window = m] /\ saved' = memory'
  BY DEF CrashAndRestore
<1> HIDE DEF m
<1> QED
  BY <1>1, <1>2, <1>3 DEF Tally

-----------------------------------------------------------------------------
LEMMA ShapeStarts == FeedbackInit => Shape /\ WorkSense
<1> SUFFICES ASSUME FeedbackInit PROVE Shape /\ WorkSense
  OBVIOUS
<1>1. memory \in Tally /\ saved \in Tally
  <2>1. PICK mode \in Mode : memory = Fresh(mode, 0)
    BY DEF FeedbackInit
  <2> QED
    BY <2>1, FreshIs DEF FeedbackInit
<1>2. /\ NotServed \in [pc : {"new", "decided", "recorded", "over"}, arm : Lane, side : Side,
                        clicked : BOOLEAN]
      /\ NoWork \in [pc : {"free", "count", "reward", "clicked", "credit", "success", "window",
                           "live", "canary", "counters", "mode"}, feed : Feed]
      /\ NoWork.pc = "free"
  BY BoundsAreNumbers DEF NotServed, NoWork, Lane, Side
<1>3. Shape
  <2>1. feed \in [Feed -> [pc : {"new", "decided", "recorded", "over"}, arm : Lane, side : Side,
                         clicked : BOOLEAN]]
    BY <1>2 DEF FeedbackInit
  <2>2. switches \in 0..MaxUpsets /\ crashes \in 0..MaxUpsets
    BY BoundsAreNumbers DEF FeedbackInit
  <2>4. late \in BOOLEAN
    BY DEF FeedbackInit
  <2>3. impressions = {} /\ feedback = {} /\ working = NoWork
    BY DEF FeedbackInit
  <2> QED
    BY <1>1, <1>2, <2>1, <2>2, <2>3, <2>4 DEF Shape
<1>4. WorkSense
  BY <1>2 DEF FeedbackInit, WorkSense
<1> QED
  BY <1>3, <1>4

\* The steps that leave a feed's place, the impressions and the feedback alone.
Counting ==
  StoreCounters \/ Reward \/ CountSuccess \/ CreditWindow \/ ClearWindow \/ ResetCounters \/ SetMode

LEMMA CountingIs ==
  ASSUME Shape, WorkSense, Counting
  PROVE  /\ UNCHANGED <<impressions, feedback, feed, switches, crashes, late>>
         /\ memory' \in Tally /\ saved' \in Tally /\ memory'.mode = memory.mode
         /\ working' \in [pc : {"free", "credit", "window", "canary", "counters", "mode"}, feed : Feed]
         /\ working'.pc = "credit" =>
              /\ working.pc = "clicked" /\ working'.feed = working.feed
              /\ Credits(ImpressionOf(working.feed))
         /\ working'.pc = "window" => working.pc = "success" /\ working'.feed = working.feed
<1>1. /\ 1 \in Feed /\ working.feed \in Feed /\ memory \in Tally
      /\ working = [pc |-> working.pc, feed |-> working.feed]
  BY BoundsAreNumbers DEF Shape
<1>2. UNCHANGED <<impressions, feedback, feed, switches, crashes, late>>
  BY DEF Counting, StoreCounters, Reward, CountSuccess, CreditWindow, ClearWindow, ResetCounters,
         SetMode, PutCounters, Under
<1>3. /\ working' \in [pc : {"free", "credit", "window", "canary", "counters", "mode"}, feed : Feed]
      /\ working'.pc = "credit" => /\ working.pc = "clicked" /\ working'.feed = working.feed
                                   /\ Credits(ImpressionOf(working.feed))
      /\ working'.pc = "window" => working.pc = "success" /\ working'.feed = working.feed
  BY <1>1 DEF Counting, StoreCounters, Reward, CountSuccess, CreditWindow, ClearWindow, ResetCounters,
              SetMode, PutCounters, Under
<1>4. memory' \in Tally /\ saved' \in Tally /\ memory'.mode = memory.mode
  <2>1. CASE StoreCounters \/ ResetCounters
    BY <1>1, <2>1, CountersArePut DEF StoreCounters, ResetCounters
  <2>2. CASE CountSuccess
    <3>1. Shown(working.feed)
      BY <2>2 DEF CountSuccess, WorkSense
    <3> QED
      BY <2>2, <3>1, SuccessIsCounted
  <2>3. CASE Reward \/ CreditWindow \/ ClearWindow \/ SetMode
    BY <1>1, <2>3, BanditIsRewarded, ClickIsCredited, WindowIsCleared, ModeIsSet
  <2> QED
    BY <2>1, <2>2, <2>3 DEF Counting
<1> QED
  BY <1>2, <1>3, <1>4

LEMMA ShapeStep ==
  ASSUME Shape, WorkSense, [FeedbackNext]_feedbackVars
  PROVE  Shape' /\ WorkSense'
<1>0. 1 \in Feed
  BY BoundsAreNumbers
<1>1. CASE UNCHANGED feedbackVars
  BY <1>1 DEF feedbackVars, Shape, WorkSense, Shown, Credits, ImpressionOf
<1>2. CASE Counting
  <2>1. /\ UNCHANGED <<impressions, feedback, feed, switches, crashes, late>>
        /\ memory' \in Tally /\ saved' \in Tally /\ memory'.mode = memory.mode
        /\ working' \in [pc : {"free", "credit", "window", "canary", "counters", "mode"}, feed : Feed]
        /\ working'.pc = "credit" =>
             /\ working.pc = "clicked" /\ working'.feed = working.feed
             /\ Credits(ImpressionOf(working.feed))
        /\ working'.pc = "window" => working.pc = "success" /\ working'.feed = working.feed
    BY <1>2, CountingIs
  <2>2. Shape'
    BY <2>1 DEF Shape
  <2>3. \A f : /\ Shown(f)' = Shown(f) /\ ImpressionOf(f)' = ImpressionOf(f)
    BY <2>1 DEF Shown, ImpressionOf
  <2>4. working'.pc = "credit" => Credits(ImpressionOf(working.feed))'
    BY <2>1 DEF Credits, ImpressionOf
  <2>5. WorkSense'
    BY <2>1, <2>4 DEF WorkSense, Shown, ImpressionOf, Credits
  <2> QED
    BY <2>2, <2>5
<1>3. ASSUME NEW f \in Feed, Decide(f)
      PROVE  Shape' /\ WorkSense'
  <2>1. PICK arm \in Lane, side \in Side, clicked \in BOOLEAN :
          feed' = [feed EXCEPT ![f] = [pc |-> "decided", arm |-> arm, side |-> side,
                                       clicked |-> clicked]]
    BY <1>3 DEF Decide, Lane
  <2>2. UNCHANGED <<memory, saved, impressions, feedback, working, switches, crashes, late>>
        /\ feed[f].pc = "new"
    BY <1>3 DEF Decide, NextFeed, Begun
  <2>3. Shape'
    BY <2>1, <2>2 DEF Shape
  <2>4. \A e \in Feed : feed[e].pc # "new" => feed'[e] = feed[e]
    BY <2>1, <2>2 DEF Shape
  <2> QED
    BY <2>2, <2>3, <2>4 DEF WorkSense, Shown, ImpressionOf, Credits, Shape
<1>4. ASSUME NEW f \in Feed, RecordEvent(f)
      PROVE  Shape' /\ WorkSense'
  <2>1. memory' \in Tally /\ saved' \in Tally
    BY <1>4, EventIsRecorded
  <2>2. /\ UNCHANGED <<impressions, feedback, switches, crashes, late>>
        /\ feed' = [feed EXCEPT ![f].pc = "recorded"] /\ working' = [pc |-> "count", feed |-> f]
        /\ feed[f].pc = "decided"
    BY <1>4 DEF RecordEvent, Under
  <2>3. Shape'
    BY <2>1, <2>2 DEF Shape
  <2>4. /\ \A e \in Feed : feed[e].pc = "over" => feed'[e] = feed[e]
        /\ feed'[f].pc = "recorded"
    BY <2>2 DEF Shape
  <2> QED
    BY <2>2, <2>3, <2>4 DEF WorkSense, Shown, Shape
<1>5. ASSUME NEW f \in Feed, AddImpression(f)
      PROVE  Shape' /\ WorkSense'
  <2> DEFINE i == [feed |-> f, arm |-> feed[f].arm, source |-> memory.mode, credited |-> FALSE]
             done == [NotServed EXCEPT !.pc = "over"]
  <2>1. /\ UNCHANGED <<memory, saved, feedback, working, switches, crashes, late>>
        /\ feed' = [feed EXCEPT ![f] = done] /\ impressions' = impressions \cup {i}
        /\ feed[f].pc = "recorded" /\ (working.pc = "count" => working.feed # f)
    BY <1>5 DEF AddImpression
  <2>2. /\ i \in [feed : Feed, arm : Lane, source : Mode, credited : BOOLEAN]
        /\ done \in [pc : {"new", "decided", "recorded", "over"}, arm : Lane, side : Side,
                     clicked : BOOLEAN]
        /\ done.pc = "over" /\ i.feed = f
    BY DEF Shape, NotServed, Lane, Side, Tally
  <2> HIDE DEF i, done
  <2>3. ~Shown(f) /\ \A j \in impressions : j.feed # f
    BY <2>1 DEF WorkSense, Shown
  <2>4. Shape'
    <3>1. \A j, k \in impressions' : j.feed = k.feed => j = k
      BY <2>1, <2>2, <2>3 DEF Shape
    <3>2. impressions' \subseteq [feed : Feed, arm : Lane, source : Mode, credited : BOOLEAN]
      BY <2>1, <2>2 DEF Shape
    <3>3. feed' \in [Feed -> [pc : {"new", "decided", "recorded", "over"},
                        arm : Lane, side : Side, clicked : BOOLEAN]]
      BY <2>1, <2>2 DEF Shape
    <3> QED
      BY <2>1, <3>1, <3>2, <3>3 DEF Shape
  <2>5. /\ \A e \in Feed : e # f => feed'[e] = feed[e]
        /\ feed'[f].pc = "over"
    BY <2>1, <2>2 DEF Shape
  <2>6. \A j \in impressions' : feed'[j.feed].pc = "over"
    BY <2>1, <2>2, <2>5 DEF WorkSense, Shape
  <2>7. \A e : Shown(e) => Shown(e)'
    BY <2>1 DEF Shown
  <2>8. \A b \in feedback' : Shown(b.feed)'
    BY <2>1, <2>7 DEF WorkSense
  <2>9. working.pc = "credit" => Credits(ImpressionOf(working.feed))'
    <3> SUFFICES ASSUME working.pc = "credit" PROVE Credits(ImpressionOf(working.feed))'
      OBVIOUS
    <3>1. Shown(working.feed) /\ Credits(ImpressionOf(working.feed))
      BY DEF WorkSense
    <3>2. Shown(working.feed)' /\ working' = working /\ memory' = memory
      BY <2>1, <2>7, <3>1
    <3>3. ImpressionOf(working.feed) \in impressions /\ ImpressionOf(working.feed).feed = working.feed
      BY <3>1, TheImpression
    <3>4. ImpressionOf(working.feed)' \in impressions' /\ ImpressionOf(working.feed)'.feed = working.feed
      BY <3>2 DEF Shown, ImpressionOf
    <3>5. ImpressionOf(working.feed)' = ImpressionOf(working.feed)
      BY <2>1, <2>4, <3>3, <3>4 DEF Shape
    <3> QED
      BY <3>1, <3>2, <3>5 DEF Credits
  <2>10. working'.pc = "count" => feed'[working'.feed].pc = "recorded"
    BY <2>1, <2>5 DEF WorkSense, Shape
  <2>11. working'.pc \in {"reward", "clicked", "credit", "success", "window"} => Shown(working.feed)'
    BY <2>1, <2>7 DEF WorkSense, Shown
  <2> QED
    BY <2>1, <2>4, <2>6, <2>8, <2>9, <2>10, <2>11 DEF WorkSense
<1>6. ASSUME NEW f \in Feed, NEW item \in Item, NEW clicked \in BOOLEAN, AddFeedback(f, item, clicked)
      PROVE  Shape' /\ WorkSense'
  <2>1. /\ UNCHANGED <<memory, saved, impressions, feed, switches, crashes, late>>
        /\ feedback' = feedback \cup {[feed |-> f, item |-> item, clicked |-> clicked]}
        /\ working' = [pc |-> IF clicked THEN "clicked" ELSE "reward", feed |-> f]
        /\ Shown(f) /\ ~IsRepeat(f, item, clicked)
    BY <1>6 DEF AddFeedback, Under, Shown
  <2>2. \A b \in feedback : ~(b.feed = f /\ b.item = item)
    BY <2>1 DEF IsRepeat
  <2>3. Shape'
    BY <2>1, <2>2 DEF Shape
  <2>4. \A e : Shown(e)' <=> Shown(e)
    BY <2>1 DEF Shown
  <2>5. WorkSense'
    BY <2>1, <2>4 DEF WorkSense, Shown
  <2> QED
    BY <2>3, <2>5
<1>7. CASE MarkCredited
  <2> DEFINE mark(i) == IF i.feed = working.feed THEN [i EXCEPT !.credited = TRUE] ELSE i
  <2>1. /\ UNCHANGED <<memory, saved, feedback, feed, switches, crashes, late>>
        /\ impressions' = {mark(i) : i \in impressions}
        /\ working' = [pc |-> "success", feed |-> working.feed] /\ working.pc = "credit"
    BY <1>7 DEF MarkCredited, Under
  <2>2. \A i \in impressions : /\ mark(i).feed = i.feed
                               /\ mark(i) \in [feed : Feed, arm : Lane, source : Mode, credited : BOOLEAN]
    <3> TAKE i \in impressions
    <3>1. i \in [feed : Feed, arm : Lane, source : Mode, credited : BOOLEAN]
      BY DEF Shape
    <3>2. /\ [i EXCEPT !.credited = TRUE] \in [feed : Feed, arm : Lane, source : Mode, credited : BOOLEAN]
          /\ [i EXCEPT !.credited = TRUE].feed = i.feed
      BY <3>1
    <3> QED
      BY <3>1, <3>2
  <2> HIDE DEF mark
  <2>3. Shape'
    <3>1. \A j, k \in impressions' : j.feed = k.feed => j = k
      BY <2>1, <2>2 DEF Shape
    <3>2. impressions' \subseteq [feed : Feed, arm : Lane, source : Mode, credited : BOOLEAN]
      BY <2>1, <2>2
    <3>3. working' \in [pc : {"free", "count", "reward", "clicked", "credit", "success", "window",
                        "live", "canary", "counters", "mode"}, feed : Feed]
      BY <2>1 DEF Shape
    <3> QED
      BY <2>1, <3>1, <3>2, <3>3 DEF Shape
  <2>4. \A e : Shown(e) => Shown(e)'
    BY <2>1, <2>2 DEF Shown
  <2>5. \A j \in impressions' : feed'[j.feed].pc = "over"
    BY <2>1, <2>2 DEF WorkSense
  <2>6. \A b \in feedback' : Shown(b.feed)'
    BY <2>1, <2>4 DEF WorkSense
  <2>7. Shown(working.feed)'
    <3>1. Shown(working.feed) /\ working'.feed = working.feed
      BY <2>1 DEF WorkSense
    <3> QED
      BY <2>4, <3>1 DEF Shown
  <2> QED
    BY <2>1, <2>3, <2>5, <2>6, <2>7 DEF WorkSense
<1>8. ASSUME NEW mode \in Mode, SwitchMode(mode)
      PROVE  Shape' /\ WorkSense'
  <2>1. memory' \in Tally
    BY <1>8, MemoryIsFresh
  <2>2. /\ UNCHANGED <<saved, impressions, feedback, feed, crashes>>
        /\ working' = [pc |-> "live", feed |-> 1]
        /\ switches' = switches + 1 /\ switches + crashes < MaxUpsets
        /\ late' \in BOOLEAN
    BY <1>8 DEF SwitchMode, Shape
  <2>3. Shape'
    BY <1>0, <2>1, <2>2, BoundsAreNumbers DEF Shape
  <2> QED
    BY <2>2, <2>3 DEF WorkSense, Shown
<1>9. CASE CrashAndRestore
  <2>1. memory' \in Tally /\ saved' = memory'
    BY <1>9, MemoryIsRestored
  <2>2. PICK since \in 1..(MaxFeeds + 1) :
          /\ impressions' = {i \in impressions : i.feed >= since}
          /\ feedback' = {b \in feedback : b.feed >= since}
    BY <1>9 DEF CrashAndRestore
  <2>3. /\ UNCHANGED <<switches, late>> /\ working' = NoWork
        /\ crashes' = crashes + 1 /\ switches + crashes < MaxUpsets
        /\ feed' = [f \in Feed |-> IF Begun(f) THEN [NotServed EXCEPT !.pc = "over"] ELSE feed[f]]
    BY <1>9 DEF CrashAndRestore
  <2>4. /\ [NotServed EXCEPT !.pc = "over"] \in [pc : {"new", "decided", "recorded", "over"},
                 arm : Lane, side : Side, clicked : BOOLEAN]
        /\ [NotServed EXCEPT !.pc = "over"].pc = "over"
        /\ NoWork \in [pc : {"free", "count", "reward", "clicked", "credit", "success", "window",
                           "live", "canary", "counters", "mode"}, feed : Feed]
        /\ NoWork.pc = "free"
    BY <1>0 DEF NotServed, NoWork, Lane, Side
  <2>5. Shape'
    <3>1. feed' \in [Feed -> [pc : {"new", "decided", "recorded", "over"},
                        arm : Lane, side : Side, clicked : BOOLEAN]]
      BY <2>3, <2>4 DEF Shape
    <3>2. impressions' \subseteq impressions /\ feedback' \subseteq feedback
      BY <2>2
    <3>3. crashes' \in 0..MaxUpsets
      BY <2>3, BoundsAreNumbers DEF Shape
    <3> QED
      BY <2>1, <2>3, <2>4, <3>1, <3>2, <3>3 DEF Shape
  <2>6. \A f \in Feed : feed[f].pc = "over" => feed'[f].pc = "over"
    BY <2>3, <2>4 DEF Begun
  <2>7. \A i \in impressions' : feed'[i.feed].pc = "over"
    BY <2>2, <2>6 DEF WorkSense, Shape
  <2>8. \A b \in feedback' : Shown(b.feed)'
    BY <2>2 DEF WorkSense, Shown
  <2> QED
    BY <2>3, <2>4, <2>5, <2>7, <2>8 DEF WorkSense
<1> QED
  BY <1>1, <1>2, <1>3, <1>4, <1>5, <1>6, <1>7, <1>8, <1>9 DEF FeedbackNext, Counting

-----------------------------------------------------------------------------
\* The store says what memory says, except for what the holder of the lock has changed in
\* memory and not stored yet.
Switching == {"live", "canary", "counters", "mode"}

SavedSense ==
  /\ saved.rewards = memory.rewards
  /\ working.pc \notin Switching => saved.mode = memory.mode
  /\ working.pc \notin {"count", "live", "canary", "counters"} =>
       saved.trials = memory.trials /\ saved.successes = memory.successes
  /\ working.pc \in Switching => \A w \in Side : memory.window[w] = << >>

LEMMA SavedStarts == FeedbackInit => SavedSense
BY DEF FeedbackInit, SavedSense, NoWork, Switching

LEMMA SavedStep ==
  ASSUME Shape, WorkSense, SavedSense, [FeedbackNext]_feedbackVars
  PROVE  SavedSense'
<1>1. CASE UNCHANGED <<memory, saved, working>>
  BY <1>1 DEF SavedSense
<1>2. ASSUME NEW f \in Feed, RecordEvent(f)
      PROVE  SavedSense'
  <2>1. /\ memory'.mode = memory.mode /\ memory'.rewards = memory.rewards
        /\ saved'.mode = saved.mode /\ saved'.rewards = saved.rewards
    BY <1>2, EventIsRecorded
  <2>2. working.pc = "free" /\ working'.pc = "count"
    BY <1>2 DEF RecordEvent, Under
  <2> QED
    BY <2>1, <2>2 DEF SavedSense, Switching
<1>3. CASE StoreCounters \/ ResetCounters
  <2>1. PICK next \in {"free", "mode"} :
          /\ PutCounters(next)
          /\ IF next = "free" THEN working.pc = "count" ELSE working.pc = "counters"
    BY <1>3 DEF StoreCounters, ResetCounters
  <2>2. /\ memory' = memory /\ saved'.mode = saved.mode /\ saved'.rewards = saved.rewards
        /\ saved'.trials = memory.trials /\ saved'.successes = memory.successes
    BY <2>1, CountersArePut
  <2>3. working'.pc = next
    BY <2>1 DEF PutCounters, Under
  <2> QED
    BY <2>1, <2>2, <2>3 DEF SavedSense, Switching
<1>4. CASE Reward
  <2>1. /\ memory'.mode = memory.mode /\ memory'.trials = memory.trials
        /\ memory'.successes = memory.successes /\ memory'.rewards = memory.rewards + 1
        /\ saved'.mode = saved.mode /\ saved'.trials = saved.trials
        /\ saved'.successes = saved.successes /\ saved'.rewards = memory.rewards + 1
    BY <1>4, BanditIsRewarded
  <2>2. working.pc \in {"reward", "clicked"} /\ working'.pc \in {"credit", "free"}
    BY <1>4 DEF Reward, Under
  <2> QED
    BY <2>1, <2>2 DEF SavedSense, Switching
<1>5. CASE MarkCredited \/ \E f \in Feed, item \in Item, clicked \in BOOLEAN : AddFeedback(f, item, clicked)
  <2>1. /\ UNCHANGED <<memory, saved>> /\ working.pc \in {"free", "credit"}
        /\ working'.pc \in {"success", "clicked", "reward"}
    BY <1>5 DEF MarkCredited, AddFeedback, Under
  <2> QED
    BY <2>1 DEF SavedSense, Switching
<1>6. CASE CountSuccess
  <2>1. Shown(working.feed)
    BY <1>6 DEF CountSuccess, WorkSense
  <2>2. /\ memory'.mode = memory.mode /\ memory'.rewards = memory.rewards
        /\ saved'.mode = saved.mode /\ saved'.rewards = saved.rewards
        /\ saved'.trials = memory'.trials /\ saved'.successes = memory'.successes
    BY <1>6, <2>1, SuccessIsCounted
  <2>3. working.pc = "success" /\ working'.pc = "window"
    BY <1>6 DEF CountSuccess, Under
  <2> QED
    BY <2>2, <2>3 DEF SavedSense, Switching
<1>7. CASE CreditWindow
  <2>1. /\ memory'.mode = memory.mode /\ memory'.rewards = memory.rewards
        /\ memory'.trials = memory.trials /\ memory'.successes = memory.successes
        /\ saved'.mode = saved.mode /\ saved'.rewards = saved.rewards
        /\ saved'.trials = saved.trials /\ saved'.successes = saved.successes
    BY <1>7, ClickIsCredited
  <2>2. working.pc = "window" /\ working'.pc = "free"
    BY <1>7 DEF CreditWindow, Under
  <2> QED
    BY <2>1, <2>2 DEF SavedSense, Switching
<1>8. ASSUME NEW mode \in Mode, SwitchMode(mode)
      PROVE  SavedSense'
  <2>1. /\ saved' = saved /\ memory'.rewards = memory.rewards
        /\ \A w \in Side : memory'.window[w] = << >>
    BY <1>8, MemoryIsFresh
  <2>2. working'.pc = "live"
    BY <1>8 DEF SwitchMode
  <2> QED
    BY <2>1, <2>2 DEF SavedSense, Switching
<1>9. CASE ClearWindow \/ SetMode
  <2>1. /\ memory' = memory /\ saved'.rewards = saved.rewards
        /\ saved'.trials = saved.trials /\ saved'.successes = saved.successes
        /\ SetMode => saved'.mode = memory.mode
    BY <1>9, WindowIsCleared, ModeIsSet
  <2>2. \/ SetMode /\ working.pc = "mode" /\ working'.pc = "free"
        \/ working.pc \in Side /\ working'.pc \in {"canary", "counters"}
    BY <1>9 DEF ClearWindow, SetMode, Under
  <2> QED
    BY <2>1, <2>2 DEF SavedSense, Switching, Side
<1>10. CASE CrashAndRestore
  <2>1. memory' = saved' /\ working'.pc = "free"
    BY <1>10, MemoryIsRestored DEF CrashAndRestore, NoWork
  <2> QED
    BY <2>1 DEF SavedSense, Switching
<1>11. [FeedbackNext]_feedbackVars =>
         \/ UNCHANGED <<memory, saved, working>> \/ \E f \in Feed : RecordEvent(f)
         \/ StoreCounters \/ ResetCounters \/ Reward \/ MarkCredited
         \/ \E f \in Feed, item \in Item, clicked \in BOOLEAN : AddFeedback(f, item, clicked)
         \/ CountSuccess \/ CreditWindow \/ \E mode \in Mode : SwitchMode(mode)
         \/ ClearWindow \/ SetMode \/ CrashAndRestore
  BY DEF FeedbackNext, feedbackVars, Decide, AddImpression
<1> QED
  BY <1>1, <1>2, <1>3, <1>4, <1>5, <1>6, <1>7, <1>8, <1>9, <1>10, <1>11

\* The two windows of a side are as long as each other and agree on what the deque holds.
Aligned(m, s) ==
  /\ Len(s) = Len(m)
  /\ \A k \in 1..Len(s) : k > Len(s) - WindowSize => s[k] = m[k]

WindowSense ==
  /\ working.pc # "live" => Aligned(memory.window["live"], saved.window["live"])
  /\ working.pc \notin {"live", "canary"} => Aligned(memory.window["canary"], saved.window["canary"])

LEMMA AlignedAppend ==
  ASSUME NEW m \in Seq(Event), NEW s \in Seq(Event), Aligned(m, s), NEW event \in Event
  PROVE  Aligned(Append(m, event), Append(s, event))
<1> DEFINE m1 == Append(m, event)
           s1 == Append(s, event)
<1>1. /\ Len(m1) = Len(m) + 1 /\ Len(s1) = Len(s) + 1
      /\ \A k \in 1..Len(m) : m1[k] = m[k]
      /\ \A k \in 1..Len(s) : s1[k] = s[k]
      /\ m1[Len(m) + 1] = event /\ s1[Len(s) + 1] = event
  BY AppendProperties
<1>2. Len(m) \in Nat /\ Len(s) = Len(m) /\ WindowSize \in Nat
  BY LenProperties, BoundsAreNumbers DEF Aligned
<1> HIDE DEF m1, s1
<1>3. ASSUME NEW k \in 1..Len(s1), k > Len(s1) - WindowSize
      PROVE  s1[k] = m1[k]
  <2>1. CASE k = Len(s) + 1
    BY <1>1, <1>2, <2>1
  <2>2. CASE k # Len(s) + 1
    <3>1. k \in 1..Len(s) /\ k > Len(s) - WindowSize
      BY <1>1, <1>2, <1>3, <2>2
    <3>2. s[k] = m[k]
      BY <3>1 DEF Aligned
    <3> QED
      BY <1>1, <1>2, <3>1, <3>2
  <2> QED
    BY <2>1, <2>2
<1>4. Len(s1) = Len(m1)
  BY <1>1, <1>2
<1> QED
  BY <1>3, <1>4 DEF Aligned, m1, s1

LEMMA AlignedClick ==
  ASSUME NEW m \in Seq(Event), NEW s \in Seq(Event), Aligned(m, s), NEW f \in Feed
  PROVE  Aligned(ClickKept(m, f), Clicked(s, f))
<1>1. Len(s) = Len(m) /\ \A k \in 1..Len(s) : k > Len(s) - WindowSize => s[k] = m[k]
  BY DEF Aligned
<1>2. /\ Len(ClickKept(m, f)) = Len(m) /\ Len(Clicked(s, f)) = Len(s)
      /\ \A k \in 1..Len(s) :
           Clicked(s, f)[k] = IF s[k].feed = f THEN [s[k] EXCEPT !.clicked = TRUE] ELSE s[k]
      /\ \A k \in 1..Len(m) : k > Len(m) - WindowSize =>
           ClickKept(m, f)[k] = IF m[k].feed = f THEN [m[k] EXCEPT !.clicked = TRUE] ELSE m[k]
  BY ClicksKeepWindows
<1>3. ASSUME NEW k \in 1..Len(Clicked(s, f)), k > Len(Clicked(s, f)) - WindowSize
      PROVE  Clicked(s, f)[k] = ClickKept(m, f)[k]
  <2>1. k \in 1..Len(s) /\ k > Len(s) - WindowSize /\ k \in 1..Len(m) /\ k > Len(m) - WindowSize
    BY <1>1, <1>2, <1>3
  <2>2. s[k] = m[k]
    BY <1>1, <2>1
  <2>3. Clicked(s, f)[k] = IF s[k].feed = f THEN [s[k] EXCEPT !.clicked = TRUE] ELSE s[k]
    BY <1>2, <2>1
  <2>4. ClickKept(m, f)[k] = IF m[k].feed = f THEN [m[k] EXCEPT !.clicked = TRUE] ELSE m[k]
    BY <1>2, <2>1
  <2> QED
    BY <2>2, <2>3, <2>4
<1> QED
  BY <1>1, <1>2, <1>3 DEF Aligned

\* What is aligned is restored as it was.
LEMMA AlignedIsKept ==
  ASSUME NEW m \in Seq(Event), NEW s \in Seq(Event), Aligned(m, s)
  PROVE  Kept(s) = Kept(m)
<1>1. /\ Len(s) = Len(m) /\ Len(m) \in Nat
      /\ \A k \in 1..Len(s) : k > Len(s) - WindowSize => s[k] = m[k]
      /\ \A k \in 1..Len(s) : s[k] \in Event /\ m[k] \in Event
  BY LenProperties, ElementOfSeq DEF Aligned
<1> DEFINE n == Len(m)
           first == IF n > WindowSize THEN n - WindowSize + 1 ELSE 1
<1>2. first \in Int /\ first >= 1 /\ first > n - WindowSize /\ n \in Nat
  BY <1>1, BoundsAreNumbers
<1>3. Kept(s) = SubSeq(s, first, n) /\ Kept(m) = SubSeq(m, first, n)
  BY <1>1 DEF Kept
<1> HIDE DEF first
<1>4. \A k \in first..n : k \in 1..n /\ s[k] = m[k] /\ s[k] \in Event /\ m[k] \in Event
  <2> SUFFICES ASSUME NEW k \in first..n
               PROVE  k \in 1..n /\ s[k] = m[k] /\ s[k] \in Event /\ m[k] \in Event
    OBVIOUS
  <2>1. k \in 1..Len(s) /\ k > Len(s) - WindowSize
    BY <1>1, <1>2, BoundsAreNumbers
  <2> QED
    BY <1>1, <2>1
<1> HIDE DEF n
<1>5. /\ SubSeq(s, first, n) \in Seq(Event) /\ SubSeq(m, first, n) \in Seq(Event)
      /\ Len(SubSeq(s, first, n)) = Len(SubSeq(m, first, n))
      /\ Len(SubSeq(s, first, n)) = IF first <= n THEN n - first + 1 ELSE 0
      /\ \A i \in 1..(n - first + 1) : /\ SubSeq(s, first, n)[i] = s[first + i - 1]
                                       /\ SubSeq(m, first, n)[i] = m[first + i - 1]
  BY <1>2, <1>4, SubSeqProperties
<1>6. \A i \in 1..Len(SubSeq(s, first, n)) : SubSeq(s, first, n)[i] = SubSeq(m, first, n)[i]
  <2> SUFFICES ASSUME NEW i \in 1..Len(SubSeq(s, first, n))
               PROVE  SubSeq(s, first, n)[i] = SubSeq(m, first, n)[i]
    OBVIOUS
  <2>1. i \in 1..(n - first + 1) /\ first + i - 1 \in first..n
    BY <1>2, <1>5
  <2> QED
    BY <1>4, <1>5, <2>1
<1>7. SubSeq(s, first, n) = SubSeq(m, first, n)
  BY <1>5, <1>6, SeqEqual
<1> QED
  BY <1>3, <1>7

LEMMA AlignedItself ==
  ASSUME NEW s
  PROVE  Aligned(s, s)
BY DEF Aligned

LEMMA WindowStep ==
  ASSUME Shape, WorkSense, SavedSense, WindowSense, [FeedbackNext]_feedbackVars
  PROVE  WindowSense'
<1>0. /\ \A w \in Side : memory.window[w] \in Seq(Event) /\ saved.window[w] \in Seq(Event)
      /\ memory.window \in [Side -> Seq(Event)] /\ saved.window \in [Side -> Seq(Event)]
      /\ Side = {"live", "canary"}
  BY DEF Shape, Tally, Side
<1>1. CASE /\ memory'.window = memory.window /\ saved'.window = saved.window
           /\ \/ working'.pc = working.pc
              \/ working.pc \notin {"live", "canary"} /\ working'.pc # "live"
  BY <1>1 DEF WindowSense
<1>2. ASSUME NEW f \in Feed, RecordEvent(f)
      PROVE  WindowSense'
  <2> DEFINE side == feed[f].side
             event == [feed |-> f, clicked |-> feed[f].clicked]
  <2>1. /\ event \in Event /\ side \in Side
        /\ memory'.window = [memory.window EXCEPT ![side] = Append(@, event)]
        /\ saved'.window = [saved.window EXCEPT ![side] = Append(@, event)]
    BY <1>2, EventIsRecorded DEF Shape
  <2>2. working.pc = "free"
    BY <1>2 DEF RecordEvent
  <2> HIDE DEF side, event
  <2>3. \A w \in Side : Aligned(memory.window[w], saved.window[w])
    BY <1>0, <2>2 DEF WindowSense
  <2>4. Aligned(Append(memory.window[side], event), Append(saved.window[side], event))
    BY <1>0, <2>1, <2>3, AlignedAppend
  <2>5. \A w \in Side : Aligned(memory'.window[w], saved'.window[w])
    BY <1>0, <2>1, <2>3, <2>4
  <2> QED
    BY <1>0, <2>5 DEF WindowSense
<1>3. CASE CreditWindow
  <2>1. /\ \A w \in Side : /\ memory'.window[w] = ClickKept(memory.window[w], working.feed)
                           /\ saved'.window[w] = Clicked(saved.window[w], working.feed)
        /\ working.feed \in Feed
    BY <1>3, ClickIsCredited DEF Shape
  <2>2. working.pc = "window"
    BY <1>3 DEF CreditWindow
  <2>3. \A w \in Side : Aligned(memory.window[w], saved.window[w])
    BY <1>0, <2>2 DEF WindowSense
  <2>4. \A w \in Side : Aligned(memory'.window[w], saved'.window[w])
    BY <1>0, <2>1, <2>3, AlignedClick
  <2> QED
    BY <1>0, <2>4 DEF WindowSense
<1>4. CASE ClearWindow
  <2>1. /\ memory' = memory /\ working.pc \in Side
        /\ saved'.window = [saved.window EXCEPT ![working.pc] = << >>]
    BY <1>4, WindowIsCleared
  <2>2. working'.pc = IF working.pc = "live" THEN "canary" ELSE "counters"
    BY <1>4 DEF ClearWindow, Under
  <2>3. \A w \in Side : memory.window[w] = << >>
    BY <1>0, <2>1 DEF SavedSense, Switching
  <2>4. Aligned(<< >>, << >>)
    BY AlignedItself
  <2>5. /\ saved'.window[working.pc] = << >>
        /\ \A w \in Side : w # working.pc => saved'.window[w] = saved.window[w]
    BY <1>0, <2>1
  <2>6. CASE working.pc = "live"
    BY <1>0, <2>1, <2>2, <2>3, <2>4, <2>5, <2>6 DEF WindowSense
  <2>7. CASE working.pc = "canary"
    BY <1>0, <2>1, <2>2, <2>3, <2>4, <2>5, <2>7 DEF WindowSense
  <2> QED
    BY <1>0, <2>1, <2>6, <2>7
<1>5. CASE \E mode \in Mode : SwitchMode(mode)
  BY <1>5 DEF SwitchMode, WindowSense
<1>6. CASE CrashAndRestore
  <2>1. memory' = saved'
    BY <1>6, MemoryIsRestored
  <2> QED
    BY <2>1, AlignedItself DEF WindowSense
<1>7. CASE Reward \/ CountSuccess \/ SetMode \/ StoreCounters \/ ResetCounters
  <2>1. memory'.window = memory.window /\ saved'.window = saved.window
    <3>1. CASE StoreCounters \/ ResetCounters
      BY <3>1, CountersArePut DEF StoreCounters, ResetCounters
    <3>2. CASE CountSuccess
      <4>1. Shown(working.feed)
        BY <3>2 DEF CountSuccess, WorkSense
      <4> QED
        BY <3>2, <4>1, SuccessIsCounted
    <3> QED
      BY <1>7, <3>1, <3>2, BanditIsRewarded, ModeIsSet
  <2>2. working.pc \notin {"live", "canary"} /\ working'.pc # "live"
    BY <1>7 DEF Reward, CountSuccess, SetMode, StoreCounters, ResetCounters, PutCounters, Under
  <2> QED
    BY <1>1, <2>1, <2>2
<1>8. CASE MarkCredited \/ \E f \in Feed, item \in Item, clicked \in BOOLEAN : AddFeedback(f, item, clicked)
  <2>1. /\ UNCHANGED <<memory, saved>> /\ working.pc \notin {"live", "canary"} /\ working'.pc # "live"
    BY <1>8 DEF MarkCredited, AddFeedback, Under
  <2> QED
    BY <1>1, <2>1
<1>9. CASE UNCHANGED <<memory, saved, working>>
  BY <1>1, <1>9
<1>10. [FeedbackNext]_feedbackVars =>
         \/ UNCHANGED <<memory, saved, working>> \/ \E f \in Feed : RecordEvent(f)
         \/ StoreCounters \/ ResetCounters \/ Reward \/ MarkCredited
         \/ \E f \in Feed, item \in Item, clicked \in BOOLEAN : AddFeedback(f, item, clicked)
         \/ CountSuccess \/ CreditWindow \/ \E mode \in Mode : SwitchMode(mode)
         \/ ClearWindow \/ SetMode \/ CrashAndRestore
  BY DEF FeedbackNext, feedbackVars, Decide, AddImpression
<1> QED
  BY <1>2, <1>3, <1>4, <1>5, <1>6, <1>7, <1>8, <1>9, <1>10

-----------------------------------------------------------------------------
\* A feed is counted as a trial when it is recorded; a click at once or later is a success,
\* so that each feed is worth two successes at most, over all modes and lives.
Recorded == {f \in Feed : feed[f].pc \in {"recorded", "over"}}
Spent == {f \in Feed : feed[f].pc = "over" /\ \A i \in impressions : i.feed = f => i.credited}
Room == Cardinality(Recorded) + Cardinality(Spent)

CountSense == \A a \in Arm :
  /\ memory.trials[a] <= Cardinality(Recorded) /\ saved.trials[a] <= Cardinality(Recorded)
  /\ memory.successes[a] + One(working.pc = "success") <= Room
  /\ saved.successes[a] + One(working.pc = "success") <= Room

LEMMA FeedsAreFinite ==
  ASSUME NEW S \in SUBSET Feed
  PROVE  IsFiniteSet(S) /\ Cardinality(S) \in Nat /\ Cardinality(S) <= MaxFeeds
<1>1. MaxFeeds \in Nat
  BY BoundsAreNumbers
<1>2. IsFiniteSet(Feed) /\ Cardinality(Feed) = MaxFeeds
  BY <1>1, FS_Interval DEF Feed
<1>3. IsFiniteSet(S) /\ Cardinality(S) <= Cardinality(Feed)
  BY <1>2, FS_Subset
<1> QED
  BY <1>2, <1>3, FS_CardinalityType

LEMMA LargerSet ==
  ASSUME NEW T, IsFiniteSet(T), NEW S \in SUBSET T
  PROVE  /\ IsFiniteSet(S) /\ Cardinality(S) \in Nat /\ Cardinality(T) \in Nat
         /\ Cardinality(S) <= Cardinality(T)
         /\ \A x \in T : x \notin S => Cardinality(S) + 1 <= Cardinality(T)
<1>1. IsFiniteSet(S) /\ Cardinality(S) <= Cardinality(T)
  BY FS_Subset
<1>2. Cardinality(S) \in Nat /\ Cardinality(T) \in Nat
  BY <1>1, FS_CardinalityType
<1>3. ASSUME NEW x \in T, x \notin S
      PROVE  Cardinality(S) + 1 <= Cardinality(T)
  <2>1. Cardinality(S \cup {x}) = Cardinality(S) + 1
    BY <1>1, <1>3, FS_AddElement
  <2>2. Cardinality(S \cup {x}) <= Cardinality(T)
    BY <1>3, FS_Subset
  <2> QED
    BY <2>1, <2>2
<1> QED
  BY <1>1, <1>2, <1>3

\* What is recorded or spent stays so.
LEMMA RoomGrows ==
  ASSUME Shape, WorkSense, Shape', [FeedbackNext]_feedbackVars
  PROVE  /\ Cardinality(Recorded) \in Nat /\ Cardinality(Recorded)' \in Nat
         /\ Room \in Nat /\ Room' \in Nat
         /\ Cardinality(Recorded) <= Cardinality(Recorded)' /\ Room <= Room'
         /\ (\E f \in Feed : RecordEvent(f)) =>
              Cardinality(Recorded) + 1 <= Cardinality(Recorded)' /\ Room + 1 <= Room'
         /\ MarkCredited => Room + 1 <= Room'
<1> DEFINE R == Recorded
           R1 == Recorded'
           S == Spent
           S1 == Spent'
<1>1. R \subseteq Feed /\ R1 \subseteq Feed /\ S \subseteq Feed /\ S1 \subseteq Feed
  BY DEF Recorded, Spent
<1>2. /\ IsFiniteSet(R) /\ IsFiniteSet(R1) /\ IsFiniteSet(S) /\ IsFiniteSet(S1)
      /\ Cardinality(R) \in Nat /\ Cardinality(R1) \in Nat
      /\ Cardinality(S) \in Nat /\ Cardinality(S1) \in Nat
  BY <1>1, FeedsAreFinite
<1>3. R \subseteq R1 /\ S \subseteq S1
  <2>1. CASE UNCHANGED <<feed, impressions>>
    BY <2>1 DEF Recorded, Spent
  <2>2. ASSUME NEW f \in Feed, Decide(f) \/ RecordEvent(f)
        PROVE  R \subseteq R1 /\ S \subseteq S1
    <3>1. /\ impressions' = impressions
          /\ \A e \in Feed : feed[e].pc \in {"recorded", "over"} => feed'[e] = feed[e]
      BY <2>2 DEF Decide, RecordEvent, Under, NextFeed, Begun, Shape
    <3> QED
      BY <3>1 DEF Recorded, Spent
  <2>3. ASSUME NEW f \in Feed, AddImpression(f)
        PROVE  R \subseteq R1 /\ S \subseteq S1
    <3>1. /\ feed[f].pc = "recorded" /\ feed' = [feed EXCEPT ![f] = [NotServed EXCEPT !.pc = "over"]]
          /\ \A i \in impressions' : i \in impressions \/ i.feed = f
      BY <2>3 DEF AddImpression
    <3>2. /\ \A e \in Feed : e # f => feed'[e] = feed[e]
          /\ feed'[f].pc = "over"
      BY <3>1 DEF Shape, NotServed
    <3> QED
      BY <3>1, <3>2 DEF Recorded, Spent
  <2>4. CASE MarkCredited
    <3>1. feed' = feed /\ \A j \in impressions' : \E i \in impressions :
            j.feed = i.feed /\ (i.credited => j.credited)
      <4>1. /\ feed' = feed
            /\ impressions' = {IF i.feed = working.feed THEN [i EXCEPT !.credited = TRUE] ELSE i :
                                 i \in impressions}
        BY <2>4 DEF MarkCredited
      <4>2. \A i \in impressions : i \in [feed : Feed, arm : Lane, source : Mode, credited : BOOLEAN]
        BY DEF Shape
      <4> QED
        BY <4>1, <4>2
    <3> QED
      BY <3>1 DEF Recorded, Spent
  <2>5. CASE CrashAndRestore
    <3>1. /\ impressions' \subseteq impressions
          /\ feed' = [f \in Feed |-> IF Begun(f) THEN [NotServed EXCEPT !.pc = "over"] ELSE feed[f]]
      BY <2>5 DEF CrashAndRestore
    <3>2. \A f \in Feed : Begun(f) => feed'[f].pc = "over"
      BY <3>1 DEF NotServed
    <3> QED
      BY <3>1, <3>2 DEF Recorded, Spent, Begun
  <2> QED
    BY <2>1, <2>2, <2>3, <2>4, <2>5 DEF FeedbackNext, feedbackVars, AddFeedback, StoreCounters, Reward,
       CountSuccess, CreditWindow, SwitchMode, ClearWindow, ResetCounters, SetMode
<1>4. ASSUME NEW f \in Feed, RecordEvent(f)
      PROVE  f \in R1 /\ f \notin R
  BY <1>4 DEF RecordEvent, Recorded, Shape
<1>5. ASSUME MarkCredited PROVE working.feed \in S1 /\ working.feed \notin S
  <2> DEFINE f == working.feed
  <2>1. /\ feed' = feed /\ working.pc = "credit" /\ f \in Feed
        /\ impressions' = {IF i.feed = f THEN [i EXCEPT !.credited = TRUE] ELSE i : i \in impressions}
    BY <1>5 DEF MarkCredited, Shape
  <2>2. Shown(f) /\ Credits(ImpressionOf(f))
    BY <2>1 DEF WorkSense
  <2>3. /\ ImpressionOf(f) \in impressions /\ ImpressionOf(f).feed = f
        /\ ~ImpressionOf(f).credited
    BY <2>2, TheImpression DEF Credits
  <2>4. f \notin S
    BY <2>3 DEF Spent
  <2>5. feed'[f].pc = "over"
    BY <2>1, <2>3 DEF WorkSense
  <2>6. ASSUME NEW j \in impressions', j.feed = f
        PROVE  j.credited
    <3>1. PICK i \in impressions : j = IF i.feed = f THEN [i EXCEPT !.credited = TRUE] ELSE i
      BY <2>1
    <3>2. i \in [feed : Feed, arm : Lane, source : Mode, credited : BOOLEAN]
      BY DEF Shape
    <3> QED
      BY <2>6, <3>1, <3>2
  <2>7. f \in S1
    BY <2>1, <2>5, <2>6 DEF Spent
  <2> QED
    BY <2>4, <2>7
<1>6. /\ Cardinality(R) <= Cardinality(R1) /\ Cardinality(S) <= Cardinality(S1)
      /\ (\E f \in Feed : RecordEvent(f)) => Cardinality(R) + 1 <= Cardinality(R1)
      /\ MarkCredited => Cardinality(S) + 1 <= Cardinality(S1)
  <2>1. Cardinality(R) <= Cardinality(R1) /\ Cardinality(S) <= Cardinality(S1)
    BY <1>2, <1>3, LargerSet
  <2>2. (\E f \in Feed : RecordEvent(f)) => Cardinality(R) + 1 <= Cardinality(R1)
    BY <1>2, <1>3, <1>4, LargerSet
  <2>3. MarkCredited => Cardinality(S) + 1 <= Cardinality(S1)
    <3> SUFFICES ASSUME MarkCredited PROVE Cardinality(S) + 1 <= Cardinality(S1)
      OBVIOUS
    <3>1. working.feed \in S1 /\ working.feed \notin S
      BY <1>5
    <3> QED
      BY <1>2, <1>3, <3>1, LargerSet
  <2> QED
    BY <2>1, <2>2, <2>3
<1>7. Room = Cardinality(R) + Cardinality(S) /\ Room' = Cardinality(R1) + Cardinality(S1)
      /\ Cardinality(Recorded)' = Cardinality(R1)
  BY DEF Room
<1> HIDE DEF R, R1, S, S1
<1>8. PICK r, r1, s, s1 \in Nat : r = Cardinality(R) /\ r1 = Cardinality(R1) /\ s = Cardinality(S) /\ s1 = Cardinality(S1)
  BY <1>2
<1>9. /\ r \in Nat /\ r1 \in Nat /\ r + s \in Nat /\ r1 + s1 \in Nat
      /\ r <= r1 /\ r + s <= r1 + s1
      /\ (\E f \in Feed : RecordEvent(f)) => r + 1 <= r1 /\ (r + s) + 1 <= r1 + s1
      /\ MarkCredited => (r + s) + 1 <= r1 + s1
  <2>1. /\ r <= r1 /\ s <= s1
        /\ (\E f \in Feed : RecordEvent(f)) => r + 1 <= r1
        /\ MarkCredited => s + 1 <= s1
    BY <1>6, <1>8
  <2> QED
    BY <2>1
<1> QED
  BY <1>7, <1>8, <1>9 DEF R

LEMMA CountStarts == FeedbackInit => CountSense
<1> SUFFICES ASSUME FeedbackInit, NEW a \in Arm
             PROVE  /\ memory.trials[a] <= Cardinality(Recorded) /\ saved.trials[a] <= Cardinality(Recorded)
                    /\ memory.successes[a] + One(working.pc = "success") <= Room
                    /\ saved.successes[a] + One(working.pc = "success") <= Room
  BY DEF CountSense
<1>1. memory.trials[a] = 0 /\ memory.successes[a] = 0 /\ saved = memory
  BY FreshIs DEF FeedbackInit
<1>2. One(working.pc = "success") = 0
  BY DEF FeedbackInit, NoWork, One
<1>3. Recorded \subseteq Feed /\ Spent \subseteq Feed
  BY DEF Recorded, Spent
<1>4. Cardinality(Recorded) \in Nat /\ Room \in Nat
  BY <1>3, FeedsAreFinite DEF Room
<1> QED
  BY <1>1, <1>2, <1>4

LEMMA CountStep ==
  ASSUME Shape, WorkSense, Shape', CountSense, [FeedbackNext]_feedbackVars
  PROVE  CountSense'
<1> SUFFICES ASSUME NEW a \in Arm
             PROVE  /\ memory'.trials[a] <= Cardinality(Recorded)'
                    /\ saved'.trials[a] <= Cardinality(Recorded)'
                    /\ memory'.successes[a] + One(working'.pc = "success") <= Room'
                    /\ saved'.successes[a] + One(working'.pc = "success") <= Room'
  BY DEF CountSense
<1> DEFINE r == Cardinality(Recorded)
           p == One(working.pc = "success")
           p1 == One(working'.pc = "success")
<1>0. /\ r \in Nat /\ r' \in Nat /\ Room \in Nat /\ Room' \in Nat
      /\ r <= r' /\ Room <= Room'
      /\ (\E f \in Feed : RecordEvent(f)) => r + 1 <= r' /\ Room + 1 <= Room'
      /\ MarkCredited => Room + 1 <= Room'
  BY RoomGrows
<1>1. /\ memory.trials[a] \in Nat /\ saved.trials[a] \in Nat
      /\ memory.successes[a] \in Nat /\ saved.successes[a] \in Nat
      /\ memory'.trials[a] \in Nat /\ saved'.trials[a] \in Nat
      /\ memory'.successes[a] \in Nat /\ saved'.successes[a] \in Nat
      /\ p \in {0, 1} /\ p1 \in {0, 1}
  BY DEF Shape, Tally, One
<1>2. /\ memory.trials[a] <= r /\ saved.trials[a] <= r
      /\ memory.successes[a] + p <= Room /\ saved.successes[a] + p <= Room
  BY DEF CountSense
<1> SUFFICES /\ memory'.trials[a] <= r' /\ saved'.trials[a] <= r'
             /\ memory'.successes[a] + p1 <= Room' /\ saved'.successes[a] + p1 <= Room'
  OBVIOUS
<1>3. CASE /\ memory'.trials = memory.trials /\ memory'.successes = memory.successes
           /\ saved'.trials = saved.trials /\ saved'.successes = saved.successes
           /\ working'.pc = working.pc \/ working'.pc # "success"
  <2>1. p1 <= p
    BY <1>3 DEF One
  <2> HIDE DEF r, p, p1
  <2> QED
    BY <1>0, <1>1, <1>2, <1>3, <2>1
<1>4. ASSUME NEW f \in Feed, RecordEvent(f)
      PROVE  /\ memory'.trials[a] <= r' /\ saved'.trials[a] <= r'
             /\ memory'.successes[a] + p1 <= Room' /\ saved'.successes[a] + p1 <= Room'
  <2>1. /\ memory'.trials[a] = memory.trials[a] + (IF a = feed[f].arm THEN 1 ELSE 0)
        /\ memory'.successes[a] = memory.successes[a]
             + (IF a = feed[f].arm /\ feed[f].clicked THEN 1 ELSE 0)
        /\ saved'.trials = saved.trials /\ saved'.successes = saved.successes
    BY <1>4, EventIsRecorded
  <2>2. memory'.trials[a] <= memory.trials[a] + 1 /\ memory'.successes[a] <= memory.successes[a] + 1
    BY <1>1, <2>1
  <2>3. r + 1 <= r' /\ Room + 1 <= Room' /\ p = 0 /\ p1 = 0
    BY <1>0, <1>4 DEF RecordEvent, Under, One
  <2> HIDE DEF r, p, p1
  <2> QED
    BY <1>0, <1>1, <1>2, <2>1, <2>2, <2>3
<1>5. CASE MarkCredited
  <2>1. memory' = memory /\ saved' = saved /\ p = 0 /\ Room + 1 <= Room'
    BY <1>0, <1>5 DEF MarkCredited, Under, One
  <2> HIDE DEF r, p, p1
  <2> QED
    BY <1>0, <1>1, <1>2, <2>1
<1>6. CASE CountSuccess
  <2>1. Shown(working.feed)
    BY <1>6 DEF CountSuccess, WorkSense
  <2>2. /\ memory'.trials = memory.trials
        /\ memory'.successes[a] = memory.successes[a]
             + (IF a = ImpressionOf(working.feed).arm THEN 1 ELSE 0)
        /\ saved'.trials = memory'.trials /\ saved'.successes = memory'.successes
    BY <1>6, <2>1, SuccessIsCounted
  <2>3. memory'.successes[a] <= memory.successes[a] + 1
    BY <1>1, <2>2
  <2>4. p = 1 /\ p1 = 0
    BY <1>6 DEF CountSuccess, Under, One
  <2> HIDE DEF r, p, p1
  <2> QED
    BY <1>0, <1>1, <1>2, <2>2, <2>3, <2>4
<1>7. CASE StoreCounters \/ ResetCounters
  <2>1. memory' = memory /\ saved'.trials = memory.trials /\ saved'.successes = memory.successes
    BY <1>7, CountersArePut DEF StoreCounters, ResetCounters
  <2>2. p1 = 0
    BY <1>7 DEF StoreCounters, ResetCounters, PutCounters, Under, One
  <2> HIDE DEF r, p, p1
  <2> QED
    BY <1>0, <1>1, <1>2, <2>1, <2>2
<1>8. ASSUME NEW mode \in Mode, SwitchMode(mode)
      PROVE  /\ memory'.trials[a] <= r' /\ saved'.trials[a] <= r'
             /\ memory'.successes[a] + p1 <= Room' /\ saved'.successes[a] + p1 <= Room'
  <2>1. memory'.trials[a] = 0 /\ memory'.successes[a] = 0 /\ saved' = saved
    BY <1>8, MemoryIsFresh
  <2>2. p1 = 0
    BY <1>8 DEF SwitchMode, One
  <2> HIDE DEF r, p, p1
  <2> QED
    BY <1>0, <1>1, <1>2, <2>1, <2>2
<1>9. CASE CrashAndRestore
  <2>1. /\ saved' = memory' /\ memory'.trials = saved.trials /\ memory'.successes = saved.successes
    BY <1>9, MemoryIsRestored
  <2>2. p1 = 0
    BY <1>9 DEF CrashAndRestore, NoWork, One
  <2> HIDE DEF r, p, p1
  <2> QED
    BY <1>0, <1>1, <1>2, <2>1, <2>2
<1>10. CASE Reward \/ CreditWindow \/ ClearWindow \/ SetMode
  <2>1. /\ memory'.trials = memory.trials /\ memory'.successes = memory.successes
        /\ saved'.trials = saved.trials /\ saved'.successes = saved.successes
    BY <1>10, BanditIsRewarded, ClickIsCredited, WindowIsCleared, ModeIsSet
  <2>2. working'.pc # "success"
    BY <1>10 DEF Reward, CreditWindow, ClearWindow, SetMode, Under
  <2> QED
    BY <1>3, <2>1, <2>2
<1>11. CASE \E f \in Feed, item \in Item, clicked \in BOOLEAN : AddFeedback(f, item, clicked)
  BY <1>3, <1>11 DEF AddFeedback, Under
<1>12. CASE UNCHANGED <<memory, saved, working>>
  BY <1>3, <1>12
<1>13. [FeedbackNext]_feedbackVars =>
         \/ UNCHANGED <<memory, saved, working>> \/ \E f \in Feed : RecordEvent(f)
         \/ StoreCounters \/ ResetCounters \/ Reward \/ MarkCredited
         \/ \E f \in Feed, item \in Item, clicked \in BOOLEAN : AddFeedback(f, item, clicked)
         \/ CountSuccess \/ CreditWindow \/ \E mode \in Mode : SwitchMode(mode)
         \/ ClearWindow \/ SetMode \/ CrashAndRestore
  BY DEF FeedbackNext, feedbackVars, Decide, AddImpression
<1> HIDE DEF r, p, p1
<1> QED
  BY <1>4, <1>5, <1>6, <1>7, <1>8, <1>9, <1>10, <1>11, <1>12, <1>13

-----------------------------------------------------------------------------
\* A pair of feed and item rewards the bandit once: it is spent when it is stored, or when
\* its feed cannot be given feedback any more.
SpentPairs == {p \in Feed \X Item : \/ feed[p[1]].pc = "over" /\ ~Shown(p[1])
                                    \/ \E b \in feedback : b.feed = p[1] /\ b.item = p[2]}
Pairs == Cardinality(SpentPairs)
Rewarding == working.pc \in {"reward", "clicked"}

RewardSense ==
  /\ memory.rewards + One(Rewarding) <= Pairs
  /\ crashes = 0 => memory.rewards + One(Rewarding) = Cardinality(feedback)

LEMMA PairsAreFinite ==
  /\ IsFiniteSet(Feed \X Item)
  /\ Cardinality(Feed \X Item) = MaxFeeds * Cardinality(Item)
  /\ IsFiniteSet(SpentPairs) /\ Pairs \in Nat /\ Pairs <= MaxFeeds * Cardinality(Item)
<1>1. IsFiniteSet(Feed) /\ Cardinality(Feed) = MaxFeeds
  BY BoundsAreNumbers, FS_Interval DEF Feed
<1>2. IsFiniteSet(Item)
  BY FeedbackAssumption
<1>3. IsFiniteSet(Feed \X Item) /\ Cardinality(Feed \X Item) = MaxFeeds * Cardinality(Item)
  BY <1>1, <1>2, FS_Product
<1>4. SpentPairs \subseteq Feed \X Item
  BY DEF SpentPairs
<1>5. IsFiniteSet(SpentPairs) /\ Cardinality(SpentPairs) <= Cardinality(Feed \X Item)
  BY <1>3, <1>4, FS_Subset
<1>6. Cardinality(SpentPairs) \in Nat
  BY <1>5, FS_CardinalityType
<1> QED
  BY <1>3, <1>5, <1>6 DEF Pairs

LEMMA FeedbackIsFinite ==
  ASSUME Shape
  PROVE  IsFiniteSet(feedback) /\ Cardinality(feedback) \in Nat
<1> DEFINE pair == [b \in feedback |-> <<b.feed, b.item>>]
<1>1. pair \in Injection(feedback, Feed \X Item)
  <2>1. pair \in [feedback -> Feed \X Item]
    BY DEF Shape
  <2>2. \A b, d \in feedback : pair[b] = pair[d] => b = d
    BY DEF Shape
  <2> HIDE DEF pair
  <2> QED
    BY <2>1, <2>2 DEF Injection, IsInjective
<1>2. IsFiniteSet(feedback)
  BY <1>1, PairsAreFinite, FS_Injection
<1> QED
  BY <1>2, FS_CardinalityType

LEMMA PairsGrow ==
  ASSUME Shape, WorkSense, Shape', [FeedbackNext]_feedbackVars
  PROVE  /\ Pairs \in Nat /\ Pairs' \in Nat /\ Pairs <= Pairs'
         /\ (\E f \in Feed, item \in Item, clicked \in BOOLEAN : AddFeedback(f, item, clicked)) =>
              Pairs + 1 <= Pairs' /\ Cardinality(feedback)' = Cardinality(feedback) + 1
<1> DEFINE P == SpentPairs
           P1 == SpentPairs'
<1>1. IsFiniteSet(P) /\ Pairs = Cardinality(P) /\ Pairs \in Nat
  BY PairsAreFinite DEF Pairs
<1>2. IsFiniteSet(P1) /\ Pairs' = Cardinality(P1) /\ Pairs' \in Nat
  <2>1. P1 \subseteq Feed \X Item
    BY DEF SpentPairs
  <2>2. IsFiniteSet(P1)
    BY <2>1, PairsAreFinite, FS_Subset
  <2> QED
    BY <2>2, FS_CardinalityType DEF Pairs
<1>3. P \subseteq P1
  <2>1. CASE UNCHANGED <<feed, impressions, feedback>>
    BY <2>1 DEF SpentPairs, Shown
  <2>2. ASSUME NEW f \in Feed, Decide(f) \/ RecordEvent(f)
        PROVE  P \subseteq P1
    <3>1. /\ impressions' = impressions /\ feedback' = feedback
          /\ \A e \in Feed : feed[e].pc = "over" => feed'[e] = feed[e]
      BY <2>2 DEF Decide, RecordEvent, Under, NextFeed, Begun, Shape
    <3> QED
      BY <3>1 DEF SpentPairs, Shown
  <2>3. ASSUME NEW f \in Feed, AddImpression(f)
        PROVE  P \subseteq P1
    <3>1. /\ feed[f].pc = "recorded" /\ feed' = [feed EXCEPT ![f] = [NotServed EXCEPT !.pc = "over"]]
          /\ \A i \in impressions' : i \in impressions \/ i.feed = f
          /\ feedback' = feedback
      BY <2>3 DEF AddImpression
    <3>2. \A e \in Feed : e # f => feed'[e] = feed[e]
      BY <3>1 DEF Shape
    <3> QED
      BY <3>1, <3>2 DEF SpentPairs, Shown
  <2>4. CASE MarkCredited
    <3>1. feed' = feed /\ feedback' = feedback
          /\ \A j \in impressions' : \E i \in impressions : j.feed = i.feed
      <4>1. /\ feed' = feed /\ feedback' = feedback
            /\ impressions' = {IF i.feed = working.feed THEN [i EXCEPT !.credited = TRUE] ELSE i :
                                 i \in impressions}
        BY <2>4 DEF MarkCredited, Under
      <4>2. \A i \in impressions : i \in [feed : Feed, arm : Lane, source : Mode, credited : BOOLEAN]
        BY DEF Shape
      <4> QED
        BY <4>1, <4>2
    <3> QED
      BY <3>1 DEF SpentPairs, Shown
  <2>5. CASE CrashAndRestore
    <3>1. PICK since \in 1..(MaxFeeds + 1) :
            /\ impressions' = {i \in impressions : i.feed >= since}
            /\ feedback' = {b \in feedback : b.feed >= since}
      BY <2>5 DEF CrashAndRestore
    <3>2. feed' = [f \in Feed |-> IF Begun(f) THEN [NotServed EXCEPT !.pc = "over"] ELSE feed[f]]
      BY <2>5 DEF CrashAndRestore
    <3>3. \A f \in Feed : feed[f].pc = "over" => feed'[f].pc = "over"
      BY <3>2 DEF NotServed, Begun
    <3>4. \A f \in Feed : Shown(f)' => Shown(f)
      BY <3>1 DEF Shown
    <3>5. ASSUME NEW b \in feedback
          PROVE  b \in feedback' \/ (feed'[b.feed].pc = "over" /\ ~Shown(b.feed)')
      <4>1. CASE b.feed >= since
        BY <3>1, <4>1
      <4>2. CASE ~(b.feed >= since)
        <5>1. feed[b.feed].pc = "over" /\ b.feed \in Feed
          BY DEF WorkSense, Shown, Shape
        <5>2. ~Shown(b.feed)'
          BY <3>1, <4>2 DEF Shown
        <5> QED
          BY <3>3, <5>1, <5>2
      <4> QED
        BY <4>1, <4>2
    <3> SUFFICES ASSUME NEW p \in P PROVE p \in P1
      OBVIOUS
    <3>6. p \in Feed \X Item /\ p[1] \in Feed
      BY DEF SpentPairs
    <3>7. CASE feed[p[1]].pc = "over" /\ ~Shown(p[1])
      <4>1. feed'[p[1]].pc = "over" /\ ~Shown(p[1])'
        BY <3>3, <3>4, <3>6, <3>7
      <4> QED
        BY <3>6, <4>1 DEF SpentPairs, Shown
    <3>8. ASSUME NEW b \in feedback, b.feed = p[1], b.item = p[2]
          PROVE  p \in P1
      BY <3>5, <3>6, <3>8 DEF SpentPairs, Shown
    <3> QED
      BY <3>7, <3>8 DEF SpentPairs
  <2>6. ASSUME NEW f \in Feed, NEW item \in Item, NEW clicked \in BOOLEAN, AddFeedback(f, item, clicked)
        PROVE  P \subseteq P1
    <3>1. feed' = feed /\ impressions' = impressions /\ feedback \subseteq feedback'
      BY <2>6 DEF AddFeedback
    <3> QED
      BY <3>1 DEF SpentPairs, Shown
  <2> QED
    BY <2>1, <2>2, <2>3, <2>4, <2>5, <2>6 DEF FeedbackNext, feedbackVars, StoreCounters, Reward,
       CountSuccess, CreditWindow, SwitchMode, ClearWindow, ResetCounters, SetMode
<1>4. ASSUME NEW f \in Feed, NEW item \in Item, NEW clicked \in BOOLEAN, AddFeedback(f, item, clicked)
      PROVE  /\ <<f, item>> \in P1 /\ <<f, item>> \notin P
             /\ Cardinality(feedback)' = Cardinality(feedback) + 1
  <2> DEFINE b == [feed |-> f, item |-> item, clicked |-> clicked]
  <2>1. feedback' = feedback \cup {b} /\ Shown(f) /\ \A d \in feedback : ~(d.feed = f /\ d.item = item)
    BY <1>4 DEF AddFeedback, Shown, IsRepeat
  <2>2. b.feed = f /\ b.item = item /\ b \notin feedback
    BY <2>1
  <2>3. <<f, item>> \notin P
    BY <2>1 DEF SpentPairs
  <2>4. <<f, item>> \in P1
    BY <2>1, <2>2 DEF SpentPairs
  <2>5. Cardinality(feedback \cup {b}) = Cardinality(feedback) + 1
    BY <2>2, FeedbackIsFinite, FS_AddElement
  <2> QED
    BY <2>1, <2>3, <2>4, <2>5
<1> HIDE DEF P, P1
<1>5. Pairs <= Pairs'
  BY <1>1, <1>2, <1>3, LargerSet
<1>6. (\E f \in Feed, item \in Item, clicked \in BOOLEAN : AddFeedback(f, item, clicked)) => Pairs + 1 <= Pairs'
  BY <1>1, <1>2, <1>3, <1>4, LargerSet
<1> QED
  BY <1>1, <1>2, <1>4, <1>5, <1>6

LEMMA RewardStarts == FeedbackInit => RewardSense
<1> SUFFICES ASSUME FeedbackInit PROVE RewardSense
  OBVIOUS
<1>1. memory.rewards = 0
  BY FreshIs DEF FeedbackInit
<1>2. One(Rewarding) = 0
  BY DEF FeedbackInit, NoWork, Rewarding, One
<1>3. Cardinality(feedback) = 0
  BY FS_EmptySet DEF FeedbackInit
<1> QED
  BY <1>1, <1>2, <1>3, PairsAreFinite DEF RewardSense

LEMMA RewardStep ==
  ASSUME Shape, WorkSense, Shape', SavedSense, RewardSense, [FeedbackNext]_feedbackVars
  PROVE  RewardSense'
<1> DEFINE n == Cardinality(feedback)
           p == One(Rewarding)
<1>0. /\ Pairs \in Nat /\ Pairs' \in Nat /\ Pairs <= Pairs' /\ n \in Nat /\ crashes \in Nat
      /\ memory.rewards \in Nat /\ memory'.rewards \in Nat /\ p \in {0, 1} /\ p' \in {0, 1}
      /\ memory.rewards + p <= Pairs /\ (crashes = 0 => memory.rewards + p = n)
  <2>1. Pairs \in Nat /\ Pairs' \in Nat /\ Pairs <= Pairs' /\ n \in Nat
    BY PairsGrow, FeedbackIsFinite
  <2>2. crashes \in Nat
    BY BoundsAreNumbers DEF Shape
  <2>3. memory.rewards \in Nat /\ memory'.rewards \in Nat
    BY DEF Shape, Tally
  <2>4. p \in {0, 1} /\ p' \in {0, 1}
    BY DEF One
  <2>5. memory.rewards + p <= Pairs /\ (crashes = 0 => memory.rewards + p = n)
    BY DEF RewardSense
  <2> QED
    BY <2>1, <2>2, <2>3, <2>4, <2>5
<1> SUFFICES /\ memory'.rewards + p' <= Pairs'
             /\ crashes' = 0 => memory'.rewards + p' = n'
  BY DEF RewardSense
<1>1. CASE /\ memory'.rewards = memory.rewards /\ feedback' = feedback /\ crashes' = crashes
           /\ Rewarding' <=> Rewarding
  <2>1. p' = p /\ n' = n
    BY <1>1 DEF One
  <2> HIDE DEF n, p
  <2> QED
    BY <1>0, <1>1, <2>1
<1>2. CASE \E f \in Feed, item \in Item, clicked \in BOOLEAN : AddFeedback(f, item, clicked)
  <2>1. /\ memory' = memory /\ crashes' = crashes /\ p = 0 /\ p' = 1
    BY <1>2 DEF AddFeedback, Under, Rewarding, One
  <2>2. Pairs + 1 <= Pairs' /\ n' = n + 1
    BY <1>2, PairsGrow
  <2> HIDE DEF n, p
  <2> QED
    BY <1>0, <2>1, <2>2
<1>3. CASE Reward
  <2>1. memory'.rewards = memory.rewards + 1
    BY <1>3, BanditIsRewarded
  <2>2. feedback' = feedback /\ crashes' = crashes /\ p = 1 /\ p' = 0
    BY <1>3 DEF Reward, Under, Rewarding, One
  <2>3. n' = n
    BY <2>2
  <2> HIDE DEF n, p
  <2> QED
    BY <1>0, <2>1, <2>2, <2>3
<1>4. CASE CrashAndRestore
  <2>1. memory'.rewards = memory.rewards
    BY <1>4, MemoryIsRestored DEF SavedSense
  <2>2. crashes' = crashes + 1 /\ p' = 0
    BY <1>4 DEF CrashAndRestore, NoWork, Rewarding, One
  <2> HIDE DEF n, p
  <2> QED
    BY <1>0, <2>1, <2>2
<1>5. CASE \E f \in Feed : RecordEvent(f)
  <2>1. memory'.rewards = memory.rewards
    BY <1>5, EventIsRecorded
  <2> HIDE DEF n, p
  <2>2. PICK f \in Feed : RecordEvent(f)
    BY <1>5
  <2>3. working.pc = "free" /\ working' = [pc |-> "count", feed |-> f]
    BY ONLY <2>2 DEF RecordEvent, Under
  <2>4. feedback' = feedback /\ crashes' = crashes
    BY ONLY <2>2 DEF RecordEvent, Under
  <2>5. ~Rewarding /\ ~Rewarding'
    BY <2>3 DEF Rewarding
  <2> QED
    BY <1>1, <2>1, <2>4, <2>5
<1>6. CASE \E mode \in Mode : SwitchMode(mode)
  <2>1. memory'.rewards = memory.rewards
    BY <1>6, MemoryIsFresh
  <2> HIDE DEF n, p
  <2>2. feedback' = feedback /\ crashes' = crashes /\ ~Rewarding /\ ~Rewarding'
    BY <1>6 DEF SwitchMode, Rewarding
  <2> QED
    BY <1>1, <2>1, <2>2
<1>7. CASE CountSuccess
  <2>1. Shown(working.feed)
    BY <1>7 DEF CountSuccess, WorkSense
  <2>2. memory'.rewards = memory.rewards
    BY <1>7, <2>1, SuccessIsCounted
  <2> HIDE DEF n, p
  <2>3. feedback' = feedback /\ crashes' = crashes /\ ~Rewarding /\ ~Rewarding'
    BY <1>7 DEF CountSuccess, Under, Rewarding
  <2> QED
    BY <1>1, <2>2, <2>3
<1>8. CASE StoreCounters \/ ResetCounters \/ CreditWindow \/ ClearWindow \/ SetMode
  <2>1. memory'.rewards = memory.rewards
    BY <1>8, CountersArePut, ClickIsCredited, WindowIsCleared, ModeIsSet DEF StoreCounters, ResetCounters
  <2>2. /\ feedback' = feedback /\ crashes' = crashes /\ ~Rewarding /\ ~Rewarding'
    BY <1>8 DEF StoreCounters, ResetCounters, CreditWindow, ClearWindow, SetMode, PutCounters, Under,
                Rewarding, Side
  <2> QED
    BY <1>1, <2>1, <2>2
<1>9. CASE MarkCredited
  BY <1>1, <1>9 DEF MarkCredited, Under, Rewarding
<1>10. CASE UNCHANGED <<memory, feedback, working, crashes>>
  BY <1>1, <1>10 DEF Rewarding
<1>11. [FeedbackNext]_feedbackVars =>
         \/ UNCHANGED <<memory, feedback, working, crashes>> \/ \E f \in Feed : RecordEvent(f)
         \/ StoreCounters \/ ResetCounters \/ Reward \/ MarkCredited
         \/ \E f \in Feed, item \in Item, clicked \in BOOLEAN : AddFeedback(f, item, clicked)
         \/ CountSuccess \/ CreditWindow \/ \E mode \in Mode : SwitchMode(mode)
         \/ ClearWindow \/ SetMode \/ CrashAndRestore
  BY DEF FeedbackNext, feedbackVars, Decide, AddImpression
<1> HIDE DEF n, p
<1> QED
  BY <1>2, <1>3, <1>4, <1>5, <1>6, <1>7, <1>8, <1>9, <1>10, <1>11

-----------------------------------------------------------------------------
\* While the mode was not switched under a feed: what was served belongs to the mode in
\* memory, and a switch finds nothing served.
ModeSense ==
  /\ \A f \in Feed : feed[f].clicked => Begun(f)
  /\ ~late =>
       /\ \A f \in Feed : feed[f].clicked => memory.mode = "simulated"
       /\ \A i \in impressions : i.source = memory.mode
       /\ working.pc \in Switching =>
            /\ \A f \in Feed : feed[f].pc # "recorded"
            /\ impressions = {}
            /\ \A a \in Arm : memory.successes[a] = 0 /\ saved.successes[a] = 0

LEMMA ModeStarts == FeedbackInit => ModeSense
BY DEF FeedbackInit, ModeSense, NotServed, NoWork, Switching

\* Before the first feed nothing is counted.
LEMMA NothingCounted ==
  ASSUME Shape, WorkSense, CountSense, \A f \in Feed : ~Begun(f)
  PROVE  /\ impressions = {} /\ \A f \in Feed : feed[f].pc = "new"
         /\ \A a \in Arm : memory.successes[a] = 0 /\ saved.successes[a] = 0
<1>1. \A f \in Feed : feed[f].pc = "new"
  BY DEF Begun
<1>2. impressions = {}
  BY <1>1 DEF WorkSense, Shape
<1>3. Recorded = {} /\ Spent = {}
  BY <1>1 DEF Recorded, Spent
<1>4. Room = 0
  BY <1>3, FS_EmptySet DEF Room
<1>5. ASSUME NEW a \in Arm
      PROVE  memory.successes[a] = 0 /\ saved.successes[a] = 0
  <2>1. memory.successes[a] \in Nat /\ saved.successes[a] \in Nat
    BY DEF Shape, Tally
  <2>2. One(working.pc = "success") \in {0, 1}
    BY DEF One
  <2>3. /\ memory.successes[a] + One(working.pc = "success") <= 0
        /\ saved.successes[a] + One(working.pc = "success") <= 0
    BY <1>4 DEF CountSense
  <2> QED
    BY <2>1, <2>2, <2>3
<1> QED
  BY <1>1, <1>2, <1>5

LEMMA ModeStep ==
  ASSUME Shape, WorkSense, SavedSense, CountSense, ModeSense, [FeedbackNext]_feedbackVars
  PROVE  ModeSense'
<1>1. CASE UNCHANGED feedbackVars
  BY <1>1 DEF feedbackVars, ModeSense, Begun
<1>2. CASE Counting
  <2>1. /\ UNCHANGED <<impressions, feedback, feed, late>> /\ memory'.mode = memory.mode
    BY <1>2, CountingIs
  <2>2. working'.pc \in Switching =>
          /\ working.pc \in Switching
          /\ memory'.successes = memory.successes
          /\ saved'.successes = saved.successes \/ saved'.successes = memory.successes
    <3>1. CASE StoreCounters \/ Reward \/ CountSuccess \/ CreditWindow \/ SetMode
      BY <3>1 DEF StoreCounters, Reward, CountSuccess, CreditWindow, SetMode, PutCounters, Under, Switching
    <3>2. CASE ClearWindow
      BY <3>2, WindowIsCleared DEF Switching, Side
    <3>3. CASE ResetCounters
      BY <3>3, CountersArePut DEF ResetCounters, Switching
    <3> QED
      BY <1>2, <3>1, <3>2, <3>3 DEF Counting
  <2> QED
    BY <2>1, <2>2 DEF ModeSense, Begun
<1>3. ASSUME NEW f \in Feed, Decide(f)
      PROVE  ModeSense'
  <2>1. PICK arm \in Lane, side \in Side, clicked \in BOOLEAN :
          /\ clicked => memory.mode = "simulated"
          /\ feed' = [feed EXCEPT ![f] = [pc |-> "decided", arm |-> arm, side |-> side,
                                          clicked |-> clicked]]
    BY <1>3 DEF Decide, Lane
  <2>2. UNCHANGED <<memory, saved, impressions, working, late>>
    BY <1>3 DEF Decide
  <2>3. /\ feed'[f].pc = "decided" /\ (feed'[f].clicked => memory.mode = "simulated")
        /\ \A e \in Feed : e # f => feed'[e] = feed[e]
    BY <2>1 DEF Shape
  <2> QED
    BY <2>2, <2>3 DEF ModeSense, Begun
<1>4. ASSUME NEW f \in Feed, RecordEvent(f)
      PROVE  ModeSense'
  <2>1. memory'.mode = memory.mode
    BY <1>4, EventIsRecorded
  <2>2. UNCHANGED <<impressions, late>> /\ working'.pc = "count"
        /\ feed' = [feed EXCEPT ![f].pc = "recorded"] /\ feed[f].pc = "decided"
    BY <1>4 DEF RecordEvent, Under
  <2>3. /\ \A e \in Feed : feed'[e].clicked = feed[e].clicked
        /\ \A e \in Feed : feed[e].pc # "new" => feed'[e].pc # "new"
    BY <2>2 DEF Shape
  <2> QED
    BY <2>1, <2>2, <2>3 DEF ModeSense, Begun, Switching
<1>5. ASSUME NEW f \in Feed, AddImpression(f)
      PROVE  ModeSense'
  <2>1. /\ UNCHANGED <<memory, saved, working, late>>
        /\ feed' = [feed EXCEPT ![f] = [NotServed EXCEPT !.pc = "over"]] /\ feed[f].pc = "recorded"
        /\ \A i \in impressions' : i \in impressions \/ i.source = memory.mode
    BY <1>5 DEF AddImpression
  <2>2. /\ \A e \in Feed : e # f => feed'[e] = feed[e]
        /\ feed'[f].clicked = FALSE /\ feed'[f].pc = "over"
    BY <2>1 DEF Shape, NotServed
  <2>3. late \/ working.pc \notin Switching
    BY <2>1 DEF ModeSense
  <2> QED
    BY <2>1, <2>2, <2>3 DEF ModeSense, Begun
<1>6. ASSUME NEW f \in Feed, NEW item \in Item, NEW clicked \in BOOLEAN, AddFeedback(f, item, clicked)
      PROVE  ModeSense'
  <2>1. /\ UNCHANGED <<memory, saved, impressions, feed, late>> /\ working'.pc \in {"clicked", "reward"}
    BY <1>6 DEF AddFeedback, Under
  <2> QED
    BY <2>1 DEF ModeSense, Begun, Switching
<1>7. CASE MarkCredited
  <2>1. /\ UNCHANGED <<memory, saved, feed, late>> /\ working'.pc = "success"
        /\ impressions' = {IF i.feed = working.feed THEN [i EXCEPT !.credited = TRUE] ELSE i :
                             i \in impressions}
    BY <1>7 DEF MarkCredited, Under
  <2>2. \A j \in impressions' : \E i \in impressions : j.source = i.source
    <3>1. \A i \in impressions : i \in [feed : Feed, arm : Lane, source : Mode, credited : BOOLEAN]
      BY DEF Shape
    <3> QED
      BY <2>1, <3>1
  <2> QED
    BY <2>1, <2>2 DEF ModeSense, Begun, Switching
<1>8. ASSUME NEW mode \in Mode, SwitchMode(mode)
      PROVE  ModeSense'
  <2>1. /\ saved' = saved /\ \A a \in Arm : memory'.successes[a] = 0
    BY <1>8, MemoryIsFresh
  <2>2. /\ UNCHANGED <<feed, impressions>> /\ late' = (late \/ \E f \in Feed : Begun(f))
    BY <1>8 DEF SwitchMode
  <2>3. CASE late'
    BY <2>2, <2>3 DEF ModeSense, Begun
  <2>4. CASE ~late'
    <3>1. \A f \in Feed : ~Begun(f)
      BY <2>2, <2>4
    <3>2. /\ impressions = {} /\ \A f \in Feed : feed[f].pc = "new"
          /\ \A a \in Arm : saved.successes[a] = 0
      BY <3>1, NothingCounted
    <3> QED
      BY <2>1, <2>2, <3>1, <3>2 DEF ModeSense, Begun
  <2> QED
    BY <2>3, <2>4
<1>9. CASE CrashAndRestore
  <2>1. memory'.mode = saved.mode
    BY <1>9, MemoryIsRestored
  <2>2. /\ late' = late /\ working'.pc = "free" /\ impressions' \subseteq impressions
        /\ feed' = [f \in Feed |-> IF Begun(f) THEN [NotServed EXCEPT !.pc = "over"] ELSE feed[f]]
    BY <1>9 DEF CrashAndRestore, NoWork
  <2>3. \A f \in Feed : ~feed'[f].clicked
    BY <2>2 DEF NotServed, ModeSense
  <2>4. ~late => \A i \in impressions' : i.source = saved.mode
    BY <2>2 DEF ModeSense, SavedSense
  <2> QED
    BY <2>1, <2>2, <2>3, <2>4 DEF ModeSense, Switching
<1> QED
  BY <1>1, <1>2, <1>3, <1>4, <1>5, <1>6, <1>7, <1>8, <1>9 DEF FeedbackNext, Counting

-----------------------------------------------------------------------------
\* A feed served in feedback mode is a trial that may still become a success, until its
\* click is credited; Stored leaves out the trial the store does not count yet.
Open(a) == {f \in Feed : /\ memory.mode = "feedback"
                         /\ \/ feed[f].pc = "recorded" /\ feed[f].arm = a
                            \/ \E i \in impressions : i.feed = f /\ i.arm = a /\ ~i.credited}
Stored(a) == {f \in Open(a) : ~(working.pc = "count" /\ working.feed = f)}

\* A credited click that is not counted yet.
Pending(a) == One(working.pc = "success" /\ ImpressionOf(working.feed).arm = a)

MemoryLoad(a) == Cardinality(Open(a)) + Pending(a)
StoreLoad(a) == Cardinality(Stored(a)) + Pending(a)

SuccessSense == ~late =>
  \A a \in Arm : /\ memory.successes[a] + MemoryLoad(a) <= memory.trials[a]
                 /\ saved.successes[a] + StoreLoad(a) <= saved.trials[a]

LEMMA LoadsAreNumbers ==
  ASSUME NEW a
  PROVE  /\ IsFiniteSet(Open(a)) /\ IsFiniteSet(Open(a)') /\ IsFiniteSet(Stored(a))
         /\ IsFiniteSet(Stored(a)')
         /\ Cardinality(Open(a)) \in Nat /\ Cardinality(Open(a)') \in Nat
         /\ Cardinality(Stored(a)) \in Nat /\ Cardinality(Stored(a)') \in Nat
         /\ Pending(a) \in {0, 1} /\ Pending(a)' \in {0, 1}
<1>1. Open(a) \subseteq Feed /\ Open(a)' \subseteq Feed
  BY DEF Open
<1>2. Stored(a) \subseteq Feed /\ Stored(a)' \subseteq Feed
  BY <1>1 DEF Stored
<1> QED
  BY <1>1, <1>2, FeedsAreFinite DEF Pending, One

\* When no more is open or pending, the loads do not grow.
LEMMA LoadsFall ==
  ASSUME NEW a, Pending(a)' <= Pending(a)
  PROVE  /\ Open(a)' \subseteq Open(a) => MemoryLoad(a)' <= MemoryLoad(a)
         /\ Stored(a)' \subseteq Stored(a) => StoreLoad(a)' <= StoreLoad(a)
<1> DEFINE o == Cardinality(Open(a))
           o1 == Cardinality(Open(a)')
           s == Cardinality(Stored(a))
           s1 == Cardinality(Stored(a)')
           p == Pending(a)
           p1 == Pending(a)'
<1>1. o \in Nat /\ o1 \in Nat /\ s \in Nat /\ s1 \in Nat /\ p \in Nat /\ p1 \in Nat /\ p1 <= p
  BY LoadsAreNumbers
<1>2. /\ Open(a)' \subseteq Open(a) => o1 <= o
      /\ Stored(a)' \subseteq Stored(a) => s1 <= s
  BY LoadsAreNumbers, LargerSet
<1>3. MemoryLoad(a) = o + p /\ MemoryLoad(a)' = o1 + p1 /\ StoreLoad(a) = s + p /\ StoreLoad(a)' = s1 + p1
  BY DEF MemoryLoad, StoreLoad
<1> HIDE DEF o, o1, s, s1, p, p1
<1> QED
  BY <1>1, <1>2, <1>3

LEMMA SuccessStarts == FeedbackInit => SuccessSense
<1> SUFFICES ASSUME FeedbackInit, NEW a \in Arm
             PROVE  /\ memory.successes[a] + MemoryLoad(a) <= memory.trials[a]
                    /\ saved.successes[a] + StoreLoad(a) <= saved.trials[a]
  BY DEF SuccessSense
<1>1. memory.trials[a] = 0 /\ memory.successes[a] = 0 /\ saved = memory
  BY FreshIs DEF FeedbackInit
<1>2. Open(a) = {}
  BY DEF FeedbackInit, Open, NotServed
<1>3. Stored(a) = {} /\ Pending(a) = 0
  BY <1>2 DEF Stored, FeedbackInit, NoWork, Pending, One
<1> QED
  BY <1>1, <1>2, <1>3, FS_EmptySet DEF MemoryLoad, StoreLoad

\* What is pending goes with an impression of the arm.
LEMMA SamePending ==
  ASSUME NEW a, impressions' = impressions \/ ~(working'.pc = "success"),
         working'.pc = "success" => working' = working
  PROVE  Pending(a)' <= Pending(a)
<1>1. Pending(a) \in {0, 1} /\ Pending(a)' \in {0, 1}
  BY LoadsAreNumbers
<1>2. CASE working'.pc # "success"
  <2>1. Pending(a)' = 0
    BY <1>2 DEF Pending, One
  <2> QED
    BY <1>1, <2>1
<1>3. CASE working' = working /\ impressions' = impressions
  <2>1. Pending(a)' = Pending(a)
    BY <1>3 DEF Pending, ImpressionOf
  <2> QED
    BY <1>1, <2>1
<1> QED
  BY <1>2, <1>3

LEMMA SuccessStep ==
  ASSUME Shape, WorkSense, Shape', WorkSense', SavedSense, CountSense, ModeSense, SuccessSense,
         [FeedbackNext]_feedbackVars
  PROVE  SuccessSense'
<1> SUFFICES ASSUME ~late', NEW a \in Arm
             PROVE  /\ memory'.successes[a] + MemoryLoad(a)' <= memory'.trials[a]
                    /\ saved'.successes[a] + StoreLoad(a)' <= saved'.trials[a]
  BY DEF SuccessSense
<1> DEFINE m == MemoryLoad(a)
           s == StoreLoad(a)
           Kept1 == /\ memory'.successes[a] + m' <= memory'.trials[a]
                    /\ saved'.successes[a] + s' <= saved'.trials[a]
<1> SUFFICES Kept1
  OBVIOUS
<1>0. ~late
  <2>1. late => late'
    BY DEF FeedbackNext, feedbackVars, Decide, RecordEvent, AddImpression, AddFeedback, StoreCounters,
           Reward, MarkCredited, CountSuccess, CreditWindow, SwitchMode, ClearWindow, ResetCounters,
           SetMode, CrashAndRestore, PutCounters, Under
  <2> QED
    BY <2>1
<1>1. /\ memory.successes[a] \in Nat /\ saved.successes[a] \in Nat
      /\ memory.trials[a] \in Nat /\ saved.trials[a] \in Nat
      /\ memory'.successes[a] \in Nat /\ saved'.successes[a] \in Nat
      /\ memory'.trials[a] \in Nat /\ saved'.trials[a] \in Nat
  BY DEF Shape, Tally
<1>2. m \in Nat /\ m' \in Nat /\ s \in Nat /\ s' \in Nat
  BY LoadsAreNumbers DEF MemoryLoad, StoreLoad
<1>3. memory.successes[a] + m <= memory.trials[a] /\ saved.successes[a] + s <= saved.trials[a]
  BY <1>0 DEF SuccessSense
<1>4. CASE /\ memory'.trials = memory.trials /\ memory'.successes = memory.successes
           /\ saved'.trials = saved.trials /\ saved'.successes = saved.successes
           /\ Open(a)' \subseteq Open(a) /\ Stored(a)' \subseteq Stored(a)
           /\ Pending(a)' <= Pending(a)
  <2>1. m' <= m /\ s' <= s
    BY <1>4, LoadsFall
  <2> HIDE DEF m, s
  <2> QED
    BY <1>1, <1>2, <1>3, <1>4, <2>1
<1>5. ASSUME NEW f \in Feed, Decide(f) \/ AddImpression(f)
      PROVE  Kept1
  <2>1. memory' = memory /\ saved' = saved /\ working' = working
    BY <1>5 DEF Decide, AddImpression
  <2>2. Open(a)' \subseteq Open(a)
    <3>1. CASE Decide(f)
      <4>1. impressions' = impressions /\ \A e \in Feed : feed'[e].pc = "recorded" => feed'[e] = feed[e]
        BY <3>1 DEF Decide, Shape
      <4> QED
        BY <2>1, <4>1 DEF Open
    <3>2. CASE AddImpression(f)
      <4>1. /\ feed[f].pc = "recorded" /\ feed' = [feed EXCEPT ![f] = [NotServed EXCEPT !.pc = "over"]]
            /\ \A i \in impressions' : i \in impressions \/ (i.feed = f /\ i.arm = feed[f].arm)
        BY <3>2 DEF AddImpression
      <4>2. \A e \in Feed : feed'[e].pc = "recorded" => feed'[e] = feed[e]
        BY <4>1 DEF Shape, NotServed
      <4> QED
        BY <2>1, <4>1, <4>2 DEF Open
    <3> QED
      BY <1>5, <3>1, <3>2
  <2>3. Stored(a)' \subseteq Stored(a)
    BY <2>1, <2>2 DEF Stored
  <2>4. Pending(a)' <= Pending(a)
    <3>1. CASE impressions' = impressions
      BY <2>1, <3>1, SamePending
    <3>2. CASE AddImpression(f) /\ working.pc = "success"
      <4>1. Shown(working.feed) /\ impressions \subseteq impressions'
        BY <3>2 DEF WorkSense, AddImpression
      <4>2. ImpressionOf(working.feed) \in impressions /\ ImpressionOf(working.feed).feed = working.feed
        BY <4>1, TheImpression
      <4>3. /\ ImpressionOf(working.feed)' \in impressions'
            /\ ImpressionOf(working.feed)'.feed = working.feed
        BY <2>1, <4>1 DEF Shown, ImpressionOf
      <4>4. ImpressionOf(working.feed)' = ImpressionOf(working.feed)
        BY <4>1, <4>2, <4>3 DEF Shape
      <4>5. Pending(a)' = Pending(a)
        BY <2>1, <4>4 DEF Pending
      <4> QED
        BY <4>5, LoadsAreNumbers
    <3>3. CASE AddImpression(f) /\ working.pc # "success"
      BY <2>1, <3>3, SamePending
    <3> QED
      BY <1>5, <3>1, <3>2, <3>3 DEF Decide
  <2> HIDE DEF m, s
  <2> QED
    BY <1>4, <2>1, <2>2, <2>3, <2>4
<1>6. ASSUME NEW f \in Feed, RecordEvent(f)
      PROVE  Kept1
  <2>1. /\ memory'.mode = memory.mode
        /\ memory'.trials[a] = memory.trials[a] + (IF a = feed[f].arm THEN 1 ELSE 0)
        /\ memory'.successes[a] = memory.successes[a]
             + (IF a = feed[f].arm /\ feed[f].clicked THEN 1 ELSE 0)
        /\ saved'.trials = saved.trials /\ saved'.successes = saved.successes
    BY <1>6, EventIsRecorded
  <2>2. /\ impressions' = impressions /\ working' = [pc |-> "count", feed |-> f] /\ working.pc = "free"
        /\ feed' = [feed EXCEPT ![f].pc = "recorded"] /\ feed[f].pc = "decided"
    BY <1>6 DEF RecordEvent, Under
  <2>3. /\ \A e \in Feed : e # f => feed'[e] = feed[e]
        /\ feed'[f].arm = feed[f].arm /\ feed'[f].pc = "recorded"
    BY <2>2 DEF Shape
  <2>4. Pending(a) = 0 /\ Pending(a)' = 0
    BY <2>2 DEF Pending, One
  <2>5. Open(a)' \subseteq Open(a) \cup {f}
    BY <2>1, <2>2, <2>3 DEF Open
  <2>6. Stored(a)' \subseteq Stored(a)
    BY <2>2, <2>5 DEF Stored
  <2>7. s' <= s
    BY <2>4, <2>6, LoadsFall
  <2>8. CASE a # feed[f].arm
    <3>1. Open(a)' \subseteq Open(a)
      BY <2>1, <2>2, <2>3, <2>8 DEF Open
    <3>2. m' <= m
      BY <2>4, <3>1, LoadsFall
    <3>3. memory'.trials[a] = memory.trials[a] /\ memory'.successes[a] = memory.successes[a]
      BY <1>1, <2>1, <2>8
    <3> HIDE DEF m, s
    <3> QED
      BY <1>1, <1>2, <1>3, <2>1, <2>7, <3>2, <3>3
  <2>9. CASE a = feed[f].arm /\ feed[f].clicked
    <3>1. memory.mode = "simulated"
      BY <1>0, <2>9 DEF ModeSense
    <3>2. Open(a)' \subseteq Open(a)
      BY <2>1, <3>1 DEF Open
    <3>3. m' <= m
      BY <2>4, <3>2, LoadsFall
    <3>4. memory'.trials[a] = memory.trials[a] + 1 /\ memory'.successes[a] = memory.successes[a] + 1
      BY <1>1, <2>1, <2>9
    <3> HIDE DEF m, s
    <3> QED
      BY <1>1, <1>2, <1>3, <2>1, <2>7, <3>3, <3>4
  <2>10. CASE a = feed[f].arm /\ ~feed[f].clicked
    <3>1. memory'.trials[a] = memory.trials[a] + 1 /\ memory'.successes[a] = memory.successes[a]
      BY <1>1, <2>1, <2>10
    <3>2. m' <= m + 1
      <4>1. Cardinality(Open(a) \cup {f}) <= Cardinality(Open(a)) + 1 /\ IsFiniteSet(Open(a) \cup {f})
        <5>1. IsFiniteSet(Open(a)) /\ Cardinality(Open(a)) \in Nat
          BY LoadsAreNumbers
        <5>2. /\ IsFiniteSet(Open(a) \cup {f})
              /\ Cardinality(Open(a) \cup {f}) =
                   IF f \in Open(a) THEN Cardinality(Open(a)) ELSE Cardinality(Open(a)) + 1
          BY <5>1, FS_AddElement
        <5> QED
          BY <5>1, <5>2
      <4>2. Cardinality(Open(a)') <= Cardinality(Open(a) \cup {f})
        BY <2>5, <4>1, LargerSet
      <4>3. Cardinality(Open(a) \cup {f}) \in Nat
        BY <4>1, FS_CardinalityType
      <4>4. m = Cardinality(Open(a)) /\ m' = Cardinality(Open(a)')
        BY <2>4, LoadsAreNumbers DEF MemoryLoad
      <4> HIDE DEF m
      <4> QED
        BY <4>1, <4>2, <4>3, <4>4, LoadsAreNumbers
    <3> HIDE DEF m, s
    <3> QED
      BY <1>1, <1>2, <1>3, <2>1, <2>7, <3>1, <3>2
  <2> QED
    BY <2>8, <2>9, <2>10
<1>7. CASE StoreCounters \/ ResetCounters
  <2>1. memory' = memory /\ saved'.trials = memory.trials /\ saved'.successes = memory.successes
    BY <1>7, CountersArePut DEF StoreCounters, ResetCounters
  <2>2. /\ impressions' = impressions /\ feed' = feed
        /\ working'.pc \in {"free", "mode"}
    BY <1>7 DEF StoreCounters, ResetCounters, PutCounters, Under
  <2>3. Pending(a)' <= Pending(a)
    BY <2>2, SamePending
  <2>4. Open(a)' = Open(a) /\ Stored(a)' = Open(a)'
    BY <2>1, <2>2 DEF Open, Stored
  <2>5. m' <= m /\ s' = m'
    <3>1. m' <= m
      BY <2>3, <2>4, LoadsFall
    <3>2. s' = m'
      BY <2>4 DEF MemoryLoad, StoreLoad
    <3> QED
      BY <3>1, <3>2
  <2> HIDE DEF m, s
  <2> QED
    BY <1>1, <1>2, <1>3, <2>1, <2>5
<1>8. CASE MarkCredited
  <2> DEFINE f == working.feed
             i == ImpressionOf(f)
  <2>1. /\ memory' = memory /\ saved' = saved /\ feed' = feed /\ working.pc = "credit"
        /\ working' = [pc |-> "success", feed |-> f]
        /\ impressions' = {IF j.feed = f THEN [j EXCEPT !.credited = TRUE] ELSE j : j \in impressions}
    BY <1>8 DEF MarkCredited, Under
  <2>2. /\ Shown(f) /\ Credits(i)
    BY <2>1 DEF WorkSense
  <2>3. /\ i \in impressions /\ i.feed = f /\ ~i.credited /\ memory.mode = "feedback"
        /\ \A j \in impressions : j.feed = f => j = i
        /\ f \in Feed
    BY <2>2, TheImpression DEF Credits, Shape
  <2>4. \A j \in impressions : j \in [feed : Feed, arm : Lane, source : Mode, credited : BOOLEAN]
    BY DEF Shape
  <2> DEFINE c == [i EXCEPT !.credited = TRUE]
  <2>5. c \in impressions' /\ c.feed = f /\ c.credited /\ c.arm = i.arm
    BY <2>1, <2>3, <2>4
  <2>6. \A j \in impressions' : IF j.feed = f THEN j = c ELSE j \in impressions
    BY <2>1, <2>3, <2>4
  <2> HIDE DEF i, c
  <2>7. ImpressionOf(f)' = c
    <3>1. ImpressionOf(f)' \in impressions' /\ ImpressionOf(f)'.feed = f
      BY <2>1, <2>5 DEF ImpressionOf
    <3> QED
      BY <2>6, <3>1
  <2>8. /\ Pending(a) = 0
        /\ Pending(a)' = IF i.arm = a THEN 1 ELSE 0
    <3>1. ImpressionOf(working.feed)' = c
      BY <2>1, <2>7 DEF ImpressionOf
    <3> QED
      BY <2>1, <2>5, <3>1 DEF Pending, One
  <2>9. Open(a)' \subseteq Open(a) /\ f \notin Open(a)'
    <3>1. feed[f].pc = "over"
      BY <2>3 DEF WorkSense
    <3>2. f \notin Open(a)'
      BY <2>1, <2>5, <2>6, <3>1 DEF Open
    <3>3. Open(a)' \subseteq Open(a)
      BY <2>1, <2>5, <2>6 DEF Open
    <3> QED
      BY <3>2, <3>3
  <2>10. Stored(a) = Open(a) /\ Stored(a)' = Open(a)'
    BY <2>1 DEF Stored, Open
  <2>11. m' <= m
    <3>1. CASE i.arm # a
      <4>1. Pending(a)' <= Pending(a)
        BY <2>8, <3>1
      <4> QED
        BY <2>9, <4>1, LoadsFall
    <3>2. CASE i.arm = a
      <4>1. f \in Open(a)
        BY <2>3, <3>2 DEF Open
      <4>2. Cardinality(Open(a)') + 1 <= Cardinality(Open(a))
        BY <2>9, <4>1, LoadsAreNumbers, LargerSet
      <4>3. m = Cardinality(Open(a)) /\ m' = Cardinality(Open(a)') + 1
        BY <2>8, <3>2, LoadsAreNumbers DEF MemoryLoad
      <4> QED
        BY <4>2, <4>3
    <3> QED
      BY <3>1, <3>2
  <2>12. s = m /\ s' = m'
    BY <2>10 DEF MemoryLoad, StoreLoad
  <2> HIDE DEF m, s
  <2> QED
    BY <1>1, <1>2, <1>3, <2>1, <2>11, <2>12
<1>9. CASE CountSuccess
  <2> DEFINE arm == ImpressionOf(working.feed).arm
  <2>1. Shown(working.feed)
    BY <1>9 DEF CountSuccess, WorkSense
  <2>2. /\ memory'.mode = memory.mode /\ memory'.trials = memory.trials
        /\ memory'.successes[a] = memory.successes[a] + (IF a = arm THEN 1 ELSE 0)
        /\ saved'.trials = memory'.trials /\ saved'.successes = memory'.successes
    BY <1>9, <2>1, SuccessIsCounted
  <2>3. /\ impressions' = impressions /\ feed' = feed
        /\ working.pc = "success" /\ working'.pc = "window"
    BY <1>9 DEF CountSuccess, Under
  <2>4. Open(a)' = Open(a) /\ Stored(a)' = Open(a)
    BY <2>2, <2>3 DEF Open, Stored
  <2>5. Pending(a)' = 0 /\ Pending(a) = IF a = arm THEN 1 ELSE 0
    BY <2>3 DEF Pending, One
  <2> HIDE DEF arm
  <2>6. m' = Cardinality(Open(a)) /\ s' = m' /\ m = Cardinality(Open(a)) + (IF a = arm THEN 1 ELSE 0)
    BY <2>4, <2>5, LoadsAreNumbers DEF MemoryLoad, StoreLoad
  <2>7. memory'.successes[a] + m' <= memory.successes[a] + m
    <3>1. Cardinality(Open(a)) \in Nat
      BY LoadsAreNumbers
    <3> HIDE DEF m, s
    <3> QED
      BY <1>1, <2>2, <2>6, <3>1
  <2> HIDE DEF m, s
  <2> QED
    BY <1>1, <1>2, <1>3, <2>2, <2>6, <2>7
<1>10. ASSUME NEW mode \in Mode, SwitchMode(mode)
      PROVE  Kept1
  <2>1. /\ saved' = saved /\ memory'.trials[a] = 0 /\ memory'.successes[a] = 0
    BY <1>10, MemoryIsFresh
  <2>2. /\ UNCHANGED <<feed, impressions>> /\ working'.pc = "live" /\ \A f \in Feed : ~Begun(f)
    BY <1>10 DEF SwitchMode
  <2>3. impressions = {} /\ (\A f \in Feed : feed[f].pc = "new") /\ saved.successes[a] = 0
    BY <2>2, NothingCounted
  <2>4. Open(a)' = {} /\ Stored(a)' = {}
    BY <2>2, <2>3 DEF Open, Stored
  <2>5. Pending(a)' = 0
    BY <2>2 DEF Pending, One
  <2>6. m' = 0 /\ s' = 0
    BY <2>4, <2>5, FS_EmptySet DEF MemoryLoad, StoreLoad
  <2> HIDE DEF m, s
  <2> QED
    BY <1>1, <2>1, <2>3, <2>6
<1>11. CASE CrashAndRestore
  <2>1. /\ saved' = memory' /\ memory'.trials = saved.trials /\ memory'.successes = saved.successes
        /\ memory'.mode = saved.mode
    BY <1>11, MemoryIsRestored
  <2>2. /\ working'.pc = "free" /\ impressions' \subseteq impressions
        /\ feed' = [f \in Feed |-> IF Begun(f) THEN [NotServed EXCEPT !.pc = "over"] ELSE feed[f]]
    BY <1>11 DEF CrashAndRestore, NoWork
  <2>3. \A f \in Feed : feed'[f].pc # "recorded"
    BY <2>2 DEF NotServed, Begun
  <2>4. Open(a)' \subseteq Stored(a)
    <3>1. CASE working.pc \in Switching
      <4>1. impressions = {}
        BY <1>0, <3>1 DEF ModeSense
      <4> QED
        BY <2>2, <2>3, <4>1 DEF Open
    <3>2. CASE working.pc \notin Switching
      <4>1. saved.mode = memory.mode
        BY <3>2 DEF SavedSense
      <4>2. Open(a)' \subseteq Open(a)
        BY <2>1, <2>2, <2>3, <4>1 DEF Open
      <4>3. ASSUME NEW f \in Open(a)', working.pc = "count", working.feed = f
            PROVE  FALSE
        <5>1. f \in Feed /\ \E i \in impressions : i.feed = f
          BY <2>2, <2>3 DEF Open
        <5> QED
          BY <4>3, <5>1 DEF WorkSense
      <4> QED
        BY <4>2, <4>3 DEF Stored
    <3> QED
      BY <3>1, <3>2
  <2>5. Stored(a)' = Open(a)' /\ Pending(a)' = 0
    BY <2>2 DEF Stored, Pending, One
  <2>6. m' = s' /\ s' <= s
    <3>1. Pending(a)' <= Pending(a)
      BY <2>5, LoadsAreNumbers
    <3>2. s' <= s
      BY <2>4, <2>5, <3>1, LoadsFall
    <3>3. m' = s'
      BY <2>5 DEF MemoryLoad, StoreLoad
    <3> QED
      BY <3>2, <3>3
  <2> HIDE DEF m, s
  <2> QED
    BY <1>1, <1>2, <1>3, <2>1, <2>6
<1>12. CASE /\ memory'.mode = memory.mode /\ UNCHANGED <<impressions, feed>>
            /\ memory'.trials = memory.trials /\ memory'.successes = memory.successes
            /\ saved'.trials = saved.trials /\ saved'.successes = saved.successes
            /\ \/ working' = working
               \/ working.pc # "count" /\ working'.pc # "success"
  <2>1. Open(a)' = Open(a)
    BY <1>12 DEF Open
  <2>2. Stored(a)' \subseteq Stored(a)
    BY <1>12, <2>1 DEF Stored
  <2>3. Pending(a)' <= Pending(a)
    BY <1>12, SamePending
  <2> HIDE DEF m, s
  <2> QED
    BY <1>4, <1>12, <2>1, <2>2, <2>3
<1>13. CASE Reward \/ CreditWindow \/ ClearWindow \/ SetMode
  <2>1. /\ memory'.mode = memory.mode
        /\ memory'.trials = memory.trials /\ memory'.successes = memory.successes
        /\ saved'.trials = saved.trials /\ saved'.successes = saved.successes
    BY <1>13, BanditIsRewarded, ClickIsCredited, WindowIsCleared, ModeIsSet
  <2>2. UNCHANGED <<impressions, feed>> /\ working.pc # "count" /\ working'.pc # "success"
    BY <1>13 DEF Reward, CreditWindow, ClearWindow, SetMode, Under, Side
  <2> HIDE DEF m, s
  <2> QED
    BY <1>12, <2>1, <2>2
<1>14. CASE \E f \in Feed, item \in Item, clicked \in BOOLEAN : AddFeedback(f, item, clicked)
  <2>1. /\ UNCHANGED <<memory, saved, impressions, feed>>
        /\ working.pc # "count" /\ working'.pc # "success"
    BY <1>14 DEF AddFeedback, Under
  <2> HIDE DEF m, s
  <2> QED
    BY <1>12, <2>1
<1>15. CASE UNCHANGED feedbackVars
  <2> HIDE DEF m, s
  <2> QED
    BY <1>12, <1>15 DEF feedbackVars
<1> HIDE DEF m, s, Kept1
<1> QED
  BY <1>5, <1>6, <1>7, <1>8, <1>9, <1>10, <1>11, <1>13, <1>14, <1>15 DEF FeedbackNext

-----------------------------------------------------------------------------
\* Without a crash, in feedback mode: the impressions that are credited are those of the
\* clicked feeds, and each is one success of its arm.
ClickedFeed(f) == \E b \in feedback : b.feed = f /\ b.clicked
Credited(a) == {i \in impressions : i.arm = a /\ i.credited}

CreditSense ==
  /\ working.pc \in {"clicked", "credit"} => ClickedFeed(working.feed)
  /\ crashes = 0 /\ ~late /\ memory.mode = "feedback" =>
       /\ \A i \in impressions : i.credited => ClickedFeed(i.feed)
       /\ \A i \in impressions : ClickedFeed(i.feed) =>
            i.credited \/ (working.pc \in {"clicked", "credit"} /\ working.feed = i.feed)
       /\ \A a \in Arm : memory.successes[a] + Pending(a) = Cardinality(Credited(a))

LEMMA ImpressionsAreFinite ==
  ASSUME Shape
  PROVE  IsFiniteSet(impressions)
<1> DEFINE of == [i \in impressions |-> i.feed]
<1>1. of \in Injection(impressions, Feed)
  <2>1. of \in [impressions -> Feed]
    BY DEF Shape
  <2>2. \A i, j \in impressions : of[i] = of[j] => i = j
    BY DEF Shape
  <2> HIDE DEF of
  <2> QED
    BY <2>1, <2>2 DEF Injection, IsInjective
<1>2. IsFiniteSet(Feed)
  BY FeedsAreFinite
<1> QED
  BY <1>1, <1>2, FS_Injection

LEMMA CreditedIsFinite ==
  ASSUME Shape, NEW a
  PROVE  IsFiniteSet(Credited(a)) /\ Cardinality(Credited(a)) \in Nat
<1>1. Credited(a) \subseteq impressions
  BY DEF Credited
<1>2. IsFiniteSet(Credited(a))
  BY <1>1, ImpressionsAreFinite, FS_Subset
<1> QED
  BY <1>2, FS_CardinalityType

LEMMA CreditStarts == FeedbackInit => CreditSense
<1> SUFFICES ASSUME FeedbackInit PROVE CreditSense
  OBVIOUS
<1>1. impressions = {} /\ working.pc = "free" /\ \A a \in Arm : memory.successes[a] = 0
  BY FreshIs DEF FeedbackInit, NoWork
<1>2. \A a \in Arm : Credited(a) = {} /\ Pending(a) = 0
  BY <1>1 DEF Credited, Pending, One
<1> QED
  BY <1>1, <1>2, FS_EmptySet DEF CreditSense

LEMMA CreditStep ==
  ASSUME Shape, WorkSense, Shape', WorkSense', CountSense, ModeSense, CreditSense,
         [FeedbackNext]_feedbackVars
  PROVE  CreditSense'
<1>1. CASE /\ memory'.mode = memory.mode /\ memory'.successes = memory.successes
           /\ impressions' = impressions /\ feedback' = feedback
           /\ (crashes' = 0 => crashes = 0) /\ (~late' => ~late)
           /\ \/ working' = working
              \/ /\ working.pc \notin {"clicked", "credit", "success"}
                 /\ working'.pc \notin {"clicked", "credit", "success"}
  <2>1. \A a : Credited(a)' = Credited(a)
    BY <1>1 DEF Credited
  <2>2. \A a : Pending(a)' = Pending(a)
    BY <1>1 DEF Pending, One, ImpressionOf
  <2>3. \A f : ClickedFeed(f)' <=> ClickedFeed(f)
    BY <1>1 DEF ClickedFeed
  <2>4. working'.pc \in {"clicked", "credit"} => ClickedFeed(working.feed)' /\ working' = working
    BY <1>1, <2>3 DEF CreditSense
  <2>5. CASE crashes' = 0 /\ ~late' /\ memory'.mode = "feedback"
    <3>1. /\ \A i \in impressions : i.credited => ClickedFeed(i.feed)
          /\ \A i \in impressions : ClickedFeed(i.feed) =>
               i.credited \/ (working.pc \in {"clicked", "credit"} /\ working.feed = i.feed)
          /\ \A a \in Arm : memory.successes[a] + Pending(a) = Cardinality(Credited(a))
      BY <1>1, <2>5 DEF CreditSense
    <3>2. \A i \in impressions' : ClickedFeed(i.feed)' =>
            i.credited \/ (working'.pc \in {"clicked", "credit"} /\ working'.feed = i.feed)
      BY <1>1, <2>3, <3>1
    <3>3. \A i \in impressions' : i.credited => ClickedFeed(i.feed)'
      BY <1>1, <2>3, <3>1
    <3>4. \A a \in Arm : memory'.successes[a] + Pending(a)' = Cardinality(Credited(a)')
      BY <1>1, <2>1, <2>2, <3>1
    <3> QED
      BY <2>4, <3>2, <3>3, <3>4 DEF CreditSense, ClickedFeed
  <2> QED
    BY <2>4, <2>5 DEF CreditSense, ClickedFeed
<1>2. ASSUME NEW f \in Feed, RecordEvent(f)
      PROVE  CreditSense'
  <2>1. /\ memory'.mode = memory.mode /\ memory' \in Tally
        /\ \A a \in Arm : memory'.successes[a] = memory.successes[a]
             + (IF a = feed[f].arm /\ feed[f].clicked THEN 1 ELSE 0)
    BY <1>2, EventIsRecorded
  <2>2. /\ UNCHANGED <<impressions, feedback, crashes, late>>
        /\ working.pc = "free" /\ working'.pc = "count"
    BY <1>2 DEF RecordEvent, Under
  <2>3. CASE ~late /\ memory.mode = "feedback"
    <3>1. ~feed[f].clicked
      BY <2>3 DEF ModeSense
    <3>2. memory \in Tally /\ \A a \in Arm : memory.successes[a] \in Nat
      BY DEF Shape, Tally
    <3>3. \A a \in Arm : memory'.successes[a] = memory.successes[a]
      BY <2>1, <3>1, <3>2
    <3>4. memory'.successes = memory.successes
      BY <2>1, <3>2, <3>3 DEF Tally
    <3> QED
      BY <1>1, <2>1, <2>2, <3>4
  <2>4. CASE ~(~late /\ memory.mode = "feedback")
    BY <2>1, <2>2, <2>4 DEF CreditSense
  <2> QED
    BY <2>3, <2>4
<1>3. ASSUME NEW f \in Feed, AddImpression(f)
      PROVE  CreditSense'
  <2> DEFINE j == [feed |-> f, arm |-> feed[f].arm, source |-> memory.mode, credited |-> FALSE]
  <2>1. /\ UNCHANGED <<memory, feedback, working, crashes, late>>
        /\ impressions' = impressions \cup {j} /\ feed[f].pc = "recorded"
    BY <1>3 DEF AddImpression
  <2>2. j.feed = f /\ ~j.credited
    OBVIOUS
  <2> HIDE DEF j
  <2>3. ~ClickedFeed(f) /\ ~Shown(f)
    BY <2>1 DEF WorkSense, ClickedFeed, Shown
  <2>4. \A e : ClickedFeed(e)' <=> ClickedFeed(e)
    BY <2>1 DEF ClickedFeed
  <2>5. \A a : Credited(a)' = Credited(a)
    BY <2>1, <2>2 DEF Credited
  <2>6. \A a : Pending(a)' = Pending(a)
    <3>1. CASE working.pc = "success"
      <4>1. Shown(working.feed)
        BY <3>1 DEF WorkSense
      <4>2. ImpressionOf(working.feed) \in impressions /\ ImpressionOf(working.feed).feed = working.feed
        BY <4>1, TheImpression
      <4>3. /\ ImpressionOf(working.feed)' \in impressions'
            /\ ImpressionOf(working.feed)'.feed = working.feed
        BY <2>1, <4>1 DEF Shown, ImpressionOf
      <4>4. ImpressionOf(working.feed)' = ImpressionOf(working.feed)
        BY <2>1, <4>2, <4>3 DEF Shape
      <4> QED
        BY <2>1, <4>4 DEF Pending
    <3>2. CASE working.pc # "success"
      BY <2>1, <3>2 DEF Pending
    <3> QED
      BY <3>1, <3>2
  <2>7. working'.pc \in {"clicked", "credit"} => ClickedFeed(working.feed)'
    BY <2>1, <2>4 DEF CreditSense, ClickedFeed
  <2>8. CASE crashes' = 0 /\ ~late' /\ memory'.mode = "feedback"
    <3>1. /\ \A i \in impressions : i.credited => ClickedFeed(i.feed)
          /\ \A i \in impressions : ClickedFeed(i.feed) =>
               i.credited \/ (working.pc \in {"clicked", "credit"} /\ working.feed = i.feed)
          /\ \A a \in Arm : memory.successes[a] + Pending(a) = Cardinality(Credited(a))
      BY <2>1, <2>8 DEF CreditSense
    <3>2. \A i \in impressions' : ClickedFeed(i.feed)' =>
            i.credited \/ (working'.pc \in {"clicked", "credit"} /\ working'.feed = i.feed)
      BY <2>1, <2>2, <2>3, <2>4, <3>1
    <3>3. \A i \in impressions' : i.credited => ClickedFeed(i.feed)'
      BY <2>1, <2>2, <2>4, <3>1
    <3>4. \A a \in Arm : memory'.successes[a] + Pending(a)' = Cardinality(Credited(a)')
      BY <2>1, <2>5, <2>6, <3>1
    <3> QED
      BY <2>7, <3>2, <3>3, <3>4 DEF CreditSense, ClickedFeed
  <2> QED
    BY <2>7, <2>8 DEF CreditSense, ClickedFeed
<1>4. ASSUME NEW f \in Feed, NEW item \in Item, NEW clicked \in BOOLEAN, AddFeedback(f, item, clicked)
      PROVE  CreditSense'
  <2> DEFINE b == [feed |-> f, item |-> item, clicked |-> clicked]
  <2>1. /\ UNCHANGED <<memory, impressions, crashes, late>>
        /\ feedback' = feedback \cup {b}
        /\ working.pc = "free" /\ working' = [pc |-> IF clicked THEN "clicked" ELSE "reward", feed |-> f]
    BY <1>4 DEF AddFeedback, Under
  <2>2. b.feed = f /\ b.clicked = clicked
    OBVIOUS
  <2> HIDE DEF b
  <2>3. \A e : ClickedFeed(e)' <=> ClickedFeed(e) \/ (clicked /\ e = f)
    BY <2>1, <2>2 DEF ClickedFeed
  <2>4. \A a : Credited(a)' = Credited(a) /\ Pending(a)' = 0 /\ Pending(a) = 0
    BY <2>1 DEF Credited, Pending, One
  <2>5. working'.pc \in {"clicked", "credit"} => ClickedFeed(working.feed)'
    BY <2>1, <2>2 DEF ClickedFeed
  <2>6. CASE crashes' = 0 /\ ~late' /\ memory'.mode = "feedback"
    <3>1. /\ \A i \in impressions : i.credited => ClickedFeed(i.feed)
          /\ \A i \in impressions : ClickedFeed(i.feed) => i.credited
          /\ \A a \in Arm : memory.successes[a] + Pending(a) = Cardinality(Credited(a))
      BY <2>1, <2>6 DEF CreditSense
    <3>2. \A i \in impressions' : ClickedFeed(i.feed)' =>
            i.credited \/ (working'.pc \in {"clicked", "credit"} /\ working'.feed = i.feed)
      BY <2>1, <2>3, <3>1
    <3>3. \A i \in impressions' : i.credited => ClickedFeed(i.feed)'
      BY <2>1, <2>3, <3>1
    <3>4. \A a \in Arm : memory'.successes[a] + Pending(a)' = Cardinality(Credited(a)')
      BY <2>1, <2>4, <3>1
    <3> QED
      BY <2>5, <3>2, <3>3, <3>4 DEF CreditSense, ClickedFeed
  <2> QED
    BY <2>5, <2>6 DEF CreditSense, ClickedFeed
<1>5. CASE Reward
  <2> DEFINE f == working.feed
  <2>1. /\ memory'.mode = memory.mode /\ memory'.successes = memory.successes
    BY <1>5, BanditIsRewarded
  <2>2. /\ UNCHANGED <<impressions, feedback, crashes, late>> /\ working.pc \in {"reward", "clicked"}
        /\ working' = [pc |-> IF working.pc = "clicked" /\ Credits(ImpressionOf(f)) THEN "credit" ELSE "free",
                       feed |-> f]
    BY <1>5 DEF Reward, Under
  <2>3. \A e : ClickedFeed(e)' <=> ClickedFeed(e)
    BY <2>2 DEF ClickedFeed
  <2>4. \A a : Credited(a)' = Credited(a) /\ Pending(a)' = 0 /\ Pending(a) = 0
    BY <2>2 DEF Credited, Pending, One
  <2>5. working'.pc \in {"clicked", "credit"} => ClickedFeed(working.feed)'
    BY <2>2, <2>3 DEF CreditSense, ClickedFeed
  <2>6. CASE crashes' = 0 /\ ~late' /\ memory'.mode = "feedback"
    <3>1. /\ \A i \in impressions : i.credited => ClickedFeed(i.feed)
          /\ \A i \in impressions : ClickedFeed(i.feed) =>
               i.credited \/ (working.pc = "clicked" /\ f = i.feed)
          /\ \A a \in Arm : memory.successes[a] + Pending(a) = Cardinality(Credited(a))
      BY <2>1, <2>2, <2>6 DEF CreditSense
    <3>2. ASSUME NEW i \in impressions, ~i.credited, working.pc = "clicked", f = i.feed
          PROVE  working'.pc = "credit"
      <4>1. i = ImpressionOf(f)
        BY <3>2, TheImpression DEF Shown
      <4>2. i.source = "feedback" /\ memory.mode = "feedback"
        BY <2>1, <2>2, <2>6 DEF ModeSense
      <4>3. Credits(ImpressionOf(f))
        BY <3>2, <4>1, <4>2 DEF Credits
      <4> QED
        BY <2>2, <3>2, <4>3
    <3>3. \A i \in impressions' : ClickedFeed(i.feed)' =>
            i.credited \/ (working'.pc \in {"clicked", "credit"} /\ working'.feed = i.feed)
      BY <2>2, <2>3, <3>1, <3>2
    <3>4. \A i \in impressions' : i.credited => ClickedFeed(i.feed)'
      BY <2>2, <2>3, <3>1
    <3>5. \A a \in Arm : memory'.successes[a] + Pending(a)' = Cardinality(Credited(a)')
      BY <2>1, <2>4, <3>1
    <3> QED
      BY <2>5, <3>3, <3>4, <3>5 DEF CreditSense, ClickedFeed
  <2> QED
    BY <2>5, <2>6 DEF CreditSense, ClickedFeed
<1>6. CASE MarkCredited
  <2> DEFINE f == working.feed
             i == ImpressionOf(f)
             c == [i EXCEPT !.credited = TRUE]
  <2>1. /\ UNCHANGED <<memory, feedback, crashes, late>> /\ working.pc = "credit"
        /\ working' = [pc |-> "success", feed |-> f]
        /\ impressions' = {IF j.feed = f THEN [j EXCEPT !.credited = TRUE] ELSE j : j \in impressions}
    BY <1>6 DEF MarkCredited, Under
  <2>2. Shown(f) /\ Credits(i)
    BY <2>1 DEF WorkSense
  <2>3. /\ i \in impressions /\ i.feed = f /\ ~i.credited
        /\ \A j \in impressions : j.feed = f => j = i
    BY <2>2, TheImpression DEF Credits
  <2>4. \A j \in impressions : j \in [feed : Feed, arm : Lane, source : Mode, credited : BOOLEAN]
    BY DEF Shape
  <2>5. c \in impressions' /\ c.feed = f /\ c.credited /\ c.arm = i.arm
    BY <2>1, <2>3, <2>4
  <2>6. /\ \A j \in impressions' : IF j.feed = f THEN j = c ELSE j \in impressions
        /\ \A j \in impressions : j.feed # f => j \in impressions'
    BY <2>1, <2>3, <2>4
  <2> HIDE DEF i, c
  <2>7. \A e : ClickedFeed(e)' <=> ClickedFeed(e)
    BY <2>1 DEF ClickedFeed
  <2>8. CASE crashes' = 0 /\ ~late' /\ memory'.mode = "feedback"
    <3>1. /\ \A j \in impressions : j.credited => ClickedFeed(j.feed)
          /\ \A j \in impressions : ClickedFeed(j.feed) => j.credited \/ f = j.feed
          /\ \A a \in Arm : memory.successes[a] + Pending(a) = Cardinality(Credited(a))
          /\ ClickedFeed(f)
      BY <2>1, <2>8 DEF CreditSense
    <3>2. \A j \in impressions' : ClickedFeed(j.feed)' => j.credited
      BY <2>5, <2>6, <2>7, <3>1
    <3>3. \A j \in impressions' : j.credited => ClickedFeed(j.feed)'
      BY <2>6, <2>7, <3>1
    <3>4. \A a \in Arm : memory'.successes[a] + Pending(a)' = Cardinality(Credited(a)')
      <4> SUFFICES ASSUME NEW a \in Arm
                   PROVE  memory'.successes[a] + Pending(a)' = Cardinality(Credited(a)')
        OBVIOUS
      <4>1. ImpressionOf(working.feed)' = c
        <5>1. ImpressionOf(working.feed)' \in impressions' /\ ImpressionOf(working.feed)'.feed = f
          BY <2>1, <2>5 DEF ImpressionOf
        <5> QED
          BY <2>6, <5>1
      <4>2. Pending(a) = 0 /\ Pending(a)' = IF i.arm = a THEN 1 ELSE 0
        BY <2>1, <2>5, <4>1 DEF Pending, One
      <4>3. memory'.successes[a] \in Nat /\ memory' = memory
        BY <2>1 DEF Shape, Tally
      <4>4. memory.successes[a] = Cardinality(Credited(a))
        BY <3>1, <4>2, <4>3
      <4>5. CASE i.arm # a
        <5>1. Credited(a)' = Credited(a)
          <6>1. \A j \in impressions : j.arm = a => j.feed # f
            BY <2>3, <4>5
          <6>2. \A j \in impressions' : j.arm = a => j.feed # f
            BY <2>5, <2>6, <4>5
          <6> QED
            BY <2>6, <6>1, <6>2 DEF Credited
        <5> QED
          BY <4>2, <4>3, <4>4, <4>5, <5>1
      <4>6. CASE i.arm = a
        <5>1. Credited(a)' = Credited(a) \cup {c}
          <6>1. \A j \in impressions : j.credited => j.feed # f
            BY <2>3
          <6> QED
            BY <2>5, <2>6, <4>6, <6>1 DEF Credited
        <5>2. c \notin Credited(a)
          BY <2>3, <2>5 DEF Credited
        <5>3. Cardinality(Credited(a) \cup {c}) = Cardinality(Credited(a)) + 1
          BY <5>2, CreditedIsFinite, FS_AddElement
        <5> QED
          BY <4>2, <4>3, <4>4, <4>6, <5>1, <5>3
      <4> QED
        BY <4>5, <4>6
    <3> QED
      BY <2>1, <3>2, <3>3, <3>4 DEF CreditSense, ClickedFeed
  <2> QED
    BY <2>1, <2>8 DEF CreditSense
<1>7. CASE CountSuccess
  <2> DEFINE arm == ImpressionOf(working.feed).arm
  <2>1. Shown(working.feed)
    BY <1>7 DEF CountSuccess, WorkSense
  <2>2. /\ memory'.mode = memory.mode
        /\ \A a \in Arm : memory'.successes[a] = memory.successes[a] + (IF a = arm THEN 1 ELSE 0)
    BY <1>7, <2>1, SuccessIsCounted
  <2>3. /\ UNCHANGED <<impressions, feedback, crashes, late>>
        /\ working.pc = "success" /\ working'.pc = "window"
    BY <1>7 DEF CountSuccess, Under
  <2>4. \A a : Credited(a)' = Credited(a) /\ Pending(a)' = 0 /\ Pending(a) = IF a = arm THEN 1 ELSE 0
    BY <2>3 DEF Credited, Pending, One
  <2>5. \A e : ClickedFeed(e)' <=> ClickedFeed(e)
    BY <2>3 DEF ClickedFeed
  <2> HIDE DEF arm
  <2>6. CASE crashes' = 0 /\ ~late' /\ memory'.mode = "feedback"
    <3>1. /\ \A i \in impressions : i.credited => ClickedFeed(i.feed)
          /\ \A i \in impressions : ClickedFeed(i.feed) => i.credited
          /\ \A a \in Arm : memory.successes[a] + Pending(a) = Cardinality(Credited(a))
      BY <2>2, <2>3, <2>6 DEF CreditSense
    <3>2. \A a \in Arm : memory'.successes[a] + Pending(a)' = Cardinality(Credited(a)')
      <4> SUFFICES ASSUME NEW a \in Arm
                   PROVE  memory'.successes[a] + Pending(a)' = Cardinality(Credited(a)')
        OBVIOUS
      <4>1. memory.successes[a] \in Nat
        BY DEF Shape, Tally
      <4>2. /\ memory.successes[a] + (IF a = arm THEN 1 ELSE 0) = Cardinality(Credited(a))
            /\ memory'.successes[a] = memory.successes[a] + (IF a = arm THEN 1 ELSE 0)
            /\ Pending(a)' = 0 /\ Credited(a)' = Credited(a)
        BY <2>2, <2>4, <3>1
      <4> QED
        BY <4>1, <4>2
    <3>3. /\ \A i \in impressions' : i.credited => ClickedFeed(i.feed)'
          /\ \A i \in impressions' : ClickedFeed(i.feed)' => i.credited
      BY <2>3, <2>5, <3>1
    <3> QED
      BY <2>3, <3>2, <3>3 DEF CreditSense, ClickedFeed
  <2> QED
    BY <2>3, <2>6 DEF CreditSense
<1>8. ASSUME NEW mode \in Mode, SwitchMode(mode)
      PROVE  CreditSense'
  <2>1. \A a \in Arm : memory'.successes[a] = 0
    BY <1>8, MemoryIsFresh
  <2>2. /\ impressions' = impressions /\ working'.pc = "live"
        /\ ~late' => \A f \in Feed : ~Begun(f)
    BY <1>8 DEF SwitchMode
  <2>3. ~late' => impressions' = {}
    BY <2>2, NothingCounted
  <2>4. ~late' => \A a : Credited(a)' = {} /\ Pending(a)' = 0
    BY <2>2, <2>3 DEF Credited, Pending, One
  <2> QED
    BY <2>1, <2>2, <2>3, <2>4, FS_EmptySet DEF CreditSense
<1>9. CASE CrashAndRestore
  <2>1. crashes' # 0 /\ working'.pc = "free"
    BY <1>9, BoundsAreNumbers DEF CrashAndRestore, NoWork, Shape
  <2> QED
    BY <2>1 DEF CreditSense
<1>10. CASE StoreCounters \/ ResetCounters \/ CreditWindow \/ ClearWindow \/ SetMode
  <2>1. memory'.mode = memory.mode /\ memory'.successes = memory.successes
    BY <1>10, CountersArePut, ClickIsCredited, WindowIsCleared, ModeIsSet DEF StoreCounters, ResetCounters
  <2>2. /\ UNCHANGED <<impressions, feedback, crashes, late>>
        /\ working.pc \notin {"clicked", "credit", "success"}
        /\ working'.pc \notin {"clicked", "credit", "success"}
    BY <1>10 DEF StoreCounters, ResetCounters, CreditWindow, ClearWindow, SetMode, PutCounters, Under, Side
  <2> QED
    BY <1>1, <2>1, <2>2
<1>11. CASE \E f \in Feed : Decide(f)
  BY <1>1, <1>11 DEF Decide
<1>12. CASE UNCHANGED feedbackVars
  BY <1>1, <1>12 DEF feedbackVars
<1> QED
  BY <1>2, <1>3, <1>4, <1>5, <1>6, <1>7, <1>8, <1>9, <1>10, <1>11, <1>12 DEF FeedbackNext

-----------------------------------------------------------------------------
FeedbackInv ==
  /\ Shape /\ WorkSense /\ SavedSense /\ WindowSense /\ CountSense /\ RewardSense
  /\ ModeSense /\ SuccessSense /\ CreditSense

\* The inductive invariant of what feedback counts for.
THEOREM FeedbackAlways == FeedbackSpec => []FeedbackInv
<1>1. FeedbackInit => FeedbackInv
  <2>1. FeedbackInit => WindowSense
    BY AlignedItself DEF FeedbackInit, WindowSense
  <2> QED
    BY <2>1, ShapeStarts, SavedStarts, CountStarts, RewardStarts, ModeStarts, SuccessStarts, CreditStarts
       DEF FeedbackInv
<1>2. FeedbackInv /\ [FeedbackNext]_feedbackVars => FeedbackInv'
  <2> SUFFICES ASSUME FeedbackInv, [FeedbackNext]_feedbackVars PROVE FeedbackInv'
    OBVIOUS
  <2>1. /\ Shape /\ WorkSense /\ SavedSense /\ WindowSense /\ CountSense /\ RewardSense
        /\ ModeSense /\ SuccessSense /\ CreditSense
    BY DEF FeedbackInv
  <2>2. Shape' /\ WorkSense'
    BY <2>1, ShapeStep
  <2>3. SavedSense' /\ WindowSense'
    BY <2>1, SavedStep, WindowStep
  <2>4. CountSense' /\ RewardSense'
    BY <2>1, <2>2, CountStep, RewardStep
  <2>5. ModeSense'
    BY <2>1, ModeStep
  <2>6. SuccessSense'
    BY <2>1, <2>2, SuccessStep
  <2>7. CreditSense'
    BY <2>1, <2>2, CreditStep
  <2> QED
    BY <2>2, <2>3, <2>4, <2>5, <2>6, <2>7 DEF FeedbackInv
<1> QED
  BY <1>1, <1>2, PTL DEF FeedbackSpec

\* An outcome is counted once, for the feed it belongs to, and between operations a restart
\* brings back what is counted.
THEOREM FeedbackAlwaysCounted == FeedbackSpec => []FeedbackIsCounted
<1>1. FeedbackInv => FeedbackIsCounted
  <2> SUFFICES ASSUME FeedbackInv PROVE FeedbackIsCounted
    OBVIOUS
  <2>1. /\ Shape /\ WorkSense /\ SavedSense /\ WindowSense /\ CountSense /\ RewardSense
        /\ ModeSense /\ SuccessSense /\ CreditSense
    BY DEF FeedbackInv
  <2>2. FeedbackTypeOK
    <3>1. /\ Cardinality(Recorded) \in Nat /\ Cardinality(Recorded) <= MaxFeeds
          /\ Room \in Nat /\ Room <= 2 * MaxFeeds /\ MaxFeeds \in Nat
      <4>1. Recorded \subseteq Feed /\ Spent \subseteq Feed
        BY DEF Recorded, Spent
      <4>2. /\ Cardinality(Recorded) \in Nat /\ Cardinality(Recorded) <= MaxFeeds
            /\ Cardinality(Spent) \in Nat /\ Cardinality(Spent) <= MaxFeeds
        BY <4>1, FeedsAreFinite
      <4> QED
        BY <4>2, BoundsAreNumbers DEF Room
    <3>2. ASSUME NEW o \in Tally, o = memory \/ o = saved
          PROVE  o \in Outcomes
      <4>1. ASSUME NEW a \in Arm
            PROVE  o.trials[a] \in 0..MaxFeeds /\ o.successes[a] \in 0..(2 * MaxFeeds)
        <5>1. o.trials[a] \in Nat /\ o.successes[a] \in Nat
          BY DEF Tally
        <5>2. One(working.pc = "success") \in {0, 1}
          BY DEF One
        <5>3. o.trials[a] <= Cardinality(Recorded) /\ o.successes[a] + One(working.pc = "success") <= Room
          BY <2>1, <3>2 DEF CountSense
        <5> QED
          BY <3>1, <5>1, <5>2, <5>3
      <4>2. o.rewards \in 0..(MaxFeeds * Cardinality(Item))
        <5>1. /\ Pairs \in Nat /\ Pairs <= MaxFeeds * Cardinality(Item)
              /\ MaxFeeds * Cardinality(Item) \in Nat
          BY PairsAreFinite, FS_CardinalityType
        <5>2. o.rewards \in Nat /\ o.rewards = memory.rewards
          BY <2>1, <3>2 DEF SavedSense, Tally
        <5>3. memory.rewards + One(Rewarding) <= Pairs /\ One(Rewarding) \in {0, 1}
          BY <2>1 DEF RewardSense, One
        <5> QED
          BY <5>1, <5>2, <5>3
      <4> QED
        BY <4>1, <4>2 DEF Tally, Outcomes
    <3> QED
      BY <2>1, <3>2 DEF FeedbackTypeOK, Shape, Lane
  <2>3. RestartLosesNothing
    <3> SUFFICES ASSUME AtRest
                 PROVE  /\ [saved EXCEPT !.window = 0] = [memory EXCEPT !.window = 0]
                        /\ \A w \in Side : Kept(saved.window[w]) = Kept(memory.window[w])
      BY DEF RestartLosesNothing
    <3>1. working.pc = "free" /\ memory \in Tally /\ saved \in Tally
      BY <2>1 DEF AtRest, Shape
    <3>2. /\ saved.mode = memory.mode /\ saved.rewards = memory.rewards
          /\ saved.trials = memory.trials /\ saved.successes = memory.successes
      BY <2>1, <3>1 DEF SavedSense, Switching
    <3>3. [saved EXCEPT !.window = 0] = [memory EXCEPT !.window = 0]
      BY <3>1, <3>2 DEF Tally
    <3>4. \A w \in Side : Kept(saved.window[w]) = Kept(memory.window[w])
      <4> SUFFICES ASSUME NEW w \in Side PROVE Kept(saved.window[w]) = Kept(memory.window[w])
        OBVIOUS
      <4>1. saved.window[w] \in Seq(Event) /\ memory.window[w] \in Seq(Event)
        BY <3>1 DEF Tally
      <4>2. Aligned(memory.window[w], saved.window[w])
        BY <2>1, <3>1 DEF WindowSense, Side
      <4> QED
        BY <4>1, <4>2, AlignedIsKept
    <3> QED
      BY <3>3, <3>4
  <2>4. SerialSuccessesWithinTrials
    <3> SUFFICES ASSUME ~late, NEW a \in Arm PROVE memory.successes[a] <= memory.trials[a]
      BY DEF SerialSuccessesWithinTrials
    <3>1. memory.successes[a] \in Nat /\ memory.trials[a] \in Nat
      BY <2>1 DEF Shape, Tally
    <3>2. MemoryLoad(a) \in Nat
      BY LoadsAreNumbers DEF MemoryLoad
    <3>3. memory.successes[a] + MemoryLoad(a) <= memory.trials[a]
      BY <2>1 DEF SuccessSense
    <3> QED
      BY <3>1, <3>2, <3>3
  <2>5. RewardedOnce
    <3> SUFFICES ASSUME AtRest, crashes = 0 PROVE memory.rewards = Cardinality(feedback)
      BY DEF RewardedOnce
    <3>1. One(Rewarding) = 0 /\ memory.rewards \in Nat
      BY <2>1 DEF AtRest, Rewarding, One, Shape, Tally
    <3> QED
      BY <2>1, <3>1 DEF RewardSense
  <2>6. SuccessesAreClickedFeeds
    <3> SUFFICES ASSUME AtRest, crashes = 0, ~late, memory.mode = "feedback", NEW a \in Arm
                 PROVE  memory.successes[a] =
                          Cardinality({i \in impressions : i.arm = a /\ \E b \in feedback :
                                         b.feed = i.feed /\ b.clicked})
      BY DEF SuccessesAreClickedFeeds
    <3>1. /\ \A i \in impressions : i.credited <=> ClickedFeed(i.feed)
          /\ memory.successes[a] + Pending(a) = Cardinality(Credited(a))
      BY <2>1 DEF CreditSense, AtRest, Shape
    <3>2. Pending(a) = 0 /\ memory.successes[a] \in Nat
      BY <2>1 DEF AtRest, Pending, One, Shape, Tally
    <3>3. Credited(a) = {i \in impressions : i.arm = a /\ \E b \in feedback :
                           b.feed = i.feed /\ b.clicked}
      BY <3>1 DEF Credited, ClickedFeed
    <3> QED
      BY <3>1, <3>2, <3>3
  <2> QED
    BY <2>2, <2>3, <2>4, <2>5, <2>6 DEF FeedbackIsCounted
<1> QED
  BY <1>1, FeedbackAlways, PTL

=============================================================================
