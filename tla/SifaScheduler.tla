----------------------------- MODULE SifaScheduler -----------------------------
(***************************************************************************)
(* The background thread of Sifa (sifa/serving/scheduler.py): tick by tick *)
(* it looks for drift, starts the scheduled retraining and delivers the    *)
(* alerts of the outbox, with a webhook and an interval configured.  An    *)
(* operator and the guard act between its steps; promoting and rolling     *)
(* back run under the platform's lock, and every call of the store is a    *)
(* transaction a crash may follow.                                         *)
(***************************************************************************)
EXTENDS Naturals, Sequences, FiniteSets

CONSTANTS
  Feature,       \* the features compared with the training reference
  MaxTries,      \* max_attempts of pending_alerts
  MaxUpheavals   \* bound: drifts, due retrainings, promotions, rollbacks and restarts

ASSUME SchedulerAssumption == MaxTries \in Nat \ {0} /\ MaxUpheavals \in Nat

VARIABLES
  outbox,      \* the stored alerts, in the order of their ids
  posted,      \* history: times the webhook took each of them, with and without its answer seen
  garbled,     \* the last answer of the webhook was not HTTP
  drifted,     \* the features that have drifted, in the rows served last
  driftKey,    \* _drift_key
  due,         \* the interval since the stored last_retrain is over
  shadow, canary,  \* a version of the ranker is in this stage
  tick,        \* where the tick is, and the alerts it has still to deliver
  guardTells,  \* the guard has rolled back and holds the lock until it has told
  upheavals, restarts, promoted   \* counts; an operator has promoted

schedulerVars == <<outbox, posted, garbled, drifted, driftKey, due, shadow, canary, tick,
                   guardTells, upheavals, restarts, promoted>>

Sleeping == [pc |-> "sleep", queue |-> {}, ok |-> FALSE]
MaxAlerts == MaxUpheavals + 1
AlertOf(kind, features) ==
  [kind |-> kind, features |-> features, attempts |-> 0, delivered |-> FALSE]

SchedulerTypeOK ==
  /\ \A i \in DOMAIN outbox :
       outbox[i] \in [kind : {"drift", "retrain", "guard_rollback"},
                      features : SUBSET Feature,
                      attempts : 0..MaxTries, delivered : BOOLEAN]
  /\ Len(outbox) <= MaxAlerts /\ DOMAIN posted = DOMAIN outbox
  /\ \A i \in DOMAIN posted : posted[i] \in [seen : Nat, unseen : Nat]
  /\ garbled \in BOOLEAN
  /\ drifted \subseteq Feature /\ driftKey \subseteq Feature
  /\ due \in BOOLEAN /\ shadow \in BOOLEAN /\ canary \in BOOLEAN
  /\ tick.pc \in {"sleep", "retrain", "shadow", "canary", "stamp", "tell", "deliver",
                  "post", "mark"}
  /\ tick.queue \subseteq DOMAIN outbox /\ tick.ok \in BOOLEAN
  /\ guardTells \in BOOLEAN /\ promoted \in BOOLEAN
  /\ upheavals \in 0..MaxUpheavals /\ restarts \in 0..MaxUpheavals

SchedulerInit ==
  /\ outbox = << >> /\ posted = << >> /\ garbled = FALSE
  /\ drifted = {} /\ driftKey = {}
  /\ due = TRUE                        \* last_retrain is 0.0 until the first retraining
  /\ shadow = FALSE /\ canary = FALSE
  /\ tick = Sleeping /\ guardTells = FALSE
  /\ upheavals = 0 /\ restarts = 0 /\ promoted = FALSE

Models == <<shadow, canary>>
History == <<upheavals, restarts, promoted>>
Outbox == <<outbox, posted, garbled>>

At(pc) == tick.pc = pc
Go(pc) == tick' = [tick EXCEPT !.pc = pc]

\* enqueue_alert
Enqueue(alert) ==
  /\ outbox' = Append(outbox, alert)
  /\ posted' = Append(posted, [seen |-> 0, unseen |-> 0])
  /\ UNCHANGED garbled

\* The platform's lock, held by the tick while it promotes and by the guard.
LockFree == ~guardTells /\ ~At("canary")

-----------------------------------------------------------------------------
\* Mutant of IsNews: once drift was told of, the rest of it is not.
IsNewsWhenFirst == drifted # {} /\ driftKey = {}

IsNews == drifted # {} /\ drifted # driftKey

\* _check_drift
CheckDrift ==
  /\ At("sleep") /\ Go("retrain")
  /\ IF IsNews THEN Enqueue(AlertOf("drift", drifted)) ELSE UNCHANGED Outbox
  /\ driftKey' = drifted
  /\ UNCHANGED <<drifted, due, Models, guardTells, History>>

MayRetrain == due /\ ~canary

\* _maybe_retrain, before the lock
CheckRetrain ==
  /\ At("retrain") /\ Go(IF MayRetrain THEN "shadow" ELSE "deliver")
  /\ UNCHANGED <<Outbox, drifted, driftKey, due, Models, guardTells, History>>

\* promote_candidate: a new version to SHADOW.  When another is there the registry raises
\* and the tick is over, with nothing delivered.
ToShadow ==
  /\ At("shadow") /\ LockFree
  /\ IF shadow THEN tick' = Sleeping /\ UNCHANGED Models
     ELSE Go("canary") /\ shadow' = TRUE /\ UNCHANGED canary
  /\ UNCHANGED <<Outbox, drifted, driftKey, due, guardTells, History>>

\* promote_candidate: from there to CANARY, which another may hold as well.
ToCanary ==
  /\ At("canary")
  /\ IF canary THEN tick' = Sleeping /\ UNCHANGED Models
     ELSE Go("stamp") /\ shadow' = FALSE /\ canary' = TRUE
  /\ UNCHANGED <<Outbox, drifted, driftKey, due, guardTells, History>>

\* put("last_retrain")
Stamp ==
  /\ At("stamp") /\ Go("tell") /\ due' = FALSE
  /\ UNCHANGED <<Outbox, drifted, driftKey, Models, guardTells, History>>

TellRetrain ==
  /\ At("tell") /\ Go("deliver") /\ Enqueue(AlertOf("retrain", {}))
  /\ UNCHANGED <<drifted, driftKey, due, Models, guardTells, History>>

-----------------------------------------------------------------------------
\* pending_alerts
IsUndelivered(alert) == ~alert.delivered /\ alert.attempts < MaxTries

\* deliver: the pending alerts are read once.
ReadPending ==
  LET pending == {i \in DOMAIN outbox : IsUndelivered(outbox[i])} IN
  /\ At("deliver")
  /\ tick' = IF pending = {} THEN Sleeping
             ELSE [Sleeping EXCEPT !.pc = "post", !.queue = pending]
  /\ UNCHANGED <<Outbox, drifted, driftKey, due, Models, guardTells, History>>

\* ORDER BY id
InHand == CHOOSE i \in tick.queue : \A j \in tick.queue : i <= j

\* The webhook takes the alert and the answer is seen ...
PostSeen ==
  /\ At("post")
  /\ tick' = [tick EXCEPT !.pc = "mark", !.ok = TRUE]
  /\ posted' = [posted EXCEPT ![InHand].seen = @ + 1]
  /\ garbled' = FALSE
  /\ UNCHANGED <<outbox, drifted, driftKey, due, Models, guardTells, History>>

\* ... or no answer is seen, or one that is not 2xx: the webhook is down, refuses, or has
\* taken the alert and answers after the five seconds.
PostUnseen ==
  /\ At("post")
  /\ tick' = [tick EXCEPT !.pc = "mark", !.ok = FALSE]
  /\ \E taken \in BOOLEAN :
       posted' = IF taken THEN [posted EXCEPT ![InHand].unseen = @ + 1] ELSE posted
  /\ garbled' = FALSE
  /\ UNCHANGED <<outbox, drifted, driftKey, due, Models, guardTells, History>>

\* The answer is not HTTP: BadStatusLine is neither a URLError nor an OSError, leaves
\* deliver() before the attempt is counted and ends the tick.  (Alerts the webhook took
\* before it answered so are in no count: nothing bounds them.)
PostGarbled ==
  /\ At("post")
  /\ tick' = Sleeping /\ garbled' = TRUE
  /\ UNCHANGED <<outbox, posted, drifted, driftKey, due, Models, guardTells, History>>

\* Mutant of MarkedAlert: only a delivery counts as an attempt.
MarkedDelivery(alert, ok) ==
  [alert EXCEPT !.attempts = IF ok THEN @ + 1 ELSE @, !.delivered = ok]

\* mark_alert writes delivered_at whatever it was before.
MarkedAlert(alert, ok) == [alert EXCEPT !.attempts = @ + 1, !.delivered = ok]

MarkAlert ==
  /\ At("mark")
  /\ outbox' = [outbox EXCEPT ![InHand] = MarkedAlert(@, tick.ok)]
  /\ tick' = LET rest == tick.queue \ {InHand} IN
             IF rest = {} THEN Sleeping ELSE [Sleeping EXCEPT !.pc = "post", !.queue = rest]
  /\ UNCHANGED <<posted, garbled, drifted, driftKey, due, Models, guardTells, History>>

ProceedTick ==
  \/ CheckDrift \/ CheckRetrain \/ ToShadow \/ ToCanary \/ Stamp \/ TellRetrain
  \/ ReadPending \/ PostSeen \/ PostUnseen \/ PostGarbled \/ MarkAlert

-----------------------------------------------------------------------------
Upheaval == upheavals < MaxUpheavals /\ upheavals' = upheavals + 1

\* Traffic is served and looks another way than before.
TrafficDrifts ==
  /\ Upheaval /\ \E features \in SUBSET Feature : features # drifted /\ drifted' = features
  /\ UNCHANGED <<Outbox, driftKey, due, Models, tick, guardTells, restarts, promoted>>

RetrainFallsDue ==
  /\ Upheaval /\ ~due /\ due' = TRUE
  /\ UNCHANGED <<Outbox, drifted, driftKey, Models, tick, guardTells, restarts, promoted>>

\* _enforce_guard while a feed is recorded: the canary is rolled back ...
GuardRollsBack ==
  /\ Upheaval /\ LockFree /\ canary
  /\ canary' = FALSE /\ guardTells' = TRUE
  /\ UNCHANGED <<Outbox, drifted, driftKey, due, shadow, tick, restarts, promoted>>

\* ... and then told of.
GuardTells ==
  /\ guardTells /\ guardTells' = FALSE /\ Enqueue(AlertOf("guard_rollback", {}))
  /\ UNCHANGED <<drifted, driftKey, due, Models, tick, History>>

\* An operator promotes a candidate too; with a canary there it gets no further than SHADOW.
OperatorPromotes ==
  /\ Upheaval /\ LockFree /\ ~shadow
  /\ shadow' = canary /\ canary' = TRUE /\ promoted' = TRUE
  /\ UNCHANGED <<Outbox, drifted, driftKey, due, tick, guardTells, restarts>>

\* An operator advances the canary or rolls it back.
OperatorTakesCanary ==
  /\ LockFree /\ canary /\ canary' = FALSE
  /\ UNCHANGED <<Outbox, drifted, driftKey, due, shadow, tick, guardTells, History>>

\* A restart forgets the key and the rows served; the stages and the outbox are stored.
Restart ==
  /\ Upheaval /\ restarts' = restarts + 1
  /\ tick' = Sleeping /\ driftKey' = {} /\ drifted' = {} /\ guardTells' = FALSE
  /\ UNCHANGED <<Outbox, due, Models, promoted>>

SchedulerNext ==
  \/ ProceedTick \/ GuardTells
  \/ TrafficDrifts \/ RetrainFallsDue \/ GuardRollsBack
  \/ OperatorPromotes \/ OperatorTakesCanary \/ Restart

\* The thread keeps ticking and the guard finishes; nobody has to act.
SchedulerSpec ==
  /\ SchedulerInit /\ [][SchedulerNext]_schedulerVars
  /\ WF_schedulerVars(ProceedTick) /\ WF_schedulerVars(GuardTells)

-----------------------------------------------------------------------------
\* An alert whose delivery was seen is posted again only after a restart between the post
\* and its mark, and whatever answers are lost or late, the webhook gets it at most
\* MaxTries times and once more for each restart.
DeliveriesAreBounded ==
  \A i \in DOMAIN posted :
    /\ posted[i].seen <= 1 + restarts
    /\ posted[i].seen + posted[i].unseen <= MaxTries + restarts

\* What the key remembers is what the last alert about drift said: no part of a drift
\* goes untold because another part was told.
DriftIsNamed ==
  driftKey # {} =>
    \E i \in DOMAIN outbox :
      /\ outbox[i].kind = "drift" /\ outbox[i].features = driftKey
      /\ \A j \in DOMAIN outbox : j > i => outbox[j].kind # "drift"

\* The tick looks for a canary before it promotes: by itself it strands no version in
\* SHADOW.
SerialLeavesNoShadow == At("sleep") /\ restarts = 0 /\ ~promoted => ~shadow

Stranded == shadow /\ ~At("canary")
Settled(alert) == alert.delivered \/ alert.attempts = MaxTries

\* "A webhook that is down delays an alert instead of losing it (five attempts, then it
\* stays in the outbox ...)" (scheduler.py).  With a webhook whose answers are HTTP from some
\* moment on, late or bad as they may be, every alert is delivered or tried MaxTries times in
\* the end: none is starved by those before it, and none is forgotten by a restart.  But a
\* version stranded in SHADOW fails every tick before it delivers.  (Alerts end with the
\* upheavals, so that each of them settles when all do.)
AlertsSettle ==
  <>[]~garbled => []<>(Stranded \/ \A i \in DOMAIN outbox : Settled(outbox[i]))

\* The scheduler: an alert is posted no more often than its attempts and the restarts
\* explain, a drift is told as it is, and a tick strands nothing.
SchedulerIsPrecise ==
  /\ SchedulerTypeOK /\ DeliveriesAreBounded /\ DriftIsNamed /\ SerialLeavesNoShadow

=============================================================================
