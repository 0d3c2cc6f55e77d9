------------------------------ MODULE AlertOutbox ------------------------------
(***************************************************************************)
(* The scheduled checks of one tenant and the alerts they queue and        *)
(* deliver (aegis/ops): run_checks by passes that can overlap, as a        *)
(* CronJob's can.  A pass looks at every condition and raises or clears    *)
(* its alert, each in a transaction of its own, then tries every pending   *)
(* alert once, all in one transaction.                                     *)
(*                                                                         *)
(* The session holds the attempts it read; an UPDATE writes them plus one  *)
(* and writes delivered_at only when the alert went out.  The dispatcher   *)
(* is taken to be configured; its channels (webhook, emails) are one,      *)
(* which fails when any of them does.                                      *)
(***************************************************************************)
EXTENDS Naturals, Sequences, FiniteSets, SequencesExt

CONSTANTS
  Pass,          \* slots for passes in progress
  Conditions,    \* the conditions checked, in order
  Clearing,      \* those whose dedupe key is cleared when they are found good
  MaxAttempts,   \* MAX_ATTEMPTS
  MaxEvents      \* bound: how often a condition turns bad or a pass dies

Condition == ToSet(Conditions)
Cleared == "cleared"     \* dedupe_key IS NULL

ASSUME AlertAssumption ==
  /\ Conditions \in Seq(Condition) /\ IsInjective(Conditions)
  /\ Clearing \subseteq Condition /\ Cleared \notin Condition
  /\ MaxAttempts \in Nat \ {0} /\ MaxEvents \in Nat
  /\ IsFiniteSet(Pass)

VARIABLES
  bad,        \* conditions that hold now
  alerts,     \* committed rows of the table alerts
  pass,       \* what each pass knows and has not committed
  turns, faults,
  sent,       \* history: how often each alert was sent, while that is bounded
  together    \* history: two passes were in progress at once

alertVars == <<bad, alerts, pass, turns, faults, sent, together>>

MaxAlerts == 1 + MaxEvents * Cardinality(Pass)
Row == [key : Condition \cup {Cleared}, attempts : 0..MaxAttempts, delivered : BOOLEAN]

\* read: attempts of a row when it was read; 0..MaxAttempts-1 while it is pending
Idling == [pc |-> "idle", at |-> 1, todo |-> {}, read |-> << >>, marked |-> << >>]

AlertTypeOK ==
  /\ bad \subseteq Condition
  /\ alerts \in Seq(Row) /\ Len(alerts) <= MaxAlerts
  /\ \A p \in Pass :
       /\ pass[p].pc \in {"idle", "check", "insert", "pending", "send", "sent", "unsent"}
       /\ pass[p].at \in 1..(Len(Conditions) + 1)
       /\ pass[p].todo \subseteq DOMAIN alerts
       /\ \A i \in DOMAIN pass[p].marked : pass[p].read[i] < MaxAttempts
  /\ turns \in Nat /\ faults \in Nat /\ turns + faults <= MaxEvents
  /\ sent \in Seq(Nat) /\ Len(sent) = Len(alerts)
  /\ together \in BOOLEAN

-----------------------------------------------------------------------------
Unsent == [i \in DOMAIN alerts |-> 0]

\* Nothing is wrong now; an alert raised before may be left, in whatever state.
Left == {row \in Row : row.delivered => row.attempts > 0}

AlertInit ==
  /\ bad = {} /\ turns = 0 /\ faults = 0
  /\ alerts \in {<< >>} \cup {<<row>> : row \in Left}
  /\ sent = Unsent /\ together = FALSE
  /\ pass = [p \in Pass |-> Idling]

\* The world: the ledger breaks and is repaired, scoring inputs drift and come back.
TurnBad(c) ==
  /\ c \notin bad /\ turns + faults < MaxEvents
  /\ bad' = bad \cup {c} /\ turns' = turns + 1
  /\ UNCHANGED <<alerts, pass, faults, sent, together>>

TurnGood(c) ==
  /\ c \in bad
  /\ bad' = bad \ {c}
  /\ UNCHANGED <<alerts, pass, turns, faults, sent, together>>

\* main(): the next pass over the tenants.
StartPass(p) ==
  /\ pass[p].pc = "idle"
  /\ pass' = [pass EXCEPT ![p] = [Idling EXCEPT !.pc = "check"]]
  /\ together' = (together \/ \E q \in Pass \ {p} : pass[q].pc # "idle")
  /\ sent' = IF together' THEN Unsent ELSE sent
  /\ UNCHANGED <<bad, alerts, turns, faults>>

Looking(p) == Conditions[pass[p].at]
ToCheck(p) == pass[p].pc = "check" /\ pass[p].at <= Len(Conditions)
Holds(i, q) == i \in DOMAIN pass[q].marked
RowsFor(c) == {i \in DOMAIN alerts : alerts[i].key = c}

\* Mutant of Suppressed: an alert that was delivered suppresses nothing.
SuppressedByPending(c) == \E i \in RowsFor(c) : ~alerts[i].delivered

\* add(): a row with the same dedupe key, delivered or not, suppresses a new one.
Suppressed(c) == RowsFor(c) # {}

\* A condition is looked at; when it is bad, add() looks for a row with its key.
FindBad(p) ==
  /\ ToCheck(p) /\ Looking(p) \in bad
  /\ pass' = IF Suppressed(Looking(p)) THEN [pass EXCEPT ![p].at = @ + 1]
             ELSE [pass EXCEPT ![p].pc = "insert"]
  /\ UNCHANGED <<bad, alerts, turns, faults, sent, together>>

\* add() inserts, and its transaction commits.
InsertAlert(p) ==
  /\ pass[p].pc = "insert"
  /\ alerts' = Append(alerts, [key |-> Looking(p), attempts |-> 0, delivered |-> FALSE])
  /\ sent' = Append(sent, 0)
  /\ pass' = [pass EXCEPT ![p].pc = "check", ![p].at = @ + 1]
  /\ UNCHANGED <<bad, turns, faults, together>>

\* The condition is good: clear_dedupe, which waits for rows another pass has marked.
FindGood(p) ==
  /\ ToCheck(p) /\ Looking(p) \notin bad
  /\ IF Looking(p) \in Clearing
     THEN /\ \A i \in RowsFor(Looking(p)) : \A q \in Pass \ {p} : ~Holds(i, q)
          /\ alerts' = [i \in DOMAIN alerts |->
               IF alerts[i].key = Looking(p) THEN [alerts[i] EXCEPT !.key = Cleared]
               ELSE alerts[i]]
     ELSE UNCHANGED alerts
  /\ pass' = [pass EXCEPT ![p].at = @ + 1]
  /\ UNCHANGED <<bad, turns, faults, sent, together>>

IsPending(row) == ~row.delivered /\ row.attempts < MaxAttempts

\* deliver_pending: the rows are read into the session.
ReadPending(p) ==
  /\ pass[p].pc = "check" /\ pass[p].at > Len(Conditions)
  /\ pass' = [pass EXCEPT
       ![p].pc = "pending",
       ![p].todo = {i \in DOMAIN alerts : IsPending(alerts[i])},
       ![p].read = [i \in {j \in DOMAIN alerts : IsPending(alerts[j])} |->
                      alerts[i].attempts]]
  /\ UNCHANGED <<bad, alerts, turns, faults, sent, together>>

NextAlert(p) == CHOOSE i \in pass[p].todo : \A j \in pass[p].todo : i <= j

\* _send: the alert goes out to every channel, or a channel fails.
Send(p, outcome) ==
  /\ pass[p].pc = "pending" /\ pass[p].todo # {}
  /\ pass' = [pass EXCEPT ![p].pc = outcome]
  /\ sent' = IF together \/ faults > 0 THEN sent
             ELSE [sent EXCEPT ![NextAlert(p)] = @ + 1]
  /\ UNCHANGED <<bad, alerts, turns, faults, together>>

\* mark(): the flushed UPDATE waits for another pass's; the row is held until the commit.
Mark(p) ==
  /\ pass[p].pc \in {"sent", "unsent"}
  /\ LET i == NextAlert(p) IN
     /\ \A q \in Pass \ {p} : ~Holds(i, q)
     /\ pass' = [pass EXCEPT
          ![p].pc = "pending", ![p].todo = @ \ {i},
          ![p].marked = [j \in DOMAIN @ \cup {i} |->
                           IF j = i THEN pass[p].pc = "sent" ELSE @[j]]]
  /\ UNCHANGED <<bad, alerts, turns, faults, sent, together>>

\* The columns mark() changed, as the session's UPDATE writes them.
Marked(p, i) ==
  [alerts[i] EXCEPT !.attempts = pass[p].read[i] + 1, !.delivered = @ \/ pass[p].marked[i]]

CommitPass(p) ==
  /\ pass[p].pc = "pending" /\ pass[p].todo = {}
  /\ alerts' = [i \in DOMAIN alerts |-> IF Holds(i, p) THEN Marked(p, i) ELSE alerts[i]]
  /\ pass' = [pass EXCEPT ![p] = Idling]
  /\ UNCHANGED <<bad, turns, faults, sent, together>>

\* A check raises, a channel raises what _send does not catch, or the process dies: the
\* transaction is rolled back, and what was sent is forgotten.
DiePass(p) ==
  /\ pass[p].pc # "idle" /\ turns + faults < MaxEvents
  /\ faults' = faults + 1
  /\ pass' = [pass EXCEPT ![p] = Idling]
  /\ sent' = Unsent
  /\ UNCHANGED <<bad, alerts, turns, together>>

ProceedPass(p) ==
  \/ StartPass(p) \/ FindBad(p) \/ InsertAlert(p) \/ FindGood(p) \/ ReadPending(p)
  \/ (\E outcome \in {"sent", "unsent"} : Send(p, outcome))
  \/ Mark(p) \/ CommitPass(p)

AlertNext ==
  \/ \E c \in Condition : TurnBad(c) \/ TurnGood(c)
  \/ \E p \in Pass : ProceedPass(p) \/ DiePass(p)

\* The CronJob starts a pass again and again; a pass goes on; a row lock is granted.
AlertFairness == \A p \in Pass : SF_alertVars(ProceedPass(p))

AlertSpec == AlertInit /\ [][AlertNext]_alertVars /\ AlertFairness

-----------------------------------------------------------------------------
\* "A delivered one is stamped": a stamp is never undone, although another pass writes
\* the row from what it read before the stamp.
StampedStaysStamped ==
  [][\A i \in DOMAIN alerts : alerts[i].delivered => alerts'[i].delivered]_alertVars

\* "... and never sent again", as long as passes do not overlap.
SerialStampedIsFinal ==
  [][\A p \in Pass : pass[p].pc = "pending" /\ pass'[p].pc \in {"sent", "unsent"} =>
       together \/ ~alerts[NextAlert(p)].delivered]_alertVars

\* An alert is tried at most MaxAttempts times, as long as passes neither overlap nor die.
SerialTriesBounded ==
  ~together /\ faults = 0 => \A i \in DOMAIN sent : sent[i] <= MaxAttempts

\* "A condition that persists raises one alert, not one per check", as long as passes
\* do not overlap: its key is on one row at most.
SerialOneAlert == ~together => \A c \in Condition : Cardinality(RowsFor(c)) <= 1

\* A condition that stays bad is alerted, also when it was bad before and was cleared.
BadIsQueued == \A c \in Condition : c \in bad ~> (c \notin bad \/ RowsFor(c) # {})

\* The queue drains once the world is quiet: every alert is delivered or given up, and
\* overlapping passes that write back older attempts do not keep one for ever.
QueuedEnds == <>[](\A i \in DOMAIN alerts : ~IsPending(alerts[i]))

\* The alerts: as long as no passes overlap, one for each condition, tried so often and no more.
AlertsAreBounded ==
  /\ AlertTypeOK /\ SerialTriesBounded /\ SerialOneAlert

=============================================================================
