----------------------------- MODULE SignInLimiter -----------------------------
(***************************************************************************)
(* The sliding window of failed sign-ins of one client address             *)
(* (_FailureLimiter of aegis/api/app.py) in one process, and the attempts  *)
(* that race through it: an attempt checks the window in one critical      *)
(* section, resolves the key against the database, and records a failure   *)
(* in another.  Time is kept as the age of each failure in units of the    *)
(* window; what is older than the window is one age.                       *)
(***************************************************************************)
EXTENDS Naturals, Sequences, FiniteSets

CONSTANTS
  Attempt,   \* sign-in attempts that can be in progress at once
  Limit,     \* AEGIS_TOKEN_FAILURES_PER_MINUTE
  Window     \* the window, in units of time

\* The server answers with a finite number of threads.
ASSUME LimiterAssumption ==
  /\ Limit \in Nat \ {0} /\ Window \in Nat \ {0}
  /\ IsFiniteSet(Attempt)

VARIABLES
  failures,   \* ages of the failures kept, oldest first
  attempt,    \* where each attempt is
  wrong       \* history: ages of the attempts that failed, within the window

limiterVars == <<failures, attempt, wrong>>

Old == Window + 1

LimiterTypeOK ==
  /\ failures \in Seq(0..Old)
  /\ attempt \in [Attempt -> {"idle", "resolving", "refused"}]
  /\ wrong \in Seq(0..Window)

-----------------------------------------------------------------------------
LimiterInit ==
  /\ failures = << >>
  /\ wrong = << >>
  /\ attempt = [a \in Attempt |-> "idle"]

\* How many are popped: the hits before the first that is not too old.
Stale(hits) ==
  CHOOSE n \in 0..Len(hits) :
    /\ \A i \in 1..n : hits[i] > Window
    /\ n < Len(hits) => hits[n + 1] <= Window

\* while hits and now - hits[0] > 60.0: popleft.
Recent(hits) == SubSeq(hits, Stale(hits) + 1, Len(hits))

\* Mutant of Check: one failure too many gets through.
CheckLate(a) ==
  /\ attempt[a] = "idle"
  /\ failures' = Recent(failures)
  /\ attempt' = [attempt EXCEPT ![a] = IF Len(failures') > Limit THEN "refused"
                                       ELSE "resolving"]
  /\ UNCHANGED wrong

\* check(): drops what left the window; refused with 429 when the limit is reached.
Check(a) ==
  /\ attempt[a] = "idle"
  /\ failures' = Recent(failures)
  /\ attempt' = [attempt EXCEPT ![a] = IF Len(failures') >= Limit THEN "refused"
                                       ELSE "resolving"]
  /\ UNCHANGED wrong

\* The key resolves: nothing is recorded.
Succeed(a) ==
  /\ attempt[a] = "resolving"
  /\ attempt' = [attempt EXCEPT ![a] = "idle"]
  /\ UNCHANGED <<failures, wrong>>

\* record_failure(): appended without looking at the window or the limit.
RecordFailure(a) ==
  /\ attempt[a] = "resolving"
  /\ failures' = Append(failures, 0)
  /\ wrong' = Append(wrong, 0)
  /\ attempt' = [attempt EXCEPT ![a] = "idle"]

\* The refused client gets its answer.
Answer429(a) ==
  /\ attempt[a] = "refused"
  /\ attempt' = [attempt EXCEPT ![a] = "idle"]
  /\ UNCHANGED <<failures, wrong>>

Aged(hits) == [i \in DOMAIN hits |-> IF hits[i] = Old THEN Old ELSE hits[i] + 1]

\* Time passes.  The history keeps the last ones, as many as are within the window.
Later ==
  LET older == Aged(wrong)
      kept == Cardinality({i \in DOMAIN older : older[i] <= Window})
  IN /\ failures' = Aged(failures)
     /\ wrong' = SubSeq(older, Len(older) - kept + 1, Len(older))
     /\ UNCHANGED attempt

LimiterNext ==
  \/ \E a \in Attempt : Check(a) \/ Succeed(a) \/ RecordFailure(a) \/ Answer429(a)
  \/ Later

\* Time passes, and every attempt gets its answer.
LimiterFairness ==
  /\ WF_limiterVars(Later)
  /\ \A a \in Attempt : WF_limiterVars(Succeed(a) \/ RecordFailure(a) \/ Answer429(a))

LimiterSpec == LimiterInit /\ [][LimiterNext]_limiterVars /\ LimiterFairness

-----------------------------------------------------------------------------
\* However attempts race between the check and the record, no more failures than the
\* limit, and one for each attempt but one that was in flight with the last, get into a
\* window.
WindowBounded == Len(Recent(failures)) <= Limit + Cardinality(Attempt) - 1

\* A client is refused only for attempts that did fail, as many as the limit within one
\* window: sign-ins that succeed and attempts that were refused are not held against it.
RefusedForFailures ==
  [][\A a \in Attempt : attempt[a] # "refused" /\ attempt'[a] = "refused" =>
       Len(wrong) >= Limit]_limiterVars

\* A lockout ends, although the client keeps trying while it lasts: attempts that are
\* refused do not prolong it.
LockoutEnds ==
  Len(Recent(failures)) >= Limit ~> Len(Recent(failures)) < Limit

\* The limiter: its window is bounded although attempts race.
LimiterHolds ==
  /\ LimiterTypeOK /\ WindowBounded

=============================================================================
