----------------------------- MODULE WorkforcePlan -----------------------------
(***************************************************************************)
(* POST /v1/workforce/simulate: a scenario is simulated month by month     *)
(* (simulate), and, when a target is given, simulated again with 0, 1, 2,  *)
(* ... monthly hires until the final headcount reaches it                  *)
(* (hires_required).                                                       *)
(*                                                                         *)
(* People are counted in units small enough for every quotient taken to be *)
(* a whole number of them; rates are quarters, which doubles hold exactly. *)
(* What a month tells is rounded to thousandths of a person.               *)
(***************************************************************************)
EXTENDS Naturals, Sequences, FiniteSets, Sums

CONSTANTS
  Headcounts, Rates, MonthlyHires, Ramps, Demands, Targets,  \* what scenarios hold
  Lot,        \* a number that every ramp divides
  MaxMonths,                                                 \* bound: months simulated
  SolveLimit                                                 \* 5,000 in the code

ASSUME WorkforceAssumption ==
  /\ Headcounts \subseteq Nat /\ MonthlyHires \subseteq Nat /\ Demands \subseteq Nat
  /\ Targets \subseteq Nat /\ Rates \subseteq 0..3
  /\ Lot \in Nat \ {0} /\ Ramps \subseteq 0..24 /\ \A r \in Ramps : r = 0 \/ Lot % r = 0
  /\ MaxMonths \in Nat /\ SolveLimit \in Nat

VARIABLE plan   \* the request being answered and where its simulation is

workforceVars == <<plan>>

Unit == Lot * Power(4, MaxMonths)   \* one person

\* What hires_required holds for the scenario: the number of hires tried last, or an error.
PlanAnswers == {"none", "hires", "too large to solve", "unreachable"}

\* Nothing simulated yet, hiring h people a month.
Fresh(p, h) == [p EXCEPT !.trial = h, !.month = 0, !.headcount = p.starting * Unit,
                         !.ramping = << >>, !.capacity = 0, !.first = 0]

WorkforceTypeOK ==
  /\ plan.pc \in {"idle", "forecast", "solve", "answered"}
  /\ plan.pc # "idle" =>
       /\ plan.month \in 0..plan.months /\ plan.first \in 0..plan.month
       /\ plan.trial \in 0..(plan.target + plan.starting) \cup MonthlyHires
       /\ plan.capacity \in Nat /\ plan.headcount \in Nat
       /\ Len(plan.ramping) <= plan.ramp
       /\ \A i \in DOMAIN plan.ramping : plan.month - plan.ramping[i].started < plan.ramp
       /\ plan.answer \in PlanAnswers

-----------------------------------------------------------------------------
\* Who is left of n after one month.
Stay(n, p) == (n * (4 - p.rate)) \div 4

\* Attrition takes its share of every cohort that still ramps.
Thinned(p) == [i \in DOMAIN p.ramping |-> [p.ramping[i] EXCEPT !.count = Stay(@, p)]]

\* started's cohort does not count in full yet.
StillRamping(p, month, started) == p.ramp # 0 /\ month - started < p.ramp

\* Those that still ramp: cohorts are in the order they started, so they are the last.
Ramping(p, month, cohorts) ==
  LET over == {i \in DOMAIN cohorts : ~StillRamping(p, month, cohorts[i].started)} IN
  SubSeq(cohorts, Cardinality(over) + 1, Len(cohorts))

Hired(p, month) ==
  IF p.trial = 0 THEN << >> ELSE <<[started |-> month, count |-> p.trial * Unit]>>

CountOf(cohorts) == SumTo([i \in DOMAIN cohorts |-> cohorts[i].count], Len(cohorts))

\* round(n, 3), of n units, in thousandths of a person.  Python rounds a tie to the even one:
\* half a thousandth below a whole number that is up, as here, and no other tie is near one.
Rounded(n) == (2000 * n + Unit) \div (2 * Unit)

Tenured(headcount, cohorts) ==
  IF headcount > CountOf(cohorts) THEN headcount - CountOf(cohorts) ELSE 0

\* A cohort counts for more in each month.
PartOf(p, month, cohorts) ==
  SumTo([i \in DOMAIN cohorts |-> (cohorts[i].count * (month - cohorts[i].started)) \div p.ramp],
        Len(cohorts))

\* One turn of simulate's loop.
Month(p) ==
  LET month == p.month + 1
      headcount == Stay(p.headcount, p) + p.trial * Unit
      ramping == Ramping(p, month, Thinned(p) \o Hired(p, month))
      capacity == PartOf(p, month, ramping) + Tenured(headcount, ramping) IN
  [p EXCEPT !.month = month, !.headcount = headcount, !.ramping = ramping,
            !.capacity = capacity,
            !.first = IF @ = 0 /\ Rounded(capacity) < 1000 * p.demand THEN month ELSE @]

-----------------------------------------------------------------------------
NoPlan == [pc |-> "idle"]

WorkforceInit == plan = NoPlan

\* Scenario.__post_init__ and WorkforceRequest hold for what is asked here; target_headcount
\* is optional, and solved is whether it was given.
AskPlan ==
  /\ plan.pc = "idle"
  /\ \E starting \in Headcounts, rate \in Rates, hires \in MonthlyHires, ramp \in Ramps,
        demand \in Demands, months \in 1..MaxMonths, target \in Targets, solved \in BOOLEAN :
       plan' = Fresh([pc |-> "forecast", starting |-> starting, rate |-> rate, hires |-> hires,
                      ramp |-> ramp, demand |-> demand, months |-> months, target |-> target,
                      solved |-> solved, answer |-> "none", shortfall |-> 0, trial |-> 0,
                      month |-> 0, headcount |-> 0, ramping |-> << >>, capacity |-> 0,
                      first |-> 0], hires)

SimulateMonth ==
  /\ plan.pc \in {"forecast", "solve"} /\ plan.month < plan.months
  /\ plan' = Month(plan)

\* Mutant of Reached: more than the target.
ReachedBeyond(p) == Rounded(p.headcount) > 1000 * p.target

\* final_headcount >= target_headcount
Reached(p) == Rounded(p.headcount) >= 1000 * p.target

\* compare() is done: its result is kept, and the search starts when a target was given.
EndForecast ==
  /\ plan.pc = "forecast" /\ plan.month = plan.months
  /\ LET kept == [plan EXCEPT !.shortfall = plan.first] IN
     \/ /\ ~plan.solved
        /\ plan' = [kept EXCEPT !.pc = "answered"]
     \/ /\ plan.solved /\ plan.starting + plan.target > SolveLimit
        /\ plan' = [kept EXCEPT !.pc = "answered", !.answer = "too large to solve"]
     \/ /\ plan.solved /\ plan.starting + plan.target <= SolveLimit
        /\ plan' = Fresh([kept EXCEPT !.pc = "solve"], 0)

\* The trial with this many hires reached the target: return it.
FindHires ==
  /\ plan.pc = "solve" /\ plan.month = plan.months /\ Reached(plan)
  /\ plan' = [plan EXCEPT !.pc = "answered", !.answer = "hires"]

\* One more; after target + headcount of them the search gives up.
TryMoreHires ==
  /\ plan.pc = "solve" /\ plan.month = plan.months /\ ~Reached(plan)
  /\ plan' = IF plan.trial < plan.target + plan.starting
             THEN Fresh(plan, plan.trial + 1)
             ELSE [plan EXCEPT !.pc = "answered", !.answer = "unreachable"]

EndPlan == plan.pc = "answered" /\ plan' = NoPlan

WorkforceNext == AskPlan \/ SimulateMonth \/ EndForecast \/ FindHires \/ TryMoreHires \/ EndPlan

WorkforceSpec == WorkforceInit /\ [][WorkforceNext]_workforceVars

-----------------------------------------------------------------------------
\* What is left of n people after m months, each of which a share of rate quarters leaves:
\* n * Unit * ((4 - rate) / 4) ^ m.
Left(n, rate, m) == n * Lot * (Power(4 - rate, m) * Power(4, MaxMonths - m))

\* The headcount after m months of hiring h a month, in closed form.
Heads(starting, rate, h, m) ==
  Left(starting, rate, m) + SumTo([j \in 1..m |-> Left(h, rate, m - j)], m)

\* What is left of h people hired age months ago, as far as they count.
Worth(rate, ramp, h, age) ==
  IF ramp = 0 \/ age >= ramp THEN Left(h, rate, age) ELSE (Left(h, rate, age) * age) \div ramp

Capacity(starting, rate, ramp, h, m) ==
  Left(starting, rate, m) + SumTo([j \in 1..m |-> Worth(rate, ramp, h, m - j)], m)

\* Each month's headcount and capacity are what the scenario means: everybody, new or not,
\* leaves at the same rate; a hire joins after that month's leavers, counts for nothing in
\* the first month and for more in each, until the ramp is over; the cohorts are kept so
\* that nobody is counted twice.
CapacityFollowsTheRamp ==
  plan.pc # "idle" /\ plan.month > 0 =>
    /\ plan.headcount = Heads(plan.starting, plan.rate, plan.trial, plan.month)
    /\ plan.capacity = Capacity(plan.starting, plan.rate, plan.ramp, plan.trial, plan.month)

\* The search always ends with a number, the least that reaches the target: it never gives
\* up, because hiring as many as the target is enough, whatever the attrition.
HiresAreLeast ==
  plan.pc = "answered" =>
    /\ plan.answer # "unreachable"
    /\ plan.answer = "hires" =>
         LET Final(h) == Rounded(Heads(plan.starting, plan.rate, h, plan.months)) IN
         /\ Final(plan.trial) >= 1000 * plan.target
         /\ plan.trial > 0 => Final(plan.trial - 1) < 1000 * plan.target

\* A plan: its months are what the scenario means, and its hires are the least there are.
PlanIsSound ==
  /\ WorkforceTypeOK /\ CapacityFollowsTheRamp /\ HiresAreLeast

=============================================================================
