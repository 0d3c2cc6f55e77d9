------------------------------- MODULE MCDecisions -------------------------------
(***************************************************************************)
(* What Aegis decides and keeps as evidence, for TLC: a workflow run, the  *)
(* signatures and exports of the ledger, the two tests on models, the      *)
(* screening of candidates, and the planning requests: workforce, skills   *)
(* and sentiment; and what runs beside the feeds of Sifa: the scheduler,   *)
(* the start of the process and the benchmark jobs.  A behaviour chooses   *)
(* one of them and runs it; the others stay as they start, so that the     *)
(* states add up and do not multiply.                                      *)
(*                                                                         *)
(* The workflow has the shapes of the catalogue (aegis.hr.workflows): after*)
(* outreach through a mail server that may fail, a branch answered by an   *)
(* outside provider and an optional one without a tool, as onboarding and  *)
(* retention have them; then the irreversible offer that ends hiring.      *)
(***************************************************************************)
EXTENDS AgentRuntime, LedgerEvidence, AdverseImpact, FidelityGate, Screening, WorkforcePlan,
        SkillMatching, SentimentWarning, SifaScheduler, SifaBoot, SifaBenchmark

CONSTANT Parts   \* the parts that may run

VARIABLE part    \* which part runs; chosen once

HiringRequires == << {}, {1}, {1}, {2, 3} >>
HiringActions ==
  << "SEND_MESSAGE", "ORDER_BACKGROUND_CHECK", "RECOMMEND_INTERNAL_MOVE", "EXTEND_OFFER" >>
HiringTools == {"SEND_MESSAGE", "ORDER_BACKGROUND_CHECK", "EXTEND_OFFER"}

\* The two stored postures, one that delegates everything, and one that forbids the
\* background check.
Postures ==
  { ConservativePolicy("acme"),
    PermissivePolicy("acme"),
    [PermissivePolicy("acme") EXCEPT !.autonomous = ActionType, !.floor = 0,
                                     !.readable = RestrictedDomain],
    [ConservativePolicy("acme") EXCEPT !.forbidden = {"ORDER_BACKGROUND_CHECK"}] }

NoneOrLow == {{}, {50}}

\* Two groups of any sizes, some of which are refused, and three small ones.
Of(g, s, t) == [group |-> g, selected |-> s, total |-> t]
SmallAnalyses ==
  {<<Of("a", s, t), Of(g, r, u)>> : s, r \in 0..MaxTotal, t, u \in 1..MaxTotal, g \in {"a", "b"}}
    \cup {<<Of("a", s[1], t[1]), Of("b", s[2], t[2]), Of("c", s[3], t[3])>> :
            s \in [1..3 -> 0..3], t \in [1..3 -> 2..3]}

\* Any fields together, and any numbers together: the two do not meet in any rule.
PlainBriefs ==
  {r \in [keys : SUBSET (Fields \ {"years_experience", "skill_match"}),
          telling : SUBSET {"notes", "Notes"}, odd : SUBSET {"notes", "graduation_date"},
          experience : {5}, ago : {5}, match : {0}, years : {0}] :
     r.telling \cup r.odd \subseteq r.keys}
NumberBriefs ==
  [keys : {{"id"} \cup k : k \in SUBSET {"years_experience", "skill_match", "graduation_date"}},
   telling : {{}}, odd : {{}}, experience : Experience, ago : {5, 90}, match : {0, 8}, years : {0, 5}]
SmallBriefs == PlainBriefs \cup NumberBriefs

\* Three fifths against three quarters.
SmallRoundings == {<<3, 5, 3, 4>>}

\* The doubles 5 * (1.0 - 0.8), 10 * (1.0 - 0.8) and 10 * (1.0 - 0.9) are below 1, 2 and 1.
SmallTruncations == {<<5, 8>>, <<10, 8>>, <<10, 9>>}

Held(m, y) == [mentions |-> m, years |-> y]
Asks(k, l) == [skill |-> k, required |-> l]

\* Any evidence of one skill, and none or much of the other.
SmallProfiles ==
  {[python |-> Held(m, y), sql |-> q] :
     m \in Mentions, y \in Years, q \in {Held(0, 0), Held(2, 5)}}

\* A vacancy of twenty levels is there, where the bonus for the family counts a level.
SmallRoles ==
  {[family |-> f, requirements |-> <<Asks("python", WORKING), Asks("sql", l)>>] :
     f \in {"engineering", "general"}, l \in {WORKING, EXPERT}}
    \cup {[family |-> "data", requirements |-> <<Asks("python", PRACTITIONER)>>],
          [family |-> "data",
           requirements |-> [n \in 1..5 |-> Asks(IF n = 1 THEN "python" ELSE "sql", EXPERT)]]}

SmallTeams ==
  {[l \in Proficiency |-> CASE l = WORKING -> w [] l = EXPERT -> e [] OTHER -> 0] :
     w, e \in 0..5}

\* A negation in reach and one out of reach; terms of an aspect near and too far.
SmallTexts ==
  { <<"pay", "good">>, <<"pay", "not", "good">>, <<"team", "bad", "good">>,
    <<"not", "word", "word", "word", "bad">>,
    <<"team", "word", "word", "word", "word", "word", "word", "good", "pay">> }
Says(g, t) == [group |-> g, text |-> t]
SmallPeriods ==
  {<<Says("ops", t), Says("ops", u)>> :
     t, u \in {<<"pay", "good">>, <<"pay", "not", "good">>, <<"team", "bad", "good">>}}
SmallSurveys ==
  {<<Says("ops", t), Says(g, u), Says("lab", v)>> : t, u, v \in SmallTexts, g \in SurveyGroups}
    \cup SmallPeriods

-----------------------------------------------------------------------------
decisionsVars ==
  <<vars, evidenceVars, impactVars, fidelityVars, screeningVars, workforceVars, skillsVars,
    sentimentVars, schedulerVars, bootVars, benchmarkVars, part>>

MCInit ==
  /\ part \in Parts
  /\ Init /\ EvidenceInit /\ ImpactInit /\ FidelityInit /\ ScreeningInit
  /\ WorkforceInit /\ SkillsInit /\ SentimentInit
  /\ SchedulerInit /\ BootInit /\ BenchmarkInit
  /\ part = "run" \/ policy = ConservativePolicy("acme")
  /\ part = "jobs" \/ operators = Client

\* The variables of another part than the one that runs.
Still(q, v) == IF part = q THEN TRUE ELSE UNCHANGED v

Elsewhere ==
  /\ UNCHANGED part
  /\ Still("run", vars) /\ Still("evidence", evidenceVars) /\ Still("impact", impactVars)
  /\ Still("fidelity", fidelityVars) /\ Still("screening", screeningVars)
  /\ Still("workforce", workforceVars) /\ Still("skills", skillsVars)
  /\ Still("sentiment", sentimentVars) /\ Still("scheduler", schedulerVars)
  /\ Still("boot", bootVars) /\ Still("jobs", benchmarkVars)

\* Bound: of the features one may drift alone, always the same one.
SomeDrifts == {{}, Feature, {CHOOSE ft \in Feature : TRUE}}

MCNext ==
  /\ Elsewhere
  /\ \/ part = "run" /\ Next
     \/ part = "evidence" /\ EvidenceNext
     \/ part = "impact" /\ ImpactNext
     \/ part = "fidelity" /\ FidelityNext
     \/ part = "screening" /\ ScreeningNext
     \/ part = "workforce" /\ WorkforceNext
     \/ part = "skills" /\ SkillsNext
     \/ part = "sentiment" /\ SentimentNext
     \/ part = "scheduler" /\ SchedulerNext /\ drifted' \in SomeDrifts
     \/ part = "boot" /\ BootNext
     \/ part = "jobs" /\ BenchmarkNext

\* The fairness of each part that has one.
MCSpec ==
  /\ MCInit /\ [][MCNext]_decisionsVars
  /\ WF_vars(part = "run" /\ Advance)
  /\ WF_schedulerVars(part = "scheduler" /\ ProceedTick)
  /\ WF_schedulerVars(part = "scheduler" /\ GuardTells)
  /\ WF_bootVars(part = "boot" /\ BootStep)
  /\ \A c \in Caller : SF_bootVars(part = "boot" /\ ProceedCaller(c))
  /\ WF_benchmarkVars(part = "jobs" /\ Work)
  /\ \A c \in Client : WF_benchmarkVars(part = "jobs" /\ ProceedClient(c))

-----------------------------------------------------------------------------
\* AdvanceReturns where the run is what runs: it starts in the middle of an advance().
RunAdvanceReturns == part = "run" => AdvanceReturns

\* Nobody waits for ever: a start ends, a request that queues is answered, and the lock of
\* the benchmark is released.  (The last two at once: where one part runs, what the other
\* waits for is over as it starts.)
OperationEnds ==
  /\ StartingEnds
  /\ \A c \in Caller : (WaitsForLock(c) \/ busy) ~> (RequestOver(c) /\ LetGo)

=============================================================================
