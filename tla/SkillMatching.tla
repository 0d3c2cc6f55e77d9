----------------------------- MODULE SkillMatching -----------------------------
(***************************************************************************)
(* The skills requests (/v1/skills/...): proficiency read from evidence,   *)
(* the gap between what a team holds and what it will need, the roles an   *)
(* employee could move to and the internal candidates for a vacancy.       *)
(*                                                                         *)
(* Evidence is how often a skill is mentioned and the years stated for it. *)
(* A score is a fraction; the code rounds it to four decimals.  Two that   *)
(* differ, of roles that ask for at most twenty levels, differ by 1/8000   *)
(* at least, and stay apart and in order when rounded.                     *)
(***************************************************************************)
EXTENDS Naturals, Sequences, FiniteSets, Sums

CONSTANTS
  Profiles,   \* evidence of an employee, by skill
  Roles,      \* vacancies: a family and requirements
  Minimums,   \* values of minimum_score, in hundredths
  Mentions,   \* numbers of mentions
  Years,      \* numbers of years, as far as they are full
  Teams,      \* numbers of employees at each level of one skill
  Needs,      \* headcounts of a requirement
  RateParts,  \* the parts an attrition rate is stated in: 10 when in tenths
  Attrition,  \* attrition rates, in these parts
  RoundedDown \* numbers of people, with a rate, whose product is a whole number in truth
              \* and comes out below it in doubles

Skill == {"python", "sql"}                        \* two of default_taxonomy
FamilyOf == [python |-> "engineering", sql |-> "data"]

NONE == 0
AWARENESS == 1
WORKING == 2
PRACTITIONER == 3
EXPERT == 4
Proficiency == NONE..EXPERT

Requirement == [skill : Skill, required : AWARENESS..EXPERT]

\* Levels asked for by the role.
Available(role) ==
  SumTo([i \in DOMAIN role.requirements |-> role.requirements[i].required], Len(role.requirements))

ASSUME SkillsAssumption ==
  /\ Mentions \subseteq Nat /\ Years \subseteq Nat /\ Needs \subseteq Nat
  /\ Profiles \subseteq [Skill -> [mentions : Mentions, years : Years]]
  /\ \A r \in Roles : /\ r.family \in {"engineering", "data", "general"}
                      /\ r.requirements \in Seq(Requirement) \ {<< >>}
                      /\ Available(r) <= 20
  /\ Minimums \subseteq 0..100
  /\ Teams \subseteq [Proficiency -> Nat]
  /\ RateParts \in Nat \ {0} /\ Attrition \subseteq 0..(RateParts - 1)
  /\ \A p \in RoundedDown : (p[1] * (RateParts - p[2])) \div RateParts > 0
                           /\ (p[1] * (RateParts - p[2])) % RateParts = 0

VARIABLE skills   \* the request being answered: what it gave, and the answer

skillsVars == <<skills>>

-----------------------------------------------------------------------------
\* Proficiency.from_evidence
FromEvidence(mentions, years) ==
  IF mentions = 0 THEN NONE
  ELSE IF years >= 5 /\ mentions >= 2 THEN EXPERT
  ELSE IF years >= 3 THEN PRACTITIONER
  ELSE IF years >= 1 THEN WORKING
  ELSE AWARENESS

\* What extract and level() say of skill s.
Level(profile, s) == FromEvidence(profile[s].mentions, profile[s].years)

Known(profile) == {s \in Skill : Level(profile, s) > NONE}

Shorts(profile, role) ==
  {i \in DOMAIN role.requirements :
     Level(profile, role.requirements[i].skill) < role.requirements[i].required}

ReadyNow(profile, role) == Shorts(profile, role) = {}

\* Levels of the requirement r that the profile holds.
Covered(profile, r) ==
  IF Level(profile, r.skill) < r.required THEN Level(profile, r.skill) ELSE r.required

\* Levels of the role that the profile holds.
Earned(profile, role) ==
  SumTo([i \in DOMAIN role.requirements |-> Covered(profile, role.requirements[i])],
        Len(role.requirements))

\* Five hundredths for knowing a skill of the role's family.
Adjacency(profile, role) == IF role.family \in {FamilyOf[s] : s \in Known(profile)} THEN 5 ELSE 0

\* match_role's score, out of 100 * Available(role).
MatchScore(profile, role) ==
  LET full == 100 * Available(role)
      score == 100 * Earned(profile, role) + Adjacency(profile, role) * Available(role) IN
  IF score < full THEN score ELSE full

-----------------------------------------------------------------------------
NoSkills == [pc |-> "idle"]

SkillsInit == skills = NoSkills

\* skills_extract
ExtractSkills ==
  /\ skills.pc = "idle"
  /\ \E p \in Profiles :
       skills' = [pc |-> "extracted", profile |-> p, levels |-> [s \in Known(p) |-> Level(p, s)]]

\* int(qualified * (1.0 - attrition_rate)): where the doubles come out below a whole number
\* the floor is one less.
Retained(qualified, rate) ==
  (qualified * (RateParts - rate)) \div RateParts
    - (IF <<qualified, rate>> \in RoundedDown THEN 1 ELSE 0)

\* Those at the level or above it.
Qualified(team, required) ==
  SumTo([l \in AWARENESS..EXPERT |-> IF l >= required THEN team[l] ELSE 0], EXPERT)

\* Gap.shortfall
Shortfall(demand, supply) == IF demand > supply THEN demand - supply ELSE 0

\* forecast_gaps, for one requirement.
Forecast(team, required, demand, rate) ==
  LET supply == Retained(Qualified(team, required), rate) IN
  [pc |-> "forecast", team |-> team, required |-> required, demand |-> demand, rate |-> rate,
   supply |-> supply, shortfall |-> Shortfall(demand, supply)]

\* skills_gaps, for a team and what will be needed of one skill.
ForecastGap ==
  /\ skills.pc = "idle"
  /\ \E team \in Teams, required \in AWARENESS..EXPERT, demand \in Needs, rate \in Attrition :
       skills' = Forecast(team, required, demand, rate)

\* Entry a is listed before entry b whatever the order they were given in.
ByScore(a, b) == a.score * b.of > b.score * a.of
ByReadiness(a, b) == (a.ready /\ ~b.ready) \/ (a.ready = b.ready /\ ByScore(a, b))

\* list.sort is stable, reversed or not: equals stay in the order given.  before holds the
\* pairs of places of which the first goes first.
SortedBy(matches, before) ==
  LET Place(i) == Cardinality({j \in DOMAIN matches : <<j, i>> \in before
                                 \/ (j < i /\ <<i, j>> \notin before)}) + 1 IN
  [n \in DOMAIN matches |-> matches[CHOOSE i \in DOMAIN matches : Place(i) = n]]

Places(matches) == (DOMAIN matches) \X (DOMAIN matches)

Match(profile, role) ==
  [profile |-> profile, role |-> role, score |-> MatchScore(profile, role),
   of |-> 100 * Available(role), ready |-> ReadyNow(profile, role)]

\* Those of two matches that reach the minimum.
Reaching(match, minimum) == IF 100 * match.score >= minimum * match.of THEN <<match>> ELSE << >>
Qualifying(one, two, minimum) == Reaching(one, minimum) \o Reaching(two, minimum)

\* internal_candidates: by the score.
RankedByScore(matches) ==
  SortedBy(matches, {p \in Places(matches) : ByScore(matches[p[1]], matches[p[2]])})

\* rank_roles: those ready first (its mutant ranks by score alone).
Ranked(matches) ==
  SortedBy(matches, {p \in Places(matches) : ByReadiness(matches[p[1]], matches[p[2]])})

\* skills_mobility
RankRoles ==
  /\ skills.pc = "idle"
  /\ \E p \in Profiles, r, q \in Roles, minimum \in Minimums :
       skills' = [pc |-> "roles",
                  matches |-> Ranked(Qualifying(Match(p, r), Match(p, q), minimum))]

\* skills_candidates
RankCandidates ==
  /\ skills.pc = "idle"
  /\ \E p, q \in Profiles, r \in Roles, minimum \in Minimums :
       skills' = [pc |-> "candidates",
                  matches |-> RankedByScore(Qualifying(Match(p, r), Match(q, r), minimum))]

AnswerSkills == skills.pc # "idle" /\ skills' = NoSkills

SkillsNext == ExtractSkills \/ ForecastGap \/ RankRoles \/ RankCandidates \/ AnswerSkills

SkillsSpec == SkillsInit /\ [][SkillsNext]_skillsVars

-----------------------------------------------------------------------------
\* More mentions or more years of a skill never lower the level read from them.
MoreEvidenceNeverHurts ==
  skills.pc = "extracted" =>
    \A s \in Skill, m \in Mentions, y \in Years :
      /\ skills.profile[s].mentions <= m /\ skills.profile[s].years <= y
      /\ s \in DOMAIN skills.levels
      => skills.levels[s] <= FromEvidence(m, y)

\* A requirement is only called covered when those who stay cover it exactly, and a gap is
\* never stated more than one above the true one.
CoveredIsCovered ==
  skills.pc = "forecast" =>
    LET staying == Qualified(skills.team, skills.required) * (RateParts - skills.rate) IN
    /\ skills.shortfall = 0 => staying >= RateParts * skills.demand
    /\ skills.shortfall > 0 => staying < RateParts * (skills.demand + 1)

\* Among an employee's roles the ready ones come first and score in full.
ReadyRolesFirst ==
  skills.pc = "roles" =>
    \A i, j \in DOMAIN skills.matches :
      /\ skills.matches[j].ready => skills.matches[j].score = skills.matches[j].of
      /\ i < j /\ skills.matches[j].ready => skills.matches[i].ready

\* Nobody who misses a requirement is listed before somebody who misses none, as long as the
\* role asks for fewer than twenty levels: from twenty on the bonus for the family is worth
\* a level, and the candidate named first comes first.
BestCandidateFirst ==
  skills.pc = "candidates" =>
    \A i, j \in DOMAIN skills.matches :
      i < j /\ skills.matches[j].ready /\ skills.matches[j].of < 2000 => skills.matches[i].ready

\* Levels, gaps and matches: more evidence never counts for less, what is called covered
\* is covered, and who is ready comes first.
MatchesAreSound ==
  /\ MoreEvidenceNeverHurts /\ CoveredIsCovered /\ ReadyRolesFirst /\ BestCandidateFirst

=============================================================================
