------------------------------- MODULE Screening -------------------------------
(***************************************************************************)
(* POST /v1/screen: a candidate's record is anonymised, checked, turned    *)
(* into a prompt, answered by a language model (the deterministic one      *)
(* unless a hosted one is configured), and the parsed verdict is stored    *)
(* under a pseudonym (anonymization/engine.py, reasoning/).                *)
(*                                                                         *)
(* A record is which fields it has, which of its prose names contacts,     *)
(* which of its values are not texts, and the numbers it states, in tenths;*)
(* a field stands for every field of its kind, and a spelling in capitals  *)
(* for every other spelling.                                               *)
(* Scores are hundredths of what a hosted model says, and exact fractions  *)
(* of what the deterministic model computes.                               *)
(***************************************************************************)
EXTENDS Integers, Sequences, FiniteSetsExt

CONSTANTS
  Candidate,       \* the people screened
  Briefs,          \* the records sent, each with its requirement
  Experience,      \* bound: years of experience stated, in tenths
  MaxScreenings    \* bound: verdicts stored

Fields == { "email", "Email", "id", "Gender", "university", "graduation_date",
            "notes", "Notes", "years_experience", "skill_match" }

ASSUME ScreeningAssumption ==
  /\ Experience \subseteq Nat /\ MaxScreenings \in Nat
  /\ \A r \in Briefs : /\ r.keys \subseteq Fields
                       /\ r.telling \subseteq r.keys \cap {"notes", "Notes"}  \* prose naming contacts
                       \* values that are no text: a number as the date, a list as the prose
                       /\ r.odd \subseteq r.keys \cap {"notes", "Notes", "graduation_date", "university"}
                       /\ r.experience \in Experience   \* years_experience
                       /\ r.ago \in Experience          \* graduation_date as a number: the years since
                       /\ r.match \in 0..10             \* skill_match, in tenths
                       /\ r.years \in Nat               \* asked for; 0 when the requirement names none

VARIABLES
  screenings,   \* committed rows
  screening,    \* the request being answered
  replies       \* history: verdicts answered to the client

screeningVars == <<screenings, screening, replies>>

NoRecord == [keys |-> {}, telling |-> {}, odd |-> {}, experience |-> 0, ago |-> 0, match |-> 0, years |-> 0]
NoVerdict == [subject |-> << >>, score |-> 0, recommendation |-> "HOLD"]
NoScreening == [pc |-> "idle", by |-> "default", record |-> NoRecord, prompt |-> {}, verdict |-> NoVerdict]

ScreeningTypeOK ==
  /\ screening.pc \in {"idle", "guarded", "leak", "asked", "refused", "parsed", "stored"}
  /\ \A i \in DOMAIN screenings :
       /\ screenings[i].score \in 0..100
       /\ screenings[i].recommendation \in {"ADVANCE", "REVIEW", "HOLD"}
  /\ Len(screenings) <= MaxScreenings

-----------------------------------------------------------------------------
\* str.lower
Lower(key) == CASE key = "Email" -> "email" [] key = "Gender" -> "gender"
                [] key = "Notes" -> "notes" [] OTHER -> key

Protected == {"gender"}
Identifying == {"email"}
Pedigree == {"university"}
FreeText == {"notes"}
Temporal == {"graduation_date"}

\* _pseudonym: the first of the identifiers the record has, by its exact name.
Identifiers == <<"national_id", "email", "subject_id", "id">>
Present(keys) == {i \in DOMAIN Identifiers : Identifiers[i] \in keys}
Pseudonym(person, keys) == <<Identifiers[Min(Present(keys))], person>>

\* _is_temporal: a request holds no dates, only texts that may be dates.
IsTemporal(key, record) == Lower(key) \in Temporal /\ key \notin record.odd

\* A value that is passed on as it is.
Raw(key, record) ==
  CASE Lower(key) \in Temporal -> "date"
    [] key \in record.telling -> "contact"
    [] OTHER -> "plain"

\* Mutant of Kept: of the contacts only some are recognised.
KeptTelling(key, record) ==
  CASE Lower(key) \in Pedigree -> [key |-> key, content |-> "opaque"]
    [] IsTemporal(key, record) -> [key |-> "graduation_years_ago", content |-> "duration"]
    [] OTHER -> [key |-> key, content |-> Raw(key, record)]

\* What becomes of a field that is kept.
Kept(key, record) ==
  CASE Lower(key) \in Pedigree -> [key |-> key, content |-> "opaque"]
    [] IsTemporal(key, record) -> [key |-> "graduation_years_ago", content |-> "duration"]
    [] key \in FreeText \ record.odd -> [key |-> key, content |-> "plain"]
    [] OTHER -> [key |-> key, content |-> Raw(key, record)]

\* anonymize(): protected and identifying fields go, the others are kept in their way.
Anonymized(record) ==
  {Kept(key, record) : key \in {k \in record.keys : Lower(k) \notin Protected \cup Identifying}}

\* assert_clean
Leaks(prompt) == {a \in prompt : Lower(a.key) \in Protected \cup Identifying}

-----------------------------------------------------------------------------
\* The deterministic model.  A signal is a stated number in tenths and its weight.
Stated(record) ==
  << [key |-> "years_experience", value |-> record.experience, weight |-> 1],
     [key |-> "skill_match", value |-> record.match, weight |-> 2],
     [key |-> "graduation_date", value |-> record.ago, weight |-> 1] >>

\* A number up to one is a proportion as it is, a larger one is a share of the years
\* required; in 2520ths.
Share(value, years) ==
  IF value <= 10 THEN 252 * value
  ELSE IF value >= 10 * years THEN 2520 ELSE (252 * value) \div years

\* _evidential
Evidential(record) ==
  {i \in 1..3 : LET s == Stated(record)[i] IN
                  s.key \in record.keys /\ (s.value <= 10 \/ record.years > 0)}

\* _score: the weights of what is evidence, and what they weigh.
Weight(record, i) == IF i \in Evidential(record) THEN Stated(record)[i].weight ELSE 0
Total(record) == Weight(record, 1) + Weight(record, 2) + Weight(record, 3)
Weighted(record) ==
  Weight(record, 1) * Share(record.experience, record.years)
    + Weight(record, 2) * Share(record.match, record.years)
    + Weight(record, 3) * Share(record.ago, record.years)

\* _recommendation
Recommend(sum, total) ==
  IF 100 * sum >= 75 * 2520 * total THEN "ADVANCE"
  ELSE IF 100 * sum >= 45 * 2520 * total THEN "REVIEW" ELSE "HOLD"

\* What the deterministic model may write.  Without evidence the score is taken from the
\* hash of the brief: anything below one.
DefaultAnswers(record) ==
  IF Evidential(record) = {}
  THEN {[form |-> "object", score |-> n, recommendation |-> Recommend(2520 * n, 100)] : n \in {0, 44, 45, 75, 99}}
  ELSE {[form |-> "object",
         score |-> (100 * Weighted(record)) \div (2520 * Total(record)),
         recommendation |-> Recommend(Weighted(record), Total(record))]}

\* What a hosted model may write: not an object, a field missing or of the wrong kind, a
\* score that is not one, an unknown word; fences around it, and small letters.
HostedAnswers ==
  [form : {"object", "fenced", "prose", "list", "no_rationale", "worded_score", "worded_signals"},
   score : {0 - 1, 0, 60, 100, 101}, recommendation : {"ADVANCE", "advance", "HOLD", "REJECT"}]

Upper(word) == IF word = "advance" THEN "ADVANCE" ELSE word

\* as_json and _parse, which raise otherwise.
Acceptable(answer) ==
  /\ answer.form \in {"object", "fenced"}
  /\ 0 <= answer.score /\ answer.score <= 100
  /\ Upper(answer.recommendation) \in {"ADVANCE", "REVIEW", "HOLD"}

-----------------------------------------------------------------------------
ScreeningInit == screenings = << >> /\ screening = NoScreening /\ replies = {}

\* screen(): the record is anonymised; one without an identifier is refused with 422.
AskScreening ==
  /\ screening.pc = "idle" /\ Len(screenings) < MaxScreenings
  /\ \E person \in Candidate, by \in {"default", "hosted"}, record \in Briefs :
       /\ Present(record.keys) # {}
       /\ screening' = [NoScreening EXCEPT !.pc = "guarded", !.by = by, !.record = record,
                                           !.prompt = Anonymized(record),
                                           !.verdict.subject = Pseudonym(person, record.keys)]
  /\ UNCHANGED <<screenings, replies>>

\* assert_clean, then the model is asked; LeakageError otherwise, answered with 422.
PassGuard ==
  /\ screening.pc = "guarded"
  /\ screening' = [screening EXCEPT !.pc = IF Leaks(screening.prompt) = {} THEN "asked" ELSE "leak"]
  /\ UNCHANGED <<screenings, replies>>

\* complete() and _parse().  A model that fails, or whose answer is not acceptable, raises
\* a ReasoningError, for which the application has no handler: 500, and nothing stored.
Answered(answer) ==
  /\ screening.pc = "asked"
  /\ screening' =
       IF Acceptable(answer)
       THEN [screening EXCEPT !.pc = "parsed", !.verdict.score = answer.score,
                              !.prompt = {}, !.record = NoRecord,
                              !.verdict.recommendation = Upper(answer.recommendation)]
       ELSE [screening EXCEPT !.pc = "refused", !.prompt = {}, !.record = NoRecord]
  /\ UNCHANGED <<screenings, replies>>

CompleteDefault ==
  /\ screening.by = "default"
  /\ \E answer \in DefaultAnswers(screening.record) : Answered(answer)

CompleteHosted ==
  /\ screening.by = "hosted"
  /\ \E answer \in HostedAnswers : Answered(answer)

\* ScreeningRepository.add and the commit of its session.
StoreScreening ==
  /\ screening.pc = "parsed"
  /\ screenings' = Append(screenings, screening.verdict)
  /\ screening' = [screening EXCEPT !.pc = "stored"]
  /\ UNCHANGED replies

ReplyScreening ==
  /\ screening.pc = "stored"
  /\ replies' = replies \cup {screening.verdict}
  /\ screening' = NoScreening
  /\ UNCHANGED screenings

\* Refused, or the process or the database fails.
EndScreening ==
  /\ screening.pc # "idle"
  /\ screening' = NoScreening
  /\ UNCHANGED <<screenings, replies>>

ScreeningNext ==
  \/ AskScreening \/ PassGuard \/ CompleteDefault \/ CompleteHosted
  \/ StoreScreening \/ ReplyScreening \/ EndScreening

ScreeningSpec == ScreeningInit /\ [][ScreeningNext]_screeningVars

-----------------------------------------------------------------------------
\* However the fields are spelled, the model is not asked about a protected or identifying
\* one or by an institution's name; a date or a contact told in the text of a field of its
\* name does not reach it.  (A value that is no text is passed on as it is, and so is prose
\* under any other name, "Notes" included.)
PromptIsClean ==
  screening.pc = "asked" => \A a \in screening.prompt :
    /\ Lower(a.key) \notin Protected \cup Identifying
    /\ Lower(a.key) \in Pedigree => a.content = "opaque"
    /\ Lower(a.key) \in Temporal \/ a.content = "date" => a.key \in screening.record.odd
    /\ a.key \in FreeText /\ a.content = "contact" => a.key \in screening.record.odd

\* The guard at the boundary agrees with the anonymiser: it refuses no record that was
\* anonymised, so nobody is turned away with an error nobody can act on.
GuardAgrees == screening.pc # "leak"

\* A verdict the client has been given is in the screening history, whatever failed after.
RepliesAreStored == replies \subseteq {screenings[i] : i \in DOMAIN screenings}

\* What the deterministic model writes is accepted by the parser for every brief.
DefaultIsAcceptable == screening.by = "default" => screening.pc # "refused"

\* "More experience never scores lower" (tests/reasoning/test_deterministic.py).
MoreNeverScoresLower ==
  screening.pc = "asked" /\ screening.by = "default" /\ screening.record.years > 0 =>
    \A more \in Experience :
      more > screening.record.experience =>
        Weighted([screening.record EXCEPT !.experience = more]) >= Weighted(screening.record)

\* A screening: what is asked of the model is clean, the guard agrees with the anonymiser,
\* and what is answered is kept and acceptable.
ScreeningIsClean ==
  /\ ScreeningTypeOK /\ PromptIsClean /\ GuardAgrees /\ RepliesAreStored
  /\ DefaultIsAcceptable

=============================================================================
