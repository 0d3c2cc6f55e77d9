----------------------------- MODULE DecisionProofs -----------------------------
(***************************************************************************)
(* Proofs about the rules that judge and what is stored of their verdicts, *)
(* for any briefs, outcomes, statistics, surveys and texts: the screening  *)
(* of candidates, the four-fifths test, the gate on a trained model, the   *)
(* matches of people and roles, the simulation of a plan of hires, the     *)
(* reports and early warnings on sentiment.                                *)
(***************************************************************************)
EXTENDS AdverseImpact, FidelityGate, Screening, SkillMatching, SentimentWarning,
        WorkforcePlan, Integers, FiniteSetTheorems, SequenceTheorems, WellFoundedInduction, TLAPS

\* A set of naturals has a least element: what CHOOSE of a least one needs.
LEMMA LeastNatural ==
  ASSUME NEW T \in SUBSET Nat, T # {}
  PROVE  \E n \in T : \A m \in T : n <= m
<1> DEFINE R == OpToRel(<, Nat)
<1>1. IsWellFoundedOn(R, Nat)
  BY NatLessThanWellFounded
<1>2. \A m, n \in Nat : m < n => <<m, n>> \in R
  BY DEF OpToRel
<1> HIDE DEF R
<1>3. PICK n \in T : \A m \in T : ~ (<<m, n>> \in R)
  BY <1>1, WFMin
<1>4. ASSUME NEW m \in T PROVE n <= m
  <2>1. ~(<<m, n>> \in R)
    BY <1>3
  <2>2. ~(m < n)
    BY <1>2, <2>1
  <2> QED
    BY <2>2
<1> QED
  BY <1>4

\* A set that has 0, and each number up to n whose predecessor it has, has them all.
LEMMA Induction ==
  ASSUME NEW n \in Nat, NEW T, 0 \in T, \A k \in 1..n : k - 1 \in T => k \in T
  PROVE  \A k \in 0..n : k \in T
<1> DEFINE Missing == {k \in Nat : k \in 0..n /\ k \notin T}
<1> SUFFICES ASSUME Missing # {} PROVE FALSE
  OBVIOUS
<1>1. PICK k \in Missing : \A j \in Missing : k <= j
  BY LeastNatural
<1>2. k \in 1..n /\ k \notin T
  BY <1>1
<1>3. k - 1 \notin Missing /\ k - 1 \in Nat /\ k - 1 \in 0..n
  BY <1>1, <1>2
<1> QED
  BY <1>2, <1>3

-----------------------------------------------------------------------------
\* The screening of candidates.
\* What a verdict and a request may be.
Subjects == {Pseudonym(person, keys) : person \in Candidate, keys \in SUBSET Fields} \cup {<< >>}
Words == {"ADVANCE", "REVIEW", "HOLD"}
Verdict == [subject : Subjects, score : 0..100, recommendation : Words]

Records == Briefs \cup {NoRecord}
Prompts == {Anonymized(r) : r \in Briefs} \cup {{}}
Steps == {"idle", "guarded", "asked", "refused", "parsed", "stored"}
Requests ==
  [pc : Steps, by : {"default", "hosted"}, record : Records, prompt : Prompts, verdict : Verdict]

\* Of a request that was let through: the prompt is the anonymised record and has no leaks;
\* there is room for its row, and what is answered is there.
ScreeningInv ==
  /\ screenings \in Seq(Verdict) /\ Len(screenings) <= MaxScreenings
  /\ screening \in Requests
  /\ screening.pc \in {"guarded", "asked"} =>
       screening.record \in Briefs /\ screening.prompt = Anonymized(screening.record)
  /\ screening.pc \in {"guarded", "asked", "parsed"} => Len(screenings) < MaxScreenings
  /\ screening.by = "default" => screening.pc # "refused"
  /\ screening.pc = "stored" => \E i \in DOMAIN screenings : screenings[i] = screening.verdict
  /\ RepliesAreStored

\* What is kept of a record is neither protected nor identifying, however it is spelled, and
\* a date or a contact is kept in it only where the value is no text.
LEMMA AnonymizedIsClean ==
  ASSUME NEW record, NEW a \in Anonymized(record)
  PROVE  /\ Lower(a.key) \notin Protected \cup Identifying
         /\ Lower(a.key) \in Pedigree => a.content = "opaque"
         /\ (Lower(a.key) \in Temporal \/ a.content = "date") => a.key \in record.odd
         /\ (a.key \in FreeText /\ a.content = "contact") => a.key \in record.odd
<1>1. PICK key \in record.keys : Lower(key) \notin Protected \cup Identifying /\ a = Kept(key, record)
  BY DEF Anonymized
<1>2. CASE Lower(key) \in Pedigree
  <2>1. a = [key |-> key, content |-> "opaque"]
    BY <1>1, <1>2 DEF Kept, IsTemporal, Lower, Pedigree, Temporal, FreeText
  <2> QED
    BY <1>2, <2>1 DEF Protected, Identifying, Temporal, Pedigree
<1>3. CASE IsTemporal(key, record) /\ Lower(key) \notin Pedigree
  <2>1. a = [key |-> "graduation_years_ago", content |-> "duration"]
    BY <1>1, <1>3 DEF Kept, IsTemporal, Lower, Pedigree, Temporal, FreeText
  <2> QED
    BY <2>1 DEF Lower, Protected, Identifying, Temporal, Pedigree, FreeText
<1>4. CASE Lower(key) \notin Pedigree /\ ~IsTemporal(key, record)
  <2>1. Lower(key) \in Temporal => key \in record.odd
    BY <1>4 DEF IsTemporal
  <2>2. /\ a.key = key /\ a.content \in {"plain", Raw(key, record)}
        /\ key \in FreeText \ record.odd => a.content = "plain"
    BY <1>1, <1>4 DEF Kept
  <2>3. Raw(key, record) = "date" => Lower(key) \in Temporal
    BY DEF Raw
  <2> QED
    BY <1>1, <1>4, <2>1, <2>2, <2>3
<1> QED
  BY <1>2, <1>3, <1>4

LEMMA GuardIsPassed ==
  ASSUME NEW record
  PROVE  Leaks(Anonymized(record)) = {}
BY AnonymizedIsClean DEF Leaks

-----------------------------------------------------------------------------
\* A number's share of what is required is at most all of it.
LEMMA ShareIs ==
  ASSUME NEW value \in Nat, NEW years \in Nat
  PROVE  Share(value, years) \in Nat /\ Share(value, years) <= 2520
<1>1. CASE value <= 10
  BY <1>1 DEF Share
<1>2. CASE value > 10 /\ value >= 10 * years
  BY <1>2 DEF Share
<1>3. CASE value > 10 /\ value < 10 * years
  <2> DEFINE q == (252 * value) \div years
             v == 252 * value
  <2>1. v \in Nat /\ years > 0 /\ v < 2520 * years
    BY <1>3
  <2>2. q \in Nat /\ years * q <= v
    <3> HIDE DEF v
    <3>1. v \div years \in Nat /\ years * (v \div years) <= v
      BY <2>1
    <3> QED
      BY <3>1 DEF v
  <2>3. Share(value, years) = q
    BY <1>3 DEF Share
  <2> HIDE DEF q, v
  <2>4. years * q < years * 2520
    BY <2>1, <2>2
  <2>5. q < 2520
    <3>1. SUFFICES ASSUME q >= 2520 PROVE FALSE
      BY <2>2
    <3>2. years * q >= years * 2520
      BY <2>1, <2>2, <3>1
    <3> QED
      BY <2>1, <2>2, <2>4, <3>2
  <2> QED
    BY <2>2, <2>3, <2>5
<1> QED
  BY <1>1, <1>2, <1>3

\* What the deterministic model answers is a score and a word the parser knows.
LEMMA DefaultIsAccepted ==
  ASSUME NEW record \in Briefs, NEW answer \in DefaultAnswers(record)
  PROVE  Acceptable(answer) /\ answer.score \in Int
<1>1. \A sum, total : Recommend(sum, total) \in Words
  BY DEF Recommend, Words
<1>2. \A word \in Words : Upper(word) = word
  BY DEF Upper, Words
<1>3. CASE Evidential(record) = {}
  <2>1. PICK n \in {0, 44, 45, 75, 99} :
          answer = [form |-> "object", score |-> n, recommendation |-> Recommend(2520 * n, 100)]
    BY <1>3 DEF DefaultAnswers
  <2>2. answer.form = "object" /\ answer.score = n /\ answer.recommendation = Recommend(2520 * n, 100)
    BY <2>1
  <2> QED
    BY <1>1, <1>2, <2>2 DEF Acceptable, Words
<1>4. CASE Evidential(record) # {}
  <2> DEFINE w == Weighted(record)
             t == Total(record)
  <2>1. answer = [form |-> "object", score |-> (100 * w) \div (2520 * t), recommendation |-> Recommend(w, t)]
    BY <1>4 DEF DefaultAnswers
  <2>2. w \in Nat /\ t \in {1, 2, 3, 4} /\ w <= 2520 * t
    <3> DEFINE e == record.experience
               m == record.match
               g == record.ago
               y == record.years
               a == Share(e, y)
               b == Share(m, y)
               c == Share(g, y)
    <3>1. e \in Nat /\ m \in Nat /\ g \in Nat /\ y \in Nat
      <4>1. Experience \subseteq Nat
        BY ScreeningAssumption
      <4>2. /\ record.experience \in Experience /\ record.ago \in Experience
            /\ record.match \in 0..10 /\ record.years \in Nat
        BY ScreeningAssumption
      <4>3. \A n \in Experience : n \in Nat
        BY <4>1
      <4>4. record.experience \in Nat /\ record.ago \in Nat
        BY <4>2, <4>3
      <4> QED
        BY <4>2, <4>4
    <3>2. Evidential(record) \subseteq {1, 2, 3}
      BY DEF Evidential
    <3>3. a \in Nat /\ a <= 2520 /\ b \in Nat /\ b <= 2520 /\ c \in Nat /\ c <= 2520
      <4> HIDE DEF e, m, g, y
      <4>1. e \in Nat
        BY <3>1
      <4>2. m \in Nat
        BY <3>1
      <4>3. y \in Nat
        BY <3>1
      <4>4. Share(e, y) \in Nat /\ Share(e, y) <= 2520
        BY <4>1, <4>3, ShareIs
      <4>5. Share(m, y) \in Nat /\ Share(m, y) <= 2520
        BY <4>2, <4>3, ShareIs
      <4>6. g \in Nat
        BY <3>1
      <4>7. Share(g, y) \in Nat /\ Share(g, y) <= 2520
        BY <4>3, <4>6, ShareIs
      <4> QED
        BY <4>4, <4>5, <4>7
    <3>4. /\ w = Weight(record, 1) * a + Weight(record, 2) * b + Weight(record, 3) * c
          /\ t = Weight(record, 1) + Weight(record, 2) + Weight(record, 3)
      BY DEF Weighted, Total
    <3>5. /\ Weight(record, 1) = IF 1 \in Evidential(record) THEN 1 ELSE 0
          /\ Weight(record, 2) = IF 2 \in Evidential(record) THEN 2 ELSE 0
          /\ Weight(record, 3) = IF 3 \in Evidential(record) THEN 1 ELSE 0
      BY DEF Weight, Stated
    <3> HIDE DEF a, b, c, w, t
    <3>6. 1 \in Evidential(record) \/ 2 \in Evidential(record) \/ 3 \in Evidential(record)
      BY <1>4, <3>2
    <3> QED
      <4> DEFINE i == Weight(record, 1)
                 j == Weight(record, 2)
                 k == Weight(record, 3)
      <4>1. i \in {0, 1} /\ j \in {0, 2} /\ k \in {0, 1} /\ (i = 1 \/ j = 2 \/ k = 1)
        BY <3>5, <3>6
      <4>2. w = i * a + j * b + k * c /\ t = i + j + k
        BY <3>4
      <4> HIDE DEF i, j, k
      <4>3. /\ i * a \in Nat /\ i * a <= 2520 * i
            /\ j * b \in Nat /\ j * b <= 2520 * j
            /\ k * c \in Nat /\ k * c <= 2520 * k
        BY <3>3, <4>1
      <4> QED
        BY <4>1, <4>2, <4>3
  <2> HIDE DEF w, t
  <2>3. (100 * w) \div (2520 * t) \in 0..100
    <3>1. CASE t = 1
      BY <2>2, <3>1
    <3>2. CASE t = 2
      BY <2>2, <3>2
    <3>3. CASE t = 3
      BY <2>2, <3>3
    <3>4. CASE t = 4
      BY <2>2, <3>4
    <3> QED
      BY <2>2, <3>1, <3>2, <3>3, <3>4
  <2>4. /\ answer.form = "object" /\ answer.score = (100 * w) \div (2520 * t)
        /\ answer.recommendation = Recommend(w, t)
    BY <2>1
  <2> QED
    BY <1>1, <1>2, <2>3, <2>4 DEF Acceptable, Words
<1> QED
  BY <1>3, <1>4

-----------------------------------------------------------------------------
LEMMA NoneIsRequest == /\ NoScreening \in Requests /\ NoVerdict \in Verdict
                       /\ NoRecord \in Records /\ {} \in Prompts
<1>1. << >> \in Subjects /\ NoRecord \in Records /\ {} \in Prompts
  BY DEF Subjects, Records, Prompts
<1>2. NoVerdict \in Verdict
  BY <1>1 DEF NoVerdict, Verdict, Words
<1> QED
  BY <1>1, <1>2 DEF NoScreening, Requests, Steps

LEMMA ScreeningStep == ScreeningInv /\ [ScreeningNext]_screeningVars => ScreeningInv'
<1> SUFFICES ASSUME ScreeningInv, [ScreeningNext]_screeningVars PROVE ScreeningInv'
  OBVIOUS
<1>0. screening \in Requests /\ NoScreening \in Requests
  BY NoneIsRequest DEF ScreeningInv
<1>1. CASE UNCHANGED screeningVars
  BY <1>1 DEF screeningVars, ScreeningInv, RepliesAreStored
<1>2. CASE AskScreening
  <2>1. PICK person \in Candidate, by \in {"default", "hosted"}, record \in Briefs :
          screening' = [NoScreening EXCEPT !.pc = "guarded", !.by = by, !.record = record,
                                           !.prompt = Anonymized(record),
                                           !.verdict.subject = Pseudonym(person, record.keys)]
    BY <1>2 DEF AskScreening
  <2>2. Len(screenings) < MaxScreenings /\ UNCHANGED <<screenings, replies>>
    BY <1>2 DEF AskScreening
  <2>3. [NoVerdict EXCEPT !.subject = Pseudonym(person, record.keys)] \in Verdict
    <3>1. record.keys \in SUBSET Fields
      BY ScreeningAssumption
    <3>2. Pseudonym(person, record.keys) \in Subjects
      BY <3>1 DEF Subjects
    <3> QED
      BY <3>2, NoneIsRequest DEF Verdict
  <2>4. screening' = [pc |-> "guarded", by |-> by, record |-> record, prompt |-> Anonymized(record),
                      verdict |-> [NoVerdict EXCEPT !.subject = Pseudonym(person, record.keys)]]
    BY <2>1 DEF NoScreening
  <2>5. screening' \in Requests
    <3>1. record \in Records /\ Anonymized(record) \in Prompts
      BY DEF Records, Prompts
    <3> QED
      BY <2>3, <2>4, <3>1 DEF Requests, Steps
  <2>6. /\ screening'.pc = "guarded" /\ screening'.record = record
        /\ screening'.prompt = Anonymized(record)
    BY <2>4
  <2> QED
    BY <2>2, <2>5, <2>6 DEF ScreeningInv, RepliesAreStored
<1>3. CASE PassGuard
  <2>1. screening.pc = "guarded" /\ UNCHANGED <<screenings, replies>>
    BY <1>3 DEF PassGuard
  <2>2. Leaks(screening.prompt) = {}
    BY <2>1, GuardIsPassed DEF ScreeningInv
  <2>3. screening' = [screening EXCEPT !.pc = "asked"]
    BY <1>3, <2>2 DEF PassGuard
  <2>4. /\ screening' \in Requests /\ screening'.pc = "asked" /\ screening'.record = screening.record
        /\ screening'.prompt = screening.prompt /\ screening'.by = screening.by
    BY <1>0, <2>3 DEF Requests, Steps
  <2> QED
    BY <2>1, <2>4 DEF ScreeningInv, RepliesAreStored
<1>4. ASSUME NEW answer, Answered(answer), answer.score \in Int,
             screening.by = "default" => Acceptable(answer)
      PROVE  ScreeningInv'
  <2>1. screening.pc = "asked" /\ UNCHANGED <<screenings, replies>>
    BY <1>4 DEF Answered
  <2>2. CASE Acceptable(answer)
    <3> DEFINE v == [screening.verdict EXCEPT !.score = answer.score,
                                              !.recommendation = Upper(answer.recommendation)]
    <3>1. screening' = [screening EXCEPT !.pc = "parsed", !.verdict = v, !.prompt = {},
                                         !.record = NoRecord]
      BY <1>0, <1>4, <2>2 DEF Answered, Requests, Verdict
    <3>2. v \in Verdict
      <4>1. screening.verdict \in Verdict /\ answer.score \in 0..100
            /\ Upper(answer.recommendation) \in Words
        BY <1>0, <1>4, <2>2 DEF Requests, Acceptable, Words
      <4> QED
        BY <4>1 DEF Verdict
    <3> HIDE DEF v
    <3>3. /\ screening' \in Requests /\ screening'.pc = "parsed" /\ screening'.by = screening.by
      BY <1>0, <3>1, <3>2, NoneIsRequest DEF Requests, Steps
    <3> QED
      BY <2>1, <3>3 DEF ScreeningInv, RepliesAreStored
  <2>3. CASE ~Acceptable(answer)
    <3>1. screening' = [screening EXCEPT !.pc = "refused", !.prompt = {}, !.record = NoRecord]
      BY <1>4, <2>3 DEF Answered
    <3>2. screening' \in Requests /\ screening'.pc = "refused" /\ screening'.by = screening.by
      BY <1>0, <3>1, NoneIsRequest DEF Requests, Steps
    <3> QED
      BY <1>4, <2>1, <2>3, <3>2 DEF ScreeningInv, RepliesAreStored
  <2> QED
    BY <2>2, <2>3
<1>5. CASE CompleteDefault
  <2>1. PICK answer \in DefaultAnswers(screening.record) : Answered(answer)
    BY <1>5 DEF CompleteDefault
  <2>2. screening.record \in Briefs
    BY <2>1 DEF Answered, ScreeningInv
  <2>3. Acceptable(answer) /\ answer.score \in Int
    BY <2>2, DefaultIsAccepted
  <2> QED
    BY <1>4, <2>1, <2>3
<1>6. CASE CompleteHosted
  <2>1. PICK answer \in HostedAnswers : Answered(answer)
    BY <1>6 DEF CompleteHosted
  <2>2. screening.by # "default" /\ answer.score \in Int
    BY <1>6 DEF CompleteHosted, HostedAnswers
  <2> QED
    BY <1>4, <2>1, <2>2
<1>7. CASE StoreScreening
  <2>1. /\ screening.pc = "parsed" /\ replies' = replies
        /\ screenings' = Append(screenings, screening.verdict)
        /\ screening' = [screening EXCEPT !.pc = "stored"]
    BY <1>7 DEF StoreScreening
  <2>2. screening.verdict \in Verdict /\ screenings \in Seq(Verdict) /\ Len(screenings) < MaxScreenings
    BY <1>0, <2>1 DEF ScreeningInv, Requests
  <2>3. /\ screenings' \in Seq(Verdict) /\ Len(screenings') = Len(screenings) + 1
        /\ \A i \in 1..Len(screenings) : screenings'[i] = screenings[i]
        /\ screenings'[Len(screenings) + 1] = screening.verdict
    BY <2>1, <2>2, AppendProperties
  <2>4. /\ DOMAIN screenings = 1..Len(screenings) /\ DOMAIN screenings' = 1..(Len(screenings) + 1)
        /\ Len(screenings) \in Nat
    BY <2>2, <2>3, LenProperties
  <2>5. Len(screenings') <= MaxScreenings
    BY <2>2, <2>3, <2>4, ScreeningAssumption
  <2>6. RepliesAreStored'
    <3>1. \A i \in DOMAIN screenings : i \in DOMAIN screenings' /\ screenings'[i] = screenings[i]
      BY <2>3, <2>4
    <3> QED
      BY <2>1, <3>1 DEF ScreeningInv, RepliesAreStored
  <2>7. /\ screening' \in Requests /\ screening'.pc = "stored" /\ screening'.by = screening.by
        /\ screening'.verdict = screening.verdict
    BY <1>0, <2>1 DEF Requests, Steps
  <2>8. \E i \in DOMAIN screenings' : screenings'[i] = screening'.verdict
    BY <2>3, <2>4, <2>7
  <2> QED
    BY <2>3, <2>5, <2>6, <2>7, <2>8 DEF ScreeningInv
<1>8. CASE ReplyScreening
  <2>1. /\ screening.pc = "stored" /\ replies' = replies \cup {screening.verdict}
        /\ screening' = NoScreening /\ screenings' = screenings
    BY <1>8 DEF ReplyScreening
  <2>2. RepliesAreStored'
    BY <2>1 DEF ScreeningInv, RepliesAreStored
  <2> QED
    BY <1>0, <2>1, <2>2 DEF ScreeningInv, NoScreening
<1>9. CASE EndScreening
  BY <1>0, <1>9 DEF EndScreening, ScreeningInv, NoScreening, RepliesAreStored
<1> QED
  BY <1>1, <1>2, <1>3, <1>5, <1>6, <1>7, <1>8, <1>9 DEF ScreeningNext

\* The invariant of the screening of candidates.
THEOREM ScreeningAlways == ScreeningSpec => []ScreeningInv
<1>1. ScreeningInit => ScreeningInv
  <2> SUFFICES ASSUME ScreeningInit PROVE ScreeningInv
    OBVIOUS
  <2>1. screenings \in Seq(Verdict) /\ Len(screenings) = 0 /\ replies = {}
    BY DEF ScreeningInit
  <2> QED
    BY <2>1, NoneIsRequest, ScreeningAssumption DEF ScreeningInit, ScreeningInv, NoScreening, RepliesAreStored
<1> QED
  BY <1>1, ScreeningStep, PTL DEF ScreeningSpec

\* What is asked of the model about a candidate names nothing protected or identifying and
\* no institution, and no date or contact in the text of a field of its name (one in a value
\* that is no text is passed on); the guard at the boundary refuses no record that was
\* anonymised, what the deterministic model writes is accepted for every
\* brief, and a verdict that was answered is stored (engine.py, screening.py, app.py).
THEOREM ScreeningAlwaysClean == ScreeningSpec => []ScreeningIsClean
<1>1. ScreeningInv => ScreeningIsClean
  <2> SUFFICES ASSUME ScreeningInv PROVE ScreeningIsClean
    OBVIOUS
  <2>1. \A i \in DOMAIN screenings : screenings[i] \in Verdict
    BY ElementOfSeq, LenProperties DEF ScreeningInv
  <2>2. ScreeningTypeOK
    BY <2>1 DEF ScreeningInv, ScreeningTypeOK, Verdict, Words, Requests, Steps
  <2>3. PromptIsClean
    <3>1. screening.pc = "asked" => screening.prompt = Anonymized(screening.record)
      BY DEF ScreeningInv
    <3> QED
      BY <3>1, AnonymizedIsClean DEF PromptIsClean
  <2> QED
    BY <2>2, <2>3 DEF ScreeningInv, ScreeningIsClean, GuardAgrees, DefaultIsAcceptable, Requests, Steps
<1> QED
  BY <1>1, ScreeningAlways, PTL

-----------------------------------------------------------------------------
\* The four-fifths test.
\* What is asked, what is found and what is stored.
Outcome == [group : ImpactGroups, selected : 0..MaxTotal, total : 1..MaxTotal]
Stored == [verdict : Verdicts, significance : BOOLEAN, sequence : Nat]

Analysing ==
  [pc : {"idle", "tested", "appended", "stored"}, outcomes : Analyses \cup {<< >>}, minimum : Nat,
   verdict : Verdicts, significance : BOOLEAN, sequence : 0..MaxFindings]

\* A request in progress has the verdict of what it asked; one that has its entry knows where
\* it will be, and the ledger and the reports agree.
ImpactInv ==
  /\ findings \in Seq(Outcomes \cup {"other"}) /\ Len(findings) <= MaxFindings
  /\ reports \in Seq(Stored)
  /\ analysis \in Analysing
  /\ analysis.pc # "idle" =>
       /\ analysis.outcomes \in Analyses /\ ~Refused(analysis.outcomes)
       /\ analysis.verdict = Tested(analysis.outcomes, analysis.minimum).verdict
       /\ analysis.significance = Tested(analysis.outcomes, analysis.minimum).significance
  /\ analysis.pc = "idle" => analysis.verdict = "INSUFFICIENT_DATA"
  /\ analysis.pc \in {"appended", "stored"} =>
       analysis.sequence = Len(findings) /\ Len(findings) < MaxFindings
  /\ \A k \in DOMAIN reports : reports[k].verdict = "ADVERSE_IMPACT" => reports[k].significance
  /\ FindingsAreChained

-----------------------------------------------------------------------------
\* Fractions, with naturals above and positive naturals below, are compared crosswise.
LEMMA Times ==
  ASSUME NEW a \in Nat, NEW b \in Nat, NEW k \in Nat
  PROVE  /\ a * k \in Nat /\ a * k = k * a
         /\ a <= b => a * k <= b * k
         /\ a < b /\ 0 < k => a * k < b * k
  OBVIOUS

LEMMA Divides ==
  ASSUME NEW a \in Nat, NEW b \in Nat, NEW k \in Nat, 0 < k
  PROVE  /\ a * k <= b * k => a <= b
         /\ a * k < b * k => a < b
<1>1. a * k <= b * k => a <= b
  <2> SUFFICES ASSUME b < a PROVE b * k < a * k
    BY Times
  <2> QED
    BY Times
<1>2. a * k < b * k => a < b
  <2> SUFFICES ASSUME b <= a PROVE b * k <= a * k
    BY Times
  <2> QED
    BY Times
<1> QED
  BY <1>1, <1>2

\* a/b, c/d and e/f: the order is transitive, and strictly so.
LEMMA Crosswise ==
  ASSUME NEW a \in Nat, NEW b \in Nat, NEW c \in Nat, NEW d \in Nat, NEW e \in Nat, NEW f \in Nat,
         0 < b, 0 < d, 0 < f, c * f <= e * d
  PROVE  /\ a * d <= c * b => a * f <= e * b
         /\ a * d < c * b => a * f < e * b
<1>1. /\ a * d \in Nat /\ c * b \in Nat /\ c * f \in Nat /\ e * d \in Nat
      /\ a * f \in Nat /\ e * b \in Nat
  OBVIOUS
<1>2. (c * f) * b <= (e * d) * b
  BY <1>1, Times
<1>3. /\ (a * d) * f = (a * f) * d
      /\ (c * b) * f = (c * f) * b
      /\ (e * d) * b = (e * b) * d
  OBVIOUS
<1>4. /\ a * d <= c * b => (a * d) * f <= (c * b) * f
      /\ a * d < c * b => (a * d) * f < (c * b) * f
  BY <1>1, Times
<1>5. /\ a * d <= c * b => (a * f) * d <= (e * b) * d
      /\ a * d < c * b => (a * f) * d < (e * b) * d
  <2>1. /\ (a * d) * f \in Nat /\ (c * b) * f \in Nat /\ (e * d) * b \in Nat
    BY <1>1
  <2> QED
    BY <1>2, <1>3, <1>4, <2>1
<1> QED
  BY <1>1, <1>5, Divides

\* A rate of n/m that is at most four fifths of another is below one.
LEMMA BelowOne ==
  ASSUME NEW s \in Nat, NEW t \in Nat, NEW r \in Nat, NEW u \in Nat, 0 < t, 0 < u, r <= u,
         5 * s * u <= 4 * r * t
  PROVE  s < t
<1>1. r * t <= u * t
  BY Times
<1>2. s * u \in Nat /\ t * u \in Nat /\ r * t \in Nat /\ u * t = t * u
  OBVIOUS
<1>3. 5 * (s * u) <= 4 * (t * u)
  <2>1. 5 * s * u = 5 * (s * u) /\ 4 * r * t = 4 * (r * t)
    OBVIOUS
  <2> QED
    BY <1>1, <1>2, <2>1
<1>4. 0 < t * u
  BY Times
<1>5. s * u < t * u
  BY <1>2, <1>3, <1>4
<1> QED
  BY <1>5, Divides

\* The least of a nonempty set of numbers is among them.
LEMMA MinIsIn ==
  ASSUME NEW T \in SUBSET Nat, T # {}
  PROVE  Min(T) \in T
<1>1. \E n \in T : \A m \in T : n <= m
  BY LeastNatural
<1> QED
  BY <1>1 DEF Min

\* The groups that count are numbered, and nothing is refused or unknown about them.
LEMMA EligibleAre ==
  ASSUME NEW outcomes \in Analyses, NEW minimum
  PROVE  /\ Eligible(outcomes, minimum) \in SUBSET (1..Len(outcomes)) /\ Len(outcomes) \in Nat
         /\ IsFiniteSet(Eligible(outcomes, minimum))
         /\ Cardinality(Eligible(outcomes, minimum)) \in Nat
         /\ \A i \in Eligible(outcomes, minimum) : i \in DOMAIN outcomes /\ outcomes[i] \in Outcome
<1>1. outcomes \in Seq(Outcome)
  BY ImpactAssumption DEF Outcome
<1>2. DOMAIN outcomes = 1..Len(outcomes) /\ Len(outcomes) \in Nat
      /\ \A i \in DOMAIN outcomes : outcomes[i] \in Outcome
  BY <1>1, LenProperties, ElementOfSeq
<1>3. Eligible(outcomes, minimum) \in SUBSET (1..Len(outcomes))
  BY <1>2 DEF Eligible
<1>4. IsFiniteSet(1..Len(outcomes))
  BY <1>2, FS_Interval
<1>5. IsFiniteSet(Eligible(outcomes, minimum)) /\ Cardinality(Eligible(outcomes, minimum)) \in Nat
  BY <1>3, <1>4, FS_Subset, FS_CardinalityType
<1>6. \A i \in Eligible(outcomes, minimum) : i \in DOMAIN outcomes /\ outcomes[i] \in Outcome
  BY <1>2 DEF Eligible
<1> QED
  BY <1>2, <1>3, <1>5, <1>6

\* What a group's numbers are, and how two rates compare.
LEMMA NumbersAre ==
  ASSUME NEW o \in Outcome
  PROVE  o.selected \in Nat /\ o.total \in Nat /\ 0 < o.total
  BY ImpactAssumption DEF Outcome

LEMMA HigherIs ==
  ASSUME NEW o \in Outcome, NEW p \in Outcome
  PROVE  ~Higher(o, p) <=> o.selected * p.total <= p.selected * o.total
<1>1. o.selected * p.total \in Nat /\ p.selected * o.total \in Nat
  BY NumbersAre
<1> QED
  BY <1>1 DEF Higher

\* Of the groups up to n, if any count, one has the highest rate.
LEMMA HighestExists ==
  ASSUME NEW N \in Nat, NEW outcomes, NEW E \in SUBSET (1..N), \A i \in E : outcomes[i] \in Outcome
  PROVE  E # {} => \E i \in E : \A j \in E : ~Higher(outcomes[j], outcomes[i])
<1> DEFINE Upto(n) == {i \in E : i <= n}
           Highest(n, i) == \A j \in Upto(n) : ~Higher(outcomes[j], outcomes[i])
           T == {n \in 0..N : Upto(n) # {} => \E i \in Upto(n) : Highest(n, i)}
<1>0. \A i \in E : i \in Nat /\ 1 <= i /\ i <= N
  OBVIOUS
<1>1. 0 \in T
  <2>1. \A i \in Upto(0) : FALSE
    BY <1>0
  <2>2. Upto(0) = {}
    BY <2>1
  <2> HIDE DEF Upto
  <2> QED
    BY <2>2
<1>2. ASSUME NEW n \in 1..N, n - 1 \in T PROVE n \in T
  <2>1. \A i \in E : i \in Nat
    BY <1>0
  <2>2. \A i \in Upto(n) : i \in Upto(n - 1) \/ i = n
    BY <2>1
  <2>3. \A i \in Upto(n - 1) : i \in Upto(n) /\ i \in E
    BY <2>1
  <2>4. CASE n \notin E
    <3>1. \A i \in Upto(n) : i \in Upto(n - 1)
      BY <2>2, <2>4
    <3>2. Upto(n) = Upto(n - 1)
      BY <2>3, <3>1
    <3> HIDE DEF Upto
    <3> QED
      BY <1>2, <3>2
  <2>5. CASE n \in E
    <3>1. n \in Upto(n)
      BY <2>5
    <3>2. \A i \in E : ~Higher(outcomes[i], outcomes[i])
      BY HigherIs, NumbersAre
    <3>3. CASE Upto(n - 1) = {}
      <4>1. Highest(n, n)
        BY <2>2, <2>5, <3>2, <3>3
      <4> QED
        BY <3>1, <4>1
    <3>4. CASE Upto(n - 1) # {}
      <4>1. PICK i \in Upto(n - 1) : Highest(n - 1, i)
        BY <1>2, <3>4
      <4>2. i \in E /\ i \in Upto(n)
        BY <2>3
      <4>3. CASE ~Higher(outcomes[n], outcomes[i])
        <5>1. Highest(n, i)
          BY <2>2, <4>1, <4>3
        <5> QED
          BY <4>2, <5>1
      <4>4. CASE Higher(outcomes[n], outcomes[i])
        <5>1. ASSUME NEW j \in Upto(n - 1) PROVE ~Higher(outcomes[j], outcomes[n])
          <6> DEFINE a == outcomes[j]
                     c == outcomes[i]
                     e == outcomes[n]
          <6>1. a \in Outcome /\ c \in Outcome /\ e \in Outcome
            BY <2>3, <2>5, <4>2
          <6>2. ~Higher(a, c) /\ Higher(e, c)
            BY <4>1, <4>4
          <6> HIDE DEF a, c, e
          <6>3. /\ a.selected \in Nat /\ a.total \in Nat /\ 0 < a.total
                /\ c.selected \in Nat /\ c.total \in Nat /\ 0 < c.total
                /\ e.selected \in Nat /\ e.total \in Nat /\ 0 < e.total
            BY <6>1, NumbersAre
          <6>4. a.selected * c.total <= c.selected * a.total
            BY <6>1, <6>2, HigherIs
          <6>5. c.selected * e.total <= e.selected * c.total
            <7>1. c.selected * e.total \in Nat /\ e.selected * c.total \in Nat
              BY <6>3
            <7> QED
              BY <6>2, <7>1 DEF Higher
          <6>6. a.selected * e.total <= e.selected * a.total
            BY <6>3, <6>4, <6>5, Crosswise
          <6>7. ~Higher(a, e)
            BY <6>1, <6>6, HigherIs
          <6> QED
            BY <6>7 DEF a, e
        <5>2. Highest(n, n)
          BY <2>2, <2>5, <3>2, <5>1
        <5> QED
          BY <3>1, <5>2
      <4> QED
        BY <4>3, <4>4
    <3> QED
      BY <3>3, <3>4
  <2> QED
    BY <2>4, <2>5
<1> HIDE DEF T
<1>3. N \in T
  BY <1>1, <1>2, Induction
<1>4. Upto(N) = E
  <2>1. \A i \in E : i \in Upto(N)
    BY <1>0
  <2> QED
    BY <2>1
<1> QED
  BY <1>3, <1>4 DEF T

\* The reference is a group no other has a higher rate than.
LEMMA ReferenceIs ==
  ASSUME NEW outcomes \in Analyses, NEW minimum, Eligible(outcomes, minimum) # {}
  PROVE  LET eligible == Eligible(outcomes, minimum)
             first == Reference(outcomes, eligible) IN
         first \in eligible /\ \A j \in eligible : ~Higher(outcomes[j], outcomes[first])
<1> DEFINE E == Eligible(outcomes, minimum)
           T == {k \in E : \A j \in E : ~Higher(outcomes[j], outcomes[k])}
<1>1. /\ E \in SUBSET (1..Len(outcomes)) /\ Len(outcomes) \in Nat /\ E # {}
      /\ \A i \in E : outcomes[i] \in Outcome
  BY EligibleAre
<1> HIDE DEF E
<1>2. \E i \in E : \A j \in E : ~Higher(outcomes[j], outcomes[i])
  BY <1>1, HighestExists
<1>3. T \in SUBSET Nat /\ T # {}
  <2>1. \A i \in E : i \in Nat
    BY <1>1
  <2>2. T # {}
    BY <1>2
  <2> QED
    BY <2>1, <2>2
<1>4. Min(T) \in T
  <2> HIDE DEF T
  <2> QED
    BY <1>3, MinIsIn
<1>5. Reference(outcomes, E) = Min(T)
  BY DEF Reference
<1>6. Min(T) \in E /\ \A j \in E : ~Higher(outcomes[j], outcomes[Min(T)])
  BY <1>4
<1> HIDE DEF T
<1> QED
  BY <1>5, <1>6 DEF E

-----------------------------------------------------------------------------
\* What the test says of outcomes that are not refused.
Judged(outcomes, minimum) ==
  LET eligible == Eligible(outcomes, minimum)
      judgement == Tested(outcomes, minimum)
      below(i, j) == 5 * outcomes[i].selected * outcomes[j].total
                       < 4 * outcomes[j].selected * outcomes[i].total
      rounded(i, j) == /\ 5 * outcomes[i].selected * outcomes[j].total
                            = 4 * outcomes[j].selected * outcomes[i].total
                       /\ FallsBelow(outcomes[i], outcomes[j]) IN
  /\ judgement.verdict \in Verdicts /\ judgement.significance \in BOOLEAN
  /\ judgement.verdict = "INSUFFICIENT_DATA" <=>
       Cardinality(eligible) < 2 \/ \A i \in eligible : outcomes[i].selected = 0
  /\ judgement.verdict = "NO_ADVERSE_IMPACT" => \A i, j \in eligible : ~below(i, j)
  /\ judgement.verdict = "ADVERSE_IMPACT" =>
       /\ judgement.significance
       /\ \E i, j \in eligible : (below(i, j) \/ rounded(i, j)) /\ outcomes[j].selected > 0

LEMMA TestedIs ==
  ASSUME NEW outcomes \in Analyses, NEW minimum, ~Refused(outcomes)
  PROVE  Judged(outcomes, minimum)
<1> DEFINE E == Eligible(outcomes, minimum)
           f == Reference(outcomes, E)
           flagged == \E i \in E : AdverselyImpacted(outcomes[i], outcomes[f])
           lacking == Cardinality(E) < 2 \/ outcomes[f].selected = 0
           judgement == Tested(outcomes, minimum)
           S(i) == outcomes[i].selected
           U(i) == outcomes[i].total
           below(i, j) == 5 * S(i) * U(j) < 4 * S(j) * U(i)
           rounded(i, j) == /\ 5 * S(i) * U(j) = 4 * S(j) * U(i)
                            /\ FallsBelow(outcomes[i], outcomes[j])
<1>1. judgement = IF lacking THEN [verdict |-> "INSUFFICIENT_DATA", significance |-> FALSE]
               ELSE [verdict |-> IF flagged THEN "ADVERSE_IMPACT" ELSE "NO_ADVERSE_IMPACT",
                     significance |-> Significant(outcomes, E)]
  BY DEF Tested
<1>2. /\ E \in SUBSET Nat /\ IsFiniteSet(E) /\ Cardinality(E) \in Nat
      /\ \A i \in E : outcomes[i] \in Outcome /\ i \in DOMAIN outcomes
  BY EligibleAre
<1>3. E # {} => f \in E /\ \A j \in E : ~Higher(outcomes[j], outcomes[f])
  BY ReferenceIs
<1>4. \A i \in E : S(i) \in Nat /\ U(i) \in Nat /\ 0 < U(i)
  BY <1>2, NumbersAre
<1>5. \A i \in E : S(i) <= U(i)
  BY <1>2, <1>4 DEF Refused
<1>6. \A i, j \in E : AdverselyImpacted(outcomes[i], outcomes[j]) <=> below(i, j) \/ rounded(i, j)
  BY DEF AdverselyImpacted
<1>7. \A i, j \in E : ~Higher(outcomes[j], outcomes[i]) <=> S(j) * U(i) <= S(i) * U(j)
  BY <1>2, HigherIs
<1> HIDE DEF E, f, S, U
<1>8. Cardinality(E) < 2 \/ E # {}
  <2>1. E = {} => Cardinality(E) = 0
    BY FS_EmptySet
  <2> QED
    BY <2>1
<1>9. ASSUME E # {}
      PROVE  f \in E /\ \A j \in E : S(j) * U(f) <= S(f) * U(j)
  BY <1>3, <1>7, <1>9
<1>10. lacking <=> Cardinality(E) < 2 \/ \A i \in E : S(i) = 0
  <2>1. CASE Cardinality(E) < 2
    BY <2>1
  <2>2. CASE ~(Cardinality(E) < 2)
    <3>1. f \in E /\ \A j \in E : S(j) * U(f) <= S(f) * U(j)
      BY <1>8, <1>9, <2>2
    <3>2. ASSUME S(f) = 0, NEW i \in E PROVE S(i) = 0
      <4>1. S(i) * U(f) <= 0 * U(i)
        BY <3>1, <3>2
      <4>2. S(i) * U(f) <= 0
        BY <1>4, <4>1
      <4> QED
        BY <1>4, <3>1, <4>2, Divides
    <3>3. lacking <=> S(f) = 0
      BY <2>2 DEF S
    <3> HIDE DEF lacking
    <3> QED
      BY <2>2, <3>1, <3>2, <3>3
  <2> QED
    BY <2>1, <2>2
<1>11. ASSUME ~lacking
       PROVE  f \in E /\ S(f) \in Nat /\ 0 < S(f)
  <2>1. E # {} /\ S(f) # 0
    BY <1>8, <1>11 DEF S
  <2>2. f \in E
    BY <1>9, <2>1
  <2> QED
    BY <1>4, <2>1, <2>2
<1>12. ASSUME ~lacking, flagged
       PROVE  /\ Significant(outcomes, E)
              /\ \E i, j \in E : (below(i, j) \/ rounded(i, j)) /\ S(j) > 0
  <2>1. f \in E /\ S(f) > 0 /\ S(f) \in Nat
    BY <1>11, <1>12
  <2>2. PICK i \in E : AdverselyImpacted(outcomes[i], outcomes[f])
    BY <1>12
  <2>3. below(i, f) \/ rounded(i, f)
    BY <1>6, <2>1, <2>2
  <2>4. S(i) < U(i)
    <3>1. 5 * S(i) * U(f) <= 4 * S(f) * U(i)
      <4>1. S(i) \in Nat /\ U(f) \in Nat /\ U(i) \in Nat
        BY <1>4, <2>1
      <4>2. 5 * S(i) * U(f) \in Nat /\ 4 * S(f) * U(i) \in Nat
        BY <2>1, <4>1
      <4> QED
        BY <2>3, <4>2
    <3> QED
      BY <1>4, <1>5, <2>1, <3>1, BelowOne
  <2> QED
    BY <2>1, <2>3, <2>4 DEF Significant, S, U
<1>13. ASSUME ~lacking, ~flagged, NEW i \in E, NEW j \in E
       PROVE  ~below(i, j)
  <2>1. f \in E /\ S(j) * U(f) <= S(f) * U(j)
    BY <1>9, <1>11, <1>13
  <2>2. ~below(i, f)
    BY <1>6, <1>13, <2>1
  <2>3. /\ S(i) \in Nat /\ S(j) \in Nat /\ S(f) \in Nat
        /\ U(i) \in Nat /\ U(j) \in Nat /\ U(f) \in Nat /\ 0 < U(i) /\ 0 < U(j) /\ 0 < U(f)
    BY <1>4, <2>1
  <2>4. (4 * S(j)) * U(f) <= (4 * S(f)) * U(j)
    <3>1. (4 * S(j)) * U(f) = 4 * (S(j) * U(f)) /\ (4 * S(f)) * U(j) = 4 * (S(f) * U(j))
      BY <2>3
    <3>2. S(j) * U(f) \in Nat /\ S(f) * U(j) \in Nat
      BY <2>3
    <3> QED
      BY <2>1, <3>1, <3>2
  <2>5. 5 * S(i) \in Nat /\ 4 * S(j) \in Nat /\ 4 * S(f) \in Nat
    BY <2>3
  <2>6. below(i, j) => below(i, f)
    BY <2>3, <2>4, <2>5, Crosswise
  <2> QED
    BY <2>2, <2>6
<1> HIDE DEF below, rounded
<1>14. Significant(outcomes, E) \in BOOLEAN
  BY DEF Significant
<1>15. CASE lacking
  <2>1. judgement.verdict = "INSUFFICIENT_DATA" /\ judgement.significance = FALSE
    BY <1>1, <1>15
  <2> HIDE DEF judgement, lacking
  <2> QED
    BY <1>10, <1>15, <2>1 DEF Judged, Verdicts, E, S, judgement
<1>16. CASE ~lacking /\ flagged
  <2>1. judgement.verdict = "ADVERSE_IMPACT" /\ judgement.significance = Significant(outcomes, E)
    BY <1>1, <1>16
  <2>2. /\ Significant(outcomes, E)
        /\ \E i, j \in E : (below(i, j) \/ rounded(i, j)) /\ S(j) > 0
    BY <1>12, <1>16
  <2> HIDE DEF judgement, lacking, flagged
  <2> QED
    BY <1>10, <1>16, <2>1, <2>2 DEF Judged, Verdicts, E, S, U, judgement, below, rounded
<1>17. CASE ~lacking /\ ~flagged
  <2>1. judgement.verdict = "NO_ADVERSE_IMPACT" /\ judgement.significance = Significant(outcomes, E)
    BY <1>1, <1>17
  <2>2. \A i, j \in E : ~below(i, j)
    BY <1>13, <1>17
  <2> HIDE DEF judgement, lacking, flagged
  <2> QED
    BY <1>10, <1>14, <1>17, <2>1, <2>2 DEF Judged, Verdicts, E, S, U, judgement, below
<1> QED
  BY <1>15, <1>16, <1>17

-----------------------------------------------------------------------------
\* A sequence with one more element.
LEMMA Longer ==
  ASSUME NEW S, NEW s \in Seq(S), NEW e \in S
  PROVE  /\ Append(s, e) \in Seq(S) /\ Len(Append(s, e)) = Len(s) + 1
         /\ DOMAIN s = 1..Len(s) /\ DOMAIN Append(s, e) = 1..(Len(s) + 1) /\ Len(s) \in Nat
         /\ \A i \in DOMAIN s : Append(s, e)[i] = s[i]
         /\ Append(s, e)[Len(s) + 1] = e
  BY AppendProperties, LenProperties

LEMMA ImpactBegins == ImpactInit => ImpactInv
<1> SUFFICES ASSUME ImpactInit PROVE ImpactInv
  OBVIOUS
<1>1. analysis \in Analysing
  BY ImpactAssumption DEF ImpactInit, Idle, Verdicts, Analysing
<1>2. analysis.pc = "idle" /\ analysis.verdict = "INSUFFICIENT_DATA"
  BY DEF ImpactInit, Idle
<1>3. /\ findings = << >> /\ reports = << >>
      /\ findings \in Seq(Outcomes \cup {"other"}) /\ reports \in Seq(Stored)
      /\ Len(findings) <= MaxFindings /\ DOMAIN findings = {} /\ DOMAIN reports = {}
  BY ImpactAssumption DEF ImpactInit
<1> QED
  BY <1>1, <1>2, <1>3 DEF ImpactInv, FindingsAreChained

LEMMA ImpactStep == ImpactInv /\ [ImpactNext]_impactVars => ImpactInv'
<1> SUFFICES ASSUME ImpactInv, [ImpactNext]_impactVars PROVE ImpactInv'
  OBVIOUS
<1> USE DEF ImpactInv, Analysing
<1>1. Idle \in Analysing /\ Idle.pc = "idle" /\ Idle.verdict = "INSUFFICIENT_DATA"
  BY ImpactAssumption DEF Idle, Verdicts
<1>2. CASE AskAnalysis
  <2>1. PICK outcomes \in Analyses, minimum \in MinimumSizes :
          /\ ~Refused(outcomes)
          /\ analysis' = [Idle EXCEPT !.pc = "tested", !.outcomes = outcomes, !.minimum = minimum,
                                      !.verdict = Tested(outcomes, minimum).verdict,
                                      !.significance = Tested(outcomes, minimum).significance]
    BY <1>2 DEF AskAnalysis
  <2>2. /\ Tested(outcomes, minimum).verdict \in Verdicts
        /\ Tested(outcomes, minimum).significance \in BOOLEAN /\ minimum \in Nat
    BY <2>1, TestedIs, ImpactAssumption DEF Judged
  <2>3. /\ analysis' \in Analysing
        /\ analysis'.pc = "tested" /\ analysis'.outcomes = outcomes /\ analysis'.minimum = minimum
        /\ analysis'.verdict = Tested(outcomes, minimum).verdict
        /\ analysis'.significance = Tested(outcomes, minimum).significance
    BY <2>1, <2>2, <1>1 DEF Idle
  <2>4. UNCHANGED <<findings, reports>>
    BY <1>2 DEF AskAnalysis
  <2> QED
    BY <2>1, <2>3, <2>4 DEF FindingsAreChained
<1>3. CASE OtherAppends
  <2>1. /\ analysis.pc \notin {"appended", "stored"} /\ Len(findings) < MaxFindings
        /\ findings' = Append(findings, "other") /\ UNCHANGED <<reports, analysis>>
    BY <1>3 DEF OtherAppends
  <2>2. /\ findings' \in Seq(Outcomes \cup {"other"}) /\ Len(findings') = Len(findings) + 1
        /\ DOMAIN findings = 1..Len(findings) /\ DOMAIN findings' = 1..(Len(findings) + 1)
        /\ Len(findings) \in Nat
        /\ \A i \in DOMAIN findings : findings'[i] = findings[i]
        /\ findings'[Len(findings) + 1] = "other"
    BY <2>1, Longer
  <2>3. FindingsAreChained'
    BY <2>1, <2>2 DEF FindingsAreChained
  <2>4. Len(findings') <= MaxFindings
    BY <2>1, <2>2, ImpactAssumption
  <2> QED
    BY <2>1, <2>2, <2>3, <2>4
<1>4. CASE AppendFinding
  <2>1. /\ analysis.pc = "tested" /\ Len(findings) < MaxFindings
        /\ analysis' = [analysis EXCEPT !.pc = "appended", !.sequence = Len(findings)]
        /\ UNCHANGED <<findings, reports>>
    BY <1>4 DEF AppendFinding
  <2>2. Len(findings) \in 0..MaxFindings
    BY <2>1, LenProperties, ImpactAssumption
  <2>3. /\ analysis' \in Analysing /\ analysis'.pc = "appended" /\ analysis'.sequence = Len(findings)
        /\ analysis'.outcomes = analysis.outcomes /\ analysis'.minimum = analysis.minimum
        /\ analysis'.verdict = analysis.verdict /\ analysis'.significance = analysis.significance
    BY <2>1, <2>2
  <2> QED
    BY <2>1, <2>3 DEF FindingsAreChained
<1>5. CASE StoreReport
  <2>1. /\ analysis.pc = "appended" /\ analysis' = [analysis EXCEPT !.pc = "stored"]
        /\ UNCHANGED <<findings, reports>>
    BY <1>5 DEF StoreReport
  <2>2. /\ analysis' \in Analysing /\ analysis'.pc = "stored" /\ analysis'.sequence = analysis.sequence
        /\ analysis'.outcomes = analysis.outcomes /\ analysis'.minimum = analysis.minimum
        /\ analysis'.verdict = analysis.verdict /\ analysis'.significance = analysis.significance
    BY <2>1
  <2> QED
    BY <2>1, <2>2 DEF FindingsAreChained
<1>6. CASE CommitAnalysis
  <2> DEFINE o == OutcomeOf(analysis.verdict)
             r == [verdict |-> analysis.verdict, sequence |-> analysis.sequence,
                   significance |-> analysis.significance]
  <2>1. /\ analysis.pc = "stored" /\ findings' = Append(findings, o) /\ reports' = Append(reports, r)
        /\ analysis' = Idle
    BY <1>6 DEF CommitAnalysis
  <2>2. o \in Outcomes /\ o # "other"
    BY DEF OutcomeOf, Outcomes, Verdicts
  <2>3. r \in Stored
    BY DEF Stored
  <2>4. /\ r.verdict = analysis.verdict /\ r.sequence = analysis.sequence
        /\ r.significance = analysis.significance
    OBVIOUS
  <2>5. analysis.sequence = Len(findings) /\ Len(findings) < MaxFindings
    BY <2>1
  <2>6. analysis.verdict = "ADVERSE_IMPACT" => analysis.significance
    <3>1. Judged(analysis.outcomes, analysis.minimum)
      BY <2>1, TestedIs
    <3> QED
      BY <2>1, <3>1 DEF Judged
  <2>7. o = OutcomeOf(r.verdict)
    OBVIOUS
  <2> HIDE DEF o, r
  <2>8. /\ findings' \in Seq(Outcomes \cup {"other"}) /\ Len(findings') = Len(findings) + 1
        /\ DOMAIN findings = 1..Len(findings) /\ DOMAIN findings' = 1..(Len(findings) + 1)
        /\ Len(findings) \in Nat
        /\ \A i \in DOMAIN findings : findings'[i] = findings[i]
        /\ findings'[Len(findings) + 1] = o
    BY <2>1, <2>2, Longer
  <2>9. /\ reports' \in Seq(Stored) /\ Len(reports') = Len(reports) + 1
        /\ DOMAIN reports = 1..Len(reports) /\ DOMAIN reports' = 1..(Len(reports) + 1)
        /\ Len(reports) \in Nat
        /\ \A i \in DOMAIN reports : reports'[i] = reports[i]
        /\ reports'[Len(reports) + 1] = r
    BY <2>1, <2>3, Longer
  <2>10. ASSUME NEW k \in DOMAIN reports'
         PROVE  k \in DOMAIN reports \/ k = Len(reports) + 1
    BY <2>9
  <2>11. ASSUME NEW k \in DOMAIN reports'
         PROVE  /\ reports'[k].sequence + 1 \in DOMAIN findings'
                /\ findings'[reports'[k].sequence + 1] = OutcomeOf(reports'[k].verdict)
                /\ reports'[k].verdict = "ADVERSE_IMPACT" => reports'[k].significance
    <3>1. CASE k \in DOMAIN reports
      <4>1. reports'[k] = reports[k]
        BY <2>9, <3>1
      <4>2. /\ reports[k].sequence + 1 \in DOMAIN findings
            /\ findings[reports[k].sequence + 1] = OutcomeOf(reports[k].verdict)
            /\ reports[k].verdict = "ADVERSE_IMPACT" => reports[k].significance
        BY <3>1 DEF FindingsAreChained
      <4>3. \A i \in DOMAIN findings : i \in DOMAIN findings'
        BY <2>8
      <4> QED
        BY <2>8, <4>1, <4>2, <4>3
    <3>2. CASE k = Len(reports) + 1
      <4>1. reports'[k] = r
        BY <2>9, <3>2
      <4>2. reports'[k].sequence + 1 = Len(findings) + 1
        BY <2>4, <2>5, <4>1
      <4> QED
        BY <2>4, <2>6, <2>7, <2>8, <4>1, <4>2
    <3> QED
      BY <2>10, <3>1, <3>2
  <2>12. ASSUME NEW n \in DOMAIN findings', findings'[n] # "other"
         PROVE  \E k \in DOMAIN reports' : reports'[k].sequence + 1 = n
    <3>1. n \in DOMAIN findings \/ n = Len(findings) + 1
      BY <2>8
    <3>2. CASE n \in DOMAIN findings
      <4>1. PICK k \in DOMAIN reports : reports[k].sequence + 1 = n
        BY <2>8, <2>12, <3>2 DEF FindingsAreChained
      <4>2. k \in DOMAIN reports' /\ reports'[k] = reports[k]
        BY <2>9
      <4> QED
        BY <4>1, <4>2
    <3>3. CASE n = Len(findings) + 1
      <4>1. Len(reports) + 1 \in DOMAIN reports' /\ reports'[Len(reports) + 1].sequence + 1 = n
        BY <2>4, <2>5, <2>9, <3>3
      <4> QED
        BY <4>1
    <3> QED
      BY <3>1, <3>2, <3>3
  <2>13. Len(findings') <= MaxFindings
    BY <2>5, <2>8, ImpactAssumption
  <2> QED
    BY <1>1, <2>1, <2>8, <2>9, <2>11, <2>12, <2>13 DEF FindingsAreChained
<1>7. CASE FailAnalysis
  BY <1>1, <1>7 DEF FailAnalysis, FindingsAreChained
<1>8. CASE UNCHANGED impactVars
  BY <1>8 DEF impactVars, FindingsAreChained
<1> QED
  BY <1>2, <1>3, <1>4, <1>5, <1>6, <1>7, <1>8 DEF ImpactNext

\* A request in progress has the verdict of what it asked, in whichever order the others'
\* appends and failures come.
THEOREM ImpactAlways == ImpactSpec => []ImpactInv
<1>1. ImpactInv /\ UNCHANGED impactVars => ImpactInv'
  BY ImpactStep
<1> QED
  BY ImpactBegins, ImpactStep, PTL DEF ImpactSpec

\* What the inductive invariant says, as the run checks it.
LEMMA ImpactTells == ImpactInv => ImpactIsTold
<1> SUFFICES ASSUME ImpactInv PROVE ImpactIsTold
  OBVIOUS
<1> USE DEF ImpactInv, Analysing
<1>1. ImpactTypeOK
  BY DEF ImpactTypeOK, Stored
<1>2. ASSUME analysis.pc # "idle"
      PROVE  /\ analysis.verdict = "INSUFFICIENT_DATA" <=>
                  Cardinality(Large) < 2 \/ \A i \in Large : analysis.outcomes[i].selected = 0
             /\ analysis.verdict = "NO_ADVERSE_IMPACT" => \A i, j \in Large : ~Below(i, j)
             /\ analysis.verdict = "ADVERSE_IMPACT" =>
                  /\ analysis.significance
                  /\ \E i, j \in Large :
                       \/ Below(i, j)
                       \/ /\ FourFifths(i, j)
                          /\ FallsBelow(analysis.outcomes[i], analysis.outcomes[j])
                          /\ analysis.outcomes[j].selected > 0
  <2> DEFINE asks == analysis.outcomes
  <2>1. asks \in Analyses /\ ~Refused(asks)
    BY <1>2
  <2>2. Judged(asks, analysis.minimum)
    BY <2>1, TestedIs
  <2>3. Large = Eligible(asks, analysis.minimum)
    BY DEF Large, Eligible
  <2>4. /\ analysis.verdict = Tested(asks, analysis.minimum).verdict
        /\ analysis.significance = Tested(asks, analysis.minimum).significance
    BY <1>2
  <2> QED
    BY <2>2, <2>3, <2>4 DEF Judged, Below, FourFifths
<1>3. VerdictIsTheRule
  BY <1>2 DEF VerdictIsTheRule
<1>4. FlagComesWithSignificance
  BY <1>2 DEF FlagComesWithSignificance
<1> QED
  BY <1>1, <1>3, <1>4 DEF ImpactIsTold

\* The report is what the four-fifths rule says of any outcomes, save at exactly four fifths
\* where the doubles round down, and the ledger and the stored reports say the same of each
\* request.
THEOREM ImpactAlwaysTold == ImpactSpec => []ImpactIsTold
  BY ImpactAlways, ImpactTells, PTL

-----------------------------------------------------------------------------
\* The gate on a model.
\* A kind for every run of repetitions: no probe of ten, and no training done twice, can
\* be near-deterministic.
LEMMA StabilityIs ==
  ASSUME NEW modal \in Nat, NEW repetitions \in {2, 10}, modal \in 1..repetitions
  PROVE  Stability(modal, repetitions) \in {"DETERMINISTIC", "UNSTABLE", "NON_DETERMINISTIC"}
<1>1. CASE modal = repetitions
  BY <1>1 DEF Stability
<1>2. CASE modal < repetitions /\ 100 * modal >= 60 * repetitions
  <2>1. 100 * modal < 95 * repetitions
    BY <1>2
  <2>2. ~(modal = repetitions) /\ ~(100 * modal >= 95 * repetitions)
        /\ ~(100 * modal < 60 * repetitions)
    BY <1>2, <2>1
  <2>3. Stability(modal, repetitions) = "UNSTABLE"
    BY <1>2, <2>1, <2>2 DEF Stability
  <2> QED
    BY <2>3
<1>3. CASE 100 * modal < 60 * repetitions
  <2>1. ~(modal = repetitions) /\ ~(100 * modal >= 95 * repetitions)
        /\ ~(100 * modal >= 60 * repetitions)
    BY <1>3
  <2>2. Stability(modal, repetitions) = "NON_DETERMINISTIC"
    BY <1>3, <2>1 DEF Stability
  <2> QED
    BY <2>2
<1> QED
  BY <1>1, <1>2, <1>3

\* A severity for every statistic; the gravest is the one moved counts.
LEMMA SeverityIs ==
  ASSUME NEW psi \in Nat
  PROVE  Severity(psi) \in Severities /\ (Severity(psi) = "SIGNIFICANT" <=> psi >= 25)
<1>1. CASE psi >= 25
  <2>1. ~(psi < 25) /\ ~(psi < 10)
    BY <1>1
  <2>2. Severity(psi) = "SIGNIFICANT"
    BY <1>1, <2>1 DEF Severity
  <2> QED
    BY <1>1, <2>2 DEF Severities
<1>2. CASE psi < 25 /\ psi >= 10
  <2>1. ~(psi >= 25) /\ ~(psi < 10)
    BY <1>2
  <2>2. Severity(psi) = "MODERATE"
    BY <1>2, <2>1 DEF Severity
  <2> QED
    BY <2>1, <2>2 DEF Severities
<1>3. CASE psi < 10
  <2>1. ~(psi >= 25) /\ ~(psi >= 10)
    BY <1>3
  <2>2. Severity(psi) = "STABLE"
    BY <1>3, <2>1 DEF Severity
  <2> QED
    BY <2>1, <2>2 DEF Severities
<1> QED
  BY <1>1, <1>2, <1>3

-----------------------------------------------------------------------------
\* The reports so far: those of the probes are all made before a feature is measured, and
\* the features are measured all or not at all.
Probes == [Stabilities -> Nat]
Drifts == [Severities -> Nat]

\* The counts that a finished assessment has.
Complete(d, r) ==
  /\ d \in Probes /\ d["NEAR_DETERMINISTIC"] = 0 /\ Probed(d) \in {5, 6}
  /\ r \in Drifts /\ Measured(r) \in {0, 10}

FidelityInv ==
  /\ step \in {"score", "train", "drift", "gate", "impact", "done", "raised"}
  /\ determinism \in Probes /\ drift \in Drifts
  /\ training \in Stabilities \cup {"skipped"}
  /\ impact \in {"untested", "NO_ADVERSE_IMPACT", "ADVERSE_IMPACT", "INSUFFICIENT_DATA"}
  /\ determinism["NEAR_DETERMINISTIC"] = 0
  /\ Probed(determinism) <= 6 /\ Measured(drift) <= 10
  /\ step \in {"score", "train"} => training = "skipped"
  /\ step = "score" => Probed(determinism) < 5
  /\ step = "train" => Probed(determinism) = 5
  /\ step \in {"drift", "gate", "impact", "done"} =>
       Probed(determinism) = IF training = "skipped" THEN 5 ELSE 6
  /\ step \in {"score", "train"} => Measured(drift) = 0
  /\ step = "drift" => Measured(drift) < 10
  /\ step \in {"gate", "impact", "done"} => Measured(drift) \in {0, 10}
  /\ moved = drift["SIGNIFICANT"]
  /\ step \notin {"impact", "done"} => gate = "none" /\ named = 0
  /\ step = "impact" => gate = GateOf(determinism, drift) /\ named = Findings(determinism, drift)
  /\ step = "done" =>
       IF impact = "ADVERSE_IMPACT"
       THEN gate = Lowered(GateOf(determinism, drift)) /\ named = Findings(determinism, drift) + 1
       ELSE gate = GateOf(determinism, drift) /\ named = Findings(determinism, drift)

\* One more report.
LEMMA OneMoreProbe ==
  ASSUME NEW d \in Probes, NEW k \in {"DETERMINISTIC", "UNSTABLE", "NON_DETERMINISTIC"}
  PROVE  LET e == [d EXCEPT ![k] = @ + 1] IN
         /\ e \in Probes /\ Probed(e) = Probed(d) + 1
         /\ e["NEAR_DETERMINISTIC"] = d["NEAR_DETERMINISTIC"]
<1> DEFINE e == [d EXCEPT ![k] = @ + 1]
<1>1. e \in Probes
  BY DEF Probes, Stabilities
<1>2. \A l \in Stabilities : d[l] \in Nat /\ e[l] = IF l = k THEN d[l] + 1 ELSE d[l]
  BY DEF Probes, Stabilities
<1> HIDE DEF e
<1>3. Probed(e) = Probed(d) + 1
  <2>1. CASE k = "DETERMINISTIC"
    BY <1>2, <2>1 DEF Probed, Stabilities
  <2>2. CASE k = "UNSTABLE"
    BY <1>2, <2>2 DEF Probed, Stabilities
  <2>3. CASE k = "NON_DETERMINISTIC"
    BY <1>2, <2>3 DEF Probed, Stabilities
  <2> QED
    BY <2>1, <2>2, <2>3
<1>4. e["NEAR_DETERMINISTIC"] = d["NEAR_DETERMINISTIC"]
  BY <1>2 DEF Stabilities
<1> QED
  BY <1>1, <1>3, <1>4 DEF e

LEMMA OneMoreDrift ==
  ASSUME NEW r \in Drifts, NEW k \in Severities
  PROVE  LET e == [r EXCEPT ![k] = @ + 1] IN
         /\ e \in Drifts /\ Measured(e) = Measured(r) + 1
         /\ e["SIGNIFICANT"] = IF k = "SIGNIFICANT" THEN r["SIGNIFICANT"] + 1 ELSE r["SIGNIFICANT"]
<1> DEFINE e == [r EXCEPT ![k] = @ + 1]
<1>1. e \in Drifts
  BY DEF Drifts, Severities
<1>2. \A l \in Severities : r[l] \in Nat /\ e[l] = IF l = k THEN r[l] + 1 ELSE r[l]
  BY DEF Drifts, Severities
<1> HIDE DEF e
<1>3. Measured(e) = Measured(r) + 1
  <2>1. CASE k = "STABLE"
    BY <1>2, <2>1 DEF Measured, Severities
  <2>2. CASE k = "MODERATE"
    BY <1>2, <2>2 DEF Measured, Severities
  <2>3. CASE k = "SIGNIFICANT"
    BY <1>2, <2>3 DEF Measured, Severities
  <2> QED
    BY <2>1, <2>2, <2>3 DEF Severities
<1>4. e["SIGNIFICANT"] = IF k = "SIGNIFICANT" THEN r["SIGNIFICANT"] + 1 ELSE r["SIGNIFICANT"]
  BY <1>2 DEF Severities
<1> QED
  BY <1>1, <1>3, <1>4 DEF e

LEMMA CountsAre ==
  ASSUME NEW d \in Probes, NEW r \in Drifts
  PROVE  /\ \A k \in Stabilities : d[k] \in Nat
         /\ \A k \in Severities : r[k] \in Nat
         /\ Probed(d) \in Nat /\ Measured(r) \in Nat /\ Findings(d, r) \in Nat
         /\ Reproduced(d) \in Nat /\ Steady(r) \in Nat
  BY DEF Probes, Drifts, Stabilities, Severities, Probed, Measured, Findings, Reproduced, Steady

-----------------------------------------------------------------------------
LEMMA FidelityBegins == FidelityInit => FidelityInv
<1> SUFFICES ASSUME FidelityInit PROVE FidelityInv
  OBVIOUS
<1>1. /\ determinism \in Probes /\ Probed(determinism) = 0 /\ determinism["NEAR_DETERMINISTIC"] = 0
      /\ drift \in Drifts /\ Measured(drift) = 0 /\ drift["SIGNIFICANT"] = 0
  BY DEF FidelityInit, Probes, Drifts, Probed, Measured, Stabilities, Severities
<1> QED
  BY <1>1 DEF FidelityInit, FidelityInv

LEMMA FidelityStep == FidelityInv /\ [FidelityNext]_fidelityVars => FidelityInv'
<1> SUFFICES ASSUME FidelityInv, [FidelityNext]_fidelityVars PROVE FidelityInv'
  OBVIOUS
<1> USE DEF FidelityInv
<1>1. ASSUME NEW modal \in 1..Repetitions, ProbeScore(modal) PROVE FidelityInv'
  <2> DEFINE k == Stability(modal, Repetitions)
  <2>1. k \in {"DETERMINISTIC", "UNSTABLE", "NON_DETERMINISTIC"}
    BY StabilityIs DEF Repetitions
  <2> HIDE DEF k
  <2>2. /\ step = "score" /\ determinism' = [determinism EXCEPT ![k] = @ + 1]
        /\ step' = IF Probed(determinism) + 1 = 5 THEN "train" ELSE "score"
        /\ UNCHANGED <<drift, training, impact, gate, named, moved>>
    BY <1>1 DEF ProbeScore, k, ProbeSample
  <2>3. /\ determinism' \in Probes /\ Probed(determinism)' = Probed(determinism) + 1
        /\ determinism'["NEAR_DETERMINISTIC"] = determinism["NEAR_DETERMINISTIC"]
    BY <2>1, <2>2, OneMoreProbe
  <2>4. Probed(determinism) \in Nat /\ Measured(drift)' = Measured(drift)
    BY <2>2, CountsAre DEF Measured
  <2>5. CASE Probed(determinism) + 1 = 5
    BY <2>2, <2>3, <2>4, <2>5
  <2>6. CASE Probed(determinism) + 1 # 5
    BY <2>2, <2>3, <2>4, <2>6
  <2> QED
    BY <2>5, <2>6
<1>2. ASSUME NEW modal \in 1..Repetitions, ProbeTraining(modal) PROVE FidelityInv'
  <2> DEFINE k == Stability(modal, 2)
  <2>1. k \in {"DETERMINISTIC", "UNSTABLE", "NON_DETERMINISTIC"}
    <3>1. modal \in 1..2
      BY <1>2 DEF ProbeTraining
    <3> QED
      BY <3>1, StabilityIs
  <2> HIDE DEF k
  <2>2. /\ step = "train" /\ determinism' = [determinism EXCEPT ![k] = @ + 1]
        /\ step' = "drift" /\ training' = k
        /\ UNCHANGED <<drift, impact, gate, named, moved>>
    BY <1>2 DEF ProbeTraining, k
  <2>3. /\ determinism' \in Probes /\ Probed(determinism)' = Probed(determinism) + 1
        /\ determinism'["NEAR_DETERMINISTIC"] = determinism["NEAR_DETERMINISTIC"]
    BY <2>1, <2>2, OneMoreProbe
  <2>4. Measured(drift)' = Measured(drift) /\ training' \in Stabilities /\ training' # "skipped"
    BY <2>1, <2>2 DEF Measured, Stabilities
  <2> QED
    BY <2>2, <2>3, <2>4
<1>3. CASE SkipTraining
  BY <1>3 DEF SkipTraining, Probed, Measured, Findings
<1>4. CASE RaiseInProbe
  BY <1>4 DEF RaiseInProbe, Probed, Measured
<1>5. CASE NoReference
  BY <1>5 DEF NoReference, Probed, Measured
<1>6. ASSUME NEW psi \in Statistics, MeasureDrift(psi) PROVE FidelityInv'
  <2> DEFINE k == Severity(psi)
  <2>1. k \in Severities /\ (k = "SIGNIFICANT" <=> psi >= 25)
    <3>1. psi \in Nat
      BY FidelityAssumption
    <3> QED
      BY <3>1, SeverityIs
  <2> HIDE DEF k
  <2>2. /\ step = "drift" /\ drift' = [drift EXCEPT ![k] = @ + 1]
        /\ moved' = IF psi >= 25 THEN moved + 1 ELSE moved
        /\ step' = IF Measured(drift) + 1 = 10 THEN "gate" ELSE "drift"
        /\ UNCHANGED <<determinism, training, impact, gate, named>>
    BY <1>6 DEF MeasureDrift, k, Features
  <2>3. /\ drift' \in Drifts /\ Measured(drift)' = Measured(drift) + 1
        /\ drift'["SIGNIFICANT"] = IF k = "SIGNIFICANT" THEN drift["SIGNIFICANT"] + 1
                                   ELSE drift["SIGNIFICANT"]
    BY <2>1, <2>2, OneMoreDrift
  <2>4. Measured(drift) \in Nat /\ Probed(determinism)' = Probed(determinism)
    BY <2>2, CountsAre DEF Probed
  <2>5. moved' = drift'["SIGNIFICANT"]
    BY <2>1, <2>2, <2>3
  <2>6. CASE Measured(drift) + 1 = 10
    BY <2>2, <2>3, <2>4, <2>5, <2>6
  <2>7. CASE Measured(drift) + 1 # 10
    BY <2>2, <2>3, <2>4, <2>5, <2>7
  <2> QED
    BY <2>6, <2>7
<1>7. CASE Score
  BY <1>7 DEF Score, Probed, Measured, GateOf, AtLeast, Reproduced, Steady, Findings
<1>8. ASSUME NEW v \in {"untested", "NO_ADVERSE_IMPACT", "ADVERSE_IMPACT", "INSUFFICIENT_DATA"},
             TestImpact(v)
      PROVE  FidelityInv'
  <2>1. /\ step = "impact" /\ step' = "done" /\ impact' = v
        /\ IF v = "ADVERSE_IMPACT" THEN gate' = Lowered(gate) /\ named' = named + 1
           ELSE UNCHANGED <<gate, named>>
        /\ UNCHANGED <<determinism, drift, training, moved>>
    BY <1>8 DEF TestImpact
  <2>2. /\ GateOf(determinism, drift)' = GateOf(determinism, drift)
        /\ Findings(determinism, drift)' = Findings(determinism, drift)
        /\ Probed(determinism)' = Probed(determinism) /\ Measured(drift)' = Measured(drift)
    BY <2>1
  <2> QED
    BY <2>1, <2>2
<1>9. CASE UNCHANGED fidelityVars
  BY <1>9 DEF fidelityVars, Probed, Measured, GateOf, AtLeast, Reproduced, Steady, Findings
<1> QED
  BY <1>1, <1>2, <1>3, <1>4, <1>5, <1>6, <1>7, <1>8, <1>9 DEF FidelityNext

\* An assessment has all the reports of its probes, and of its features or none, when it is
\* scored, and its gate is the score's, lowered by an adverse impact.
THEOREM FidelityAlways == FidelitySpec => []FidelityInv
<1>1. FidelityInv /\ UNCHANGED fidelityVars => FidelityInv'
  BY FidelityStep
<1> QED
  BY FidelityBegins, FidelityStep, PTL DEF FidelitySpec

-----------------------------------------------------------------------------
\* The ranks of the gates.
LEMMA RankIs == Rank("BLOCK") = 0 /\ Rank("WARN") = 1 /\ Rank("PASS") = 2
  BY DEF Rank

\* Fewer reproduced probes or steadier features never score higher.
LEMMA LowerScoresLower ==
  ASSUME NEW d, NEW r, NEW e, NEW q, Complete(d, r), e \in Probes, q \in Drifts,
         Probed(e) = Probed(d), Measured(q) = Measured(r),
         Reproduced(e) <= Reproduced(d), Steady(q) <= Steady(r)
  PROVE  Rank(GateOf(e, q)) <= Rank(GateOf(d, r))
<1> DEFINE x == Reproduced(d)  y == Reproduced(e)  s == Steady(r)  t == Steady(q)
<1>1. /\ d \in Probes /\ r \in Drifts /\ e \in Probes /\ q \in Drifts
      /\ Probed(d) \in {5, 6} /\ Measured(r) \in {0, 10}
  BY DEF Complete
<1>2. x \in Nat /\ y \in Nat /\ s \in Nat /\ t \in Nat /\ y <= x /\ t <= s
  BY <1>1, CountsAre
<1>3. ASSUME NEW bar \in {70, 90}, AtLeast(e, q, bar)
      PROVE  AtLeast(d, r, bar)
  <2>1. CASE Measured(r) = 0
    <3>1. y >= bar * Probed(d)
      BY <1>3, <2>1 DEF AtLeast
    <3> HIDE DEF x, y
    <3>2. x >= bar * Probed(d)
      BY <1>1, <1>2, <3>1
    <3> QED
      BY <2>1, <3>2 DEF AtLeast, x
  <2>2. CASE Measured(r) = 10
    <3>1. 6 * y * 10 + 4 * t * Probed(d) >= 10 * bar * Probed(d) * 10
      BY <1>3, <2>2 DEF AtLeast
    <3> HIDE DEF x, y, s, t
    <3>2. 6 * x * 10 + 4 * s * Probed(d) >= 10 * bar * Probed(d) * 10
      <4>1. CASE Probed(d) = 5
        BY <1>2, <3>1, <4>1
      <4>2. CASE Probed(d) = 6
        BY <1>2, <3>1, <4>2
      <4> QED
        BY <1>1, <4>1, <4>2
    <3> QED
      BY <2>2, <3>2 DEF AtLeast, x, s
  <2> QED
    BY <1>1, <2>1, <2>2
<1>4. (AtLeast(e, q, 70) => AtLeast(d, r, 70)) /\ (AtLeast(e, q, 90) => AtLeast(d, r, 90))
  BY <1>3
<1>5. GateOf(d, r) \in Gates /\ GateOf(e, q) \in Gates
  BY DEF GateOf, Gates
<1>6. CASE ~AtLeast(e, q, 70)
  <2>1. GateOf(e, q) = "BLOCK"
    BY <1>6 DEF GateOf
  <2> QED
    BY <1>5, <2>1, RankIs DEF Gates
<1>7. CASE AtLeast(e, q, 70) /\ ~AtLeast(e, q, 90)
  <2>1. GateOf(e, q) = "WARN" /\ GateOf(d, r) \in {"WARN", "PASS"}
    BY <1>4, <1>7 DEF GateOf
  <2> QED
    BY <2>1, RankIs
<1>8. CASE AtLeast(e, q, 70) /\ AtLeast(e, q, 90)
  <2>1. GateOf(d, r) = "PASS"
    BY <1>4, <1>8 DEF GateOf
  <2> QED
    BY <1>5, <2>1, RankIs DEF Gates
<1> QED
  BY <1>6, <1>7, <1>8

\* What turning one report for the worse does to the counts.
LEMMA TurnedProbe ==
  ASSUME NEW d \in Probes, NEW k \in {"DETERMINISTIC", "UNSTABLE"},
         NEW l \in {"UNSTABLE", "NON_DETERMINISTIC"}, k # l, d[k] > 0
  PROVE  /\ Turned(d, k, l) \in Probes /\ Probed(Turned(d, k, l)) = Probed(d)
         /\ Reproduced(Turned(d, k, l)) <= Reproduced(d)
<1> DEFINE e == Turned(d, k, l)
<1>1. \A m \in Stabilities : d[m] \in Nat
  BY DEF Probes
<1>2. e = [m \in Stabilities |-> IF m = l THEN d[m] + 1 ELSE IF m = k THEN d[m] - 1 ELSE d[m]]
  BY DEF Turned, Probes, Stabilities
<1> HIDE DEF e
<1>3. \A m \in Stabilities : e[m] = IF m = l THEN d[m] + 1 ELSE IF m = k THEN d[m] - 1 ELSE d[m]
  BY <1>2
<1>4. \A m \in Stabilities : e[m] \in Nat
  BY <1>1, <1>3
<1>5. e \in Probes
  BY <1>2, <1>4 DEF Probes
<1>6. CASE k = "DETERMINISTIC" /\ l = "UNSTABLE"
  <2>1. /\ e["DETERMINISTIC"] = d["DETERMINISTIC"] - 1
        /\ e["UNSTABLE"] = d["UNSTABLE"] + 1
        /\ e["NON_DETERMINISTIC"] = d["NON_DETERMINISTIC"]
        /\ e["NEAR_DETERMINISTIC"] = d["NEAR_DETERMINISTIC"]
    BY <1>3, <1>6 DEF Stabilities
  <2> QED
    BY <1>1, <1>5, <2>1 DEF Probed, Reproduced, Stabilities, e
<1>7. CASE k = "DETERMINISTIC" /\ l = "NON_DETERMINISTIC"
  <2>1. /\ e["DETERMINISTIC"] = d["DETERMINISTIC"] - 1
        /\ e["UNSTABLE"] = d["UNSTABLE"]
        /\ e["NON_DETERMINISTIC"] = d["NON_DETERMINISTIC"] + 1
        /\ e["NEAR_DETERMINISTIC"] = d["NEAR_DETERMINISTIC"]
    BY <1>3, <1>7 DEF Stabilities
  <2> QED
    BY <1>1, <1>5, <2>1 DEF Probed, Reproduced, Stabilities, e
<1>8. CASE k = "UNSTABLE" /\ l = "NON_DETERMINISTIC"
  <2>1. /\ e["DETERMINISTIC"] = d["DETERMINISTIC"]
        /\ e["UNSTABLE"] = d["UNSTABLE"] - 1
        /\ e["NON_DETERMINISTIC"] = d["NON_DETERMINISTIC"] + 1
        /\ e["NEAR_DETERMINISTIC"] = d["NEAR_DETERMINISTIC"]
    BY <1>3, <1>8 DEF Stabilities
  <2> QED
    BY <1>1, <1>5, <2>1 DEF Probed, Reproduced, Stabilities, e
<1> QED
  BY <1>6, <1>7, <1>8

LEMMA TurnedDrift ==
  ASSUME NEW r \in Drifts, NEW k \in {"STABLE", "MODERATE"},
         NEW l \in {"MODERATE", "SIGNIFICANT"}, k # l, r[k] > 0
  PROVE  /\ Turned(r, k, l) \in Drifts /\ Measured(Turned(r, k, l)) = Measured(r)
         /\ Steady(Turned(r, k, l)) <= Steady(r)
<1> DEFINE e == Turned(r, k, l)
<1>1. \A m \in Severities : r[m] \in Nat
  BY DEF Drifts
<1>2. e = [m \in Severities |-> IF m = l THEN r[m] + 1 ELSE IF m = k THEN r[m] - 1 ELSE r[m]]
  BY DEF Turned, Drifts, Severities
<1> HIDE DEF e
<1>3. \A m \in Severities : e[m] = IF m = l THEN r[m] + 1 ELSE IF m = k THEN r[m] - 1 ELSE r[m]
  BY <1>2
<1>4. \A m \in Severities : e[m] \in Nat
  BY <1>1, <1>3
<1>5. e \in Drifts
  BY <1>2, <1>4 DEF Drifts
<1>6. CASE k = "STABLE" /\ l = "MODERATE"
  <2>1. e["STABLE"] = r["STABLE"] - 1 /\ e["MODERATE"] = r["MODERATE"] + 1
        /\ e["SIGNIFICANT"] = r["SIGNIFICANT"]
    BY <1>3, <1>6 DEF Severities
  <2> QED
    BY <1>1, <1>5, <2>1 DEF Measured, Steady, Severities, e
<1>7. CASE k = "STABLE" /\ l = "SIGNIFICANT"
  <2>1. e["STABLE"] = r["STABLE"] - 1 /\ e["MODERATE"] = r["MODERATE"]
        /\ e["SIGNIFICANT"] = r["SIGNIFICANT"] + 1
    BY <1>3, <1>7 DEF Severities
  <2> QED
    BY <1>1, <1>5, <2>1 DEF Measured, Steady, Severities, e
<1>8. CASE k = "MODERATE" /\ l = "SIGNIFICANT"
  <2>1. e["STABLE"] = r["STABLE"] /\ e["MODERATE"] = r["MODERATE"] - 1
        /\ e["SIGNIFICANT"] = r["SIGNIFICANT"] + 1
    BY <1>3, <1>8 DEF Severities
  <2> QED
    BY <1>1, <1>5, <2>1 DEF Measured, Steady, Severities, e
<1> QED
  BY <1>6, <1>7, <1>8

-----------------------------------------------------------------------------
\* What the counts of a finished assessment make of the gate.
LEMMA GateHolds ==
  ASSUME NEW d, NEW r, Complete(d, r)
  PROVE  /\ r["SIGNIFICANT"] >= 8 => GateOf(d, r) = "BLOCK"
         /\ r["SIGNIFICANT"] >= 3 => GateOf(d, r) # "PASS"
         /\ Findings(d, r) = 0 => GateOf(d, r) = "PASS"
         /\ GateOf(d, r) = "PASS" => d["UNSTABLE"] + d["NON_DETERMINISTIC"] <= 1
<1> DEFINE D == d["DETERMINISTIC"]
           U == d["UNSTABLE"]
           N == d["NON_DETERMINISTIC"]
           S == r["STABLE"]
           M == r["MODERATE"]
           G == r["SIGNIFICANT"]
           p == Probed(d)
           m == Measured(r)
           x == Reproduced(d)
           y == Steady(r)
<1>1. D \in Nat /\ U \in Nat /\ N \in Nat /\ S \in Nat /\ M \in Nat /\ G \in Nat
  BY DEF Complete, Probes, Drifts, Stabilities, Severities
<1>2. /\ p = D + U + N /\ p \in {5, 6} /\ m = S + M + G /\ m \in {0, 10}
      /\ x = 100 * D + 45 * U /\ y = 100 * S + 60 * M
      /\ Findings(d, r) = U + N + M + G
  BY <1>1 DEF Complete, Probed, Measured, Reproduced, Steady, Findings
<1>3. \A bar \in {70, 90} :
        AtLeast(d, r, bar) <=>
          IF m = 0 THEN x >= bar * p ELSE 6 * x * m + 4 * y * p >= 10 * bar * p * m
  BY DEF AtLeast
<1>4. /\ AtLeast(d, r, 70) <=> IF m = 0 THEN x >= 70 * p ELSE 60 * x + 4 * y * p >= 7000 * p
      /\ AtLeast(d, r, 90) <=> IF m = 0 THEN x >= 90 * p ELSE 60 * x + 4 * y * p >= 9000 * p
  <2> HIDE DEF p, m, x, y
  <2>1. x \in Nat /\ y \in Nat /\ p \in Nat
    BY <1>1, <1>2
  <2>2. CASE m = 0
    BY <1>3, <2>2
  <2>3. CASE m = 10
    BY <1>3, <2>1, <2>3
  <2> QED
    BY <1>2, <2>2, <2>3
<1> HIDE DEF D, U, N, S, M, G, p, m, x, y
<1>5. G >= 8 => ~AtLeast(d, r, 70)
  <2> SUFFICES ASSUME G >= 8 PROVE ~AtLeast(d, r, 70)
    OBVIOUS
  <2>1. m = 10 /\ y <= 200 /\ x <= 100 * p
    BY <1>1, <1>2
  <2>2. CASE p = 5
    BY <1>1, <1>2, <1>4, <2>1, <2>2
  <2>3. CASE p = 6
    BY <1>1, <1>2, <1>4, <2>1, <2>3
  <2> QED
    BY <1>2, <2>2, <2>3
<1>6. G >= 3 => ~AtLeast(d, r, 90)
  <2> SUFFICES ASSUME G >= 3 PROVE ~AtLeast(d, r, 90)
    OBVIOUS
  <2>1. m = 10 /\ y <= 700 /\ x <= 100 * p
    BY <1>1, <1>2
  <2>2. CASE p = 5
    BY <1>1, <1>2, <1>4, <2>1, <2>2
  <2>3. CASE p = 6
    BY <1>1, <1>2, <1>4, <2>1, <2>3
  <2> QED
    BY <1>2, <2>2, <2>3
<1>7. U + N + M + G = 0 => AtLeast(d, r, 70) /\ AtLeast(d, r, 90)
  <2> SUFFICES ASSUME U + N + M + G = 0 PROVE AtLeast(d, r, 70) /\ AtLeast(d, r, 90)
    OBVIOUS
  <2>1. x = 100 * p /\ y = 100 * m
    BY <1>1, <1>2
  <2>2. CASE p = 5
    BY <1>1, <1>2, <1>4, <2>1, <2>2
  <2>3. CASE p = 6
    BY <1>1, <1>2, <1>4, <2>1, <2>3
  <2> QED
    BY <1>2, <2>2, <2>3
<1>8. AtLeast(d, r, 90) => U + N <= 1
  <2> SUFFICES ASSUME U + N > 1 PROVE ~AtLeast(d, r, 90)
    BY <1>1
  <2>1. x <= 100 * p - 110 /\ y <= 100 * m
    BY <1>1, <1>2
  <2>2. CASE p = 5
    BY <1>1, <1>2, <1>4, <2>1, <2>2
  <2>3. CASE p = 6
    BY <1>1, <1>2, <1>4, <2>1, <2>3
  <2> QED
    BY <1>2, <2>2, <2>3
<1>9. /\ ~AtLeast(d, r, 70) => GateOf(d, r) = "BLOCK"
      /\ ~AtLeast(d, r, 90) => GateOf(d, r) # "PASS"
      /\ AtLeast(d, r, 70) /\ AtLeast(d, r, 90) => GateOf(d, r) = "PASS"
  BY DEF GateOf
<1> QED
  BY <1>2, <1>5, <1>6, <1>7, <1>8, <1>9 DEF G, U, N

LEMMA FidelityTypes == FidelityInv => FidelityTypeOK
<1> SUFFICES ASSUME FidelityInv PROVE FidelityTypeOK
  OBVIOUS
<1> USE DEF FidelityInv
<1> DEFINE d == determinism
           r == drift
<1>1. /\ \A k \in Stabilities : d[k] \in Nat
      /\ \A k \in Severities : r[k] \in Nat
  BY CountsAre
<1>2. \A k \in Stabilities : d[k] \in 0..6
  <2>1. /\ Probed(d) <= 6 /\ d["DETERMINISTIC"] \in Nat /\ d["NEAR_DETERMINISTIC"] \in Nat
        /\ d["UNSTABLE"] \in Nat /\ d["NON_DETERMINISTIC"] \in Nat
    BY <1>1 DEF Stabilities
  <2>2. d["DETERMINISTIC"] + d["NEAR_DETERMINISTIC"] + d["UNSTABLE"] + d["NON_DETERMINISTIC"] <= 6
    BY <2>1 DEF Probed
  <2>3. d["DETERMINISTIC"] <= 6 /\ d["NEAR_DETERMINISTIC"] <= 6
    BY ONLY <2>1, <2>2
  <2>4. d["UNSTABLE"] <= 6 /\ d["NON_DETERMINISTIC"] <= 6
    BY ONLY <2>1, <2>2
  <2> QED
    BY <2>1, <2>3, <2>4 DEF Stabilities
<1>3. \A k \in Severities : r[k] \in 0..10
  <2>1. /\ Measured(r) <= 10 /\ r["STABLE"] \in Nat /\ r["MODERATE"] \in Nat
        /\ r["SIGNIFICANT"] \in Nat
    BY <1>1 DEF Severities
  <2>2. r["STABLE"] \in 0..10 /\ r["MODERATE"] \in 0..10 /\ r["SIGNIFICANT"] \in 0..10
    BY ONLY <2>1 DEF Measured
  <2> QED
    BY <2>2 DEF Severities
<1>4. determinism \in [Stabilities -> 0..(ProbeSample + 1)]
  BY <1>2 DEF Probes, ProbeSample
<1>5. drift \in [Severities -> 0..Features]
  BY <1>3 DEF Drifts, Features
<1>6. moved \in 0..Features
  BY <1>3 DEF Features, Severities
<1>7. gate \in Gates \cup {"none"}
  BY DEF GateOf, Lowered, Gates
<1>8. named \in 0..(ProbeSample + 1 + Features + 1)
  <2>1. Findings(d, r) \in Nat /\ Findings(d, r) <= 16
    BY <1>1 DEF Findings, Probed, Measured, Stabilities, Severities
  <2>2. named = 0 \/ named = Findings(d, r) \/ named = Findings(d, r) + 1
    OBVIOUS
  <2> HIDE DEF FidelityInv
  <2>3. named \in 0..17
    BY <2>1, <2>2
  <2> QED
    BY <2>3 DEF ProbeSample, Features
<1>9. step \in {"gate", "impact", "done"} =>
        /\ Probed(determinism) = IF training = "skipped" THEN ProbeSample ELSE ProbeSample + 1
        /\ Measured(drift) \in {0, Features}
  BY DEF ProbeSample, Features
<1>10. /\ step \in {"score", "train", "drift", "gate", "impact", "done", "raised"}
       /\ training \in Stabilities \cup {"skipped"}
       /\ impact \in {"untested", "NO_ADVERSE_IMPACT", "ADVERSE_IMPACT", "INSUFFICIENT_DATA"}
  OBVIOUS
<1> QED
  BY <1>4, <1>5, <1>6, <1>7, <1>8, <1>9, <1>10 DEF FidelityTypeOK

\* What the inductive invariant says, as the run checks it.
LEMMA GateTells == FidelityInv => GateIsSound
<1> SUFFICES ASSUME FidelityInv PROVE GateIsSound
  OBVIOUS
<1> DEFINE d == determinism
           r == drift
<1>1. step \in {"impact", "done"} => Complete(d, r)
  BY DEF FidelityInv, Complete
<1>2. gate # "none" => step \in {"impact", "done"}
  BY DEF FidelityInv
<1>3. gate # "none" => gate = GateOf(d, r) \/ gate = Lowered(GateOf(d, r))
  BY DEF FidelityInv
<1>4. GateOf(d, r) \in Gates
  BY DEF GateOf, Gates
<1>5. WorseIsNeverBetter
  <2> SUFFICES ASSUME step = "impact" PROVE WorseIsNeverBetter
    BY DEF WorseIsNeverBetter
  <2>1. Complete(d, r) /\ gate = GateOf(d, r) /\ d \in Probes /\ r \in Drifts
    BY <1>1 DEF FidelityInv
  <2>2. ASSUME NEW k \in {"DETERMINISTIC", "UNSTABLE"}, NEW l \in {"UNSTABLE", "NON_DETERMINISTIC"},
               k # l, d[k] > 0
        PROVE  Rank(GateOf(Turned(d, k, l), r)) <= Rank(gate)
    <3>1. /\ Turned(d, k, l) \in Probes /\ Probed(Turned(d, k, l)) = Probed(d)
          /\ Reproduced(Turned(d, k, l)) <= Reproduced(d)
      BY <2>1, <2>2, TurnedProbe
    <3>2. Steady(r) <= Steady(r)
      BY <2>1, CountsAre
    <3> QED
      BY <2>1, <3>1, <3>2, LowerScoresLower
  <2>3. ASSUME NEW k \in {"STABLE", "MODERATE"}, NEW l \in {"MODERATE", "SIGNIFICANT"},
               k # l, r[k] > 0
        PROVE  Rank(GateOf(d, Turned(r, k, l))) <= Rank(gate)
    <3>1. /\ Turned(r, k, l) \in Drifts /\ Measured(Turned(r, k, l)) = Measured(r)
          /\ Steady(Turned(r, k, l)) <= Steady(r)
      BY <2>1, <2>3, TurnedDrift
    <3>2. Reproduced(d) <= Reproduced(d)
      BY <2>1, CountsAre
    <3> QED
      BY <2>1, <3>1, <3>2, LowerScoresLower
  <2>4. ASSUME NEW k, NEW l,
               <<k, l>> \in {<<"DETERMINISTIC", "UNSTABLE">>, <<"DETERMINISTIC", "NON_DETERMINISTIC">>,
                             <<"UNSTABLE", "NON_DETERMINISTIC">>}
        PROVE  k \in {"DETERMINISTIC", "UNSTABLE"} /\ l \in {"UNSTABLE", "NON_DETERMINISTIC"} /\ k # l
    BY <2>4
  <2>5. ASSUME NEW k, NEW l,
               <<k, l>> \in {<<"STABLE", "MODERATE">>, <<"STABLE", "SIGNIFICANT">>,
                             <<"MODERATE", "SIGNIFICANT">>}
        PROVE  k \in {"STABLE", "MODERATE"} /\ l \in {"MODERATE", "SIGNIFICANT"} /\ k # l
    BY <2>5
  <2> QED
    BY <2>2, <2>3, <2>4, <2>5 DEF WorseIsNeverBetter
<1>6. WholesaleDriftIsHeld
  <2> SUFFICES ASSUME gate # "none"
               PROVE (moved >= 8 => gate = "BLOCK") /\ (moved >= 3 => gate # "PASS")
    BY DEF WholesaleDriftIsHeld
  <2>1. moved = r["SIGNIFICANT"] /\ Complete(d, r)
    BY <1>1, <1>2 DEF FidelityInv
  <2> QED
    BY <1>3, <2>1, GateHolds DEF Lowered
<1>7. HeldForAReason
  <2> SUFFICES ASSUME gate \in {"WARN", "BLOCK"} PROVE named > 0
    BY DEF HeldForAReason
  <2>1. Complete(d, r) /\ Findings(d, r) \in Nat
    BY <1>1, <1>2, CountsAre DEF Complete
  <2>2. CASE step = "done" /\ impact = "ADVERSE_IMPACT"
    <3>1. named = Findings(d, r) + 1
      BY <2>2 DEF FidelityInv
    <3> QED
      BY <2>1, <3>1
  <2>3. CASE ~(step = "done" /\ impact = "ADVERSE_IMPACT")
    <3>1. named = Findings(d, r) /\ gate = GateOf(d, r)
      BY <1>2, <2>3 DEF FidelityInv
    <3>2. Findings(d, r) # 0
      BY <2>1, <3>1, GateHolds
    <3> QED
      BY <2>1, <3>1, <3>2
  <2> QED
    BY <2>2, <2>3
<1>8. PassToleratesOne
  <2> SUFFICES ASSUME gate = "PASS" PROVE d["UNSTABLE"] + d["NON_DETERMINISTIC"] <= 1
    BY DEF PassToleratesOne
  <2>1. Complete(d, r) /\ GateOf(d, r) = "PASS"
    BY <1>1, <1>2, <1>3 DEF Lowered
  <2> QED
    BY <2>1, GateHolds
<1>9. ImpactNeverImproves
  <2> SUFFICES ASSUME step = "done"
               PROVE  /\ Rank(gate) <= Rank(GateOf(d, r))
                      /\ impact = "ADVERSE_IMPACT" => gate # "PASS"
    BY DEF ImpactNeverImproves
  <2>1. gate = IF impact = "ADVERSE_IMPACT" THEN Lowered(GateOf(d, r)) ELSE GateOf(d, r)
    BY DEF FidelityInv
  <2>2. CASE GateOf(d, r) = "PASS"
    BY <2>1, <2>2, RankIs DEF Lowered
  <2>3. CASE GateOf(d, r) = "WARN"
    BY <2>1, <2>3, RankIs DEF Lowered
  <2>4. CASE GateOf(d, r) = "BLOCK"
    BY <2>1, <2>4, RankIs DEF Lowered
  <2> QED
    BY <1>4, <2>2, <2>3, <2>4 DEF Gates
<1> QED
  BY <1>5, <1>6, <1>7, <1>8, <1>9, FidelityTypes DEF GateIsSound

\* The gate of a model is sound whatever statistics the features have: worse reports never
\* raise it, wholesale drift and two probes that were not reproduced are held, a gate below
\* PASS names a finding, and the four-fifths test only lowers.
THEOREM GateAlwaysSound == FidelitySpec => []GateIsSound
  BY FidelityAlways, GateTells, PTL

-----------------------------------------------------------------------------
\* Sentiment.
\* Two surveys that differ in no response of the group g.
AlikeFor(one, two, g) ==
  From(one, g) = From(two, g) /\ \A n \in From(one, g) : one[n].text = two[n].text

\* What is told of a group is made of its own responses.
LEMMA ScoresAlike ==
  ASSUME NEW one, NEW two, NEW g, NEW a, AlikeFor(one, two, g)
  PROVE  AspectScore(one, g, a) = AspectScore(two, g, a)
<1> DEFINE told(s, n) == {<<n, i>> : i \in {j \in Polar(s[n].text) : AspectFor(s[n].text, j) = a}}
           mine(s) == UNION {told(s, n) : n \in From(s, g)}
           polarities(s) == [v \in mine(s) |-> Polarity(s[v[1]].text, v[2])]
<1>1. From(one, g) = From(two, g) /\ \A n \in From(one, g) : one[n].text = two[n].text
  BY DEF AlikeFor
<1>2. \A n \in From(one, g) : /\ told(one, n) = told(two, n)
                              /\ \A v \in told(one, n) : v[1] = n
  BY <1>1
<1> HIDE DEF told
<1>3. \A v : v \in mine(one) <=> v \in mine(two)
  BY <1>1, <1>2
<1>4. mine(one) = mine(two) /\ \A v \in mine(one) : v[1] \in From(one, g)
  BY <1>2, <1>3
<1> HIDE DEF mine
<1>5. polarities(one) = polarities(two)
  BY <1>1, <1>4
<1> HIDE DEF polarities
<1>6. \A s \in {one, two} : AspectScore(s, g, a) = [sum |-> SumOf(polarities(s)),
                                                    mentions |-> Cardinality(mine(s))]
  BY DEF AspectScore, polarities, mine, told
<1> QED
  BY <1>4, <1>5, <1>6

\* What a report says of a group that is reported.
GroupReport(answers, g) ==
  [respondents |-> Cardinality(From(answers, g)),
   overall |-> SumOf([n \in From(answers, g) |-> Overall(answers[n].text)]),
   aspects |-> {[aspect |-> a, score |-> AspectScore(answers, g, a)] :
                  a \in {b \in Aspects : AspectScore(answers, g, b).mentions > 0}}]

LEMMA AnalyseIs ==
  ASSUME NEW answers
  PROVE  Analyse(answers) = [groups |-> [g \in Reportable(answers) |-> GroupReport(answers, g)],
                             suppressed |-> Withheld(answers)]
  BY DEF Analyse, GroupReport

LEMMA GroupsAlike ==
  ASSUME NEW one, NEW two, NEW g, AlikeFor(one, two, g)
  PROVE  GroupReport(one, g) = GroupReport(two, g)
<1> DEFINE overalls(s) == [n \in From(s, g) |-> Overall(s[n].text)]
           kinds(s) == {b \in Aspects : AspectScore(s, g, b).mentions > 0}
           aspects(s) == {[aspect |-> a, score |-> AspectScore(s, g, a)] : a \in kinds(s)}
<1>1. From(one, g) = From(two, g) /\ \A n \in From(one, g) : one[n].text = two[n].text
  BY DEF AlikeFor
<1>2. overalls(one) = overalls(two)
  BY <1>1
<1>3. \A a : AspectScore(one, g, a) = AspectScore(two, g, a)
  BY ScoresAlike
<1>4. kinds(one) = kinds(two)
  BY <1>3
<1> HIDE DEF kinds
<1>5. aspects(one) = aspects(two)
  BY <1>3, <1>4
<1> HIDE DEF overalls, aspects
<1>6. \A s \in {one, two} : GroupReport(s, g) = [respondents |-> Cardinality(From(s, g)),
                                                 overall |-> SumOf(overalls(s)),
                                                 aspects |-> aspects(s)]
  BY DEF GroupReport, overalls, aspects, kinds
<1> QED
  BY <1>1, <1>2, <1>5, <1>6

\* Surveys that agree on who answered, and on what the groups large enough wrote, have the
\* same report.
LEMMA ReportsAlike ==
  ASSUME NEW one, NEW two, \A g \in SurveyGroups : From(one, g) = From(two, g),
         \A g \in Reportable(one) : AlikeFor(one, two, g)
  PROVE  Analyse(one) = Analyse(two)
<1>1. Reportable(one) = Reportable(two)
  BY DEF Reportable
<1>2. Withheld(one) = Withheld(two)
  BY <1>1 DEF Withheld
<1>3. \A g \in Reportable(one) : GroupReport(one, g) = GroupReport(two, g)
  BY GroupsAlike
<1>4. [g \in Reportable(one) |-> GroupReport(one, g)] = [g \in Reportable(two) |-> GroupReport(two, g)]
  BY <1>1, <1>3
<1> QED
  BY <1>2, <1>4, AnalyseIs

\* With another text in a response of a group too small, the report is the same.
LEMMA WithheldAreSilent ==
  ASSUME NEW answers \in Surveys, NEW n \in DOMAIN answers, NEW t \in Texts,
         Cardinality(From(answers, answers[n].group)) < MinimumSize
  PROVE  Analyse([answers EXCEPT ![n].text = t]) = Analyse(answers)
<1> DEFINE Response == [group : SurveyGroups, text : Texts]
           other == [answers EXCEPT ![n].text = t]
<1>1. answers \in Seq(Response)
  BY SentimentAssumption
<1>2. /\ DOMAIN answers = 1..Len(answers) /\ Len(answers) \in Nat
      /\ \A m \in DOMAIN answers : answers[m] \in Response
      /\ answers = [m \in DOMAIN answers |-> answers[m]]
  BY <1>1, LenProperties, ElementOfSeq
<1>3. DOMAIN other = DOMAIN answers /\ \A m \in DOMAIN answers : m # n => other[m] = answers[m]
  BY <1>2
<1>4. other[n].group = answers[n].group
  BY <1>2
<1> HIDE DEF other
<1>5. \A m \in DOMAIN answers : other[m].group = answers[m].group
  BY <1>3, <1>4
<1>6. \A g : From(answers, g) = From(other, g)
  BY <1>3, <1>5 DEF From
<1>7. ASSUME NEW g \in Reportable(answers)
      PROVE  AlikeFor(answers, other, g)
  <2>1. n \notin From(answers, g)
    <3>1. SUFFICES ASSUME answers[n].group = g PROVE FALSE
      BY DEF From
    <3>2. Cardinality(From(answers, g)) < MinimumSize
      BY <3>1
    <3>3. Cardinality(From(answers, g)) >= MinimumSize
      BY DEF Reportable
    <3>4. Cardinality(From(answers, g)) \in Nat
      <4>1. From(answers, g) \in SUBSET (1..Len(answers))
        BY <1>2 DEF From
      <4>2. IsFiniteSet(1..Len(answers))
        <5>1. 1 \in Int /\ Len(answers) \in Int
          BY <1>2
        <5> QED
          BY <5>1, FS_Interval
      <4>3. IsFiniteSet(From(answers, g))
        BY <4>1, <4>2, FS_Subset
      <4> QED
        BY <4>3, FS_CardinalityType
    <3> QED
      BY <3>2, <3>3, <3>4, SentimentAssumption
  <2>2. \A m \in From(answers, g) : m \in DOMAIN answers /\ m # n
    BY <2>1 DEF From
  <2> QED
    BY <1>3, <1>6, <2>2 DEF AlikeFor
<1>8. Analyse(answers) = Analyse(other)
  BY <1>6, <1>7, ReportsAlike
<1> QED
  BY <1>8 DEF other

\* Early warnings are drawn from the two reports.
LEMMA WarningsFollowReports ==
  ASSUME NEW one, NEW two, NEW p, Analyse(one) = Analyse(two)
  PROVE  EarlyWarnings(one, p) = EarlyWarnings(two, p) /\ EarlyWarnings(p, one) = EarlyWarnings(p, two)
  BY DEF EarlyWarnings

-----------------------------------------------------------------------------
\* A report is that of what was asked; of the early warnings one at a time is past the
\* ledger's lock, and while it is, whether its findings were told before stays true.
Locked(a) == asking[a].pc \in {"appended", "queued"}
Request == [pc : {"idle", "found", "appended", "queued"}, found : Found \cup {{}}, queued : BOOLEAN]

SentimentInv ==
  /\ asked \in Surveys \cup {<< >>}
  /\ asked # << >> => report = Analyse(asked)
  /\ asking \in [Asker -> Request]
  /\ warned \in Seq(Found \cup {{}}) /\ alerts \in Seq(Found \cup {{}})
  /\ \A a, b \in Asker : Locked(a) /\ Locked(b) => a = b
  /\ \A a \in Asker : asking[a].pc = "queued" =>
       (asking[a].queued <=> asking[a].found # {} /\ ~Told(asking[a].found))
  /\ WarningsAreTold /\ ToldOnce

LEMMA SentimentBegins == SentimentInit => SentimentInv
<1> SUFFICES ASSUME SentimentInit PROVE SentimentInv
  OBVIOUS
<1>1. asking \in [Asker -> Request] /\ \A a \in Asker : asking[a].pc = "idle"
  BY DEF SentimentInit, NotAsking, Request
<1>2. warned = << >> /\ alerts = << >> /\ DOMAIN warned = {} /\ DOMAIN alerts = {}
      /\ warned \in Seq(Found \cup {{}}) /\ alerts \in Seq(Found \cup {{}})
  BY DEF SentimentInit
<1> QED
  BY <1>1, <1>2 DEF SentimentInit, SentimentInv, Locked, WarningsAreTold, ToldOnce

LEMMA SentimentStep == SentimentInv /\ [SentimentNext]_sentimentVars => SentimentInv'
<1> SUFFICES ASSUME SentimentInv, [SentimentNext]_sentimentVars PROVE SentimentInv'
  OBVIOUS
<1> USE DEF SentimentInv
<1>1. CASE AskReport
  BY <1>1 DEF AskReport, Locked, WarningsAreTold, ToldOnce, Told
<1>2. CASE ReplyReport
  BY <1>2 DEF ReplyReport, Locked, WarningsAreTold, ToldOnce, Told
<1>3. ASSUME NEW a \in Asker, AskWarning(a) PROVE SentimentInv'
  <2>1. PICK found \in Found :
          asking' = [asking EXCEPT ![a] = [NotAsking EXCEPT !.pc = "found", !.found = found]]
    BY <1>3 DEF AskWarning
  <2>2. asking'[a] \in Request /\ asking'[a].pc = "found"
    BY <2>1 DEF NotAsking, Request
  <2>3. asking' \in [Asker -> Request] /\ \A b \in Asker : b # a => asking'[b] = asking[b]
    BY <2>1, <2>2
  <2> QED
    BY <1>3, <2>2, <2>3 DEF AskWarning, Locked, WarningsAreTold, ToldOnce, Told
<1>4. ASSUME NEW a \in Asker, AppendWarning(a) PROVE SentimentInv'
  <2>1. /\ asking[a].pc = "found" /\ \A b \in Asker : ~Locked(b)
        /\ asking' = [asking EXCEPT ![a].pc = "appended"]
        /\ UNCHANGED <<asked, report, warned, alerts>>
    BY <1>4 DEF AppendWarning, Locked
  <2>2. asking'[a] \in Request /\ asking'[a].pc = "appended"
    BY <2>1 DEF Request
  <2>3. asking' \in [Asker -> Request] /\ \A b \in Asker : b # a => asking'[b] = asking[b]
    BY <2>1, <2>2
  <2>4. \A b, c \in Asker : Locked(b)' /\ Locked(c)' => b = c
    BY <2>1, <2>3 DEF Locked
  <2> QED
    BY <2>1, <2>2, <2>3, <2>4 DEF WarningsAreTold, ToldOnce, Told
<1>5. ASSUME NEW a \in Asker, QueueWarning(a) PROVE SentimentInv'
  <2> DEFINE new == asking[a].found # {} /\ ~Told(asking[a].found)
  <2>1. /\ asking[a].pc = "appended"
        /\ asking' = [asking EXCEPT ![a].pc = "queued", ![a].queued = new]
        /\ UNCHANGED <<asked, report, warned, alerts>>
    BY <1>5 DEF QueueWarning
  <2>2. new \in BOOLEAN /\ new' \in BOOLEAN
    BY DEF Told
  <2>3. (new <=> asking[a].found # {} /\ ~Told(asking[a].found))
    OBVIOUS
  <2> HIDE DEF new
  <2>4. /\ asking'[a] \in Request /\ asking'[a].pc = "queued"
        /\ asking'[a].found = asking[a].found /\ asking'[a].queued = new
    BY <2>1, <2>2 DEF Request
  <2>5. asking' \in [Asker -> Request] /\ \A b \in Asker : b # a => asking'[b] = asking[b]
    BY <2>1, <2>4
  <2>6. \A b, c \in Asker : Locked(b)' /\ Locked(c)' => b = c
    BY <2>1, <2>5 DEF Locked
  <2>7. ASSUME NEW b \in Asker, asking'[b].pc = "queued"
        PROVE  asking'[b].queued <=>
                 asking'[b].found # {} /\ ~\E n \in DOMAIN alerts : alerts[n] = asking'[b].found
    <3>1. CASE b = a
      BY <2>3, <2>4, <3>1 DEF Told
    <3>2. CASE b # a
      BY <2>5, <2>7, <3>2 DEF Told
    <3> QED
      BY <3>1, <3>2
  <2>8. WarningsAreTold' /\ ToldOnce'
    BY <2>1 DEF WarningsAreTold, ToldOnce
  <2> QED
    BY <2>1, <2>5, <2>6, <2>7, <2>8 DEF Told
<1>6. ASSUME NEW a \in Asker, CommitWarning(a) PROVE SentimentInv'
  <2> DEFINE found == asking[a].found
  <2>1. /\ asking[a].pc = "queued" /\ warned' = Append(warned, found)
        /\ alerts' = IF asking[a].queued THEN Append(alerts, found) ELSE alerts
        /\ asking' = [asking EXCEPT ![a] = NotAsking] /\ UNCHANGED <<asked, report>>
    BY <1>6 DEF CommitWarning
  <2>2. found \in Found \cup {{}} /\ asking[a].queued \in BOOLEAN
        /\ (asking[a].queued <=> found # {} /\ ~Told(found))
    BY <2>1 DEF Request
  <2>3. /\ asking' \in [Asker -> Request] /\ asking'[a].pc = "idle"
        /\ \A b \in Asker : b # a => asking'[b] = asking[b]
    BY <2>1 DEF NotAsking, Request
  <2>4. \A b \in Asker : asking'[b].pc \notin {"appended", "queued"}
    BY <2>1, <2>3 DEF Locked
  <2>5. /\ warned' \in Seq(Found \cup {{}})
        /\ DOMAIN warned = 1..Len(warned) /\ DOMAIN warned' = 1..(Len(warned) + 1)
        /\ Len(warned) \in Nat /\ \A n \in DOMAIN warned : warned'[n] = warned[n]
        /\ warned'[Len(warned) + 1] = found
    BY <2>1, <2>2, Longer
  <2> HIDE DEF found
  <2>6. \A n \in DOMAIN warned' : n \in DOMAIN warned \/ n = Len(warned) + 1
    BY <2>5
  <2>7. /\ DOMAIN warned \subseteq DOMAIN warned' /\ Len(warned) + 1 \in DOMAIN warned'
    BY <2>5
  <2>8. CASE asking[a].queued
    <3>1. found # {} /\ \A n \in DOMAIN alerts : alerts[n] # found
      BY <2>2, <2>8 DEF Told
    <3>2. /\ alerts' \in Seq(Found \cup {{}})
          /\ DOMAIN alerts = 1..Len(alerts) /\ DOMAIN alerts' = 1..(Len(alerts) + 1)
          /\ Len(alerts) \in Nat /\ \A n \in DOMAIN alerts : alerts'[n] = alerts[n]
          /\ alerts'[Len(alerts) + 1] = found
      BY <2>1, <2>2, <2>8, Longer
    <3>3. \A n \in DOMAIN alerts' : n \in DOMAIN alerts \/ n = Len(alerts) + 1
      BY <3>2
    <3>4. DOMAIN alerts \subseteq DOMAIN alerts' /\ Len(alerts) + 1 \in DOMAIN alerts'
      BY <3>2
    <3>5. \A n \in DOMAIN warned' : warned'[n] # {} => \E k \in DOMAIN alerts' : alerts'[k] = warned'[n]
      BY <2>5, <2>6, <3>2, <3>4 DEF WarningsAreTold
    <3>6. \A k \in DOMAIN alerts' : \E n \in DOMAIN warned' : warned'[n] = alerts'[k]
      BY <2>5, <2>7, <3>2, <3>3 DEF WarningsAreTold
    <3>7. \A j, k \in DOMAIN alerts' : alerts'[j] = alerts'[k] => j = k
      BY <3>1, <3>2, <3>3 DEF ToldOnce
    <3> QED
      BY <2>1, <2>3, <2>4, <2>5, <3>2, <3>5, <3>6, <3>7 DEF WarningsAreTold, ToldOnce, Locked
  <2>9. CASE ~asking[a].queued
    <3>1. alerts' = alerts /\ (found = {} \/ \E k \in DOMAIN alerts : alerts[k] = found)
      BY <2>1, <2>2, <2>9 DEF Told
    <3>2. \A n \in DOMAIN warned' : warned'[n] # {} => \E k \in DOMAIN alerts' : alerts'[k] = warned'[n]
      <4>1. ASSUME NEW n \in DOMAIN warned', warned'[n] # {}
            PROVE  \E k \in DOMAIN alerts : alerts[k] = warned'[n]
        <5>1. CASE n \in DOMAIN warned
          BY <2>5, <4>1, <5>1 DEF WarningsAreTold
        <5>2. CASE n = Len(warned) + 1
          BY <2>5, <3>1, <4>1, <5>2
        <5> QED
          BY <2>6, <4>1, <5>1, <5>2
      <4> QED
        BY <3>1, <4>1
    <3>3. \A k \in DOMAIN alerts' : \E n \in DOMAIN warned' : warned'[n] = alerts'[k]
      BY <2>5, <2>7, <3>1 DEF WarningsAreTold
    <3>4. WarningsAreTold' /\ ToldOnce' /\ alerts' \in Seq(Found \cup {{}})
      BY <3>1, <3>2, <3>3 DEF WarningsAreTold, ToldOnce
    <3>5. \A b, c \in Asker : Locked(b)' /\ Locked(c)' => b = c
      BY <2>4 DEF Locked
    <3> QED
      BY <2>1, <2>3, <2>4, <2>5, <3>4, <3>5
  <2> QED
    BY <2>8, <2>9
<1>7. ASSUME NEW a \in Asker, FailWarning(a) PROVE SentimentInv'
  <2>1. /\ asking' = [asking EXCEPT ![a] = NotAsking] /\ UNCHANGED <<asked, report, warned, alerts>>
    BY <1>7 DEF FailWarning
  <2>2. /\ asking' \in [Asker -> Request] /\ asking'[a].pc = "idle"
        /\ \A b \in Asker : b # a => asking'[b] = asking[b]
    BY <2>1 DEF NotAsking, Request
  <2> QED
    BY <2>1, <2>2 DEF WarningsAreTold, ToldOnce, Locked, Told
<1>8. CASE UNCHANGED sentimentVars
  BY <1>8 DEF sentimentVars, Locked, WarningsAreTold, ToldOnce, Told
<1> QED
  BY <1>1, <1>2, <1>3, <1>4, <1>5, <1>6, <1>7, <1>8 DEF SentimentNext

\* One early warning at a time is past the lock, and what it read there stays true.
THEOREM SentimentAlways == SentimentSpec => []SentimentInv
<1>1. SentimentInv /\ UNCHANGED sentimentVars => SentimentInv'
  BY SentimentStep
<1> QED
  BY SentimentBegins, SentimentStep, PTL DEF SentimentSpec

\* What the inductive invariant says, as the run checks it.
LEMMA SentimentTells == SentimentInv => WarningsAreSound
<1> SUFFICES ASSUME SentimentInv PROVE WarningsAreSound
  OBVIOUS
<1>1. WithheldStaysSilent
  <2> DEFINE other(n, t) == [asked EXCEPT ![n].text = t]
             Silent(o) == /\ Analyse(o) = report
                          /\ \A p \in Periods : /\ EarlyWarnings(o, p) = EarlyWarnings(asked, p)
                                                /\ EarlyWarnings(p, o) = EarlyWarnings(p, asked)
  <2> SUFFICES ASSUME NEW n \in DOMAIN asked,
                      Cardinality(From(asked, asked[n].group)) < MinimumSize, NEW t \in Texts
               PROVE  Silent(other(n, t))
    BY Zenon DEF WithheldStaysSilent
  <2>1. asked # << >>
    OBVIOUS
  <2>2. asked \in Surveys /\ report = Analyse(asked)
    BY <2>1 DEF SentimentInv
  <2>3. Analyse(other(n, t)) = Analyse(asked)
    BY <2>2, WithheldAreSilent
  <2> HIDE DEF other
  <2> QED
    BY <2>2, <2>3, WarningsFollowReports
<1> QED
  BY <1>1 DEF SentimentInv, WarningsAreSound

\* What a group too small wrote changes no report and no early warning, and an early
\* warning in the ledger is told once, for any surveys, texts and askers.
THEOREM WarningsAlwaysSound == SentimentSpec => []WarningsAreSound
  BY SentimentAlways, SentimentTells, PTL

-----------------------------------------------------------------------------
\* Recursion over the naturals, as a statement about functions.

\* A function that starts with base and goes on with next: one for each length, they
\* agree, and so there is one on all naturals.
Begins(g, D, base, next, n) ==
  /\ g \in [0..n -> D] /\ g[0] = base
  /\ \A k \in 1..n : g[k] = next[<<k, g[k - 1]>>]

Continues(f, D, base, next) ==
  f \in [Nat -> D] /\ f[0] = base /\ \A k \in Nat \ {0} : f[k] = next[<<k, f[k - 1]>>]

LEMMA BeginningExists ==
  ASSUME NEW D, NEW base \in D, NEW next \in [Nat \X D -> D], NEW n \in Nat
  PROVE  \E g : Begins(g, D, base, next, n)
<1> DEFINE T == {k \in 0..n : \E g : Begins(g, D, base, next, k)}
<1>1. 0 \in T
  <2>1. Begins([k \in 0..0 |-> base], D, base, next, 0)
    BY DEF Begins
  <2> QED
    BY <2>1
<1>2. ASSUME NEW k \in 1..n, k - 1 \in T PROVE k \in T
  <2>1. PICK g : Begins(g, D, base, next, k - 1)
    BY <1>2
  <2> DEFINE h == [j \in 0..k |-> IF j = k THEN next[<<k, g[k - 1]>>] ELSE g[j]]
  <2>2. /\ g \in [0..(k - 1) -> D] /\ g[0] = base
        /\ \A j \in 1..(k - 1) : g[j] = next[<<j, g[j - 1]>>]
    BY <2>1 DEF Begins
  <2>3. k \in Nat /\ k - 1 \in 0..(k - 1) /\ g[k - 1] \in D
    BY <2>2
  <2>4. next[<<k, g[k - 1]>>] \in D
    BY <2>3
  <2>5. \A j \in 0..k : j # k => j \in 0..(k - 1)
    OBVIOUS
  <2>6. h \in [0..k -> D] /\ h[0] = base
    BY <2>2, <2>4, <2>5
  <2>7. ASSUME NEW j \in 1..k PROVE h[j] = next[<<j, h[j - 1]>>]
    <3>1. j \in 0..k /\ j - 1 \in 0..k /\ j - 1 # k /\ (j # k => j \in 1..(k - 1))
      OBVIOUS
    <3> QED
      BY <2>2, <3>1
  <2> HIDE DEF h
  <2>8. Begins(h, D, base, next, k)
    BY <2>6, <2>7 DEF Begins
  <2> QED
    BY <2>8
<1> HIDE DEF T
<1>3. n \in T
  BY <1>1, <1>2, Induction
<1> QED
  BY <1>3 DEF T

LEMMA BeginningsAgree ==
  ASSUME NEW D, NEW base, NEW next, NEW n \in Nat, NEW m \in Nat, n <= m,
         NEW g, Begins(g, D, base, next, n), NEW h, Begins(h, D, base, next, m)
  PROVE  \A k \in 0..n : g[k] = h[k]
<1> DEFINE T == {k \in 0..n : g[k] = h[k]}
<1>1. 0 \in T
  BY DEF Begins
<1>2. ASSUME NEW k \in 1..n, k - 1 \in T PROVE k \in T
  <2>1. k \in 1..m /\ k \in 0..n /\ g[k - 1] = h[k - 1]
    BY <1>2
  <2>2. g[k] = next[<<k, g[k - 1]>>] /\ h[k] = next[<<k, h[k - 1]>>]
    BY <2>1 DEF Begins
  <2> QED
    BY <2>1, <2>2
<1> HIDE DEF T
<1>3. \A k \in 0..n : k \in T
  BY <1>1, <1>2, Induction
<1> QED
  BY <1>3 DEF T

LEMMA RecursionExists ==
  ASSUME NEW D, NEW base \in D, NEW next \in [Nat \X D -> D]
  PROVE  \E f : Continues(f, D, base, next)
<1> DEFINE G(n) == CHOOSE g : Begins(g, D, base, next, n)
           f == [n \in Nat |-> G(n)[n]]
<1>1. \A n \in Nat : Begins(G(n), D, base, next, n)
  BY BeginningExists
<1> HIDE DEF G
<1>2. f \in [Nat -> D] /\ f[0] = base
  BY <1>1 DEF Begins
<1>3. ASSUME NEW k \in Nat \ {0} PROVE f[k] = next[<<k, f[k - 1]>>]
  <2>1. k \in Nat /\ k - 1 \in Nat /\ k \in 1..k /\ k - 1 <= k /\ k - 1 \in 0..(k - 1)
    OBVIOUS
  <2>2. Begins(G(k), D, base, next, k) /\ Begins(G(k - 1), D, base, next, k - 1)
    BY <1>1, <2>1
  <2>3. G(k)[k] = next[<<k, G(k)[k - 1]>>]
    BY <2>1, <2>2 DEF Begins
  <2>4. G(k - 1)[k - 1] = G(k)[k - 1]
    BY <2>1, <2>2, BeginningsAgree
  <2> QED
    BY <2>1, <2>3, <2>4
<1> HIDE DEF f
<1>4. Continues(f, D, base, next)
  BY <1>2, <1>3 DEF Continues
<1> QED
  BY <1>4

-----------------------------------------------------------------------------
\* Powers and sums are what their definitions say.
LEMMA PowerIs ==
  ASSUME NEW b \in Nat
  PROVE  /\ Power(b, 0) = 1
         /\ \A n \in Nat : Power(b, n) \in Nat /\ Power(b, n + 1) = b * Power(b, n)
         /\ b > 0 => \A n \in Nat : Power(b, n) > 0
<1> DEFINE next == [x \in Nat \X Nat |-> b * x[2]]
           S(f) == [k \in Nat |-> IF k = 0 THEN 1 ELSE b * f[k - 1]]
           p == CHOOSE f : f = S(f)
<1>1. next \in [Nat \X Nat -> Nat] /\ \A k, y \in Nat : next[<<k, y>>] = b * y
  OBVIOUS
<1> HIDE DEF next
<1>2. PICK f \in [Nat -> Nat] : f[0] = 1 /\ \A k \in Nat \ {0} : f[k] = next[<<k, f[k - 1]>>]
  <2>1. \E f : Continues(f, Nat, 1, next)
    BY <1>1, RecursionExists
  <2> QED
    BY <2>1 DEF Continues
<1>3. f = S(f)
  <2>1. \A k \in Nat \ {0} : k - 1 \in Nat /\ f[k - 1] \in Nat
    OBVIOUS
  <2>2. \A k \in Nat : f[k] = IF k = 0 THEN 1 ELSE b * f[k - 1]
    BY <1>1, <1>2, <2>1
  <2>3. f = [k \in Nat |-> f[k]]
    OBVIOUS
  <2> QED
    BY <2>2, <2>3
<1>4. p = S(p)
  BY <1>3
<1>5. \A n : Power(b, n) = p[n]
  BY DEF Power
<1> HIDE DEF p
<1>6. p[0] = 1 /\ \A n \in Nat : p[n + 1] = b * p[n]
  <2>1. \A n \in Nat : n + 1 \in Nat /\ n + 1 # 0 /\ (n + 1) - 1 = n
    OBVIOUS
  <2> QED
    BY <1>4, <2>1
<1>7. ASSUME NEW n \in Nat PROVE p[n] \in Nat /\ (b > 0 => p[n] > 0)
  <2> DEFINE T == {k \in 0..n : p[k] \in Nat /\ (b > 0 => p[k] > 0)}
  <2>1. 0 \in T
    BY <1>6
  <2>2. ASSUME NEW k \in 1..n, k - 1 \in T PROVE k \in T
    <3>1. k - 1 \in Nat /\ (k - 1) + 1 = k /\ p[k - 1] \in Nat /\ (b > 0 => p[k - 1] > 0)
      BY <2>2
    <3>2. p[k] = b * p[k - 1]
      BY <1>6, <3>1
    <3>3. \A x, y \in Nat : x * y \in Nat /\ (x > 0 /\ y > 0 => x * y > 0)
      OBVIOUS
    <3>4. k \in 0..n
      OBVIOUS
    <3> HIDE DEF p
    <3> QED
      BY <3>1, <3>2, <3>3, <3>4
  <2> HIDE DEF T
  <2>3. \A k \in 0..n : k \in T
    BY ONLY <2>1, <2>2, Induction
  <2> QED
    BY <2>3 DEF T
<1> QED
  BY <1>5, <1>6, <1>7

LEMMA SumIs ==
  ASSUME NEW v, NEW n \in Nat, \A k \in 1..n : v[k] \in Nat
  PROVE  /\ SumTo(v, 0) = 0
         /\ \A k \in 0..n : SumTo(v, k) \in Nat
         /\ \A k \in 1..n : SumTo(v, k) = SumTo(v, k - 1) + v[k]
<1> DEFINE next == [x \in Nat \X Nat |-> x[2] + (IF x[1] \in 1..n THEN v[x[1]] ELSE 0)]
           S(f, m) == [k \in 0..m |-> IF k = 0 THEN 0 ELSE f[k - 1] + v[k]]
<1>1. next \in [Nat \X Nat -> Nat] /\ \A k \in 1..n, y \in Nat : next[<<k, y>>] = y + v[k]
  OBVIOUS
<1> HIDE DEF next
<1>2. PICK f \in [Nat -> Nat] : f[0] = 0 /\ \A k \in Nat \ {0} : f[k] = next[<<k, f[k - 1]>>]
  <2>1. \E f : Continues(f, Nat, 0, next)
    BY <1>1, RecursionExists
  <2> QED
    BY <2>1 DEF Continues
<1>3. \A k \in 1..n : f[k] = f[k - 1] + v[k]
  <2> TAKE k \in 1..n
  <2>1. k \in Nat \ {0} /\ f[k - 1] \in Nat
    OBVIOUS
  <2> QED
    BY <1>1, <1>2, <2>1
<1>4. ASSUME NEW m \in 0..n PROVE SumTo(v, m) = f[m]
  <2> DEFINE g == [k \in 0..m |-> f[k]]
             s == CHOOSE h : h = S(h, m)
  <2>1. g = S(g, m)
    <3>1. ASSUME NEW k \in 0..m PROVE g[k] = IF k = 0 THEN 0 ELSE g[k - 1] + v[k]
      BY <1>2, <1>3
    <3>2. g = [k \in 0..m |-> g[k]]
      OBVIOUS
    <3> HIDE DEF g
    <3> QED
      BY <3>1, <3>2
  <2>2. s = S(s, m)
    BY <2>1
  <2>3. SumTo(v, m) = s[m]
    BY DEF SumTo
  <2> HIDE DEF s
  <2>4. s[0] = 0 /\ \A k \in 1..m : s[k] = s[k - 1] + v[k]
    <3>1. \A k \in 0..m : s[k] = IF k = 0 THEN 0 ELSE s[k - 1] + v[k]
      BY <2>2
    <3>2. 0 \in 0..m /\ \A k \in 1..m : k \in 0..m /\ k # 0
      OBVIOUS
    <3> QED
      BY <3>1, <3>2
  <2> DEFINE T == {k \in 0..m : s[k] = f[k]}
  <2>5. 0 \in T
    BY <1>2, <2>4
  <2>6. ASSUME NEW k \in 1..m, k - 1 \in T PROVE k \in T
    BY <1>3, <2>4, <2>6
  <2> HIDE DEF T
  <2>7. \A k \in 0..m : k \in T
    <3>1. m \in Nat
      OBVIOUS
    <3> QED
      BY ONLY <2>5, <2>6, <3>1, Induction
  <2> QED
    BY <2>3, <2>7 DEF T
<1> QED
  BY <1>2, <1>3, <1>4

\* A sum of naturals is one.
LEMMA SumNat ==
  ASSUME NEW v, NEW n \in Nat, \A k \in 1..n : v[k] \in Nat
  PROVE  SumTo(v, n) \in Nat
<1>1. n \in 0..n
  OBVIOUS
<1> QED
  BY <1>1, SumIs

\* A sum is at most another when its values are, and less when one of them is less.
LEMMA SumAtMost ==
  ASSUME NEW v, NEW w, NEW n \in Nat,
         \A k \in 1..n : v[k] \in Nat /\ w[k] \in Nat /\ v[k] <= w[k]
  PROVE  /\ SumTo(v, n) <= SumTo(w, n)
         /\ (\E k \in 1..n : v[k] < w[k]) => SumTo(v, n) < SumTo(w, n)
<1> DEFINE Less(m) == \E k \in 1..m : v[k] < w[k]
           T == {m \in 0..n : /\ SumTo(v, m) <= SumTo(w, m)
                              /\ Less(m) => SumTo(v, m) < SumTo(w, m)}
<1>1. 0 \in T
  <2>1. SumTo(v, 0) = 0 /\ SumTo(w, 0) = 0 /\ ~Less(0)
    BY SumIs
  <2> QED
    BY <2>1
<1>2. ASSUME NEW m \in 1..n, m - 1 \in T PROVE m \in T
  <2> DEFINE a == SumTo(v, m - 1)
             b == SumTo(w, m - 1)
  <2>1. /\ a \in Nat /\ SumTo(v, m) = a + v[m]
        /\ b \in Nat /\ SumTo(w, m) = b + w[m]
    BY SumIs
  <2>2. a <= b /\ (Less(m - 1) => a < b)
    BY <1>2
  <2>3. v[m] \in Nat /\ w[m] \in Nat /\ v[m] <= w[m]
    OBVIOUS
  <2>4. Less(m) => Less(m - 1) \/ v[m] < w[m]
    OBVIOUS
  <2> HIDE DEF a, b, Less
  <2> QED
    BY <2>1, <2>2, <2>3, <2>4
<1> HIDE DEF T
<1>3. n \in T
  BY <1>1, <1>2, Induction
<1> QED
  BY <1>3 DEF T

\* Equal values have equal sums.
LEMMA SumSame ==
  ASSUME NEW v, NEW w, NEW n \in Nat, \A k \in 1..n : v[k] \in Nat /\ v[k] = w[k]
  PROVE  SumTo(v, n) = SumTo(w, n)
<1>1. SumTo(v, n) <= SumTo(w, n) /\ SumTo(w, n) <= SumTo(v, n)
  BY SumAtMost
<1>2. SumTo(v, n) \in Nat /\ SumTo(w, n) \in Nat
  BY SumIs
<1> QED
  BY <1>1, <1>2

\* Values in one proportion have sums in that proportion.
LEMMA SumScales ==
  ASSUME NEW v, NEW w, NEW n \in Nat, NEW a \in Nat, NEW b \in Nat,
         \A k \in 1..n : v[k] \in Nat /\ w[k] \in Nat /\ a * v[k] = b * w[k]
  PROVE  a * SumTo(v, n) = b * SumTo(w, n)
<1> DEFINE T == {m \in 0..n : a * SumTo(v, m) = b * SumTo(w, m)}
<1>1. 0 \in T
  <2>1. SumTo(v, 0) = 0 /\ SumTo(w, 0) = 0
    BY SumIs
  <2> QED
    BY <2>1
<1>2. ASSUME NEW m \in 1..n, m - 1 \in T PROVE m \in T
  <2> DEFINE x == SumTo(v, m - 1)
             y == SumTo(w, m - 1)
  <2>1. /\ x \in Nat /\ SumTo(v, m) = x + v[m]
        /\ y \in Nat /\ SumTo(w, m) = y + w[m]
    BY SumIs
  <2>2. a * x = b * y /\ v[m] \in Nat /\ w[m] \in Nat /\ a * v[m] = b * w[m]
    BY <1>2
  <2> HIDE DEF x, y
  <2>3. \A c, p, q \in Nat : c * (p + q) = c * p + c * q
    OBVIOUS
  <2>4. a * (x + v[m]) = a * x + a * v[m] /\ b * (y + w[m]) = b * y + b * w[m]
    BY <2>1, <2>2, <2>3
  <2> QED
    BY <2>1, <2>2, <2>4
<1> HIDE DEF T
<1>3. \A m \in 0..n : m \in T
  BY ONLY <1>1, <1>2, Induction
<1> QED
  BY <1>3 DEF T

\* The last m of n + m values can be summed apart.
LEMMA SumSplits ==
  ASSUME NEW v, NEW n \in Nat, NEW m \in Nat, \A k \in 1..(n + m) : v[k] \in Nat,
         NEW w, \A k \in 1..m : w[k] = v[n + k]
  PROVE  SumTo(v, n + m) = SumTo(v, n) + SumTo(w, m)
<1>1. ASSUME NEW k \in 1..m PROVE w[k] \in Nat
  BY n + k \in 1..(n + m)
<1> DEFINE T == {k \in 0..m : SumTo(v, n + k) = SumTo(v, n) + SumTo(w, k)}
<1>2. 0 \in T
  <2>1. SumTo(v, n) \in Nat /\ SumTo(w, 0) = 0 /\ n + 0 = n
    BY <1>1, SumIs
  <2> QED
    BY <2>1
<1>3. ASSUME NEW k \in 1..m, k - 1 \in T PROVE k \in T
  <2>1. n + k \in 1..(n + m) /\ (n + k) - 1 = n + (k - 1) /\ w[k] = v[n + k]
    OBVIOUS
  <2>2. SumTo(v, n + k) = SumTo(v, n + (k - 1)) + v[n + k]
    BY <2>1, SumIs
  <2>3. SumTo(w, k) = SumTo(w, k - 1) + w[k] /\ SumTo(w, k - 1) \in Nat /\ w[k] \in Nat
    BY <1>1, SumIs
  <2>4. SumTo(v, n + (k - 1)) = SumTo(v, n) + SumTo(w, k - 1) /\ SumTo(v, n) \in Nat
    BY <1>3, SumIs
  <2> QED
    BY <2>1, <2>2, <2>3, <2>4
<1> HIDE DEF T
<1>4. m \in T
  BY <1>2, <1>3, Induction
<1> QED
  BY <1>4 DEF T

-----------------------------------------------------------------------------
\* Matches and their order.

\* What evidence says is a level, and more evidence never says less.
LEMMA LevelIs ==
  ASSUME NEW p, NEW s
  PROVE  Level(p, s) \in 0..4
BY DEF Level, FromEvidence, NONE, AWARENESS, WORKING, PRACTITIONER, EXPERT

LEMMA EvidenceIsMonotone ==
  ASSUME NEW m \in Nat, NEW n \in Nat, NEW y \in Nat, NEW z \in Nat, m <= n, y <= z
  PROVE  FromEvidence(m, y) <= FromEvidence(n, z)
BY DEF FromEvidence, NONE, AWARENESS, WORKING, PRACTITIONER, EXPERT

\* A profile that misses nothing scores in full, and one that misses something less, as
\* long as the role asks for fewer than twenty levels.
LEMMA MatchIs ==
  ASSUME NEW p, NEW r \in Roles
  PROVE  LET m == Match(p, r) IN
         /\ m.score \in Nat /\ m.of \in Nat /\ m.ready \in BOOLEAN
         /\ m.score <= m.of
         /\ m.ready => m.score = m.of
         /\ ~m.ready /\ m.of < 2000 => m.score < m.of
<1> DEFINE q == r.requirements
           n == Len(q)
           v == [i \in DOMAIN q |-> q[i].required]
           w == [i \in DOMAIN q |-> Covered(p, q[i])]
           missed == {i \in DOMAIN q : Level(p, q[i].skill) < q[i].required}
           A == SumTo(v, n)
           E == SumTo(w, n)
           a == Adjacency(p, r)
<1>1. q \in Seq(Requirement) /\ n \in Nat /\ DOMAIN q = 1..n
  BY SkillsAssumption
<1>2. \A i \in 1..n : q[i].required \in 1..4
  <2>1. \A i \in 1..n : q[i] \in Requirement
    BY <1>1
  <2> QED
    BY <2>1 DEF Requirement, AWARENESS, EXPERT
<1>3. \A i \in 1..n : /\ v[i] \in Nat /\ w[i] \in Nat /\ w[i] <= v[i]
                      /\ i \in missed <=> w[i] < v[i]
  <2> TAKE i \in 1..n
  <2>1. Level(p, q[i].skill) \in 0..4 /\ q[i].required \in 1..4
    BY <1>2, LevelIs
  <2>2. v[i] = q[i].required /\ w[i] = Covered(p, q[i])
    BY <1>1
  <2>3. i \in missed <=> Level(p, q[i].skill) < q[i].required
    BY <1>1
  <2> QED
    BY <2>1, <2>2, <2>3 DEF Covered
<1>4. (missed = {}) => w = v
  <2> SUFFICES ASSUME missed = {} PROVE w = v
    OBVIOUS
  <2>1. w = [i \in 1..n |-> w[i]] /\ v = [i \in 1..n |-> v[i]]
    BY <1>1
  <2> HIDE DEF v, w, missed
  <2>2. \A i \in 1..n : w[i] = v[i]
    BY <1>3
  <2> QED
    BY <2>1, <2>2
<1>5. (missed # {}) => \E i \in 1..n : w[i] < v[i]
  BY <1>1, <1>3
<1>6. A = Available(r) /\ E = Earned(p, r) /\ (missed = {} <=> ReadyNow(p, r))
  BY DEF Available, Earned, ReadyNow, Shorts
<1> HIDE DEF q, n, v, w, missed
<1>7. A \in Nat /\ E \in Nat /\ E <= A
  BY <1>1, <1>3, SumNat, SumAtMost
<1>8. (missed = {} => E = A) /\ (missed # {} => E < A)
  BY <1>1, <1>3, <1>4, <1>5, SumAtMost
<1>9. a \in {0, 5}
  BY DEF Adjacency
<1> HIDE DEF A, E, a
<1> DEFINE full == 100 * A
           score == 100 * E + a * A
<1>10. MatchScore(p, r) = IF score < full THEN score ELSE full
  BY <1>6 DEF MatchScore, a
<1>11. /\ Match(p, r).score = MatchScore(p, r) /\ Match(p, r).of = full
       /\ Match(p, r).ready <=> missed = {}
       /\ Match(p, r).ready \in BOOLEAN
  BY <1>6 DEF Match, ReadyNow
<1>12. score \in Nat /\ full \in Nat /\ score >= 100 * E /\ score <= 100 * E + 5 * A
  BY <1>7, <1>9
<1>13. missed = {} => score >= full
  BY <1>7, <1>8, <1>12
<1>14. missed # {} /\ full < 2000 => score < full
  BY <1>7, <1>8, <1>12
<1> HIDE DEF score, full
<1> QED
  BY <1>10, <1>11, <1>12, <1>13, <1>14

\* Two entries at most come out of the sort: turned round when the second goes first.
LEMMA SortedByIs ==
  ASSUME NEW ms, NEW n \in 0..2, DOMAIN ms = 1..n, NEW before,
         \A i, j \in 1..n : ~(<<i, j>> \in before /\ <<j, i>> \in before)
  PROVE  LET sorted == SortedBy(ms, before) IN
         /\ DOMAIN sorted = 1..n
         /\ n = 1 => sorted[1] = ms[1]
         /\ n = 2 /\ <<2, 1>> \in before => sorted[1] = ms[2] /\ sorted[2] = ms[1]
         /\ n = 2 /\ <<2, 1>> \notin before => sorted[1] = ms[1] /\ sorted[2] = ms[2]
<1> DEFINE Ahead(i) == {j \in DOMAIN ms : <<j, i>> \in before \/ (j < i /\ <<i, j>> \notin before)}
           Place(i) == Cardinality(Ahead(i)) + 1
           sorted == [k \in DOMAIN ms |-> ms[CHOOSE i \in DOMAIN ms : Place(i) = k]]
<1>1. SortedBy(ms, before) = sorted
  BY DEF SortedBy
<1>2. \A k \in {1, 2} : /\ Ahead(k) = {} => Cardinality(Ahead(k)) = 0
                        /\ Ahead(k) = {1} => Cardinality(Ahead(k)) = 1
                        /\ Ahead(k) = {2} => Cardinality(Ahead(k)) = 1
  <2> HIDE DEF Ahead
  <2> QED
    BY FS_EmptySet, FS_Singleton
<1>3. CASE n = 0
  BY <1>1, <1>3
<1>4. CASE n = 1
  <2>1. DOMAIN ms = {1}
    BY <1>4
  <2>2. Ahead(1) = {}
    BY <1>4, <2>1
  <2> HIDE DEF Ahead
  <2>3. Place(1) = 1
    BY <1>2, <2>2
  <2> HIDE DEF Place
  <2>4. (CHOOSE i \in DOMAIN ms : Place(i) = 1) = 1
    BY <2>1, <2>3
  <2>5. DOMAIN sorted = 1..n /\ sorted[1] = ms[1]
    BY <1>4, <2>1, <2>4
  <2> QED
    BY <1>1, <1>4, <2>5
<1>5. ASSUME n = 2, NEW k \in 1..2, NEW l \in 1..2, k # l, Place(k) = 1, Place(l) = 2
      PROVE  sorted[1] = ms[k] /\ sorted[2] = ms[l]
  <2>1. DOMAIN ms = {k, l} /\ 1 \in DOMAIN ms /\ 2 \in DOMAIN ms
    BY <1>5
  <2> HIDE DEF Place
  <2>2. (CHOOSE i \in DOMAIN ms : Place(i) = 1) = k /\ (CHOOSE i \in DOMAIN ms : Place(i) = 2) = l
    <3>1. \A i \in DOMAIN ms : (Place(i) = 1 <=> i = k) /\ (Place(i) = 2 <=> i = l)
      BY <1>5, <2>1
    <3> QED
      BY <2>1, <3>1
  <2> QED
    BY <2>1, <2>2
<1>6. CASE n = 2 /\ <<2, 1>> \in before
  <2>1. Ahead(2) = {} /\ Ahead(1) = {2}
    BY <1>6
  <2> HIDE DEF Ahead
  <2>2. Place(2) = 1 /\ Place(1) = 2
    BY <1>2, <2>1
  <2> HIDE DEF Place
  <2> QED
    BY <1>1, <1>5, <1>6, <2>2
<1>7. CASE n = 2 /\ <<2, 1>> \notin before
  <2>1. Ahead(1) = {} /\ Ahead(2) = {1}
    BY <1>7
  <2> HIDE DEF Ahead
  <2>2. Place(1) = 1 /\ Place(2) = 2
    BY <1>2, <2>1
  <2> HIDE DEF Place
  <2> QED
    BY <1>1, <1>5, <1>7, <2>2
<1> QED
  BY <1>3, <1>4, <1>6, <1>7

\* At most two matches are listed, each one of the two.
LEMMA QualifyingIs ==
  ASSUME NEW one, NEW two, NEW minimum
  PROVE  LET ms == Qualifying(one, two, minimum) IN
         \E n \in 0..2 : DOMAIN ms = 1..n /\ \A i \in 1..n : ms[i] \in {one, two}
<1>1. Reaching(one, minimum) \in {<< >>, <<one>>} /\ Reaching(two, minimum) \in {<< >>, <<two>>}
  BY DEF Reaching
<1> DEFINE Short(ms) == \E n \in 0..2 : DOMAIN ms = 1..n /\ \A i \in 1..n : ms[i] \in {one, two}
<1>2. Short(<< >> \o << >>)
  OBVIOUS
<1>3. Short(<<one>> \o << >>)
  OBVIOUS
<1>4. Short(<< >> \o <<two>>)
  OBVIOUS
<1>5. Short(<<one>> \o <<two>>)
  OBVIOUS
<1> HIDE DEF Short
<1>6. Short(Qualifying(one, two, minimum))
  BY <1>1, <1>2, <1>3, <1>4, <1>5 DEF Qualifying
<1> QED
  BY <1>6 DEF Short

\* What the sort keeps of one or two matches: whoever is listed second did not go first.
LEMMA SecondIsNotAhead ==
  ASSUME NEW ms, NEW n \in 0..2, DOMAIN ms = 1..n, NEW before,
         \A i, j \in 1..n : ~(<<i, j>> \in before /\ <<j, i>> \in before)
  PROVE  LET sorted == SortedBy(ms, before) IN
         /\ DOMAIN sorted = 1..n
         /\ \A i \in 1..n : \E k \in 1..n : sorted[i] = ms[k]
         /\ \A i, j \in 1..n : i < j =>
              \E k, l \in 1..n : sorted[i] = ms[k] /\ sorted[j] = ms[l] /\ <<l, k>> \notin before
<1> DEFINE sorted == SortedBy(ms, before)
<1>1. /\ DOMAIN sorted = 1..n
      /\ n = 1 => sorted[1] = ms[1]
      /\ n = 2 /\ <<2, 1>> \in before => sorted[1] = ms[2] /\ sorted[2] = ms[1]
      /\ n = 2 /\ <<2, 1>> \notin before => sorted[1] = ms[1] /\ sorted[2] = ms[2]
  BY SortedByIs
<1> HIDE DEF sorted
<1>2. \A i \in 1..n : n \in {1, 2} /\ (i = 1 \/ (i = 2 /\ n = 2)) /\ 1 \in 1..n
  OBVIOUS
<1>3. \A i, j \in 1..n : i < j => i = 1 /\ j = 2 /\ n = 2 /\ 1 \in 1..n /\ 2 \in 1..n
  OBVIOUS
<1>4. ASSUME NEW i \in 1..n PROVE \E k \in 1..n : sorted[i] = ms[k]
  BY <1>1, <1>2
<1>5. ASSUME NEW i \in 1..n, NEW j \in 1..n, i < j
      PROVE  \E k, l \in 1..n : sorted[i] = ms[k] /\ sorted[j] = ms[l] /\ <<l, k>> \notin before
  <2>1. i = 1 /\ j = 2 /\ n = 2 /\ 1 \in 1..n /\ 2 \in 1..n
    BY <1>3, <1>5
  <2>2. CASE <<2, 1>> \in before
    <3>1. sorted[1] = ms[2] /\ sorted[2] = ms[1] /\ <<1, 2>> \notin before
      BY <1>1, <2>1, <2>2
    <3> QED
      BY <2>1, <3>1
  <2>3. CASE <<2, 1>> \notin before
    BY <1>1, <2>1, <2>3
  <2> QED
    BY <2>2, <2>3
<1> QED
  BY <1>1, <1>4, <1>5 DEF sorted

\* Among an employee's roles the ready ones are listed first and score in full.
LEMMA RolesAreRanked ==
  ASSUME NEW p, NEW r \in Roles, NEW q \in Roles, NEW minimum
  PROVE  LET ranked == Ranked(Qualifying(Match(p, r), Match(p, q), minimum)) IN
         \A i, j \in DOMAIN ranked :
           /\ ranked[j].ready => ranked[j].score = ranked[j].of
           /\ i < j /\ ranked[j].ready => ranked[i].ready
<1> DEFINE ms == Qualifying(Match(p, r), Match(p, q), minimum)
           before == {x \in Places(ms) : ByReadiness(ms[x[1]], ms[x[2]])}
           ranked == SortedBy(ms, before)
<1>1. PICK n \in 0..2 : DOMAIN ms = 1..n /\ \A i \in 1..n : ms[i] \in {Match(p, r), Match(p, q)}
  BY QualifyingIs
<1>2. Ranked(ms) = ranked
  BY DEF Ranked
<1> HIDE DEF ms
<1>3. \A i \in 1..n : /\ ms[i].score \in Nat /\ ms[i].of \in Nat /\ ms[i].ready \in BOOLEAN
                      /\ ms[i].ready => ms[i].score = ms[i].of
  <2>1. \A m \in {Match(p, r), Match(p, q)} : /\ m.score \in Nat /\ m.of \in Nat
                                              /\ m.ready \in BOOLEAN
                                              /\ m.ready => m.score = m.of
    BY MatchIs
  <2> QED
    BY <1>1, <2>1
<1>4. \A i, j \in 1..n : <<i, j>> \in before <=> ByReadiness(ms[i], ms[j])
  BY <1>1 DEF Places
<1> HIDE DEF before
<1>5. ASSUME NEW i \in 1..n, NEW j \in 1..n
      PROVE  ~(<<i, j>> \in before /\ <<j, i>> \in before)
  <2> DEFINE x == ms[i].score * ms[j].of
             y == ms[j].score * ms[i].of
  <2>1. x \in Nat /\ y \in Nat
    BY <1>3
  <2>2. (ByScore(ms[i], ms[j]) <=> x > y) /\ (ByScore(ms[j], ms[i]) <=> y > x)
    BY DEF ByScore
  <2> HIDE DEF x, y
  <2>3. ~(ByScore(ms[i], ms[j]) /\ ByScore(ms[j], ms[i]))
    BY <2>1, <2>2
  <2> QED
    BY <1>3, <1>4, <2>3 DEF ByReadiness
<1>6. /\ DOMAIN ranked = 1..n
      /\ \A i \in 1..n : \E k \in 1..n : ranked[i] = ms[k]
      /\ \A i, j \in 1..n : i < j =>
           \E k, l \in 1..n : ranked[i] = ms[k] /\ ranked[j] = ms[l] /\ <<l, k>> \notin before
  BY <1>1, <1>5, SecondIsNotAhead
<1> HIDE DEF ranked
<1>7. ASSUME NEW j \in DOMAIN ranked, ranked[j].ready PROVE ranked[j].score = ranked[j].of
  <2>1. PICK k \in 1..n : ranked[j] = ms[k]
    BY <1>6
  <2> QED
    BY <1>3, <1>7, <2>1
<1>8. ASSUME NEW i \in DOMAIN ranked, NEW j \in DOMAIN ranked, i < j, ranked[j].ready
      PROVE  ranked[i].ready
  <2>1. PICK k, l \in 1..n : ranked[i] = ms[k] /\ ranked[j] = ms[l] /\ <<l, k>> \notin before
    BY <1>6, <1>8
  <2>2. ~ByReadiness(ms[l], ms[k])
    BY <1>4, <2>1
  <2> QED
    BY <1>3, <1>8, <2>1, <2>2 DEF ByReadiness
<1> QED
  BY <1>2, <1>7, <1>8 DEF ms

\* A candidate who misses nothing is not listed after one who misses something.
LEMMA CandidatesAreRanked ==
  ASSUME NEW p, NEW q, NEW r \in Roles, NEW minimum
  PROVE  LET ranked == RankedByScore(Qualifying(Match(p, r), Match(q, r), minimum)) IN
         \A i, j \in DOMAIN ranked :
           i < j /\ ranked[j].ready /\ ranked[j].of < 2000 => ranked[i].ready
<1> DEFINE ms == Qualifying(Match(p, r), Match(q, r), minimum)
           before == {x \in Places(ms) : ByScore(ms[x[1]], ms[x[2]])}
           ranked == SortedBy(ms, before)
           of == 100 * Available(r)
<1>1. PICK n \in 0..2 : DOMAIN ms = 1..n /\ \A i \in 1..n : ms[i] \in {Match(p, r), Match(q, r)}
  BY QualifyingIs
<1>2. RankedByScore(ms) = ranked
  BY DEF RankedByScore
<1> HIDE DEF ms
<1>3. \A m \in {Match(p, r), Match(q, r)} :
        /\ m.score \in Nat /\ m.of = of /\ of \in Nat /\ m.ready \in BOOLEAN
        /\ m.ready => m.score = of
        /\ ~m.ready /\ of < 2000 => m.score < of
  <2>1. Match(p, r).of = of /\ Match(q, r).of = of
    BY DEF Match
  <2> HIDE DEF of
  <2> QED
    BY <2>1, MatchIs
<1> HIDE DEF of
<1>4. \A i \in 1..n : /\ ms[i].score \in Nat /\ ms[i].of = of /\ of \in Nat /\ ms[i].ready \in BOOLEAN
                      /\ ms[i].ready => ms[i].score = of
                      /\ ~ms[i].ready /\ of < 2000 => ms[i].score < of
  BY <1>1, <1>3
<1>5. \A i, j \in 1..n : <<i, j>> \in before <=> ByScore(ms[i], ms[j])
  BY <1>1 DEF Places
<1> HIDE DEF before
<1>6. ASSUME NEW i \in 1..n, NEW j \in 1..n
      PROVE  ByScore(ms[i], ms[j]) <=> ms[i].score * of > ms[j].score * of
  BY <1>4 DEF ByScore
<1>7. ASSUME NEW i \in 1..n, NEW j \in 1..n
      PROVE  ~(<<i, j>> \in before /\ <<j, i>> \in before)
  <2> DEFINE x == ms[i].score * of
             y == ms[j].score * of
  <2>1. x \in Nat /\ y \in Nat
    BY <1>4
  <2>2. (<<i, j>> \in before <=> x > y) /\ (<<j, i>> \in before <=> y > x)
    BY <1>5, <1>6
  <2> HIDE DEF x, y
  <2> QED
    BY <2>1, <2>2
<1>8. /\ DOMAIN ranked = 1..n
      /\ \A i, j \in 1..n : i < j =>
           \E k, l \in 1..n : ranked[i] = ms[k] /\ ranked[j] = ms[l] /\ <<l, k>> \notin before
  BY <1>1, <1>7, SecondIsNotAhead
<1> HIDE DEF ranked
<1>9. ASSUME NEW i \in DOMAIN ranked, NEW j \in DOMAIN ranked, i < j, ranked[j].ready,
             ranked[j].of < 2000
      PROVE  ranked[i].ready
  <2>1. PICK k, l \in 1..n : ranked[i] = ms[k] /\ ranked[j] = ms[l] /\ <<l, k>> \notin before
    BY <1>8, <1>9
  <2>2. ~(ms[l].score * of > ms[k].score * of)
    BY <1>5, <1>6, <2>1
  <2>3. ms[l].score = of /\ of < 2000 /\ of \in Nat
    BY <1>4, <1>9, <2>1
  <2>4. ASSUME ~ms[k].ready PROVE FALSE
    <3>1. ms[k].score \in Nat /\ ms[k].score < of
      BY <1>4, <2>3, <2>4
    <3>2. \A a, b, c \in Nat : a < b /\ c > 0 => b * c > a * c
      OBVIOUS
    <3>3. of * of > ms[k].score * of
      BY <2>3, <3>1, <3>2
    <3> QED
      BY <2>2, <2>3, <3>3
  <2> QED
    BY <1>4, <2>1, <2>4
<1> QED
  BY <1>2, <1>9 DEF ms

\* What is forecast: covered when those who stay cover it, and never more than one short
\* of the truth.
LEMMA ForecastIs ==
  ASSUME NEW team \in Teams, NEW required \in AWARENESS..EXPERT, NEW demand \in Nat,
         NEW rate \in Attrition
  PROVE  LET staying == Qualified(team, required) * (RateParts - rate)
             shortfall == Shortfall(demand, Retained(Qualified(team, required), rate)) IN
         /\ shortfall = 0 => staying >= RateParts * demand
         /\ shortfall > 0 => staying < RateParts * (demand + 1)
<1> DEFINE counted == [l \in AWARENESS..EXPERT |-> IF l >= required THEN team[l] ELSE 0]
           qualified == Qualified(team, required)
           staying == qualified * (RateParts - rate)
           lost == IF <<qualified, rate>> \in RoundedDown THEN 1 ELSE 0
           whole == staying \div RateParts
<1>1. /\ RateParts \in Nat /\ RateParts > 0 /\ rate \in 0..(RateParts - 1)
      /\ team \in [0..4 -> Nat]
  BY SkillsAssumption DEF Proficiency, NONE, EXPERT
<1>2. qualified \in Nat
  <2>1. \A l \in 1..4 : counted[l] \in Nat
    BY <1>1 DEF AWARENESS, EXPERT
  <2> HIDE DEF counted
  <2>2. SumTo(counted, 4) \in Nat
    BY <2>1, SumNat
  <2> QED
    BY <2>2 DEF Qualified, EXPERT, counted
<1> HIDE DEF qualified
<1>3. staying \in Nat
  <2>1. \A x, y \in Nat : x * y \in Nat
    OBVIOUS
  <2>2. RateParts - rate \in Nat
    BY <1>1
  <2> QED
    BY <1>2, <2>1, <2>2
<1>5. Retained(qualified, rate) = whole - lost /\ lost \in {0, 1}
  BY DEF Retained
<1> HIDE DEF staying, lost
<1>6. whole \in Nat /\ RateParts * whole <= staying /\ staying < RateParts * (whole + 1)
  BY <1>1, <1>3
<1> HIDE DEF whole
<1> DEFINE supply == Retained(qualified, rate)
<1>7. supply \in Int /\ supply <= whole /\ whole <= supply + 1
  BY <1>5, <1>6
<1> HIDE DEF supply
<1>8. /\ Shortfall(demand, supply) = 0 => demand <= supply
      /\ Shortfall(demand, supply) > 0 => demand > supply
  BY <1>7 DEF Shortfall
<1>9. Shortfall(demand, supply) = 0 => staying >= RateParts * demand
  <2> SUFFICES ASSUME Shortfall(demand, supply) = 0 PROVE staying >= RateParts * demand
    OBVIOUS
  <2>1. demand <= whole
    BY <1>6, <1>7, <1>8
  <2>2. RateParts * demand <= RateParts * whole /\ RateParts * demand \in Nat
    BY <1>1, <1>6, <2>1, Times
  <2> QED
    BY <1>1, <1>3, <1>6, <2>2
<1>10. Shortfall(demand, supply) > 0 => staying < RateParts * (demand + 1)
  <2> SUFFICES ASSUME Shortfall(demand, supply) > 0 PROVE staying < RateParts * (demand + 1)
    OBVIOUS
  <2>1. whole + 1 <= demand + 1 /\ whole + 1 \in Nat /\ demand + 1 \in Nat
    BY <1>6, <1>7, <1>8
  <2>2. RateParts * (whole + 1) <= RateParts * (demand + 1)
    BY <1>1, <2>1, Times
  <2>3. RateParts * (whole + 1) \in Nat /\ RateParts * (demand + 1) \in Nat
    BY <1>1, <2>1
  <2> QED
    BY <1>3, <1>6, <2>2, <2>3
<1> QED
  BY <1>9, <1>10 DEF supply, staying, qualified

\* Every step answers or is answered, and every answer keeps its promise.
LEMMA AnswersAreSound ==
  ASSUME SkillsNext
  PROVE  MatchesAreSound'
<1> USE DEF MatchesAreSound, MoreEvidenceNeverHurts, CoveredIsCovered, ReadyRolesFirst,
            BestCandidateFirst
<1>1. CASE ExtractSkills
  <2>1. PICK p \in Profiles :
          skills' = [pc |-> "extracted", profile |-> p, levels |-> [s \in Known(p) |-> Level(p, s)]]
    BY <1>1 DEF ExtractSkills
  <2>2. skills'.pc = "extracted" /\ skills'.profile = p
        /\ skills'.levels = [s \in Known(p) |-> Level(p, s)]
    BY <2>1
  <2>3. ASSUME NEW s \in Skill, NEW m \in Mentions, NEW y \in Years, p[s].mentions <= m,
               p[s].years <= y, s \in DOMAIN skills'.levels
        PROVE  skills'.levels[s] <= FromEvidence(m, y)
    <3>1. p[s].mentions \in Nat /\ p[s].years \in Nat /\ m \in Nat /\ y \in Nat
      BY SkillsAssumption
    <3>2. skills'.levels[s] = Level(p, s)
      BY <2>2, <2>3
    <3> QED
      BY <2>3, <3>1, <3>2, EvidenceIsMonotone DEF Level
  <2> QED
    BY <2>2, <2>3
<1>2. CASE ForecastGap
  <2>1. PICK team \in Teams, required \in AWARENESS..EXPERT, demand \in Needs, rate \in Attrition :
          skills' = Forecast(team, required, demand, rate)
    BY <1>2 DEF ForecastGap
  <2>2. /\ skills'.pc = "forecast" /\ skills'.team = team /\ skills'.required = required
        /\ skills'.demand = demand /\ skills'.rate = rate
        /\ skills'.shortfall = Shortfall(demand, Retained(Qualified(team, required), rate))
    BY <2>1 DEF Forecast
  <2>3. demand \in Nat
    BY SkillsAssumption
  <2> QED
    BY <2>2, <2>3, ForecastIs
<1>3. CASE RankRoles
  <2>1. PICK p \in Profiles, r \in Roles, q \in Roles, minimum \in Minimums :
          skills' = [pc |-> "roles",
                     matches |-> Ranked(Qualifying(Match(p, r), Match(p, q), minimum))]
    BY <1>3 DEF RankRoles
  <2>2. /\ skills'.pc = "roles"
        /\ skills'.matches = Ranked(Qualifying(Match(p, r), Match(p, q), minimum))
    BY <2>1
  <2> QED
    BY <2>2, RolesAreRanked
<1>4. CASE RankCandidates
  <2>1. PICK p \in Profiles, q \in Profiles, r \in Roles, minimum \in Minimums :
          skills' = [pc |-> "candidates",
                     matches |-> RankedByScore(Qualifying(Match(p, r), Match(q, r), minimum))]
    BY <1>4 DEF RankCandidates
  <2>2. /\ skills'.pc = "candidates"
        /\ skills'.matches = RankedByScore(Qualifying(Match(p, r), Match(q, r), minimum))
    BY <2>1
  <2> QED
    BY <2>2, CandidatesAreRanked
<1>5. CASE AnswerSkills
  BY <1>5 DEF AnswerSkills, NoSkills
<1> QED
  BY <1>1, <1>2, <1>3, <1>4, <1>5 DEF SkillsNext

\* Levels, gaps and matches keep their promises in every state, for any evidence, teams,
\* attrition rates and products that doubles round down, and for roles of at most twenty
\* levels: more evidence never counts for less, what is called covered is covered, and who
\* is ready comes first (taxonomy.py, mobility.py).
THEOREM MatchesAlwaysSound ==
  SkillsSpec => []MatchesAreSound
<1>1. SkillsInit => MatchesAreSound
  BY DEF SkillsInit, NoSkills, MatchesAreSound, MoreEvidenceNeverHurts, CoveredIsCovered,
         ReadyRolesFirst, BestCandidateFirst
<1>2. MatchesAreSound /\ [SkillsNext]_skillsVars => MatchesAreSound'
  <2>1. CASE SkillsNext
    BY <2>1, AnswersAreSound
  <2>2. CASE UNCHANGED skillsVars
    BY <2>2 DEF skillsVars, MatchesAreSound, MoreEvidenceNeverHurts, CoveredIsCovered,
                ReadyRolesFirst, BestCandidateFirst
  <2> QED
    BY <2>1, <2>2
<1> QED
  BY <1>1, <1>2, PTL DEF SkillsSpec

-----------------------------------------------------------------------------
\* The simulation of a plan.

\* What is left of n people: a whole number in every month, of which the next month takes
\* its share without a remainder.
LEMMA LeftIs ==
  ASSUME NEW n \in Nat, NEW r \in 0..3, NEW m \in 0..MaxMonths
  PROVE  /\ Left(n, r, m) \in Nat /\ Left(n, r, 0) = n * Unit /\ Unit \in Nat
         /\ m < MaxMonths => 4 * Left(n, r, m + 1) = (4 - r) * Left(n, r, m)
<1>1. MaxMonths \in Nat /\ 4 - r \in Nat /\ m \in Nat /\ MaxMonths - m \in Nat
  BY WorkforceAssumption
<1> DEFINE a == Power(4 - r, m)
           b == Power(4, MaxMonths - m)
           c == 4 - r
           d == Power(4, MaxMonths - (m + 1))
<1>2. a \in Nat /\ b \in Nat /\ Power(4, MaxMonths) \in Nat
  BY <1>1, PowerIs
<1>3. Power(c, 0) = 1 /\ Power(c, m + 1) = c * a
  BY <1>1, PowerIs
<1>4. Left(n, r, m) = n * Lot * (a * b) /\ Left(n, r, m + 1) = n * Lot * (c * a * d)
  BY <1>3 DEF Left
<1>0. Lot \in Nat
  BY WorkforceAssumption
<1>5. \A x, y, z \in Nat : x * y \in Nat /\ x * (y * z) = (x * y) * z
  OBVIOUS
<1>6. Left(n, r, m) \in Nat
  <2> HIDE DEF a, b
  <2> QED
    BY <1>0, <1>2, <1>4, <1>5
<1>7. Left(n, r, 0) = n * Unit /\ Unit \in Nat
  <2> DEFINE e == Power(4, MaxMonths)
  <2>1. Left(n, r, 0) = n * Lot * (1 * e) /\ Unit = Lot * e
    BY <1>1, <1>3 DEF Left, Unit
  <2> HIDE DEF e
  <2> QED
    BY <1>0, <1>2, <1>5, <2>1 DEF e
<1>8. ASSUME m < MaxMonths PROVE 4 * Left(n, r, m + 1) = (4 - r) * Left(n, r, m)
  <2>1. MaxMonths - (m + 1) \in Nat /\ (MaxMonths - (m + 1)) + 1 = MaxMonths - m
    BY <1>1, <1>8
  <2>2. d \in Nat /\ b = 4 * d
    BY <2>1, PowerIs
  <2>3. c \in Nat
    BY <1>1
  <2> HIDE DEF a, b, c, d
  <2>4. \A u, v, w, x, y \in Nat : 4 * (v * u * (w * x * y)) = w * (v * u * (x * (4 * y)))
    OBVIOUS
  <2>5. 4 * (n * Lot * (c * a * d)) = c * (n * Lot * (a * (4 * d)))
    BY <1>0, <1>2, <2>2, <2>3, <2>4
  <2> QED
    BY <1>4, <2>2, <2>5 DEF c
<1> QED
  BY <1>6, <1>7, <1>8

\* Rounded to thousandths, a number of whole people or more is still as many.
LEMMA RoundedIs ==
  ASSUME NEW n \in Nat, NEW t \in Nat
  PROVE  /\ Rounded(n) \in Nat
         /\ n >= t * Unit => Rounded(n) >= 1000 * t
<1> DEFINE x == 2000 * n + Unit
           y == 2 * Unit
           q == x \div y
<1>1. Unit \in Nat /\ Unit > 0
  <2>1. Lot \in Nat /\ Lot > 0 /\ MaxMonths \in Nat
    BY WorkforceAssumption
  <2>2. Power(4, MaxMonths) \in Nat /\ Power(4, MaxMonths) > 0
    BY <2>1, PowerIs
  <2>3. \A a, b \in Nat : a * b \in Nat /\ (a > 0 /\ b > 0 => a * b > 0)
    OBVIOUS
  <2> QED
    BY <2>1, <2>2, <2>3 DEF Unit
<1>2. x \in Nat /\ y \in Nat /\ y > 0
  BY <1>1
<1>3. q \in Nat /\ x < y * (q + 1)
  <2> HIDE DEF x, y
  <2> QED
    BY <1>2
<1>4. Rounded(n) = q
  BY DEF Rounded
<1> HIDE DEF q
<1>5. ASSUME n >= t * Unit PROVE q >= 1000 * t
  <2>1. t * Unit \in Nat /\ (1000 * t) * y = 2000 * (t * Unit)
    BY <1>1
  <2>2. (1000 * t) * y <= x
    BY <1>1, <1>5, <2>1
  <2> HIDE DEF x, y
  <2>3. y * (q + 1) = (q + 1) * y /\ (q + 1) * y \in Nat /\ (1000 * t) * y \in Nat
    BY <1>2, <1>3
  <2>4. (1000 * t) * y < (q + 1) * y
    BY <1>2, <1>3, <2>2, <2>3
  <2>5. 1000 * t < q + 1
    BY <1>2, <1>3, <2>4, Divides
  <2> QED
    BY <1>3, <2>5
<1> QED
  BY <1>3, <1>4, <1>5

LEMMA StayIs ==
  ASSUME NEW p, NEW r \in 0..3, p.rate = r, NEW x \in Nat, NEW y \in Nat, 4 * y = (4 - r) * x
  PROVE  Stay(x, p) = y
<1>1. Stay(x, p) = (x * (4 - r)) \div 4
  BY DEF Stay
<1>2. x * (4 - r) = 4 * y
  OBVIOUS
<1>3. (4 * y) \div 4 = y
  OBVIOUS
<1> QED
  BY <1>1, <1>2, <1>3

\* The headcount in closed form is that of the loop, month by month, and at least those
\* hired last.
LEMMA HeadsAre ==
  ASSUME NEW s \in Nat, NEW r \in 0..3, NEW h \in Nat, NEW m \in 0..MaxMonths
  PROVE  /\ Heads(s, r, h, m) \in Nat /\ Heads(s, r, h, 0) = s * Unit
         /\ m > 0 => Heads(s, r, h, m) >= h * Unit
         /\ m < MaxMonths =>
              \E y \in Nat : /\ 4 * y = (4 - r) * Heads(s, r, h, m)
                             /\ Heads(s, r, h, m + 1) = y + h * Unit
<1>1. MaxMonths \in Nat
  BY WorkforceAssumption
<1> DEFINE V(n) == [j \in 1..n |-> Left(h, r, n - j)]
<1>2. ASSUME NEW n \in 0..MaxMonths, NEW j \in 1..n
      PROVE  V(n)[j] = Left(h, r, n - j) /\ V(n)[j] \in Nat /\ n - j \in 0..MaxMonths
  <2>1. n - j \in 0..MaxMonths
    BY <1>1
  <2> QED
    BY <2>1, LeftIs
<1>3. \A n : Heads(s, r, h, n) = Left(s, r, n) + SumTo(V(n), n)
  BY DEF Heads
<1> HIDE DEF V
<1>4. Left(s, r, m) \in Nat /\ Unit \in Nat /\ Left(s, r, 0) = s * Unit /\ Left(h, r, 0) = h * Unit
  BY LeftIs
<1>5. SumTo(V(m), m) \in Nat /\ SumTo(V(0), 0) = 0
  <2>1. m \in Nat /\ m \in 0..m /\ 0 \in Nat /\ 0 \in 0..MaxMonths
    BY <1>1
  <2> QED
    BY <1>2, <2>1, SumIs
<1>6. s * Unit \in Nat /\ h * Unit \in Nat
  BY <1>4
<1>7. ASSUME m > 0 PROVE Heads(s, r, h, m) >= h * Unit
  <2>1. m \in Nat /\ m \in 1..m /\ m - 1 \in 0..m /\ m - m = 0
    BY <1>1, <1>7
  <2>2. SumTo(V(m), m) = SumTo(V(m), m - 1) + V(m)[m] /\ SumTo(V(m), m - 1) \in Nat
    BY <1>2, <2>1, SumIs
  <2>3. V(m)[m] = h * Unit
    BY <1>2, <1>4, <2>1
  <2> QED
    BY <1>3, <1>4, <1>6, <2>2, <2>3
<1>8. ASSUME m < MaxMonths
      PROVE  \E y \in Nat : /\ 4 * y = (4 - r) * Heads(s, r, h, m)
                            /\ Heads(s, r, h, m + 1) = y + h * Unit
  <2> DEFINE n == m + 1
             w == V(n)
             a == Left(s, r, n)
             b == SumTo(w, m)
  <2>1. /\ m \in Nat /\ n \in 0..MaxMonths /\ n \in Nat /\ n \in 1..n /\ n - 1 = m /\ n - n = 0
        /\ \A j \in 1..m : j \in 1..n /\ n - j = (m - j) + 1 /\ m - j < MaxMonths
    BY <1>1, <1>8
  <2>2. \A j \in 1..n : w[j] \in Nat /\ w[j] = Left(h, r, n - j)
    BY <1>2, <2>1
  <2>3. SumTo(w, n) = b + w[n] /\ b \in Nat
    <3>1. m \in 0..n
      BY <2>1
    <3> HIDE DEF n, w
    <3> QED
      BY <2>1, <2>2, <3>1, SumIs
  <2>4. w[n] = h * Unit
    BY <1>4, <2>1, <2>2
  <2>5. a \in Nat /\ 4 * a = (4 - r) * Left(s, r, m)
    BY <1>8, <2>1, LeftIs
  <2>6. 4 * b = (4 - r) * SumTo(V(m), m)
    <3>1. 4 \in Nat /\ 4 - r \in Nat
      OBVIOUS
    <3>2. ASSUME NEW j \in 1..m
          PROVE  w[j] \in Nat /\ V(m)[j] \in Nat /\ 4 * w[j] = (4 - r) * V(m)[j]
      <4>1. V(m)[j] = Left(h, r, m - j) /\ V(m)[j] \in Nat /\ m - j \in 0..MaxMonths
        BY <1>2
      <4>2. w[j] \in Nat /\ w[j] = Left(h, r, (m - j) + 1)
        BY <2>1, <2>2
      <4>3. 4 * Left(h, r, (m - j) + 1) = (4 - r) * Left(h, r, m - j)
        BY <2>1, <4>1, LeftIs
      <4> QED
        BY <4>1, <4>2, <4>3
    <3> HIDE DEF w
    <3> QED
      BY <2>1, <3>1, <3>2, SumScales
  <2> HIDE DEF a, b, w
  <2>7. \A c, x, y \in Nat : c * (x + y) = c * x + c * y
    OBVIOUS
  <2>8. 4 - r \in Nat /\ a + b \in Nat
    BY <2>3, <2>5
  <2>9. 4 * (a + b) = (4 - r) * Heads(s, r, h, m)
    <3>1. 4 * (a + b) = 4 * a + 4 * b
      BY <2>3, <2>5
    <3>2. (4 - r) * (Left(s, r, m) + SumTo(V(m), m))
             = (4 - r) * Left(s, r, m) + (4 - r) * SumTo(V(m), m)
      BY <1>4, <1>5, <2>7, <2>8
    <3> QED
      BY <1>3, <2>5, <2>6, <3>1, <3>2
  <2>10. Heads(s, r, h, m + 1) = (a + b) + h * Unit
    <3>1. Heads(s, r, h, m + 1) = a + (b + h * Unit)
      BY <1>3, <2>3, <2>4 DEF a, w
    <3> QED
      BY <1>6, <2>3, <2>5, <3>1
  <2> QED
    BY <2>8, <2>9, <2>10
<1> QED
  BY <1>3, <1>4, <1>5, <1>6, <1>7, <1>8

LEMMA HeadsMove ==
  ASSUME NEW s \in Nat, NEW r \in 0..3, NEW h \in Nat, NEW m \in 0..MaxMonths, m < MaxMonths
  PROVE  \E y \in Nat : 4 * y = (4 - r) * Heads(s, r, h, m) /\ Heads(s, r, h, m + 1) = y + h * Unit
BY HeadsAre

\* The cohorts that still ramp after m months of hiring h a month: the last ones, each
\* thinned by the months since.
StillIn(ramp, m) == IF ramp < m THEN ramp ELSE m

CohortsOf(rate, ramp, h, m) ==
  IF h = 0 THEN << >>
  ELSE [i \in 1..StillIn(ramp, m) |->
          [started |-> (m - StillIn(ramp, m)) + i, count |-> Left(h, rate, StillIn(ramp, m) - i)]]

LEMMA CohortsMove ==
  ASSUME NEW p, p.rate \in 0..3, p.ramp \in Nat, p.trial \in Nat, NEW m \in 0..MaxMonths,
         m < MaxMonths, p.ramping = CohortsOf(p.rate, p.ramp, p.trial, m)
  PROVE  Ramping(p, m + 1, Thinned(p) \o Hired(p, m + 1))
           = CohortsOf(p.rate, p.ramp, p.trial, m + 1)
<1> DEFINE rate == p.rate
           ramp == p.ramp
           h == p.trial
           K == StillIn(ramp, m)
           L == StillIn(ramp, m + 1)
           all == Thinned(p) \o Hired(p, m + 1)
           over == {i \in DOMAIN all : ~StillRamping(p, m + 1, all[i].started)}
<1>1. MaxMonths \in Nat /\ m \in Nat
  BY WorkforceAssumption
<1>2. K \in 0..m /\ K <= ramp /\ (K = ramp \/ (K = m /\ m < ramp))
  BY <1>1 DEF StillIn
<1>3. (K = ramp => L = K) /\ (K = m /\ m < ramp => L = K + 1)
  BY <1>1 DEF StillIn
<1>4. CASE h = 0
  <2>1. Thinned(p) = << >> /\ Hired(p, m + 1) = << >>
    BY <1>4 DEF Thinned, Hired, CohortsOf
  <2>2. all = << >>
    BY <2>1
  <2>3. Ramping(p, m + 1, all) = SubSeq(all, Cardinality(over) + 1, Len(all))
    BY DEF Ramping
  <2> HIDE DEF all
  <2>4. over = {}
    BY <2>2
  <2> HIDE DEF over
  <2>5. Cardinality(over) + 1 = 1 /\ Len(all) = 0
    BY <2>2, <2>4, FS_EmptySet
  <2>6. SubSeq(<< >>, 1, 0) = << >>
    OBVIOUS
  <2>7. Ramping(p, m + 1, all) = << >>
    BY <2>2, <2>3, <2>5, <2>6
  <2> QED
    BY <1>4, <2>7 DEF CohortsOf, all
<1>5. CASE h # 0
  <2> DEFINE At(i) == [started |-> (m - K) + i, count |-> Left(h, rate, (K + 1) - i)]
  <2>1. /\ DOMAIN p.ramping = 1..K
        /\ \A i \in 1..K : p.ramping[i] = [started |-> (m - K) + i, count |-> Left(h, rate, K - i)]
    BY <1>5 DEF CohortsOf
  <2>2. Thinned(p) = [i \in 1..K |-> At(i)]
    <3>1. ASSUME NEW i \in 1..K
          PROVE  [p.ramping[i] EXCEPT !.count = Stay(@, p)] = At(i)
      <4>1. K - i \in 0..MaxMonths /\ K - i < MaxMonths /\ (K - i) + 1 = (K + 1) - i
        BY <1>1, <1>2
      <4>2. 4 * Left(h, rate, (K + 1) - i) = (4 - rate) * Left(h, rate, K - i)
        <5>1. 4 * Left(h, rate, (K - i) + 1) = (4 - rate) * Left(h, rate, K - i)
          BY <4>1, LeftIs
        <5> QED
          BY <4>1, <5>1
      <4>3. (K + 1) - i \in 0..MaxMonths
        BY <1>1, <1>2
      <4>4. Left(h, rate, (K + 1) - i) \in Nat /\ Left(h, rate, K - i) \in Nat
        BY <4>1, <4>3, LeftIs
      <4>5. Stay(Left(h, rate, K - i), p) = Left(h, rate, (K + 1) - i)
        BY <4>2, <4>4, StayIs
      <4> DEFINE started == (m - K) + i
                 x == Left(h, rate, K - i)
                 y == Left(h, rate, (K + 1) - i)
      <4>6. p.ramping[i] = [started |-> started, count |-> x]
        BY <2>1
      <4> HIDE DEF started, x, y
      <4>7. [[started |-> started, count |-> x] EXCEPT !.count = Stay(@, p)]
              = [started |-> started, count |-> Stay(x, p)]
        OBVIOUS
      <4>8. At(i) = [started |-> started, count |-> y] /\ Stay(x, p) = y
        BY <4>5 DEF started, x, y
      <4> QED
        BY ONLY <4>6, <4>7, <4>8
    <3> HIDE DEF At
    <3> QED
      BY <2>1, <3>1 DEF Thinned
  <2>3. Hired(p, m + 1) = <<At(K + 1)>>
    <3>1. Left(h, rate, 0) = h * Unit
      BY LeftIs
    <3>2. (K + 1) - (K + 1) = 0 /\ (m - K) + (K + 1) = m + 1
      BY <1>1, <1>2
    <3>3. At(K + 1) = [started |-> m + 1, count |-> h * Unit]
      BY <3>1, <3>2
    <3> HIDE DEF At
    <3> QED
      BY <1>5, <3>3 DEF Hired
  <2>4. Len(all) = K + 1 /\ DOMAIN all = 1..(K + 1) /\ \A i \in 1..(K + 1) : all[i] = At(i)
    <3>1. K \in Nat
      BY <1>1, <1>2
    <3> DEFINE thinned == [i \in 1..K |-> At(i)]
               last == At(K + 1)
    <3>2. Len(thinned) = K /\ DOMAIN thinned = 1..K /\ \A i \in 1..K : thinned[i] = At(i)
      BY <3>1
    <3>3. all = Append(thinned, last)
      <4> HIDE DEF At, K
      <4>1. thinned \in Seq({At(i) : i \in 1..(K + 1)}) /\ last \in {At(i) : i \in 1..(K + 1)}
        BY <3>1
      <4> HIDE DEF thinned, last
      <4>2. thinned \o <<last>> = Append(thinned, last)
        BY <4>1
      <4> QED
        BY <2>2, <2>3, <4>2 DEF thinned, last
    <3> DEFINE S == {At(i) : i \in 1..(K + 1)}
    <3> HIDE DEF At, K, all
    <3>4. thinned \in Seq(S) /\ last \in S
      BY <3>1
    <3> HIDE DEF thinned, last, S
    <3>5. /\ Len(all) = K + 1 /\ DOMAIN all = 1..(K + 1)
          /\ \A i \in 1..K : all[i] = thinned[i]
          /\ all[K + 1] = last
      <4>1. /\ Append(thinned, last) \in Seq(S) /\ Len(Append(thinned, last)) = Len(thinned) + 1
            /\ \A i \in 1..Len(thinned) : Append(thinned, last)[i] = thinned[i]
            /\ Append(thinned, last)[Len(thinned) + 1] = last
        BY <3>4, AppendProperties
      <4>2. all \in Seq(S) /\ Len(all) = K + 1
        BY <3>2, <3>3, <4>1
      <4> QED
        BY <3>2, <3>3, <4>1, <4>2, LenProperties
    <3>6. \A i \in 1..(K + 1) : i \in 1..K \/ i = K + 1
      BY <3>1
    <3> QED
      BY <3>2, <3>5, <3>6 DEF last
  <2>5. \A i \in 1..(K + 1) : i \in over <=> (ramp = 0 \/ (K + 1) - i >= ramp)
    <3> TAKE i \in 1..(K + 1)
    <3> HIDE DEF all
    <3>1. all[i].started = (m - K) + i /\ i \in DOMAIN all
      BY <2>4
    <3>2. (m + 1) - ((m - K) + i) = (K + 1) - i
      BY <1>1, <1>2
    <3>3. (K + 1) - i \in Int /\ ramp \in Int
      BY <1>1, <1>2
    <3> HIDE DEF K
    <3> QED
      BY <3>1, <3>2, <3>3 DEF StillRamping
  <2>6. \A i \in over : i \in 1..(K + 1)
    BY <2>4
  <2> DEFINE cut == SubSeq(all, Cardinality(over) + 1, Len(all))
  <2>7. Ramping(p, m + 1, all) = cut
    BY DEF Ramping
  <2>8. CohortsOf(rate, ramp, h, m + 1)
          = [i \in 1..L |-> [started |-> ((m + 1) - L) + i, count |-> Left(h, rate, L - i)]]
    BY <1>5 DEF CohortsOf
  <2>9. CASE K = ramp
    <3>1. over = {1}
      <4>1. ASSUME NEW i \in 1..(K + 1) PROVE i \in over <=> i = 1
        <5> HIDE DEF over
        <5>1. K \in Nat /\ ramp \in Nat /\ K = ramp
          BY <1>1, <1>2, <2>9
        <5>2. i \in over <=> (ramp = 0 \/ (K + 1) - i >= ramp)
          BY <2>5
        <5> HIDE DEF K, ramp
        <5>3. (ramp = 0 \/ (K + 1) - i >= ramp) <=> i = 1
          BY <5>1
        <5> QED
          BY <5>2, <5>3
      <4>2. 1 \in 1..(K + 1)
        BY <1>1, <1>2
      <4> HIDE DEF over
      <4> QED
        BY <2>6, <4>1, <4>2
    <3>2. Cardinality({1}) = 1
      BY FS_Singleton
    <3>3. cut = SubSeq(all, 2, K + 1)
      <4>1. Cardinality(over) + 1 = 2 /\ Len(all) = K + 1
        <5> HIDE DEF over, all
        <5> QED
          BY <2>4, <3>1, <3>2
      <4> HIDE DEF over, all
      <4> QED
        BY <4>1
    <3>4. SubSeq(all, 2, K + 1) = [i \in 1..K |-> all[i + 1]]
      <4>1. K \in Nat /\ 1 + (K + 1) - 2 = K /\ \A i \in 1..K : i + 2 - 1 = i + 1
        BY <1>1, <1>2
      <4> HIDE DEF K, all
      <4> QED
        BY <4>1
    <3>5. ASSUME NEW i \in 1..K
          PROVE  all[i + 1] = [started |-> ((m + 1) - L) + i, count |-> Left(h, rate, L - i)]
      <4>1. i + 1 \in 1..(K + 1) /\ (m - K) + (i + 1) = ((m + 1) - L) + i /\ (K + 1) - (i + 1) = L - i
        BY <1>1, <1>2, <1>3, <2>9
      <4>2. all[i + 1] = [started |-> (m - K) + (i + 1), count |-> Left(h, rate, (K + 1) - (i + 1))]
        BY <2>4, <4>1
      <4> QED
        BY <4>1, <4>2
    <3>6. L = K
      BY <1>3, <2>9
    <3> DEFINE Cohort(i) == [started |-> ((m + 1) - L) + i, count |-> Left(h, rate, L - i)]
    <3> HIDE DEF K, L, all, cut, Cohort
    <3>7. [i \in 1..K |-> all[i + 1]] = [i \in 1..L |-> Cohort(i)]
      BY <3>5, <3>6 DEF Cohort
    <3> QED
      BY <2>7, <2>8, <3>3, <3>4, <3>7 DEF Cohort, all
  <2>10. CASE K = m /\ m < ramp
    <3>1. over = {}
      <4>1. \A i \in 1..(K + 1) : i \notin over
        BY <1>1, <1>2, <2>5, <2>10
      <4> HIDE DEF over
      <4> QED
        BY <2>6, <4>1
    <3>2. Cardinality({}) = 0
      BY FS_EmptySet
    <3>3. cut = SubSeq(all, 1, K + 1)
      <4>1. Cardinality(over) + 1 = 1 /\ Len(all) = K + 1
        <5> HIDE DEF over, all
        <5> QED
          BY <2>4, <3>1, <3>2
      <4> HIDE DEF over, all
      <4> QED
        BY <4>1
    <3>4. SubSeq(all, 1, K + 1) = [i \in 1..(K + 1) |-> all[i]]
      <4>1. K \in Nat /\ 1 + (K + 1) - 1 = K + 1 /\ \A i \in 1..(K + 1) : i + 1 - 1 = i
        BY <1>1, <1>2
      <4> HIDE DEF K, all
      <4> QED
        BY <4>1
    <3>5. ASSUME NEW i \in 1..(K + 1)
          PROVE  all[i] = [started |-> ((m + 1) - L) + i, count |-> Left(h, rate, L - i)]
      <4>1. (m - K) + i = ((m + 1) - L) + i /\ (K + 1) - i = L - i
        BY <1>1, <1>2, <1>3, <2>10
      <4>2. all[i] = [started |-> (m - K) + i, count |-> Left(h, rate, (K + 1) - i)]
        BY <2>4
      <4> QED
        BY <4>1, <4>2
    <3>6. L = K + 1
      BY <1>3, <2>10
    <3> DEFINE Cohort(i) == [started |-> ((m + 1) - L) + i, count |-> Left(h, rate, L - i)]
    <3> HIDE DEF K, L, all, cut, Cohort
    <3>7. [i \in 1..(K + 1) |-> all[i]] = [i \in 1..L |-> Cohort(i)]
      BY <3>5, <3>6 DEF Cohort
    <3> QED
      BY <2>7, <2>8, <3>3, <3>4, <3>7 DEF Cohort, all
  <2> QED
    BY <1>2, <2>9, <2>10
<1> QED
  BY <1>4, <1>5

\* Those who do not ramp and the cohorts that do are everybody, once.
LEMMA CapacityIs ==
  ASSUME NEW p, p.ramp \in Nat, NEW s \in Nat, NEW rate \in 0..3, NEW h \in Nat,
         NEW m \in 1..MaxMonths
  PROVE  /\ PartOf(p, m, CohortsOf(rate, p.ramp, h, m))
              + Tenured(Heads(s, rate, h, m), CohortsOf(rate, p.ramp, h, m))
              = Capacity(s, rate, p.ramp, h, m)
         /\ Capacity(s, rate, p.ramp, h, m) \in Nat
<1> DEFINE ramp == p.ramp
           cohorts == CohortsOf(rate, ramp, h, m)
           v == [j \in 1..m |-> Left(h, rate, m - j)]
           u == [j \in 1..m |-> Worth(rate, ramp, h, m - j)]
           K == IF h = 0 THEN 0 ELSE StillIn(ramp, m)
           c == [i \in DOMAIN cohorts |-> cohorts[i].count]
           w == [i \in DOMAIN cohorts |-> (cohorts[i].count * (m - cohorts[i].started)) \div p.ramp]
           a == Left(s, rate, m)
<1>1. MaxMonths \in Nat /\ m \in Nat /\ m \in 0..MaxMonths
  BY WorkforceAssumption
<1>2. K \in 0..m /\ K <= ramp /\ K \in Nat /\ m - K \in Nat /\ (m - K) + K = m
  BY <1>1 DEF StillIn
<1>3. /\ DOMAIN cohorts = 1..K /\ Len(cohorts) = K
      /\ \A i \in 1..K : /\ cohorts[i].started = (m - K) + i
                         /\ cohorts[i].count = Left(h, rate, K - i)
  <2>1. CASE h = 0
    <3>1. cohorts = << >> /\ K = 0
      BY <2>1 DEF CohortsOf
    <3> HIDE DEF K
    <3> QED
      BY <3>1
  <2>2. CASE h # 0
    <3>1. cohorts = [i \in 1..K |-> [started |-> (m - K) + i, count |-> Left(h, rate, K - i)]]
      BY <2>2 DEF CohortsOf
    <3> HIDE DEF K
    <3> QED
      BY <1>2, <3>1
  <2> QED
    BY <2>1, <2>2
<1>4. \A j \in 0..m : Left(h, rate, j) \in Nat /\ Worth(rate, ramp, h, j) \in Nat
  <2> TAKE j \in 0..m
  <2>1. j \in 0..MaxMonths /\ j \in Nat
    BY <1>1
  <2>2. Left(h, rate, j) \in Nat
    BY <2>1, LeftIs
  <2>3. Left(h, rate, j) * j \in Nat
    BY <2>1, <2>2
  <2>4. ASSUME NEW x \in Nat, ramp # 0 PROVE x \div ramp \in Nat
    BY <2>4
  <2>5. Worth(rate, ramp, h, j) \in Nat
    BY <2>2, <2>3, <2>4 DEF Worth
  <2> QED
    BY <2>2, <2>5
<1>5. \A j \in 1..m : /\ m - j \in 0..m
                      /\ v[j] = Left(h, rate, m - j) /\ v[j] \in Nat
                      /\ u[j] = Worth(rate, ramp, h, m - j) /\ u[j] \in Nat
  <2>1. \A j \in 1..m : m - j \in 0..m
    BY <1>1
  <2> QED
    BY <1>4, <2>1
<1>6. \A i \in 1..K : c[i] = v[(m - K) + i] /\ w[i] = u[(m - K) + i]
  <2> TAKE i \in 1..K
  <2>1. (m - K) + i \in 1..m /\ m - ((m - K) + i) = K - i /\ ramp # 0 /\ ~(K - i >= ramp)
    BY <1>1, <1>2
  <2>2. cohorts[i].started = (m - K) + i /\ cohorts[i].count = Left(h, rate, K - i) /\ i \in DOMAIN cohorts
    BY <1>3
  <2>3. v[(m - K) + i] = Left(h, rate, K - i) /\ u[(m - K) + i] = Worth(rate, ramp, h, K - i)
    BY <1>5, <2>1
  <2>4. Worth(rate, ramp, h, K - i) = (Left(h, rate, K - i) * (K - i)) \div ramp
    BY <2>1 DEF Worth
  <2>5. c[i] = cohorts[i].count /\ w[i] = (cohorts[i].count * (m - cohorts[i].started)) \div ramp
    BY <2>2
  <2> HIDE DEF K, c, w, v, u
  <2> QED
    BY <2>1, <2>2, <2>3, <2>4, <2>5
<1>7. \A j \in 1..(m - K) : j \in 1..m /\ u[j] = v[j]
  <2> TAKE j \in 1..(m - K)
  <2>1. j \in 1..m /\ m - j >= K
    BY <1>1, <1>2
  <2>2. CASE h = 0
    <3>1. Left(h, rate, m - j) = 0
      <4>1. 4 - rate \in Nat /\ m - j \in Nat /\ MaxMonths - (m - j) \in Nat
        BY <1>1, <2>1
      <4>2. Power(4 - rate, m - j) \in Nat /\ Power(4, MaxMonths - (m - j)) \in Nat
        BY <4>1, PowerIs
      <4>3. \A n, x, y \in Nat : 0 * n * (x * y) = 0
        OBVIOUS
      <4>4. Lot \in Nat
        BY WorkforceAssumption
      <4> QED
        BY <2>2, <4>2, <4>3, <4>4 DEF Left
    <3>2. ramp # 0 => (0 * (m - j)) \div ramp = 0
      BY <2>1
    <3>3. Worth(rate, ramp, h, m - j) = 0
      BY <3>1, <3>2 DEF Worth
    <3> QED
      BY <1>5, <2>1, <3>1, <3>3
  <2>3. CASE h # 0
    <3>1. m - j >= ramp
      BY <1>1, <2>1, <2>3 DEF StillIn
    <3> QED
      BY <1>5, <2>1, <3>1 DEF Worth
  <2> QED
    BY <2>2, <2>3
<1> DEFINE V == SumTo(v, m - K)
           C == SumTo(c, K)
           W == SumTo(w, K)
<1>8. /\ Heads(s, rate, h, m) = a + SumTo(v, m) /\ CountOf(cohorts) = C
      /\ Capacity(s, rate, ramp, h, m) = a + SumTo(u, m) /\ PartOf(p, m, cohorts) = W
  BY <1>3 DEF Heads, Capacity, CountOf, PartOf
<1>9. a \in Nat
  BY <1>1, LeftIs
<1> HIDE DEF cohorts, v, u, c, w, K, a
<1>10. SumTo(v, m) = V + C /\ SumTo(u, m) = SumTo(u, m - K) + W
  BY <1>2, <1>5, <1>6, SumSplits
<1>11. SumTo(u, m - K) = V
  BY <1>2, <1>5, <1>7, SumSame
<1>12. V \in Nat /\ C \in Nat /\ W \in Nat
  <2>1. ASSUME NEW i \in 1..K PROVE c[i] \in Nat /\ w[i] \in Nat
    <3>1. (m - K) + i \in 1..m
      BY <1>2
    <3> QED
      BY <1>5, <1>6, <3>1
  <2>2. \A j \in 1..(m - K) : v[j] \in Nat
    BY <1>5, <1>7
  <2>3. m - K \in 0..(m - K) /\ K \in 0..K
    BY <1>2
  <2>4. V \in Nat
    BY <1>2, <2>2, <2>3, SumIs
  <2> QED
    BY <1>2, <2>1, <2>3, <2>4, SumIs
<1> HIDE DEF V, C, W
<1> DEFINE headcount == Heads(s, rate, h, m)
           capacity == Capacity(s, rate, ramp, h, m)
           tenured == IF headcount > C THEN headcount - C ELSE 0
<1>13. headcount = a + (V + C) /\ capacity = a + (V + W)
  BY <1>8, <1>10, <1>11
<1> HIDE DEF headcount, capacity
<1>14. tenured = a + V
  BY ONLY <1>9, <1>12, <1>13
<1>15. W + (a + V) = a + (V + W) /\ a + (V + W) \in Nat
  BY ONLY <1>9, <1>12
<1> QED
  BY <1>8, <1>13, <1>14, <1>15 DEF headcount, capacity, cohorts, Tenured

LEMMA CohortsAreYoung ==
  ASSUME NEW rate \in 0..3, NEW ramp \in Nat, NEW h \in Nat, NEW m \in 0..MaxMonths,
         NEW cohorts, cohorts = CohortsOf(rate, ramp, h, m)
  PROVE  Len(cohorts) <= ramp /\ \A i \in DOMAIN cohorts : m - cohorts[i].started < ramp
<1> DEFINE K == StillIn(ramp, m)
<1>1. m \in Nat /\ K \in 0..m /\ K <= ramp
  BY WorkforceAssumption DEF StillIn
<1>2. CASE h = 0
  BY <1>2 DEF CohortsOf
<1>3. CASE h # 0
  <2>1. cohorts = [i \in 1..K |-> [started |-> (m - K) + i, count |-> Left(h, rate, K - i)]]
    BY <1>3 DEF CohortsOf
  <2> HIDE DEF K
  <2>2. Len(cohorts) = K /\ DOMAIN cohorts = 1..K
    BY <1>1, <2>1
  <2>3. ASSUME NEW i \in 1..K PROVE m - cohorts[i].started < ramp
    <3>1. cohorts[i].started = (m - K) + i
      BY <2>1
    <3> QED
      BY <1>1, <3>1
  <2> QED
    BY <1>1, <2>2, <2>3
<1> QED
  BY <1>2, <1>3

\* What a month and a new trial change of a plan, and what they leave.
PlanFields ==
  {"pc", "starting", "rate", "hires", "ramp", "demand", "months", "target", "solved", "answer",
   "shortfall", "trial", "month", "headcount", "ramping", "capacity", "first"}

SameScenario(q, p) ==
  /\ q.starting = p.starting /\ q.rate = p.rate /\ q.ramp = p.ramp /\ q.demand = p.demand
  /\ q.months = p.months /\ q.target = p.target /\ q.solved = p.solved

LEMMA FreshIs ==
  ASSUME NEW p, DOMAIN p = PlanFields, NEW h, NEW q, q = Fresh(p, h)
  PROVE  /\ DOMAIN q = PlanFields /\ SameScenario(q, p) /\ q.pc = p.pc /\ q.answer = p.answer
         /\ q.trial = h /\ q.month = 0 /\ q.headcount = p.starting * Unit
         /\ q.ramping = << >> /\ q.capacity = 0 /\ q.first = 0
BY DEF Fresh, PlanFields, SameScenario

LEMMA MonthIs ==
  ASSUME NEW p, DOMAIN p = PlanFields, NEW q, q = Month(p)
  PROVE  LET m == p.month + 1 IN
         /\ DOMAIN q = PlanFields /\ SameScenario(q, p) /\ q.pc = p.pc /\ q.answer = p.answer
         /\ q.trial = p.trial /\ q.month = m
         /\ q.headcount = Stay(p.headcount, p) + p.trial * Unit
         /\ q.ramping = Ramping(p, m, Thinned(p) \o Hired(p, m))
         /\ q.capacity = PartOf(p, m, q.ramping) + Tenured(q.headcount, q.ramping)
         /\ q.first \in {p.first, m}
<1> DEFINE m == p.month + 1
           headcount == Stay(p.headcount, p) + p.trial * Unit
           ramping == Ramping(p, m, Thinned(p) \o Hired(p, m))
           capacity == PartOf(p, m, ramping) + Tenured(headcount, ramping)
           first == IF p.first = 0 /\ Rounded(capacity) < 1000 * p.demand THEN m ELSE p.first
<1>1. q = [p EXCEPT !.month = m, !.headcount = headcount, !.ramping = ramping,
                    !.capacity = capacity, !.first = first]
  BY DEF Month
<1>2. first \in {p.first, m}
  OBVIOUS
<1> HIDE DEF m, headcount, ramping, capacity, first
<1>3. /\ DOMAIN q = PlanFields /\ SameScenario(q, p) /\ q.pc = p.pc /\ q.answer = p.answer
      /\ q.trial = p.trial /\ q.month = m /\ q.headcount = headcount /\ q.ramping = ramping
      /\ q.capacity = capacity /\ q.first = first
  BY <1>1 DEF PlanFields, SameScenario
<1> QED
  BY <1>2, <1>3 DEF m, headcount, ramping, capacity

\* Every number is of its kind; the loop is where the closed forms are; and the search has
\* not found what it looks for with one hire less.
PlanTyped(p) ==
  /\ DOMAIN p = PlanFields /\ p.pc \in {"forecast", "solve", "answered"}
  /\ p.starting \in Nat /\ p.rate \in 0..3 /\ p.ramp \in Nat /\ p.demand \in Nat
  /\ p.months \in 1..MaxMonths /\ p.target \in Nat /\ p.answer \in PlanAnswers
  /\ p.trial \in Nat /\ p.trial \in 0..(p.target + p.starting) \cup MonthlyHires
  /\ p.month \in 0..p.months /\ p.first \in 0..p.month /\ p.capacity \in Nat

PlanRuns(p) ==
  /\ p.headcount = Heads(p.starting, p.rate, p.trial, p.month)
  /\ p.ramping = CohortsOf(p.rate, p.ramp, p.trial, p.month)
  /\ p.month > 0 => p.capacity = Capacity(p.starting, p.rate, p.ramp, p.trial, p.month)

TooFew(p) ==
  p.trial > 0 => Rounded(Heads(p.starting, p.rate, p.trial - 1, p.months)) < 1000 * p.target

PlanSearches(p) ==
  /\ p.pc \in {"forecast", "solve"} => p.answer = "none"
  /\ p.pc = "solve" => p.trial <= p.target + p.starting /\ TooFew(p)
  /\ p.pc = "answered" => p.answer # "unreachable"
  /\ p.pc = "answered" /\ p.answer = "hires" =>
       Rounded(Heads(p.starting, p.rate, p.trial, p.months)) >= 1000 * p.target /\ TooFew(p)

PlanHolds(p) == PlanTyped(p) /\ PlanRuns(p) /\ PlanSearches(p)

PlanInv == plan = NoPlan \/ PlanHolds(plan)

\* A trial starts in accordance with the closed forms.
LEMMA FreshHolds ==
  ASSUME NEW p, NEW h \in Nat, DOMAIN p = PlanFields, NEW q, q = Fresh(p, h),
         p.starting \in Nat, p.rate \in 0..3, p.ramp \in Nat, p.demand \in Nat,
         p.months \in 1..MaxMonths, p.target \in Nat, p.answer \in PlanAnswers,
         p.pc \in {"forecast", "solve", "answered"},
         h \in 0..(p.target + p.starting) \cup MonthlyHires
  PROVE  PlanTyped(q) /\ PlanRuns(q)
<1>1. /\ DOMAIN q = PlanFields /\ SameScenario(q, p) /\ q.pc = p.pc /\ q.answer = p.answer
      /\ q.trial = h /\ q.month = 0 /\ q.headcount = p.starting * Unit
      /\ q.ramping = << >> /\ q.capacity = 0 /\ q.first = 0
  BY FreshIs
<1>2. 0 \in 0..MaxMonths /\ 0 \in 0..p.months
  BY WorkforceAssumption
<1>3. PlanTyped(q)
  BY <1>1, <1>2 DEF PlanTyped, SameScenario
<1>4. q.headcount = Heads(q.starting, q.rate, q.trial, q.month)
  <2>1. Heads(p.starting, p.rate, h, 0) = p.starting * Unit
    BY <1>2, HeadsAre
  <2> QED
    BY <1>1, <2>1 DEF SameScenario
<1>5. CohortsOf(p.rate, p.ramp, h, 0) = << >>
  <2>1. StillIn(p.ramp, 0) = 0
    BY DEF StillIn
  <2>2. [i \in 1..0 |-> [started |-> (0 - 0) + i, count |-> Left(h, p.rate, 0 - i)]] = << >>
    OBVIOUS
  <2> QED
    BY <2>1, <2>2 DEF CohortsOf
<1>6. PlanRuns(q)
  BY <1>1, <1>4, <1>5 DEF PlanRuns, SameScenario
<1> QED
  BY <1>3, <1>6

LEMMA MonthHolds ==
  ASSUME NEW p, PlanHolds(p), p.pc \in {"forecast", "solve"}, p.month < p.months,
         NEW q, q = Month(p)
  PROVE  PlanHolds(q)
<1> DEFINE m == p.month
           n == m + 1
<1>1. /\ p.starting \in Nat /\ p.rate \in 0..3 /\ p.ramp \in Nat /\ p.trial \in Nat
      /\ MaxMonths \in Nat /\ m \in 0..MaxMonths /\ m < MaxMonths /\ n \in 1..MaxMonths
      /\ n \in 0..p.months /\ n > 0
  BY WorkforceAssumption DEF PlanHolds, PlanTyped
<1>2. /\ DOMAIN q = PlanFields /\ SameScenario(q, p) /\ q.pc = p.pc /\ q.answer = p.answer
      /\ q.trial = p.trial /\ q.month = n
      /\ q.headcount = Stay(p.headcount, p) + p.trial * Unit
      /\ q.ramping = Ramping(p, n, Thinned(p) \o Hired(p, n))
      /\ q.capacity = PartOf(p, n, q.ramping) + Tenured(q.headcount, q.ramping)
      /\ q.first \in {p.first, n}
  BY MonthIs DEF PlanHolds, PlanTyped
<1>3. q.headcount = Heads(p.starting, p.rate, p.trial, n)
  <2> DEFINE x == Heads(p.starting, p.rate, p.trial, m)
  <2>1. x \in Nat
    BY <1>1, HeadsAre
  <2>2. \E y \in Nat : /\ 4 * y = (4 - p.rate) * x
                       /\ Heads(p.starting, p.rate, p.trial, n) = y + p.trial * Unit
    BY <1>1, HeadsMove
  <2> HIDE DEF x
  <2>3. PICK y \in Nat : /\ 4 * y = (4 - p.rate) * x
                         /\ Heads(p.starting, p.rate, p.trial, n) = y + p.trial * Unit
    BY <2>2
  <2>4. Stay(x, p) = y
    BY <1>1, <2>1, <2>3, StayIs
  <2>5. p.headcount = x
    BY DEF PlanHolds, PlanRuns, x
  <2> QED
    BY <1>2, <2>3, <2>4, <2>5
<1>4. q.ramping = CohortsOf(p.rate, p.ramp, p.trial, n)
  <2>1. p.ramping = CohortsOf(p.rate, p.ramp, p.trial, m)
    BY DEF PlanHolds, PlanRuns
  <2> QED
    BY <1>1, <1>2, <2>1, CohortsMove
<1> HIDE DEF n
<1>5. q.capacity = Capacity(p.starting, p.rate, p.ramp, p.trial, n) /\ q.capacity \in Nat
  <2> DEFINE c == CohortsOf(p.rate, p.ramp, p.trial, n)
             x == Heads(p.starting, p.rate, p.trial, n)
  <2>1. /\ PartOf(p, n, c) + Tenured(x, c) = Capacity(p.starting, p.rate, p.ramp, p.trial, n)
        /\ Capacity(p.starting, p.rate, p.ramp, p.trial, n) \in Nat
    BY <1>1, CapacityIs
  <2> HIDE DEF c, x
  <2>2. q.ramping = c /\ q.headcount = x
    BY <1>3, <1>4 DEF c, x
  <2> QED
    BY <1>2, <2>1, <2>2
<1>6. q.first \in 0..n
  BY <1>1, <1>2 DEF PlanHolds, PlanTyped, n
<1>7. PlanTyped(q)
  BY <1>1, <1>2, <1>5, <1>6 DEF PlanHolds, PlanTyped, SameScenario
<1>8. PlanRuns(q)
  BY <1>2, <1>3, <1>4, <1>5 DEF PlanRuns, SameScenario
<1>9. PlanSearches(q)
  BY <1>2 DEF PlanHolds, PlanSearches, TooFew, SameScenario
<1> QED
  BY <1>7, <1>8, <1>9 DEF PlanHolds

LEMMA PlanStep ==
  ASSUME PlanInv, WorkforceNext
  PROVE  PlanInv'
<1>1. CASE AskPlan
  <2>1. PICK starting \in Headcounts, rate \in Rates, hires \in MonthlyHires, ramp \in Ramps,
             demand \in Demands, months \in 1..MaxMonths, target \in Targets, solved \in BOOLEAN :
          plan' = Fresh([pc |-> "forecast", starting |-> starting, rate |-> rate, hires |-> hires,
                         ramp |-> ramp, demand |-> demand, months |-> months, target |-> target,
                         solved |-> solved, answer |-> "none", shortfall |-> 0, trial |-> 0,
                         month |-> 0, headcount |-> 0, ramping |-> << >>, capacity |-> 0,
                         first |-> 0], hires)
    BY <1>1 DEF AskPlan
  <2> DEFINE p == [pc |-> "forecast", starting |-> starting, rate |-> rate, hires |-> hires,
                   ramp |-> ramp, demand |-> demand, months |-> months, target |-> target,
                   solved |-> solved, answer |-> "none", shortfall |-> 0, trial |-> 0,
                   month |-> 0, headcount |-> 0, ramping |-> << >>, capacity |-> 0, first |-> 0]
  <2>2. /\ starting \in Nat /\ rate \in 0..3 /\ hires \in Nat /\ ramp \in Nat /\ demand \in Nat
        /\ target \in Nat
    BY WorkforceAssumption
  <2>3. /\ DOMAIN p = PlanFields /\ p.starting \in Nat /\ p.rate \in 0..3 /\ p.ramp \in Nat
        /\ p.demand \in Nat /\ p.months \in 1..MaxMonths /\ p.target \in Nat
        /\ p.answer = "none" /\ p.pc = "forecast"
    BY <2>2 DEF PlanFields
  <2> HIDE DEF p
  <2>4. plan' = Fresh(p, hires)
    BY <2>1 DEF p
  <2>5. PlanTyped(plan') /\ PlanRuns(plan')
    BY <2>2, <2>3, <2>4, FreshHolds DEF PlanAnswers
  <2>6. plan'.pc = "forecast" /\ plan'.answer = "none"
    BY <2>3, <2>4, FreshIs
  <2> QED
    BY <2>5, <2>6 DEF PlanInv, PlanHolds, PlanSearches
<1>2. CASE SimulateMonth
  <2>1. PlanHolds(plan)
    BY <1>2 DEF SimulateMonth, PlanInv, NoPlan
  <2> QED
    BY <1>2, <2>1, MonthHolds DEF SimulateMonth, PlanInv
<1>3. CASE EndForecast
  <2> DEFINE kept == [plan EXCEPT !.shortfall = plan.first]
             turned == [kept EXCEPT !.pc = "solve"]
  <2>1. PlanHolds(plan) /\ plan.pc = "forecast" /\ plan.answer = "none" /\ DOMAIN plan = PlanFields
    BY <1>3 DEF EndForecast, PlanInv, NoPlan, PlanHolds, PlanSearches, PlanTyped
  <2>2. CASE plan' = [kept EXCEPT !.pc = "answered"]
    <3>1. /\ plan'.pc = "answered" /\ DOMAIN plan' = PlanFields /\ SameScenario(plan', plan)
          /\ plan'.answer = "none" /\ plan'.trial = plan.trial /\ plan'.month = plan.month
          /\ plan'.headcount = plan.headcount /\ plan'.ramping = plan.ramping
          /\ plan'.capacity = plan.capacity /\ plan'.first = plan.first
      BY <2>1, <2>2 DEF PlanFields, SameScenario
    <3>2. PlanTyped(plan')
      BY <2>1, <3>1 DEF PlanHolds, PlanTyped, SameScenario
    <3>3. PlanRuns(plan')
      BY <2>1, <3>1 DEF PlanHolds, PlanRuns, SameScenario
    <3>4. PlanSearches(plan')
      BY <3>1 DEF PlanSearches
    <3> QED
      BY <3>2, <3>3, <3>4 DEF PlanInv, PlanHolds
  <2>3. CASE plan' = [kept EXCEPT !.pc = "answered", !.answer = "too large to solve"]
    <3>1. /\ plan'.pc = "answered" /\ DOMAIN plan' = PlanFields /\ SameScenario(plan', plan)
          /\ plan'.answer = "too large to solve" /\ plan'.trial = plan.trial
          /\ plan'.month = plan.month
          /\ plan'.headcount = plan.headcount /\ plan'.ramping = plan.ramping
          /\ plan'.capacity = plan.capacity /\ plan'.first = plan.first
      BY <2>1, <2>3 DEF PlanFields, SameScenario
    <3>2. PlanTyped(plan')
      BY <2>1, <3>1 DEF PlanHolds, PlanTyped, SameScenario, PlanAnswers
    <3>3. PlanRuns(plan')
      BY <2>1, <3>1 DEF PlanHolds, PlanRuns, SameScenario
    <3>4. PlanSearches(plan')
      BY <3>1 DEF PlanSearches
    <3> QED
      BY <3>2, <3>3, <3>4 DEF PlanInv, PlanHolds
  <2>4. CASE plan' = Fresh(turned, 0)
    <3>1. /\ DOMAIN turned = PlanFields /\ SameScenario(turned, plan) /\ turned.pc = "solve"
          /\ turned.answer = "none"
      BY <2>1 DEF PlanFields, SameScenario
    <3> HIDE DEF turned
    <3>2. /\ turned.starting \in Nat /\ turned.rate \in 0..3 /\ turned.ramp \in Nat
          /\ turned.demand \in Nat /\ turned.months \in 1..MaxMonths /\ turned.target \in Nat
      BY <2>1, <3>1 DEF PlanHolds, PlanTyped, SameScenario
    <3>3. 0 \in Nat /\ 0 \in 0..(turned.target + turned.starting)
      BY <3>2
    <3>4. PlanTyped(plan') /\ PlanRuns(plan')
      BY <2>4, <3>1, <3>2, <3>3, FreshHolds DEF PlanAnswers
    <3>5. plan'.pc = "solve" /\ plan'.answer = "none" /\ plan'.trial = 0
      BY <2>4, <3>1, FreshIs
    <3> QED
      BY <3>4, <3>5 DEF PlanInv, PlanHolds, PlanSearches, TooFew, PlanTyped
  <2> QED
    BY <1>3, <2>2, <2>3, <2>4 DEF EndForecast
<1>4. CASE FindHires \/ TryMoreHires
  <2>1. /\ PlanHolds(plan) /\ plan.pc = "solve" /\ plan.answer = "none" /\ DOMAIN plan = PlanFields
        /\ plan.month = plan.months /\ TooFew(plan) /\ plan.trial <= plan.target + plan.starting
    BY <1>4 DEF FindHires, TryMoreHires, PlanInv, NoPlan, PlanHolds, PlanSearches, PlanTyped
  <2>2. /\ plan.starting \in Nat /\ plan.rate \in 0..3 /\ plan.ramp \in Nat /\ plan.demand \in Nat
        /\ plan.months \in 1..MaxMonths /\ plan.months \in 0..MaxMonths /\ plan.target \in Nat
        /\ plan.trial \in Nat /\ plan.months > 0
    BY <2>1, WorkforceAssumption DEF PlanHolds, PlanTyped
  <2> DEFINE final == Heads(plan.starting, plan.rate, plan.trial, plan.months)
  <2>3. plan.headcount = final
    BY <2>1 DEF PlanHolds, PlanRuns
  <2>4. final \in Nat /\ final >= plan.trial * Unit /\ Unit \in Nat
    BY <2>2, HeadsAre, LeftIs
  <2> HIDE DEF final
  <2>5. CASE FindHires
    <3>1. plan' = [plan EXCEPT !.pc = "answered", !.answer = "hires"] /\ Rounded(final) >= 1000 * plan.target
      BY <2>3, <2>5 DEF FindHires, Reached
    <3>2. /\ plan'.pc = "answered" /\ DOMAIN plan' = PlanFields /\ SameScenario(plan', plan)
          /\ plan'.answer = "hires" /\ plan'.trial = plan.trial /\ plan'.month = plan.month
          /\ plan'.headcount = plan.headcount /\ plan'.ramping = plan.ramping
          /\ plan'.capacity = plan.capacity /\ plan'.first = plan.first
      BY <2>1, <3>1 DEF PlanFields, SameScenario
    <3>3. PlanTyped(plan')
      BY <2>1, <3>2 DEF PlanHolds, PlanTyped, SameScenario, PlanAnswers
    <3>4. PlanRuns(plan')
      BY <2>1, <3>2 DEF PlanHolds, PlanRuns, SameScenario
    <3>5. PlanSearches(plan')
      BY <2>1, <3>1, <3>2 DEF PlanSearches, TooFew, SameScenario, final
    <3> QED
      BY <3>3, <3>4, <3>5 DEF PlanInv, PlanHolds
  <2>6. CASE TryMoreHires
    <3>1. Rounded(final) < 1000 * plan.target
      <4>1. Rounded(final) \in Nat /\ ~(Rounded(final) >= 1000 * plan.target)
        BY <2>2, <2>3, <2>4, <2>6, RoundedIs DEF TryMoreHires, Reached
      <4> QED
        BY <2>2, <4>1
    <3>2. plan.trial < plan.target
      <4>0. ~(final >= plan.target * Unit)
        BY <2>2, <2>4, <3>1, RoundedIs
      <4>1. \A a, b, c \in Nat : a >= b => a * c >= b * c
        OBVIOUS
      <4>2. plan.trial >= plan.target => plan.trial * Unit >= plan.target * Unit
        BY <2>2, <2>4, <4>1
      <4>3. plan.trial * Unit \in Nat /\ plan.target * Unit \in Nat
        BY <2>2, <2>4
      <4> QED
        BY <2>2, <2>4, <4>0, <4>2, <4>3
    <3>3. plan.trial < plan.target + plan.starting
      BY <2>2, <3>2
    <3>4. plan' = Fresh(plan, plan.trial + 1)
      BY <2>6, <3>3 DEF TryMoreHires
    <3>5. plan.trial + 1 \in 0..(plan.target + plan.starting) /\ plan.trial + 1 \in Nat
      BY <2>2, <3>3
    <3>6. PlanTyped(plan') /\ PlanRuns(plan')
      BY <2>1, <2>2, <3>4, <3>5, FreshHolds DEF PlanAnswers
    <3>7. /\ plan'.pc = "solve" /\ plan'.answer = "none" /\ plan'.trial = plan.trial + 1
          /\ SameScenario(plan', plan)
      BY <2>1, <3>4, FreshIs
    <3>8. TooFew(plan')
      <4>1. plan'.trial - 1 = plan.trial
        BY <2>2, <3>7
      <4> QED
        BY <3>1, <3>7, <4>1 DEF TooFew, SameScenario, final
    <3>9. plan'.trial <= plan'.target + plan'.starting
      BY <3>5, <3>7 DEF SameScenario
    <3> QED
      BY <3>6, <3>7, <3>8, <3>9 DEF PlanInv, PlanHolds, PlanSearches
  <2> QED
    BY <1>4, <2>5, <2>6
<1>5. CASE EndPlan
  BY <1>5 DEF EndPlan, PlanInv
<1> QED
  BY <1>1, <1>2, <1>3, <1>4, <1>5 DEF WorkforceNext

LEMMA PlanTells == PlanInv => PlanIsSound
<1> SUFFICES ASSUME PlanInv PROVE PlanIsSound
  OBVIOUS
<1>1. CASE plan = NoPlan
  BY <1>1 DEF NoPlan, PlanIsSound, WorkforceTypeOK, CapacityFollowsTheRamp, HiresAreLeast
<1>2. CASE PlanHolds(plan)
  <2>1. /\ plan.rate \in 0..3 /\ plan.ramp \in Nat /\ plan.trial \in Nat /\ plan.starting \in Nat
        /\ plan.month \in 0..MaxMonths
    BY <1>2, WorkforceAssumption DEF PlanHolds, PlanTyped
  <2>2. Len(plan.ramping) <= plan.ramp
        /\ \A i \in DOMAIN plan.ramping : plan.month - plan.ramping[i].started < plan.ramp
    BY <1>2, <2>1, CohortsAreYoung DEF PlanHolds, PlanRuns
  <2>3. plan.headcount \in Nat
    <3>1. plan.headcount = Heads(plan.starting, plan.rate, plan.trial, plan.month)
      BY <1>2 DEF PlanHolds, PlanRuns
    <3>2. Heads(plan.starting, plan.rate, plan.trial, plan.month) \in Nat
      BY <2>1, HeadsAre
    <3> QED
      BY <3>1, <3>2
  <2>4. WorkforceTypeOK
    BY <1>2, <2>2, <2>3 DEF PlanHolds, PlanTyped, WorkforceTypeOK
  <2>5. CapacityFollowsTheRamp
    BY <1>2 DEF PlanHolds, PlanRuns, CapacityFollowsTheRamp
  <2>6. HiresAreLeast
    BY <1>2 DEF PlanHolds, PlanSearches, TooFew, HiresAreLeast
  <2> QED
    BY <2>4, <2>5, <2>6 DEF PlanIsSound
<1> QED
  BY <1>1, <1>2 DEF PlanInv

\* A plan's months are what its scenario means, for any numbers of people and of months,
\* any ramps a request may ask for, and rates in quarters; and the search for the number of
\* hires always ends with the least there is, as numbers are when rounded to thousandths:
\* it never answers that the target cannot be reached (simulation.py).
THEOREM PlanAlwaysSound == WorkforceSpec => []PlanIsSound
<1>1. WorkforceInit => PlanInv
  BY DEF WorkforceInit, PlanInv
<1>2. PlanInv /\ [WorkforceNext]_workforceVars => PlanInv'
  <2>1. CASE WorkforceNext
    BY <2>1, PlanStep
  <2>2. CASE UNCHANGED workforceVars
    BY <2>2 DEF workforceVars, PlanInv, PlanHolds, PlanTyped, PlanRuns, PlanSearches, TooFew
  <2> QED
    BY <2>1, <2>2
<1> QED
  BY <1>1, <1>2, PlanTells, PTL DEF WorkforceSpec

=============================================================================
