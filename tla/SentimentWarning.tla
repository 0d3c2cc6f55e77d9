---------------------------- MODULE SentimentWarning ----------------------------
(***************************************************************************)
(* Sentiment (/v1/sentiment/...): reports on groups large enough, and the  *)
(* early warning on what fell between two periods, which is written to the *)
(* ledger and queued as an alert in one transaction while another request  *)
(* of the tenant does the same.                                            *)
(*                                                                         *)
(* A text is a sequence of kinds of words.  Scores are fractions: with the *)
(* few words of these texts none comes within what four decimals round     *)
(* away of the threshold of 0.35.                                          *)
(***************************************************************************)
EXTENDS Integers, Sequences, FiniteSets, Functions

CONSTANTS
  Asker,        \* requests for an early warning, at once
  Surveys,      \* what may be analysed: sequences of responses, a group and a text each
  Periods,      \* those that early warnings compare
  Texts,        \* texts of one response
  MinimumSize,  \* minimum_group_size
  MaxWarned     \* bound: early warnings in the ledger

Word == {"good", "bad", "not", "pay", "team", "word"}  \* one kind of each list of words
SurveyGroups == {"lab", "ops"}
Aspects == {"CULTURE", "COMPENSATION", "UNCATEGORISED"}

ASSUME SentimentAssumption ==
  /\ Texts \subseteq Seq(Word) \ {<< >>}
  /\ Surveys \subseteq Seq([group : SurveyGroups, text : Texts]) /\ Periods \subseteq Surveys
  /\ MinimumSize \in Nat /\ MinimumSize >= 2 /\ MaxWarned \in Nat

VARIABLES
  asked,    \* the responses of the analysis being answered
  report,   \* its answer
  asking,   \* early warnings being answered: what was found and where each is
  warned,   \* the committed ledger: what each early warning found
  alerts    \* the committed alerts: the findings each tells of

sentimentVars == <<asked, report, asking, warned, alerts>>

-----------------------------------------------------------------------------
\* The words of t from i - n to i + m.
Window(t, i, n, m) == {t[k] : k \in DOMAIN t \cap (i - n)..(i + m)}

\* Words with a polarity.
Polar(t) == {i \in DOMAIN t : t[i] \in {"good", "bad"}}

\* score_text: a negator among the three words before turns it round.
Polarity(t, i) ==
  LET word == IF t[i] = "good" THEN 1 ELSE -1 IN
  IF "not" \in Window(t, i, 3, -1) THEN -word ELSE word

\* _aspect_for: the first aspect with a term within six words, in the order of the table.
AspectFor(t, i) ==
  LET near == Window(t, i, 6, 6) IN
  IF "team" \in near THEN "CULTURE"
  ELSE IF "pay" \in near THEN "COMPENSATION"
  ELSE "UNCATEGORISED"

\* The texts of a group, by their place in the answers.
From(answers, g) == {n \in DOMAIN answers : answers[n].group = g}

\* SurveyGroups with enough respondents; the others are withheld.
Reportable(answers) == {g \in SurveyGroups : Cardinality(From(answers, g)) >= MinimumSize}

Withheld(answers) == {g \in SurveyGroups : From(answers, g) # {}} \ Reportable(answers)

\* The sum of the values of f.
SumOf(f) == FoldFunction(LAMBDA x, y : x + y, 0, f)

\* A group's score on an aspect: the sum of the polarities, and how many there are.
AspectScore(answers, g, a) ==
  LET mine == UNION {{<<n, i>> : i \in {j \in Polar(answers[n].text) :
                                          AspectFor(answers[n].text, j) = a}} :
                     n \in From(answers, g)} IN
  [sum |-> SumOf([v \in mine |-> Polarity(answers[v[1]].text, v[2])]),
   mentions |-> Cardinality(mine)]

\* A text's overall score in twelfths: the mean polarity of at most four words, or zero.
Overall(t) ==
  LET n == Cardinality(Polar(t)) IN
  IF n = 0 THEN 0 ELSE (12 * SumOf([i \in Polar(t) |-> Polarity(t, i)])) \div n

\* analyse: per reported group its respondents, the sum of their overall scores and the
\* aspects that were mentioned.
Analyse(answers) ==
  [groups |-> [g \in Reportable(answers) |->
                 [respondents |-> Cardinality(From(answers, g)),
                  overall |-> SumOf([n \in From(answers, g) |-> Overall(answers[n].text)]),
                  aspects |-> {[aspect |-> a, score |-> AspectScore(answers, g, a)] :
                                 a \in {b \in Aspects : AspectScore(answers, g, b).mentions > 0}}]],
   suppressed |-> Withheld(answers)]

\* prior - current >= 0.35
Fell(prior, now) ==
  20 * (prior.sum * now.mentions - now.sum * prior.mentions) >= 7 * prior.mentions * now.mentions

\* detect_early_warnings: in groups reported, and aspects mentioned, both times.
EarlyWarnings(previous, current) ==
  LET before == Analyse(previous).groups
      after == Analyse(current).groups IN
  UNION {{[group |-> g, aspect |-> p[1].aspect, previous |-> p[1].score, current |-> p[2].score] :
            p \in {q \in before[g].aspects \X after[g].aspects :
                     /\ q[1].aspect = q[2].aspect
                     /\ Fell(q[1].score, q[2].score)}} :
         g \in DOMAIN before \cap DOMAIN after}

-----------------------------------------------------------------------------
NoReport == [groups |-> << >>, suppressed |-> {}]
NotAsking == [pc |-> "idle", found |-> {}, queued |-> FALSE]

SentimentInit ==
  /\ asked = << >> /\ report = NoReport
  /\ asking = [a \in Asker |-> NotAsking]
  /\ warned = << >> /\ alerts = << >>

\* sentiment_analyse: nothing is stored.
AskReport ==
  /\ asked = << >> /\ warned = << >> /\ \A a \in Asker : asking[a].pc = "idle"
  /\ \E answers \in Surveys : asked' = answers /\ report' = Analyse(answers)
  /\ UNCHANGED <<asking, warned, alerts>>

ReplyReport ==
  /\ asked # << >>
  /\ asked' = << >> /\ report' = NoReport
  /\ UNCHANGED <<asking, warned, alerts>>

\* What two of the periods may give.
Found == {EarlyWarnings(previous, current) : previous, current \in Periods}

\* sentiment_early_warning: all is computed before the transaction.
AskWarning(a) ==
  /\ asked = << >> /\ asking[a].pc = "idle" /\ Len(warned) < MaxWarned
  /\ \E found \in Found :
       asking' = [asking EXCEPT ![a] = [NotAsking EXCEPT !.pc = "found", !.found = found]]
  /\ UNCHANGED <<asked, report, warned, alerts>>

\* Mutant of AppendWarning: the ledger's lock is not taken.
AppendWarningUnlocked(a) ==
  /\ asking[a].pc = "found" /\ Len(warned) < MaxWarned
  /\ asking' = [asking EXCEPT ![a].pc = "appended"]
  /\ UNCHANGED <<asked, report, warned, alerts>>

\* The ledger's append takes the tenant's lock, which the transaction then holds.
AppendWarning(a) ==
  /\ asking[a].pc = "found" /\ Len(warned) < MaxWarned
  /\ \A b \in Asker : asking[b].pc \notin {"appended", "queued"}
  /\ asking' = [asking EXCEPT ![a].pc = "appended"]
  /\ UNCHANGED <<asked, report, warned, alerts>>

\* An alert with this dedupe key is there, delivered or not: the key is the findings'.
Told(found) == \E n \in DOMAIN alerts : alerts[n] = found

\* AlertRepository.add, for findings.
QueueWarning(a) ==
  /\ asking[a].pc = "appended"
  /\ asking' = [asking EXCEPT ![a].pc = "queued",
                              ![a].queued = asking[a].found # {} /\ ~Told(asking[a].found)]
  /\ UNCHANGED <<asked, report, warned, alerts>>

CommitWarning(a) ==
  /\ asking[a].pc = "queued"
  /\ warned' = Append(warned, asking[a].found)
  /\ alerts' = IF asking[a].queued THEN Append(alerts, asking[a].found) ELSE alerts
  /\ asking' = [asking EXCEPT ![a] = NotAsking]
  /\ UNCHANGED <<asked, report>>

\* The process or the database fails: the session rolls back.
FailWarning(a) ==
  /\ asking[a].pc # "idle"
  /\ asking' = [asking EXCEPT ![a] = NotAsking]
  /\ UNCHANGED <<asked, report, warned, alerts>>

SentimentNext ==
  \/ AskReport \/ ReplyReport
  \/ \E a \in Asker :
       \/ AskWarning(a) \/ AppendWarning(a) \/ QueueWarning(a) \/ CommitWarning(a) \/ FailWarning(a)

SentimentSpec == SentimentInit /\ [][SentimentNext]_sentimentVars

-----------------------------------------------------------------------------
\* A report says nothing of what a withheld group wrote: with any other text in the place of
\* one of its responses it would be the same, and so would every warning drawn from it, on
\* either side of the comparison.
WithheldStaysSilent ==
  \A n \in DOMAIN asked :
    Cardinality(From(asked, asked[n].group)) < MinimumSize =>
      \A t \in Texts :
        LET other == [asked EXCEPT ![n].text = t] IN
        /\ Analyse(other) = report
        /\ \A p \in Periods : /\ EarlyWarnings(other, p) = EarlyWarnings(asked, p)
                              /\ EarlyWarnings(p, other) = EarlyWarnings(p, asked)

\* Every warning in the ledger has an alert that tells of just that, and nobody is told of
\* the same findings twice, whichever requests run together and whatever fails.
WarningsAreTold ==
  /\ \A n \in DOMAIN warned : warned[n] # {} => \E k \in DOMAIN alerts : alerts[k] = warned[n]
  /\ \A k \in DOMAIN alerts : \E n \in DOMAIN warned : warned[n] = alerts[k]

ToldOnce == \A j, k \in DOMAIN alerts : alerts[j] = alerts[k] => j = k

\* Sentiment: what is withheld stays so, and a warning in the ledger is told, once.
WarningsAreSound ==
  /\ WithheldStaysSilent /\ WarningsAreTold /\ ToldOnce

=============================================================================
