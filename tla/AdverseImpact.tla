----------------------------- MODULE AdverseImpact -----------------------------
(***************************************************************************)
(* The four-fifths test and the evidence it leaves: POST                   *)
(* /v1/bias/adverse-impact computes a report from the numbers selected and *)
(* considered per group, writes its verdict into the decision ledger and   *)
(* stores the report with the entry's sequence, in one transaction, while  *)
(* other requests of the tenant append too.                                *)
(*                                                                         *)
(* Rates are quotients of doubles.  Up to 2^24 people two of them compare  *)
(* as the exact fractions do, and the quotient of two rates is below 0.80  *)
(* when the exact one is: unequal ones differ by more than the roundings.  *)
(* At exactly four fifths the quotient may round down below 0.80.          *)
(***************************************************************************)
EXTENDS Naturals, Sequences, FiniteSetsExt

CONSTANTS
  Analyses,      \* the requests: outcomes per group, in the order given
  MinimumSizes,  \* values of minimum_group_size
  MaxFindings,   \* bound: entries in the ledger
  MaxTotal,      \* bound: people considered in a group, and selected
  RoundsDown     \* the pairs at exactly four fifths whose quotient is below 0.80 in doubles:
                 \* <<selected, total, selected of the reference, total of the reference>>

ImpactGroups == {"a", "b", "c"}

ASSUME ImpactAssumption ==
  /\ MaxTotal \in Nat /\ MaxTotal < 2^24
  /\ Analyses \subseteq Seq([group : ImpactGroups, selected : 0..MaxTotal, total : 1..MaxTotal])
  /\ \A a \in Analyses : Len(a) >= 2
  /\ MinimumSizes \subseteq Nat \ {0} /\ MaxFindings \in Nat

VARIABLES
  findings,   \* the committed ledger: outcomes of the test, "other" for other appends
  reports,    \* the committed report rows
  analysis    \* the request being answered: what it asked, its report and transaction

impactVars == <<findings, reports, analysis>>

Outcomes == {"FLAGGED", "PASSED", "INSUFFICIENT_DATA"}
Verdicts == {"ADVERSE_IMPACT", "NO_ADVERSE_IMPACT", "INSUFFICIENT_DATA"}

Idle == [pc |-> "idle", outcomes |-> << >>, minimum |-> 1,
         verdict |-> "INSUFFICIENT_DATA", significance |-> FALSE, sequence |-> 0]

ImpactTypeOK ==
  /\ findings \in Seq(Outcomes \cup {"other"}) /\ Len(findings) <= MaxFindings
  /\ reports \in Seq([verdict : Verdicts, significance : BOOLEAN, sequence : Nat])
  /\ analysis.pc \in {"idle", "tested", "appended", "stored"}
  /\ analysis.verdict \in Verdicts
  /\ analysis.significance \in BOOLEAN
  /\ analysis.sequence \in 0..MaxFindings

-----------------------------------------------------------------------------
\* GroupOutcome.__post_init__ and the checks four_fifths_test makes first: 422.
Refused(outcomes) ==
  \/ \E i \in DOMAIN outcomes : outcomes[i].selected > outcomes[i].total
  \/ \E i, j \in DOMAIN outcomes : i # j /\ outcomes[i].group = outcomes[j].group

Eligible(outcomes, minimum) == {i \in DOMAIN outcomes : outcomes[i].total >= minimum}

\* The rate of o is higher than that of p.
Higher(o, p) == o.selected * p.total > p.selected * o.total

\* max() keeps the first of the eligible groups with the highest rate.
Reference(outcomes, eligible) ==
  Min({i \in eligible : \A j \in eligible : ~Higher(outcomes[j], outcomes[i])})

\* The doubles of o and ref, at exactly four fifths, are below 0.80.
FallsBelow(o, ref) == <<o.selected, o.total, ref.selected, ref.total>> \in RoundsDown

\* impact_ratio < threshold.
AdverselyImpacted(o, ref) ==
  LET ratio == 5 * o.selected * ref.total
      threshold == 4 * ref.selected * o.total IN
  ratio < threshold \/ (ratio = threshold /\ FallsBelow(o, ref))

\* _significance: there is a p-value unless a row of the table sums to zero.
Significant(outcomes, eligible) ==
  /\ \E i \in eligible : outcomes[i].selected > 0
  /\ \E i \in eligible : outcomes[i].selected < outcomes[i].total

\* four_fifths_test on outcomes that are not refused.
Tested(outcomes, minimum) ==
  LET eligible == Eligible(outcomes, minimum)
      reference == outcomes[Reference(outcomes, eligible)]
      flagged == \E i \in eligible : AdverselyImpacted(outcomes[i], reference) IN
  IF Cardinality(eligible) < 2 \/ reference.selected = 0
  THEN [verdict |-> "INSUFFICIENT_DATA", significance |-> FALSE]
  ELSE [verdict |-> IF flagged THEN "ADVERSE_IMPACT" ELSE "NO_ADVERSE_IMPACT",
        significance |-> Significant(outcomes, eligible)]

\* _IMPACT_OUTCOME
OutcomeOf(verdict) ==
  CASE verdict = "ADVERSE_IMPACT" -> "FLAGGED"
    [] verdict = "NO_ADVERSE_IMPACT" -> "PASSED"
    [] OTHER -> verdict

-----------------------------------------------------------------------------
ImpactInit == findings = << >> /\ reports = << >> /\ analysis = Idle

\* The report is computed before the transaction; a request that is refused leaves nothing.
AskAnalysis ==
  /\ analysis.pc = "idle" /\ Len(findings) < MaxFindings
  /\ \E outcomes \in Analyses, minimum \in MinimumSizes :
       /\ ~Refused(outcomes)
       /\ LET report == Tested(outcomes, minimum) IN
          analysis' = [Idle EXCEPT !.pc = "tested", !.outcomes = outcomes, !.minimum = minimum,
                                   !.verdict = report.verdict, !.significance = report.significance]
  /\ UNCHANGED <<findings, reports>>

\* Somebody else's append commits; the tenant's lock keeps it out of this transaction.
OtherAppends ==
  /\ analysis.pc \notin {"appended", "stored"} /\ Len(findings) < MaxFindings
  /\ findings' = Append(findings, "other")
  /\ UNCHANGED <<reports, analysis>>

\* ledger.append takes the lock and flushes the entry.
AppendFinding ==
  /\ analysis.pc = "tested" /\ Len(findings) < MaxFindings
  /\ analysis' = [analysis EXCEPT !.pc = "appended", !.sequence = Len(findings)]
  /\ UNCHANGED <<findings, reports>>

\* ImpactReportRepository.add
StoreReport ==
  /\ analysis.pc = "appended"
  /\ analysis' = [analysis EXCEPT !.pc = "stored"]
  /\ UNCHANGED <<findings, reports>>

\* Mutant of CommitAnalysis: the ledger has a session of its own, committed first.
CommitApart ==
  \/ /\ analysis.pc = "appended" /\ Len(findings) = analysis.sequence
     /\ findings' = Append(findings, OutcomeOf(analysis.verdict))
     /\ UNCHANGED <<reports, analysis>>
  \/ /\ analysis.pc = "stored"
     /\ reports' = Append(reports, [verdict |-> analysis.verdict, sequence |-> analysis.sequence,
                                    significance |-> analysis.significance])
     /\ analysis' = Idle /\ UNCHANGED findings

\* The session commits both, and the lock goes.
CommitAnalysis ==
  /\ analysis.pc = "stored"
  /\ findings' = Append(findings, OutcomeOf(analysis.verdict))
  /\ reports' = Append(reports, [verdict |-> analysis.verdict, sequence |-> analysis.sequence,
                                 significance |-> analysis.significance])
  /\ analysis' = Idle

\* The process or the database fails: the session rolls back.
FailAnalysis ==
  /\ analysis.pc # "idle"
  /\ analysis' = Idle
  /\ UNCHANGED <<findings, reports>>

ImpactNext ==
  \/ AskAnalysis \/ OtherAppends \/ AppendFinding \/ StoreReport \/ CommitAnalysis \/ FailAnalysis

ImpactSpec == ImpactInit /\ [][ImpactNext]_impactVars

-----------------------------------------------------------------------------
\* Large(o): o is one of the groups the request's minimum lets count.
Large == {i \in DOMAIN analysis.outcomes : analysis.outcomes[i].total >= analysis.minimum}
Below(i, j) == LET o == analysis.outcomes[i] p == analysis.outcomes[j] IN
               5 * o.selected * p.total < 4 * p.selected * o.total
FourFifths(i, j) == LET o == analysis.outcomes[i] p == analysis.outcomes[j] IN
                    5 * o.selected * p.total = 4 * p.selected * o.total

\* The report says what the rule says of each pair of groups large enough, whichever of
\* them four_fifths_test took as the reference: any pair below four fifths is found; none
\* is found above it, and at exactly four fifths those only whose doubles round down; it
\* declines to judge only when there is nothing to compare.
VerdictIsTheRule ==
  analysis.pc # "idle" =>
    /\ analysis.verdict = "INSUFFICIENT_DATA" <=>
         Cardinality(Large) < 2 \/ \A i \in Large : analysis.outcomes[i].selected = 0
    /\ analysis.verdict = "NO_ADVERSE_IMPACT" => \A i, j \in Large : ~Below(i, j)
    /\ analysis.verdict = "ADVERSE_IMPACT" =>
         \E i, j \in Large :
           \/ Below(i, j)
           \/ /\ FourFifths(i, j) /\ FallsBelow(analysis.outcomes[i], analysis.outcomes[j])
              /\ analysis.outcomes[j].selected > 0

\* What tests/bias/test_adverse_impact.py says of the rule: exactly four fifths passes, so
\* that adverse impact is found only where a group is below four fifths of another.
ExactlyFourFifthsPasses ==
  analysis.verdict = "ADVERSE_IMPACT" => \E i, j \in Large : Below(i, j)

\* A finding of adverse impact always comes with the significance of the table it was
\* found in: no way of being flagged leaves the p-value out.
FlagComesWithSignificance ==
  /\ analysis.verdict = "ADVERSE_IMPACT" => analysis.significance
  /\ \A k \in DOMAIN reports : reports[k].verdict = "ADVERSE_IMPACT" => reports[k].significance

\* Whatever fails and whoever appends in between, a report that can be read points at the
\* ledger entry with its verdict, and every verdict in the ledger has its report.
FindingsAreChained ==
  /\ \A k \in DOMAIN reports :
       /\ reports[k].sequence + 1 \in DOMAIN findings
       /\ findings[reports[k].sequence + 1] = OutcomeOf(reports[k].verdict)
  /\ \A n \in DOMAIN findings :
       findings[n] # "other" => \E k \in DOMAIN reports : reports[k].sequence + 1 = n

\* The report is what the four-fifths rule says, and the ledger says what the report says.
ImpactIsTold ==
  /\ ImpactTypeOK /\ VerdictIsTheRule /\ FlagComesWithSignificance /\ FindingsAreChained

=============================================================================
