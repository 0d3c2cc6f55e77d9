------------------------------ MODULE FeatureStore ------------------------------
(***************************************************************************)
(* One entity in a feature store of Sifa (sifa/features/store.py): rows    *)
(* written in any order of their event times, features read as of a        *)
(* moment, training examples joined to labels with an embargo, and the     *)
(* check that none of them knows the future.  A row may carry any of the   *)
(* features of the view, and what it lacks is taken from rows before it.   *)
(***************************************************************************)
EXTENDS Naturals, Integers, Sequences, FiniteSets, SequencesExt

CONSTANTS
  Name,        \* the features the view declares; the default of each is 0
  MaxValue,    \* bound: values are 0..MaxValue
  Ttl,         \* FeatureView.ttl
  LastMoment,  \* bound: event times and label times
  Embargo,     \* the embargo of the join and of the check
  MaxRows,     \* bound: rows written
  MaxExamples  \* bound: examples joined

ASSUME StoreAssumption ==
  /\ Ttl \in Nat \ {0} /\ Embargo \in Nat /\ LastMoment \in Nat
  /\ MaxValue \in Nat /\ MaxRows \in Nat /\ MaxExamples \in Nat

VARIABLES
  rows,       \* the rows, in the order of the store; "nth" is the order they came in
  examples   \* examples joined so far: a label time, and the features as they were

storeVars == <<rows, examples>>

Moment == 0..LastMoment
Default == 0
Values == [Name -> 0..MaxValue]
Partial == UNION {[S -> 0..MaxValue] : S \in (SUBSET Name) \ {{}}}

RowsTypeOK ==
  /\ \A k \in DOMAIN rows : rows[k].at \in Moment /\ rows[k].values \in Partial
  /\ Len(rows) <= MaxRows
  /\ \A k \in 1..(Len(rows) - 1) : rows[k].at <= rows[k + 1].at
  /\ examples \subseteq [at : Moment, features : Values]

StoreInit == rows = << >> /\ examples = {}

-----------------------------------------------------------------------------
\* Mutant of PlaceOf: bisect_right, after the rows with the same time.
PlaceAfter(t) == 1 + Cardinality({k \in DOMAIN rows : rows[k].at <= t})

\* bisect_left: before the rows with the same time.
PlaceOf(t) == 1 + Cardinality({k \in DOMAIN rows : rows[k].at < t})

\* write
WriteRow(t, values) ==
  /\ Len(rows) < MaxRows
  /\ rows' = InsertAt(rows, PlaceOf(t), [at |-> t, values |-> values, nth |-> Len(rows)])
  /\ UNCHANGED examples

\* bisect_right
Cutoff(t) == Cardinality({k \in DOMAIN rows : rows[k].at <= t})

\* Mutant of InTtl: rows stay fresh for ever.
InTtlForEver(t) == 1..Cutoff(t)

\* The rows that _as_of goes through before it breaks off.
InTtl(t) == {k \in 1..Cutoff(t) : rows[k].at >= t - Ttl}

\* _as_of: the last row that carries a feature sets it, to the default value too.
AsOf(t) ==
  [n \in Name |->
     LET carrying == {k \in InTtl(t) : n \in DOMAIN rows[k].values}
     IN IF carrying = {} THEN Default
        ELSE rows[CHOOSE k \in carrying : \A j \in carrying : j <= k].values[n]]

\* The features a label at t is joined to are those of this moment.
JoinedAt(t) == t - Embargo

\* point_in_time_join
JoinLabel(t) ==
  /\ Cardinality(examples) < MaxExamples
  /\ examples' = examples \cup {[at |-> t, features |-> AsOf(JoinedAt(t))]}
  /\ UNCHANGED rows

\* assert_no_leakage raises LeakageError for an example: a value of it is in a row after
\* the cutoff and in none before.
Leaks(example) ==
  LET cutoff == example.at - Embargo
      Says(k, n) == n \in DOMAIN rows[k].values /\ rows[k].values[n] = example.features[n]
  IN \E n \in Name :
       /\ example.features[n] # Default
       /\ \E k \in DOMAIN rows : rows[k].at > cutoff /\ Says(k, n)
       /\ \A k \in DOMAIN rows : rows[k].at <= cutoff => ~Says(k, n)

StoreNext ==
  \E t \in Moment : JoinLabel(t) \/ \E values \in Partial : WriteRow(t, values)

StoreSpec == StoreInit /\ [][StoreNext]_storeVars

-----------------------------------------------------------------------------
\* In whatever order rows came in, a feature reads as its newest value by event time that
\* is not older than the ttl; of two at the same time, the one written first.
FeaturesAreTheNewest ==
  \A t \in Moment, n \in Name :
    LET ours == {r \in ToSet(rows) : r.at <= t /\ r.at + Ttl >= t /\ n \in DOMAIN r.values}
        newest == {r \in ours : \A q \in ours : q.at <= r.at}
        first == {r \in newest : \A q \in newest : r.nth <= q.nth}
    IN AsOf(t)[n] = IF first = {} THEN Default ELSE (CHOOSE r \in first : TRUE).values[n]

\* "A join never sees a value written after the label": a row, however late it is written,
\* changes what is read between its event time and its ttl, and at no moment before.
RowsKeepToTheirTime ==
  [][\A t \in Moment : AsOf(t)' # AsOf(t) =>
       \E r \in ToSet(rows') \ ToSet(rows) : r.at <= t /\ t <= r.at + Ttl]_storeVars

\* An example that was joined with the embargo is never reported as leaking, although rows
\* are written later on both sides of its label.
JoinedNeverLeaks == \A e \in examples : ~Leaks(e)

\* Features: the newest of their time, whatever order they came in, and nothing later.
FeaturesAreOfTheirTime ==
  /\ RowsTypeOK /\ FeaturesAreTheNewest /\ JoinedNeverLeaks

=============================================================================
