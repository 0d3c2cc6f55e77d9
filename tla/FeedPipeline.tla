------------------------------ MODULE FeedPipeline ------------------------------
(***************************************************************************)
(* How Sifa makes one feed (sifa/serving/pipeline.py, policy/rules.py):    *)
(* assign the user to a variant, rank what was retrieved, discount by age, *)
(* cap each author, trade relevance for diversity, and give the last slots *)
(* to topics the sampler draws; clicks on the feed then reward the topic.  *)
(* A step is one of these calls, and the list passes from one to the next. *)
(*                                                                         *)
(* Scores, ages and similarities take few values: an item published h      *)
(* half-lives ago keeps 0.85 + 0.15 * 0.5^h of its score, in ten           *)
(* thousandths, and two items of a topic are as similar as can be.         *)
(***************************************************************************)
EXTENDS Naturals, Integers, Sequences, FiniteSets, Functions

CONSTANTS
  Items,           \* how many items are retrieved, best first
  Author, Anonymous,
  Topics,          \* the topics of items, in turn
  Scores,          \* what the ranker may say of an item
  ReturnK,         \* ServingConfig.return_k
  ExplorePercent,  \* explore_fraction
  MaxPerAuthor,    \* PolicyConfig.max_per_author
  Buckets,         \* positions a user may have, holdout first
  Holdout          \* how many of them are held out

ASSUME PipelineAssumption ==
  /\ Items \in Nat /\ ReturnK \in Nat \ {0} /\ Topics # << >> /\ Anonymous \notin Author
  /\ Scores \subseteq Nat
  /\ ExplorePercent \in 0..49 /\ MaxPerAuthor \in Nat \ {0}
  /\ Buckets \in Nat \ {0} /\ Holdout \in 0..(Buckets - 1)

VARIABLES
  bucket,     \* where the hash of the user puts them
  author,     \* the catalogue: authors; topics and ages follow from the number
  stage,      \* the call that comes next
  scored,     \* score of every item as it is now, in ten thousandths
  ranked,     \* the list that was ranked, and later capped
  selected,   \* the list made diverse
  result,     \* the same with what is explored
  explored    \* slots given to exploration so far, whether it found an item or not

pipelineVars == <<bucket, author, stage, scored, ranked, selected, result, explored>>

Id == 1..Items
TopicOf(i) == Topics[1 + (i % Len(Topics))]
Keeps == <<10000, 9250, 8875>>           \* after 0, 1 and 2 half-lives
AgeOf(i) == i % 3                        \* half-lives since it was published

PipelineTypeOK ==
  /\ bucket \in 0..(Buckets - 1) /\ author \in [Id -> Author \cup {Anonymous}]
  /\ stage \in {"rank", "freshen", "cap", "diversify", "explore", "served"}
  /\ scored \in [Id -> Nat]
  /\ Range(ranked) \subseteq Id /\ IsInjective(ranked)
  /\ Range(selected) \subseteq Id /\ Len(selected) <= ReturnK
  /\ Len(result) = Len(selected) /\ explored \in 0..ReturnK

-----------------------------------------------------------------------------
\* assign(): the holdout takes the first positions, two variants of equal weight the rest.
Variant ==
  IF bucket < Holdout THEN "holdout"
  ELSE IF 2 * (bucket - Holdout) < Buckets - Holdout THEN "control" ELSE "treatment"

PipelineInit ==
  /\ bucket \in 0..(Buckets - 1)
  /\ author \in [Id -> Author \cup {Anonymous}]
  /\ stage = "rank" /\ scored = [i \in Id |-> 0]
  /\ ranked = << >> /\ selected = << >> /\ result = << >> /\ explored = 0

\* The members of K in order: the n-th is the one with n - 1 members before it.
InOrder(K, before) ==
  [n \in 1..Cardinality(K) |->
     CHOOSE k \in K : Cardinality({j \in K : <<j, k>> \in before}) = n - 1]

\* The places of a list, best first: a stable sort.
Better(list, score) ==
  {p \in (DOMAIN list) \X (DOMAIN list) :
     \/ score[list[p[1]]] > score[list[p[2]]]
     \/ score[list[p[1]]] = score[list[p[2]]] /\ p[1] < p[2]}

BestFirst(list, score) ==
  LET places == InOrder(DOMAIN list, Better(list, score)) IN
  [n \in DOMAIN list |-> list[places[n]]]

\* LearningToRank.rank
Rank ==
  /\ stage = "rank" /\ stage' = "freshen"
  /\ \E score \in [Id -> Scores] :
       /\ scored' = score
       /\ ranked' = BestFirst([i \in Id |-> i], score)
  /\ UNCHANGED <<bucket, author, selected, result, explored>>

\* apply_freshness
Freshen ==
  /\ stage = "freshen" /\ stage' = "cap"
  /\ scored' = [i \in Id |-> (scored[i] * Keeps[AgeOf(i) + 1]) \div 10000]
  /\ ranked' = BestFirst(ranked, scored')
  /\ UNCHANGED <<bucket, author, selected, result, explored>>

\* cap_per_attribute: items of an author without a name are not capped.  The first ones of
\* an author are kept, so those before an item that count are simply those before it.
IsOverCap(list, k) ==
  /\ author[list[k]] # Anonymous
  /\ Cardinality({j \in 1..(k - 1) : author[list[j]] = author[list[k]]}) >= MaxPerAuthor

Earlier(K) == {p \in K \X K : p[1] < p[2]}

Capped(list) ==
  LET kept == {k \in DOMAIN list : ~IsOverCap(list, k)}
      places == InOrder(kept, Earlier(kept)) IN
  [n \in DOMAIN places |-> list[places[n]]]

Cap ==
  /\ stage = "cap" /\ stage' = "diversify"
  /\ ranked' = Capped(ranked)
  /\ UNCHANGED <<bucket, author, scored, selected, result, explored>>

-----------------------------------------------------------------------------
Similarity(i, j) == IF TopicOf(i) = TopicOf(j) THEN 10000 ELSE 0
Worst(chosen, i) == IF \E k \in DOMAIN chosen : Similarity(chosen[k], i) = 10000
                    THEN 10000 ELSE 0

\* lambda is 1 for the control and 0.7 for everybody else, the holdout too, in tenths.
Lambda == IF Variant = "control" THEN 10 ELSE 7

\* The best item comes first for its score alone.
Value(chosen, i) ==
  IF chosen = << >> THEN scored[i]
  ELSE Lambda * scored[i] - (10 - Lambda) * Worst(chosen, i)

Least(a, b) == IF a < b THEN a ELSE b

\* The places of the best 4 * return_k.
Pool == 1..Least(Len(ranked), 4 * ReturnK)

\* np.argmax: the first of the best that are left.
Pick(chosen) ==
  LET left == {k \in Pool : ranked[k] \notin Range(chosen)}
      best == {k \in left : \A j \in left : Value(chosen, ranked[j]) <= Value(chosen, ranked[k])}
  IN ranked[CHOOSE k \in best : \A j \in best : k <= j]

\* min(k, len(items)) of them are picked.
Size == Least(ReturnK, Least(Len(ranked), 4 * ReturnK))

\* maximal_marginal_relevance: one item more, and the list when there are enough.
Diversify ==
  /\ stage = "diversify" /\ Len(selected) < Size
  /\ selected' = Append(selected, Pick(selected)) /\ result' = selected'
  /\ UNCHANGED <<bucket, author, stage, scored, ranked, explored>>

EndDiversify ==
  /\ stage = "diversify" /\ Len(selected) = Size /\ stage' = "explore"
  /\ UNCHANGED <<bucket, author, scored, ranked, selected, result, explored>>

-----------------------------------------------------------------------------
\* The places of the ranked list that the feed does not show.
Reserve == {k \in DOMAIN ranked : ranked[k] \notin Range(selected)}
Drawn == {TopicOf(ranked[k]) : k \in Reserve}

\* A feed of less than four, or with nothing in reserve, is left alone.
Slots ==
  IF ExplorePercent = 0 \/ Len(selected) < 4 THEN 0
  ELSE LET share == (Len(selected) * ExplorePercent) \div 100
       IN Least(IF share = 0 THEN 1 ELSE share, Cardinality(Reserve))

\* Mutant of Slot: from the front.
SlotFromFront(n) == n

\* result[-1 - offset]
Slot(n) == Len(selected) - n + 1

\* What the feed shows or showed before exploration.
IsChosen(i) == i \in Range(selected) \cup Range(result)

\* _explore, one slot: the sampler draws any topic of the reserve, and its best item that
\* is left takes the slot; a topic with none left leaves the slot as it was.
Explore ==
  /\ stage = "explore" /\ explored < Slots
  /\ \E t \in Drawn :
       LET picks == {k \in Reserve : TopicOf(ranked[k]) = t /\ ~IsChosen(ranked[k])}
           first == CHOOSE k \in picks : \A j \in picks : k <= j
       IN result' = IF picks = {} THEN result
                    ELSE [result EXCEPT ![Slot(explored + 1)] = ranked[first]]
  /\ explored' = explored + 1
  /\ UNCHANGED <<bucket, author, stage, scored, ranked, selected>>

ServeFeed ==
  /\ stage = "explore" /\ explored = Slots /\ stage' = "served"
  /\ UNCHANGED <<bucket, author, scored, ranked, selected, result, explored>>

PipelineNext == Rank \/ Freshen \/ Cap \/ Diversify \/ EndDiversify \/ Explore \/ ServeFeed

PipelineSpec == PipelineInit /\ [][PipelineNext]_pipelineVars

-----------------------------------------------------------------------------
\* However topics are drawn, a feed shows no item twice, and is as long as the catalogue
\* allows: exploration replaces and never shortens.
FeedShowsNothingTwice ==
  stage = "served" =>
    /\ IsInjective(result)
    /\ Len(result) = Least(ReturnK, Len(ranked))

\* The cap on authors is applied before exploration and holds after it: no author with a
\* name has more than MaxPerAuthor items in a feed.
AuthorsStayCapped ==
  stage = "served" =>
    \A a \in Author : Cardinality({k \in DOMAIN result : author[result[k]] = a}) <= MaxPerAuthor

\* Neither diversity nor exploration takes the first place from the best item, by score
\* and age, of all that were retrieved.
BestItemLeads ==
  stage = "served" /\ Items > 0 => \A i \in Id : scored[i] <= scored[result[1]]

\* The control is the plain ranking: what it shows before exploration is the top of the
\* list, in order, so that the experiment compares diversity and nothing else.
ControlIsPlainRanking ==
  stage = "served" /\ Variant = "control" =>
    selected = SubSeq(ranked, 1, Least(ReturnK, Len(ranked)))

\* A feed as it is served: the best item leads, nothing is shown twice, no author has more
\* than the cap, and the control is the plain ranking.
FeedIsFair ==
  /\ PipelineTypeOK /\ FeedShowsNothingTwice /\ AuthorsStayCapped /\ BestItemLeads
  /\ ControlIsPlainRanking

=============================================================================
