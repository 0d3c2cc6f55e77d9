------------------------------- MODULE SifaProofs -------------------------------
(***************************************************************************)
(* Proofs about what Sifa keeps, for any number of versions, requests,     *)
(* starts and crashes.                                                     *)
(*                                                                         *)
(* The roll-out: memory and store are one save of one operation apart, and *)
(* each has one version of each stage; a window counts requests that have  *)
(* been answered and are no longer being served.                           *)
(*                                                                         *)
(* The state directory: a row is always the hash of its file, and the      *)
(* tower's hash is that of its file except while a build has written the   *)
(* file and nothing is marked.                                             *)
(*                                                                         *)
(* The feature store: rows are in the order of their times and, of one     *)
(* time, the last one written first, so the row a read stops at is the one *)
(* that its promise names.                                                 *)
(*                                                                         *)
(* The feed: sorting lists what it was given, the cap thins it and keeps   *)
(* the order, what is picked is left of it, and exploration takes places   *)
(* of the second half with items that are not shown.                       *)
(*                                                                         *)
(* The vector index: links are made and dropped on both sides, between     *)
(* nodes of a layer.  While a node has room for all others none is         *)
(* dropped, so that no set of nodes is closed but the whole, and a search  *)
(* that may keep all ends with a closed set.                               *)
(***************************************************************************)
EXTENDS SifaRollout, SifaState, FeatureStore, FeedPipeline, VectorIndex, FiniteSetTheorems, SequenceTheorems, WellFoundedInduction, TLAPS

\* A set of naturals has a least element: what CHOOSE of a least one needs.
LEMMA LeastNatural ==
  ASSUME NEW T \in SUBSET Nat, T # {}
  PROVE  \E n \in T : \A m \in T : n <= m
<1> DEFINE R == OpToRel(<, Nat)
<1>1. IsWellFoundedOn(R, Nat)
  BY NatLessThanWellFounded
<1>2. \A m, n \in Nat : m < n => <<m, n>> \in R
  BY DEF OpToRel
<1> HIDE DEF R
<1>3. PICK n \in T : \A m \in T : ~ (<<m, n>> \in R)
  BY <1>1, WFMin
<1>4. ASSUME NEW m \in T PROVE n <= m
  <2>1. ~(<<m, n>> \in R)
    BY <1>3
  <2>2. ~(m < n)
    BY <1>2, <2>1
  <2> QED
    BY <2>2
<1> QED
  BY <1>4

\* The least and the greatest of some numbers up to n are among them.
LEMMA MinIsIn ==
  ASSUME NEW T \in SUBSET Nat, T # {}
  PROVE  Min(T) \in T
<1>1. \E n \in T : \A m \in T : n <= m
  BY LeastNatural
<1> QED
  BY <1>1 DEF Min

LEMMA MaxIsIn ==
  ASSUME NEW n \in Nat, NEW T \in SUBSET (1..n), T # {}
  PROVE  Max(T) \in T
<1> DEFINE U == {n - m : m \in T}
<1>1. U \in SUBSET Nat /\ U # {}
  <2>1. \A m \in T : n - m \in Nat
    OBVIOUS
  <2> QED
    BY <2>1
<1>2. PICK k \in U : \A j \in U : k <= j
  BY <1>1, LeastNatural
<1>3. PICK m \in T : k = n - m
  OBVIOUS
<1>4. ASSUME NEW j \in T PROVE m >= j
  <2>1. n - m <= n - j
    BY <1>2, <1>3
  <2> QED
    BY <2>1
<1>5. \E x \in T : \A y \in T : x >= y
  BY <1>4
<1> QED
  BY <1>5 DEF Max

-----------------------------------------------------------------------------
\* A registry has at most one version of each stage that serves or is watched.
Single(r) ==
  \A s \in {"live", "canary", "shadow"} :
    \A v, w \in DOMAIN r : r[v] = s /\ r[w] = s => v = w

Versions(r) == r \in Seq(Stage) /\ Len(r) \in Version

LEMMA VersionsAreFunctions ==
  ASSUME NEW r, NEW n \in Version, r \in [1..n -> Stage]
  PROVE  Versions(r) /\ Len(r) = n
<1>1. MaxVersions \in Nat
  BY RolloutAssumption
<1>2. r \in Seq(Stage) /\ Len(r) = n
  BY <1>1 DEF Version
<1> QED
  BY <1>2 DEF Versions

LEMMA VersionsDomain ==
  ASSUME NEW r, Versions(r)
  PROVE  /\ DOMAIN r = 1..Len(r) /\ DOMAIN r \subseteq Version /\ DOMAIN r \subseteq Nat
         /\ 1 \in DOMAIN r /\ 0 \notin DOMAIN r
         /\ r \in [DOMAIN r -> Stage]
<1>1. MaxVersions \in Nat
  BY RolloutAssumption
<1> QED
  BY <1>1 DEF Versions, Version

\* The first version of a stage is of that stage; without one there is none.
LEMMA FirstIsThere ==
  ASSUME NEW r, Versions(r), NEW s
  PROVE  /\ FirstIn(r, s) = None => \A v \in DOMAIN r : r[v] # s
         /\ FirstIn(r, s) # None => FirstIn(r, s) \in DOMAIN r /\ r[FirstIn(r, s)] = s
<1>1. InStage(r, s) \in SUBSET Nat /\ 0 \notin InStage(r, s)
  BY VersionsDomain DEF InStage
<1>2. CASE InStage(r, s) = {}
  BY <1>2 DEF FirstIn, InStage
<1>3. CASE InStage(r, s) # {}
  <2>1. Min(InStage(r, s)) \in InStage(r, s)
    BY <1>1, <1>3, MinIsIn
  <2>2. FirstIn(r, s) = Min(InStage(r, s))
    BY <1>3 DEF FirstIn
  <2>3. FirstIn(r, s) \in DOMAIN r /\ r[FirstIn(r, s)] = s /\ FirstIn(r, s) # None
    BY <1>1, <2>1, <2>2 DEF InStage, None
  <2> QED
    BY <2>3
<1> QED
  BY <1>2, <1>3

LEMMA FirstIsSingle ==
  ASSUME NEW r, Versions(r), Single(r), NEW s \in {"live", "canary", "shadow"},
         NEW v \in DOMAIN r, r[v] = s
  PROVE  FirstIn(r, s) = v
<1>1. FirstIn(r, s) # None
  BY FirstIsThere
<1>2. FirstIn(r, s) \in DOMAIN r /\ r[FirstIn(r, s)] = s
  BY <1>1, FirstIsThere
<1> QED
  BY <1>2 DEF Single

LEMMA SingleIsCounted ==
  ASSUME NEW r, Single(r), NEW s \in {"live", "canary", "shadow"}
  PROVE  Cardinality(InStage(r, s)) <= 1
<1>1. CASE InStage(r, s) = {}
  <2>1. Cardinality(InStage(r, s)) = 0
    BY <1>1, FS_EmptySet
  <2> QED
    BY <2>1
<1>2. CASE InStage(r, s) # {}
  <2>1. PICK v : v \in InStage(r, s)
    BY <1>2
  <2>2. InStage(r, s) = {v}
    BY <2>1 DEF InStage, Single
  <2>3. Cardinality(InStage(r, s)) = 1
    BY <2>2, FS_Singleton
  <2> QED
    BY <2>3
<1> QED
  BY <1>1, <1>2

-----------------------------------------------------------------------------
\* What a transition makes of a registry: the version moves, the live one it replaces is
\* archived, the others stay.
Transition(r, q, v, to) ==
  /\ Versions(q) /\ Len(q) = Len(r) /\ Single(q)
  /\ q[v] = to
  /\ LET p == Replaced(r, v, to) IN
       /\ p # None => p \in DOMAIN r /\ p # v /\ to = "live" /\ r[p] = "live" /\ q[p] = "archived"
       /\ \A w \in DOMAIN r : w # v /\ w # p => q[w] = r[w]

LEMMA MovedMoves ==
  ASSUME NEW r, Versions(r), Single(r), NEW v \in DOMAIN r, NEW to \in Stage,
         MayMove(r, v, to)
  PROVE  Transition(r, Moved(r, v, to), v, to)
<1> DEFINE q == Moved(r, v, to)
           p == Replaced(r, v, to)
<1>1. DOMAIN r = 1..Len(r) /\ Len(r) \in Version /\ r \in [DOMAIN r -> Stage] /\ 0 \notin DOMAIN r
  BY VersionsDomain DEF Versions
<1>2. q \in [1..Len(r) -> Stage]
  BY <1>1 DEF Moved, Stage
<1>3. Versions(q) /\ Len(q) = Len(r)
  BY <1>1, <1>2, VersionsAreFunctions
<1>4. p # None => p \in DOMAIN r /\ p # v /\ to = "live" /\ r[p] = "live"
  BY FirstIsThere DEF Replaced
<1>5. q[v] = to /\ (p # None => q[p] = "archived")
  BY <1>4 DEF Moved
<1>6. \A w \in DOMAIN r : w # v /\ w # p => q[w] = r[w]
  BY DEF Moved
<1>7. Single(q)
  <2> SUFFICES ASSUME NEW s \in {"live", "canary", "shadow"},
                      NEW w \in DOMAIN q, NEW u \in DOMAIN q, q[w] = s, q[u] = s, w # u
               PROVE  FALSE
    BY DEF Single
  <2>1. DOMAIN q = DOMAIN r
    BY <1>1, <1>2
  <2>2. w # p /\ u # p
    BY <1>1, <1>5, <2>1 DEF None
  <2>3. CASE w # v /\ u # v
    BY <1>6, <2>1, <2>2, <2>3 DEF Single
  <2>4. ASSUME NEW y \in DOMAIN r, y # v, y # p, r[y] = to,
               to \in {"live", "canary", "shadow"}
        PROVE  FALSE
    <3>1. CASE to \in {"canary", "shadow"}
      BY <2>4, <3>1 DEF MayMove, InStage
    <3>2. CASE to = "live"
      <4>1. FirstIn(r, "live") = y
        BY <2>4, <3>2, FirstIsSingle
      <4> QED
        BY <2>4, <3>2, <4>1 DEF Replaced
    <3> QED
      BY <2>4, <3>1, <3>2
  <2>5. CASE w = v
    <3>1. r[u] = to /\ s = to
      BY <1>5, <1>6, <2>1, <2>2, <2>5
    <3> QED
      BY <2>1, <2>2, <2>4, <2>5, <3>1
  <2>6. CASE u = v
    <3>1. r[w] = to /\ s = to
      BY <1>5, <1>6, <2>1, <2>2, <2>6
    <3> QED
      BY <2>1, <2>2, <2>4, <2>6, <3>1
  <2> QED
    BY <2>3, <2>5, <2>6
<1> HIDE DEF p, q
<1>8. Transition(r, q, v, to)
  BY <1>3, <1>4, <1>5, <1>6, <1>7 DEF Transition, p
<1> QED
  BY <1>8 DEF q

\* What a rollback makes of it: the canary or the live version goes, and only in the
\* place of a live one an archived version comes back.
Rolling(r, q) ==
  LET w == Withdrawn(r)
      o == Restored(r)
  IN /\ Versions(q) /\ Len(q) = Len(r) /\ Single(q)
     /\ w \in DOMAIN r /\ r[w] \in {"canary", "live"} /\ q[w] = "rolled_back"
     /\ FirstIn(r, "canary") # None => r[w] = "canary" /\ o = None
     /\ o # None => /\ o \in DOMAIN r /\ o # w /\ r[w] = "live"
                    /\ r[o] = "archived" /\ q[o] = "live"
     /\ \A v \in DOMAIN r : v # w /\ v # o => q[v] = r[v]

LEMMA RolledBackRolls ==
  ASSUME NEW r, Versions(r), Single(r), Withdrawn(r) # None
  PROVE  Rolling(r, RolledBack(r))
<1> DEFINE q == RolledBack(r)
           w == Withdrawn(r)
           o == Restored(r)
<1>1. DOMAIN r = 1..Len(r) /\ Len(r) \in Version /\ r \in [DOMAIN r -> Stage] /\ 0 \notin DOMAIN r
  BY VersionsDomain DEF Versions
<1>2. q \in [1..Len(r) -> Stage]
  BY <1>1 DEF RolledBack, Stage
<1>3. Versions(q) /\ Len(q) = Len(r)
  BY <1>1, <1>2, VersionsAreFunctions
<1>4. w \in DOMAIN r /\ r[w] \in {"canary", "live"}
  BY FirstIsThere DEF Withdrawn
<1>5. FirstIn(r, "canary") # None => r[w] = "canary"
  BY FirstIsThere DEF Withdrawn
<1>6. o # None => o \in DOMAIN r /\ o # w /\ r[w] = "live" /\ r[o] = "archived"
  <2> SUFFICES ASSUME o # None
               PROVE  o \in DOMAIN r /\ o # w /\ r[w] = "live" /\ r[o] = "archived"
    OBVIOUS
  <2>1. r[w] = "live" /\ Restorable(r, w) # {} /\ o = Max(Restorable(r, w))
    BY DEF Restored
  <2>2. Restorable(r, w) \subseteq 1..Len(r)
    BY <1>1 DEF Restorable, InStage
  <2>3. Len(r) \in Nat
    BY DEF Versions
  <2>4. Max(Restorable(r, w)) \in Restorable(r, w)
    BY <2>1, <2>2, <2>3, MaxIsIn
  <2> QED
    BY <2>1, <2>4 DEF Restorable, InStage
<1>7. FirstIn(r, "canary") # None => o = None
  BY <1>5, <1>6
<1>8. q[w] = "rolled_back" /\ (o # None => q[o] = "live")
  BY <1>4, <1>6 DEF RolledBack
<1>9. \A v \in DOMAIN r : v # w /\ v # o => q[v] = r[v]
  BY DEF RolledBack
<1>10. Single(q)
  <2> SUFFICES ASSUME NEW s \in {"live", "canary", "shadow"},
                      NEW x \in DOMAIN q, NEW y \in DOMAIN q, q[x] = s, q[y] = s, x # y
               PROVE  FALSE
    BY DEF Single
  <2>1. DOMAIN q = DOMAIN r
    BY <1>1, <1>2
  <2>2. x # w /\ y # w
    BY <1>8
  <2>3. CASE x # o /\ y # o
    BY <1>9, <2>1, <2>2, <2>3 DEF Single
  <2>4. ASSUME o # None, NEW z \in DOMAIN r, z # o, z # w, q[z] = "live" PROVE FALSE
    <3>1. r[z] = "live" /\ r[w] = "live" /\ z # w
      BY <1>6, <1>9, <2>4
    <3> QED
      BY <1>4, <3>1 DEF Single
  <2>5. CASE x = o
    <3>1. o # None /\ s = "live"
      BY <1>1, <1>8, <2>1, <2>5 DEF None
    <3> QED
      BY <2>1, <2>2, <2>4, <2>5, <3>1
  <2>6. CASE y = o
    <3>1. o # None /\ s = "live"
      BY <1>1, <1>8, <2>1, <2>6 DEF None
    <3> QED
      BY <2>1, <2>2, <2>4, <2>6, <3>1
  <2> QED
    BY <2>3, <2>5, <2>6
<1> HIDE DEF q, w, o
<1>11. Rolling(r, q)
  BY <1>3, <1>4, <1>5, <1>6, <1>7, <1>8, <1>9, <1>10 DEF Rolling, w, o
<1> QED
  BY <1>11 DEF q

-----------------------------------------------------------------------------
\* A version that was live before comes back, or the canary becomes live: its row is
\* the one the store has still to get.
Unsaved ==
  /\ op.then \in {"reset", "swap"}
  /\ op.version \in DOMAIN registry /\ registry[op.version] = "live"
  /\ stages[op.version] \in {"archived", "canary"}
  /\ \A v \in DOMAIN registry : v # op.version => stages[v] = registry[v]

OpType ==
  op \in [ pc : {"idle", "shadow", "canary", "save", "reset", "swap", "guard"},
           version : Version \cup {None}, then : {"idle", "reset", "swap"} ]

\* Memory and store are one step of one operation apart, each with one of each stage.
RegistryInv ==
  /\ Versions(registry) /\ Versions(stages) /\ Len(stages) = Len(registry)
  /\ Single(registry) /\ Single(stages)
  /\ op.pc # "save" => stages = registry /\ op.then = "idle"
  /\ op.pc \in {"shadow", "canary"} => op.version \in DOMAIN registry
  /\ op.pc = "save" => Unsaved
  /\ OpType

\* What is saved moves along an edge or stays, and no version is forgotten.
Moving ==
  /\ DOMAIN stages \subseteq DOMAIN stages'
  /\ \A v \in DOMAIN stages :
       \/ stages'[v] = stages[v]
       \/ stages'[v] \in ALLOWED[stages[v]]
       \/ <<stages[v], stages'[v]>> \in SYSTEM_EDGES

\* A mutation of one version.
LEMMA OneSave ==
  ASSUME RegistryInv, op.pc # "save",
         NEW q, Versions(q), Single(q), DOMAIN registry \subseteq DOMAIN q,
         NEW v \in DOMAIN q, \A w \in DOMAIN q : w # v => w \in DOMAIN registry /\ q[w] = registry[w],
         v \in DOMAIN registry => q[v] \in ALLOWED[registry[v]],
         NEW next \in {"shadow", "canary", "reset", "swap"},
         Mutate(q, <<v>>, next)
  PROVE  RegistryInv' /\ Moving
<1>1. stages = registry
  BY DEF RegistryInv
<1>2. /\ registry' = q
      /\ stages' = [w \in DOMAIN q |-> IF w = v THEN q[w] ELSE stages[w]]
      /\ op' = [pc |-> next, version |-> v, then |-> "idle"]
  BY DEF Mutate
<1>3. /\ DOMAIN q = 1..Len(q) /\ Len(q) \in Version /\ q \in [1..Len(q) -> Stage]
      /\ DOMAIN q \subseteq Version
  BY VersionsDomain DEF Versions
<1>4. stages' = q
  BY <1>1, <1>2, <1>3
<1>5. RegistryInv'
  BY <1>2, <1>3, <1>4 DEF RegistryInv, OpType
<1>6. Moving
  BY <1>1, <1>4 DEF Moving
<1> QED
  BY <1>5, <1>6

\* A mutation of two versions, of which the first is saved.
LEMMA TwoSaves ==
  ASSUME RegistryInv, op.pc # "save",
         NEW q, Versions(q), Single(q), Len(q) = Len(registry),
         NEW p \in DOMAIN registry, NEW v \in DOMAIN registry, p # v,
         \A w \in DOMAIN registry : w # p /\ w # v => q[w] = registry[w],
         q[p] \in {"archived", "rolled_back"}, q[p] \in ALLOWED[registry[p]],
         q[v] = "live", registry[v] \in {"archived", "canary"},
         NEW next \in {"reset", "swap"},
         Mutate(q, <<p, v>>, next)
  PROVE  RegistryInv' /\ Moving
<1>1. stages = registry
  BY DEF RegistryInv
<1>2. /\ registry' = q
      /\ stages' = [w \in DOMAIN q |-> IF w = p THEN q[w] ELSE stages[w]]
      /\ op' = [pc |-> "save", version |-> v, then |-> next]
  BY DEF Mutate
<1>3. /\ DOMAIN q = 1..Len(q) /\ Len(q) \in Version /\ q \in [1..Len(q) -> Stage]
      /\ DOMAIN q \subseteq Version /\ DOMAIN q = DOMAIN registry
      /\ registry \in [1..Len(q) -> Stage] /\ Versions(registry)
  BY VersionsDomain DEF Versions, RegistryInv
<1>4. stages' \in [1..Len(q) -> Stage]
  BY <1>1, <1>2, <1>3
<1>5. Versions(stages') /\ Len(stages') = Len(q)
  BY <1>3, <1>4, VersionsAreFunctions
<1>6. stages'[p] = q[p] /\ stages'[v] = registry[v]
  BY <1>1, <1>2, <1>3
<1>7. \A w \in DOMAIN q : w # p => stages'[w] = registry[w]
  BY <1>1, <1>2
<1>8. Single(stages')
  <2> SUFFICES ASSUME NEW s \in {"live", "canary", "shadow"}, NEW x \in DOMAIN q, NEW y \in DOMAIN q,
                      stages'[x] = s, stages'[y] = s
               PROVE  x = y
    BY <1>3, <1>4 DEF Single
  <2>1. x # p /\ y # p
    BY <1>6
  <2>2. registry[x] = s /\ registry[y] = s
    BY <1>7, <2>1
  <2> QED
    BY <1>3, <2>2 DEF RegistryInv, Single
<1>9. Unsaved'
  <2>1. \A w \in DOMAIN q : w # v => stages'[w] = q[w]
    BY <1>3, <1>6, <1>7
  <2>2. registry' = q /\ op'.version = v /\ op'.then = next
    BY <1>2
  <2> QED
    BY <1>3, <1>6, <2>1, <2>2 DEF Unsaved
<1>10. OpType'
  BY <1>2, <1>3 DEF OpType
<1>11. op'.pc = "save"
  BY <1>2
<1>12. RegistryInv'
  BY <1>2, <1>5, <1>8, <1>9, <1>10, <1>11 DEF RegistryInv
<1>13. Moving
  <2>1. DOMAIN stages = DOMAIN q /\ DOMAIN stages' = DOMAIN q
    BY <1>1, <1>3, <1>4
  <2>2. \A w \in DOMAIN q : w # p => stages'[w] = stages[w]
    BY <1>1, <1>7
  <2>3. stages'[p] \in ALLOWED[stages[p]]
    BY <1>1, <1>6
  <2> QED
    BY <2>1, <2>2, <2>3 DEF Moving
<1> QED
  BY <1>12, <1>13

LEMMA WithdrawKeeps ==
  ASSUME RegistryInv, op.pc # "save", Withdrawn(registry) # None, Withdraw("reset")
  PROVE  RegistryInv' /\ Moving
<1> DEFINE q == RolledBack(registry)
           w == Withdrawn(registry)
           o == Restored(registry)
<1>1. Rolling(registry, q)
  BY RolledBackRolls DEF RegistryInv
<1>2. /\ Versions(q) /\ Len(q) = Len(registry) /\ Single(q) /\ w \in DOMAIN registry
      /\ registry[w] \in {"canary", "live"} /\ q[w] = "rolled_back"
  BY <1>1 DEF Rolling
<1>3. DOMAIN q = DOMAIN registry
  BY <1>2, VersionsDomain DEF RegistryInv
<1>4. o # None => /\ o \in DOMAIN registry /\ o # w /\ registry[w] = "live"
                  /\ registry[o] = "archived" /\ q[o] = "live"
  BY <1>1 DEF Rolling
<1>5. \A v \in DOMAIN registry : v # w /\ v # o => q[v] = registry[v]
  BY <1>1 DEF Rolling
<1>6. "rolled_back" \in ALLOWED[registry[w]]
  BY <1>2 DEF ALLOWED, Stage
<1>7. Mutate(q, Saves(w, o), "reset")
  BY DEF Withdraw
<1>8. 0 \notin DOMAIN registry
  BY VersionsDomain DEF RegistryInv
<1> HIDE DEF q, w, o
<1>9. CASE o = None
  <2>1. Mutate(q, <<w>>, "reset")
    BY <1>7, <1>9 DEF Saves
  <2>2. \A v \in DOMAIN q : v # w => v \in DOMAIN registry /\ q[v] = registry[v]
    BY <1>3, <1>5, <1>8, <1>9 DEF None
  <2>3. w \in DOMAIN q /\ q[w] \in ALLOWED[registry[w]]
    BY <1>2, <1>3, <1>6
  <2> QED
    BY <1>2, <1>3, <2>1, <2>2, <2>3, OneSave
<1>10. CASE o # None
  <2>1. Mutate(q, <<w, o>>, "reset")
    BY <1>7, <1>10 DEF Saves
  <2> QED
    BY <1>2, <1>4, <1>5, <1>6, <1>10, <2>1, TwoSaves
<1> QED
  BY <1>9, <1>10

LEMMA EnterKeeps ==
  ASSUME RegistryInv, NEW to \in {"shadow", "canary"}, NEW next \in {"canary", "reset"},
         op.pc = to, MayMove(registry, op.version, to),
         Mutate(Moved(registry, op.version, to), <<op.version>>, next)
  PROVE  RegistryInv' /\ Moving /\ Transition(registry, registry', op.version, to)
<1> DEFINE v == op.version
           q == Moved(registry, v, to)
<1>1. v \in DOMAIN registry /\ to \in Stage
  BY DEF RegistryInv, Stage
<1>2. Transition(registry, q, v, to)
  BY <1>1, MovedMoves DEF RegistryInv
<1>3. Versions(q) /\ Len(q) = Len(registry) /\ Single(q) /\ q[v] = to
  BY <1>2 DEF Transition
<1>4. DOMAIN q = DOMAIN registry /\ 0 \notin DOMAIN registry
  BY <1>3, VersionsDomain DEF RegistryInv
<1>5. Replaced(registry, v, to) = None
  BY DEF Replaced
<1>6. \A w \in DOMAIN q : w # v => w \in DOMAIN registry /\ q[w] = registry[w]
  BY <1>2, <1>4, <1>5 DEF Transition, None
<1>7. q[v] \in ALLOWED[registry[v]]
  BY <1>3 DEF MayMove
<1>8. Mutate(q, <<v>>, next)
  OBVIOUS
<1>9. registry' = q
  BY <1>8 DEF Mutate
<1> HIDE DEF q, v
<1>10. RegistryInv' /\ Moving
  BY <1>1, <1>3, <1>4, <1>6, <1>7, <1>8, OneSave
<1>11. Transition(registry, registry', v, to)
  BY <1>2, <1>9
<1> QED
  BY <1>10, <1>11 DEF v

LEMMA AdvanceKeeps ==
  ASSUME RegistryInv, Advance
  PROVE  RegistryInv' /\ Moving
<1> DEFINE v == FirstIn(registry, "canary")
           q == Moved(registry, v, "live")
           p == Replaced(registry, v, "live")
<1>1. op.pc = "idle" /\ v # None /\ Mutate(q, IF p = None THEN <<v>> ELSE <<p, v>>, "swap")
  BY DEF Advance
<1>2. v \in DOMAIN registry /\ registry[v] = "canary" /\ 0 \notin DOMAIN registry
  BY <1>1, FirstIsThere, VersionsDomain DEF RegistryInv
<1>3. "live" \in ALLOWED[registry[v]]
  BY <1>2 DEF ALLOWED, Stage
<1>4. Transition(registry, q, v, "live")
  BY <1>2, <1>3, MovedMoves DEF RegistryInv, MayMove, Stage
<1>5. Versions(q) /\ Len(q) = Len(registry) /\ Single(q) /\ q[v] = "live"
  BY <1>4 DEF Transition
<1>6. DOMAIN q = DOMAIN registry
  BY <1>5, VersionsDomain DEF RegistryInv
<1>7. p # None => p \in DOMAIN registry /\ p # v /\ registry[p] = "live" /\ q[p] = "archived"
  BY <1>4 DEF Transition
<1>8. \A w \in DOMAIN registry : w # v /\ w # p => q[w] = registry[w]
  BY <1>4 DEF Transition
<1> HIDE DEF q, v, p
<1>9. CASE p = None
  <2>1. Mutate(q, <<v>>, "swap")
    BY <1>1, <1>9
  <2>2. \A w \in DOMAIN q : w # v => w \in DOMAIN registry /\ q[w] = registry[w]
    BY <1>2, <1>6, <1>8, <1>9 DEF None
  <2>3. v \in DOMAIN q /\ q[v] \in ALLOWED[registry[v]]
    BY <1>2, <1>3, <1>5, <1>6
  <2> QED
    BY <1>1, <1>5, <1>6, <2>1, <2>2, <2>3, OneSave
<1>10. CASE p # None
  <2>1. Mutate(q, <<p, v>>, "swap")
    BY <1>1, <1>10
  <2>2. "archived" \in ALLOWED[registry[p]]
    BY <1>7, <1>10 DEF ALLOWED, Stage
  <2> QED
    BY <1>1, <1>2, <1>5, <1>7, <1>8, <1>10, <2>1, <2>2, TwoSaves
<1> QED
  BY <1>9, <1>10

\* Every operation of the platform keeps the registry and its store one step apart.
LEMMA RegistryStep ==
  ASSUME RegistryInv, [Next]_vars
  PROVE  RegistryInv' /\ Moving
<1>1. CASE UNCHANGED <<registry, stages, op>>
  <2>1. RegistryInv'
    BY <1>1 DEF RegistryInv, Unsaved, OpType
  <2> QED
    BY <1>1, <2>1 DEF Moving
<1>2. CASE Finish /\ op.pc # "save"
  <2>1. registry' = registry /\ stages' = stages /\ op' = Idle /\ stages = registry
    BY <1>2 DEF Finish, RegistryInv
  <2>2. OpType'
    BY <2>1 DEF Idle, OpType
  <2>3. op'.pc = "idle" /\ op'.then = "idle"
    BY <2>1 DEF Idle
  <2>4. RegistryInv'
    BY <2>1, <2>2, <2>3 DEF RegistryInv
  <2> QED
    BY <2>1, <2>4 DEF Moving
<1>3. CASE Promote
  <2> DEFINE q == Registered(registry)
             n == Len(registry) + 1
  <2>1. Mutate(q, <<n>>, "shadow") /\ op.pc = "idle" /\ Len(registry) < MaxVersions
    BY <1>3 DEF Promote
  <2>2. MaxVersions \in Nat /\ n \in Version /\ registry \in Seq(Stage)
    BY <2>1, RolloutAssumption DEF RegistryInv, Versions, Version
  <2>3. /\ q \in Seq(Stage) /\ Len(q) = n /\ q[n] = "draft" /\ DOMAIN q = 1..n
        /\ DOMAIN registry = 1..(n - 1) /\ \A w \in 1..(n - 1) : q[w] = registry[w]
    BY <2>2 DEF Registered, Stage
  <2>4. Versions(q)
    BY <2>2, <2>3 DEF Versions
  <2>5. n \in Nat
    BY <2>2 DEF Version
  <2>6. \A w \in DOMAIN q : w # n => w \in DOMAIN registry /\ q[w] = registry[w]
    BY <2>3, <2>5
  <2>7. n \in DOMAIN q /\ n \notin DOMAIN registry /\ DOMAIN registry \subseteq DOMAIN q
    BY <2>2, <2>3, <2>5 DEF Version
  <2>8. Single(q)
    <3> SUFFICES ASSUME NEW st \in {"live", "canary", "shadow"}, NEW x \in DOMAIN q, NEW y \in DOMAIN q,
                        q[x] = st, q[y] = st
                 PROVE  x = y
      BY DEF Single
    <3>1. x # n /\ y # n
      BY <2>3
    <3> QED
      BY <2>6, <3>1 DEF RegistryInv, Single
  <2> HIDE DEF q, n
  <2> QED
    BY <2>1, <2>4, <2>6, <2>7, <2>8, OneSave
<1>4. CASE EnterShadow \/ EnterCanary
  <2>1. PICK to \in {"shadow", "canary"}, next \in {"canary", "reset"} : EnterStage(to, next)
    BY <1>4 DEF EnterShadow, EnterCanary
  <2>2. CASE MayMove(registry, op.version, to)
    BY <2>1, <2>2, EnterKeeps DEF EnterStage
  <2>3. CASE ~MayMove(registry, op.version, to)
    BY <1>2, <2>1, <2>3 DEF EnterStage, Refuse
  <2> QED
    BY <2>2, <2>3
<1>5. CASE ResetCanaryWindow \/ SwapWindows
  BY <1>2, <1>5 DEF ResetCanaryWindow, SwapWindows
<1>6. CASE Rollback
  BY <1>6, WithdrawKeeps DEF Rollback
<1>7. CASE Advance
  BY <1>7, AdvanceKeeps
<1>8. CASE SaveSecond
  <2>1. /\ registry' = registry
        /\ stages' = [stages EXCEPT ![op.version] = registry[op.version]]
        /\ op' = [pc |-> op.then, version |-> op.version, then |-> "idle"]
        /\ op.pc = "save" /\ Unsaved
    BY <1>8 DEF SaveSecond, RegistryInv
  <2>2. /\ Versions(registry) /\ Versions(stages) /\ DOMAIN stages = DOMAIN registry
        /\ stages \in [DOMAIN registry -> Stage] /\ registry \in [DOMAIN registry -> Stage]
    BY VersionsDomain DEF RegistryInv
  <2>3. stages' = registry
    BY <2>1, <2>2 DEF Unsaved
  <2>4. OpType' /\ op'.then = "idle" /\ op'.pc \in {"reset", "swap"}
    BY <2>1 DEF OpType, RegistryInv, Unsaved
  <2>5. RegistryInv'
    BY <2>1, <2>3, <2>4 DEF RegistryInv
  <2>6. Moving
    <3>1. /\ DOMAIN stages' = DOMAIN stages
          /\ \A v \in DOMAIN stages : v # op.version => stages'[v] = stages[v]
      BY <2>1
    <3>2. stages'[op.version] = "live"
      BY <2>1, <2>3 DEF Unsaved
    <3>3. CASE stages[op.version] = "archived"
      BY <3>1, <3>2, <3>3 DEF Moving, SYSTEM_EDGES
    <3>4. CASE stages[op.version] = "canary"
      BY <3>1, <3>2, <3>4 DEF Moving, ALLOWED, Stage
    <3> QED
      BY <2>1, <3>3, <3>4 DEF Unsaved
  <2> QED
    BY <2>5, <2>6
<1>9. ASSUME NEW r \in Request, ServeCanary(r) \/ ServeLive(r)
      PROVE  RegistryInv' /\ Moving
  BY <1>1, <1>9 DEF ServeCanary, ServeLive, Serve
<1>10. ASSUME NEW r \in Request, NEW clicked \in BOOLEAN, Record(r, clicked)
       PROVE  RegistryInv' /\ Moving
  <2>1. /\ registry' = registry /\ stages' = stages /\ op.pc = "idle"
        /\ op' = [Idle EXCEPT !.pc = "guard"] \/ op' = Idle
    BY <1>10 DEF Record
  <2>2. stages = registry
    BY <2>1 DEF RegistryInv
  <2>3. OpType' /\ op'.then = "idle" /\ op'.pc \in {"idle", "guard"}
    BY <2>1 DEF OpType, Idle
  <2>4. RegistryInv'
    BY <2>1, <2>2, <2>3 DEF RegistryInv
  <2> QED
    BY <2>1, <2>4 DEF Moving
<1>11. CASE EnforceGuard
  <2>1. CASE FirstIn(registry, "canary") # None /\ Withdraw("reset")
    <3>1. Withdrawn(registry) # None
      BY <2>1 DEF Withdrawn
    <3> QED
      BY <1>11, <2>1, <3>1, WithdrawKeeps DEF EnforceGuard
  <2>2. CASE Refuse
    BY <1>2, <1>11, <2>2 DEF EnforceGuard, Refuse
  <2> QED
    BY <1>11, <2>1, <2>2 DEF EnforceGuard
<1>12. CASE Restart
  <2>1. registry' = stages /\ stages' = stages /\ op' = Idle
    BY <1>12 DEF Restart
  <2>2. OpType' /\ op'.then = "idle" /\ op'.pc = "idle"
    BY <2>1 DEF OpType, Idle
  <2>3. RegistryInv'
    BY <2>1, <2>2 DEF RegistryInv
  <2> QED
    BY <2>1, <2>3 DEF Moving
<1> QED
  BY <1>1, <1>3, <1>4, <1>5, <1>6, <1>7, <1>8, <1>9, <1>10, <1>11, <1>12 DEF Next, vars

-----------------------------------------------------------------------------
Served == {r \in Request : request[r].pc = "served"}

Observed == [version : Version \cup {None}, clicked : BOOLEAN]

\* A request that is being served has been counted, and is in no window yet.
WindowInv ==
  /\ events = window /\ DOMAIN window = Windows
  /\ served \in 0..MaxServed
  /\ Cardinality(Served) <= served
  /\ \A w \in Windows : DOMAIN window[w] \subseteq Observed
  /\ \A w \in Windows : \A e \in DOMAIN window[w] :
       window[w][e] \in Nat \ {0} /\ window[w][e] + Cardinality(Served) <= served

\* A request the canary answers names a version there is.
RequestInv ==
  /\ request \in [Request -> [ pc : {"free", "served"}, version : Version \cup {None},
                               stage : Windows ]]
  /\ \A r \in Request : request[r].pc = "served" /\ request[r].stage = "canary" =>
       request[r].version \in DOMAIN registry
  /\ ranker \in DOMAIN registry

\* Unless it is about to be cleared, the canary's window is the canary's.
CanaryInv ==
  ~overtaken /\ op.pc \notin {"save", "reset", "swap"} =>
    \A e \in DOMAIN window["canary"] : e.version = FirstIn(registry, "canary")

RolloutInv ==
  RegistryInv /\ RequestInv /\ WindowInv /\ CanaryInv /\ overtaken \in BOOLEAN

LEMMA ServedIsFinite == IsFiniteSet(Served) /\ Cardinality(Served) \in Nat
<1>1. IsFiniteSet(Served)
  BY RolloutAssumption, FS_Subset DEF Served
<1> QED
  BY <1>1, FS_CardinalityType

LEMMA RequestStep ==
  ASSUME RegistryInv, RequestInv, Moving, RegistryInv', [Next]_vars
  PROVE  RequestInv'
<1>1. DOMAIN registry \subseteq DOMAIN registry'
  BY VersionsDomain DEF RegistryInv, Moving
<1>2. CASE UNCHANGED <<request, ranker>>
  BY <1>1, <1>2 DEF RequestInv
<1>3. ASSUME NEW r \in Request, ServeCanary(r) \/ ServeLive(r)
      PROVE  RequestInv'
  <2> DEFINE c == FirstIn(registry, "canary")
             l == FirstIn(registry, "live")
  <2>1. c # None => c \in DOMAIN registry
    BY FirstIsThere DEF RegistryInv
  <2>2. l # None => l \in DOMAIN registry
    BY FirstIsThere DEF RegistryInv
  <2>3. DOMAIN registry \subseteq Version
    BY VersionsDomain DEF RegistryInv
  <2>4. \/ /\ c \in DOMAIN registry
           /\ request' = [request EXCEPT ![r] = [pc |-> "served", version |-> c, stage |-> "canary"]]
        \/ request' = [request EXCEPT ![r] = [pc |-> "served", version |-> l, stage |-> "live"]]
    BY <1>3, <2>1 DEF ServeCanary, ServeLive, Serve
  <2>5. ranker' = ranker /\ registry' = registry
    BY <1>3 DEF ServeCanary, ServeLive, Serve
  <2>6. l \in Version \cup {None}
    BY <2>2, <2>3
  <2> HIDE DEF c, l
  <2> QED
    BY <2>3, <2>4, <2>5, <2>6 DEF RequestInv, Windows
<1>4. ASSUME NEW r \in Request, NEW clicked \in BOOLEAN, Record(r, clicked)
      PROVE  RequestInv'
  <2>1. request' = [request EXCEPT ![r] = Free] /\ ranker' = ranker /\ registry' = registry
    BY <1>4 DEF Record
  <2>2. /\ Free \in [pc : {"free", "served"}, version : Version \cup {None}, stage : Windows]
        /\ Free.pc = "free"
    BY DEF Free, Windows
  <2> QED
    BY <2>1, <2>2 DEF RequestInv
<1>5. CASE Restart
  <2>1. registry' = stages /\ request' = [r \in Request |-> Free]
    BY <1>5 DEF Restart
  <2>2. /\ Free \in [pc : {"free", "served"}, version : Version \cup {None}, stage : Windows]
        /\ Free.pc = "free"
    BY DEF Free, Windows
  <2>3. ranker' \in DOMAIN stages
    <3>1. FirstIn(stages, "live") # None => FirstIn(stages, "live") \in DOMAIN stages
      BY FirstIsThere DEF RegistryInv
    <3>2. 1 \in DOMAIN stages
      BY VersionsDomain DEF RegistryInv
    <3> QED
      BY <1>5, <3>1, <3>2 DEF Restart
  <2> QED
    BY <2>1, <2>2, <2>3 DEF RequestInv
<1> QED
  <2>1. Next => UNCHANGED <<request, ranker>> \/ Restart \/ \E r \in Request :
          ServeCanary(r) \/ ServeLive(r) \/ \E clicked \in BOOLEAN : Record(r, clicked)
    BY DEF Next, Promote, EnterShadow, EnterCanary, EnterStage, ResetCanaryWindow, Rollback, Withdraw,
       Advance, SaveSecond, SwapWindows, EnforceGuard, Mutate, Refuse, Finish
  <2> QED
    BY <1>2, <1>3, <1>4, <1>5, <2>1 DEF vars

LEMMA WindowStep ==
  ASSUME RequestInv, WindowInv, [Next]_vars
  PROVE  WindowInv'
<1>1. /\ IsFiniteSet(Served) /\ Cardinality(Served) \in Nat
      /\ MaxServed \in Nat
  BY ServedIsFinite, RolloutAssumption
<1>2. CASE UNCHANGED <<window, events, request, served>>
  BY <1>2 DEF WindowInv, Served
<1>3. CASE ResetCanaryWindow
  <2>1. /\ window' = [window EXCEPT !["canary"] = EmptyBag] /\ events' = window'
        /\ UNCHANGED <<request, served>>
    BY <1>3 DEF ResetCanaryWindow, Finish, WindowInv
  <2>2. DOMAIN EmptyBag = {}
    BY DEF EmptyBag, SetToBag
  <2>3. Served' = Served
    BY <2>1 DEF Served
  <2> HIDE DEF EmptyBag
  <2> QED
    BY <2>1, <2>2, <2>3 DEF WindowInv, Windows
<1>4. CASE SwapWindows
  <2>1. /\ window' = [NoEvents EXCEPT !["live"] = window["canary"]] /\ events' = window'
        /\ UNCHANGED <<request, served>>
    BY <1>4 DEF SwapWindows, Finish, WindowInv
  <2>2. DOMAIN EmptyBag = {}
    BY DEF EmptyBag, SetToBag
  <2>3. Served' = Served
    BY <2>1 DEF Served
  <2>4. /\ DOMAIN window' = Windows /\ window'["live"] = window["canary"]
        /\ window'["canary"] = EmptyBag
    BY <2>1 DEF NoEvents, Windows
  <2> QED
    BY <2>1, <2>2, <2>3, <2>4 DEF WindowInv, Windows
<1>5. ASSUME NEW r \in Request, ServeCanary(r) \/ ServeLive(r)
      PROVE  WindowInv'
  <2>1. /\ request[r].pc = "free" /\ served < MaxServed /\ served' = served + 1
        /\ UNCHANGED <<window, events>>
        /\ \E m : m.pc = "served" /\ request' = [request EXCEPT ![r] = m]
    BY <1>5 DEF ServeCanary, ServeLive, Serve
  <2>2. Served' = Served \cup {r} /\ r \notin Served
    BY <2>1 DEF Served, RequestInv
  <2>3. Cardinality(Served') = Cardinality(Served) + 1
    BY <1>1, <2>2, FS_AddElement
  <2>4. served \in Nat /\ served' \in 0..MaxServed
    BY <1>1, <2>1 DEF WindowInv
  <2> QED
    BY <1>1, <2>1, <2>3, <2>4 DEF WindowInv
<1>6. ASSUME NEW r \in Request, NEW clicked \in BOOLEAN, Record(r, clicked)
      PROVE  WindowInv'
  <2> DEFINE w == request[r].stage
             e == [version |-> request[r].version, clicked |-> clicked]
             grown == window[w] (+) SetToBag({e})
  <2>1. /\ request[r].pc = "served" /\ request' = [request EXCEPT ![r] = Free]
        /\ window' = [window EXCEPT ![w] = grown] /\ events' = window' /\ served' = served
    BY <1>6 DEF Record, WindowInv
  <2>2. e \in Observed /\ w \in Windows
    BY DEF RequestInv, Observed
  <2>3. /\ DOMAIN grown = DOMAIN window[w] \cup {e}
        /\ \A d \in DOMAIN grown : grown[d] = (IF d \in DOMAIN window[w] THEN window[w][d] ELSE 0)
                                              + (IF d = e THEN 1 ELSE 0)
    BY DEF (+), SetToBag
  <2>4. Served' = Served \ {r} /\ r \in Served
    BY <2>1 DEF Served, RequestInv, Free
  <2>5. Cardinality(Served') = Cardinality(Served) - 1
    BY <1>1, <2>4, FS_RemoveElement
  <2>6. /\ served \in Nat /\ Cardinality(Served) <= served
        /\ Cardinality(Served') \in Nat /\ Cardinality(Served') + 1 <= served
    BY <1>1, <2>4, <2>5, FS_EmptySet DEF WindowInv
  <2> HIDE DEF w, e, grown
  <2>7. \A x \in Windows : x # w => window'[x] = window[x]
    BY <2>1 DEF WindowInv
  <2>8. window'[w] = grown /\ DOMAIN window' = Windows
    BY <2>1, <2>2 DEF WindowInv
  <2>9. \A d \in DOMAIN grown : grown[d] \in Nat \ {0} /\ grown[d] + Cardinality(Served') <= served
    <3> SUFFICES ASSUME NEW d \in DOMAIN grown
                 PROVE  grown[d] \in Nat \ {0} /\ grown[d] + Cardinality(Served') <= served
      OBVIOUS
    <3>1. CASE d \in DOMAIN window[w]
      <4>1. window[w][d] \in Nat \ {0} /\ window[w][d] + Cardinality(Served) <= served
        BY <2>2, <3>1 DEF WindowInv
      <4>2. grown[d] = window[w][d] \/ grown[d] = window[w][d] + 1
        BY <2>3, <3>1, <4>1
      <4> QED
        BY <1>1, <2>5, <2>6, <4>1, <4>2
    <3>2. CASE d \notin DOMAIN window[w]
      <4>1. grown[d] = 1
        BY <2>3, <3>2
      <4> QED
        BY <2>6, <4>1
    <3> QED
      BY <3>1, <3>2
  <2>10. \A x \in Windows : \A d \in DOMAIN window[x] :
           window[x][d] \in Nat \ {0} /\ window[x][d] + Cardinality(Served') <= served
    <3> SUFFICES ASSUME NEW x \in Windows, NEW d \in DOMAIN window[x]
                 PROVE  window[x][d] \in Nat \ {0} /\ window[x][d] + Cardinality(Served') <= served
      OBVIOUS
    <3>1. window[x][d] \in Nat \ {0} /\ window[x][d] + Cardinality(Served) <= served
      BY DEF WindowInv
    <3> QED
      BY <1>1, <2>5, <2>6, <3>1
  <2>11. DOMAIN grown \subseteq Observed
    BY <2>2, <2>3 DEF WindowInv
  <2>12. Cardinality(Served') <= served
    BY <2>6
  <2>13. \A x \in Windows : DOMAIN window'[x] \subseteq Observed
    BY <2>7, <2>8, <2>11 DEF WindowInv
  <2>14. \A x \in Windows : \A d \in DOMAIN window'[x] :
           window'[x][d] \in Nat \ {0} /\ window'[x][d] + Cardinality(Served') <= served
    BY <2>7, <2>8, <2>9, <2>10
  <2>15. events' = window' /\ served' = served /\ served \in 0..MaxServed
    BY <2>1 DEF WindowInv
  <2> QED
    BY <2>8, <2>12, <2>13, <2>14, <2>15 DEF WindowInv
<1>7. CASE Restart
  <2>1. /\ window' = window /\ events' = events /\ served' = served
        /\ request' = [r \in Request |-> Free]
    BY <1>7 DEF Restart, WindowInv
  <2>2. Served' = {}
    BY <2>1 DEF Served, Free
  <2>3. Cardinality(Served') = 0
    BY <2>2, FS_EmptySet
  <2>4. \A w \in Windows : \A e \in DOMAIN window[w] : window[w][e] + 0 <= served
    <3> SUFFICES ASSUME NEW w \in Windows, NEW e \in DOMAIN window[w]
                 PROVE  window[w][e] + 0 <= served
      OBVIOUS
    <3>1. window[w][e] \in Nat /\ window[w][e] + Cardinality(Served) <= served /\ served \in Nat
      BY DEF WindowInv
    <3> QED
      BY <1>1, <3>1
  <2> QED
    BY <1>1, <2>1, <2>3, <2>4 DEF WindowInv
<1> QED
  <2>1. Next => UNCHANGED <<window, events, request, served>> \/ Restart
                \/ ResetCanaryWindow \/ SwapWindows
                \/ \E r \in Request :
                     ServeCanary(r) \/ ServeLive(r) \/ \E clicked \in BOOLEAN : Record(r, clicked)
    BY DEF Next, Promote, EnterShadow, EnterCanary, EnterStage, Rollback, Withdraw,
       Advance, SaveSecond, EnforceGuard, Mutate, Refuse, Finish
  <2> QED
    BY <1>2, <1>3, <1>4, <1>5, <1>6, <1>7, <2>1 DEF vars

LEMMA SameFirst ==
  ASSUME NEW r, NEW q, NEW s, DOMAIN r \subseteq DOMAIN q,
         \A v \in DOMAIN q : q[v] = s <=> v \in DOMAIN r /\ r[v] = s
  PROVE  FirstIn(q, s) = FirstIn(r, s)
<1>1. InStage(q, s) = InStage(r, s)
  BY DEF InStage
<1> QED
  BY <1>1 DEF FirstIn

\* What is counted for the canary is the canary's.
LEMMA CanaryStep ==
  ASSUME RegistryInv, RequestInv, WindowInv, CanaryInv, overtaken \in BOOLEAN, [Next]_vars
  PROVE  CanaryInv' /\ overtaken' \in BOOLEAN
<1>1. CASE UNCHANGED <<registry, window, overtaken>> /\ (op' = op \/ (op' = Idle /\ op.pc \notin {"save", "reset", "swap"}))
  BY <1>1 DEF CanaryInv, Idle
<1>2. CASE UNCHANGED overtaken /\ op'.pc \in {"save", "reset", "swap"}
  BY <1>2 DEF CanaryInv
<1>3. CASE Promote
  <2>1. /\ registry' = Append(registry, "draft") /\ op.pc = "idle" /\ registry \in Seq(Stage)
        /\ window' = window /\ overtaken' = overtaken
    BY <1>3 DEF Promote, Mutate, Registered, RegistryInv, Versions
  <2>2. /\ Len(registry) \in Nat /\ DOMAIN registry = 1..Len(registry)
        /\ DOMAIN registry' = 1..(Len(registry) + 1) /\ registry'[Len(registry) + 1] = "draft"
        /\ \A v \in DOMAIN registry : registry'[v] = registry[v]
    BY <2>1 DEF Stage
  <2>3. \A v \in DOMAIN registry' : registry'[v] = "canary"
          <=> v \in DOMAIN registry /\ registry[v] = "canary"
    BY <2>2
  <2>4. FirstIn(registry', "canary") = FirstIn(registry, "canary")
    BY <2>2, <2>3, SameFirst
  <2> QED
    BY <2>1, <2>4 DEF CanaryInv
<1>4. CASE EnterShadow
  <2>1. CASE MayMove(registry, op.version, "shadow")
    <3> DEFINE v == op.version
    <3>1. /\ op.pc = "shadow"
          /\ Mutate(Moved(registry, v, "shadow"), <<v>>, "canary")
      BY <1>4, <2>1 DEF EnterShadow, EnterStage
    <3>2. Transition(registry, registry', v, "shadow") /\ v \in DOMAIN registry
      BY <2>1, <3>1, EnterKeeps DEF RegistryInv
    <3>3. registry[v] = "draft"
      BY <2>1, <3>2, VersionsDomain DEF MayMove, ALLOWED, Stage, RegistryInv
    <3>4. Replaced(registry, v, "shadow") = None /\ 0 \notin DOMAIN registry
      BY VersionsDomain DEF Replaced, RegistryInv
    <3>5. DOMAIN registry' = DOMAIN registry /\ registry'[v] = "shadow"
      BY <3>2, VersionsDomain DEF Transition, RegistryInv
    <3>6. \A w \in DOMAIN registry : w # v => registry'[w] = registry[w]
      BY <3>2, <3>4 DEF Transition, None
    <3>7. FirstIn(registry', "canary") = FirstIn(registry, "canary")
      BY <3>3, <3>5, <3>6, SameFirst
    <3>8. window' = window /\ overtaken' = overtaken
      BY <3>1 DEF Mutate
    <3> QED
      BY <3>1, <3>7, <3>8 DEF CanaryInv
  <2>2. CASE ~MayMove(registry, op.version, "shadow")
    BY <1>1, <1>4, <2>2 DEF EnterShadow, EnterStage, Refuse, Finish
  <2> QED
    BY <2>1, <2>2
<1>5. CASE EnterCanary
  <2>1. CASE MayMove(registry, op.version, "canary")
    BY <1>2, <1>5, <2>1 DEF EnterCanary, EnterStage, Mutate
  <2>2. CASE ~MayMove(registry, op.version, "canary")
    BY <1>1, <1>5, <2>2 DEF EnterCanary, EnterStage, Refuse, Finish
  <2> QED
    BY <2>1, <2>2
<1>6. CASE ResetCanaryWindow \/ SwapWindows
  <2>1. window'["canary"] = EmptyBag /\ overtaken' = overtaken
    BY <1>6 DEF ResetCanaryWindow, SwapWindows, Finish, WindowInv, NoEvents, Windows
  <2>2. DOMAIN EmptyBag = {}
    BY DEF EmptyBag, SetToBag
  <2> QED
    BY <2>1, <2>2 DEF CanaryInv
<1>7. CASE Withdraw("reset")
  BY <1>2, <1>7 DEF Withdraw, Saves, Mutate
<1>8. CASE Advance
  BY <1>2, <1>8 DEF Advance, Mutate
<1>9. CASE SaveSecond
  BY <1>2, <1>9 DEF SaveSecond, RegistryInv, Unsaved
<1>10. ASSUME NEW r \in Request, ServeCanary(r) \/ ServeLive(r)
       PROVE  CanaryInv' /\ overtaken' \in BOOLEAN
  BY <1>1, <1>10 DEF ServeCanary, ServeLive, Serve
<1>11. ASSUME NEW r \in Request, NEW clicked \in BOOLEAN, Record(r, clicked)
       PROVE  CanaryInv' /\ overtaken' \in BOOLEAN
  <2> DEFINE v == request[r].version
             e == [version |-> v, clicked |-> clicked]
             w == request[r].stage
             grown == window[w] (+) SetToBag({e})
  <2>1. /\ request[r].pc = "served" /\ op.pc = "idle" /\ registry' = registry
        /\ window' = [window EXCEPT ![w] = grown]
        /\ overtaken' = (overtaken \/ (w = "canary" /\ registry[v] # "canary"))
    BY <1>11 DEF Record
  <2>2. w \in Windows
    BY DEF RequestInv
  <2>3. DOMAIN grown = DOMAIN window[w] \cup {e}
    BY DEF (+), SetToBag
  <2>4. ASSUME ~overtaken', w = "canary" PROVE v = FirstIn(registry, "canary")
    <3>1. registry[v] = "canary" /\ v \in DOMAIN registry
      BY <2>1, <2>4 DEF RequestInv
    <3> QED
      BY <3>1, FirstIsSingle DEF RegistryInv
  <2>5. e.version = v
    OBVIOUS
  <2> HIDE DEF e, v, grown, w
  <2>6. ASSUME NEW d \in DOMAIN window'["canary"], ~overtaken'
        PROVE  d.version = FirstIn(registry, "canary")
    <3>1. CASE d \in DOMAIN window["canary"]
      BY <2>1, <2>6, <3>1 DEF CanaryInv
    <3>2. CASE d \notin DOMAIN window["canary"]
      <4>1. w = "canary"
        BY <2>1, <2>2, <2>6, <3>2 DEF WindowInv, Windows
      <4>2. d = e
        BY <2>1, <2>3, <2>6, <3>2, <4>1 DEF WindowInv, Windows
      <4> QED
        BY <2>4, <2>5, <2>6, <4>1, <4>2
    <3> QED
      BY <3>1, <3>2
  <2> QED
    BY <2>1, <2>6 DEF CanaryInv
<1>12. CASE EnforceGuard
  BY <1>1, <1>7, <1>12 DEF EnforceGuard, Refuse, Finish
<1>13. CASE Restart
  <2>1. CASE op.pc = "idle"
    <3>1. registry' = registry /\ window' = window /\ overtaken' = overtaken /\ op' = Idle
      BY <1>13, <2>1 DEF Restart, RegistryInv, WindowInv
    <3> QED
      BY <1>1, <2>1, <3>1
  <2>2. CASE op.pc # "idle"
    BY <1>13, <2>2 DEF Restart, CanaryInv
  <2> QED
    BY <2>1, <2>2
<1>14. CASE UNCHANGED vars
  BY <1>1, <1>14 DEF vars
<1> QED
  BY <1>3, <1>4, <1>5, <1>6, <1>7, <1>8, <1>9, <1>10, <1>11, <1>12, <1>13, <1>14
     DEF Next, Rollback

\* The guard leaves the live version alone.
LEMMA GuardStep ==
  ASSUME RegistryInv, [Next]_vars, op.pc = "guard"
  PROVE  FirstIn(registry', "live") = FirstIn(registry, "live")
<1>1. CASE registry' = registry
  BY <1>1
<1>2. CASE EnforceGuard /\ FirstIn(registry, "canary") # None /\ Withdraw("reset")
  <2> DEFINE q == RolledBack(registry)
             w == Withdrawn(registry)
  <2>1. w # None
    BY <1>2 DEF Withdrawn
  <2>2. Rolling(registry, q)
    BY <2>1, RolledBackRolls DEF RegistryInv
  <2>3. /\ registry[w] = "canary" /\ Restored(registry) = None /\ w \in DOMAIN registry
        /\ q[w] = "rolled_back" /\ Versions(q) /\ Len(q) = Len(registry)
    BY <1>2, <2>2 DEF Rolling
  <2>4. DOMAIN q = DOMAIN registry /\ 0 \notin DOMAIN registry
    BY <2>3, VersionsDomain DEF RegistryInv
  <2>5. \A v \in DOMAIN registry : v # w => q[v] = registry[v]
    BY <2>2, <2>3, <2>4 DEF Rolling, None
  <2>6. registry' = q
    BY <1>2 DEF Withdraw, Mutate
  <2> HIDE DEF q, w
  <2>7. FirstIn(q, "live") = FirstIn(registry, "live")
    BY <2>3, <2>4, <2>5, SameFirst
  <2> QED
    BY <2>6, <2>7
<1>3. CASE Restart
  BY <1>3 DEF Restart, RegistryInv
<1>4. Next => EnforceGuard \/ Restart \/ \E r \in Request : ServeCanary(r) \/ ServeLive(r)
  BY DEF Next, Promote, EnterShadow, EnterCanary, EnterStage, ResetCanaryWindow, Rollback, Advance,
     SaveSecond, SwapWindows, Record
<1>5. EnforceGuard => (FirstIn(registry, "canary") # None /\ Withdraw("reset")) \/ registry' = registry
  BY DEF EnforceGuard, Refuse, Finish
<1> QED
  BY <1>1, <1>2, <1>3, <1>4, <1>5 DEF vars, ServeCanary, ServeLive, Serve

LEMMA RolloutStarts == Init => RolloutInv
<1> SUFFICES ASSUME Init
             PROVE  RolloutInv
  OBVIOUS
<1>1. MaxVersions \in Nat \ {0} /\ MaxServed \in Nat
  BY RolloutAssumption
<1>2. registry = <<"live">> /\ 1 \in Version /\ registry \in [1..1 -> Stage]
  BY <1>1 DEF Init, Version, Stage
<1>3. Versions(registry) /\ DOMAIN registry = 1..1
  BY <1>2, VersionsAreFunctions
<1>4. Single(registry)
  BY <1>3 DEF Single
<1>5. /\ op = Idle /\ stages = registry /\ ranker = 1 /\ overtaken = FALSE /\ served = 0
      /\ request = [r \in Request |-> Free] /\ window = NoEvents /\ events = NoEvents
  BY DEF Init
<1>6. RegistryInv
  BY <1>3, <1>4, <1>5 DEF RegistryInv, OpType, Idle
<1>7. RequestInv
  BY <1>3, <1>5 DEF RequestInv, Free, Windows
<1>8. Served = {}
  BY <1>5 DEF Served, Free
<1>9. Cardinality(Served) = 0
  BY <1>8, FS_EmptySet
<1>10. DOMAIN EmptyBag = {}
  BY DEF EmptyBag, SetToBag
<1>11. WindowInv /\ CanaryInv
  <2>1. DOMAIN window = Windows /\ \A w \in Windows : DOMAIN window[w] = {}
    BY <1>5, <1>10 DEF NoEvents
  <2>2. "canary" \in Windows
    BY DEF Windows
  <2> QED
    BY <1>1, <1>5, <1>9, <2>1, <2>2 DEF WindowInv, CanaryInv
<1> QED
  BY <1>5, <1>6, <1>7, <1>11 DEF RolloutInv

\* The invariant of the roll-out: promotions, the guard, an operator, requests and crashes
\* in any order leave memory and store one save apart (platform.py, store.py).
THEOREM RolloutAlways == Spec => []RolloutInv
<1>1. RolloutInv /\ [Next]_vars => RolloutInv'
  BY RegistryStep, RequestStep, WindowStep, CanaryStep DEF RolloutInv
<1> QED
  BY <1>1, RolloutStarts, PTL DEF Spec

\* One version of each stage at every moment, in memory and in the store; between
\* operations nothing is unsaved; and while operations are whole and requests not
\* overtaken, the guard judges the canary by the canary's own requests.
THEOREM RolloutAlwaysConsistent == Spec => []RolloutIsConsistent
<1>1. RolloutInv => RolloutIsConsistent
  <2> SUFFICES ASSUME RolloutInv
               PROVE  RolloutIsConsistent
    OBVIOUS
  <2>1. /\ RegistryInv /\ RequestInv /\ WindowInv /\ CanaryInv /\ overtaken \in BOOLEAN
        /\ Versions(registry) /\ Versions(stages)
    BY DEF RolloutInv, RegistryInv
  <2>2. IsRegistry(registry) /\ IsRegistry(stages)
    BY <2>1, VersionsDomain DEF IsRegistry, Versions
  <2>3. \A w \in Windows : IsWindow(window[w]) /\ IsWindow(events[w])
    <3> SUFFICES ASSUME NEW w \in Windows
                 PROVE  IsWindow(window[w])
      BY <2>1 DEF WindowInv
    <3>1. ASSUME NEW e \in DOMAIN window[w] PROVE window[w][e] \in 1..MaxServed
      <4>1. /\ window[w][e] \in Nat \ {0} /\ window[w][e] + Cardinality(Served) <= served
            /\ served \in 0..MaxServed
        BY <2>1, <3>1 DEF WindowInv
      <4>2. Cardinality(Served) \in Nat /\ MaxServed \in Nat
        BY ServedIsFinite, RolloutAssumption
      <4> QED
        BY <4>1, <4>2
    <3> QED
      BY <2>1, <3>1 DEF WindowInv, IsWindow, Observed
  <2>4. TypeOK
    BY <2>1, <2>2, <2>3 DEF TypeOK, RegistryInv, OpType, RequestInv, WindowInv
  <2>5. OneOfEach
    BY <2>1, SingleIsCounted DEF OneOfEach, RegistryInv
  <2>6. NothingIsUnsaved
    BY <2>1 DEF NothingIsUnsaved, RegistryInv, WindowInv
  <2>7. SerialWindowIsTheCanarys
    BY <2>1 DEF SerialWindowIsTheCanarys, CanaryInv
  <2> QED
    BY <2>4, <2>5, <2>6, <2>7 DEF RolloutIsConsistent
<1> QED
  BY <1>1, RolloutAlways, PTL

\* What is saved of a version moves along the registry's edges, wherever a crash cuts an
\* operation short, and the guard never takes the live version away (models.py, guard.py).
THEOREM RolloutAlwaysMovesOn == Spec => RolloutMovesOn
<1>1. RolloutInv /\ [Next]_vars =>
        [\A v \in DOMAIN stages :
           \/ stages'[v] = stages[v]
           \/ stages'[v] \in ALLOWED[stages[v]]
           \/ <<stages[v], stages'[v]>> \in SYSTEM_EDGES]_vars
  BY RegistryStep DEF RolloutInv, Moving
<1>2. RolloutInv /\ [Next]_vars =>
        [op.pc = "guard" => FirstIn(registry', "live") = FirstIn(registry, "live")]_vars
  BY GuardStep DEF RolloutInv
<1>3. Spec => SavedStagesMoveOn
  BY <1>1, RolloutAlways, PTL DEF Spec, SavedStagesMoveOn
<1>4. Spec => GuardSparesLive
  BY <1>2, RolloutAlways, PTL DEF Spec, GuardSparesLive
<1> QED
  BY <1>3, <1>4 DEF RolloutMovesOn

-----------------------------------------------------------------------------
\* A fingerprint is stored: the build that wrote it was finished.
Marked == db.fingerprint # NoData
Serving == process.pc \in {"hash", "file", "row", "mark", "ready"}

\* The kinds of things the state directory holds.
StateTypes ==
  /\ db \in [fingerprint : Data \cup {NoData}, tower : Artifact \cup {Nothing}, rows : Seq(Artifact)]
  /\ Len(db.rows) <= MaxRankers
  /\ files \in [tower : Artifact \cup {Nothing}, rankers : [1..MaxRankers -> Artifact \cup {Nothing}]]
  /\ process \in [ pc : {"down", "open", "hash", "file", "row", "mark", "ready", "failed"},
                   data : Data \cup {NoData}, tower : Artifact \cup {Nothing},
                   rankers : Seq(Artifact), version : 1..MaxRankers ]
  /\ starts \in 0..MaxStarts /\ mixed \in BOOLEAN

\* Where a process is says what it has: a build has one version, and a version that is
\* being saved is there already or the next.
ProcessSense ==
  /\ process.pc # "failed"
  /\ process.pc # "down" => process.data \in Data /\ starts \in 1..MaxStarts
  /\ process.pc = "hash" => ~Marked /\ Len(process.rankers) = 1
  /\ process.pc \in {"file", "row"} =>
       \/ process.version \in DOMAIN db.rows /\ Len(process.rankers) = Len(db.rows)
       \/ process.version = Len(db.rows) + 1 /\ Len(process.rankers) = process.version
  /\ process.pc \in {"mark", "ready"} => Len(process.rankers) = Len(db.rows) /\ Len(db.rows) > 0
  /\ process.pc = "mark" => ~Marked
  /\ process.pc = "ready" => Marked
  /\ process.pc = "open" \/ (~Marked /\ Serving) => process.version = 1
  /\ Serving => files.tower = process.tower /\ process.tower \in Artifact
  /\ Serving /\ Marked => db.fingerprint = process.data

\* A row in the database is the hash of its file, marked or not.
RowsSense ==
  /\ \A v \in DOMAIN db.rows : db.rows[v] = files.rankers[v]
  /\ Marked \/ process.pc \in {"file", "row", "mark"} => db.tower = files.tower
  /\ Marked => db.tower \in Artifact /\ Len(db.rows) > 0
  /\ ~Marked => Len(db.rows) <= 1
  /\ process.pc = "row" /\ process.version \notin DOMAIN db.rows =>
       files.rankers[process.version] = process.rankers[process.version]

\* What there is was trained on one data set.
OneData ==
  ~mixed =>
    /\ process.pc # "down" /\ ~Marked => \A v \in DOMAIN db.rows : db.rows[v].data = process.data
    /\ Marked => /\ db.tower.data = db.fingerprint
                 /\ \A v \in DOMAIN db.rows : db.rows[v].data = db.fingerprint
    /\ Serving => /\ process.tower.data = process.data
                  /\ \A v \in DOMAIN process.rankers : process.rankers[v].data = process.data

StateInv == StateTypes /\ ProcessSense /\ RowsSense /\ OneData

LEMMA StateStarts == StateInit => StateInv
<1> SUFFICES ASSUME StateInit
             PROVE  StateInv
  OBVIOUS
<1>1. /\ db = NoDatabase /\ process = Down /\ starts = 0 /\ mixed = FALSE
      /\ files = [tower |-> Nothing, rankers |-> [v \in 1..MaxRankers |-> Nothing]]
      /\ MaxStarts \in Nat \ {0} /\ MaxRankers \in Nat \ {0}
  BY StateAssumption DEF StateInit
<1>2. << >> \in Seq(Artifact) /\ Len(<< >>) = 0 /\ DOMAIN << >> = {}
  OBVIOUS
<1>3. db \in [fingerprint : Data \cup {NoData}, tower : Artifact \cup {Nothing}, rows : Seq(Artifact)]
  BY <1>1, <1>2 DEF NoDatabase
<1>4. files \in [tower : Artifact \cup {Nothing}, rankers : [1..MaxRankers -> Artifact \cup {Nothing}]]
  BY <1>1
<1>5. process \in [ pc : {"down"}, data : Data \cup {NoData}, tower : Artifact \cup {Nothing},
                    rankers : Seq(Artifact), version : 1..MaxRankers ]
  BY <1>1, <1>2 DEF Down
<1>6. Len(db.rows) <= MaxRankers /\ starts \in 0..MaxStarts
  BY <1>1, <1>2 DEF NoDatabase
<1>7. StateTypes
  BY <1>1, <1>3, <1>4, <1>5, <1>6 DEF StateTypes
<1> QED
  BY <1>1, <1>7 DEF StateInv, ProcessSense, RowsSense, OneData, NoDatabase, Down, Marked, Serving

LEMMA StateStep ==
  ASSUME StateInv, [StateNext]_stateVars
  PROVE  StateInv'
<1>0. /\ StateTypes /\ ProcessSense /\ RowsSense /\ OneData
      /\ NoData \notin Data /\ MaxStarts \in Nat \ {0} /\ MaxRankers \in Nat \ {0}
  BY StateAssumption DEF StateInv
<1>1. CASE UNCHANGED stateVars
  BY <1>0, <1>1 DEF stateVars, StateInv, StateTypes, ProcessSense, RowsSense, OneData, Marked, Serving
<1>2. ASSUME NEW data \in Data, StartProcess(data)
      PROVE  StateInv'
  <2>1. /\ process.pc = "down" /\ starts < MaxStarts /\ starts' = starts + 1
        /\ process' = [Down EXCEPT !.pc = "open", !.data = data]
        /\ mixed' = (mixed \/ (db.fingerprint = NoData /\ \E v \in DOMAIN db.rows : db.rows[v].data # data))
        /\ db' = db /\ files' = files
    BY <1>2 DEF StartProcess, On
  <2>2. /\ process'.pc = "open" /\ process'.data = data /\ process'.version = 1
        /\ process' \in [ pc : {"open"}, data : Data, tower : {Nothing}, rankers : Seq(Artifact),
                          version : 1..MaxRankers ]
    <3>1. process' = [pc |-> "open", data |-> data, tower |-> Nothing, rankers |-> << >>, version |-> 1]
      BY <2>1 DEF Down
    <3>2. << >> \in Seq(Artifact) /\ 1 \in 1..MaxRankers
      BY <1>0
    <3> QED
      BY <3>1, <3>2
  <2>3. StateTypes'
    BY <1>0, <2>1, <2>2 DEF StateTypes
  <2>4. ProcessSense'
    BY <1>0, <2>1, <2>2 DEF ProcessSense, Serving, StateTypes
  <2>5. RowsSense'
    BY <1>0, <2>1, <2>2 DEF RowsSense, Marked
  <2>6. OneData'
    BY <1>0, <2>1, <2>2 DEF OneData, Marked, Serving, StateTypes
  <2> QED
    BY <2>3, <2>4, <2>5, <2>6 DEF StateInv
<1>3. CASE Archive
  <2>1. /\ process.pc = "open" /\ db' = NoDatabase /\ UNCHANGED <<files, process, starts, mixed>>
    BY <1>3 DEF Archive, On
  <2>2. StateTypes'
    BY <1>0, <2>1 DEF StateTypes, NoDatabase
  <2> QED
    BY <1>0, <2>1, <2>2
       DEF StateInv, ProcessSense, RowsSense, OneData, Marked, Serving, NoDatabase, StateTypes
<1>4. CASE Restore
  <2>1. process.pc = "open" /\ HasState /\ UNCHANGED <<db, files, starts, mixed>>
    BY <1>4 DEF Restore, On
  <2>2. Marked /\ db.fingerprint = process.data
    BY <1>0, <2>1 DEF HasState, Marked, ProcessSense
  <2>3. HasHashes
    BY <1>0, <2>2 DEF HasHashes, RowsSense
  <2>4. process' = [process EXCEPT !.pc = "ready", !.tower = files.tower,
                                   !.rankers = [v \in DOMAIN db.rows |-> files.rankers[v]]]
    BY <1>4, <2>3 DEF Restore
  <2>5. [v \in DOMAIN db.rows |-> files.rankers[v]] = db.rows
    BY <1>0 DEF RowsSense, StateTypes
  <2>6. /\ process'.pc = "ready" /\ process'.tower = files.tower /\ process'.rankers = db.rows
        /\ process'.data = process.data /\ process'.version = process.version
    BY <1>0, <2>4, <2>5 DEF StateTypes
  <2>7. StateTypes'
    BY <1>0, <2>1, <2>4, <2>5 DEF StateTypes
  <2>8. ProcessSense'
    BY <1>0, <2>1, <2>2, <2>6 DEF ProcessSense, RowsSense, Serving, Marked
  <2>9. RowsSense'
    BY <1>0, <2>1, <2>2, <2>6 DEF RowsSense, Marked
  <2>10. OneData'
    BY <1>0, <2>1, <2>2, <2>6 DEF OneData, RowsSense, Marked, Serving
  <2> QED
    BY <2>7, <2>8, <2>9, <2>10 DEF StateInv
<1>5. CASE BuildTower
  <2>1. /\ process.pc = "open" /\ ~Stale /\ ~HasState /\ files' = [files EXCEPT !.tower = Trained]
        /\ process' = [process EXCEPT !.pc = "hash", !.tower = Trained, !.rankers = <<Trained>>]
        /\ UNCHANGED <<db, starts, mixed>>
    BY <1>5 DEF BuildTower, On
  <2>2. ~Marked
    BY <1>0, <2>1 DEF Stale, HasState, Marked, RowsSense, Nothing, Artifact, StateTypes
  <2>3. Trained \in Artifact /\ Trained.data = process.data
    BY <1>0, <2>1 DEF Trained, Artifact, ProcessSense
  <2>4. process.version = 1
    BY <1>0, <2>1 DEF ProcessSense
  <2>5. << Trained >> \in Seq(Artifact) /\ Len(<< Trained >>) = 1 /\ << Trained >>[1] = Trained
    BY <2>3
  <2>6. /\ process'.pc = "hash" /\ process'.tower = Trained /\ process'.rankers = << Trained >>
        /\ process'.data = process.data /\ process'.version = 1
        /\ files'.tower = Trained /\ files'.rankers = files.rankers
    BY <1>0, <2>1, <2>4 DEF StateTypes
  <2> HIDE DEF Trained
  <2>7. StateTypes'
    BY <1>0, <2>1, <2>3, <2>5 DEF StateTypes
  <2>8. ProcessSense'
    BY <1>0, <2>1, <2>2, <2>3, <2>5, <2>6 DEF ProcessSense, Serving, Marked
  <2>9. RowsSense'
    BY <1>0, <2>1, <2>2, <2>6 DEF RowsSense, Marked
  <2>10. OneData'
    BY <1>0, <2>1, <2>2, <2>3, <2>5, <2>6 DEF OneData, Marked, Serving
  <2> QED
    BY <2>7, <2>8, <2>9, <2>10 DEF StateInv
<1>6. CASE StoreTowerHash
  <2>1. /\ process.pc = "hash" /\ process' = [process EXCEPT !.pc = "file"]
        /\ db' = [db EXCEPT !.tower = files.tower] /\ UNCHANGED <<files, starts, mixed>>
    BY <1>6 DEF StoreTowerHash, On, Do
  <2>2. /\ process'.pc = "file" /\ process'.tower = process.tower /\ process'.rankers = process.rankers
        /\ process'.data = process.data /\ process'.version = process.version
        /\ db'.tower = files.tower /\ db'.rows = db.rows /\ db'.fingerprint = db.fingerprint
    BY <1>0, <2>1 DEF StateTypes
  <2>3. ~Marked /\ process.version = 1 /\ Len(process.rankers) = 1 /\ Len(db.rows) \in {0, 1}
        /\ DOMAIN db.rows = 1..Len(db.rows)
    BY <1>0, <2>1 DEF ProcessSense, RowsSense, Serving, StateTypes
  <2>4. StateTypes'
    BY <1>0, <2>1 DEF StateTypes
  <2>5. ProcessSense'
    <3>1. \/ process.version \in DOMAIN db.rows /\ Len(process.rankers) = Len(db.rows)
          \/ process.version = Len(db.rows) + 1 /\ Len(process.rankers) = process.version
      BY <2>3
    <3>2. /\ files.tower = process.tower /\ process.tower \in Artifact
          /\ process.data \in Data /\ starts \in 1..MaxStarts
      BY <1>0, <2>1 DEF ProcessSense, Serving
    <3> QED
      BY <2>1, <2>2, <2>3, <3>1, <3>2 DEF ProcessSense, Serving, Marked
  <2>6. RowsSense'
    BY <1>0, <2>1, <2>2, <2>3 DEF RowsSense, Marked
  <2>7. OneData'
    BY <1>0, <2>1, <2>2, <2>3 DEF OneData, Marked, Serving
  <2> QED
    BY <2>4, <2>5, <2>6, <2>7 DEF StateInv
<1>7. CASE SaveFile
  <2> DEFINE v == process.version
  <2>1. /\ process.pc = "file" /\ process' = [process EXCEPT !.pc = "row"]
        /\ files' = IF v \in DOMAIN db.rows THEN files
                    ELSE [files EXCEPT !.rankers[v] = process.rankers[v]]
        /\ UNCHANGED <<db, starts, mixed>>
    BY <1>7 DEF SaveFile, On, Do, HasArtifact
  <2>2. /\ process'.pc = "row" /\ process'.tower = process.tower /\ process'.rankers = process.rankers
        /\ process'.data = process.data /\ process'.version = v /\ v \in 1..MaxRankers
    BY <1>0, <2>1 DEF StateTypes
  <2>3. v \notin DOMAIN db.rows => process.rankers[v] \in Artifact
    BY <1>0, <2>1, <2>2 DEF ProcessSense, StateTypes
  <2>4. /\ files'.tower = files.tower
        /\ \A u \in DOMAIN db.rows : files'.rankers[u] = files.rankers[u]
        /\ v \notin DOMAIN db.rows => files'.rankers[v] = process.rankers[v]
    BY <1>0, <2>1, <2>2 DEF StateTypes
  <2>5. StateTypes'
    <3>1. process' \in [ pc : {"row"}, data : Data \cup {NoData}, tower : Artifact \cup {Nothing},
                         rankers : Seq(Artifact), version : 1..MaxRankers ]
      BY <1>0, <2>1 DEF StateTypes
    <3>2. files' \in [tower : Artifact \cup {Nothing}, rankers : [1..MaxRankers -> Artifact \cup {Nothing}]]
      BY <1>0, <2>1, <2>2, <2>3 DEF StateTypes
    <3> QED
      BY <1>0, <2>1, <3>1, <3>2 DEF StateTypes
  <2>6. ProcessSense'
    BY <1>0, <2>1, <2>2, <2>4 DEF ProcessSense, Serving, Marked
  <2>7. RowsSense'
    BY <1>0, <2>1, <2>2, <2>4 DEF RowsSense, Marked
  <2>8. OneData'
    BY <1>0, <2>1, <2>2 DEF OneData, Marked, Serving
  <2> QED
    BY <2>5, <2>6, <2>7, <2>8 DEF StateInv
<1>8. CASE SaveRow
  <2> DEFINE v == process.version
             next == IF db.fingerprint = NoData THEN "mark" ELSE "ready"
  <2>1. /\ process.pc = "row" /\ process' = [process EXCEPT !.pc = next]
        /\ db' = [db EXCEPT !.rows = WithRow(@, v)] /\ UNCHANGED <<files, starts, mixed>>
    BY <1>8 DEF SaveRow, On, Do
  <2>2. /\ process'.pc = next /\ process'.tower = process.tower /\ process'.rankers = process.rankers
        /\ process'.data = process.data /\ process'.version = v /\ v \in 1..MaxRankers
        /\ db'.tower = db.tower /\ db'.rows = WithRow(db.rows, v) /\ db'.fingerprint = db.fingerprint
    BY <1>0, <2>1 DEF StateTypes
  <2>3. /\ db.rows \in Seq(Artifact) /\ DOMAIN db.rows = 1..Len(db.rows) /\ Len(db.rows) \in Nat
        /\ process.rankers \in Seq(Artifact) /\ DOMAIN process.rankers = 1..Len(process.rankers)
    BY <1>0 DEF StateTypes
  <2>4. CASE v \in DOMAIN db.rows
    <3>1. db' = db /\ db'.rows = db.rows
      BY <1>0, <2>1, <2>4 DEF WithRow, HasArtifact, StateTypes
    <3>2. Len(process.rankers) = Len(db.rows) /\ Len(db.rows) > 0
      BY <1>0, <2>1, <2>3, <2>4 DEF ProcessSense
    <3>3. StateTypes'
      BY <1>0, <2>1, <3>1 DEF StateTypes
    <3>4. ProcessSense'
      BY <1>0, <2>1, <2>2, <3>1, <3>2 DEF ProcessSense, Serving, Marked
    <3>5. RowsSense'
      BY <1>0, <2>1, <2>2, <3>1 DEF RowsSense, Marked
    <3>6. OneData'
      BY <1>0, <2>1, <2>2, <3>1 DEF OneData, Marked, Serving
    <3> QED
      BY <3>3, <3>4, <3>5, <3>6 DEF StateInv
  <2>5. CASE v \notin DOMAIN db.rows
    <3> DEFINE a == files.rankers[v]
    <3>1. v = Len(db.rows) + 1 /\ Len(process.rankers) = v
      BY <1>0, <2>1, <2>5 DEF ProcessSense
    <3>2. a = process.rankers[v] /\ a \in Artifact
      BY <1>0, <2>1, <2>2, <2>3, <2>5, <3>1 DEF RowsSense
    <3>3. db'.rows = Append(db.rows, a)
      BY <2>2, <2>5 DEF WithRow
    <3> HIDE DEF a, v, next
    <3>4. /\ db'.rows \in Seq(Artifact) /\ Len(db'.rows) = v /\ DOMAIN db'.rows = 1..v /\ v > 0
          /\ \A u \in DOMAIN db.rows : db'.rows[u] = db.rows[u]
          /\ db'.rows[v] = a
          /\ \A u \in DOMAIN db'.rows : u \in DOMAIN db.rows \/ u = v
      <4> DEFINE longer == Append(db.rows, a)
                 n == Len(db.rows)
      <4>1. /\ longer \in Seq(Artifact) /\ Len(longer) = n + 1 /\ longer[n + 1] = a
            /\ \A u \in 1..n : longer[u] = db.rows[u]
        BY <2>3, <3>2, AppendProperties
      <4>2. DOMAIN longer = 1..(n + 1)
        BY <4>1, LenProperties
      <4> HIDE DEF longer
      <4>3. \A u \in 1..(n + 1) : u \in 1..n \/ u = n + 1
        BY <2>3
      <4> QED
        BY <2>3, <3>1, <3>3, <4>1, <4>2, <4>3 DEF longer
    <3>5. StateTypes'
      <4>1. db' \in [fingerprint : Data \cup {NoData}, tower : Artifact \cup {Nothing}, rows : Seq(Artifact)]
        BY <1>0, <2>1, <2>2, <3>4 DEF StateTypes
      <4>2. process' \in [ pc : {"mark", "ready"}, data : Data \cup {NoData}, tower : Artifact \cup {Nothing},
                           rankers : Seq(Artifact), version : 1..MaxRankers ]
        BY <1>0, <2>1 DEF StateTypes, next
      <4> QED
        BY <1>0, <2>1, <2>2, <3>4, <4>1, <4>2 DEF StateTypes
    <3>6. ProcessSense'
      BY <1>0, <2>1, <2>2, <3>1, <3>4 DEF ProcessSense, Serving, Marked, next
    <3>7. RowsSense'
      <4>1. \A u \in DOMAIN db'.rows : db'.rows[u] = files.rankers[u]
        BY <1>0, <3>4 DEF RowsSense, a, v
      <4>2. ~Marked => v = 1
        BY <1>0, <2>1, <2>2 DEF ProcessSense, Serving, v
      <4> QED
        BY <1>0, <2>1, <2>2, <3>4, <4>1, <4>2 DEF RowsSense, Marked, next
    <3>8. OneData'
      <4>1. ASSUME ~mixed PROVE a.data = process.data
        BY <1>0, <2>1, <2>3, <3>1, <3>2, <4>1 DEF OneData, Serving, v
      <4>2. Marked => db.fingerprint = process.data
        BY <1>0, <2>1 DEF ProcessSense, Serving
      <4> QED
        BY <1>0, <2>1, <2>2, <3>4, <4>1, <4>2 DEF OneData, Marked, Serving, next
    <3> QED
      BY <3>5, <3>6, <3>7, <3>8 DEF StateInv
  <2> QED
    BY <2>4, <2>5
<1>9. CASE MarkBuilt
  <2>1. /\ process.pc = "mark" /\ process' = [process EXCEPT !.pc = "ready"]
        /\ db' = [db EXCEPT !.fingerprint = process.data] /\ UNCHANGED <<files, starts, mixed>>
    BY <1>9 DEF MarkBuilt, On, Do
  <2>2. /\ process'.pc = "ready" /\ process'.tower = process.tower /\ process'.rankers = process.rankers
        /\ process'.data = process.data /\ process'.version = process.version
        /\ db'.tower = db.tower /\ db'.rows = db.rows /\ db'.fingerprint = process.data
    BY <1>0, <2>1 DEF StateTypes
  <2>3. process.data # NoData /\ process.data \in Data
    BY <1>0, <2>1 DEF ProcessSense
  <2>4. StateTypes'
    BY <1>0, <2>1 DEF StateTypes
  <2>5. ProcessSense'
    BY <1>0, <2>1, <2>2, <2>3 DEF ProcessSense, Serving, Marked
  <2>6. RowsSense'
    BY <1>0, <2>1, <2>2, <2>3 DEF RowsSense, ProcessSense, Serving, Marked
  <2>7. OneData'
    BY <1>0, <2>1, <2>2, <2>3 DEF OneData, ProcessSense, RowsSense, Marked, Serving
  <2> QED
    BY <2>4, <2>5, <2>6, <2>7 DEF StateInv
<1>10. CASE TrainNext
  <2> DEFINE n == Len(db.rows) + 1
  <2>1. /\ process.pc = "ready" /\ Len(db.rows) < MaxRankers
        /\ process' = [process EXCEPT !.pc = "file", !.version = n, !.rankers = Append(@, Trained)]
        /\ UNCHANGED <<db, files, starts, mixed>>
    BY <1>10 DEF TrainNext, On
  <2>2. Trained \in Artifact /\ Trained.data = process.data
    BY <1>0, <2>1 DEF Trained, Artifact, ProcessSense
  <2>3. /\ process.rankers \in Seq(Artifact) /\ Len(db.rows) \in Nat
        /\ Len(process.rankers) = Len(db.rows) /\ n \in 1..MaxRankers /\ Marked
        /\ DOMAIN process.rankers = 1..Len(process.rankers)
    BY <1>0, <2>1 DEF StateTypes, ProcessSense
  <2> HIDE DEF Trained
  <2>4. /\ Append(process.rankers, Trained) \in Seq(Artifact)
        /\ Len(Append(process.rankers, Trained)) = n
        /\ \A u \in 1..n : IF u = n THEN Append(process.rankers, Trained)[u] = Trained
                           ELSE u \in DOMAIN process.rankers
                                /\ Append(process.rankers, Trained)[u] = process.rankers[u]
        /\ DOMAIN Append(process.rankers, Trained) = 1..n
    BY <2>2, <2>3
  <2>5. /\ process'.pc = "file" /\ process'.tower = process.tower
        /\ process'.rankers = Append(process.rankers, Trained)
        /\ process'.data = process.data /\ process'.version = n
    BY <1>0, <2>1 DEF StateTypes
  <2> HIDE DEF n
  <2>6. StateTypes'
    <3>1. process' \in [ pc : {"file"}, data : Data \cup {NoData}, tower : Artifact \cup {Nothing},
                         rankers : Seq(Artifact), version : 1..MaxRankers ]
      BY <1>0, <2>1, <2>3, <2>4 DEF StateTypes
    <3> QED
      BY <1>0, <2>1, <3>1 DEF StateTypes
  <2>7. ProcessSense'
    BY <1>0, <2>1, <2>3, <2>4, <2>5 DEF ProcessSense, Serving, Marked, n
  <2>8. RowsSense'
    BY <1>0, <2>1, <2>3, <2>5 DEF RowsSense, Marked
  <2>9. OneData'
    <3>1. ASSUME ~mixed, NEW u \in 1..n PROVE Append(process.rankers, Trained)[u].data = process.data
      BY <1>0, <2>1, <2>2, <2>4, <3>1 DEF OneData, Serving
    <3> QED
      BY <1>0, <2>1, <2>3, <2>4, <2>5, <3>1 DEF OneData, Marked, Serving
  <2> QED
    BY <2>6, <2>7, <2>8, <2>9 DEF StateInv
<1>11. ASSUME NEW v \in 1..MaxRankers, MoveVersion(v)
       PROVE  StateInv'
  <2>1. /\ process.pc = "ready" /\ v \in DOMAIN db.rows
        /\ process' = [process EXCEPT !.pc = "file", !.version = v]
        /\ UNCHANGED <<db, files, starts, mixed>>
    BY <1>11 DEF MoveVersion, On
  <2>2. /\ process'.pc = "file" /\ process'.tower = process.tower /\ process'.rankers = process.rankers
        /\ process'.data = process.data /\ process'.version = v
    BY <1>0, <2>1 DEF StateTypes
  <2>3. Marked /\ Len(process.rankers) = Len(db.rows)
    BY <1>0, <2>1 DEF ProcessSense
  <2>4. StateTypes'
    BY <1>0, <2>1 DEF StateTypes
  <2>5. ProcessSense'
    BY <1>0, <2>1, <2>2, <2>3 DEF ProcessSense, Serving, Marked
  <2>6. RowsSense'
    BY <1>0, <2>1, <2>2, <2>3 DEF RowsSense, Marked
  <2>7. OneData'
    BY <1>0, <2>1, <2>2, <2>3 DEF OneData, Marked, Serving
  <2> QED
    BY <2>4, <2>5, <2>6, <2>7 DEF StateInv
<1>12. CASE Crash
  <2>1. process' = Down /\ UNCHANGED <<db, files, starts, mixed>>
    BY <1>12 DEF Crash
  <2>2. /\ process'.pc = "down"
        /\ process' \in [ pc : {"down"}, data : Data \cup {NoData}, tower : Artifact \cup {Nothing},
                          rankers : Seq(Artifact), version : 1..MaxRankers ]
    <3>1. << >> \in Seq(Artifact) /\ 1 \in 1..MaxRankers
      BY <1>0
    <3> QED
      BY <2>1, <3>1 DEF Down
  <2>3. StateTypes'
    BY <1>0, <2>1, <2>2 DEF StateTypes
  <2> QED
    BY <1>0, <2>1, <2>2, <2>3 DEF StateInv, ProcessSense, RowsSense, OneData, Marked, Serving
<1> QED
  BY <1>1, <1>2, <1>3, <1>4, <1>5, <1>6, <1>7, <1>8, <1>9, <1>10, <1>11, <1>12 DEF StateNext

\* The invariant of the state directory, wherever a crash falls (store.py, artifacts.py).
THEOREM StateAlways == StateSpec => []StateInv
<1>1. StateInv /\ [StateNext]_stateVars => StateInv'
  BY StateStep
<1> QED
  BY <1>1, StateStarts, PTL DEF StateSpec

\* Once a build is marked a restart is never refused: every hash in the database is that of
\* its file; and unless the data changed under an unfinished first build, what is marked
\* and what serves was trained on the marked data (platform.py: _cold_build, _restore).
THEOREM StateAlwaysRestorable == StateSpec => []StateIsRestorable
<1>1. StateInv => StateIsRestorable
  <2> SUFFICES ASSUME StateInv
               PROVE  StateIsRestorable
    OBVIOUS
  <2>1. StateTypes /\ ProcessSense /\ RowsSense /\ OneData
    BY DEF StateInv
  <2>2. StateTypeOK
    BY <2>1 DEF StateTypes, StateTypeOK
  <2>3. MarkedIsRestorable
    BY <2>1 DEF MarkedIsRestorable, HasHashes, ProcessSense, RowsSense, Marked, On
  <2>4. SerialServesItsData
    BY <2>1 DEF SerialServesItsData, OneData, Marked, Serving, On, Range
  <2> QED
    BY <2>2, <2>3, <2>4 DEF StateIsRestorable
<1> QED
  BY <1>1, StateAlways, PTL

-----------------------------------------------------------------------------
(***************************************************************************)
(* The feature store.                                                      *)
(***************************************************************************)
\* Indices have a greatest one: what CHOOSE of the last row to be used needs.
LEMMA GreatestIndex ==
  ASSUME NEW n \in Nat, NEW S \in SUBSET (1..n), S # {}
  PROVE  \E k \in S : \A j \in S : j <= k
<1> DEFINE T == {n - k : k \in S}
<1>0. \A k \in S : k \in Int /\ n - k \in Nat
  OBVIOUS
<1>1. T \in SUBSET Nat /\ T # {}
  BY <1>0
<1> HIDE DEF T
<1>2. PICK m \in T : \A i \in T : m <= i
  BY <1>1, LeastNatural
<1>3. PICK k \in S : m = n - k
  BY DEF T
<1>4. ASSUME NEW j \in S PROVE j <= k
  <2>1. n - j \in T
    BY DEF T
  <2>2. n - k <= n - j
    BY <1>2, <1>3, <2>1
  <2>3. j \in Int /\ k \in Int
    OBVIOUS
  <2> QED
    BY <2>2, <2>3
<1> QED
  BY <1>4

\* A set of indices with every index before one of its own is the first so many.
LEMMA FirstIndices ==
  ASSUME NEW n \in Nat, NEW S \in SUBSET (1..n),
         \A k \in S, j \in 1..n : j <= k => j \in S
  PROVE  Cardinality(S) \in 0..n /\ S = 1..Cardinality(S)
<1>1. PICK m \in 0..n : S = 1..m
  <2>1. CASE S = {}
    <3>1. S = 1..0
      BY <2>1
    <3> QED
      BY <3>1
  <2>2. CASE S # {}
    <3>1. PICK k \in S : \A j \in S : j <= k
      BY <2>2, GreatestIndex
    <3>2. k \in 1..n /\ \A j \in 1..k : j \in 1..n /\ j <= k
      OBVIOUS
    <3>3. \A j \in 1..k : j \in S
      BY <3>1, <3>2
    <3>4. \A j \in S : j \in 1..k
      BY <3>1, <3>2
    <3>5. S \subseteq 1..k /\ 1..k \subseteq S
      BY ONLY <3>3, <3>4
    <3>6. k \in 0..n
      BY <3>2
    <3> QED
      BY <3>5, <3>6
  <2> QED
    BY <2>1, <2>2
<1>2. Cardinality(1..m) = m
  BY FS_Interval
<1> QED
  BY <1>1, <1>2

\* q is s with e at place i.
IsInserted(q, s, i, e) ==
  /\ Len(q) = Len(s) + 1
  /\ \A k \in 1..(Len(s) + 1) :
       q[k] = IF k < i THEN s[k] ELSE IF k = i THEN e ELSE s[k - 1]

\* What SequencesExt's InsertAt makes of a sequence.
LEMMA InsertAtIs ==
  ASSUME NEW S, NEW s \in Seq(S), NEW i \in 1..(Len(s) + 1), NEW e \in S
  PROVE  InsertAt(s, i, e) \in Seq(S) /\ IsInserted(InsertAt(s, i, e), s, i, e)
<1> DEFINE a == SubSeq(s, 1, i - 1)
           b == SubSeq(s, i, Len(s))
           ae == a \o <<e>>
<1>1. Len(s) \in Nat
  BY LenProperties
<1>2. /\ a \in Seq(S) /\ Len(a) = i - 1 /\ \A k \in 1..(i - 1) : a[k] = s[k]
  BY <1>1, SubSeqProperties
<1>3. /\ b \in Seq(S) /\ Len(b) = Len(s) - i + 1
      /\ \A k \in 1..(Len(s) - i + 1) : b[k] = s[i + k - 1]
  BY <1>1, SubSeqProperties
<1>4. <<e>> \in Seq(S) /\ Len(<<e>>) = 1 /\ <<e>>[1] = e
  OBVIOUS
<1> HIDE DEF a, b
<1>5. /\ ae \in Seq(S) /\ Len(ae) = i /\ ae[i] = e /\ \A k \in 1..(i - 1) : ae[k] = s[k]
  <2>1. ae \in Seq(S) /\ Len(ae) = i
    BY <1>1, <1>2, <1>4, ConcatProperties
  <2>2. \A k \in 1..i : ae[k] = IF k <= i - 1 THEN a[k] ELSE <<e>>[k - (i - 1)]
    BY <1>1, <1>2, <1>4, ConcatProperties
  <2>3. i \in 1..i /\ i \in Int /\ i - (i - 1) = 1 /\ ~(i <= i - 1)
    BY <1>1
  <2>4. ae[i] = e
    BY <1>4, <2>2, <2>3
  <2> QED
    BY <1>1, <1>2, <2>1, <2>2, <2>4
<1> HIDE DEF ae
<1>6. /\ ae \o b \in Seq(S) /\ Len(ae \o b) = Len(s) + 1
  BY <1>1, <1>3, <1>5, ConcatProperties
<1>7. ASSUME NEW k \in 1..(Len(s) + 1)
      PROVE  (ae \o b)[k] = IF k < i THEN s[k] ELSE IF k = i THEN e ELSE s[k - 1]
  <2>1. (ae \o b)[k] = IF k <= Len(ae) THEN ae[k] ELSE b[k - Len(ae)]
    BY <1>1, <1>3, <1>5, ConcatProperties
  <2>2. CASE k <= i
    BY <1>5, <2>1, <2>2
  <2>3. CASE k > i
    <3>1. k - i \in 1..(Len(s) - i + 1) /\ i + (k - i) - 1 = k - 1
      BY <1>1, <2>3
    <3>2. b[k - i] = s[k - 1]
      <4>1. b[k - i] = s[i + (k - i) - 1]
        BY <1>3, <3>1
      <4> QED
        BY ONLY <3>1, <4>1
    <3>3. (ae \o b)[k] = b[k - i]
      BY <1>1, <1>5, <2>1, <2>3
    <3>4. ~(k < i) /\ k # i
      BY <1>1, <2>3
    <3> QED
      BY ONLY <3>2, <3>3, <3>4
  <2>4. k <= i \/ k > i
    BY <1>1
  <2> QED
    BY <2>2, <2>3, <2>4
<1> QED
  BY <1>6, <1>7 DEF InsertAt, IsInserted, ae, a, b

-----------------------------------------------------------------------------
Row == [at : Moment, values : Partial, nth : Nat]

\* Rows are in the order of their times, of one time the last one written first, and none
\* is younger than the store.
RowsInOrder ==
  /\ rows \in Seq(Row) /\ Len(rows) <= MaxRows
  /\ \A k \in 1..Len(rows) : rows[k].nth < Len(rows)
  /\ \A i, j \in 1..Len(rows) : i < j =>
       rows[i].at < rows[j].at \/ (rows[i].at = rows[j].at /\ rows[j].nth < rows[i].nth)

\* What an example says beside defaults is said by a row it may know.
Grounded(example) ==
  \A n \in Name : example.features[n] # Default =>
    \E k \in 1..Len(rows) : /\ rows[k].at <= example.at - Embargo
                            /\ n \in DOMAIN rows[k].values
                            /\ rows[k].values[n] = example.features[n]

StoreInv ==
  /\ RowsInOrder
  /\ examples \subseteq [at : Moment, features : Values]
  /\ \A e \in examples : Grounded(e)

-----------------------------------------------------------------------------
\* The rows that a read at t may use for n.
Ours(t, n) ==
  {k \in 1..Len(rows) : rows[k].at <= t /\ rows[k].at >= t - Ttl /\ n \in DOMAIN rows[k].values}

LEMMA RowsAreRows ==
  ASSUME RowsInOrder
  PROVE  /\ Len(rows) \in Nat /\ DOMAIN rows = 1..Len(rows)
         /\ \A k \in 1..Len(rows) :
              /\ rows[k] \in Row /\ rows[k].at \in Int /\ rows[k].at \in Moment
              /\ rows[k].nth \in Nat /\ rows[k].values \in Partial
         /\ \A i, j \in 1..Len(rows) : i <= j => rows[i].at <= rows[j].at
<1>1. /\ rows \in Seq(Row) /\ Len(rows) \in Nat /\ DOMAIN rows = 1..Len(rows)
      /\ \A k \in 1..Len(rows) : rows[k] \in Row
  BY LenProperties, ElementOfSeq DEF RowsInOrder
<1>2. \A k \in 1..Len(rows) :
        /\ rows[k].at \in Int /\ rows[k].at \in Moment /\ rows[k].nth \in Nat
        /\ rows[k].values \in Partial
  BY <1>1, StoreAssumption DEF Row, Moment
<1>3. ASSUME NEW i \in 1..Len(rows), NEW j \in 1..Len(rows), i <= j
      PROVE  rows[i].at <= rows[j].at
  <2>1. i = j \/ i < j
    BY <1>1, <1>3
  <2>2. rows[i].at = rows[j].at \/ rows[i].at < rows[j].at
    BY <2>1 DEF RowsInOrder
  <2> QED
    BY <1>2, <2>2
<1> QED
  BY <1>1, <1>2, <1>3

LEMMA CutoffIs ==
  ASSUME RowsInOrder, NEW t \in Int
  PROVE  \A k : k \in 1..Cutoff(t) <=> k \in 1..Len(rows) /\ rows[k].at <= t
<1> DEFINE S == {k \in 1..Len(rows) : rows[k].at <= t}
<1>1. \A k \in S, j \in 1..Len(rows) : j <= k => j \in S
  <2> SUFFICES ASSUME NEW k \in S, NEW j \in 1..Len(rows), j <= k PROVE rows[j].at <= t
    OBVIOUS
  <2>1. rows[j].at <= rows[k].at /\ rows[k].at <= t /\ rows[j].at \in Int /\ rows[k].at \in Int
    BY RowsAreRows
  <2> QED
    BY <2>1
<1>2. S = 1..Cardinality(S)
  <2>1. S \in SUBSET (1..Len(rows)) /\ Len(rows) \in Nat
    BY RowsAreRows
  <2> HIDE DEF S
  <2> QED
    BY <1>1, <2>1, FirstIndices
<1>3. Cutoff(t) = Cardinality(S)
  BY RowsAreRows DEF Cutoff
<1> QED
  BY <1>2, <1>3

LEMMA PlaceIs ==
  ASSUME RowsInOrder, NEW t \in Int
  PROVE  /\ PlaceOf(t) \in 1..(Len(rows) + 1)
         /\ \A k \in 1..Len(rows) : k < PlaceOf(t) <=> rows[k].at < t
<1> DEFINE S == {k \in 1..Len(rows) : rows[k].at < t}
<1>1. \A k \in S, j \in 1..Len(rows) : j <= k => j \in S
  <2> SUFFICES ASSUME NEW k \in S, NEW j \in 1..Len(rows), j <= k PROVE rows[j].at < t
    OBVIOUS
  <2>1. rows[j].at <= rows[k].at /\ rows[k].at < t /\ rows[j].at \in Int /\ rows[k].at \in Int
    BY RowsAreRows
  <2> QED
    BY <2>1
<1>2. Cardinality(S) \in 0..Len(rows) /\ S = 1..Cardinality(S)
  <2>1. S \in SUBSET (1..Len(rows)) /\ Len(rows) \in Nat
    BY RowsAreRows
  <2> HIDE DEF S
  <2> QED
    BY <1>1, <2>1, FirstIndices
<1>3. PlaceOf(t) = 1 + Cardinality(S)
  BY RowsAreRows DEF PlaceOf
<1>4. Len(rows) \in Nat
  BY RowsAreRows
<1>5. \A k \in 1..Len(rows) : k \in S <=> k < 1 + Cardinality(S)
  <2> DEFINE c == Cardinality(S)
  <2>1. c \in 0..Len(rows) /\ S = 1..c
    BY <1>2
  <2> HIDE DEF c, S
  <2>2. \A k \in 1..Len(rows) : k \in S <=> k < 1 + c
    BY <1>4, <2>1
  <2> QED
    BY <2>2 DEF c
<1> QED
  BY <1>2, <1>3, <1>4, <1>5

\* What is read is the default or what the last row to be used says.
LEMMA AsOfIs ==
  ASSUME RowsInOrder, NEW t \in Int, NEW n \in Name
  PROVE  \/ Ours(t, n) = {} /\ AsOf(t)[n] = Default
         \/ \E k \in Ours(t, n) : /\ \A j \in Ours(t, n) : j <= k
                                  /\ AsOf(t)[n] = rows[k].values[n]
<1> DEFINE carrying == {k \in InTtl(t) : n \in DOMAIN rows[k].values}
<1>1. carrying = Ours(t, n)
  BY CutoffIs DEF InTtl, Ours
<1>2. AsOf(t)[n] = IF carrying = {} THEN Default
                   ELSE rows[CHOOSE k \in carrying : \A j \in carrying : j <= k].values[n]
  BY DEF AsOf
<1> HIDE DEF carrying
<1>3. CASE carrying # {}
  <2>1. carrying \in SUBSET (1..Len(rows)) /\ Len(rows) \in Nat
    BY <1>1, RowsAreRows DEF Ours
  <2>2. \E k \in carrying : \A j \in carrying : j <= k
    BY <1>3, <2>1, GreatestIndex
  <2>3. PICK k \in carrying : /\ \A j \in carrying : j <= k
                              /\ AsOf(t)[n] = rows[k].values[n]
    BY <1>2, <1>3, <2>2
  <2> QED
    BY <1>1, <2>3
<1> QED
  BY <1>1, <1>2, <1>3

LEMMA AsOfIsValues ==
  ASSUME RowsInOrder, NEW t \in Int
  PROVE  AsOf(t) \in Values
<1>1. ASSUME NEW n \in Name
      PROVE  AsOf(t)[n] \in 0..MaxValue
  <2>1. CASE AsOf(t)[n] = Default
    BY <2>1, StoreAssumption DEF Default
  <2>2. ASSUME NEW k \in Ours(t, n), AsOf(t)[n] = rows[k].values[n]
        PROVE  AsOf(t)[n] \in 0..MaxValue
    <3>1. rows[k].values \in Partial /\ n \in DOMAIN rows[k].values
      BY RowsAreRows DEF Ours
    <3> QED
      BY <2>2, <3>1 DEF Partial
  <2> QED
    BY <2>1, <2>2, AsOfIs
<1> QED
  BY <1>1 DEF AsOf, Values

\* The rows of a set that a read at t may use for n, and what such rows tell.
InTime(set, t, n) == {r \in set : r.at <= t /\ r.at + Ttl >= t /\ n \in DOMAIN r.values}

Telling(ours, n) ==
  LET newest == {r \in ours : \A q \in ours : q.at <= r.at}
      first == {r \in newest : \A q \in newest : r.nth <= q.nth}
  IN IF first = {} THEN Default ELSE (CHOOSE r \in first : TRUE).values[n]

\* The same, as a promise about the rows that are there, in whatever order they came.
LEMMA NewestIsRead ==
  ASSUME RowsInOrder
  PROVE  FeaturesAreTheNewest
<1> SUFFICES ASSUME NEW t \in Moment, NEW n \in Name
             PROVE  AsOf(t)[n] = Telling(InTime(ToSet(rows), t, n), n)
  BY DEF FeaturesAreTheNewest, Telling, InTime
<1> DEFINE ours == InTime(ToSet(rows), t, n)
           newest == {r \in ours : \A q \in ours : q.at <= r.at}
           first == {r \in newest : \A q \in newest : r.nth <= q.nth}
<1>1. t \in Int /\ Ttl \in Int
  BY StoreAssumption DEF Moment
<1>2. \A r : r \in ours <=> \E k \in Ours(t, n) : r = rows[k]
  <2>1. \A k \in 1..Len(rows) : rows[k].at + Ttl >= t <=> rows[k].at >= t - Ttl
    BY <1>1, RowsAreRows
  <2> QED
    BY <2>1, RowsAreRows DEF Ours, ToSet, InTime
<1> HIDE DEF ours
<1>0. Telling(ours, n) = IF first = {} THEN Default ELSE (CHOOSE r \in first : TRUE).values[n]
  BY DEF Telling
<1>3. CASE Ours(t, n) = {} /\ AsOf(t)[n] = Default
  <2>1. ours = {}
    BY <1>2, <1>3
  <2> QED
    BY <1>0, <1>3, <2>1 DEF ours
<1>4. ASSUME NEW k \in Ours(t, n), \A j \in Ours(t, n) : j <= k, AsOf(t)[n] = rows[k].values[n]
      PROVE  AsOf(t)[n] = Telling(ours, n)
  <2>1. \A j \in Ours(t, n) : j \in 1..Len(rows)
    BY DEF Ours
  <2>2. \A j \in Ours(t, n) :
          \/ j = k
          \/ rows[j].at < rows[k].at
          \/ rows[j].at = rows[k].at /\ rows[k].nth < rows[j].nth
    <3> SUFFICES ASSUME NEW j \in Ours(t, n), j # k
                 PROVE  rows[j].at < rows[k].at \/ (rows[j].at = rows[k].at /\ rows[k].nth < rows[j].nth)
      OBVIOUS
    <3>1. j < k /\ j \in 1..Len(rows) /\ k \in 1..Len(rows)
      BY <1>4, <2>1
    <3> QED
      BY <3>1 DEF RowsInOrder
  <2>3. \A j \in Ours(t, n) : rows[j].at \in Int /\ rows[j].nth \in Int
    BY <2>1, RowsAreRows
  <2>4. \A j \in Ours(t, n) : rows[j].at <= rows[k].at
    BY <2>2, <2>3
  <2>5. rows[k] \in newest /\ \A r \in newest : \E j \in Ours(t, n) : r = rows[j] /\ rows[j].at = rows[k].at
    <3>1. rows[k] \in newest
      BY <1>2, <2>4
    <3>2. ASSUME NEW r \in newest
          PROVE  \E j \in Ours(t, n) : r = rows[j] /\ rows[j].at = rows[k].at
      <4>1. PICK j \in Ours(t, n) : r = rows[j]
        BY <1>2
      <4>2. rows[k].at <= rows[j].at
        BY <1>2, <4>1
      <4>3. rows[j].at = rows[k].at
        BY <2>3, <2>4, <4>2
      <4> QED
        BY <4>1, <4>3
    <3> QED
      BY <3>1, <3>2
  <2> HIDE DEF newest
  <2>6. first = {rows[k]}
    <3>1. rows[k] \in first
      <4> SUFFICES ASSUME NEW r \in newest PROVE rows[k].nth <= r.nth
        BY <2>5
      <4>1. PICK j \in Ours(t, n) : r = rows[j] /\ rows[j].at = rows[k].at
        BY <2>5
      <4>2. j = k \/ rows[k].nth < rows[j].nth
        BY <2>2, <2>3, <4>1
      <4> QED
        BY <2>3, <4>1, <4>2
    <3>2. ASSUME NEW r \in first
          PROVE  r = rows[k]
      <4>1. PICK j \in Ours(t, n) : r = rows[j] /\ rows[j].at = rows[k].at
        BY <2>5
      <4>2. rows[j].nth <= rows[k].nth
        BY <2>5, <4>1
      <4>3. j = k
        BY <2>2, <2>3, <4>1, <4>2
      <4> QED
        BY <4>1, <4>3
    <3> QED
      BY <3>1, <3>2
  <2> HIDE DEF first
  <2> QED
    BY <1>0, <1>4, <2>6
<1> QED
  BY <1>1, <1>3, <1>4, AsOfIs DEF ours

-----------------------------------------------------------------------------
\* What writing makes of the rows.
LEMMA RowIsWritten ==
  ASSUME RowsInOrder, NEW t \in Moment, NEW values \in Partial, WriteRow(t, values)
  PROVE  LET row == [at |-> t, values |-> values, nth |-> Len(rows)] IN
         /\ RowsInOrder'
         /\ \A r : r \in ToSet(rows') <=> r \in ToSet(rows) \/ r = row
         /\ row \notin ToSet(rows)
<1> DEFINE row == [at |-> t, values |-> values, nth |-> Len(rows)]
           p == PlaceOf(t)
<1>1. Len(rows) \in Nat /\ t \in Int /\ row \in Row /\ rows \in Seq(Row)
  BY RowsAreRows, StoreAssumption DEF Row, Moment, RowsInOrder
<1>2. /\ p \in 1..(Len(rows) + 1)
      /\ \A k \in 1..Len(rows) : k < p <=> rows[k].at < t
  BY <1>1, PlaceIs
<1>3. rows' = InsertAt(rows, p, row) /\ Len(rows) < MaxRows
  BY DEF WriteRow
<1>4. row.at = t /\ row.nth = Len(rows) /\ row.values = values
  OBVIOUS
<1> HIDE DEF row, p
<1>5. /\ rows' \in Seq(Row) /\ Len(rows') = Len(rows) + 1
      /\ \A k \in 1..(Len(rows) + 1) :
           rows'[k] = IF k < p THEN rows[k] ELSE IF k = p THEN row ELSE rows[k - 1]
  <2>1. rows' \in Seq(Row) /\ IsInserted(rows', rows, p, row)
    BY <1>1, <1>2, <1>3, InsertAtIs
  <2> QED
    BY <2>1 DEF IsInserted
<1>6. \A k \in 1..Len(rows) : rows[k].nth < Len(rows) /\ rows[k].nth \in Nat /\ rows[k].at \in Int
  BY RowsAreRows DEF RowsInOrder
<1>7. ASSUME NEW k \in 1..Len(rows')
      PROVE  rows'[k].nth < Len(rows')
  <2>1. CASE k < p
    BY <1>1, <1>2, <1>5, <1>6, <2>1
  <2>2. CASE k = p
    BY <1>1, <1>4, <1>5, <2>2
  <2>3. CASE k > p
    <3>1. k - 1 \in 1..Len(rows) /\ rows'[k] = rows[k - 1]
      BY <1>1, <1>2, <1>5, <2>3
    <3> QED
      BY <1>1, <1>5, <1>6, <3>1
  <2> QED
    BY <1>1, <1>2, <1>5, <2>1, <2>2, <2>3
<1>8. ASSUME NEW i \in 1..Len(rows'), NEW j \in 1..Len(rows'), i < j
      PROVE  rows'[i].at < rows'[j].at
             \/ (rows'[i].at = rows'[j].at /\ rows'[j].nth < rows'[i].nth)
  <2>0. i \in 1..(Len(rows) + 1) /\ j \in 1..(Len(rows) + 1) /\ i \in Int /\ j \in Int /\ p \in Int
    BY <1>2, <1>5
  <2>1. CASE j < p
    <3>1. rows'[i] = rows[i] /\ rows'[j] = rows[j] /\ i \in 1..Len(rows) /\ j \in 1..Len(rows)
      BY <1>1, <1>2, <1>5, <1>8, <2>0, <2>1
    <3> QED
      BY <1>8, <3>1 DEF RowsInOrder
  <2>2. CASE j = p
    <3>1. rows'[i] = rows[i] /\ rows'[j] = row /\ i \in 1..Len(rows) /\ i < p
      BY <1>1, <1>2, <1>5, <1>8, <2>0, <2>2
    <3> QED
      BY <1>2, <1>4, <3>1
  <2>3. CASE j > p /\ i < p
    <3>1. rows'[i] = rows[i] /\ rows'[j] = rows[j - 1] /\ i \in 1..Len(rows) /\ j - 1 \in 1..Len(rows)
      BY <1>1, <1>2, <1>5, <1>8, <2>0, <2>3
    <3>2. i < j - 1 \/ i = j - 1
      BY <1>8, <2>0
    <3>3. i # j - 1
      BY <2>0, <2>3
    <3> QED
      BY <3>1, <3>2, <3>3 DEF RowsInOrder
  <2>4. CASE j > p /\ i = p
    <3>1. rows'[i] = row /\ rows'[j] = rows[j - 1] /\ j - 1 \in 1..Len(rows) /\ ~(j - 1 < p)
      BY <1>1, <1>2, <1>5, <1>8, <2>0, <2>4
    <3>2. ~(rows[j - 1].at < t) /\ rows[j - 1].nth < Len(rows) /\ rows[j - 1].at \in Int
      BY <1>2, <1>6, <3>1
    <3> QED
      BY <1>1, <1>4, <3>1, <3>2
  <2>5. CASE j > p /\ i > p
    <3>1. /\ rows'[i] = rows[i - 1] /\ rows'[j] = rows[j - 1] /\ i - 1 < j - 1
          /\ i - 1 \in 1..Len(rows) /\ j - 1 \in 1..Len(rows)
      BY <1>1, <1>2, <1>5, <1>8, <2>0, <2>5
    <3> QED
      BY <3>1 DEF RowsInOrder
  <2> QED
    BY <2>0, <2>1, <2>2, <2>3, <2>4, <2>5
<1>9. RowsInOrder'
  <2>1. Len(rows') <= MaxRows
    BY <1>1, <1>3, <1>5, StoreAssumption
  <2> QED
    BY <1>5, <1>7, <1>8, <2>1 DEF RowsInOrder
<1>10. /\ ToSet(rows) = {rows[k] : k \in 1..Len(rows)}
       /\ ToSet(rows') = {rows'[k] : k \in 1..(Len(rows) + 1)}
  BY <1>1, <1>5, LenProperties DEF ToSet
<1>11. ASSUME NEW r
       PROVE  r \in ToSet(rows') <=> r \in ToSet(rows) \/ r = row
  <2>1. ASSUME NEW k \in 1..(Len(rows) + 1)
        PROVE  rows'[k] \in ToSet(rows) \/ rows'[k] = row
    <3>1. CASE k < p
      <4>1. k \in 1..Len(rows) /\ rows'[k] = rows[k]
        BY <1>1, <1>2, <1>5, <3>1
      <4> QED
        BY <1>10, <4>1
    <3>2. CASE k = p
      BY <1>1, <1>2, <1>5, <3>2
    <3>3. CASE k > p
      <4>1. k - 1 \in 1..Len(rows) /\ rows'[k] = rows[k - 1]
        BY <1>1, <1>2, <1>5, <3>3
      <4> QED
        BY <1>10, <4>1
    <3> QED
      BY <1>1, <1>2, <3>1, <3>2, <3>3
  <2>2. row \in ToSet(rows')
    BY <1>1, <1>2, <1>5, <1>10
  <2>3. ASSUME NEW k \in 1..Len(rows)
        PROVE  rows[k] \in ToSet(rows')
    <3>1. CASE k < p
      <4>1. k \in 1..(Len(rows) + 1) /\ rows'[k] = rows[k]
        BY <1>1, <1>2, <1>5, <3>1
      <4> QED
        BY <1>10, <4>1
    <3>2. CASE k >= p
      <4>1. k + 1 \in 1..(Len(rows) + 1) /\ rows'[k + 1] = rows[(k + 1) - 1] /\ (k + 1) - 1 = k
        <5> DEFINE m == k + 1
        <5>1. m \in 1..(Len(rows) + 1) /\ m - 1 = k /\ ~(m < p) /\ m # p
          BY <1>1, <1>2, <3>2
        <5> HIDE DEF m
        <5>2. rows'[m] = rows[m - 1]
          BY <1>5, <5>1
        <5> QED
          BY <5>1, <5>2 DEF m
      <4> QED
        BY <1>10, <4>1
    <3> QED
      BY <1>1, <1>2, <3>1, <3>2
  <2> QED
    BY <1>10, <2>1, <2>2, <2>3
<1>12. row \notin ToSet(rows)
  BY <1>1, <1>4, <1>6, <1>10
<1> QED
  BY <1>9, <1>11, <1>12 DEF row

\* The inductive invariant of a store.
THEOREM StoreAlways == StoreSpec => []StoreInv
<1>1. StoreInit => StoreInv
  <2> SUFFICES ASSUME StoreInit PROVE StoreInv
    OBVIOUS
  <2>1. rows = << >> /\ rows \in Seq(Row) /\ Len(rows) = 0 /\ examples = {}
    BY DEF StoreInit
  <2> QED
    BY <2>1, StoreAssumption DEF StoreInv, RowsInOrder
<1>2. StoreInv /\ [StoreNext]_storeVars => StoreInv'
  <2> SUFFICES ASSUME StoreInv, [StoreNext]_storeVars PROVE StoreInv'
    OBVIOUS
  <2>0. RowsInOrder
    BY DEF StoreInv
  <2>1. CASE UNCHANGED storeVars
    BY <2>1 DEF storeVars, StoreInv, RowsInOrder, Grounded
  <2>2. ASSUME NEW t \in Moment, JoinLabel(t)
        PROVE  StoreInv'
    <3> DEFINE e == [at |-> t, features |-> AsOf(JoinedAt(t))]
    <3>1. rows' = rows /\ examples' = examples \cup {e}
      BY <2>2 DEF JoinLabel
    <3>2. t \in Int /\ JoinedAt(t) \in Int /\ JoinedAt(t) = t - Embargo
      BY StoreAssumption DEF Moment, JoinedAt
    <3>3. e \in [at : Moment, features : Values]
      BY <2>0, <3>2, AsOfIsValues
    <3>4. Grounded(e)
      <4> SUFFICES ASSUME NEW n \in Name, e.features[n] # Default
                   PROVE  \E k \in 1..Len(rows) : /\ rows[k].at <= e.at - Embargo
                                                  /\ n \in DOMAIN rows[k].values
                                                  /\ rows[k].values[n] = e.features[n]
        BY DEF Grounded
      <4>1. PICK k \in Ours(JoinedAt(t), n) : AsOf(JoinedAt(t))[n] = rows[k].values[n]
        BY <2>0, <3>2, AsOfIs
      <4> QED
        BY <3>2, <4>1 DEF Ours
    <3> HIDE DEF e
    <3>5. \A x : Grounded(x) => Grounded(x)'
      BY <3>1 DEF Grounded
    <3> QED
      BY <3>1, <3>3, <3>4, <3>5 DEF StoreInv, RowsInOrder
  <2>3. ASSUME NEW t \in Moment, NEW values \in Partial, WriteRow(t, values)
        PROVE  StoreInv'
    <3>1. /\ RowsInOrder' /\ examples' = examples
          /\ \A r \in ToSet(rows) : r \in ToSet(rows')
      BY <2>0, <2>3, RowIsWritten DEF WriteRow
    <3>2. ASSUME NEW e, Grounded(e)
          PROVE  Grounded(e)'
      <4> SUFFICES ASSUME NEW n \in Name, e.features[n] # Default
                   PROVE  \E k \in 1..Len(rows') : /\ rows'[k].at <= e.at - Embargo
                                                   /\ n \in DOMAIN rows'[k].values
                                                   /\ rows'[k].values[n] = e.features[n]
        BY DEF Grounded
      <4>1. PICK k \in 1..Len(rows) : /\ rows[k].at <= e.at - Embargo
                                      /\ n \in DOMAIN rows[k].values
                                      /\ rows[k].values[n] = e.features[n]
        BY <3>2 DEF Grounded
      <4>2. rows[k] \in ToSet(rows)
        BY <2>0, RowsAreRows DEF ToSet
      <4>3. DOMAIN rows' = 1..Len(rows')
        BY <3>1, LenProperties DEF RowsInOrder
      <4>4. PICK j \in 1..Len(rows') : rows'[j] = rows[k]
        BY <3>1, <4>2, <4>3 DEF ToSet
      <4> QED
        BY <4>1, <4>4
    <3> QED
      BY <3>1, <3>2 DEF StoreInv
  <2> QED
    BY <2>1, <2>2, <2>3 DEF StoreNext
<1> QED
  BY <1>1, <1>2, PTL DEF StoreSpec

\* Whatever the order in which rows come in, a feature is read as the newest value of its
\* time, and an example that was joined is never said to leak.
THEOREM FeaturesAlwaysOfTheirTime == StoreSpec => []FeaturesAreOfTheirTime
<1>1. StoreInv => FeaturesAreOfTheirTime
  <2> SUFFICES ASSUME StoreInv PROVE FeaturesAreOfTheirTime
    OBVIOUS
  <2>0. RowsInOrder
    BY DEF StoreInv
  <2>1. RowsTypeOK
    <3>1. \A k \in 1..(Len(rows) - 1) : rows[k].at <= rows[k + 1].at
      <4> SUFFICES ASSUME NEW k \in 1..(Len(rows) - 1) PROVE rows[k].at <= rows[k + 1].at
        OBVIOUS
      <4>1. k \in 1..Len(rows) /\ k + 1 \in 1..Len(rows) /\ k <= k + 1
        BY <2>0, RowsAreRows
      <4> QED
        BY <2>0, <4>1, RowsAreRows
    <3> QED
      BY <2>0, <3>1, RowsAreRows DEF RowsTypeOK, StoreInv, RowsInOrder
  <2>2. FeaturesAreTheNewest
    BY <2>0, NewestIsRead
  <2>3. JoinedNeverLeaks
    <3> SUFFICES ASSUME NEW e \in examples, Leaks(e) PROVE FALSE
      BY DEF JoinedNeverLeaks
    <3>1. PICK n \in Name :
            /\ e.features[n] # Default
            /\ \A k \in DOMAIN rows : rows[k].at <= e.at - Embargo =>
                 ~(n \in DOMAIN rows[k].values /\ rows[k].values[n] = e.features[n])
      BY DEF Leaks
    <3>2. PICK k \in 1..Len(rows) : /\ rows[k].at <= e.at - Embargo
                                    /\ n \in DOMAIN rows[k].values
                                    /\ rows[k].values[n] = e.features[n]
      BY <3>1 DEF StoreInv, Grounded
    <3> QED
      BY <2>0, <3>1, <3>2, RowsAreRows
  <2> QED
    BY <2>1, <2>2, <2>3 DEF FeaturesAreOfTheirTime
<1> QED
  BY <1>1, StoreAlways, PTL

\* A row changes what is read between its event time and its ttl only, however late it is
\* written: no join sees the future of its label.
THEOREM RowsAlwaysKeepToTheirTime == StoreSpec => RowsKeepToTheirTime
<1> DEFINE Kept == \A t \in Moment : AsOf(t)' # AsOf(t) =>
                     \E r \in ToSet(rows') \ ToSet(rows) : r.at <= t /\ t <= r.at + Ttl
<1>1. /\ StoreInv /\ [StoreNext]_storeVars
      /\ FeaturesAreOfTheirTime /\ FeaturesAreOfTheirTime'
      => [Kept]_storeVars
  <2> SUFFICES ASSUME RowsInOrder, StoreNext, FeaturesAreTheNewest, FeaturesAreTheNewest'
               PROVE  Kept
    BY DEF StoreInv, FeaturesAreOfTheirTime
  <2>1. CASE \E t \in Moment : JoinLabel(t)
    <3>1. rows' = rows
      BY <2>1 DEF JoinLabel
    <3>2. \A t \in Moment : AsOf(t)' = AsOf(t)
      BY <3>1 DEF AsOf, InTtl, Cutoff
    <3> QED
      BY <3>2
  <2>2. ASSUME NEW w \in Moment, NEW values \in Partial, WriteRow(w, values)
        PROVE  Kept
    <3> DEFINE row == [at |-> w, values |-> values, nth |-> Len(rows)]
    <3>1. /\ row \notin ToSet(rows)
          /\ \A r : r \in ToSet(rows') <=> r \in ToSet(rows) \/ r = row
      BY <2>2, RowIsWritten
    <3> SUFFICES ASSUME NEW t \in Moment, ~(row.at <= t /\ t <= row.at + Ttl)
                 PROVE  AsOf(t)' = AsOf(t)
      BY <3>1
    <3>3. ASSUME NEW n \in Name
          PROVE  AsOf(t)'[n] = AsOf(t)[n]
      <4>1. row.at \in Int /\ t \in Int /\ Ttl \in Int
        BY StoreAssumption DEF Moment
      <4>2. ~(row.at <= t /\ row.at + Ttl >= t)
        BY <4>1
      <4> HIDE DEF row
      <4>3. InTime(ToSet(rows'), t, n) = InTime(ToSet(rows), t, n)
        BY <3>1, <4>2 DEF InTime
      <4>4. AsOf(t)[n] = Telling(InTime(ToSet(rows), t, n), n)
        BY DEF FeaturesAreTheNewest, InTime, Telling
      <4>5. AsOf(t)'[n] = Telling(InTime(ToSet(rows'), t, n), n)
        BY DEF FeaturesAreTheNewest, InTime, Telling
      <4> QED
        BY <4>3, <4>4, <4>5
    <3> QED
      BY <3>3 DEF AsOf
  <2> QED
    BY <2>1, <2>2 DEF StoreNext
<1> QED
  BY <1>1, StoreAlways, FeaturesAlwaysOfTheirTime, PTL DEF StoreSpec, RowsKeepToTheirTime

-----------------------------------------------------------------------------
\* The making of a feed.

\* An order on K: nothing goes before itself, and of two members one goes before the other.
Orders(before, K) ==
  /\ \A x \in K : <<x, x>> \notin before
  /\ \A x, y, z \in K : <<x, y>> \in before /\ <<y, z>> \in before => <<x, z>> \in before
  /\ \A x, y \in K : x = y \/ <<x, y>> \in before \/ <<y, x>> \in before

\* o has the n members of K, each once, in order.
Lists(o, K, before, n) ==
  /\ o \in [1..n -> K]
  /\ \A k \in K : \E i \in 1..n : o[i] = k
  /\ \A i, j \in 1..n : /\ i < j => <<o[i], o[j]>> \in before
                        /\ o[i] = o[j] => i = j

\* The members of a finite set in order: each one is listed, and goes before those listed
\* after it.  The number of members before one is different for each, and less than
\* their number; so every number less than it is that of one member.
LEMMA InOrderIs ==
  ASSUME NEW K, IsFiniteSet(K), NEW before, Orders(before, K)
  PROVE  Cardinality(K) \in Nat /\ Lists(InOrder(K, before), K, before, Cardinality(K))
<1> DEFINE n == Cardinality(K)
           o == InOrder(K, before)
           S(k) == {j \in K : <<j, k>> \in before}
           c == [k \in K |-> Cardinality(S(k))]
<1>1. n \in Nat
  BY FS_CardinalityType
<1>2. ASSUME NEW k \in K
      PROVE  /\ IsFiniteSet(S(k)) /\ Cardinality(S(k)) \in Nat
             /\ c[k] = Cardinality(S(k)) /\ c[k] \in 0..(n - 1)
  <2>1. S(k) \in SUBSET K /\ S(k) # K
    BY DEF Orders
  <2>2. IsFiniteSet(S(k)) /\ Cardinality(S(k)) <= n /\ n # Cardinality(S(k))
    BY <2>1, FS_Subset
  <2>3. Cardinality(S(k)) \in Nat
    BY <2>2, FS_CardinalityType
  <2> HIDE DEF S, n
  <2> QED
    BY <1>1, <2>2, <2>3
<1>3. ASSUME NEW j \in K, NEW k \in K, <<j, k>> \in before
      PROVE  c[j] < c[k]
  <2>1. S(j) \in SUBSET S(k)
    BY <1>3 DEF Orders
  <2>2. j \in S(k) /\ j \notin S(j)
    BY <1>3 DEF Orders
  <2> HIDE DEF S, n
  <2>3. Cardinality(S(j)) <= Cardinality(S(k)) /\ Cardinality(S(k)) # Cardinality(S(j))
    BY <1>2, <2>1, <2>2, FS_Subset
  <2> QED
    BY <1>2, <2>3
<1> HIDE DEF c
<1>4. c \in Injection(K, 0..(n - 1))
  <2>1. c \in [K -> 0..(n - 1)]
    BY <1>2 DEF c
  <2>2. ASSUME NEW j \in K, NEW k \in K, c[j] = c[k]
        PROVE  j = k
    <3>1. c[j] \in Nat /\ c[k] \in Nat
      BY <1>2
    <3>2. <<j, k>> \notin before /\ <<k, j>> \notin before
      BY <1>3, <2>2, <3>1
    <3> QED
      BY <3>2 DEF Orders
  <2>3. IsInjective(c)
    BY <2>1, <2>2 DEF IsInjective
  <2> QED
    BY <2>1, <2>3 DEF Injection
<1>5. c \in Surjection(K, 0..(n - 1))
  <2>1. \A z \in Nat : IsFiniteSet(0..(z - 1)) /\ Cardinality(0..(z - 1)) = z
    BY FS_Interval
  <2>2. IsFiniteSet(0..(n - 1)) /\ Cardinality(0..(n - 1)) = n
    BY <1>1, <2>1
  <2> QED
    BY <1>4, <2>2, FS_Injection
<1>6. ASSUME NEW i \in 1..n PROVE o[i] \in K /\ c[o[i]] = i - 1
  <2>1. i - 1 \in 0..(n - 1)
    BY <1>1
  <2>2. \E k \in K : c[k] = i - 1
    BY <1>5, <2>1 DEF Surjection
  <2>3. \E k \in K : Cardinality(S(k)) = i - 1
    BY <1>2, <2>2
  <2>4. o[i] = CHOOSE k \in K : Cardinality(S(k)) = i - 1
    BY DEF InOrder
  <2> HIDE DEF S, n, o
  <2>5. o[i] \in K /\ Cardinality(S(o[i])) = i - 1
    BY <2>3, <2>4
  <2> QED
    BY <1>2, <2>5
<1>7. ASSUME NEW k \in K PROVE \E i \in 1..n : o[i] = k
  <2>1. c[k] \in 0..(n - 1) /\ c[k] + 1 \in 1..n /\ (c[k] + 1) - 1 = c[k]
    <3>1. c[k] \in 0..(n - 1)
      BY <1>2
    <3> HIDE DEF n
    <3> QED
      BY <1>1, <3>1
  <2>2. o[c[k] + 1] \in K /\ c[o[c[k] + 1]] = c[k]
    BY <1>6, <2>1
  <2> HIDE DEF n, o
  <2>3. o[c[k] + 1] = k
    BY <1>4, <2>2 DEF Injection, IsInjective
  <2> QED
    BY <2>1, <2>3
<1>8. ASSUME NEW i \in 1..n, NEW j \in 1..n, i < j PROVE <<o[i], o[j]>> \in before
  <2>1. o[i] \in K /\ c[o[i]] = i - 1 /\ o[j] \in K /\ c[o[j]] = j - 1
    BY <1>6
  <2> HIDE DEF n, o
  <2>2. ~(c[o[j]] < c[o[i]]) /\ o[i] # o[j]
    BY <1>1, <1>8, <2>1
  <2>3. <<o[j], o[i]>> \notin before
    BY <1>3, <2>1, <2>2
  <2> QED
    BY <2>1, <2>2, <2>3 DEF Orders
<1>9. ASSUME NEW i \in 1..n, NEW j \in 1..n, o[i] = o[j] PROVE i = j
  <2>1. c[o[i]] = i - 1 /\ c[o[j]] = j - 1
    BY <1>6
  <2> HIDE DEF n, o
  <2> QED
    BY <1>1, <1>9, <2>1
<1>10. o \in [1..n -> K]
  <2> DEFINE pick(i) == CHOOSE k \in K : Cardinality(S(k)) = i - 1
  <2>1. o = [i \in 1..n |-> pick(i)]
    BY DEF InOrder
  <2> HIDE DEF n, o, pick
  <2> QED
    BY <1>6, <2>1
<1> HIDE DEF n, o
<1>11. Lists(o, K, before, n)
  BY <1>7, <1>8, <1>9, <1>10 DEF Lists
<1> QED
  BY <1>1, <1>11 DEF n, o

\* A list of items, none of them twice.
IsList(list) == list \in Seq(Id) /\ IsInjective(list)

Descending(list) == \A i, j \in 1..Len(list) : i < j => scored[list[i]] >= scored[list[j]]

LEMMA BetterOrders ==
  ASSUME NEW list \in Seq(Id), NEW score \in [Id -> Int]
  PROVE  Orders(Better(list, score), DOMAIN list)
<1> DEFINE v == [k \in DOMAIN list |-> score[list[k]]]
           K == DOMAIN list
<1>1. \A k \in K : v[k] \in Int /\ k \in Int
  OBVIOUS
<1>2. \A j, k \in K : <<j, k>> \in Better(list, score) <=> (v[j] > v[k] \/ (v[j] = v[k] /\ j < k))
  BY DEF Better
<1> HIDE DEF v, K
<1>3. \A x \in K : <<x, x>> \notin Better(list, score)
  BY <1>1, <1>2
<1>4. ASSUME NEW x \in K, NEW y \in K, NEW z \in K,
             <<x, y>> \in Better(list, score), <<y, z>> \in Better(list, score)
      PROVE  <<x, z>> \in Better(list, score)
  <2>1. v[x] \in Int /\ v[y] \in Int /\ v[z] \in Int /\ x \in Int /\ y \in Int /\ z \in Int
    BY <1>1
  <2>2. /\ v[x] > v[y] \/ (v[x] = v[y] /\ x < y)
        /\ v[y] > v[z] \/ (v[y] = v[z] /\ y < z)
    BY <1>2, <1>4
  <2>3. v[x] > v[z] \/ (v[x] = v[z] /\ x < z)
    BY ONLY <2>1, <2>2
  <2> QED
    BY <1>2, <2>3
<1>5. ASSUME NEW x \in K, NEW y \in K
      PROVE  x = y \/ <<x, y>> \in Better(list, score) \/ <<y, x>> \in Better(list, score)
  BY <1>1, <1>2
<1> QED
  BY <1>3, <1>4, <1>5 DEF Orders, K

\* The sort lists what it was given, best first.
LEMMA BestFirstIs ==
  ASSUME NEW list, IsList(list), NEW score \in [Id -> Int]
  PROVE  LET b == BestFirst(list, score) IN
         /\ IsList(b) /\ Len(b) = Len(list) /\ Range(b) = Range(list)
         /\ \A i, j \in 1..Len(b) : i < j => score[b[i]] >= score[b[j]]
<1> DEFINE n == Len(list)
           o == InOrder(DOMAIN list, Better(list, score))
           b == BestFirst(list, score)
<1>1. n \in Nat /\ DOMAIN list = 1..n /\ IsFiniteSet(1..n) /\ Cardinality(1..n) = n
  <2>1. n \in Nat /\ DOMAIN list = 1..n
    BY DEF IsList
  <2> HIDE DEF n
  <2> QED
    BY <2>1, FS_Interval
<1>2. Orders(Better(list, score), 1..n)
  BY <1>1, BetterOrders DEF IsList
<1> HIDE DEF n
<1>0. o = InOrder(1..n, Better(list, score))
  BY <1>1
<1>4. Lists(o, 1..n, Better(list, score), n)
  BY <1>0, <1>1, <1>2, InOrderIs
<1> HIDE DEF o
<1>3. /\ \A i \in 1..n : o[i] \in 1..n
      /\ \A k \in 1..n : \E i \in 1..n : o[i] = k
      /\ \A i, j \in 1..n : i < j => <<o[i], o[j]>> \in Better(list, score)
      /\ \A i, j \in 1..n : o[i] = o[j] => i = j
  BY <1>4 DEF Lists
<1>5. b = [i \in 1..n |-> list[o[i]]]
  BY <1>1 DEF BestFirst, o
<1>6. list \in [1..n -> Id] /\ \A i, j \in 1..n : list[i] = list[j] => i = j
  BY <1>1 DEF IsList, IsInjective, n
<1>7. b \in [1..n -> Id] /\ \A i \in 1..n : b[i] = list[o[i]]
  BY <1>3, <1>5, <1>6
<1> HIDE DEF b
<1>8. b \in Seq(Id) /\ Len(b) = n /\ DOMAIN b = 1..n
  BY <1>1, <1>7
<1>9. IsInjective(b)
  <2> SUFFICES ASSUME NEW i \in 1..n, NEW j \in 1..n, b[i] = b[j] PROVE i = j
    BY <1>8 DEF IsInjective
  <2>1. o[i] \in 1..n /\ o[j] \in 1..n /\ list[o[i]] = list[o[j]]
    BY <1>3, <1>7
  <2>2. o[i] = o[j]
    BY <1>6, <2>1
  <2> QED
    BY <1>3, <2>2
<1>10. Range(b) = Range(list)
  <2>1. ASSUME NEW i \in 1..n PROVE \E k \in 1..n : b[i] = list[k]
    BY <1>3, <1>7
  <2>2. ASSUME NEW k \in 1..n PROVE \E i \in 1..n : list[k] = b[i]
    <3>1. PICK i \in 1..n : o[i] = k
      BY <1>3
    <3> QED
      BY <1>7, <3>1
  <2>3. Range(b) = {b[i] : i \in 1..n} /\ Range(list) = {list[k] : k \in 1..n}
    BY <1>1, <1>8 DEF Range
  <2> QED
    BY <2>1, <2>2, <2>3
<1>11. ASSUME NEW i \in 1..n, NEW j \in 1..n, i < j PROVE score[b[i]] >= score[b[j]]
  <2>1. <<o[i], o[j]>> \in Better(list, score) /\ o[i] \in 1..n /\ o[j] \in 1..n
    BY <1>3, <1>11
  <2>2. score[list[o[i]]] \in Int /\ score[list[o[j]]] \in Int
    BY <1>6, <2>1
  <2>3. score[list[o[i]]] > score[list[o[j]]] \/ score[list[o[i]]] = score[list[o[j]]]
    BY <2>1 DEF Better
  <2> QED
    BY <1>7, <2>2, <2>3
<1> QED
  BY <1>8, <1>9, <1>10, <1>11 DEF IsList, b, n

\* How many items of an author a list has.
OfAuthor(list, a) == {k \in DOMAIN list : author[list[k]] = a}

\* The cap keeps the order and the first item, and no author has too many: there are fewer
\* than MaxPerAuthor before the last one that is kept.
LEMMA CappedIs ==
  ASSUME NEW list, IsList(list), author \in [Id -> Author \cup {Anonymous}]
  PROVE  LET b == Capped(list) IN
         /\ IsList(b)
         /\ Len(list) > 0 => Len(b) > 0 /\ b[1] = list[1]
         /\ Descending(list) => Descending(b)
         /\ \A a \in Author : IsFiniteSet(OfAuthor(b, a))
                              /\ Cardinality(OfAuthor(b, a)) <= MaxPerAuthor
<1> DEFINE n == Len(list)
           K == {k \in DOMAIN list : ~IsOverCap(list, k)}
           m == Cardinality(K)
           o == InOrder(K, Earlier(K))
           b == Capped(list)
<1>1. /\ n \in Nat /\ DOMAIN list = 1..n /\ list \in [1..n -> Id]
      /\ \A i, j \in 1..n : list[i] = list[j] => i = j
  <2>1. n \in Nat /\ DOMAIN list = 1..n /\ list \in [1..n -> Id]
    BY DEF IsList
  <2> QED
    BY <2>1 DEF IsList, IsInjective
<1>2. K \in SUBSET (1..n) /\ IsFiniteSet(K)
  <2>1. K \in SUBSET (1..n)
    BY <1>1
  <2>2. IsFiniteSet(1..n)
    BY <1>1, FS_Interval
  <2> HIDE DEF n, K
  <2> QED
    BY <2>1, <2>2, FS_Subset
<1>3. Orders(Earlier(K), K)
  <2> HIDE DEF K, n
  <2>1. \A x, y \in K : x \in Int /\ y \in Int /\ (<<x, y>> \in Earlier(K) <=> x < y)
    BY <1>1, <1>2 DEF Earlier
  <2> QED
    BY <2>1 DEF Orders
<1>4. m \in Nat /\ Lists(o, K, Earlier(K), m)
  <2> HIDE DEF K
  <2> QED
    BY <1>2, <1>3, InOrderIs
<1>5. b = [i \in DOMAIN o |-> list[o[i]]]
  BY DEF Capped
<1>6. \A k \in K : ~IsOverCap(list, k)
  OBVIOUS
<1>7. n > 0 => 1 \in K
  <2>1. 1..(1 - 1) = {}
    OBVIOUS
  <2>2. {j \in 1..(1 - 1) : author[list[j]] = author[list[1]]} = {}
    BY <2>1
  <2>3. Cardinality({}) = 0 /\ ~(0 >= MaxPerAuthor)
    BY FS_EmptySet, PipelineAssumption
  <2>4. ~IsOverCap(list, 1)
    BY <2>2, <2>3 DEF IsOverCap
  <2> QED
    BY <1>1, <2>4
<1> HIDE DEF n, K, m, o, b
<1>8. /\ o \in [1..m -> 1..n] /\ DOMAIN o = 1..m
      /\ \A i \in 1..m : o[i] \in K
      /\ \A k \in K : \E i \in 1..m : o[i] = k
      /\ \A i, j \in 1..m : i < j => o[i] < o[j]
  BY <1>2, <1>4 DEF Lists, Earlier
<1>9. b \in [1..m -> Id] /\ \A i \in 1..m : b[i] = list[o[i]]
  BY <1>1, <1>5, <1>8
<1>10. b \in Seq(Id) /\ Len(b) = m /\ DOMAIN b = 1..m
  BY <1>4, <1>9
<1>11. IsInjective(b)
  <2> SUFFICES ASSUME NEW i \in 1..m, NEW j \in 1..m, b[i] = b[j] PROVE i = j
    BY <1>10 DEF IsInjective
  <2>1. o[i] = o[j]
    BY <1>1, <1>8, <1>9
  <2>2. ~(o[i] < o[j]) /\ ~(o[j] < o[i])
    BY <1>1, <1>8, <2>1
  <2> QED
    BY <1>4, <1>8, <2>2
<1>12. ASSUME n > 0 PROVE m > 0 /\ b[1] = list[1]
  <2>1. PICK i \in 1..m : o[i] = 1
    BY <1>7, <1>8, <1>12
  <2>2. 1 \in 1..m /\ m > 0 /\ (1 < i => o[1] < 1) /\ o[1] \in 1..n
    BY <1>4, <1>8, <2>1
  <2>3. i = 1
    BY <1>1, <1>4, <2>2
  <2> QED
    BY <1>9, <2>1, <2>2, <2>3
<1>13. ASSUME Descending(list) PROVE Descending(b)
  <2> SUFFICES ASSUME NEW i \in 1..m, NEW j \in 1..m, i < j
               PROVE  scored[b[i]] >= scored[b[j]]
    BY <1>10 DEF Descending
  <2>1. o[i] \in 1..n /\ o[j] \in 1..n /\ o[i] < o[j]
    BY <1>8
  <2>2. scored[list[o[i]]] >= scored[list[o[j]]]
    BY <1>13, <2>1 DEF Descending, n
  <2> QED
    BY <1>9, <2>2
<1>14. ASSUME NEW a \in Author
       PROVE  IsFiniteSet(OfAuthor(b, a)) /\ Cardinality(OfAuthor(b, a)) <= MaxPerAuthor
  <2> DEFINE A == OfAuthor(b, a)
  <2>1. A \in SUBSET (1..m) /\ \A i \in 1..m : i \in A <=> author[list[o[i]]] = a
    BY <1>9, <1>10 DEF OfAuthor
  <2> HIDE DEF A
  <2>2. IsFiniteSet(A)
    <3>1. IsFiniteSet(1..m)
      BY <1>4, FS_Interval
    <3> QED
      BY <2>1, <3>1, FS_Subset
  <2>3. CASE A = {}
    BY <2>2, <2>3, FS_EmptySet, PipelineAssumption DEF A
  <2>4. CASE A # {}
    <3>1. PICK i \in A : \A j \in A : j <= i
      BY <1>4, <2>1, <2>4, GreatestIndex
    <3> DEFINE before == {j \in 1..(o[i] - 1) : author[list[j]] = author[list[o[i]]]}
               rest == A \ {i}
               f == [j \in rest |-> o[j]]
    <3>2. i \in 1..m /\ o[i] \in K /\ o[i] \in 1..n /\ author[list[o[i]]] = a
      BY <1>8, <2>1, <3>1
    <3>3. ~(Cardinality(before) >= MaxPerAuthor)
      <4>1. a # Anonymous /\ ~IsOverCap(list, o[i])
        BY <1>6, <3>2, PipelineAssumption
      <4> QED
        BY <3>2, <4>1 DEF IsOverCap
    <3>4. IsFiniteSet(before)
      <4>1. IsFiniteSet(1..(o[i] - 1)) /\ before \in SUBSET (1..(o[i] - 1))
        BY <1>1, <3>2, FS_Interval
      <4> HIDE DEF before
      <4> QED
        BY <4>1, FS_Subset
    <3>5. f \in Injection(rest, before)
      <4>1. ASSUME NEW j \in rest PROVE j \in 1..m /\ o[j] \in before
        <5>1. j \in 1..m /\ j < i /\ j \in A
          BY <2>1, <3>1, <3>2
        <5>2. o[j] \in 1..n /\ o[j] < o[i] /\ author[list[o[j]]] = a
          BY <1>8, <2>1, <3>2, <5>1
        <5> QED
          BY <1>1, <3>2, <5>1, <5>2
      <4>2. ASSUME NEW j \in rest, NEW k \in rest, o[j] = o[k] PROVE j = k
        <5>1. j \in 1..m /\ k \in 1..m
          BY <4>1
        <5>2. b[j] = b[k]
          BY <1>9, <4>2, <5>1
        <5> QED
          BY <1>10, <1>11, <5>1, <5>2 DEF IsInjective
      <4> HIDE DEF rest, before
      <4> QED
        BY <4>1, <4>2 DEF Injection, IsInjective
    <3> HIDE DEF f
    <3>6. Cardinality(rest) <= Cardinality(before) /\ IsFiniteSet(rest)
      <4> HIDE DEF rest, before
      <4> QED
        BY <3>4, <3>5, FS_Injection
    <3>7. Cardinality(rest) = Cardinality(A) - 1 /\ Cardinality(A) \in Nat
      BY <2>2, <3>1, FS_RemoveElement, FS_CardinalityType
    <3>8. Cardinality(before) \in Nat /\ Cardinality(rest) \in Nat /\ MaxPerAuthor \in Nat
      <4> HIDE DEF rest, before
      <4> QED
        BY <3>4, <3>6, FS_CardinalityType, PipelineAssumption
    <3>9. Cardinality(A) <= MaxPerAuthor
      <4> HIDE DEF rest, before
      <4> QED
        BY <3>3, <3>6, <3>7, <3>8
    <3> QED
      BY <2>2, <3>9 DEF A
  <2> QED
    BY <2>3, <2>4
<1> QED
  BY <1>10, <1>11, <1>12, <1>13, <1>14 DEF IsList, b, n

Stages == {"rank", "freshen", "cap", "diversify", "explore", "served"}

FeedTyped ==
  /\ bucket \in 0..(Buckets - 1) /\ author \in [Id -> Author \cup {Anonymous}]
  /\ stage \in Stages /\ scored \in [Id -> Nat] /\ explored \in Nat
  /\ IsList(ranked) /\ IsList(selected) /\ IsList(result)

\* The ranked list: everything until the cap, best first once it is fresh; and what the cap
\* leaves has the best item of all first, and no author too often.
RankedSense ==
  /\ stage = "rank" => ranked = << >>
  /\ stage \in {"freshen", "cap"} => Range(ranked) = Id
  /\ stage \notin {"rank", "freshen"} => Descending(ranked)
  /\ stage \in {"diversify", "explore", "served"} =>
       /\ Items > 0 => Len(ranked) > 0 /\ \A i \in Id : scored[i] <= scored[ranked[1]]
       /\ \A a \in Author : /\ IsFiniteSet(OfAuthor(ranked, a))
                            /\ Cardinality(OfAuthor(ranked, a)) <= MaxPerAuthor

\* What is selected is ranked, the first of it first, and for the control all of it in order.
SelectedSense ==
  /\ stage \in {"rank", "freshen", "cap"} => selected = << >>
  /\ Len(selected) <= Size /\ Range(selected) \subseteq Range(ranked)
  /\ Len(selected) > 0 => selected[1] = ranked[1]
  /\ Variant = "control" => \A k \in 1..Len(selected) : selected[k] = ranked[k]
  /\ stage \in {"explore", "served"} => Len(selected) = Size

\* Exploration has replaced so many items from the end, at most half of them.
ResultSense ==
  /\ stage \notin {"explore", "served"} => result = selected /\ explored = 0
  /\ stage \in {"explore", "served"} => explored <= Slots
  /\ Len(result) = Len(selected) /\ Range(result) \subseteq Range(ranked)
  /\ \A k \in 1..(Len(selected) - explored) : result[k] = selected[k]

FeedInv == FeedTyped /\ RankedSense /\ SelectedSense /\ ResultSense

-----------------------------------------------------------------------------
LEMMA SizeIs ==
  ASSUME IsList(ranked)
  PROVE  LET bound == Least(Len(ranked), 4 * ReturnK) IN
         /\ Len(ranked) \in Nat /\ bound \in Nat /\ bound <= Len(ranked) /\ Size \in Nat
         /\ Size <= bound /\ Size <= ReturnK /\ Size = Least(ReturnK, Len(ranked))
         /\ Len(ranked) > 0 => Size > 0
<1>1. Len(ranked) \in Nat /\ ReturnK \in Nat /\ ReturnK > 0
  BY PipelineAssumption DEF IsList
<1> QED
  BY <1>1 DEF Size, Least

\* Exploration has a slot for at most every second item.
LEMMA SlotsIs ==
  ASSUME IsList(selected), IsList(ranked)
  PROVE  Slots \in Nat /\ 2 * Slots <= Len(selected)
<1> DEFINE L == Len(selected)
           x == L * ExplorePercent
           share == x \div 100
           c == Cardinality(Reserve)
<1>1. L \in Nat /\ ExplorePercent \in Nat /\ ExplorePercent <= 49
  BY PipelineAssumption DEF IsList
<1>2. c \in Nat
  <2>1. Reserve \in SUBSET (1..Len(ranked)) /\ Len(ranked) \in Nat
    BY DEF Reserve, IsList
  <2>2. IsFiniteSet(1..Len(ranked))
    BY <2>1, FS_Interval
  <2> QED
    BY <2>1, <2>2, FS_Subset, FS_CardinalityType
<1>3. x \in Nat /\ x <= 49 * L
  <2>1. \A a, b \in Nat : b <= 49 => a * b \in Nat /\ a * b <= 49 * a
    OBVIOUS
  <2> QED
    BY <1>1, <2>1
<1> HIDE DEF x
<1>4. share \in Nat /\ 2 * share <= L
  BY <1>1, <1>3
<1>5. Slots = IF ExplorePercent = 0 \/ L < 4 THEN 0
              ELSE Least(IF share = 0 THEN 1 ELSE share, c)
  BY DEF Slots, x
<1> HIDE DEF share, c, L
<1>6. Slots \in Nat /\ 2 * Slots <= L
  BY <1>1, <1>2, <1>4, <1>5 DEF Least
<1> QED
  BY <1>6 DEF L

\* What is picked is left, none that is left is worth more, and none of the same worth is
\* before it.
Left(chosen) == {k \in Pool : ranked[k] \notin Range(chosen)}
Worth(chosen) == [k \in Left(chosen) |-> Value(chosen, ranked[k])]

LEMMA PickIs ==
  ASSUME FeedTyped, NEW chosen, Left(chosen) # {}
  PROVE  \E k \in Left(chosen) :
           /\ Pick(chosen) = ranked[k] /\ ranked[k] \in Id
           /\ \A j \in Left(chosen) :
                (\A l \in Left(chosen) : Worth(chosen)[l] <= Worth(chosen)[j]) => k <= j
           /\ \A j \in Left(chosen) : Worth(chosen)[j] <= Worth(chosen)[k]
<1> DEFINE left == Left(chosen)
           v == Worth(chosen)
           before == {p \in left \X left : v[p[1]] > v[p[2]] \/ (v[p[1]] = v[p[2]] /\ p[1] < p[2])}
           best == {k \in left : \A j \in left : v[j] <= v[k]}
           m == Least(Len(ranked), 4 * ReturnK)
<1>1. m \in Nat /\ left \in SUBSET (1..m) /\ IsFiniteSet(left) /\ \A k \in left : k \in Nat /\ ranked[k] \in Id
  <2>1. m \in Nat /\ m <= Len(ranked) /\ Pool = 1..m
    BY SizeIs DEF FeedTyped, Pool
  <2>2. IsFiniteSet(1..m) /\ left \in SUBSET (1..m)
    BY <2>1, FS_Interval DEF Left
  <2>3. \A k \in 1..m : ranked[k] \in Id
    BY <2>1 DEF FeedTyped, IsList
  <2> HIDE DEF left, m
  <2>4. IsFiniteSet(left)
    BY <2>2, FS_Subset
  <2> QED
    BY <2>1, <2>2, <2>3, <2>4
<1>2. \A k \in left : v[k] = Value(chosen, ranked[k]) /\ v[k] \in Int
  <2> TAKE k \in left
  <2>1. scored[ranked[k]] \in Nat
    BY <1>1 DEF FeedTyped
  <2>2. Lambda \in {7, 10} /\ Worst(chosen, ranked[k]) \in {0, 10000}
    BY DEF Lambda, Worst
  <2>3. Value(chosen, ranked[k]) \in Int
    BY <2>1, <2>2 DEF Value
  <2> QED
    BY <2>3 DEF Worth
<1> HIDE DEF left, v, m
<1>3. Orders(before, left)
  <2>1. \A x, y \in left : <<x, y>> \in before <=> (v[x] > v[y] \/ (v[x] = v[y] /\ x < y))
    OBVIOUS
  <2> HIDE DEF before
  <2>2. \A x \in left : <<x, x>> \notin before
    BY <1>1, <1>2, <2>1
  <2>3. ASSUME NEW x \in left, NEW y \in left, NEW z \in left, <<x, y>> \in before, <<y, z>> \in before
        PROVE  <<x, z>> \in before
    <3>1. v[x] \in Int /\ v[y] \in Int /\ v[z] \in Int /\ x \in Nat /\ y \in Nat /\ z \in Nat
      BY <1>1, <1>2
    <3>2. /\ v[x] > v[y] \/ (v[x] = v[y] /\ x < y)
          /\ v[y] > v[z] \/ (v[y] = v[z] /\ y < z)
      BY <2>1, <2>3
    <3>3. v[x] > v[z] \/ (v[x] = v[z] /\ x < z)
      BY ONLY <3>1, <3>2
    <3> QED
      BY <2>1, <3>3
  <2>4. ASSUME NEW x \in left, NEW y \in left
        PROVE  x = y \/ <<x, y>> \in before \/ <<y, x>> \in before
    <3>1. v[x] \in Int /\ v[y] \in Int /\ x \in Nat /\ y \in Nat
      BY <1>1, <1>2
    <3> QED
      BY <2>1, <3>1
  <2> QED
    BY <2>2, <2>3, <2>4 DEF Orders
<1>4. \E k \in left : \A j \in left : v[j] <= v[k]
  <2> DEFINE o == InOrder(left, before)
             n == Cardinality(left)
  <2>1. n \in Nat /\ Lists(o, left, before, n)
    <3> HIDE DEF before
    <3> QED
      BY <1>1, <1>3, InOrderIs
  <2> HIDE DEF o, n
  <2>2. n > 0 /\ 1 \in 1..n
    <3>1. PICK k \in left : TRUE
      BY DEF left
    <3>2. \E i \in 1..n : o[i] = k
      BY <2>1, <3>1 DEF Lists
    <3> QED
      BY <2>1, <3>2
  <2>3. o[1] \in left
    BY <2>1, <2>2 DEF Lists
  <2>4. ASSUME NEW j \in left PROVE v[j] <= v[o[1]]
    <3>1. PICK i \in 1..n : o[i] = j
      BY <2>1 DEF Lists
    <3>2. 1 < i => <<o[1], o[i]>> \in before
      BY <2>1, <2>2 DEF Lists
    <3>3. i = 1 \/ 1 < i
      BY <2>1, <3>1
    <3> QED
      BY <1>2, <2>3, <3>1, <3>2, <3>3
  <2> QED
    BY <2>3, <2>4
<1>5. best \in SUBSET Nat /\ best # {}
  BY <1>1, <1>4
<1>6. \E k \in best : \A j \in best : k <= j
  BY <1>5, LeastNatural
<1> DEFINE c == CHOOSE k \in best : \A j \in best : k <= j
<1>7. c \in best /\ \A j \in best : c <= j
  BY <1>6
<1>8. Pick(chosen) = ranked[c]
  <2>1. best = {k \in left : \A j \in left : Value(chosen, ranked[j]) <= Value(chosen, ranked[k])}
    BY <1>2
  <2> HIDE DEF best
  <2> QED
    BY <2>1 DEF Pick, left, Left
<1> HIDE DEF c
<1>9. c \in left /\ (\A j \in left : v[j] <= v[c])
        /\ \A j \in left : (\A l \in left : v[l] <= v[j]) => c <= j
  BY <1>7
<1> QED
  BY <1>1, <1>8, <1>9 DEF left, v

\* Something is left while less than Size are chosen.
LEMMA SomeIsLeft ==
  ASSUME IsList(ranked), NEW chosen, IsList(chosen), Len(chosen) < Size
  PROVE  Left(chosen) # {}
<1> SUFFICES ASSUME Left(chosen) = {} PROVE FALSE
  OBVIOUS
<1> DEFINE m == Least(Len(ranked), 4 * ReturnK)
           L == Len(chosen)
           f == [k \in 1..m |-> CHOOSE j \in 1..L : chosen[j] = ranked[k]]
<1>1. m \in Nat /\ m <= Len(ranked) /\ Len(ranked) \in Nat /\ Size <= m /\ Size \in Nat /\ Pool = 1..m
  BY SizeIs DEF Pool
<1>2. L \in Nat /\ DOMAIN chosen = 1..L
  BY DEF IsList
<1> HIDE DEF m
<1>3. ASSUME NEW k \in 1..m PROVE \E j \in 1..L : chosen[j] = ranked[k]
  <2>1. ranked[k] \in Range(chosen)
    BY <1>1 DEF Left
  <2> QED
    BY <1>2, <2>1 DEF Range
<1> HIDE DEF L
<1>4. \A k \in 1..m : f[k] \in 1..L /\ chosen[f[k]] = ranked[k]
  BY <1>3
<1>5. f \in [1..m -> 1..L]
  <2>1. DOMAIN f = 1..m /\ f = [k \in 1..m |-> f[k]]
    OBVIOUS
  <2> HIDE DEF f
  <2> QED
    BY <1>4, <2>1
<1> HIDE DEF f
<1>6. IsFiniteSet(1..m) /\ Cardinality(1..m) = m /\ IsFiniteSet(1..L) /\ Cardinality(1..L) = L
  <2>1. \A n \in Nat : IsFiniteSet(1..n) /\ Cardinality(1..n) = n
    BY FS_Interval
  <2> QED
    BY <1>1, <1>2, <2>1
<1>7. L < m
  BY <1>1, <1>2 DEF L
<1>8. PICK i, k \in 1..m : i # k /\ f[i] = f[k]
  <2>1. Cardinality(1..L) < Cardinality(1..m)
    BY <1>6, <1>7
  <2> DEFINE S == 1..m
             T == 1..L
  <2>2. IsFiniteSet(S) /\ IsFiniteSet(T) /\ Cardinality(T) < Cardinality(S) /\ f \in [S -> T]
    BY <1>5, <1>6, <2>1
  <2> HIDE DEF S, T
  <2>3. \E x, y \in S : x # y /\ f[x] = f[y]
    BY <2>2, FS_PigeonHole
  <2> QED
    BY <2>3 DEF S
<1>9. ranked[i] = ranked[k] /\ i \in DOMAIN ranked /\ k \in DOMAIN ranked
  <2>1. DOMAIN ranked = 1..Len(ranked)
    BY DEF IsList
  <2> QED
    BY <1>1, <1>4, <1>8, <2>1
<1> QED
  BY <1>8, <1>9 DEF IsList, IsInjective

\* As long as only scores count, the next of the ranked list is picked.
LEMMA PickIsNext ==
  ASSUME FeedTyped, Descending(ranked), NEW chosen, IsList(chosen), Len(chosen) < Size,
         \A k \in 1..Len(chosen) : chosen[k] = ranked[k],
         chosen = << >> \/ Lambda = 10
  PROVE  Pick(chosen) = ranked[Len(chosen) + 1]
<1> DEFINE n == Len(chosen) + 1
           m == Least(Len(ranked), 4 * ReturnK)
           v == Worth(chosen)
<1>1. /\ m \in Nat /\ m <= Len(ranked) /\ Len(ranked) \in Nat /\ Pool = 1..m
      /\ Len(chosen) \in Nat /\ DOMAIN chosen = 1..Len(chosen) /\ n \in 1..m
  <2>1. Len(chosen) \in Nat /\ DOMAIN chosen = 1..Len(chosen)
    BY DEF IsList
  <2>2. m \in Nat /\ m <= Len(ranked) /\ Len(ranked) \in Nat /\ Pool = 1..m /\ Size <= m /\ Size \in Nat
    BY SizeIs DEF Pool, FeedTyped
  <2> HIDE DEF m
  <2> QED
    BY <2>1, <2>2
<1>2. ranked \in [1..Len(ranked) -> Id] /\ \A i, j \in 1..Len(ranked) : ranked[i] = ranked[j] => i = j
  <2>1. ranked \in [1..Len(ranked) -> Id] /\ DOMAIN ranked = 1..Len(ranked) /\ IsInjective(ranked)
    BY DEF FeedTyped, IsList
  <2> QED
    BY <2>1 DEF IsInjective
<1> HIDE DEF m
<1>3. \A k \in 1..m : k \in Left(chosen) <=> k >= n
  <2> TAKE k \in 1..m
  <2>1. k \in Left(chosen) <=> \A j \in 1..Len(chosen) : ranked[k] # chosen[j]
    BY <1>1 DEF Left, Range
  <2>2. \A j \in 1..Len(chosen) : chosen[j] = ranked[j] /\ j \in 1..Len(ranked) /\ j < n
    BY <1>1
  <2>3. k \in 1..Len(ranked)
    BY <1>1
  <2>4. CASE k >= n
    BY <1>2, <2>1, <2>2, <2>3, <2>4
  <2>5. CASE ~(k >= n)
    <3>1. k \in 1..Len(chosen)
      BY <1>1, <2>5
    <3> QED
      BY <2>1, <2>2, <2>5, <3>1
  <2> QED
    BY <2>4, <2>5
<1>4. Left(chosen) \subseteq 1..m /\ n \in Left(chosen)
  <2>1. Left(chosen) \subseteq 1..m
    BY <1>1 DEF Left
  <2> QED
    BY <1>1, <1>3, <2>1
<1>5. ASSUME NEW l \in Left(chosen) PROVE v[l] <= v[n]
  <2>1. l \in 1..Len(ranked) /\ n \in 1..Len(ranked) /\ n <= l
    BY <1>1, <1>3, <1>4
  <2>2. scored[ranked[l]] \in Nat /\ scored[ranked[n]] \in Nat
    BY <1>2, <2>1 DEF FeedTyped
  <2>3. scored[ranked[l]] <= scored[ranked[n]]
    <3>1. CASE n = l
      BY <2>2, <3>1
    <3>2. CASE n < l
      BY <2>1, <2>2, <3>2 DEF Descending
    <3> QED
      BY <2>1, <3>1, <3>2
  <2>4. v[l] = Value(chosen, ranked[l]) /\ v[n] = Value(chosen, ranked[n])
    BY <1>4 DEF Worth
  <2>5. CASE chosen = << >>
    BY <2>3, <2>4, <2>5 DEF Value
  <2>6. CASE chosen # << >> /\ Lambda = 10
    <3>1. Worst(chosen, ranked[l]) \in Nat /\ Worst(chosen, ranked[n]) \in Nat
      BY DEF Worst
    <3>2. /\ v[l] = 10 * scored[ranked[l]] - (10 - 10) * Worst(chosen, ranked[l])
          /\ v[n] = 10 * scored[ranked[n]] - (10 - 10) * Worst(chosen, ranked[n])
      BY <2>4, <2>6 DEF Value
    <3> HIDE DEF v, n
    <3> QED
      BY <2>2, <2>3, <3>1, <3>2
  <2> QED
    BY <2>5, <2>6
<1>6. PICK k \in Left(chosen) :
        /\ Pick(chosen) = ranked[k]
        /\ \A j \in Left(chosen) : (\A l \in Left(chosen) : v[l] <= v[j]) => k <= j
  BY <1>4, PickIs
<1>7. k <= n
  BY <1>4, <1>5, <1>6
<1>8. k >= n /\ k \in Nat
  BY <1>1, <1>3, <1>4
<1> QED
  BY <1>1, <1>6, <1>7, <1>8

-----------------------------------------------------------------------------
LEMMA FeedStarts == PipelineInit => FeedInv
<1> SUFFICES ASSUME PipelineInit PROVE FeedInv
  OBVIOUS
<1>1. IsList(<< >>) /\ Range(<< >>) = {} /\ Len(<< >>) = 0
  BY DEF IsList, IsInjective, Range
<1>2. FeedTyped
  BY <1>1 DEF PipelineInit, FeedTyped, Stages
<1>3. Size \in Nat
  BY <1>2, SizeIs DEF FeedTyped
<1> QED
  BY <1>1, <1>2, <1>3 DEF PipelineInit, FeedInv, RankedSense, SelectedSense, ResultSense

\* Whatever is ranked before anything is selected.
LEMMA NothingSelected ==
  ASSUME FeedTyped', selected' = << >>, result' = << >>, explored' = 0,
         stage' \in {"freshen", "cap", "diversify"}
  PROVE  SelectedSense' /\ ResultSense'
<1>1. Len(<< >>) = 0 /\ Range(<< >>) = {}
  BY DEF Range
<1>2. Size' \in Nat
  <2>1. Len(ranked') \in Nat /\ ReturnK \in Nat
    BY PipelineAssumption DEF FeedTyped, IsList
  <2> QED
    BY <2>1 DEF Size, Least
<1> QED
  BY <1>1, <1>2 DEF SelectedSense, ResultSense

LEMMA RankKeeps == FeedInv /\ Rank => FeedInv'
<1> SUFFICES ASSUME FeedInv, Rank PROVE FeedInv'
  OBVIOUS
<1> DEFINE list == [i \in Id |-> i]
<1>1. Items \in Nat /\ \A z \in Scores : z \in Nat
  <2>1. Scores \subseteq Nat
    BY PipelineAssumption
  <2> QED
    BY <2>1, PipelineAssumption
<1>2. IsList(list) /\ Range(list) = Id
  BY <1>1 DEF IsList, IsInjective, Range, Id
<1> HIDE DEF list
<1>3. PICK score \in [Id -> Scores] : scored' = score /\ ranked' = BestFirst(list, score)
  BY DEF Rank, list
<1>4. score \in [Id -> Nat] /\ score \in [Id -> Int]
  <2>1. \A i \in Id : score[i] \in Nat /\ score[i] \in Int
    <3> TAKE i \in Id
    <3>1. score[i] \in Scores
      OBVIOUS
    <3> QED
      BY <1>1, <3>1
  <2>2. DOMAIN score = Id /\ score = [i \in Id |-> score[i]]
    OBVIOUS
  <2> QED
    BY <2>1, <2>2
<1>5. IsList(ranked') /\ Range(ranked') = Id
  BY <1>2, <1>3, <1>4, BestFirstIs
<1>6. FeedTyped'
  BY <1>3, <1>4, <1>5 DEF Rank, FeedInv, FeedTyped, Stages
<1>7. selected' = << >> /\ result' = << >> /\ explored' = 0 /\ stage' = "freshen"
  BY DEF Rank, FeedInv, SelectedSense, ResultSense
<1>8. RankedSense'
  BY <1>5, <1>7 DEF RankedSense
<1> QED
  BY <1>6, <1>7, <1>8, NothingSelected DEF FeedInv

LEMMA FreshenKeeps == FeedInv /\ Freshen => FeedInv'
<1> SUFFICES ASSUME FeedInv, Freshen PROVE FeedInv'
  OBVIOUS
<1>1. scored' \in [Id -> Nat]
  <2>1. \A i \in Id : (scored[i] * Keeps[AgeOf(i) + 1]) \div 10000 \in Nat
    <3> TAKE i \in Id
    <3>1. AgeOf(i) \in 0..2
      BY PipelineAssumption DEF AgeOf, Id
    <3>2. Keeps[AgeOf(i) + 1] \in Nat
      BY <3>1 DEF Keeps
    <3>3. scored[i] \in Nat
      BY DEF FeedInv, FeedTyped
    <3>4. \A a, b \in Nat : (a * b) \in Nat
      OBVIOUS
    <3>5. scored[i] * Keeps[AgeOf(i) + 1] \in Nat
      BY <3>2, <3>3, <3>4
    <3> QED
      BY <3>5
  <2> QED
    BY <2>1 DEF Freshen
<1>2. scored' \in [Id -> Int]
  BY <1>1
<1>3. IsList(ranked) /\ ranked' = BestFirst(ranked, scored') /\ Range(ranked) = Id
  BY DEF Freshen, FeedInv, FeedTyped, RankedSense
<1>4. /\ IsList(ranked') /\ Range(ranked') = Id
      /\ \A i, j \in 1..Len(ranked') : i < j => scored'[ranked'[i]] >= scored'[ranked'[j]]
  BY <1>2, <1>3, BestFirstIs
<1>5. FeedTyped'
  <2>1. UNCHANGED <<bucket, author, selected, result, explored>> /\ stage' \in Stages
    BY DEF Freshen, Stages
  <2>2. /\ bucket \in 0..(Buckets - 1) /\ author \in [Id -> Author \cup {Anonymous}]
        /\ explored \in Nat /\ IsList(selected) /\ IsList(result)
    BY DEF FeedInv, FeedTyped
  <2> QED
    BY <1>1, <1>4, <2>1, <2>2 DEF FeedTyped
<1>6. selected' = << >> /\ result' = << >> /\ explored' = 0 /\ stage' = "cap"
  BY DEF Freshen, FeedInv, SelectedSense, ResultSense
<1>7. RankedSense'
  BY <1>4, <1>6 DEF RankedSense, Descending
<1> QED
  BY <1>5, <1>6, <1>7, NothingSelected DEF FeedInv

LEMMA CapKeeps == FeedInv /\ Cap => FeedInv'
<1> SUFFICES ASSUME FeedInv, Cap PROVE FeedInv'
  OBVIOUS
<1>1. /\ IsList(ranked) /\ author \in [Id -> Author \cup {Anonymous}] /\ Range(ranked) = Id
      /\ Descending(ranked) /\ ranked' = Capped(ranked)
      /\ author' = author /\ scored' = scored /\ stage' = "diversify"
      /\ scored \in [Id -> Nat]
  BY DEF Cap, FeedInv, FeedTyped, RankedSense
<1>2. /\ IsList(ranked')
      /\ Len(ranked) > 0 => Len(ranked') > 0 /\ ranked'[1] = ranked[1]
      /\ Descending(Capped(ranked))
      /\ \A a \in Author : IsFiniteSet(OfAuthor(Capped(ranked), a))
                           /\ Cardinality(OfAuthor(Capped(ranked), a)) <= MaxPerAuthor
  BY <1>1, CappedIs
<1>3. Descending(ranked)'
  BY <1>1, <1>2 DEF Descending
<1>4. \A a \in Author : IsFiniteSet(OfAuthor(ranked, a)') /\ Cardinality(OfAuthor(ranked, a)') <= MaxPerAuthor
  <2>1. \A a \in Author : OfAuthor(ranked, a)' = OfAuthor(Capped(ranked), a)
    BY <1>1 DEF OfAuthor
  <2> QED
    BY <1>2, <2>1
<1>5. ASSUME Items > 0
      PROVE  Len(ranked') > 0 /\ \A i \in Id : scored'[i] <= scored'[ranked'[1]]
  <2>0. /\ Items \in Nat /\ Len(ranked) \in Nat /\ DOMAIN ranked = 1..Len(ranked)
        /\ ranked \in [1..Len(ranked) -> Id]
    BY <1>1, PipelineAssumption DEF IsList
  <2>1. \A i \in Id : \E k \in 1..Len(ranked) : ranked[k] = i
    BY <1>1, <2>0 DEF Range
  <2>2. 1 \in Id
    BY <1>5, <2>0 DEF Id
  <2>3. Len(ranked) > 0 /\ 1 \in 1..Len(ranked)
    BY <2>0, <2>1, <2>2
  <2>4. ASSUME NEW i \in Id PROVE scored[i] <= scored[ranked[1]]
    <3>1. PICK k \in 1..Len(ranked) : ranked[k] = i
      BY <2>1
    <3>2. scored[i] \in Nat /\ scored[ranked[1]] \in Nat
      BY <1>1, <2>0, <2>3
    <3>3. k = 1 \/ 1 < k
      BY <2>0
    <3>4. CASE k = 1
      BY <3>1, <3>2, <3>4
    <3>5. CASE 1 < k
      BY <1>1, <2>3, <3>1, <3>2, <3>5 DEF Descending
    <3> QED
      BY <3>3, <3>4, <3>5
  <2> QED
    BY <1>1, <1>2, <2>3, <2>4
<1>6. FeedTyped'
  BY <1>1, <1>2 DEF Cap, FeedInv, FeedTyped, Stages
<1>7. RankedSense'
  BY <1>1, <1>3, <1>4, <1>5 DEF RankedSense
<1>8. selected' = << >> /\ result' = << >> /\ explored' = 0
  BY DEF Cap, FeedInv, SelectedSense, ResultSense
<1> QED
  BY <1>1, <1>6, <1>7, <1>8, NothingSelected DEF FeedInv

\* The ranked list stands from the cap on.
LEMMA RankedStands ==
  ASSUME RankedSense, UNCHANGED <<author, scored, ranked>>,
         stage \in {"diversify", "explore"}, stage' \in {"diversify", "explore", "served"}
  PROVE  RankedSense'
<1>1. \A a \in Author : OfAuthor(ranked, a)' = OfAuthor(ranked, a)
  BY DEF OfAuthor
<1>2. Descending(ranked)' <=> Descending(ranked)
  BY DEF Descending
<1> QED
  BY <1>1, <1>2 DEF RankedSense

\* One item more.
LEMMA LongerList ==
  ASSUME NEW list, IsList(list), NEW x \in Id, x \notin Range(list)
  PROVE  LET b == Append(list, x) IN
         /\ IsList(b) /\ Len(b) = Len(list) + 1 /\ Range(b) = Range(list) \cup {x}
         /\ \A k \in 1..Len(list) : b[k] = list[k]
         /\ b[Len(list) + 1] = x
<1> DEFINE n == Len(list)
           b == Append(list, x)
<1>1. n \in Nat /\ DOMAIN list = 1..n /\ list \in [1..n -> Id]
  BY DEF IsList
<1>2. \A i, j \in 1..n : list[i] = list[j] => i = j
  BY <1>1 DEF IsList, IsInjective
<1>3. \A i \in 1..n : list[i] # x
  BY <1>1 DEF Range
<1>4. /\ b \in Seq(Id) /\ Len(b) = n + 1 /\ DOMAIN b = 1..(n + 1)
      /\ \A k \in 1..n : b[k] = list[k]
      /\ b[n + 1] = x
  BY DEF IsList
<1> HIDE DEF n, b
<1>5. IsInjective(b)
  <2> SUFFICES ASSUME NEW i \in 1..(n + 1), NEW j \in 1..(n + 1), b[i] = b[j] PROVE i = j
    BY <1>4 DEF IsInjective
  <2>1. (i \in 1..n \/ i = n + 1) /\ (j \in 1..n \/ j = n + 1)
    BY <1>1
  <2> QED
    BY <1>2, <1>3, <1>4, <2>1
<1>6. Range(b) = Range(list) \cup {x}
  <2>1. Range(b) = {b[i] : i \in 1..(n + 1)} /\ Range(list) = {list[i] : i \in 1..n}
    BY <1>1, <1>4 DEF Range
  <2>2. 1..(n + 1) = (1..n) \cup {n + 1}
    BY <1>1
  <2> QED
    BY <1>4, <2>1, <2>2
<1> QED
  BY <1>4, <1>5, <1>6 DEF IsList, b, n

LEMMA DiversifyKeeps == FeedInv /\ Diversify => FeedInv'
<1> SUFFICES ASSUME FeedInv, Diversify PROVE FeedInv'
  OBVIOUS
<1> DEFINE x == Pick(selected)
           n == Len(selected)
<1>1. /\ FeedTyped /\ IsList(selected) /\ IsList(ranked) /\ n < Size /\ n \in Nat /\ Size \in Nat
      /\ selected' = Append(selected, x) /\ result' = selected' /\ explored' = explored
      /\ explored = 0 /\ stage = "diversify" /\ stage' = stage
      /\ UNCHANGED <<bucket, author, scored, ranked>>
  <2>1. /\ FeedTyped /\ IsList(selected) /\ IsList(ranked)
    BY DEF FeedInv, FeedTyped
  <2>2. Len(selected) \in Nat
    BY <2>1 DEF IsList
  <2> QED
    BY <2>1, <2>2, SizeIs DEF Diversify, FeedInv, ResultSense
<1>2. PICK k \in Left(selected) : x = ranked[k] /\ ranked[k] \in Id
  <2>1. Left(selected) # {}
    BY <1>1, SomeIsLeft
  <2> QED
    BY <1>1, <2>1, PickIs
<1> HIDE DEF x
<1>3. x \in Id /\ x \notin Range(selected) /\ x \in Range(ranked)
  <2>1. k \in Pool /\ x \notin Range(selected)
    BY <1>2 DEF Left
  <2>2. k \in DOMAIN ranked
    <3>1. DOMAIN ranked = 1..Len(ranked)
      BY <1>1 DEF IsList
    <3> QED
      BY <1>1, <2>1, <3>1, SizeIs DEF Pool
  <2> QED
    BY <1>2, <2>1, <2>2 DEF Range
<1>4. /\ IsList(selected') /\ Len(selected') = n + 1 /\ Range(selected') = Range(selected) \cup {x}
      /\ \A i \in 1..n : selected'[i] = selected[i]
      /\ selected'[n + 1] = x
  BY <1>1, <1>3, LongerList
<1>5. FeedTyped'
  BY <1>1, <1>4 DEF FeedTyped
<1>6. RankedSense'
  BY <1>1, RankedStands DEF FeedInv
<1>7. Size' = Size /\ Variant' = Variant
  BY <1>1 DEF Size, Variant
<1>8. Descending(ranked)
  BY <1>1 DEF FeedInv, RankedSense
<1>9. ASSUME n = 0 PROVE x = ranked[1]
  <2>1. selected = << >> /\ \A i \in 1..n : selected[i] = ranked[i]
    BY <1>1, <1>9 DEF IsList
  <2> QED
    BY <1>1, <1>8, <1>9, <2>1, PickIsNext DEF x
<1>10. ASSUME Variant = "control" PROVE x = ranked[n + 1]
  <2>1. Lambda = 10 /\ \A i \in 1..n : selected[i] = ranked[i]
    BY <1>10 DEF Lambda, FeedInv, SelectedSense
  <2> QED
    BY <1>1, <1>8, <2>1, PickIsNext DEF x
<1>11. selected'[1] = ranked[1]
  <2>1. n = 0 \/ 1 \in 1..n
    BY <1>1
  <2>2. CASE n = 0
    BY <1>4, <1>9, <2>2
  <2>3. CASE 1 \in 1..n
    <3>1. selected[1] = ranked[1]
      BY <1>1, <2>3 DEF FeedInv, SelectedSense
    <3> QED
      BY <1>4, <2>3, <3>1
  <2> QED
    BY <2>1, <2>2, <2>3
<1>12. ASSUME Variant = "control" PROVE \A i \in 1..(n + 1) : selected'[i] = ranked[i]
  <2> TAKE i \in 1..(n + 1)
  <2>1. i \in 1..n \/ i = n + 1
    BY <1>1
  <2>2. i \in 1..n => selected[i] = ranked[i]
    BY <1>12 DEF FeedInv, SelectedSense
  <2> QED
    BY <1>4, <1>10, <1>12, <2>1, <2>2
<1>13. Range(selected') \subseteq Range(ranked)
  BY <1>3, <1>4 DEF FeedInv, SelectedSense
<1> HIDE DEF n
<1>14. SelectedSense'
  <2>1. n + 1 <= Size
    BY <1>1
  <2> QED
    BY <1>1, <1>4, <1>7, <1>11, <1>12, <1>13, <2>1 DEF SelectedSense
<1>15. ResultSense'
  BY <1>1, <1>13 DEF ResultSense
<1> QED
  BY <1>5, <1>6, <1>14, <1>15 DEF FeedInv

LEMMA EndDiversifyKeeps == FeedInv /\ EndDiversify => FeedInv'
<1> SUFFICES ASSUME FeedInv, EndDiversify PROVE FeedInv'
  OBVIOUS
<1>1. FeedTyped'
  BY DEF EndDiversify, FeedInv, FeedTyped, Stages
<1>2. RankedSense'
  BY RankedStands DEF EndDiversify, FeedInv
<1>3. Size' = Size /\ Variant' = Variant /\ Slots' = Slots
  BY DEF EndDiversify, Size, Variant, Slots, Reserve
<1>4. SelectedSense'
  BY <1>3 DEF EndDiversify, FeedInv, SelectedSense
<1>5. Slots \in Nat
  BY SlotsIs DEF FeedInv, FeedTyped
<1>6. /\ Len(result') = Len(selected') /\ Range(result') \subseteq Range(ranked')
      /\ \A k \in 1..(Len(selected') - explored') : result'[k] = selected'[k]
  BY DEF EndDiversify, FeedInv, ResultSense
<1>7. explored' = 0 /\ stage' = "explore"
  BY DEF EndDiversify, FeedInv, ResultSense
<1>8. ResultSense'
  BY <1>3, <1>5, <1>6, <1>7 DEF ResultSense
<1> QED
  BY <1>1, <1>2, <1>4, <1>8 DEF FeedInv

\* A place of a list is taken by an item that was not there.
WithAt(list, s, x) == [list EXCEPT ![s] = x]

LEMMA ReplacedList ==
  ASSUME NEW list, IsList(list), NEW x \in Id, x \notin Range(list), NEW s \in 1..Len(list)
  PROVE  LET b == WithAt(list, s, x) IN
         /\ IsList(b) /\ Len(b) = Len(list) /\ Range(b) \subseteq Range(list) \cup {x}
         /\ \A k \in 1..(s - 1) : b[k] = list[k]
<1> DEFINE n == Len(list)
           b == WithAt(list, s, x)
<1>1. n \in Nat /\ DOMAIN list = 1..n /\ list \in [1..n -> Id]
  BY DEF IsList
<1>2. \A i, j \in 1..n : list[i] = list[j] => i = j
  BY <1>1 DEF IsList, IsInjective
<1>3. \A i \in 1..n : list[i] # x
  BY <1>1 DEF Range
<1> HIDE DEF n
<1>4. /\ b \in [1..n -> Id]
      /\ \A k \in 1..n : b[k] = IF k = s THEN x ELSE list[k]
  BY <1>1 DEF WithAt
<1> HIDE DEF b
<1>5. b \in Seq(Id) /\ Len(b) = n /\ DOMAIN b = 1..n
  BY <1>1, <1>4
<1>6. IsInjective(b)
  <2> SUFFICES ASSUME NEW i \in 1..n, NEW j \in 1..n, b[i] = b[j] PROVE i = j
    BY <1>5 DEF IsInjective
  <2> QED
    BY <1>2, <1>3, <1>4
<1>7. Range(b) \subseteq Range(list) \cup {x}
  <2>1. Range(b) = {b[i] : i \in 1..n} /\ Range(list) = {list[i] : i \in 1..n}
    BY <1>1, <1>5 DEF Range
  <2> QED
    BY <1>4, <2>1
<1>8. ASSUME NEW k \in 1..(s - 1) PROVE b[k] = list[k]
  <2>1. s \in 1..n
    BY DEF n
  <2>2. k \in 1..n /\ k # s
    BY <1>1, <2>1
  <2> QED
    BY <1>4, <2>2
<1> QED
  BY <1>5, <1>6, <1>7, <1>8 DEF IsList, b, n

LEMMA ExploreKeeps == FeedInv /\ Explore => FeedInv'
<1> SUFFICES ASSUME FeedInv, Explore PROVE FeedInv'
  OBVIOUS
<1> DEFINE n == Len(selected)
           e == explored
           s == Slot(explored + 1)
<1>1. /\ IsList(selected) /\ IsList(ranked) /\ IsList(result)
      /\ Len(result) = n /\ n \in Nat /\ e \in Nat /\ Slots \in Nat /\ e < Slots /\ 2 * Slots <= n
      /\ stage = "explore" /\ stage' = "explore" /\ explored' = e + 1
      /\ selected' = selected /\ ranked' = ranked
  <2>1. IsList(selected) /\ IsList(ranked) /\ IsList(result) /\ explored \in Nat
    BY DEF FeedInv, FeedTyped
  <2>2. Len(selected) \in Nat /\ Len(result) = Len(selected)
    BY <2>1 DEF IsList, FeedInv, ResultSense
  <2> QED
    BY <2>1, <2>2, SlotsIs DEF Explore
<1>2. s \in 1..n /\ s = n - e
  <2>1. s = n - (e + 1) + 1
    BY DEF Slot
  <2> HIDE DEF n, e, s
  <2> QED
    BY <1>1, <2>1
<1>3. \/ result' = result
      \/ \E x \in Id : /\ x \notin Range(result) /\ x \in Range(ranked)
                       /\ result' = [result EXCEPT ![s] = x]
  <2>1. PICK t \in Drawn :
          LET picks == {k \in Reserve : TopicOf(ranked[k]) = t /\ ~IsChosen(ranked[k])}
              first == CHOOSE k \in picks : \A j \in picks : k <= j
          IN result' = IF picks = {} THEN result ELSE [result EXCEPT ![s] = ranked[first]]
    BY DEF Explore
  <2> DEFINE picks == {k \in Reserve : TopicOf(ranked[k]) = t /\ ~IsChosen(ranked[k])}
             first == CHOOSE k \in picks : \A j \in picks : k <= j
  <2>2. CASE picks = {}
    BY <2>1, <2>2
  <2>3. CASE picks # {}
    <3>1. DOMAIN ranked = 1..Len(ranked) /\ Len(ranked) \in Nat /\ ranked \in [1..Len(ranked) -> Id]
      BY <1>1 DEF IsList
    <3>2. picks \in SUBSET Nat
      BY <3>1 DEF Reserve
    <3>3. \E k \in picks : \A j \in picks : k <= j
      BY <2>3, <3>2, LeastNatural
    <3>4. first \in picks
      BY <3>3
    <3>5. result' = [result EXCEPT ![s] = ranked[first]]
      BY <2>1, <2>3
    <3> HIDE DEF first
    <3>6. first \in DOMAIN ranked /\ ranked[first] \notin Range(result)
      BY <3>4 DEF Reserve, IsChosen
    <3>7. ranked[first] \in Id /\ ranked[first] \in Range(ranked)
      BY <3>1, <3>6 DEF Range
    <3> QED
      BY <3>5, <3>6, <3>7
  <2> QED
    BY <2>2, <2>3
<1>4. /\ IsList(result') /\ Len(result') = n /\ Range(result') \subseteq Range(ranked)
      /\ \A k \in 1..(s - 1) : result'[k] = result[k]
  <2>1. Range(result) \subseteq Range(ranked)
    BY DEF FeedInv, ResultSense
  <2>2. CASE result' = result
    BY <1>1, <2>1, <2>2
  <2>3. ASSUME NEW x \in Id, x \notin Range(result), x \in Range(ranked),
               result' = [result EXCEPT ![s] = x]
        PROVE  /\ IsList(result') /\ Len(result') = n /\ Range(result') \subseteq Range(ranked)
               /\ \A k \in 1..(s - 1) : result'[k] = result[k]
    <3>1. s \in 1..Len(result)
      BY <1>1, <1>2
    <3> DEFINE b == WithAt(result, s, x)
    <3> HIDE DEF s, n
    <3>2. /\ IsList(b) /\ Len(b) = Len(result) /\ Range(b) \subseteq Range(result) \cup {x}
          /\ \A k \in 1..(s - 1) : b[k] = result[k]
      <4>1. IsList(result)
        BY <1>1
      <4> QED
        BY <2>3, <3>1, <4>1, ReplacedList
    <3>3. result' = b
      BY <2>3 DEF WithAt
    <3> HIDE DEF b
    <3>4. Range(b) \subseteq Range(ranked)
      BY <2>1, <2>3, <3>2
    <3> QED
      BY <1>1, <3>2, <3>3, <3>4
  <2> QED
    BY <1>3, <2>2, <2>3
<1>5. \A k \in 1..(n - (e + 1)) : result'[k] = selected[k]
  <2> TAKE k \in 1..(n - (e + 1))
  <2> HIDE DEF s, n, e
  <2>1. k \in 1..(s - 1) /\ k \in 1..(n - e)
    BY <1>1, <1>2
  <2>2. result[k] = selected[k]
    BY <2>1 DEF FeedInv, ResultSense, n, e
  <2> QED
    BY <1>4, <2>1, <2>2
<1>6. FeedTyped'
  BY <1>1, <1>4 DEF Explore, FeedInv, FeedTyped, Stages
<1>7. RankedSense'
  BY <1>1, RankedStands DEF Explore, FeedInv
<1>8. Size' = Size /\ Variant' = Variant /\ Slots' = Slots
  BY DEF Explore, Size, Variant, Slots, Reserve
<1>9. SelectedSense'
  BY <1>1, <1>8 DEF FeedInv, SelectedSense
<1>10. e + 1 <= Slots
  BY <1>1
<1>11. ResultSense'
  BY <1>1, <1>4, <1>5, <1>8, <1>10 DEF ResultSense
<1> QED
  BY <1>6, <1>7, <1>9, <1>11 DEF FeedInv

LEMMA ServeKeeps == FeedInv /\ ServeFeed => FeedInv'
<1> SUFFICES ASSUME FeedInv, ServeFeed PROVE FeedInv'
  OBVIOUS
<1>1. FeedTyped'
  BY DEF ServeFeed, FeedInv, FeedTyped, Stages
<1>2. RankedSense'
  BY RankedStands DEF ServeFeed, FeedInv
<1>3. Size' = Size /\ Variant' = Variant /\ Slots' = Slots
  BY DEF ServeFeed, Size, Variant, Slots, Reserve
<1>4. SelectedSense' /\ ResultSense'
  BY <1>3 DEF ServeFeed, FeedInv, SelectedSense, ResultSense
<1> QED
  BY <1>1, <1>2, <1>4 DEF FeedInv

LEMMA FeedStands == FeedInv /\ UNCHANGED pipelineVars => FeedInv'
<1> SUFFICES ASSUME FeedInv, UNCHANGED pipelineVars PROVE FeedInv'
  OBVIOUS
<1>0. UNCHANGED <<bucket, author, stage, scored, ranked, selected, result, explored>>
  BY DEF pipelineVars
<1>1. FeedTyped'
  BY <1>0 DEF FeedInv, FeedTyped
<1>2. /\ Descending(ranked)' <=> Descending(ranked)
      /\ \A a \in Author : OfAuthor(ranked, a)' = OfAuthor(ranked, a)
  BY <1>0 DEF Descending, OfAuthor
<1>3. RankedSense'
  BY <1>0, <1>2 DEF FeedInv, RankedSense
<1>4. Size' = Size /\ Variant' = Variant /\ Slots' = Slots
  BY <1>0 DEF Size, Variant, Slots, Reserve
<1>5. SelectedSense' /\ ResultSense'
  BY <1>0, <1>4 DEF FeedInv, SelectedSense, ResultSense
<1> QED
  BY <1>1, <1>3, <1>5 DEF FeedInv

\* What is shown of an author is ranked, and shown once.
LEMMA ShownIsRanked ==
  ASSUME IsList(result), IsList(ranked), Range(result) \subseteq Range(ranked), NEW a,
         IsFiniteSet(OfAuthor(ranked, a))
  PROVE  Cardinality(OfAuthor(result, a)) <= Cardinality(OfAuthor(ranked, a))
<1> DEFINE S == OfAuthor(result, a)
           T == OfAuthor(ranked, a)
           place(k) == CHOOSE i \in DOMAIN ranked : ranked[i] = result[k]
           f == [k \in S |-> place(k)]
<1>1. ASSUME NEW k \in DOMAIN result PROVE place(k) \in DOMAIN ranked /\ ranked[place(k)] = result[k]
  <2>1. result[k] \in Range(ranked)
    BY DEF Range
  <2>2. \E i \in DOMAIN ranked : ranked[i] = result[k]
    BY <2>1 DEF Range
  <2> QED
    BY <2>2
<1> HIDE DEF place
<1>2. S \subseteq DOMAIN result
  BY DEF OfAuthor
<1>3. ASSUME NEW k \in S PROVE place(k) \in T
  BY <1>1 DEF OfAuthor
<1>4. ASSUME NEW j \in S, NEW k \in S, place(j) = place(k) PROVE j = k
  <2>1. result[j] = result[k]
    BY <1>1, <1>2, <1>4
  <2> QED
    BY <1>2, <2>1 DEF IsList, IsInjective
<1> HIDE DEF S, T
<1>5. f \in Injection(S, T)
  BY <1>3, <1>4 DEF Injection, IsInjective
<1> HIDE DEF f
<1> QED
  BY <1>5, FS_Injection DEF S, T

LEMMA FeedTells == FeedInv => FeedIsFair
<1> SUFFICES ASSUME FeedInv PROVE FeedIsFair
  OBVIOUS
<1> DEFINE n == Len(selected)
<1>1. /\ IsList(selected) /\ IsList(ranked) /\ IsList(result)
      /\ n \in Nat /\ Len(result) = n /\ explored \in Nat /\ ReturnK \in Nat
      /\ DOMAIN result = 1..n /\ DOMAIN selected = 1..n
      /\ Range(result) \subseteq Range(ranked) /\ Range(selected) \subseteq Range(ranked)
  <2>1. IsList(selected) /\ IsList(ranked) /\ IsList(result) /\ explored \in Nat
    BY DEF FeedInv, FeedTyped
  <2>2. Len(selected) \in Nat /\ Len(result) = Len(selected)
    BY <2>1 DEF IsList, FeedInv, ResultSense
  <2> QED
    BY <2>1, <2>2, PipelineAssumption DEF IsList, FeedInv, SelectedSense, ResultSense
<1>2. /\ Slots \in Nat /\ 2 * Slots <= n
      /\ explored <= Slots \/ explored = 0
      /\ n <= Size /\ Size <= ReturnK /\ Size \in Nat /\ Size = Least(ReturnK, Len(ranked))
      /\ Len(ranked) > 0 => Size > 0
      /\ Size <= Len(ranked) /\ Len(ranked) \in Nat
  <2>1. /\ Slots \in Nat /\ 2 * Slots <= n
    BY <1>1, SlotsIs
  <2>2. explored <= Slots \/ explored = 0
    BY DEF FeedInv, FeedTyped, Stages, ResultSense
  <2>3. n <= Size
    BY DEF FeedInv, SelectedSense
  <2> HIDE DEF n
  <2> QED
    BY <1>1, <2>1, <2>2, <2>3, SizeIs
<1>3. PipelineTypeOK
  <2>1. Range(ranked) \subseteq Id /\ IsInjective(ranked)
    <3>1. DOMAIN ranked = 1..Len(ranked) /\ ranked \in [1..Len(ranked) -> Id]
      BY <1>1 DEF IsList
    <3> QED
      BY <1>1, <3>1 DEF Range, IsList
  <2>2. Range(selected) \subseteq Id
    BY <1>1, <2>1
  <2>3. n <= ReturnK /\ explored \in 0..ReturnK
    <3> HIDE DEF n
    <3> QED
      BY <1>1, <1>2
  <2> QED
    BY <1>1, <2>1, <2>2, <2>3 DEF PipelineTypeOK, FeedInv, FeedTyped, Stages
<1>4. FeedShowsNothingTwice
  <2>1. stage = "served" => n = Size
    BY DEF FeedInv, SelectedSense
  <2> HIDE DEF n
  <2> QED
    BY <1>1, <1>2, <2>1 DEF FeedShowsNothingTwice, IsList
<1>5. AuthorsStayCapped
  <2> SUFFICES ASSUME stage = "served", NEW a \in Author
               PROVE  Cardinality(OfAuthor(result, a)) <= MaxPerAuthor
    BY DEF AuthorsStayCapped, OfAuthor
  <2>1. IsFiniteSet(OfAuthor(ranked, a)) /\ Cardinality(OfAuthor(ranked, a)) <= MaxPerAuthor
    BY DEF FeedInv, RankedSense
  <2>2. Cardinality(OfAuthor(result, a)) <= Cardinality(OfAuthor(ranked, a))
    BY <1>1, <2>1, ShownIsRanked
  <2>3. /\ Cardinality(OfAuthor(ranked, a)) \in Nat
        /\ Cardinality(OfAuthor(result, a)) \in Nat /\ MaxPerAuthor \in Nat
    <3>1. OfAuthor(result, a) \in SUBSET (1..n) /\ IsFiniteSet(1..n)
      BY <1>1, FS_Interval DEF OfAuthor
    <3>2. IsFiniteSet(OfAuthor(result, a))
      BY <3>1, FS_Subset
    <3> QED
      BY <2>1, <3>2, FS_CardinalityType, PipelineAssumption
  <2> QED
    BY <2>1, <2>2, <2>3
<1>6. BestItemLeads
  <2> SUFFICES ASSUME stage = "served", Items > 0
               PROVE  \A i \in Id : scored[i] <= scored[result[1]]
    BY DEF BestItemLeads
  <2>1. Len(ranked) > 0 /\ (\A i \in Id : scored[i] <= scored[ranked[1]]) /\ n = Size
    BY DEF FeedInv, RankedSense, SelectedSense
  <2>2. n > 0 /\ 1 \in 1..(n - explored)
    <3> HIDE DEF n
    <3> QED
      BY <1>1, <1>2, <2>1
  <2>3. result[1] = selected[1] /\ selected[1] = ranked[1]
    BY <2>2 DEF FeedInv, ResultSense, SelectedSense
  <2> QED
    BY <2>1, <2>3
<1>7. ControlIsPlainRanking
  <2> SUFFICES ASSUME stage = "served", Variant = "control"
               PROVE  selected = SubSeq(ranked, 1, Size)
    BY <1>2 DEF ControlIsPlainRanking
  <2>1. n = Size /\ \A k \in 1..n : selected[k] = ranked[k]
    BY DEF FeedInv, SelectedSense
  <2>2. SubSeq(ranked, 1, Size) = [k \in 1..Size |-> ranked[k]]
    <3>1. ranked \in Seq(Id)
      BY <1>1 DEF IsList
    <3>2. \A z \in Nat : z <= Len(ranked) => SubSeq(ranked, 1, z) = [k \in 1..z |-> ranked[k]]
      BY <3>1
    <3> QED
      BY <1>2, <3>2
  <2>3. selected = [k \in 1..n |-> selected[k]]
    BY <1>1 DEF IsList
  <2> QED
    BY <2>1, <2>2, <2>3
<1> QED
  BY <1>3, <1>4, <1>5, <1>6, <1>7 DEF FeedIsFair

\* The feed that is served, for catalogues, topics and scores of any kind: best item first,
\* nothing twice, no author too often, and the control as ranked.
THEOREM FeedAlwaysFair == PipelineSpec => []FeedIsFair
<1>1. PipelineInit => FeedInv
  BY FeedStarts
<1>2. FeedInv /\ [PipelineNext]_pipelineVars => FeedInv'
  BY RankKeeps, FreshenKeeps, CapKeeps, DiversifyKeeps, EndDiversifyKeeps, ExploreKeeps,
     ServeKeeps, FeedStands DEF PipelineNext
<1>3. FeedInv => FeedIsFair
  BY FeedTells
<1> QED
  BY <1>1, <1>2, <1>3, PTL DEF PipelineSpec

-----------------------------------------------------------------------------
\* Induction and recursion over the naturals, as statements about sets and functions.

\* A set that has 0, and each number up to n whose predecessor it has, has them all.
LEMMA Induction ==
  ASSUME NEW n \in Nat, NEW T, 0 \in T, \A k \in 1..n : k - 1 \in T => k \in T
  PROVE  \A k \in 0..n : k \in T
<1> DEFINE Missing == {k \in Nat : k \in 0..n /\ k \notin T}
<1> SUFFICES ASSUME Missing # {} PROVE FALSE
  OBVIOUS
<1>1. PICK k \in Missing : \A j \in Missing : k <= j
  BY LeastNatural
<1>2. k \in 1..n /\ k \notin T
  BY <1>1
<1>3. k - 1 \notin Missing /\ k - 1 \in Nat /\ k - 1 \in 0..n
  BY <1>1, <1>2
<1> QED
  BY <1>2, <1>3

\* A function that starts with base and goes on with next: one for each length, they
\* agree, and so there is one on all naturals.
Starts(g, D, base, next, n) ==
  /\ g \in [0..n -> D] /\ g[0] = base
  /\ \A k \in 1..n : g[k] = next[<<k, g[k - 1]>>]

Continues(f, D, base, next) ==
  f \in [Nat -> D] /\ f[0] = base /\ \A k \in Nat \ {0} : f[k] = next[<<k, f[k - 1]>>]

LEMMA BeginningExists ==
  ASSUME NEW D, NEW base \in D, NEW next \in [Nat \X D -> D], NEW n \in Nat
  PROVE  \E g : Starts(g, D, base, next, n)
<1> DEFINE T == {k \in 0..n : \E g : Starts(g, D, base, next, k)}
<1>1. 0 \in T
  <2>1. Starts([k \in 0..0 |-> base], D, base, next, 0)
    BY DEF Starts
  <2> QED
    BY <2>1
<1>2. ASSUME NEW k \in 1..n, k - 1 \in T PROVE k \in T
  <2>1. PICK g : Starts(g, D, base, next, k - 1)
    BY <1>2
  <2> DEFINE h == [j \in 0..k |-> IF j = k THEN next[<<k, g[k - 1]>>] ELSE g[j]]
  <2>2. /\ g \in [0..(k - 1) -> D] /\ g[0] = base
        /\ \A j \in 1..(k - 1) : g[j] = next[<<j, g[j - 1]>>]
    BY <2>1 DEF Starts
  <2>3. k \in Nat /\ k - 1 \in 0..(k - 1) /\ g[k - 1] \in D
    BY <2>2
  <2>4. next[<<k, g[k - 1]>>] \in D
    BY <2>3
  <2>5. \A j \in 0..k : j # k => j \in 0..(k - 1)
    OBVIOUS
  <2>6. h \in [0..k -> D] /\ h[0] = base
    BY <2>2, <2>4, <2>5
  <2>7. ASSUME NEW j \in 1..k PROVE h[j] = next[<<j, h[j - 1]>>]
    <3>1. j \in 0..k /\ j - 1 \in 0..k /\ j - 1 # k /\ (j # k => j \in 1..(k - 1))
      OBVIOUS
    <3> QED
      BY <2>2, <3>1
  <2> HIDE DEF h
  <2>8. Starts(h, D, base, next, k)
    BY <2>6, <2>7 DEF Starts
  <2> QED
    BY <2>8
<1> HIDE DEF T
<1>3. n \in T
  BY <1>1, <1>2, Induction
<1> QED
  BY <1>3 DEF T

LEMMA BeginningsAgree ==
  ASSUME NEW D, NEW base, NEW next, NEW n \in Nat, NEW m \in Nat, n <= m,
         NEW g, Starts(g, D, base, next, n), NEW h, Starts(h, D, base, next, m)
  PROVE  \A k \in 0..n : g[k] = h[k]
<1> DEFINE T == {k \in 0..n : g[k] = h[k]}
<1>1. 0 \in T
  BY DEF Starts
<1>2. ASSUME NEW k \in 1..n, k - 1 \in T PROVE k \in T
  <2>1. k \in 1..m /\ k \in 0..n /\ g[k - 1] = h[k - 1]
    BY <1>2
  <2>2. g[k] = next[<<k, g[k - 1]>>] /\ h[k] = next[<<k, h[k - 1]>>]
    BY <2>1 DEF Starts
  <2> QED
    BY <2>1, <2>2
<1> HIDE DEF T
<1>3. \A k \in 0..n : k \in T
  BY <1>1, <1>2, Induction
<1> QED
  BY <1>3 DEF T

LEMMA RecursionExists ==
  ASSUME NEW D, NEW base \in D, NEW next \in [Nat \X D -> D]
  PROVE  \E f : Continues(f, D, base, next)
<1> DEFINE G(n) == CHOOSE g : Starts(g, D, base, next, n)
           f == [n \in Nat |-> G(n)[n]]
<1>1. \A n \in Nat : Starts(G(n), D, base, next, n)
  BY BeginningExists
<1> HIDE DEF G
<1>2. f \in [Nat -> D] /\ f[0] = base
  BY <1>1 DEF Starts
<1>3. ASSUME NEW k \in Nat \ {0} PROVE f[k] = next[<<k, f[k - 1]>>]
  <2>1. k \in Nat /\ k - 1 \in Nat /\ k \in 1..k /\ k - 1 <= k /\ k - 1 \in 0..(k - 1)
    OBVIOUS
  <2>2. Starts(G(k), D, base, next, k) /\ Starts(G(k - 1), D, base, next, k - 1)
    BY <1>1, <2>1
  <2>3. G(k)[k] = next[<<k, G(k)[k - 1]>>]
    BY <2>1, <2>2 DEF Starts
  <2>4. G(k - 1)[k - 1] = G(k)[k - 1]
    BY <2>1, <2>2, BeginningsAgree
  <2> QED
    BY <2>1, <2>3, <2>4
<1> HIDE DEF f
<1>4. Continues(f, D, base, next)
  BY <1>2, <1>3 DEF Continues
<1> QED
  BY <1>4
-----------------------------------------------------------------------------
\* The vector index.

LEMMA GapIs ==
  ASSUME NEW p \in Point, NEW q \in Point
  PROVE  /\ Gap(p, q) \in Nat
         /\ \A r \in Point : q # r => Gap(p, q) # Gap(p, r)
<1>1. /\ p \in Nat /\ q \in Nat /\ \A r \in Point : r \in Nat
      /\ \A a, b, c, d \in Point : a < b /\ c < d /\ Gap(a, b) = Gap(c, d) => a = c /\ b = d
  BY IndexAssumption
<1>2. Gap(p, q) \in Nat
  BY <1>1 DEF Gap
<1>3. ASSUME NEW r \in Point, q # r, Gap(p, q) = Gap(p, r) PROVE FALSE
  <2>1. r \in Nat
    BY <1>1
  <2>2. Gap(q, p) = Gap(p, q) /\ Gap(r, p) = Gap(p, r)
    BY <1>1, <2>1 DEF Gap
  <2>3. CASE p < q /\ p < r
    BY <1>1, <1>3, <2>3
  <2>4. CASE q < p /\ r < p
    BY <1>1, <1>3, <2>2, <2>4
  <2>5. CASE p < q /\ r < p
    <3>1. r = p
      BY <1>1, <1>3, <2>2, <2>5
    <3> QED
      BY <1>1, <2>5, <3>1
  <2>6. CASE q < p /\ p < r
    <3>1. q = p
      BY <1>1, <1>3, <2>2, <2>6
    <3> QED
      BY <1>1, <2>6, <3>1
  <2>7. CASE p = q
    BY <1>1, <1>3, <2>1, <2>7 DEF Gap
  <2>8. CASE p = r
    BY <1>1, <1>3, <2>1, <2>8 DEF Gap
  <2> QED
    BY <1>1, <2>1, <2>3, <2>4, <2>5, <2>6, <2>7, <2>8
<1> QED
  BY <1>2, <1>3

\* Nodes in the order they were added; those of the highest layer first in every search.
AnyNode == [point : Point, level : Nat, links : UNION {[0..l -> SUBSET Nat] : l \in Nat}]

IndexTyped == nodes \in Seq(AnyNode) /\ IndexTypeOK

\* With few enough nodes every one is linked, on the lowest layer, to every other by a path.
ClosedOn(S, layer) == \A n \in S : Neighbours(n, layer) \subseteq S

Connected ==
  Len(nodes) <= 2 * M + 1 => \A S \in SUBSET Node : S # {} /\ ClosedOn(S, 0) => S = Node

IndexInv == IndexTyped /\ LinksAreMutual /\ LinksAreBounded /\ EntryIsOnTop /\ Connected

LEMMA NodesAre ==
  ASSUME IndexTyped
  PROVE  /\ Len(nodes) \in Nat /\ Node = 1..Len(nodes)
         /\ IsFiniteSet(Node) /\ Cardinality(Node) = Len(nodes)
         /\ \A S \in SUBSET Node : IsFiniteSet(S) /\ Cardinality(S) \in Nat
         /\ \A n \in Node : nodes[n].point \in Point
         /\ \A n, layer : n \in Node => Neighbours(n, layer) \in SUBSET (Node \ {n})
<1>1. Len(nodes) \in Nat /\ Node = 1..Len(nodes)
  BY DEF IndexTyped, Node
<1>2. \A z \in Nat : IsFiniteSet(1..z) /\ Cardinality(1..z) = z
  BY FS_Interval
<1>3. IsFiniteSet(Node) /\ Cardinality(Node) = Len(nodes)
  BY <1>1, <1>2
<1>4. \A S \in SUBSET Node : IsFiniteSet(S) /\ Cardinality(S) \in Nat
  BY <1>3, FS_Subset, FS_CardinalityType
<1>5. \A n \in Node : nodes[n].point \in Point /\ nodes[n].links \in [Layer(n) -> SUBSET (Node \ {n})]
  BY DEF IndexTyped, IndexTypeOK
<1>6. \A n, layer : n \in Node => Neighbours(n, layer) \in SUBSET (Node \ {n})
  BY <1>5 DEF Neighbours
<1> QED
  BY <1>1, <1>3, <1>4, <1>5, <1>6

\* Nodes in the order of their distances from p.
Before(p, S) == {d \in S \X S : Away(p, d[1]) < Away(p, d[2])}

LEMMA BeforeOrders ==
  ASSUME IndexTyped, NEW p \in Point, NEW S \in SUBSET Node
  PROVE  Orders(Before(p, S), S) /\ \A n \in S : Away(p, n) \in Nat
<1>1. \A n \in S : nodes[n].point \in Point /\ Away(p, n) \in Nat
  BY NodesAre, GapIs DEF Away
<1>2. \A m, n \in S : m # n => Away(p, m) # Away(p, n)
  <2>1. \A m, n \in S : m # n => nodes[m].point # nodes[n].point
    BY DEF IndexTyped, IndexTypeOK
  <2> QED
    BY <1>1, <2>1, GapIs DEF Away
<1>3. \A m, n \in S : <<m, n>> \in Before(p, S) <=> Away(p, m) < Away(p, n)
  BY DEF Before
<1> DEFINE v == [n \in S |-> Away(p, n)]
<1>4. /\ \A n \in S : v[n] \in Nat
      /\ \A m, n \in S : m # n => v[m] # v[n]
      /\ \A m, n \in S : <<m, n>> \in Before(p, S) <=> v[m] < v[n]
  BY <1>1, <1>2, <1>3
<1> HIDE DEF v
<1>5. ASSUME NEW x \in S, NEW y \in S, NEW z \in S, <<x, y>> \in Before(p, S), <<y, z>> \in Before(p, S)
      PROVE  <<x, z>> \in Before(p, S)
  BY <1>4, <1>5
<1>6. \A x \in S : <<x, x>> \notin Before(p, S)
  BY <1>4
<1>7. ASSUME NEW x \in S, NEW y \in S, x # y
      PROVE  <<x, y>> \in Before(p, S) \/ <<y, x>> \in Before(p, S)
  <2>1. v[x] \in Nat /\ v[y] \in Nat /\ v[x] # v[y]
    BY <1>4, <1>7
  <2>2. v[x] < v[y] \/ v[y] < v[x]
    BY ONLY <2>1
  <2> QED
    BY <1>4, <2>2
<1> QED
  BY <1>1, <1>5, <1>6, <1>7 DEF Orders

LEMMA ByDistanceIs ==
  ASSUME IndexTyped, NEW p \in Point, NEW S \in SUBSET Node
  PROVE  Lists(ByDistance(p, S), S, Before(p, S), Cardinality(S)) /\ Cardinality(S) \in Nat
<1>1. IsFiniteSet(S) /\ Orders(Before(p, S), S)
  BY NodesAre, BeforeOrders
<1>2. \A n \in S : {j \in S : <<j, n>> \in Before(p, S)} = Nearer(p, S, n)
  BY DEF Before, Nearer
<1> DEFINE Counts(n) == Cardinality({j \in S : <<j, n>> \in Before(p, S)})
           Count(n) == Cardinality(Nearer(p, S, n))
           Nth(i) == CHOOSE n \in S : Counts(n) = i - 1
           nth(i) == CHOOSE n \in S : Count(n) = i - 1
<1>3. \A n \in S : Counts(n) = Count(n)
  BY <1>2
<1>4. InOrder(S, Before(p, S)) = ByDistance(p, S)
  <2>1. InOrder(S, Before(p, S)) = [i \in 1..Cardinality(S) |-> Nth(i)]
    BY DEF InOrder
  <2>2. ByDistance(p, S) = [i \in 1..Cardinality(S) |-> nth(i)]
    BY DEF ByDistance
  <2> HIDE DEF Counts, Count
  <2>3. \A i : Nth(i) = nth(i)
    <3> TAKE i
    <3>1. \A n : (n \in S /\ Counts(n) = i - 1) <=> (n \in S /\ Count(n) = i - 1)
      BY <1>3
    <3> QED
      BY <3>1
  <2> HIDE DEF Nth, nth
  <2> QED
    BY <2>1, <2>2, <2>3
<1> QED
  BY <1>1, <1>4, InOrderIs

LEMMA NearestIs ==
  ASSUME IndexTyped, NEW p \in Point, NEW S \in SUBSET Node, S # {}
  PROVE  Nearest(p, S) \in S /\ \A m \in S : Away(p, Nearest(p, S)) <= Away(p, m)
<1> DEFINE T == {Away(p, m) : m \in S}
<1>1. T \in SUBSET Nat /\ T # {}
  BY BeforeOrders
<1>2. \E t \in T : \A u \in T : t <= u
  BY <1>1, LeastNatural
<1>3. \E n \in S : \A m \in S : Away(p, n) <= Away(p, m)
  BY <1>2
<1> QED
  BY <1>3 DEF Nearest

-----------------------------------------------------------------------------
\* A loop of L rounds has a course: one state of D for each round.
Course(f, D, base, next, L) ==
  f \in [0..L -> D] /\ f[0] = base /\ \A k \in 1..L : f[k] = next[<<k, f[k - 1]>>]

LEMMA LoopExists ==
  ASSUME NEW D, NEW base \in D, NEW next \in [Nat \X D -> D], NEW L \in Nat
  PROVE  \E f : Course(f, D, base, next, L)
<1>1. PICK g : Continues(g, D, base, next)
  BY RecursionExists
<1>2. g \in [Nat -> D] /\ g[0] = base /\ \A k \in Nat \ {0} : g[k] = next[<<k, g[k - 1]>>]
  BY <1>1 DEF Continues
<1> DEFINE f == [k \in 0..L |-> g[k]]
<1>3. f \in [0..L -> D] /\ f[0] = base
  BY <1>2
<1>4. \A k \in 1..L : f[k] = next[<<k, f[k - 1]>>]
  BY <1>2
<1> HIDE DEF f
<1>5. Course(f, D, base, next, L)
  BY <1>3, <1>4 DEF Course
<1> QED
  BY <1>5

\* A set of nodes no link of a layer leaves is not left by a search of the layer.
LEMMA CloserIs ==
  ASSUME IndexTyped, NEW p \in Point, NEW layer, NEW S \in SUBSET Node, ClosedOn(S, layer),
         NEW n \in S
  PROVE  Closer(p, n, layer) \in S
<1>1. Neighbours(n, layer) \in SUBSET Node /\ Neighbours(n, layer) \subseteq S
  BY DEF ClosedOn, Neighbours, NodesAre
<1>2. Neighbours(n, layer) # {} => Nearest(p, Neighbours(n, layer)) \in S
  BY <1>1, NearestIs
<1> QED
  BY <1>2 DEF Closer

LEMMA DescendIs ==
  ASSUME IndexTyped, NEW p \in Point, NEW layer, NEW S \in SUBSET Node, ClosedOn(S, layer),
         NEW n \in S
  PROVE  Descend(p, n, layer) \in S
<1> DEFINE L == Len(nodes)
           Step(m) == Closer(p, m, layer)
           W(w) == [i \in 0..L |-> IF i = 0 THEN n ELSE Step(w[i - 1])]
           next == [x \in Nat \X S |-> Step(x[2])]
           c == CHOOSE w : w = W(w)
<1>1. L \in Nat /\ \A m \in S : Step(m) \in S
  BY NodesAre, CloserIs
<1>2. Descend(p, n, layer) = c[L]
  BY DEF Descend
<1> HIDE DEF Step, L
<1>3. next \in [Nat \X S -> S] /\ \A k \in Nat, m \in S : next[<<k, m>>] = Step(m)
  BY <1>1
<1> HIDE DEF next
<1>4. PICK f \in [0..L -> S] : f[0] = n /\ \A k \in 1..L : f[k] = next[<<k, f[k - 1]>>]
  <2>1. \E f : Course(f, S, n, next, L)
    BY <1>1, <1>3, LoopExists
  <2> QED
    BY <2>1 DEF Course
<1>5. f = W(f)
  <2>1. ASSUME NEW i \in 0..L PROVE f[i] = IF i = 0 THEN n ELSE Step(f[i - 1])
    <3>1. i # 0 => i \in 1..L /\ i - 1 \in 0..L /\ i \in Nat
      BY <1>1
    <3> QED
      BY <1>3, <1>4, <3>1
  <2>2. f = [i \in 0..L |-> f[i]]
    BY <1>4
  <2> QED
    BY <2>1, <2>2
<1>6. c = W(c)
  BY <1>5
<1> HIDE DEF c
<1>7. c[0] = n /\ \A k \in 1..L : c[k] = Step(c[k - 1])
  <2>1. \A k \in 0..L : c[k] = IF k = 0 THEN n ELSE Step(c[k - 1])
    BY <1>6
  <2>2. 0 \in 0..L /\ \A k \in 1..L : k \in 0..L /\ k # 0
    BY <1>1
  <2> QED
    BY <2>1, <2>2
<1> DEFINE T == {k \in 0..L : c[k] \in S}
<1>8. 0 \in T /\ \A k \in 1..L : k - 1 \in T => k \in T
  BY <1>1, <1>7
<1> HIDE DEF T
<1>9. \A k \in 0..L : k \in T
  BY <1>1, <1>8, Induction
<1> QED
  BY <1>1, <1>2, <1>9 DEF T

-----------------------------------------------------------------------------
SearchState(S) == [visited : SUBSET S, found : SUBSET S, frontier : SUBSET S]
Start(n) == [visited |-> {n}, found |-> {n}, frontier |-> {n}]

\* Something is always found, and of the nodes that can be reached.
LEMMA ExpandedIs ==
  ASSUME IndexTyped, NEW p \in Point, NEW layer, NEW S \in SUBSET Node, ClosedOn(S, layer),
         NEW ef \in Nat \ {0}, NEW s \in SearchState(S)
  PROVE  LET t == Expanded(p, layer, ef, s) IN
         t \in SearchState(S) /\ (s.found # {} => t.found # {})
<1> DEFINE n == Nearest(p, s.frontier)
           fresh == Neighbours(n, layer) \ s.visited
           all == s.found \cup fresh
           better == Closest(p, all, ef)
           t == [visited |-> s.visited \cup fresh, found |-> better,
                 frontier |-> (s.frontier \ {n}) \cup (better \cap fresh)]
<1>0. s.visited \in SUBSET S /\ s.found \in SUBSET S /\ s.frontier \in SUBSET S
  BY DEF SearchState
<1>1. CASE s.frontier = {} \/ \A m \in s.found : Away(p, m) < Away(p, n)
  BY <1>1 DEF Expanded
<1>2. CASE s.frontier # {} /\ ~ \A m \in s.found : Away(p, m) < Away(p, n)
  <2>1. n \in s.frontier
    BY <1>0, <1>2, NearestIs
  <2>2. fresh \in SUBSET S
    BY <1>0, <2>1 DEF ClosedOn
  <2>3. Expanded(p, layer, ef, s) = t
    BY <1>2 DEF Expanded
  <2> HIDE DEF n, fresh
  <2>4. all \in SUBSET S /\ better \in SUBSET all
    BY <1>0, <2>2 DEF Closest
  <2>5. better \in SUBSET S
    BY <2>4
  <2>6. t \in SearchState(S)
    <3> HIDE DEF better
    <3> QED
      BY <1>0, <2>2, <2>5 DEF SearchState
  <2>7. ASSUME s.found # {} PROVE better # {}
    <3>1. all # {} /\ all \in SUBSET Node
      BY <2>4, <2>7
    <3> HIDE DEF all
    <3>2. Nearest(p, all) \in all /\ \A m \in all : Away(p, Nearest(p, all)) <= Away(p, m)
      BY <3>1, NearestIs
    <3>3. \A m \in all : Away(p, m) \in Nat
      BY <3>1, BeforeOrders
    <3>4. Nearer(p, all, Nearest(p, all)) = {}
      BY <3>2, <3>3 DEF Nearer
    <3>5. Cardinality({}) = 0 /\ 0 < ef
      BY FS_EmptySet
    <3> QED
      BY <3>2, <3>4, <3>5 DEF Closest
  <2> HIDE DEF better
  <2> QED
    BY <2>3, <2>6, <2>7
<1> QED
  BY <1>1, <1>2

\* The rounds of a search.
Rounds(c, p, from, layer, ef) ==
  /\ c[0] = Start(from)
  /\ \A k \in 1..Len(nodes) : c[k] = Expanded(p, layer, ef, c[k - 1])
  /\ SearchLayer(p, from, layer, ef) = c[Len(nodes)].found

LEMMA RoundsExist ==
  ASSUME IndexTyped, NEW p \in Point, NEW layer, NEW S \in SUBSET Node, ClosedOn(S, layer),
         NEW ef \in Nat \ {0}, NEW n \in S
  PROVE  \E c : Rounds(c, p, n, layer, ef)
<1> DEFINE L == Len(nodes)
           D == SearchState(S)
           Step(s) == Expanded(p, layer, ef, s)
           W(w) == [i \in 0..L |-> IF i = 0 THEN Start(n) ELSE Step(w[i - 1])]
           next == [x \in Nat \X D |-> Step(x[2])]
           c == CHOOSE w : w = W(w)
<1>1. L \in Nat /\ (\A s \in D : Step(s) \in D) /\ Start(n) \in D
  <2>1. \A s \in D : Step(s) \in D
    BY ExpandedIs
  <2>2. Start(n) \in D
    BY DEF Start, SearchState
  <2> QED
    BY <2>1, <2>2, NodesAre
<1>2. SearchLayer(p, n, layer, ef) = c[L].found
  BY DEF SearchLayer, Start
<1> HIDE DEF Step, D
<1>3. next \in [Nat \X D -> D] /\ \A k \in Nat, s \in D : next[<<k, s>>] = Step(s)
  BY <1>1
<1> HIDE DEF next, L
<1>4. PICK f \in [0..L -> D] : f[0] = Start(n) /\ \A k \in 1..L : f[k] = next[<<k, f[k - 1]>>]
  <2>1. \E f : Course(f, D, Start(n), next, L)
    BY <1>1, <1>3, LoopExists
  <2> QED
    BY <2>1 DEF Course
<1>5. f = W(f)
  <2>1. ASSUME NEW i \in 0..L PROVE f[i] = IF i = 0 THEN Start(n) ELSE Step(f[i - 1])
    <3>1. i # 0 => i \in 1..L /\ i - 1 \in 0..L /\ i \in Nat
      BY <1>1
    <3> QED
      BY <1>3, <1>4, <3>1
  <2>2. f = [i \in 0..L |-> f[i]]
    BY <1>4
  <2> QED
    BY <2>1, <2>2
<1>6. c = W(c)
  BY <1>5
<1> HIDE DEF c
<1>7. c[0] = Start(n) /\ \A k \in 1..L : c[k] = Step(c[k - 1])
  <2>1. \A k \in 0..L : c[k] = IF k = 0 THEN Start(n) ELSE Step(c[k - 1])
    BY <1>6
  <2>2. 0 \in 0..L /\ \A k \in 1..L : k \in 0..L /\ k # 0
    BY <1>1
  <2> QED
    BY <2>1, <2>2
<1>8. Rounds(c, p, n, layer, ef)
  BY <1>2, <1>7 DEF Rounds, L, Step
<1> QED
  BY <1>8

LEMMA SearchLayerIs ==
  ASSUME IndexTyped, NEW p \in Point, NEW layer, NEW S \in SUBSET Node, ClosedOn(S, layer),
         NEW ef \in Nat \ {0}, NEW n \in S
  PROVE  SearchLayer(p, n, layer, ef) \in SUBSET S /\ SearchLayer(p, n, layer, ef) # {}
<1>1. PICK c : Rounds(c, p, n, layer, ef)
  BY RoundsExist
<1> DEFINE L == Len(nodes)
           T == {k \in 0..L : c[k] \in SearchState(S) /\ c[k].found # {}}
<1>2. L \in Nat
  BY NodesAre
<1>3. 0 \in T
  BY <1>1, <1>2 DEF Rounds, Start, SearchState
<1>4. ASSUME NEW k \in 1..L, k - 1 \in T PROVE k \in T
  <2>1. c[k - 1] \in SearchState(S) /\ c[k - 1].found # {} /\ k \in 0..L
    BY <1>2, <1>4
  <2>2. c[k] = Expanded(p, layer, ef, c[k - 1])
    BY <1>1 DEF Rounds
  <2>3. c[k] \in SearchState(S) /\ c[k].found # {}
    BY <2>1, <2>2, ExpandedIs
  <2> QED
    BY <2>1, <2>3
<1> HIDE DEF T, L
<1>5. \A k \in 0..L : k \in T
  BY <1>2, <1>3, <1>4, Induction
<1>6. L \in T
  BY <1>2, <1>5
<1> QED
  BY <1>1, <1>6 DEF T, L, Rounds, SearchState

\* When as many may be found as there are, the search does not end before everything that
\* can be reached has been expanded: a round expands a node, and there are as many rounds.
Exhausting(s, n, layer, i) ==
  /\ s \in SearchState(Node) /\ n \in s.found
  /\ s.visited = s.found /\ s.frontier \subseteq s.found
  /\ \A m \in s.found \ s.frontier : Neighbours(m, layer) \subseteq s.found
  /\ s.frontier = {} \/ Cardinality(s.found \ s.frontier) >= i

LEMMA StillExhausting ==
  ASSUME IndexTyped, NEW p \in Point, NEW layer, NEW ef \in Nat \ {0}, ef >= Len(nodes),
         NEW s, NEW from, NEW i \in Nat, Exhausting(s, from, layer, i)
  PROVE  Exhausting(Expanded(p, layer, ef, s), from, layer, i + 1)
<1> DEFINE n == Nearest(p, s.frontier)
           fresh == Neighbours(n, layer) \ s.visited
           all == s.found \cup fresh
           better == Closest(p, all, ef)
           t == [visited |-> s.visited \cup fresh, found |-> better,
                 frontier |-> (s.frontier \ {n}) \cup (better \cap fresh)]
           done == s.found \ s.frontier
<1>0. /\ s.visited \in SUBSET Node /\ s.found \in SUBSET Node /\ s.frontier \in SUBSET Node
      /\ from \in s.found /\ s.visited = s.found /\ s.frontier \subseteq s.found
      /\ \A m \in done : Neighbours(m, layer) \subseteq s.found
      /\ s.frontier = {} \/ Cardinality(done) >= i
  BY DEF Exhausting, SearchState
<1>1. CASE s.frontier = {}
  <2>1. Expanded(p, layer, ef, s) = s
    BY <1>1 DEF Expanded
  <2> QED
    BY <1>1, <2>1 DEF Exhausting
<1>2. CASE s.frontier # {}
  <2>1. n \in s.frontier /\ n \in s.found /\ n \in Node
    BY <1>0, <1>2, NearestIs
  <2>2. fresh \in SUBSET Node
    BY <2>1, NodesAre
  <2>3. ~ \A m \in s.found : Away(p, m) < Away(p, n)
    <3>1. Away(p, n) \in Nat
      BY <1>0, <2>1, BeforeOrders
    <3> QED
      BY <2>1, <3>1
  <2>4. Expanded(p, layer, ef, s) = t
    BY <1>2, <2>3 DEF Expanded
  <2> HIDE DEF n
  <2>5. all \in SUBSET Node
    BY <1>0, <2>2
  <2>6. better = all
    <3> HIDE DEF all
    <3>1. ASSUME NEW m \in all PROVE Cardinality(Nearer(p, all, m)) < ef
      <4>1. Away(p, m) \in Nat
        BY <2>5, BeforeOrders
      <4>2. Nearer(p, all, m) \in SUBSET all /\ m \notin Nearer(p, all, m)
        BY <4>1 DEF Nearer
      <4> DEFINE A == Nearer(p, all, m)
      <4> HIDE DEF A
      <4>3. A \in SUBSET Node /\ A # Node
        BY <2>5, <4>2, <3>1 DEF A
      <4>4. Cardinality(A) <= Cardinality(Node) /\ Cardinality(A) # Cardinality(Node)
        BY <4>3, NodesAre, FS_Subset
      <4>5. Cardinality(A) \in Nat /\ Cardinality(Node) = Len(nodes) /\ Len(nodes) \in Nat
        BY <4>3, NodesAre
      <4>6. Cardinality(A) < ef
        BY <4>4, <4>5
      <4> QED
        BY <4>6 DEF A
    <3> QED
      BY <3>1 DEF Closest
  <2>7. t = [visited |-> all, found |-> all, frontier |-> (s.frontier \ {n}) \cup fresh]
    <3>1. all \cap fresh = fresh
      OBVIOUS
    <3> HIDE DEF fresh, all, better
    <3>2. better \cap fresh = fresh
      BY <2>6, <3>1
    <3>3. s.visited \cup fresh = all
      BY <1>0 DEF all
    <3> QED
      BY <2>6, <3>2, <3>3
  <2>8. all \ ((s.frontier \ {n}) \cup fresh) = done \cup {n}
    <3>1. n \notin fresh /\ \A m \in done : m \notin fresh
      BY <1>0, <2>1
    <3> HIDE DEF fresh
    <3> QED
      BY <2>1, <3>1
  <2>9. Cardinality(done \cup {n}) >= i + 1
    <3>1. IsFiniteSet(done) /\ Cardinality(done) \in Nat /\ n \notin done
      <4>1. done \in SUBSET Node
        BY <1>0
      <4> QED
        BY <2>1, <4>1, NodesAre
    <3>2. Cardinality(done) >= i
      BY <1>0, <1>2
    <3> HIDE DEF done
    <3>3. Cardinality(done \cup {n}) = Cardinality(done) + 1
      BY <3>1, FS_AddElement
    <3> QED
      BY <3>1, <3>2, <3>3
  <2>10. ASSUME NEW m \in done \cup {n} PROVE Neighbours(m, layer) \subseteq all
    <3>1. CASE m = n
      BY <1>0, <3>1
    <3>2. CASE m \in done
      BY <1>0, <3>2
    <3> QED
      BY <3>1, <3>2, <2>10
  <2>11. ((s.frontier \ {n}) \cup fresh) \subseteq all /\ from \in all
    BY <1>0
  <2> DEFINE rest == (s.frontier \ {n}) \cup fresh
  <2>12. rest \in SUBSET Node /\ all \ rest = done \cup {n} /\ rest \subseteq all
    BY <2>5, <2>8, <2>11
  <2> HIDE DEF fresh, all, better, rest, done, t
  <2>13. t = [visited |-> all, found |-> all, frontier |-> rest]
    BY <2>7 DEF rest
  <2>14. t \in SearchState(Node) /\ t.visited = all /\ t.found = all /\ t.frontier = rest
    BY <2>5, <2>12, <2>13 DEF SearchState
  <2>15. Exhausting(t, from, layer, i + 1)
    BY <2>9, <2>10, <2>11, <2>12, <2>14 DEF Exhausting
  <2> QED
    BY <2>4, <2>15
<1> QED
  BY <1>1, <1>2

LEMMA SearchIsExhaustive ==
  ASSUME IndexTyped, NEW p \in Point, NEW layer, NEW ef \in Nat \ {0}, ef >= Len(nodes),
         NEW n \in Node
  PROVE  /\ n \in SearchLayer(p, n, layer, ef)
         /\ SearchLayer(p, n, layer, ef) \in SUBSET Node
         /\ ClosedOn(SearchLayer(p, n, layer, ef), layer)
<1> DEFINE L == Len(nodes)
<1>0. ClosedOn(Node, layer)
  BY NodesAre DEF ClosedOn
<1>1. PICK c : Rounds(c, p, n, layer, ef)
  BY <1>0, RoundsExist
<1> DEFINE T == {k \in 0..L : Exhausting(c[k], n, layer, k)}
<1>2. L \in Nat
  BY NodesAre
<1>3. 0 \in T
  <2>1. c[0] = Start(n) 
    BY <1>1 DEF Rounds
  <2>2. /\ Start(n).found = {n} /\ Start(n).frontier = {n} /\ Start(n).visited = {n}
        /\ Start(n) \in SearchState(Node)
        /\ Start(n).found \ Start(n).frontier = {}
    BY DEF Start, SearchState
  <2>3. Exhausting(Start(n), n, layer, 0)
    <3>0. Cardinality({}) >= 0
      BY FS_EmptySet
    <3>1. Cardinality(Start(n).found \ Start(n).frontier) >= 0
      BY <2>2, <3>0, Zenon
    <3> QED
      BY <2>2, <3>1 DEF Exhausting
  <2> QED
    BY <1>2, <2>1, <2>3
<1>4. ASSUME NEW k \in 1..L, k - 1 \in T PROVE k \in T
  <2>1. Exhausting(c[k - 1], n, layer, k - 1) /\ k \in 0..L /\ k - 1 \in Nat /\ (k - 1) + 1 = k
    BY <1>2, <1>4
  <2>2. c[k] = Expanded(p, layer, ef, c[k - 1])
    BY <1>1 DEF Rounds
  <2> HIDE DEF T, L
  <2>3. Exhausting(Expanded(p, layer, ef, c[k - 1]), n, layer, (k - 1) + 1)
    BY <2>1, StillExhausting
  <2>4. Exhausting(c[k], n, layer, k)
    BY <2>1, <2>2, <2>3
  <2> QED
    BY <2>1, <2>4 DEF T
<1> HIDE DEF T, L
<1>5. \A k \in 0..L : k \in T
  BY <1>2, <1>3, <1>4, Induction
<1>6. L \in T
  BY <1>2, <1>5
<1> DEFINE s == c[L]
<1>7. Exhausting(s, n, layer, L) /\ SearchLayer(p, n, layer, ef) = s.found
  BY <1>1, <1>6 DEF T, L, Rounds
<1> HIDE DEF s
<1>8. s.frontier = {}
  <2> SUFFICES ASSUME s.frontier # {} PROVE FALSE
    OBVIOUS
  <2> DEFINE done == s.found \ s.frontier
  <2>1. done \in SUBSET Node /\ done # Node /\ Cardinality(done) >= L
    BY <1>7 DEF Exhausting, SearchState
  <2> HIDE DEF done
  <2>2. Cardinality(done) <= Cardinality(Node) /\ Cardinality(done) # Cardinality(Node)
    BY <2>1, NodesAre, FS_Subset
  <2>3. Cardinality(done) \in Nat /\ Cardinality(Node) = L
    BY <2>1, NodesAre DEF L
  <2> QED
    BY <1>2, <2>1, <2>2, <2>3
<1>9. /\ n \in s.found /\ s.found \in SUBSET Node
      /\ \A m \in s.found : Neighbours(m, layer) \subseteq s.found
  BY <1>7, <1>8 DEF Exhausting, SearchState
<1> QED
  BY <1>7, <1>9 DEF ClosedOn

-----------------------------------------------------------------------------
OnLayer(layer) == {n \in Node : layer \in Layer(n)}

LEMMA LayersAre ==
  ASSUME IndexTyped, LinksAreMutual
  PROVE  /\ \A layer : OnLayer(layer) \in SUBSET Node /\ ClosedOn(OnLayer(layer), layer)
         /\ \A layer : ClosedOn(Node, layer)
         /\ \A layer \in Nat : OnLayer(layer + 1) \subseteq OnLayer(layer)
         /\ entry # 0 => entry \in Node /\ Top \in Nat /\ entry \in OnLayer(Top)
         /\ OnLayer(0) = Node
<1>1. \A n \in Node : nodes[n].level \in Nat
  BY IndexAssumption DEF IndexTyped, IndexTypeOK
<1>2. \A layer : OnLayer(layer) \in SUBSET Node /\ ClosedOn(OnLayer(layer), layer)
  <2>1. ASSUME NEW layer, NEW n \in OnLayer(layer)
        PROVE  Neighbours(n, layer) \subseteq OnLayer(layer)
    <3>1. n \in Node /\ layer \in Layer(n) /\ Neighbours(n, layer) = nodes[n].links[layer]
      BY DEF OnLayer, Neighbours
    <3>2. Neighbours(n, layer) \subseteq Node
      BY <3>1, NodesAre
    <3> QED
      BY <3>1, <3>2 DEF LinksAreMutual, OnLayer
  <2> QED
    BY <2>1 DEF OnLayer, ClosedOn
<1>3. \A layer : ClosedOn(Node, layer)
  BY NodesAre DEF ClosedOn
<1>4. \A layer \in Nat : OnLayer(layer + 1) \subseteq OnLayer(layer)
  BY <1>1 DEF OnLayer, Layer
<1>5. entry # 0 => entry \in Node /\ Top \in Nat /\ entry \in OnLayer(Top)
  BY <1>1 DEF IndexTyped, IndexTypeOK, Top, OnLayer, Layer
<1>6. OnLayer(0) = Node
  BY <1>1 DEF OnLayer, Layer
<1> QED
  BY <1>2, <1>3, <1>4, <1>5, <1>6

\* The search of a layer begins with a node that has it.
Hop(p, level, n, layer) ==
  IF layer + 1 > level THEN Descend(p, n, layer + 1)
  ELSE Nearest(p, SearchLayer(p, n, layer + 1, Ef))

LEMMA HopIs ==
  ASSUME IndexTyped, NEW p \in Point, NEW level, NEW layer, NEW S \in SUBSET Node,
         ClosedOn(S, layer + 1), NEW n \in S
  PROVE  Hop(p, level, n, layer) \in S
<1>0. Ef \in Nat \ {0}
  BY IndexAssumption
<1>1. Descend(p, n, layer + 1) \in S
  BY DescendIs
<1> DEFINE found == SearchLayer(p, n, layer + 1, Ef)
<1>2. found \in SUBSET S /\ found # {}
  BY <1>0, SearchLayerIs
<1> HIDE DEF found
<1>3. Nearest(p, found) \in S
  BY <1>2, NearestIs
<1> QED
  BY <1>1, <1>3 DEF Hop, found

LEMMA BeginsIs ==
  ASSUME IndexTyped, LinksAreMutual, entry # 0, NEW p \in Point, NEW level
  PROVE  \A layer \in 0..Top : Begins(p, level)[layer] \in OnLayer(layer)
<1> DEFINE L == Top
           Step(n, layer) == Hop(p, level, n, layer)
           W(w) == [layer \in 0..L |-> IF layer = L THEN entry ELSE Step(w[layer + 1], layer)]
           next == [x \in Nat \X Node |-> Step(x[2], L - x[1])]
           c == CHOOSE w : w = W(w)
<1>1. L \in Nat /\ entry \in OnLayer(L) /\ entry \in Node
  BY LayersAre
<1>2. /\ \A n, layer : n \in Node => Step(n, layer) \in Node
      /\ \A layer \in Nat : \A n \in OnLayer(layer + 1) : Step(n, layer) \in OnLayer(layer)
  <2>1. \A n, layer : n \in Node => Step(n, layer) \in Node
    BY LayersAre, HopIs
  <2>2. ASSUME NEW layer \in Nat, NEW n \in OnLayer(layer + 1) PROVE Step(n, layer) \in OnLayer(layer)
    <3>1. OnLayer(layer + 1) \in SUBSET Node /\ ClosedOn(OnLayer(layer + 1), layer + 1)
      BY LayersAre
    <3>2. Step(n, layer) \in OnLayer(layer + 1)
      BY <3>1, HopIs
    <3> QED
      BY <3>2, LayersAre
  <2> QED
    BY <2>1, <2>2
<1>3. Begins(p, level) = c
  BY DEF Begins, Hop
<1> HIDE DEF Step, L
<1>4. next \in [Nat \X Node -> Node] /\ \A k \in Nat, n \in Node : next[<<k, n>>] = Step(n, L - k)
  BY <1>2
<1> HIDE DEF next
<1>5. PICK f \in [0..L -> Node] : f[0] = entry /\ \A k \in 1..L : f[k] = next[<<k, f[k - 1]>>]
  <2>1. \E f : Course(f, Node, entry, next, L)
    BY <1>1, <1>4, LoopExists
  <2> QED
    BY <2>1 DEF Course
<1> DEFINE g == [layer \in 0..L |-> f[L - layer]]
<1>6. g = W(g)
  <2>1. ASSUME NEW layer \in 0..L
        PROVE  g[layer] = IF layer = L THEN entry ELSE Step(g[layer + 1], layer)
    <3>1. CASE layer = L
      BY <1>1, <1>5, <3>1
    <3>2. CASE layer # L
      <4>1. layer + 1 \in 0..L /\ L - layer \in 1..L /\ L - layer \in Nat
            /\ (L - layer) - 1 = L - (layer + 1) /\ L - (L - layer) = layer /\ (L - layer) - 1 \in 0..L
        BY <1>1, <3>2
      <4>2. f[L - layer] = next[<<L - layer, f[L - (layer + 1)]>>] /\ f[L - (layer + 1)] \in Node
        BY <1>5, <4>1
      <4>3. f[L - layer] = Step(f[L - (layer + 1)], layer)
        BY <1>4, <4>1, <4>2
      <4> QED
        BY <3>2, <4>1, <4>3
    <3> QED
      BY <3>1, <3>2
  <2> HIDE DEF g
  <2>2. g = [layer \in 0..L |-> g[layer]]
    BY DEF g
  <2> QED
    BY <2>1, <2>2
<1>7. c = W(c)
  BY <1>6
<1> HIDE DEF c
<1>8. c[L] = entry /\ \A layer \in 0..L : layer # L => c[layer] = Step(c[layer + 1], layer)
  <2>1. \A k \in 0..L : c[k] = IF k = L THEN entry ELSE Step(c[k + 1], k)
    BY <1>7
  <2> QED
    BY <1>1, <2>1
<1> DEFINE T == {k \in 0..L : c[L - k] \in OnLayer(L - k)}
<1>9. 0 \in T
  BY <1>1, <1>8
<1>10. ASSUME NEW k \in 1..L, k - 1 \in T PROVE k \in T
  <2>1. L - (k - 1) = (L - k) + 1 /\ L - k \in 0..L /\ L - k # L /\ L - k \in Nat /\ k \in 0..L
    BY <1>1
  <2>2. c[(L - k) + 1] \in OnLayer((L - k) + 1)
    BY <1>10, <2>1
  <2>3. c[L - k] = Step(c[(L - k) + 1], L - k)
    BY <1>8, <2>1
  <2>4. c[L - k] \in OnLayer(L - k)
    BY <1>2, <2>1, <2>2, <2>3
  <2> QED
    BY <2>1, <2>4
<1> HIDE DEF T
<1>11. \A k \in 0..L : k \in T
  BY <1>1, <1>9, <1>10, Induction
<1>12. ASSUME NEW layer \in 0..L PROVE c[layer] \in OnLayer(layer)
  <2>1. L - layer \in 0..L /\ L - (L - layer) = layer
    BY <1>1
  <2>2. L - layer \in T
    BY <1>11, <2>1
  <2> QED
    BY <2>1, <2>2 DEF T
<1> QED
  BY <1>3, <1>12 DEF L

-----------------------------------------------------------------------------
LEMMA FirstFewIs ==
  ASSUME NEW K, NEW n \in Nat, NEW o \in [1..n -> K], NEW k \in Nat
  PROVE  LET m == IF k < n THEN k ELSE n IN
         FirstFew(o, k) \in [1..m -> K] /\ \A i \in 1..m : FirstFew(o, k)[i] = o[i]
<1> DEFINE m == IF k < n THEN k ELSE n
<1>1. o \in Seq(K) /\ Len(o) = n /\ m \in 0..n
  OBVIOUS
<1>2. FirstFew(o, k) = SubSeq(o, 1, m)
  BY <1>1 DEF FirstFew
<1> HIDE DEF m
<1>3. \A z \in 0..n : SubSeq(o, 1, z) = [i \in 1..z |-> o[i]]
  BY <1>1
<1>4. FirstFew(o, k) = [i \in 1..m |-> o[i]] /\ 1..m \subseteq 1..n
  BY <1>1, <1>2, <1>3
<1> QED
  BY <1>4 DEF m

\* Those chosen are different nodes of the layer, at least one and at most M.
LEMMA ChosenIs ==
  ASSUME IndexTyped, LinksAreMutual, entry # 0, NEW p \in Point, NEW level,
         NEW layer \in 0..Top
  PROVE  /\ Len(Chosen(p, layer, level)) \in 1..M
         /\ Chosen(p, layer, level) \in [1..Len(Chosen(p, layer, level)) -> OnLayer(layer)]
<1> DEFINE S == SearchLayer(p, Begins(p, level)[layer], layer, Ef)
           o == ByDistance(p, S)
           n == Cardinality(S)
           s == Chosen(p, layer, level)
<1>1. Ef \in Nat \ {0} /\ M \in Nat \ {0}
  BY IndexAssumption
<1>2. OnLayer(layer) \in SUBSET Node /\ ClosedOn(OnLayer(layer), layer)
      /\ Begins(p, level)[layer] \in OnLayer(layer)
  BY LayersAre, BeginsIs
<1>3. S \in SUBSET OnLayer(layer) /\ S # {}
  BY <1>1, <1>2, SearchLayerIs
<1>4. s = FirstFew(o, M)
  BY DEF Chosen
<1> HIDE DEF S, s
<1>5. n \in Nat /\ Lists(o, S, Before(p, S), n) /\ n # 0
  <2>1. S \in SUBSET Node /\ IsFiniteSet(S)
    BY <1>2, <1>3, NodesAre
  <2>2. n \in Nat /\ Lists(o, S, Before(p, S), n)
    BY <2>1, ByDistanceIs
  <2>3. n # 0
    BY <1>3, <2>1, FS_EmptySet
  <2> QED
    BY <2>2, <2>3
<1> HIDE DEF n, o
<1>6. o \in [1..n -> S]
  BY <1>5 DEF Lists
<1>7. o \in [1..n -> OnLayer(layer)]
  BY <1>3, <1>6
<1> DEFINE m == IF M < n THEN M ELSE n
<1>8. m \in 1..M /\ m \in Nat
  BY <1>1, <1>5
<1>9. s \in [1..m -> OnLayer(layer)]
  BY <1>1, <1>4, <1>5, <1>7, FirstFewIs
<1> HIDE DEF m
<1>10. Len(s) = m
  BY <1>8, <1>9
<1> QED
  BY <1>8, <1>9, <1>10 DEF s

-----------------------------------------------------------------------------
\* The links of a layer while the new node x is linked, one of those in C after the other:
\* on both sides, between nodes of the layer, within the limit, and k of x at most.  When
\* nobody can have too many, none is lost.
Linking(g, old, x, C, k, K, layer) ==
  /\ g \in [1..x -> SUBSET (1..x)]
  /\ \A m, n \in 1..x : m \in g[n] => n \in g[m] /\ m # n /\ m \in K /\ n \in K
  /\ g[x] \subseteq C /\ Cardinality(g[x]) <= k
  /\ \A n \in 1..(x - 1) : Cardinality(g[n]) <= Limit(layer)
  /\ x - 1 <= Limit(layer) => C \subseteq g[x] /\ \A n \in 1..(x - 1) : old[n] \subseteq g[n]

LEMMA IntervalIs ==
  ASSUME NEW x \in Nat
  PROVE  IsFiniteSet(1..x) /\ Cardinality(1..x) = x
<1>1. \A z \in Nat : IsFiniteSet(1..z) /\ Cardinality(1..z) = z
  BY FS_Interval
<1> QED
  BY <1>1

LEMMA LinkedIs ==
  ASSUME NEW x \in Nat \ {0}, NEW K, x \in K, NEW at \in [1..x -> Point], IsInjective(at),
         NEW layer, NEW old, NEW C, NEW k \in Nat, NEW g,
         Linking(g, old, x, C, k, K, layer),
         NEW n \in 1..(x - 1), n \in K
  PROVE  Linking(Linked(g, at, x, n, layer), old, x, C \cup {n}, k + 1, K, layer)
<1> DEFINE N == 1..x
           h == [g EXCEPT ![x] = @ \cup {n}, ![n] = @ \cup {x}]
           max == Limit(layer)
<1>0. /\ g \in [N -> SUBSET N] /\ x \in N /\ n \in N /\ n # x /\ x \in Int /\ n \in Int
      /\ \A m \in 1..(x - 1) : m \in N /\ m # x
      /\ \A m \in N : m # x => m \in 1..(x - 1)
  BY DEF Linking
<1>1. \A l, m \in N : m \in g[l] => l \in g[m] /\ m # l /\ m \in K /\ l \in K
  BY DEF Linking
<1>2. /\ g[x] \subseteq C /\ Cardinality(g[x]) <= k
      /\ \A m \in 1..(x - 1) : Cardinality(g[m]) <= max
      /\ x - 1 <= max => C \subseteq g[x] /\ \A m \in 1..(x - 1) : old[m] \subseteq g[m]
  BY DEF Linking
<1>3. max \in Nat
  BY IndexAssumption DEF Limit
<1>4. /\ \A S \in SUBSET N : IsFiniteSet(S) /\ Cardinality(S) \in Nat
      /\ Cardinality(N) = x /\ IsFiniteSet(N)
  <2>1. x \in Nat
    OBVIOUS
  <2>2. IsFiniteSet(N) /\ Cardinality(N) = x
    BY <2>1, IntervalIs
  <2> QED
    BY <2>2, FS_Subset, FS_CardinalityType
<1> HIDE DEF max, N
<1>5. /\ h \in [N -> SUBSET N] /\ h[x] = g[x] \cup {n} /\ h[n] = g[n] \cup {x}
      /\ \A m \in N : m # x /\ m # n => h[m] = g[m]
  BY <1>0
<1> HIDE DEF h
<1>6. \A l, m \in N : m \in h[l] => l \in h[m] /\ m # l /\ m \in K /\ l \in K
  <2> SUFFICES ASSUME NEW l \in N, NEW m \in N, m \in h[l]
               PROVE  l \in h[m] /\ m # l /\ m \in K /\ l \in K
    OBVIOUS
  <2>1. CASE l = x
    BY <1>0, <1>1, <1>5, <2>1
  <2>2. CASE l = n
    BY <1>0, <1>1, <1>5, <2>2
  <2>3. CASE l # x /\ l # n
    BY <1>0, <1>1, <1>5, <2>3
  <2> QED
    BY <2>1, <2>2, <2>3
<1>7. Cardinality(h[x]) <= k + 1 /\ Cardinality(h[n]) <= max + 1
  <2>1. ASSUME NEW a \in N, NEW b PROVE Cardinality(g[a] \cup {b}) <= Cardinality(g[a]) + 1
    <3>1. IsFiniteSet(g[a]) /\ Cardinality(g[a]) \in Nat
      BY <1>0, <1>4
    <3>2. Cardinality(g[a] \cup {b}) = IF b \in g[a] THEN Cardinality(g[a]) ELSE Cardinality(g[a]) + 1
      BY <3>1, FS_AddElement
    <3> QED
      BY <3>1, <3>2
  <2>2. Cardinality(g[x]) \in Nat /\ Cardinality(g[n]) \in Nat
        /\ Cardinality(h[x]) \in Nat /\ Cardinality(h[n]) \in Nat
    BY <1>0, <1>4, <1>5
  <2>3. Cardinality(h[x]) <= Cardinality(g[x]) + 1 /\ Cardinality(h[n]) <= Cardinality(g[n]) + 1
    BY <1>0, <1>5, <2>1
  <2>4. Cardinality(g[x]) <= k /\ Cardinality(g[n]) <= max
    BY <1>2
  <2> QED
    BY <1>3, <2>2, <2>3, <2>4
<1>8. h[x] \subseteq C \cup {n}
  BY <1>2, <1>5
<1>9. x - 1 <= max => C \cup {n} \subseteq h[x] /\ \A m \in 1..(x - 1) : old[m] \subseteq h[m]
  BY <1>0, <1>2, <1>5
<1>10. CASE ~(Cardinality(h[n]) > max)
  <2>1. Linked(g, at, x, n, layer) = h
    BY <1>10 DEF Linked, Pruned, IsCrowded, h, max
  <2>2. \A m \in 1..(x - 1) : Cardinality(h[m]) <= max
    <3> TAKE m \in 1..(x - 1)
    <3>1. Cardinality(h[n]) \in Nat
      BY <1>0, <1>4, <1>5
    <3>2. m = n \/ h[m] = g[m]
      BY <1>0, <1>5
    <3> QED
      BY <1>2, <1>3, <1>10, <3>1, <3>2
  <2> QED
    BY <1>5, <1>6, <1>7, <1>8, <1>9, <2>1, <2>2 DEF Linking, N, max
<1>11. CASE Cardinality(h[n]) > max
  <2> DEFINE far == Farthest(at, n, h[n])
             u == Unlinked(h, n, far)
  <2>1. Linked(g, at, x, n, layer) = u
    BY <1>11 DEF Linked, Pruned, IsCrowded, h, max
  <2>2. ~(x - 1 <= max)
    <3>1. h[n] \in SUBSET (N \ {n})
      BY <1>0, <1>5, <1>6
    <3>2. IsFiniteSet(N \ {n}) /\ Cardinality(N \ {n}) = x - 1
      BY <1>0, <1>4, FS_RemoveElement
    <3> DEFINE A == h[n]
               B == N \ {n}
    <3> HIDE DEF A, B
    <3>3. Cardinality(A) <= Cardinality(B)
      BY <3>1, <3>2, FS_Subset DEF A, B
    <3>4. Cardinality(A) \in Nat /\ Cardinality(A) > max /\ Cardinality(B) = x - 1
      BY <1>0, <1>4, <1>5, <1>11, <3>2 DEF A, B
    <3> QED
      BY <1>0, <1>3, <3>3, <3>4
  <2>3. far \in h[n]
    <3> DEFINE T == {Gap(at[n], at[l]) : l \in h[n]}
               S == h[n]
               d == [l \in S |-> Gap(at[n], at[l])]
               order == {e \in S \X S : d[e[1]] < d[e[2]]}
    <3>1. IsFiniteSet(S) /\ S \in SUBSET N /\ x \in S
      BY <1>0, <1>4, <1>5
    <3>2. \A l \in S : d[l] \in Nat
      BY <1>0, <3>1, GapIs DEF N
    <3>3. \A l, m \in S : l # m => d[l] # d[m]
      <4> TAKE l \in S, m \in S
      <4>1. HAVE l # m
      <4>2. at[l] # at[m] /\ at[l] \in Point /\ at[m] \in Point /\ at[n] \in Point
        BY <1>0, <3>1, <4>1 DEF IsInjective, N
      <4> QED
        BY <4>2, GapIs
    <3>4. \A l, m \in S : <<l, m>> \in order <=> d[l] < d[m]
      OBVIOUS
    <3>5. \A l \in S : d[l] = Gap(at[n], at[l])
      OBVIOUS
    <3> HIDE DEF d, S, order
    <3>6. Orders(order, S)
      <4>1. \A a, b \in S : a = b \/ <<a, b>> \in order \/ <<b, a>> \in order
        <5> TAKE a \in S, b \in S
        <5>1. d[a] \in Nat /\ d[b] \in Nat /\ (a = b \/ d[a] # d[b])
          BY <3>2, <3>3
        <5> QED
          BY <3>4, <5>1
      <4>2. \A a, b, c \in S : <<a, b>> \in order /\ <<b, c>> \in order => <<a, c>> \in order
        BY <3>2, <3>4
      <4>3. \A a \in S : <<a, a>> \notin order
        BY <3>2, <3>4
      <4> QED
        BY <4>1, <4>2, <4>3 DEF Orders
    <3> DEFINE o == InOrder(S, order)
               c == Cardinality(S)
    <3>7. c \in Nat /\ Lists(o, S, order, c)
      BY <3>1, <3>6, InOrderIs
    <3> HIDE DEF o, c
    <3>8. PICK i \in 1..c : o[i] = x
      BY <3>1, <3>7 DEF Lists
    <3>9. c \in 1..c /\ o[c] \in S
      BY <3>7, <3>8 DEF Lists
    <3>10. ASSUME NEW l \in S PROVE d[l] <= d[o[c]]
      <4>1. PICK j \in 1..c : o[j] = l
        BY <3>7 DEF Lists
      <4>2. j = c \/ <<l, o[c]>> \in order
        BY <3>7, <3>9, <4>1 DEF Lists
      <4> QED
        BY <3>2, <3>4, <3>9, <4>1, <4>2
    <3>11. \E m \in S : \A l \in S : Gap(at[n], at[l]) <= Gap(at[n], at[m])
      BY <3>5, <3>9, <3>10
    <3> QED
      BY <3>11 DEF Farthest, S
  <2> HIDE DEF far
  <2>4. far \in N /\ far # n
    BY <1>0, <1>5, <1>6, <2>3
  <2>5. /\ u \in [N -> SUBSET N] /\ u[n] = h[n] \ {far} /\ u[far] = h[far] \ {n}
        /\ \A m \in N : m # n /\ m # far => u[m] = h[m]
    BY <1>0, <1>5, <2>4 DEF Unlinked
  <2> HIDE DEF u
  <2>6. \A l, m \in N : m \in u[l] => l \in u[m] /\ m # l /\ m \in K /\ l \in K
    <3> SUFFICES ASSUME NEW l \in N, NEW m \in N, m \in u[l]
                 PROVE  l \in u[m] /\ m # l /\ m \in K /\ l \in K
      OBVIOUS
    <3>1. m \in h[l] /\ l \in h[m] /\ m # l /\ m \in K /\ l \in K
      BY <1>0, <1>6, <2>4, <2>5
    <3>2. l \in u[m]
      <4>1. CASE m = n
        BY <1>0, <2>4, <2>5, <3>1, <4>1
      <4>2. CASE m = far
        BY <1>0, <2>4, <2>5, <3>1, <4>2
      <4>3. CASE m # n /\ m # far
        BY <1>0, <2>4, <2>5, <3>1, <4>3
      <4> QED
        BY <4>1, <4>2, <4>3
    <3> QED
      BY <3>1, <3>2
  <2>7. \A m \in N : u[m] \subseteq h[m] /\ Cardinality(u[m]) <= Cardinality(h[m])
                     /\ Cardinality(u[m]) \in Nat /\ Cardinality(h[m]) \in Nat
    <3> TAKE m \in N
    <3>1. u[m] \in SUBSET h[m] /\ h[m] \in SUBSET N /\ u[m] \in SUBSET N
      BY <1>0, <1>5, <2>4, <2>5
    <3> DEFINE A == u[m]
               B == h[m]
    <3> HIDE DEF A, B
    <3>2. A \in SUBSET B /\ IsFiniteSet(B)
      BY <1>4, <3>1 DEF A, B
    <3>3. Cardinality(A) <= Cardinality(B)
      BY <3>2, FS_Subset
    <3> QED
      BY <1>4, <3>1, <3>3 DEF A, B
  <2>8. Cardinality(u[n]) <= max
    <3> DEFINE B == h[n]
    <3>1. IsFiniteSet(B) /\ far \in B /\ Cardinality(B) \in Nat /\ Cardinality(B) <= max + 1
      BY <1>0, <1>4, <1>5, <1>7, <2>3
    <3> HIDE DEF B
    <3>2. Cardinality(B \ {far}) = Cardinality(B) - 1
      BY <3>1, FS_RemoveElement
    <3>3. u[n] = B \ {far}
      BY <2>5 DEF B
    <3> QED
      BY <1>3, <3>1, <3>2, <3>3
  <2>9. \A m \in 1..(x - 1) : Cardinality(u[m]) <= max
    <3> TAKE m \in 1..(x - 1)
    <3>1. CASE m = n
      BY <2>8, <3>1
    <3>2. CASE m # n
      <4>1. m \in N /\ h[m] = g[m] /\ Cardinality(g[m]) <= max
        BY <1>0, <1>2, <1>5, <3>2
      <4>2. Cardinality(u[m]) <= Cardinality(h[m]) /\ Cardinality(u[m]) \in Nat /\ Cardinality(h[m]) \in Nat
        BY <2>7, <4>1
      <4> QED
        BY <1>3, <4>1, <4>2
    <3> QED
      BY <3>1, <3>2
  <2>10. u[x] \subseteq C \cup {n} /\ Cardinality(u[x]) <= k + 1
    <3>1. u[x] \subseteq h[x] /\ Cardinality(u[x]) <= Cardinality(h[x])
          /\ Cardinality(u[x]) \in Nat /\ Cardinality(h[x]) \in Nat
      BY <1>0, <2>7
    <3>2. Cardinality(u[x]) <= k + 1
      BY <1>7, <3>1
    <3> QED
      BY <1>8, <3>1, <3>2
  <2> QED
    BY <2>1, <2>2, <2>5, <2>6, <2>9, <2>10 DEF Linking, N, max
<1> QED
  BY <1>10, <1>11

-----------------------------------------------------------------------------
\* What add() makes of a layer: links on both sides between nodes that have it, as many as
\* it allows.  When nobody can have too many, the new node has a link and none is lost.
Wired(g, x, layer) ==
  /\ g \in [1..x -> SUBSET (1..x)]
  /\ \A m, n \in 1..x : m \in g[n] => /\ n \in g[m] /\ m # n
                                      /\ m \in OnLayer(layer) \cup {x}
                                      /\ n \in OnLayer(layer) \cup {x}
  /\ \A n \in 1..x : Cardinality(g[n]) <= Limit(layer)
  /\ x - 1 <= Limit(layer) => g[x] # {} /\ \A n \in Node : Neighbours(n, layer) \subseteq g[n]

LEMMA LinkedTyped ==
  ASSUME NEW N, NEW g \in [N -> SUBSET N], NEW at, NEW x \in N, NEW n \in N, NEW layer
  PROVE  Linked(g, at, x, n, layer) \in [N -> SUBSET N]
<1> DEFINE h == [g EXCEPT ![x] = @ \cup {n}, ![n] = @ \cup {x}]
           far == Farthest(at, n, h[n])
<1>1. h \in [N -> SUBSET N]
  OBVIOUS
<1>2. Linked(g, at, x, n, layer) = h \/ Linked(g, at, x, n, layer) = Unlinked(h, n, far)
  BY DEF Linked, Pruned
<1> HIDE DEF h, far
<1>3. Unlinked(h, n, far) \in [N -> SUBSET N]
  BY <1>1 DEF Unlinked
<1> QED
  BY <1>1, <1>2, <1>3

LEMMA WithLinksIs ==
  ASSUME IndexTyped, LinksAreMutual, LinksAreBounded, entry # 0,
         NEW p \in Point, \A n \in Node : nodes[n].point # p, NEW level, NEW layer \in 0..Top
  PROVE  Wired(WithLinks(p, layer, level), Len(nodes) + 1, layer)
<1> DEFINE x == Len(nodes) + 1
           N == 1..x
           D == [N -> SUBSET N]
           at == [n \in 1..x |-> IF n = x THEN p ELSE nodes[n].point]
           chosen == Chosen(p, layer, level)
           L == Len(chosen)
           K == OnLayer(layer) \cup {x}
           old == [n \in Node |-> Neighbours(n, layer)]
           base == [n \in 1..x |-> IF n = x THEN {} ELSE Neighbours(n, layer)]
           Step(g, k) == Linked(g, at, x, chosen[k], layer)
           W(w) == [k \in 0..L |-> IF k = 0 THEN base ELSE Step(w[k - 1], k)]
           next == [y \in Nat \X D |-> IF y[1] \in 1..L THEN Step(y[2], y[1]) ELSE y[2]]
           c == CHOOSE w : w = W(w)
<1>1. /\ Len(nodes) \in Nat /\ x \in Nat \ {0} /\ x - 1 = Len(nodes) /\ x \in N
      /\ Node = 1..(x - 1) /\ Node \subseteq N /\ x \notin Node /\ N = Node \cup {x}
  BY NodesAre
<1>2. /\ L \in 1..M /\ \A k \in 1..L : chosen[k] \in OnLayer(layer) /\ chosen[k] \in Node
  <2>1. OnLayer(layer) \in SUBSET Node
    BY LayersAre
  <2> QED
    BY <2>1, ChosenIs
<1>3. WithLinks(p, layer, level) = c[L]
  BY DEF WithLinks
<1>4. at \in [N -> Point] /\ IsInjective(at)
  <2>1. \A n \in Node : nodes[n].point \in Point /\ nodes[n].point # p
    BY NodesAre
  <2>2. \A m, n \in Node : nodes[m].point = nodes[n].point => m = n
    BY DEF IndexTyped, IndexTypeOK
  <2>3. at \in [N -> Point]
    BY <1>1, <2>1
  <2>4. \A m, n \in N : at[m] = at[n] => m = n
    BY <1>1, <2>1, <2>2
  <2> QED
    BY <2>3, <2>4 DEF IsInjective
<1>5. /\ \A n \in Node : base[n] = Neighbours(n, layer) /\ old[n] = Neighbours(n, layer)
      /\ base[x] = {} /\ base \in [N -> SUBSET N]
  <2>1. \A n \in Node : Neighbours(n, layer) \in SUBSET N
    BY <1>1, NodesAre
  <2> QED
    BY <1>1, <2>1
<1> HIDE DEF x, at, chosen, L, old, base
<1>6. \A g \in D, k \in 1..L : Step(g, k) \in D
  BY <1>1, <1>2, LinkedTyped
<1> HIDE DEF N
<1>7. Linking(base, old, x, {}, 0, K, layer)
  <2>1. \A n \in Node : Neighbours(n, layer) \subseteq Node /\ n \notin Neighbours(n, layer)
    BY NodesAre
  <2>2. \A m, n \in Node : m \in Neighbours(n, layer) =>
          n \in Neighbours(m, layer) /\ m \in OnLayer(layer) /\ n \in OnLayer(layer)
    BY DEF Neighbours, LinksAreMutual, OnLayer
  <2>3. \A m, n \in N : m \in base[n] => n \in base[m] /\ m # n /\ m \in K /\ n \in K
    BY <1>1, <1>5, <2>1, <2>2
  <2>4. \A n \in Node : Cardinality(Neighbours(n, layer)) <= Limit(layer)
    <3>1. Cardinality({}) = 0 /\ 0 <= Limit(layer)
      BY FS_EmptySet, IndexAssumption DEF Limit
    <3> QED
      BY <3>1 DEF Neighbours, LinksAreBounded
  <2>5. Cardinality(base[x]) <= 0
    BY <1>5, FS_EmptySet
  <2> QED
    BY <1>1, <1>5, <2>3, <2>4, <2>5 DEF Linking, N
<1> HIDE DEF Step, K, D
<1>8. /\ next \in [Nat \X D -> D]
      /\ \A k \in 1..L, g \in D : k \in Nat /\ next[<<k, g>>] = Step(g, k)
  BY <1>6
<1> HIDE DEF next
<1>9. base \in D /\ L \in Nat
  BY <1>2, <1>5 DEF D
<1>10. PICK f \in [0..L -> D] : f[0] = base /\ \A k \in 1..L : f[k] = next[<<k, f[k - 1]>>]
  <2>1. \E f : Course(f, D, base, next, L)
    BY <1>8, <1>9, LoopExists
  <2> QED
    BY <2>1 DEF Course
<1>11. f = W(f)
  <2>1. ASSUME NEW k \in 0..L PROVE f[k] = IF k = 0 THEN base ELSE Step(f[k - 1], k)
    <3>1. k # 0 => k \in 1..L /\ k - 1 \in 0..L
      BY <1>9
    <3> QED
      BY <1>8, <1>10, <3>1
  <2>2. f = [k \in 0..L |-> f[k]]
    BY <1>10
  <2> QED
    BY <2>1, <2>2
<1>12. c = W(c)
  BY <1>11
<1> HIDE DEF c
<1>13. c[0] = base /\ \A k \in 1..L : c[k] = Step(c[k - 1], k)
  <2>1. \A k \in 0..L : c[k] = IF k = 0 THEN base ELSE Step(c[k - 1], k)
    BY <1>12
  <2>2. 0 \in 0..L /\ \A k \in 1..L : k \in 0..L /\ k # 0
    BY <1>9
  <2> QED
    BY <2>1, <2>2
<1> DEFINE C(k) == {chosen[i] : i \in 1..k}
           T == {k \in 0..L : Linking(c[k], old, x, C(k), k, K, layer)}
<1>14. 0 \in T
  <2>1. C(0) = {}
    OBVIOUS
  <2> HIDE DEF C
  <2>2. Linking(c[0], old, x, C(0), 0, K, layer)
    BY <1>7, <1>13, <2>1
  <2> QED
    BY <1>9, <2>2
<1>15. ASSUME NEW k \in 1..L, k - 1 \in T PROVE k \in T
  <2> DEFINE g == c[k - 1]
             n == chosen[k]
  <2>1. Linking(g, old, x, C(k - 1), k - 1, K, layer) /\ k \in 0..L /\ k - 1 \in Nat /\ (k - 1) + 1 = k
    BY <1>9, <1>15
  <2>2. n \in 1..(x - 1) /\ n \in K /\ x \in K
    BY <1>1, <1>2 DEF K
  <2>3. c[k] = Linked(g, at, x, n, layer)
    BY <1>13 DEF Step
  <2>4. C(k) = C(k - 1) \cup {n}
    <3>1. 1..k = (1..(k - 1)) \cup {k}
      BY <1>9
    <3> QED
      BY <3>1
  <2>5. at \in [1..x -> Point]
    BY <1>4 DEF N
  <2> HIDE DEF g, n, T, C
  <2>6. Linking(Linked(g, at, x, n, layer), old, x, C(k - 1) \cup {n}, (k - 1) + 1, K, layer)
    BY <1>1, <1>4, <2>1, <2>2, <2>5, LinkedIs
  <2>7. Linking(c[k], old, x, C(k), k, K, layer)
    BY <2>1, <2>3, <2>4, <2>6
  <2> QED
    BY <2>1, <2>7 DEF T
<1> HIDE DEF T
<1>16. \A k \in 0..L : k \in T
  BY <1>9, <1>14, <1>15, Induction
<1>17. Linking(c[L], old, x, C(L), L, K, layer)
  BY <1>9, <1>16 DEF T
<1>18. C(L) # {}
  <2>1. 1 \in 1..L
    BY <1>2
  <2> QED
    BY <2>1
<1> DEFINE g == c[L]
           A == C(L)
<1> HIDE DEF g, A, C
<1>19. /\ g \in [1..x -> SUBSET (1..x)]
       /\ \A m, n \in 1..x : m \in g[n] => n \in g[m] /\ m # n /\ m \in K /\ n \in K
       /\ Cardinality(g[x]) <= L
       /\ \A n \in 1..(x - 1) : Cardinality(g[n]) <= Limit(layer)
       /\ x - 1 <= Limit(layer) => A \subseteq g[x] /\ \A n \in 1..(x - 1) : old[n] \subseteq g[n]
  BY <1>17 DEF Linking, g, A
<1>20. Cardinality(g[x]) <= Limit(layer)
  <2>1. L <= M /\ L \in Nat /\ M \in Nat
    BY <1>2, <1>9, IndexAssumption
  <2>2. Cardinality(g[x]) \in Nat
    <3>1. g[x] \in SUBSET (1..x)
      BY <1>1, <1>19 DEF N
    <3>2. IsFiniteSet(1..x)
      BY <1>1, IntervalIs
    <3> QED
      BY <3>1, <3>2, FS_Subset, FS_CardinalityType
  <2> QED
    BY <1>19, <2>1, <2>2 DEF Limit
<1>21. \A n \in 1..x : Cardinality(g[n]) <= Limit(layer)
  BY <1>1, <1>19, <1>20 DEF N
<1>22. A # {} /\ \A n \in Node : old[n] = Neighbours(n, layer)
  BY <1>5, <1>18 DEF A
<1>23. x - 1 <= Limit(layer) => g[x] # {} /\ \A n \in Node : Neighbours(n, layer) \subseteq g[n]
  BY <1>1, <1>19, <1>22
<1>24. Wired(g, x, layer)
  BY <1>19, <1>21, <1>23 DEF Wired, K
<1> QED
  BY <1>3, <1>24 DEF g, x

-----------------------------------------------------------------------------
\* The nodes once the one of vector p is added: on the layers it shares with the entry,
\* G has the links; on others, they are those that were there.
LinkedUp(new, G, p, level) ==
  LET x == Len(nodes) + 1 IN
  /\ new \in Seq(AnyNode) /\ Len(new) = x
  /\ \A n \in Node : new[n].point = nodes[n].point /\ new[n].level = nodes[n].level
  /\ new[x].point = p /\ new[x].level = level
  /\ \A n \in 1..x : new[n].links \in [0..new[n].level -> SUBSET ((1..x) \ {n})]
  /\ \A layer \in Shared(level) :
       /\ Wired(G[layer], x, layer)
       /\ \A n \in 1..x : layer \in 0..new[n].level => new[n].links[layer] = G[layer][n]
  /\ \A layer \in Nat \ Shared(level) :
       /\ \A n \in Node : layer \in 0..new[n].level => new[n].links[layer] = nodes[n].links[layer]
       /\ layer \in 0..level => new[x].links[layer] = {}

LEMMA JoinedIs ==
  ASSUME IndexTyped, LinksAreMutual, LinksAreBounded, entry # 0,
         NEW p \in Point, \A n \in Node : nodes[n].point # p, NEW level \in 0..TopLevel
  PROVE  \E G : LinkedUp(Joined(p, level), G, p, level)
<1> DEFINE x == Len(nodes) + 1
           N == 1..x
           grown == Grown(p, level)
           S == Shared(level)
           G == [layer \in S |-> WithLinks(p, layer, level)]
           links(n) == [layer \in 0..grown[n].level |->
                          IF layer \in S THEN G[layer][n] ELSE grown[n].links[layer]]
           new == [n \in 1..x |-> [grown[n] EXCEPT !.links = links(n)]]
<1>1. /\ Len(nodes) \in Nat /\ x \in Nat \ {0} /\ x - 1 = Len(nodes) /\ x \in N
      /\ Node = 1..(x - 1) /\ Node \subseteq N /\ x \notin Node /\ N = Node \cup {x}
  BY NodesAre
<1>2. level \in Nat /\ Top \in Nat /\ S \subseteq 0..Top /\ S \subseteq 0..level
  BY LayersAre, IndexAssumption DEF Shared
<1>3. \A layer \in S : Wired(G[layer], x, layer)
  BY <1>2, WithLinksIs
<1>4. Joined(p, level) = new
  BY DEF Joined
<1>5. /\ \A n \in Node : grown[n] = nodes[n] /\ nodes[n] \in AnyNode
      /\ \A n \in Node : /\ nodes[n].point \in Point /\ nodes[n].level \in Nat
                         /\ nodes[n].links \in [0..nodes[n].level -> SUBSET (Node \ {n})]
      /\ grown[x] = NewNode(p, level)
  <2>1. nodes \in Seq(AnyNode)
    BY DEF IndexTyped
  <2>2. \A n \in Node : grown[n] = nodes[n] /\ nodes[n] \in AnyNode
    BY <1>1, <2>1 DEF Grown
  <2>3. grown[x] = NewNode(p, level)
    BY <1>1, <2>1 DEF Grown
  <2>4. \A n \in Node : /\ nodes[n].point \in Point /\ nodes[n].level \in Nat
                        /\ nodes[n].links \in [0..nodes[n].level -> SUBSET (Node \ {n})]
    BY IndexAssumption DEF IndexTyped, IndexTypeOK, Layer
  <2> QED
    BY <2>2, <2>3, <2>4
<1> HIDE DEF grown, G, S
<1>6. \A n \in N : /\ grown[n].level \in Nat /\ grown[n].point \in Point
                   /\ grown[n] = [point |-> grown[n].point, level |-> grown[n].level,
                                  links |-> grown[n].links]
  BY <1>1, <1>2, <1>5 DEF NewNode, AnyNode
<1>7. \A n \in N : links(n) \in [0..grown[n].level -> SUBSET (N \ {n})]
  <2> SUFFICES ASSUME NEW n \in N, NEW layer \in 0..grown[n].level
               PROVE  (IF layer \in S THEN G[layer][n] ELSE grown[n].links[layer]) \in SUBSET (N \ {n})
    OBVIOUS
  <2>1. CASE layer \in S
    <3> DEFINE g == G[layer]
    <3>1. g \in [N -> SUBSET N] /\ \A m, l \in N : m \in g[l] => m # l
      BY <1>3, <2>1 DEF Wired
    <3> HIDE DEF g, N
    <3>2. g[n] \in SUBSET (N \ {n})
      BY <3>1
    <3> QED
      BY <2>1, <3>2 DEF g
  <2>2. CASE layer \notin S
    <3>1. CASE n \in Node
      <4>1. nodes[n].links \in [0..nodes[n].level -> SUBSET (Node \ {n})] /\ grown[n] = nodes[n]
        BY <1>5, <3>1
      <4>2. layer \in 0..nodes[n].level
        BY <4>1
      <4>3. nodes[n].links[layer] \in SUBSET (Node \ {n})
        BY <4>1, <4>2
      <4>4. SUBSET (Node \ {n}) \subseteq SUBSET (N \ {n})
        BY <1>1
      <4> QED
        BY <2>2, <4>1, <4>3, <4>4
    <3>2. CASE n = x
      <4>1. grown[x].links = [l \in 0..level |-> {}] /\ grown[x].level = level
        BY <1>5 DEF NewNode
      <4>2. layer \in 0..level
        BY <3>2, <4>1
      <4>3. grown[x].links[layer] = {}
        BY <4>1, <4>2
      <4> QED
        BY <2>2, <3>2, <4>3
    <3> QED
      BY <1>1, <3>1, <3>2
  <2> QED
    BY <2>1, <2>2
<1>8. \A n \in N : \A layer \in 0..grown[n].level :
        links(n)[layer] = IF layer \in S THEN G[layer][n] ELSE grown[n].links[layer]
  OBVIOUS
<1> HIDE DEF links
<1>9. \A n \in N : new[n] = [point |-> grown[n].point, level |-> grown[n].level, links |-> links(n)]
  <2> TAKE n \in N
  <2> DEFINE r == grown[n]
             l == links(n)
  <2>1. r = [point |-> r.point, level |-> r.level, links |-> r.links]
    BY <1>6
  <2>2. new[n] = [r EXCEPT !.links = l]
    OBVIOUS
  <2> HIDE DEF r, l, new
  <2>3. [r EXCEPT !.links = l] = [point |-> r.point, level |-> r.level, links |-> l]
    BY <2>1
  <2>4. new[n] = [point |-> r.point, level |-> r.level, links |-> l]
    BY <2>2, <2>3
  <2> QED
    BY <2>4 DEF r, l
<1>10. new \in [N -> AnyNode]
  <2>1. ASSUME NEW n \in N
        PROVE  [point |-> grown[n].point, level |-> grown[n].level, links |-> links(n)] \in AnyNode
    <3>1. links(n) \in [0..grown[n].level -> SUBSET Nat]
      BY <1>1, <1>7
    <3>2. links(n) \in UNION {[0..l -> SUBSET Nat] : l \in Nat}
      BY <1>6, <3>1
    <3> QED
      BY <1>6, <3>2 DEF AnyNode
  <2> QED
    BY <1>9, <2>1
<1> HIDE DEF new
<1>11. new \in Seq(AnyNode) /\ Len(new) = x
  BY <1>1, <1>10
<1>12. \A n \in N : new[n].point = grown[n].point /\ new[n].level = grown[n].level /\ new[n].links = links(n)
  <2> TAKE n \in N
  <2>1. new[n] = [point |-> grown[n].point, level |-> grown[n].level, links |-> links(n)]
    BY <1>9
  <2> QED
    BY <2>1
<1>13. /\ \A n \in Node : new[n].point = nodes[n].point /\ new[n].level = nodes[n].level
       /\ new[x].point = p /\ new[x].level = level
  BY <1>1, <1>5, <1>12 DEF NewNode
<1>14. \A n \in N : new[n].links \in [0..new[n].level -> SUBSET (N \ {n})]
  BY <1>7, <1>12
<1>15. \A layer \in S : \A n \in N : layer \in 0..new[n].level => new[n].links[layer] = G[layer][n]
  BY <1>8, <1>12
<1>16. ASSUME NEW layer \in Nat \ S
       PROVE  /\ \A n \in Node : layer \in 0..new[n].level => new[n].links[layer] = nodes[n].links[layer]
              /\ layer \in 0..level => new[x].links[layer] = {}
  <2>1. \A n \in Node : layer \in 0..new[n].level => new[n].links[layer] = nodes[n].links[layer]
    <3> TAKE n \in Node
    <3>1. HAVE layer \in 0..new[n].level
    <3>2. n \in N /\ grown[n] = nodes[n]
      BY <1>1, <1>5
    <3> HIDE DEF N
    <3>3. new[n].links = links(n) /\ layer \in 0..grown[n].level
      BY <1>12, <3>1, <3>2
    <3>4. links(n)[layer] = grown[n].links[layer]
      BY <1>8, <1>16, <3>2, <3>3
    <3> QED
      BY <3>2, <3>3, <3>4
  <2>2. grown[x].links = [l \in 0..level |-> {}] /\ grown[x].level = level
    BY <1>5 DEF NewNode
  <2>3. layer \in 0..level => new[x].links[layer] = {}
    BY <1>1, <1>8, <1>12, <2>2
  <2> QED
    BY <2>1, <2>3
<1>17. LinkedUp(new, G, p, level)
  BY <1>3, <1>11, <1>13, <1>14, <1>15, <1>16 DEF LinkedUp, S
<1> QED
  BY <1>4, <1>17

LEMMA IndexStarts == IndexInit => IndexInv
<1> SUFFICES ASSUME IndexInit PROVE IndexInv
  OBVIOUS
<1>1. nodes = << >> /\ entry = 0 /\ moves = 0 /\ Node = {} /\ Len(nodes) = 0 /\ nodes \in Seq(AnyNode)
  BY DEF IndexInit, Node
<1>2. IndexTypeOK
  BY <1>1, IndexAssumption DEF IndexTypeOK
<1>3. LinksAreMutual /\ LinksAreBounded /\ EntryIsOnTop /\ Connected
  BY <1>1 DEF LinksAreMutual, LinksAreBounded, EntryIsOnTop, Connected
<1> QED
  BY <1>1, <1>2, <1>3 DEF IndexInv, IndexTyped

LEMMA FirstKeeps ==
  ASSUME IndexInv, NEW p \in Point, NEW level \in 0..TopLevel, Add(p, level), entry = 0
  PROVE  IndexInv'
<1>1. nodes = << >> /\ moves \in 0..MaxMoves /\ Len(nodes) = 0 /\ level \in Nat
  BY IndexAssumption DEF IndexInv, IndexTyped, IndexTypeOK
<1> DEFINE r == NewNode(p, level)
<1>2. nodes' = <<r>> /\ entry' = 1 /\ moves' = moves /\ 1 <= MaxNodes
  BY <1>1, IndexAssumption DEF Add, Grown, HigherEntry
<1>3. r.point = p /\ r.level = level /\ r.links \in [0..level -> {{}}] /\ r \in AnyNode
  <2>1. [l \in 0..level |-> {}] \in [0..level -> SUBSET Nat]
    OBVIOUS
  <2>2. [l \in 0..level |-> {}] \in UNION {[0..l -> SUBSET Nat] : l \in Nat}
    BY <1>1, <2>1
  <2> QED
    BY <1>1, <2>2 DEF NewNode, AnyNode
<1> HIDE DEF r
<1>4. Node' = {1} /\ Len(nodes') = 1 /\ nodes'[1] = r /\ nodes' \in Seq(AnyNode) /\ nodes' # << >>
  BY <1>2, <1>3 DEF Node
<1>5. \A layer \in 0..level : r.links[layer] = {}
  BY <1>3
<1>6. IndexTypeOK'
  BY <1>1, <1>2, <1>3, <1>4 DEF IndexTypeOK, Layer
<1>7. LinksAreMutual'
  BY <1>3, <1>4, <1>5 DEF LinksAreMutual, Layer
<1>8. LinksAreBounded'
  <2>1. Cardinality({}) = 0 /\ \A layer : 0 <= Limit(layer)
    BY FS_EmptySet, IndexAssumption DEF Limit
  <2> QED
    BY <1>3, <1>4, <1>5, <2>1 DEF LinksAreBounded, Layer
<1>9. EntryIsOnTop'
  BY <1>1, <1>2, <1>3, <1>4 DEF EntryIsOnTop, Top
<1>10. Connected'
  <2>1. \A S \in SUBSET (Node') : S # {} => S = Node'
    BY <1>4
  <2> QED
    BY <2>1 DEF Connected
<1> QED
  BY <1>4, <1>6, <1>7, <1>8, <1>9, <1>10 DEF IndexInv, IndexTyped

LEMMA AddKeeps ==
  ASSUME IndexInv, NEW p \in Point, NEW level \in 0..TopLevel, Add(p, level), entry # 0
  PROVE  IndexInv'
<1> DEFINE x == Len(nodes) + 1
           N == 1..x
<1>0. IndexTyped /\ IndexTypeOK /\ LinksAreMutual /\ LinksAreBounded /\ EntryIsOnTop /\ Connected
  BY DEF IndexInv, IndexTyped
<1>1. /\ Len(nodes) \in Nat /\ x \in Nat \ {0} /\ x - 1 = Len(nodes) /\ x \in N
      /\ Node = 1..(x - 1) /\ Node \subseteq N /\ x \notin Node /\ N = Node \cup {x}
  BY <1>0, NodesAre
<1>2. /\ Len(nodes) < MaxNodes /\ (\A n \in Node : nodes[n].point # p)
      /\ nodes' = Joined(p, level) /\ entry' = HigherEntry(x, level) /\ moves' = moves
  BY DEF Add
<1>3. PICK G : LinkedUp(nodes', G, p, level)
  BY <1>0, <1>2, JoinedIs
<1>4. /\ nodes' \in Seq(AnyNode) /\ Len(nodes') = x /\ Node' = N
      /\ \A n \in Node : nodes'[n].point = nodes[n].point /\ nodes'[n].level = nodes[n].level
      /\ nodes'[x].point = p /\ nodes'[x].level = level
      /\ \A n \in N : nodes'[n].links \in [0..nodes'[n].level -> SUBSET (N \ {n})]
  BY <1>3 DEF LinkedUp, Node
<1>5. \A layer \in Shared(level) :
        /\ Wired(G[layer], x, layer)
        /\ \A n \in N : layer \in 0..nodes'[n].level => nodes'[n].links[layer] = G[layer][n]
  BY <1>3 DEF LinkedUp
<1>6. \A layer \in Nat \ Shared(level) :
        /\ \A n \in Node : layer \in 0..nodes'[n].level => nodes'[n].links[layer] = nodes[n].links[layer]
        /\ layer \in 0..level => nodes'[x].links[layer] = {}
  BY <1>3 DEF LinkedUp
<1>7. /\ level \in Nat /\ Top \in Nat /\ entry \in Node
      /\ Shared(level) \subseteq 0..Top /\ Shared(level) \subseteq 0..level /\ 0 \in Shared(level)
  BY <1>0, LayersAre, IndexAssumption DEF Shared
<1>8. \A n \in Node : nodes[n].level \in Nat /\ nodes[n].level \in 0..TopLevel /\ nodes[n].point \in Point
  BY <1>0, IndexAssumption DEF IndexTypeOK
<1>9. IndexTypeOK'
  <2>1. x <= MaxNodes /\ entry' \in N /\ nodes' # << >>
    BY <1>1, <1>2, <1>4, <1>7, IndexAssumption DEF HigherEntry
  <2>2. \A n \in N : nodes'[n].point \in Point /\ nodes'[n].level \in 0..TopLevel
    BY <1>1, <1>4, <1>8
  <2>3. \A m, n \in N : nodes'[m].point = nodes'[n].point => m = n
    <3>1. \A m, n \in Node : nodes[m].point = nodes[n].point => m = n
      BY <1>0 DEF IndexTypeOK
    <3> QED
      BY <1>1, <1>2, <1>4, <3>1
  <2>4. moves' \in 0..MaxMoves /\ entry' # 0
    BY <1>0, <1>2, <2>1 DEF IndexTypeOK
  <2> HIDE DEF N
  <2> QED
    BY <1>4, <2>1, <2>2, <2>3, <2>4 DEF IndexTypeOK, Layer
<1> DEFINE Has(n, layer) == layer \in 0..nodes'[n].level
<1>10. /\ \A n \in N : nodes'[n].level \in Nat
       /\ \A layer \in Shared(level) : \A n \in N : n \in OnLayer(layer) \cup {x} => Has(n, layer)
  BY <1>1, <1>4, <1>7, <1>8 DEF OnLayer, Layer
<1>11. ASSUME NEW n \in N, NEW layer, Has(n, layer), NEW m \in nodes'[n].links[layer]
       PROVE  m \in N /\ Has(m, layer) /\ n \in nodes'[m].links[layer]
  <2>1. layer \in Nat /\ m \in N /\ m # n
    <3>1. nodes'[n].links[layer] \in SUBSET (N \ {n})
      BY <1>4, <1>11
    <3> QED
      BY <1>10, <1>11, <3>1
  <2>2. CASE layer \in Shared(level)
    <3> DEFINE g == G[layer]
    <3>1. nodes'[n].links[layer] = g[n] /\ Wired(g, x, layer)
      BY <1>5, <1>11, <2>2
    <3>2. n \in g[m] /\ m \in OnLayer(layer) \cup {x}
      BY <2>1, <3>1, <1>11 DEF Wired
    <3>3. Has(m, layer)
      BY <1>10, <2>1, <2>2, <3>2
    <3>4. nodes'[m].links[layer] = g[m]
      BY <1>5, <2>1, <2>2, <3>3
    <3> QED
      BY <2>1, <3>2, <3>3, <3>4
  <2>3. CASE layer \notin Shared(level)
    <3>1. n \in Node
      <4>1. n = x => nodes'[n].links[layer] = {}
        BY <1>4, <1>6, <1>11, <2>1, <2>3
      <4> QED
        BY <1>1, <1>11, <4>1
    <3>2. nodes'[n].links[layer] = nodes[n].links[layer] /\ layer \in Layer(n)
      BY <1>4, <1>6, <1>11, <2>1, <2>3, <3>1 DEF Layer
    <3>3. m \in Node
      <4>1. nodes[n].links \in [Layer(n) -> SUBSET (Node \ {n})]
        BY <1>0, <3>1 DEF IndexTypeOK
      <4>2. nodes[n].links[layer] \in SUBSET (Node \ {n})
        BY <3>2, <4>1
      <4> QED
        BY <1>11, <3>2, <4>2
    <3>4. layer \in Layer(m) /\ n \in nodes[m].links[layer]
      BY <1>0, <1>11, <3>1, <3>2 DEF LinksAreMutual
    <3>5. Has(m, layer)
      BY <1>4, <3>3, <3>4 DEF Layer
    <3>6. nodes'[m].links[layer] = nodes[m].links[layer]
      BY <1>6, <2>1, <2>3, <3>3, <3>5
    <3> QED
      BY <2>1, <3>4, <3>5, <3>6
  <2> QED
    BY <2>2, <2>3
<1>12. LinksAreMutual'
  <2> HIDE DEF N
  <2> QED
    BY <1>4, <1>11 DEF LinksAreMutual, Layer
<1>13. ASSUME NEW n \in N, NEW layer, Has(n, layer)
       PROVE  Cardinality(nodes'[n].links[layer]) <= Limit(layer)
  <2>1. layer \in Nat
    BY <1>10, <1>13
  <2>2. CASE layer \in Shared(level)
    BY <1>5, <1>13, <2>2 DEF Wired
  <2>3. CASE layer \notin Shared(level) /\ n = x
    <3>1. nodes'[n].links[layer] = {}
      BY <1>4, <1>6, <1>13, <2>1, <2>3
    <3>2. Cardinality({}) = 0 /\ 0 <= Limit(layer)
      BY FS_EmptySet, IndexAssumption DEF Limit
    <3> QED
      BY <3>1, <3>2
  <2>4. CASE layer \notin Shared(level) /\ n \in Node
    <3>1. nodes'[n].links[layer] = nodes[n].links[layer] /\ layer \in Layer(n)
      BY <1>4, <1>6, <1>13, <2>1, <2>4 DEF Layer
    <3> QED
      BY <1>0, <2>4, <3>1 DEF LinksAreBounded
  <2> QED
    BY <1>1, <2>2, <2>3, <2>4
<1>14. LinksAreBounded'
  <2> HIDE DEF N
  <2> QED
    BY <1>4, <1>13 DEF LinksAreBounded, Layer
<1>15. EntryIsOnTop'
  <2>1. \A n \in Node : nodes[n].level <= Top
    BY <1>0 DEF EntryIsOnTop
  <2>2. entry' = IF level > Top THEN x ELSE entry
    BY <1>2 DEF HigherEntry
  <2>3. nodes'[entry'].level = IF level > Top THEN level ELSE Top
    BY <1>4, <1>7, <2>2 DEF Top
  <2>4. \A n \in N : nodes'[n].level <= nodes'[entry'].level
    BY <1>1, <1>4, <1>7, <1>8, <2>1, <2>3
  <2> QED
    BY <1>4, <2>4 DEF EntryIsOnTop, Top
<1>16. ASSUME x <= 2 * M + 1, NEW S \in SUBSET N, S # {},
              \A n \in S : nodes'[n].links[0] \subseteq S
       PROVE  S = N
  <2> DEFINE g == G[0]
             R == S \ {x}
  <2>1. x - 1 <= Limit(0) /\ Len(nodes) <= 2 * M + 1
    BY <1>1, <1>16, IndexAssumption DEF Limit
  <2>2. Wired(g, x, 0) /\ \A n \in N : nodes'[n].links[0] = g[n]
    BY <1>5, <1>7, <1>10
  <2>3. /\ g[x] # {} /\ \A n \in Node : Neighbours(n, 0) \subseteq g[n]
        /\ g \in [N -> SUBSET N] /\ \A m, n \in N : m \in g[n] => n \in g[m] /\ m # n
    BY <2>1, <2>2 DEF Wired
  <2> HIDE DEF g, N
  <2>4. PICK m \in g[x] : m \in N /\ m # x /\ x \in g[m]
    BY <1>1, <2>3
  <2>5. \A n \in S : g[n] \subseteq S
    BY <1>16, <2>2
  <2>6. R # {}
    BY <1>16, <2>4, <2>5
  <2>7. R \in SUBSET Node /\ ClosedOn(R, 0)
    <3>1. R \in SUBSET Node
      BY <1>1, <1>16
    <3>2. \A n \in R : Neighbours(n, 0) \subseteq S /\ Neighbours(n, 0) \subseteq Node
      BY <1>0, <2>3, <2>5, <3>1, NodesAre
    <3> QED
      BY <1>1, <3>1, <3>2 DEF ClosedOn
  <2>8. R = Node
    BY <1>0, <2>1, <2>6, <2>7 DEF Connected
  <2>9. m \in S /\ x \in S
    BY <1>1, <2>4, <2>5, <2>8
  <2> QED
    BY <1>1, <1>16, <2>8, <2>9
<1>17. Connected'
  <2>1. \A n \in N : Neighbours(n, 0)' = nodes'[n].links[0]
    BY <1>10 DEF Neighbours, Layer
  <2> HIDE DEF N, x
  <2>2. x <= 2 * M + 1 => \A S \in SUBSET N : S # {} /\ (\A n \in S : nodes'[n].links[0] \subseteq S) => S = N
    BY <1>16
  <2>3. x <= 2 * M + 1 => \A S \in SUBSET N : S # {} /\ (\A n \in S : Neighbours(n, 0)' \subseteq S) => S = N
    BY <2>1, <2>2
  <2> QED
    BY <1>4, <2>3 DEF Connected, ClosedOn
<1> QED
  BY <1>4, <1>9, <1>12, <1>14, <1>15, <1>17 DEF IndexInv, IndexTyped

LEMMA MoveKeeps ==
  ASSUME IndexInv, NEW p \in Point, NEW k \in Node, Move(k, p)
  PROVE  IndexInv'
<1>0. IndexTyped /\ IndexTypeOK /\ LinksAreMutual /\ LinksAreBounded /\ EntryIsOnTop /\ Connected
  BY DEF IndexInv, IndexTyped
<1>1. /\ moves < MaxMoves /\ moves' = moves + 1 /\ entry' = entry
      /\ (\A m \in Node : nodes[m].point # p) /\ nodes' = [nodes EXCEPT ![k].point = p]
  BY DEF Move
<1>2. nodes \in [Node -> AnyNode] /\ Node = 1..Len(nodes) /\ Len(nodes) \in Nat
  BY <1>0 DEF IndexTyped, Node
<1>3. ASSUME NEW n \in Node
      PROVE  /\ nodes'[n].level = nodes[n].level /\ nodes'[n].links = nodes[n].links
             /\ nodes'[n].point = IF n = k THEN p ELSE nodes[n].point
             /\ nodes'[n] \in AnyNode
  <2> DEFINE r == nodes[n]
  <2>1. r \in AnyNode
    BY <1>2
  <2>2. nodes'[n] = IF n = k THEN [r EXCEPT !.point = p] ELSE r
    BY <1>1, <1>2
  <2> HIDE DEF r
  <2>3. /\ [r EXCEPT !.point = p] \in AnyNode /\ [r EXCEPT !.point = p].level = r.level
        /\ [r EXCEPT !.point = p].links = r.links /\ [r EXCEPT !.point = p].point = p
    BY <2>1 DEF AnyNode
  <2> QED
    BY <2>1, <2>2, <2>3 DEF r
<1>4. DOMAIN nodes' = Node
  BY <1>1, <1>2
<1>5. nodes' \in Seq(AnyNode) /\ Len(nodes') = Len(nodes) /\ Node' = Node
  <2>1. nodes' \in [1..Len(nodes) -> AnyNode]
    <3>1. nodes' = [n \in Node |-> nodes'[n]]
      BY <1>1, <1>2
    <3> QED
      BY <1>2, <1>3, <3>1
  <2> QED
    BY <1>2, <1>4, <2>1 DEF Node
<1>6. (nodes = << >> <=> nodes' = << >>)
  BY <1>2, <1>4, <1>5
<1>7. IndexTypeOK'
  <2>1. \A n \in Node : /\ nodes[n].point \in Point /\ nodes[n].level \in 0..TopLevel
                        /\ nodes[n].links \in [0..nodes[n].level -> SUBSET (Node \ {n})]
    BY <1>0 DEF IndexTypeOK, Layer
  <2>2. \A m, n \in Node : nodes[m].point = nodes[n].point => m = n
    BY <1>0 DEF IndexTypeOK
  <2>3. \A m, n \in Node : nodes'[m].point = nodes'[n].point => m = n
    BY <1>1, <1>3, <2>2
  <2>4. \A n \in Node : /\ nodes'[n].point \in Point /\ nodes'[n].level \in 0..TopLevel
                        /\ nodes'[n].links \in [0..nodes'[n].level -> SUBSET (Node \ {n})]
    BY <1>3, <2>1
  <2>5. moves' \in 0..MaxMoves
    BY <1>0, <1>1, IndexAssumption DEF IndexTypeOK
  <2>6. Len(nodes) <= MaxNodes /\ entry \in Node \cup {0} /\ (entry = 0 <=> nodes = << >>)
    BY <1>0 DEF IndexTypeOK
  <2> QED
    BY <1>1, <1>5, <1>6, <2>3, <2>4, <2>5, <2>6 DEF IndexTypeOK, Layer
<1>8. LinksAreMutual'
  <2>1. \A n \in Node : nodes[n].links \in [0..nodes[n].level -> SUBSET (Node \ {n})]
    BY <1>0 DEF IndexTypeOK, Layer
  <2>2. \A n \in Node : \A layer \in 0..nodes[n].level : \A m \in nodes[n].links[layer] :
           m \in Node /\ layer \in 0..nodes[m].level /\ n \in nodes[m].links[layer]
    BY <1>0, <2>1 DEF LinksAreMutual, Layer
  <2>3. \A n \in Node : \A layer \in 0..nodes'[n].level : \A m \in nodes'[n].links[layer] :
           layer \in 0..nodes'[m].level /\ n \in nodes'[m].links[layer]
    BY <1>3, <2>2
  <2> QED
    BY <1>5, <2>3 DEF LinksAreMutual, Layer
<1>9. LinksAreBounded'
  BY <1>0, <1>3, <1>5 DEF LinksAreBounded, Layer
<1>10. EntryIsOnTop'
  <2>1. \A n \in Node : entry \in Node
    BY <1>0, <1>2 DEF IndexTypeOK
  <2> QED
    BY <1>0, <1>1, <1>3, <1>5, <2>1 DEF EntryIsOnTop, Top
<1>11. Connected'
  <2>1. \A n \in Node : Neighbours(n, 0)' = Neighbours(n, 0)
    BY <1>3 DEF Neighbours, Layer
  <2> QED
    BY <1>0, <1>5, <2>1 DEF Connected, ClosedOn
<1> QED
  BY <1>5, <1>7, <1>8, <1>9, <1>10, <1>11 DEF IndexInv, IndexTyped

LEMMA WholeIs ==
  ASSUME NEW K, NEW n \in Nat, NEW o \in [1..n -> K]
  PROVE  FirstFew(o, n) = o
<1>1. o \in Seq(K) /\ Len(o) = n
  OBVIOUS
<1>2. FirstFew(o, n) = SubSeq(o, 1, n)
  BY <1>1 DEF FirstFew
<1>3. \A z \in 0..n : SubSeq(o, 1, z) = [i \in 1..z |-> o[i]]
  BY <1>1
<1>4. FirstFew(o, n) = [i \in 1..n |-> o[i]]
  BY <1>2, <1>3
<1> QED
  BY <1>4

LEMMA AllAreListed ==
  ASSUME IndexTyped, NEW p \in Point, NEW S \in SUBSET Node
  PROVE  Range(FirstFew(ByDistance(p, S), Cardinality(S))) = S
<1> DEFINE n == Cardinality(S)
           o == ByDistance(p, S)
           s == FirstFew(o, n)
<1>1. n \in Nat /\ Lists(o, S, Before(p, S), n)
  BY ByDistanceIs
<1> HIDE DEF n, o
<1>2. o \in [1..n -> S] /\ \A m \in S : \E i \in 1..n : o[i] = m
  BY <1>1 DEF Lists
<1>3. s = o
  <2>1. n \in Nat /\ o \in [1..n -> S]
    BY <1>1, <1>2
  <2>2. FirstFew(o, n) = o
    BY ONLY <2>1, WholeIs
  <2> QED
    BY <2>2
<1> HIDE DEF s
<1>4. Range(s) = S
  <2>1. DOMAIN s = 1..n
    BY <1>2, <1>3
  <2> QED
    BY <1>2, <1>3, <2>1 DEF Range
<1> QED
  BY <1>4 DEF s, o, n

\* A search for all there are finds what brute force finds.
LEMMA SearchFindsAll ==
  ASSUME IndexInv, Len(nodes) <= 2 * M + 1, NEW p \in Point
  PROVE  Search(p, Len(nodes), 1) = BruteForce(p, Len(nodes))
<1> DEFINE L == Len(nodes)
           ef == IF 1 < L THEN L ELSE 1
           from == Begins(p, 0)[0]
<1>0. IndexTyped /\ IndexTypeOK /\ LinksAreMutual /\ Connected
  BY DEF IndexInv, IndexTyped
<1>1. L \in Nat /\ Cardinality(Node) = L /\ ef \in Nat \ {0} /\ ef >= L
  BY <1>0, NodesAre
<1>2. CASE entry = 0
  <2>1. L = 0 /\ Node = {}
    BY <1>0, <1>2 DEF IndexTypeOK, Node
  <2>2. ByDistance(p, Node) \in [1..0 -> {}]
    <3>1. Lists(ByDistance(p, Node), Node, Before(p, Node), L)
      BY <1>0, <1>1, ByDistanceIs
    <3> QED
      BY <2>1, <3>1 DEF Lists
  <2>3. FirstFew(ByDistance(p, Node), 0) \in [1..0 -> {}]
    BY <2>2, FirstFewIs
  <2>4. FirstFew(ByDistance(p, Node), 0) = << >>
    BY <2>3
  <2> QED
    BY <1>2, <2>1, <2>4 DEF Search, BruteForce
<1>3. CASE entry # 0
  <2>1. from \in Node
    <3>1. 0 \in 0..Top
      BY <1>0, <1>3, LayersAre
    <3> QED
      BY <1>0, <1>3, <3>1, BeginsIs, LayersAre
  <2> DEFINE found == SearchLayer(p, from, 0, ef)
  <2> HIDE DEF ef, from
  <2>2. from \in found /\ found \in SUBSET Node /\ ClosedOn(found, 0)
    BY <1>0, <1>1, <2>1, SearchIsExhaustive
  <2>3. found = Node
    BY <1>0, <2>2 DEF Connected
  <2>4. Search(p, L, 1) = FirstFew(ByDistance(p, found), L)
    BY <1>3 DEF Search, ef, from
  <2> QED
    BY <2>3, <2>4 DEF BruteForce
<1> QED
  BY <1>2, <1>3

LEMMA RetrievalFillsTheFeed ==
  ASSUME IndexInv, Len(nodes) <= 2 * M + 1, NEW p \in Point, NEW blocked \in SUBSET Node
  PROVE  Range(Retrieve(p, Len(nodes) - Cardinality(blocked), blocked)) = Node \ blocked
<1> DEFINE L == Len(nodes)
           k == L - Cardinality(blocked)
           S == Node \ blocked
<1>0. IndexTyped
  BY DEF IndexInv
<1>1. L \in Nat /\ Cardinality(Node) = L /\ IsFiniteSet(Node) /\ Cardinality(blocked) \in Nat
  BY <1>0, NodesAre
<1>2. Cardinality(S) = k /\ S \in SUBSET Node
  <2>1. Node \cap blocked = blocked
    OBVIOUS
  <2>2. Cardinality(S) = Cardinality(Node) - Cardinality(Node \cap blocked)
    BY <1>1, FS_Difference
  <2> QED
    BY <1>1, <2>1, <2>2
<1>3. Overshoot(k, blocked) = L
  BY <1>1 DEF Overshoot
<1>4. Range(Search(p, L, 1)) = Node
  <2>1. Search(p, L, 1) = BruteForce(p, L)
    BY SearchFindsAll
  <2>2. BruteForce(p, L) = FirstFew(ByDistance(p, Node), Cardinality(Node))
    BY <1>1 DEF BruteForce
  <2> HIDE DEF L
  <2> QED
    BY <1>0, <2>1, <2>2, AllAreListed
<1>5. Retrieve(p, k, blocked) = FirstFew(ByDistance(p, S), Cardinality(S))
  <2> HIDE DEF k, L
  <2> QED
    BY <1>2, <1>3, <1>4 DEF Retrieve
<1> HIDE DEF S
<1>6. Range(Retrieve(p, k, blocked)) = S
  BY <1>0, <1>2, <1>5, AllAreListed
<1> QED
  BY <1>6 DEF S

LEMMA IndexTells == IndexInv => IndexIsNavigable
<1> SUFFICES ASSUME IndexInv PROVE IndexIsNavigable
  OBVIOUS
<1>1. Query \subseteq Point
  BY IndexAssumption
<1>2. SearchForAllIsExact
  BY <1>1, SearchFindsAll DEF SearchForAllIsExact
<1>3. RetrievalSkipsTheSeen
  BY <1>1, RetrievalFillsTheFeed DEF RetrievalSkipsTheSeen
<1> QED
  BY <1>2, <1>3 DEF IndexInv, IndexTyped, IndexIsNavigable

\* The index is navigable in every state: links are on both sides and within the limits of
\* their layers, the entry is on top, and as long as a node has room for links to all others
\* a search for all finds all, nearest first, and retrieval fills the feed with what was
\* not seen (sifa/index/hnsw.py, sifa/retrieval/two_tower.py).  Then links are never
\* dropped, so that no set of nodes is closed but the whole; and a search that may keep as
\* many as there are nodes ends with a set that is closed.
THEOREM IndexAlwaysNavigable == IndexSpec => []IndexIsNavigable
<1>1. IndexInit => IndexInv
  BY IndexStarts
<1>2. IndexInv /\ [IndexNext]_indexVars => IndexInv'
  <2> SUFFICES ASSUME IndexInv, [IndexNext]_indexVars PROVE IndexInv'
    OBVIOUS
  <2>1. ASSUME NEW p \in Point, NEW level \in 0..TopLevel, Add(p, level) PROVE IndexInv'
    BY <2>1, FirstKeeps, AddKeeps
  <2>2. ASSUME NEW p \in Point, NEW n \in Node, Move(n, p) PROVE IndexInv'
    BY <2>2, MoveKeeps
  <2>3. CASE UNCHANGED indexVars
    <3>1. nodes' = nodes /\ entry' = entry /\ moves' = moves
      BY <2>3 DEF indexVars
    <3>2. Node' = Node
      BY <3>1 DEF Node
    <3>3. IndexTypeOK' /\ nodes' \in Seq(AnyNode)
      BY <3>1, <3>2 DEF IndexInv, IndexTyped, IndexTypeOK, Layer
    <3>4. LinksAreMutual' /\ LinksAreBounded' /\ EntryIsOnTop'
      BY <3>1, <3>2 DEF IndexInv, LinksAreMutual, LinksAreBounded, EntryIsOnTop, Layer, Top
    <3>5. \A n \in Node : Neighbours(n, 0)' = Neighbours(n, 0)
      BY <3>1 DEF Neighbours, Layer
    <3>6. Connected'
      BY <3>1, <3>2, <3>5 DEF IndexInv, Connected, ClosedOn
    <3> QED
      BY <3>3, <3>4, <3>6 DEF IndexInv, IndexTyped
  <2> QED
    BY <2>1, <2>2, <2>3 DEF IndexNext
<1>3. IndexInv => IndexIsNavigable
  BY IndexTells
<1> QED
  BY <1>1, <1>2, <1>3, PTL DEF IndexSpec

=============================================================================
