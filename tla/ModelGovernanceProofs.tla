--------------------------- MODULE ModelGovernanceProofs ---------------------------
(***************************************************************************)
(* Proofs about the model versions of a tenant, for any number of calls    *)
(* and versions.  What an open transaction has written is disjoint from    *)
(* what the others have, at most one of them has made a version active,    *)
(* and it has switched off every other active version; a new version is    *)
(* the successor of the stored ones and belongs to the holder of the lock. *)
(***************************************************************************)
EXTENDS ModelGovernance, Integers, FiniteSetTheorems, WellFoundedInduction, TLAPS

\* A set of naturals has a least element: what CHOOSE of a least one needs.
LEMMA LeastNatural ==
  ASSUME NEW T \in SUBSET Nat, T # {}
  PROVE  \E n \in T : \A m \in T : n <= m
<1> DEFINE R == OpToRel(<, Nat)
<1>1. IsWellFoundedOn(R, Nat)
  BY NatLessThanWellFounded
<1>2. \A m, n \in Nat : m < n => <<m, n>> \in R
  BY DEF OpToRel
<1> HIDE DEF R
<1>3. PICK n \in T : \A m \in T : ~ (<<m, n>> \in R)
  BY <1>1, WFMin
<1>4. ASSUME NEW m \in T PROVE n <= m
  <2>1. ~(<<m, n>> \in R)
    BY <1>3
  <2>2. ~(m < n)
    BY <1>2, <2>1
  <2> QED
    BY <2>2
<1> QED
  BY <1>4

-----------------------------------------------------------------------------

\* What a call remembers makes sense of the rows it has written and the table t.
MemorySense(m, rows, t, held) ==
  /\ m.pc \in {"free", "lock", "number", "insert", "ceiling", "eligible", "load"} =>
       DOMAIN rows = {}
  /\ m.pc \in {"number", "insert", "commit"} => held
  /\ held => m.pc \notin {"free", "lock", "ceiling", "eligible", "load"}
  /\ m.pc = "insert" => m.target \in Version /\ DOMAIN t = 1..(m.target - 1)
  /\ m.pc = "load" => m.label \in DOMAIN t
  /\ m.pc \in {"versions", "retire", "raise"} => Eligible(rows, m.target) \/ Eligible(t, m.target)
  /\ m.pc = "versions" => DOMAIN rows \subseteq {m.target}
  /\ m.pc = "retire" => m.todo # {} /\ m.todo \subseteq DOMAIN t \ {m.target}

\* A row keeps its gate; a new one is the next by number, under the lock; the one row a call
\* has made active is its target, and every other that is active it has switched off.
RowSense(m, rows, t, held) ==
  \A v \in DOMAIN rows :
    /\ v \in DOMAIN t => rows[v].gate = t[v].gate
    /\ v \notin DOMAIN t => held /\ DOMAIN t = 1..(v - 1)
    /\ rows[v].active =>
         /\ v = m.target /\ m.pc \in {"ledger", "commit"} /\ rows[v].gate # "BLOCK"
         /\ ActiveIn(t) \subseteq DOMAIN rows

Sense(m, rows, t, held) == MemorySense(m, rows, t, held) /\ RowSense(m, rows, t, held)

Apart ==
  \A c, d \in Call : c # d =>
    /\ DOMAIN own[c] \cap DOMAIN own[d] = {}
    /\ ActiveIn(own[c]) = {} \/ ActiveIn(own[d]) = {}

Busy == {c \in Call : call[c].pc # "free"}
Numbered == \E n \in 0..MaxCalls : DOMAIN table = 1..n /\ n + Cardinality(Busy) <= begun

OneServing == \A v, w \in ActiveIn(table) : v = w
NoneBlocked ==
  /\ \A v \in ActiveIn(table) : table[v].gate # "BLOCK"
  /\ \A s \in scores : s.model \in DOMAIN table /\ table[s.model].gate # "BLOCK"

GovInv ==
  /\ VersionsTypeOK
  /\ \A c \in Call : Sense(call[c], own[c], table, versionsLock = c)
  /\ Apart /\ Numbered /\ OneServing /\ NoneBlocked

-----------------------------------------------------------------------------
LEMMA CallFacts ==
  ASSUME GovInv, NEW c \in Call
  PROVE  /\ call \in [Call -> CallMemory] /\ call[c] \in CallMemory
         /\ IsTable(table) /\ IsTable(own[c]) /\ DOMAIN own = Call
         /\ MemorySense(call[c], own[c], table, versionsLock = c)
         /\ RowSense(call[c], own[c], table, versionsLock = c)
         /\ \A d \in Call : IsTable(own[d])
         /\ NoCall \notin Call /\ MaxCalls \in Nat
BY GovernanceAssumption DEF GovInv, VersionsTypeOK, Sense

LEMMA FreeIsAMemory ==
  /\ FreeCall \in CallMemory /\ FreeCall.pc = "free" /\ FreeCall.todo = {}
  /\ FreeCall.target = None /\ FreeCall.label = None /\ FreeCall.gate = "BLOCK"
  /\ FreeCall.seen = [v \in Version |-> "unseen"]
  /\ IsTable(NoRows) /\ DOMAIN NoRows = {} /\ ActiveIn(NoRows) = {}
BY DEF FreeCall, CallMemory, None, Gate, IsTable, NoRows, ActiveIn

LEMMA UnionOfTables ==
  ASSUME NEW f, IsTable(f), NEW g, IsTable(g)
  PROVE  /\ IsTable(Union(f, g)) /\ DOMAIN Union(f, g) = DOMAIN f \cup DOMAIN g
         /\ \A v \in DOMAIN f : Union(f, g)[v] = f[v]
         /\ \A v \in DOMAIN g \ DOMAIN f : Union(f, g)[v] = g[v]
BY DEF IsTable, Union

LEMMA OneRowIsATable ==
  ASSUME NEW v \in Version, NEW row \in Row
  PROVE  /\ IsTable([w \in {v} |-> row]) /\ DOMAIN [w \in {v} |-> row] = {v}
         /\ [w \in {v} |-> row][v] = row
BY DEF IsTable

\* The rows f once row v is written as row.
Over(v, row, f) == Union([w \in {v} |-> row], f)

Writes(r, v, row, f) ==
  /\ IsTable(r) /\ DOMAIN r = {v} \cup DOMAIN f /\ r[v] = row
  /\ \A w \in DOMAIN f \ {v} : r[w] = f[w]

LEMMA OneRowOver ==
  ASSUME NEW f, IsTable(f), NEW v \in Version, NEW row \in Row
  PROVE  Writes(Over(v, row, f), v, row, f)
<1> DEFINE one == [w \in {v} |-> row]
<1>1. /\ IsTable(one) /\ DOMAIN one = {v} /\ one[v] = row /\ Over(v, row, f) = Union(one, f)
  BY OneRowIsATable DEF Over
<1> HIDE DEF one
<1>2. /\ IsTable(Union(one, f)) /\ DOMAIN Union(one, f) = DOMAIN one \cup DOMAIN f
      /\ \A w \in DOMAIN one : Union(one, f)[w] = one[w]
      /\ \A w \in DOMAIN f \ DOMAIN one : Union(one, f)[w] = f[w]
  BY <1>1, UnionOfTables
<1> QED
  BY <1>1, <1>2 DEF Writes

\* Call c goes on with memory m and rows r; the others keep theirs.
Becomes(c, m, r) ==
  /\ m \in CallMemory /\ call' = [call EXCEPT ![c] = m]
  /\ IsTable(r) /\ DOMAIN own' = Call /\ own'[c] = r /\ \A d \in Call \ {c} : own'[d] = own[d]

\* No other call has the rows r, and only one has rows it made active.
ApartFrom(c, r) ==
  \A d \in Call \ {c} :
    /\ DOMAIN r \cap DOMAIN own[d] = {}
    /\ ActiveIn(r) = {} \/ ActiveIn(own[d]) = {}

LockTaken(c) ==
  /\ versionsLock' \in Call \cup {NoCall}
  /\ \A d \in Call \ {c} : versionsLock' = d <=> versionsLock = d

LEMMA BusyIsCounted ==
  ASSUME GovInv, NEW c \in Call, NEW m, call' = [call EXCEPT ![c] = m]
  PROVE  /\ IsFiniteSet(Busy) /\ Cardinality(Busy) \in Nat /\ Cardinality(Busy') \in Nat
         /\ m.pc = "free" /\ call[c].pc # "free" => Cardinality(Busy') = Cardinality(Busy) - 1
         /\ m.pc # "free" /\ call[c].pc # "free" => Cardinality(Busy') = Cardinality(Busy)
         /\ m.pc # "free" /\ call[c].pc = "free" => Cardinality(Busy') = Cardinality(Busy) + 1
<1>1. /\ call \in [Call -> CallMemory] /\ IsFiniteSet(Call) /\ call'[c] = m
      /\ \A d \in Call \ {c} : call'[d] = call[d]
  BY CallFacts, GovernanceAssumption
<1>2. Busy \subseteq Call /\ Busy' \subseteq Call
  BY DEF Busy
<1>3. IsFiniteSet(Busy) /\ IsFiniteSet(Busy') /\ Cardinality(Busy) \in Nat /\ Cardinality(Busy') \in Nat
  BY <1>1, <1>2, FS_Subset, FS_CardinalityType
<1>4. CASE m.pc = "free" /\ call[c].pc # "free"
  <2>1. Busy' = Busy \ {c} /\ c \in Busy
    BY <1>1, <1>4 DEF Busy
  <2> QED
    BY <1>3, <1>4, <2>1, FS_RemoveElement
<1>5. CASE m.pc # "free" /\ call[c].pc # "free"
  <2>1. Busy' = Busy
    BY <1>1, <1>5 DEF Busy
  <2> QED
    BY <1>3, <1>5, <2>1
<1>6. CASE m.pc # "free" /\ call[c].pc = "free"
  <2>1. Busy' = Busy \cup {c} /\ c \notin Busy
    BY <1>1, <1>6 DEF Busy
  <2> QED
    BY <1>3, <1>6, <2>1, FS_AddElement
<1> QED
  BY <1>3, <1>4, <1>5, <1>6

\* A step that leaves the table alone.
LEMMA QuietStep ==
  ASSUME GovInv, NEW c \in Call, NEW m, NEW r, Becomes(c, m, r), ApartFrom(c, r), LockTaken(c),
         table' = table, Sense(m, r, table, versionsLock' = c),
         scores' \subseteq [label : Version, model : Version],
         \A s \in scores' : s.model \in DOMAIN table /\ table[s.model].gate # "BLOCK",
         begun' \in 0..MaxCalls, call[c].pc # "free" \/ m.pc # "free",
         begun' = IF call[c].pc = "free" THEN begun + 1 ELSE begun
  PROVE  GovInv'
<1>1. /\ call' \in [Call -> CallMemory] /\ call'[c] = m
      /\ \A d \in Call \ {c} : call'[d] = call[d]
  BY CallFacts DEF Becomes
<1>2. VersionsTypeOK'
  <2>1. \A d \in Call : IsTable(own'[d])
    BY CallFacts DEF Becomes
  <2>2. IsTable(table')
    BY CallFacts
  <2> QED
    BY <1>1, <2>1, <2>2 DEF VersionsTypeOK, Becomes, LockTaken, IsTable, CallMemory, Version, Row, None,
       Gate
<1>3. ASSUME NEW d \in Call
      PROVE  Sense(call'[d], own'[d], table', versionsLock' = d)
  <2>1. CASE d = c
    BY <1>1, <2>1 DEF Becomes
  <2>2. CASE d # c
    <3>1. call'[d] = call[d] /\ own'[d] = own[d] /\ (versionsLock' = d <=> versionsLock = d)
      BY <1>1, <2>2 DEF Becomes, LockTaken
    <3>2. Sense(call[d], own[d], table, versionsLock = d)
      BY DEF GovInv
    <3> QED
      BY <3>1, <3>2 DEF Sense, MemorySense, RowSense
  <2> QED
    BY <2>1, <2>2
<1>4. Apart'
  <2> SUFFICES ASSUME NEW d \in Call, NEW e \in Call, d # e
               PROVE  /\ DOMAIN own'[d] \cap DOMAIN own'[e] = {}
                      /\ ActiveIn(own'[d]) = {} \/ ActiveIn(own'[e]) = {}
    BY DEF Apart, ActiveIn
  <2>1. own'[c] = r /\ \A x \in Call \ {c} : own'[x] = own[x]
    BY DEF Becomes
  <2>2. CASE d = c
    BY <2>1, <2>2 DEF ApartFrom
  <2>3. CASE e = c
    BY <2>1, <2>3 DEF ApartFrom
  <2>4. CASE d # c /\ e # c
    BY <2>1, <2>4 DEF GovInv, Apart
  <2> QED
    BY <2>2, <2>3, <2>4
<1>5. Numbered'
  <2>1. PICK n \in 0..MaxCalls : DOMAIN table = 1..n /\ n + Cardinality(Busy) <= begun
    BY DEF GovInv, Numbered
  <2>2. call' = [call EXCEPT ![c] = m]
    BY DEF Becomes
  <2>3. /\ Cardinality(Busy) \in Nat /\ Cardinality(Busy') \in Nat
        /\ m.pc = "free" /\ call[c].pc # "free" => Cardinality(Busy') = Cardinality(Busy) - 1
        /\ m.pc # "free" /\ call[c].pc # "free" => Cardinality(Busy') = Cardinality(Busy)
        /\ m.pc # "free" /\ call[c].pc = "free" => Cardinality(Busy') = Cardinality(Busy) + 1
    BY <2>2, BusyIsCounted
  <2>4. begun \in 0..MaxCalls /\ MaxCalls \in Nat
    BY CallFacts DEF GovInv, VersionsTypeOK
  <2>5. n + Cardinality(Busy') <= begun'
    BY <2>1, <2>3, <2>4
  <2> QED
    BY <2>1, <2>5 DEF Numbered
<1>6. OneServing' /\ NoneBlocked'
  BY DEF GovInv, OneServing, NoneBlocked, ActiveIn
<1> QED
  BY <1>2, <1>3, <1>4, <1>5, <1>6 DEF GovInv, Sense, MemorySense, RowSense


\* A begun call: nothing is its own yet.
LEMMA BeginKeeps ==
  ASSUME GovInv, NEW c \in Call, NEW m \in CallMemory, BeginAs(c, m),
         m.pc \in {"lock", "ceiling", "load", "versions"},
         m.pc = "load" => m.label \in DOMAIN table,
         m.pc = "versions" => Eligible(table, m.target)
  PROVE  GovInv'
<1>1. /\ call[c].pc = "free" /\ begun < MaxCalls /\ begun' = begun + 1
      /\ call' = [call EXCEPT ![c] = m] /\ UNCHANGED <<table, own, versionsLock, scores>>
  BY DEF BeginAs
<1>2. DOMAIN own[c] = {} /\ versionsLock # c
  BY <1>1, CallFacts DEF MemorySense
<1>3. Becomes(c, m, own[c]) /\ LockTaken(c)
  BY <1>1, CallFacts DEF Becomes, LockTaken, GovInv, VersionsTypeOK
<1>4. ApartFrom(c, own[c])
  BY <1>2 DEF ApartFrom, ActiveIn
<1>5. Sense(m, own[c], table, versionsLock' = c)
  BY <1>1, <1>2 DEF Sense, MemorySense, RowSense
<1>6. begun' \in 0..MaxCalls
  BY <1>1, CallFacts DEF GovInv, VersionsTypeOK
<1>7. /\ scores' \subseteq [label : Version, model : Version]
      /\ \A s \in scores' : s.model \in DOMAIN table /\ table[s.model].gate # "BLOCK"
  BY <1>1 DEF GovInv, VersionsTypeOK, NoneBlocked
<1> QED
  BY <1>1, <1>3, <1>4, <1>5, <1>6, <1>7, QuietStep

LEMMA ActiveOfTable ==
  ASSUME GovInv
  PROVE  /\ ActiveOf(table) = None <=> ActiveIn(table) = {}
         /\ ActiveIn(table) # {} => ActiveOf(table) \in ActiveIn(table)
         /\ ActiveIn(table) \subseteq DOMAIN table /\ DOMAIN table \subseteq Version
         /\ ActiveOf(table) \in Version \cup {None}
<1>1. ActiveIn(table) \subseteq DOMAIN table /\ DOMAIN table \subseteq Version
  BY DEF ActiveIn, GovInv, VersionsTypeOK, IsTable
<1>2. None \notin Version
  BY GovernanceAssumption DEF None, Version
<1> QED
  BY <1>1, <1>2 DEF ActiveOf

LEMMA BeginAnyKeeps ==
  ASSUME GovInv, NEW c \in Call, Begin(c)
  PROVE  GovInv'
<1> DEFINE seen == [v \in Version |-> IF v = ActiveOf(table) THEN "active" ELSE "unseen"]
<1>1. seen \in [Version -> {"unseen", "active", "inactive"}]
  OBVIOUS
<1>2. ASSUME NEW gate \in Gate, BeginTraining(c, gate)
      PROVE  GovInv'
  <2> DEFINE m == [FreeCall EXCEPT !.pc = "lock", !.gate = gate, !.seen = seen]
  <2>1. m \in CallMemory /\ m.pc = "lock"
    BY <1>1, FreeIsAMemory DEF CallMemory
  <2>2. BeginAs(c, m)
    BY <1>2 DEF BeginTraining
  <2> HIDE DEF m
  <2> QED
    BY <2>1, <2>2, BeginKeeps
<1>3. ASSUME NEW v \in Version, BeginActivation(c, v)
      PROVE  GovInv'
  <2> DEFINE m == [FreeCall EXCEPT !.pc = "versions", !.target = v,
                                   !.seen[v] = Flag(table[v].active)]
  <2>1. Flag(table[v].active) \in {"unseen", "active", "inactive"}
    BY DEF Flag
  <2>2. m \in CallMemory /\ m.pc = "versions" /\ m.target = v
    BY <1>3, <2>1, FreeIsAMemory DEF CallMemory
  <2>3. BeginAs(c, m) /\ Eligible(table, v)
    BY <1>3 DEF BeginActivation
  <2> HIDE DEF m
  <2> QED
    BY <2>2, <2>3, BeginKeeps
<1>4. CASE BeginRollback(c)
  <2> DEFINE m == [FreeCall EXCEPT !.pc = "ceiling", !.seen = seen]
  <2>1. m \in CallMemory /\ m.pc = "ceiling"
    BY <1>1, FreeIsAMemory DEF CallMemory
  <2>2. BeginAs(c, m)
    BY <1>4 DEF BeginRollback
  <2> HIDE DEF m
  <2> QED
    BY <2>1, <2>2, BeginKeeps
<1>5. CASE BeginScoring(c)
  <2> DEFINE m == [FreeCall EXCEPT !.pc = "load", !.label = ActiveOf(table)]
  <2>1. ActiveOf(table) \in DOMAIN table /\ ActiveOf(table) \in Version
    BY <1>5, ActiveOfTable DEF BeginScoring
  <2>2. m \in CallMemory /\ m.pc = "load" /\ m.label = ActiveOf(table)
    BY <2>1, FreeIsAMemory DEF CallMemory
  <2>3. BeginAs(c, m)
    BY <1>5 DEF BeginScoring
  <2> HIDE DEF m
  <2> QED
    BY <2>1, <2>2, <2>3, BeginKeeps
<1> QED
  BY <1>2, <1>3, <1>4, <1>5 DEF Begin

-----------------------------------------------------------------------------
\* A statement that writes nothing.
LEMMA ReadKeeps ==
  ASSUME GovInv, NEW c \in Call, NEW m \in CallMemory, call[c].pc # "free", Continue(c, m),
         LockTaken(c), MemorySense(m, own[c], table, versionsLock' = c),
         call[c].pc \notin {"ledger", "commit"} \/ m.pc \in {"ledger", "commit"},
         versionsLock = c => versionsLock' = c, 
         m.target = call[c].target \/ ActiveIn(own[c]) = {}
  PROVE  GovInv'
<1>1. /\ call' = [call EXCEPT ![c] = m] /\ UNCHANGED <<table, own, scores, begun>>
  BY DEF Continue
<1>2. Becomes(c, m, own[c])
  BY <1>1, CallFacts DEF Becomes
<1>3. ApartFrom(c, own[c])
  BY DEF GovInv, Apart, ApartFrom
<1>4. RowSense(m, own[c], table, versionsLock' = c)
  BY CallFacts DEF RowSense, ActiveIn
<1>5. /\ scores' \subseteq [label : Version, model : Version] /\ begun' \in 0..MaxCalls
      /\ \A s \in scores' : s.model \in DOMAIN table /\ table[s.model].gate # "BLOCK"
  BY <1>1 DEF GovInv, VersionsTypeOK, NoneBlocked
<1> QED
  BY <1>1, <1>2, <1>3, <1>4, <1>5, QuietStep DEF Sense

LEMMA LockKeeps ==
  ASSUME GovInv, NEW c \in Call, LockTenant(c)
  PROVE  GovInv'
<1> DEFINE m == [call[c] EXCEPT !.pc = "number"]
<1>1. /\ call[c].pc = "lock" /\ Continue(c, m) /\ versionsLock' = c /\ WaitsFor(c) = {}
  BY DEF LockTenant, Continue
<1>2. m \in CallMemory /\ m.pc = "number" /\ m.target = call[c].target /\ m.todo = call[c].todo
  <2>1. call[c] \in CallMemory
    BY CallFacts
  <2> QED
    BY <2>1 DEF CallMemory
<1>3. versionsLock \in {c, NoCall}
  BY <1>1 DEF WaitsFor
<1>4. LockTaken(c)
  BY <1>1, <1>3, CallFacts DEF LockTaken
<1>5. MemorySense(m, own[c], table, versionsLock' = c)
  BY <1>1, <1>2, CallFacts DEF MemorySense
<1> HIDE DEF m
<1> QED
  BY <1>1, <1>2, <1>4, <1>5, ReadKeeps

LEMMA AppendKeeps ==
  ASSUME GovInv, NEW c \in Call, AppendLedger(c)
  PROVE  GovInv'
<1> DEFINE m == [call[c] EXCEPT !.pc = "commit"]
<1>1. /\ call[c].pc = "ledger" /\ Continue(c, m) /\ versionsLock' = c /\ WaitsFor(c) = {}
  BY DEF AppendLedger, Continue
<1>2. m \in CallMemory /\ m.pc = "commit" /\ m.target = call[c].target /\ m.todo = call[c].todo
  BY CallFacts DEF CallMemory
<1>3. versionsLock \in {c, NoCall}
  BY <1>1 DEF WaitsFor
<1>4. LockTaken(c)
  BY <1>1, <1>3, CallFacts DEF LockTaken
<1>5. MemorySense(m, own[c], table, versionsLock' = c)
  BY <1>1, <1>2, CallFacts DEF MemorySense
<1> HIDE DEF m
<1> QED
  BY <1>1, <1>2, <1>4, <1>5, ReadKeeps


LEMMA MaxOfVersions ==
  ASSUME GovInv, NEW S \in SUBSET DOMAIN table, S # {}
  PROVE  Max(S) \in S /\ \A v \in S : v <= Max(S)
<1>1. PICK n \in 0..MaxCalls : DOMAIN table = 1..n
  BY DEF GovInv, Numbered
<1>2. n \in Nat /\ \A v \in S : v \in 1..n
  BY <1>1, GovernanceAssumption
<1> DEFINE T == {n - v : v \in S}
<1>3. T \in SUBSET Nat /\ T # {}
  BY <1>2
<1>4. PICK least \in T : \A t \in T : least <= t
  BY <1>3, LeastNatural
<1>5. PICK top \in S : least = n - top
  BY <1>4
<1>6. ASSUME NEW v \in S PROVE top >= v
  <2>1. n - v \in T /\ n - top <= n - v
    BY <1>4, <1>5
  <2> QED
    BY <1>2, <2>1
<1>7. Max(S) \in S /\ \A v \in S : Max(S) >= v
  BY <1>5, <1>6 DEF Max
<1> QED
  BY <1>2, <1>7

LEMMA NumberKeeps ==
  ASSUME GovInv, NEW c \in Call, TakeNumber(c)
  PROVE  GovInv'
<1> DEFINE next == Max({None} \cup DOMAIN Visible(c)) + 1
           m == [call[c] EXCEPT !.pc = "insert", !.target = next]
<1>1. /\ call[c].pc = "number" /\ Continue(c, m) /\ versionsLock' = versionsLock
  BY DEF TakeNumber, Continue
<1>2. versionsLock = c /\ DOMAIN own[c] = {}
  BY <1>1, CallFacts DEF MemorySense
<1>3. PICK n \in 0..MaxCalls : DOMAIN table = 1..n /\ n + Cardinality(Busy) <= begun
  BY DEF GovInv, Numbered
<1>4. n \in Nat /\ MaxCalls \in Nat /\ begun \in 0..MaxCalls /\ n \in 0..MaxCalls
  BY <1>3, GovernanceAssumption DEF GovInv, VersionsTypeOK
<1>5. Cardinality(Busy) \in Nat /\ Cardinality(Busy) # 0
  <2>1. c \in Busy /\ Busy \subseteq Call /\ IsFiniteSet(Call)
    BY <1>1, GovernanceAssumption DEF Busy
  <2> QED
    BY <2>1, FS_Subset, FS_CardinalityType, FS_EmptySet
<1>6. next = n + 1
  <2>1. {None} \cup DOMAIN Visible(c) = 0..n
    <3>1. DOMAIN Visible(c) = DOMAIN own[c] \cup DOMAIN table
      BY CallFacts, UnionOfTables DEF Visible
    <3>2. DOMAIN Visible(c) = 1..n
      BY <1>2, <1>3, <3>1
    <3>3. {0} \cup 1..n = 0..n
      BY <1>4
    <3> QED
      BY <3>2, <3>3 DEF None
  <2>2. Max(0..n) \in 0..n /\ \A v \in 0..n : Max(0..n) >= v
    <3>1. n \in 0..n /\ \A v \in 0..n : n >= v
      BY <1>4
    <3> QED
      BY <3>1 DEF Max
  <2>3. Max(0..n) = n
    BY <1>4, <2>2
  <2> QED
    BY <2>1, <2>3
<1>7. n + 1 \in Version
  BY <1>3, <1>4, <1>5 DEF Version
<1> HIDE DEF next
<1>8. m \in CallMemory /\ m.pc = "insert" /\ m.target = n + 1
  <2>1. next \in Version \cup {None} /\ call[c] \in CallMemory
    BY <1>6, <1>7, CallFacts
  <2> QED
    BY <1>6, <2>1 DEF CallMemory
<1>9. 1..n = 1..(m.target - 1)
  BY <1>4, <1>8
<1>10. LockTaken(c)
  BY <1>1, CallFacts DEF LockTaken, GovInv, VersionsTypeOK
<1> HIDE DEF m
<1>11. MemorySense(m, own[c], table, versionsLock' = c)
  BY <1>1, <1>2, <1>3, <1>7, <1>8, <1>9 DEF MemorySense
<1>12. ActiveIn(own[c]) = {}
  BY <1>2 DEF ActiveIn
<1> QED
  BY <1>1, <1>8, <1>10, <1>11, <1>12, ReadKeeps

LEMMA CeilingKeeps ==
  ASSUME GovInv, NEW c \in Call, ReadCeiling(c)
  PROVE  GovInv'
<1> DEFINE label == ActiveOf(table)
           m == [call[c] EXCEPT !.pc = "eligible", !.label = label]
<1>1. /\ call[c].pc = "ceiling" /\ Continue(c, m) /\ versionsLock' = versionsLock
  BY DEF ReadCeiling, Continue
<1>2. label \in Version \cup {None} /\ call[c] \in CallMemory
  BY CallFacts, ActiveOfTable
<1> HIDE DEF label
<1>3. m \in CallMemory /\ m.pc = "eligible" /\ m.target = call[c].target
  BY <1>2 DEF CallMemory
<1>4. MemorySense(m, own[c], table, versionsLock' = c)
  BY <1>1, <1>3, CallFacts DEF MemorySense
<1>5. LockTaken(c)
  BY <1>1, CallFacts DEF LockTaken, GovInv, VersionsTypeOK
<1> HIDE DEF m
<1> QED
  BY <1>1, <1>3, <1>4, <1>5, ReadKeeps

LEMMA PickKeeps ==
  ASSUME GovInv, NEW c \in Call, PickEligible(c)
  PROVE  GovInv'
<1> DEFINE below == { v \in DOMAIN table :
                        /\ call[c].label # None => v < call[c].label
                        /\ Eligible(table, v) /\ v \notin Unverifiable }
           m == [call[c] EXCEPT !.pc = "versions", !.target = Max(below),
                                !.seen[Max(below)] = Takes(c, Max(below))]
<1>1. /\ call[c].pc = "eligible" /\ Continue(c, m) /\ versionsLock' = versionsLock
      /\ below # {} /\ below \subseteq DOMAIN table /\ \A v \in below : Eligible(table, v)
  BY DEF PickEligible, Continue
<1>2. Max(below) \in below /\ Max(below) \in Version
  BY <1>1, MaxOfVersions, ActiveOfTable
<1> HIDE DEF below
<1>3. Takes(c, Max(below)) \in {"unseen", "active", "inactive"}
  BY <1>2, CallFacts DEF Takes, Flag, CallMemory
<1>4. m \in CallMemory /\ m.pc = "versions" /\ m.target = Max(below)
  <2> DEFINE top == Max(below)
             takes == Takes(c, top)
  <2>1. top \in Version /\ takes \in {"unseen", "active", "inactive"} /\ call[c] \in CallMemory
    BY <1>2, <1>3, CallFacts
  <2> HIDE DEF top, takes
  <2>2. [call[c] EXCEPT !.pc = "versions", !.target = top, !.seen[top] = takes] \in CallMemory
    BY <2>1 DEF CallMemory
  <2>3. /\ [call[c] EXCEPT !.pc = "versions", !.target = top, !.seen[top] = takes].pc = "versions"
        /\ [call[c] EXCEPT !.pc = "versions", !.target = top, !.seen[top] = takes].target = top
    BY <2>1 DEF CallMemory
  <2> QED
    BY <2>2, <2>3 DEF top, takes
<1>5. DOMAIN own[c] = {} /\ versionsLock # c
  BY <1>1, CallFacts DEF MemorySense
<1>6. LockTaken(c) /\ ActiveIn(own[c]) = {}
  BY <1>1, <1>5, CallFacts DEF LockTaken, GovInv, VersionsTypeOK, ActiveIn
<1> HIDE DEF m
<1>7. MemorySense(m, own[c], table, versionsLock' = c)
  BY <1>1, <1>2, <1>4, <1>5 DEF MemorySense
<1> QED
  BY <1>1, <1>4, <1>6, <1>7, ReadKeeps

LEMMA VersionsReadKeep ==
  ASSUME GovInv, NEW c \in Call, ReadVersions(c)
  PROVE  GovInv'
<1> DEFINE others == {v \in DOMAIN Visible(c) \ {call[c].target} : Takes(c, v) = "active"}
           m == [call[c] EXCEPT !.todo = others, !.pc = IF others = {} THEN "raise" ELSE "retire"]
<1>1. /\ call[c].pc = "versions" /\ Continue(c, m) /\ versionsLock' = versionsLock
  BY DEF ReadVersions, Continue
<1>2. DOMAIN own[c] \subseteq {call[c].target}
  BY <1>1, CallFacts DEF MemorySense
<1>3. others \subseteq DOMAIN table \ {call[c].target}
  <2>1. DOMAIN Visible(c) = DOMAIN own[c] \cup DOMAIN table
    BY CallFacts, UnionOfTables DEF Visible
  <2> QED
    BY <1>2, <2>1
<1> HIDE DEF others
<1>4. others \subseteq Version
  BY <1>3, ActiveOfTable
<1>5. m \in CallMemory /\ m.pc = (IF others = {} THEN "raise" ELSE "retire")
      /\ m.target = call[c].target /\ m.todo = others
  <2> DEFINE pc == IF others = {} THEN "raise" ELSE "retire"
  <2>1. pc \in {"raise", "retire"} /\ others \in SUBSET Version /\ call[c] \in CallMemory
    BY <1>4, CallFacts
  <2> HIDE DEF pc
  <2>2. /\ [call[c] EXCEPT !.todo = others, !.pc = pc] \in CallMemory
        /\ [call[c] EXCEPT !.todo = others, !.pc = pc].pc = pc
        /\ [call[c] EXCEPT !.todo = others, !.pc = pc].target = call[c].target
        /\ [call[c] EXCEPT !.todo = others, !.pc = pc].todo = others
    BY <2>1 DEF CallMemory
  <2> QED
    BY <2>2 DEF pc
<1>6. LockTaken(c)
  BY <1>1, CallFacts DEF LockTaken, GovInv, VersionsTypeOK
<1> HIDE DEF m
<1>7. MemorySense(m, own[c], table, versionsLock' = c)
  BY <1>1, <1>3, <1>5, CallFacts DEF MemorySense
<1> QED
  BY <1>1, <1>5, <1>6, <1>7, ReadKeeps


-----------------------------------------------------------------------------
\* A statement that writes row v: nobody else has it, and it is made active only as the
\* target of a call that no other active row is left to.
WritesRow(c, m, v, row) ==
  /\ m \in CallMemory /\ v \in Version /\ row \in Row
  /\ call[c].pc # "free" /\ Owners(c, v) = {} /\ ActiveIn(own[c]) = {}
  /\ call' = [call EXCEPT ![c] = m]
  /\ own' = [own EXCEPT ![c] = Over(v, row, own[c])]
  /\ UNCHANGED <<table, versionsLock, scores, begun>>
  /\ MemorySense(m, Over(v, row, own[c]), table, versionsLock = c)
  /\ v \in DOMAIN table => row.gate = table[v].gate
  /\ v \notin DOMAIN table => versionsLock = c /\ DOMAIN table = 1..(v - 1)
  /\ row.active =>
       /\ v = m.target /\ m.pc = "ledger" /\ row.gate # "BLOCK"
       /\ ActiveIn(table) \subseteq DOMAIN own[c] \cup {v}
       /\ \A d \in Call \ {c} : ActiveIn(own[d]) = {}

LEMMA WriteKeeps ==
  ASSUME GovInv, NEW c \in Call, NEW m, NEW v, NEW row, WritesRow(c, m, v, row)
  PROVE  GovInv'
<1>1. /\ m \in CallMemory /\ v \in Version /\ row \in Row
      /\ call[c].pc # "free" /\ Owners(c, v) = {} /\ ActiveIn(own[c]) = {}
      /\ call' = [call EXCEPT ![c] = m]
      /\ own' = [own EXCEPT ![c] = Over(v, row, own[c])]
      /\ UNCHANGED <<table, versionsLock, scores, begun>>
      /\ MemorySense(m, Over(v, row, own[c]), table, versionsLock = c)
      /\ v \in DOMAIN table => row.gate = table[v].gate
      /\ v \notin DOMAIN table => versionsLock = c /\ DOMAIN table = 1..(v - 1)
      /\ row.active =>
           /\ v = m.target /\ m.pc = "ledger" /\ row.gate # "BLOCK"
           /\ ActiveIn(table) \subseteq DOMAIN own[c] \cup {v}
           /\ \A d \in Call \ {c} : ActiveIn(own[d]) = {}
  BY DEF WritesRow
<1> DEFINE r == Over(v, row, own[c])
<1>2. IsTable(own[c])
  BY CallFacts
<1>3. /\ IsTable(r) /\ DOMAIN r = {v} \cup DOMAIN own[c] /\ r[v] = row
      /\ \A w \in DOMAIN own[c] \ {v} : r[w] = own[c][w]
  <2>1. Writes(r, v, row, own[c])
    BY <1>1, <1>2, OneRowOver
  <2> QED
    BY <2>1 DEF Writes
<1>4. own' = [own EXCEPT ![c] = r] /\ MemorySense(m, r, table, versionsLock = c)
  BY <1>1
<1> HIDE DEF r
<1>5. Becomes(c, m, r)
  BY <1>1, <1>3, <1>4, CallFacts DEF Becomes
<1>6. LockTaken(c)
  BY <1>1, CallFacts DEF LockTaken, GovInv, VersionsTypeOK
<1>7. ActiveIn(r) = IF row.active THEN {v} ELSE {}
  <2>1. \A w \in DOMAIN own[c] : ~own[c][w].active
    BY <1>1 DEF ActiveIn
  <2> QED
    BY <1>3, <2>1 DEF ActiveIn
<1>8. ApartFrom(c, r)
  <2> SUFFICES ASSUME NEW d \in Call \ {c}
               PROVE  /\ DOMAIN r \cap DOMAIN own[d] = {}
                      /\ ActiveIn(r) = {} \/ ActiveIn(own[d]) = {}
    BY DEF ApartFrom
  <2>1. DOMAIN own[c] \cap DOMAIN own[d] = {}
    BY DEF GovInv, Apart
  <2>2. v \notin DOMAIN own[d]
    BY <1>1 DEF Owners
  <2> QED
    BY <1>1, <1>3, <1>7, <2>1, <2>2
<1>9. RowSense(m, r, table, versionsLock' = c)
  <2> SUFFICES ASSUME NEW w \in DOMAIN r
               PROVE  /\ w \in DOMAIN table => r[w].gate = table[w].gate
                      /\ w \notin DOMAIN table => versionsLock = c /\ DOMAIN table = 1..(w - 1)
                      /\ r[w].active =>
                           /\ w = m.target /\ m.pc \in {"ledger", "commit"} /\ r[w].gate # "BLOCK"
                           /\ ActiveIn(table) \subseteq DOMAIN r
    BY <1>1 DEF RowSense
  <2>1. CASE w = v
    BY <1>1, <1>3, <2>1
  <2>2. CASE w # v
    <3>1. w \in DOMAIN own[c] /\ r[w] = own[c][w] /\ ~own[c][w].active
      BY <1>1, <1>3, <2>2 DEF ActiveIn
    <3> QED
      BY <3>1, CallFacts DEF RowSense
  <2> QED
    BY <2>1, <2>2
<1>10. /\ scores' \subseteq [label : Version, model : Version] /\ begun' \in 0..MaxCalls
       /\ \A s \in scores' : s.model \in DOMAIN table /\ table[s.model].gate # "BLOCK"
  BY <1>1 DEF GovInv, VersionsTypeOK, NoneBlocked
<1> QED
  BY <1>1, <1>4, <1>5, <1>6, <1>8, <1>9, <1>10, QuietStep DEF Sense

LEMMA NothingActive ==
  ASSUME GovInv, NEW c \in Call, call[c].pc \notin {"ledger", "commit"}
  PROVE  ActiveIn(own[c]) = {}
BY CallFacts DEF RowSense, ActiveIn

LEMMA InsertKeeps ==
  ASSUME GovInv, NEW c \in Call, InsertVersion(c)
  PROVE  GovInv'
<1> DEFINE v == call[c].target
           gate == call[c].gate
           pc == IF gate = "BLOCK" THEN "ledger" ELSE "versions"
           m == [call[c] EXCEPT !.seen[v] = "inactive", !.pc = pc]
           row == [gate |-> gate, active |-> FALSE]
           r == Over(v, row, own[c])
<1>1. /\ call[c].pc = "insert" /\ WaitsFor(c) = {} /\ v \notin DOMAIN table
      /\ own' = [own EXCEPT ![c] = Over(v, row, own[c])]
      /\ call' = [call EXCEPT ![c].seen[v] = "inactive", ![c].pc = pc]
      /\ UNCHANGED <<table, versionsLock, scores, begun>>
  BY DEF InsertVersion, Over
<1>2. call[c] \in CallMemory /\ call \in [Call -> CallMemory]
  BY CallFacts
<1>3. /\ DOMAIN own[c] = {} /\ versionsLock = c /\ v \in Version /\ DOMAIN table = 1..(v - 1)
  BY <1>1, CallFacts DEF MemorySense
<1>4. gate \in Gate /\ pc \in {"ledger", "versions"} /\ row \in Row /\ ~row.active /\ row.gate = gate
  BY <1>2 DEF CallMemory, Row
<1>5. call' = [call EXCEPT ![c] = m]
  BY <1>1, <1>2
<1> HIDE DEF pc, row
<1>6. m \in CallMemory /\ m.pc = pc /\ m.target = v /\ m.todo = call[c].todo
  BY <1>2, <1>3, <1>4 DEF CallMemory
<1> HIDE DEF m, v, gate
<1>7. Owners(c, v) = {} /\ ActiveIn(own[c]) = {}
  BY <1>1, <1>3 DEF WaitsFor, ActiveIn, v
<1>8. DOMAIN r = {v} /\ r[v] = row
  <2>1. Writes(r, v, row, own[c])
    BY <1>3, <1>4, OneRowOver, CallFacts
  <2> QED
    BY <1>3, <2>1 DEF Writes
<1> HIDE DEF r
<1>9. MemorySense(m, r, table, versionsLock = c)
  BY <1>3, <1>4, <1>6, <1>8 DEF MemorySense, Eligible, pc
<1>10. MemorySense(m, Over(v, row, own[c]), table, versionsLock = c)
  BY <1>9 DEF r
<1>11. WritesRow(c, m, v, row)
  BY <1>1, <1>3, <1>4, <1>5, <1>6, <1>7, <1>10 DEF WritesRow
<1> QED
  BY <1>11, WriteKeeps

LEMMA VisibleRows ==
  ASSUME GovInv, NEW c \in Call
  PROVE  /\ IsTable(Visible(c)) /\ DOMAIN Visible(c) = DOMAIN own[c] \cup DOMAIN table
         /\ \A v \in DOMAIN own[c] : Visible(c)[v] = own[c][v]
         /\ \A v \in DOMAIN table \ DOMAIN own[c] : Visible(c)[v] = table[v]
<1> DEFINE f == own[c]
<1>1. IsTable(f) /\ IsTable(table) /\ Visible(c) = Union(f, table)
  BY CallFacts DEF Visible
<1> HIDE DEF f
<1>2. /\ IsTable(Union(f, table)) /\ DOMAIN Union(f, table) = DOMAIN f \cup DOMAIN table
      /\ \A v \in DOMAIN f : Union(f, table)[v] = f[v]
      /\ \A v \in DOMAIN table \ DOMAIN f : Union(f, table)[v] = table[v]
  BY <1>1, UnionOfTables
<1> QED
  BY <1>1, <1>2 DEF f

LEMMA RowsAreTyped ==
  ASSUME GovInv, NEW c \in Call, NEW v \in DOMAIN own[c] \cup DOMAIN table
  PROVE  /\ v \in Version /\ Visible(c)[v] \in Row
         /\ v \in DOMAIN table => Visible(c)[v].gate = table[v].gate
         /\ v \in DOMAIN own[c] => Visible(c)[v] = own[c][v]
         /\ v \notin DOMAIN own[c] => Visible(c)[v] = table[v]
         /\ v \notin DOMAIN table => versionsLock = c /\ DOMAIN table = 1..(v - 1)
<1>1. IsTable(own[c]) /\ IsTable(table) /\ RowSense(call[c], own[c], table, versionsLock = c)
  BY CallFacts
<1>2. /\ \A w \in DOMAIN own[c] : Visible(c)[w] = own[c][w]
      /\ \A w \in DOMAIN table \ DOMAIN own[c] : Visible(c)[w] = table[w]
  BY VisibleRows
<1>3. CASE v \in DOMAIN own[c]
  <2>1. v \in Version /\ own[c][v] \in Row
    BY <1>1, <1>3 DEF IsTable
  <2> QED
    BY <1>1, <1>2, <1>3, <2>1 DEF RowSense
<1>4. CASE v \notin DOMAIN own[c]
  <2>1. v \in Version /\ table[v] \in Row
    BY <1>1, <1>4 DEF IsTable
  <2> QED
    BY <1>2, <1>4, <2>1
<1> QED
  BY <1>3, <1>4

LEMMA RetireKeeps ==
  ASSUME GovInv, NEW c \in Call, Retire(c)
  PROVE  GovInv'
<1> DEFINE v == Min(call[c].todo)
           left == call[c].todo \ {v}
           pc == IF left = {} THEN "raise" ELSE "retire"
           row == [Visible(c)[v] EXCEPT !.active = FALSE]
           m == [call[c] EXCEPT !.todo = left, !.pc = pc]
           r == Over(v, row, own[c])
<1>1. /\ call[c].pc = "retire" /\ WaitsFor(c) = {}
      /\ own' = [own EXCEPT ![c] = r]
      /\ call' = [call EXCEPT ![c].todo = left, ![c].pc = pc]
      /\ UNCHANGED <<table, versionsLock, scores, begun>>
  BY DEF Retire, Over
<1>2. call[c] \in CallMemory /\ call \in [Call -> CallMemory]
  BY CallFacts
<1>3. /\ call[c].todo # {} /\ call[c].todo \subseteq DOMAIN table \ {call[c].target}
      /\ Eligible(own[c], call[c].target) \/ Eligible(table, call[c].target)
      /\ versionsLock = c \/ versionsLock # c
  BY <1>1, CallFacts DEF MemorySense
<1>4. v \in call[c].todo
  <2>1. call[c].todo \in SUBSET Nat
    BY <1>2 DEF CallMemory, Version
  <2>2. \E i \in call[c].todo : \A j \in call[c].todo : i <= j
    BY <1>3, <2>1, LeastNatural
  <2> QED
    BY <2>2 DEF Min
<1>5. call' = [call EXCEPT ![c] = m]
  BY <1>1, <1>2
<1>6. Owners(c, v) = {} /\ ActiveIn(own[c]) = {}
  BY <1>1, NothingActive DEF WaitsFor
<1> HIDE DEF v
<1>7. v \in Version /\ v \in DOMAIN table /\ v # call[c].target
  BY <1>3, <1>4, ActiveOfTable
<1>8. row \in Row /\ ~row.active /\ row.gate = table[v].gate
  <2>1. Visible(c)[v] \in Row /\ Visible(c)[v].gate = table[v].gate
    BY <1>7, RowsAreTyped
  <2> QED
    BY <2>1 DEF Row
<1> HIDE DEF row
<1>9. left \in SUBSET Version /\ left \subseteq DOMAIN table \ {call[c].target}
      /\ pc \in {"raise", "retire"} /\ (pc = "retire" => left # {})
  BY <1>2, <1>3 DEF CallMemory
<1> HIDE DEF left, pc
<1>10. m \in CallMemory /\ m.pc = pc /\ m.target = call[c].target /\ m.todo = left
  BY <1>2, <1>9 DEF CallMemory
<1> HIDE DEF m
<1>11. /\ DOMAIN r = {v} \cup DOMAIN own[c]
       /\ \A w \in DOMAIN own[c] \ {v} : r[w] = own[c][w]
  <2>1. Writes(r, v, row, own[c])
    BY <1>7, <1>8, OneRowOver, CallFacts
  <2> QED
    BY <2>1 DEF Writes
<1> HIDE DEF r
<1>12. Eligible(r, m.target) \/ Eligible(table, m.target)
  BY <1>3, <1>7, <1>10, <1>11 DEF Eligible
<1>13. MemorySense(m, r, table, versionsLock = c)
  BY <1>1, <1>9, <1>10, <1>12, CallFacts DEF MemorySense
<1>14. MemorySense(m, Over(v, row, own[c]), table, versionsLock = c)
  BY <1>13 DEF r
<1>15. own' = [own EXCEPT ![c] = Over(v, row, own[c])]
  BY <1>1 DEF r
<1>16. WritesRow(c, m, v, row)
  BY <1>1, <1>5, <1>6, <1>7, <1>8, <1>10, <1>14, <1>15 DEF WritesRow
<1> QED
  BY <1>16, WriteKeeps


\* A call in activate() may serve its target; before it raises it, it has made none active.
LEMMA TargetMayServe ==
  ASSUME GovInv, NEW c \in Call, call[c].pc = "raise"
  PROVE  /\ call[c].target \in DOMAIN own[c] \cup DOMAIN table
         /\ Visible(c)[call[c].target].gate # "BLOCK"
<1>1. \/ Eligible(own[c], call[c].target)
      \/ Eligible(table, call[c].target)
  BY CallFacts DEF MemorySense
<1>2. call[c].target \in DOMAIN own[c] \cup DOMAIN table
  BY <1>1 DEF Eligible
<1>3. CASE Eligible(own[c], call[c].target)
  BY <1>2, <1>3, RowsAreTyped DEF Eligible
<1>4. CASE Eligible(table, call[c].target)
  BY <1>2, <1>4, RowsAreTyped DEF Eligible
<1> QED
  BY <1>1, <1>2, <1>3, <1>4

LEMMA RaiseKeeps ==
  ASSUME GovInv, NEW c \in Call, Raise(c)
  PROVE  GovInv'
<1> DEFINE v == call[c].target
           before == Visible(c)[v]
           after == IF call[c].seen[v] = "active" THEN before ELSE [before EXCEPT !.active = TRUE]
           m == [call[c] EXCEPT !.pc = "ledger"]
<1>1. /\ call[c].pc = "raise" /\ WaitsFor(c) = {}
      /\ call[c].seen[v] = "active" \/ ~Clash(c)
      /\ own' = [own EXCEPT ![c] = Over(v, after, own[c])]
      /\ call' = [call EXCEPT ![c].pc = "ledger"]
      /\ UNCHANGED <<table, versionsLock, scores, begun>>
  BY DEF Raise, RaiseWith, Over
<1>2. call[c] \in CallMemory /\ call \in [Call -> CallMemory]
  BY CallFacts
<1>3. /\ v \in Version /\ v \in DOMAIN own[c] \cup DOMAIN table
      /\ before \in Row /\ before.gate # "BLOCK"
      /\ v \in DOMAIN table => before.gate = table[v].gate
      /\ v \notin DOMAIN table => versionsLock = c /\ DOMAIN table = 1..(v - 1)
      /\ v \in DOMAIN own[c] => before = own[c][v]
      /\ v \notin DOMAIN own[c] => before = table[v]
  BY <1>1, TargetMayServe, RowsAreTyped
<1>4. ActiveIn(own[c]) = {}
  BY <1>1, NothingActive
<1>5. /\ Owners(c, v) = {}
      /\ call[c].seen[v] # "active" => Rivals(c) = {}
  BY <1>1 DEF WaitsFor
<1>6. m \in CallMemory /\ m.pc = "ledger" /\ m.target = v /\ call' = [call EXCEPT ![c] = m]
  BY <1>1, <1>2 DEF CallMemory
<1> HIDE DEF before, m, v
<1>7. after \in Row /\ after.gate = before.gate
  BY <1>3 DEF Row
<1>8. ASSUME after.active
      PROVE  /\ ActiveIn(table) \subseteq DOMAIN own[c] \cup {v}
             /\ \A d \in Call \ {c} : ActiveIn(own[d]) = {}
  <2>1. \A d \in Call \ {c} : v \notin DOMAIN own[d]
    BY <1>5 DEF Owners
  <2>2. CASE call[c].seen[v] = "active"
    <3>1. before.active
      BY <1>8, <2>2
    <3>2. v \notin DOMAIN own[c]
      BY <1>3, <1>4, <3>1 DEF ActiveIn
    <3>3. v \in ActiveIn(table)
      BY <1>3, <3>1, <3>2 DEF ActiveIn
    <3>4. \A w \in ActiveIn(table) : w = v
      BY <3>3 DEF GovInv, OneServing
    <3>5. ASSUME NEW d \in Call \ {c} PROVE ActiveIn(own[d]) = {}
      <4>1. RowSense(call[d], own[d], table, versionsLock = d)
        BY CallFacts
      <4>2. ASSUME NEW w \in ActiveIn(own[d]) PROVE FALSE
        <5>1. ActiveIn(table) \subseteq DOMAIN own[d]
          BY <4>1, <4>2 DEF RowSense, ActiveIn
        <5> QED
          BY <2>1, <3>3, <5>1
      <4> QED
        BY <4>2
    <3> QED
      BY <3>4, <3>5
  <2>3. CASE call[c].seen[v] # "active"
    <3>1. \A d \in Call \ {c} : ActiveIn(own[d]) = {}
      BY <1>5, <2>1, <2>3 DEF Rivals, ActiveIn, v
    <3>2. ASSUME NEW w \in ActiveIn(table), w \notin DOMAIN own[c] PROVE w = v
      <4>1. w \in DOMAIN table /\ table[w].active
        BY DEF ActiveIn
      <4>2. Visible(c)[w] = table[w] /\ w \in DOMAIN Visible(c)
        BY <3>2, <4>1, VisibleRows
      <4>3. w \in ActiveIn(Visible(c))
        BY <4>1, <4>2 DEF ActiveIn
      <4> QED
        BY <1>1, <2>3, <4>3 DEF Clash, v
    <3> QED
      BY <3>1, <3>2
  <2> QED
    BY <2>2, <2>3
<1> HIDE DEF after
<1>9. MemorySense(m, Over(v, after, own[c]), table, versionsLock = c)
  BY <1>1, <1>6, CallFacts DEF MemorySense
<1>10. WritesRow(c, m, v, after)
  BY <1>1, <1>3, <1>4, <1>5, <1>6, <1>7, <1>8, <1>9 DEF WritesRow
<1> QED
  BY <1>10, WriteKeeps

-----------------------------------------------------------------------------
\* The end of a call that leaves the table as it is.
LEMMA EndKeeps ==
  ASSUME GovInv, NEW c \in Call, call[c].pc # "free", EndWith(c, table),
         scores' \subseteq [label : Version, model : Version],
         \A s \in scores' : s.model \in DOMAIN table /\ table[s.model].gate # "BLOCK"
  PROVE  GovInv'
<1>1. /\ table' = table /\ own' = [own EXCEPT ![c] = NoRows]
      /\ versionsLock' = (IF versionsLock = c THEN NoCall ELSE versionsLock)
      /\ call' = [call EXCEPT ![c] = FreeCall] /\ begun' = begun
  BY DEF EndWith
<1>2. Becomes(c, FreeCall, NoRows)
  BY <1>1, CallFacts, FreeIsAMemory DEF Becomes
<1>3. ApartFrom(c, NoRows)
  BY FreeIsAMemory DEF ApartFrom
<1>4. LockTaken(c) /\ versionsLock' # c
  BY <1>1, CallFacts DEF LockTaken, GovInv, VersionsTypeOK
<1>5. Sense(FreeCall, NoRows, table, versionsLock' = c)
  BY <1>4, FreeIsAMemory DEF Sense, MemorySense, RowSense
<1>6. begun' \in 0..MaxCalls
  BY <1>1 DEF GovInv, VersionsTypeOK
<1> QED
  BY <1>1, <1>2, <1>3, <1>4, <1>5, <1>6, QuietStep

LEMMA EndAnyKeeps ==
  ASSUME GovInv, NEW c \in Call,
         NothingEligible(c) \/ Violate(c) \/ BreakDeadlock(c) \/ Fail(c)
  PROVE  GovInv'
<1>1. EndWith(c, table) /\ scores' = scores
  BY DEF NothingEligible, Violate, BreakDeadlock, Fail
<1>2. call[c].pc # "free"
  <2>1. CASE Deadlocked(c)
    <3>1. PICK n \in 1..Cardinality(Call) :
            \E path \in [0..n -> Call] :
              path[0] = c /\ \A i \in 0..(n - 1) : path[i + 1] \in WaitsFor(path[i])
      BY <2>1 DEF Deadlocked
    <3>2. PICK path \in [0..n -> Call] :
            path[0] = c /\ \A i \in 0..(n - 1) : path[i + 1] \in WaitsFor(path[i])
      BY <3>1
    <3>3. 0 \in 0..(n - 1)
      BY <3>1, GovernanceAssumption, FS_CardinalityType
    <3>4. WaitsFor(c) # {}
      BY <3>2, <3>3
    <3> QED
      BY <3>4 DEF WaitsFor
  <2> QED
    BY <2>1 DEF NothingEligible, Violate, BreakDeadlock, Fail
<1> QED
  BY <1>1, <1>2, EndKeeps DEF GovInv, VersionsTypeOK, NoneBlocked

LEMMA ScoreKeeps ==
  ASSUME GovInv, NEW c \in Call, KeepScore(c)
  PROVE  GovInv'
<1> DEFINE model == ActiveOf(table)
           score == [label |-> call[c].label, model |-> model]
<1>1. /\ call[c].pc = "load" /\ EndWith(c, table)
      /\ scores' = scores \/ (model # None /\ scores' = scores \cup {score})
  BY DEF KeepScore
<1>2. call[c].label \in Version
  BY <1>1, CallFacts, ActiveOfTable DEF MemorySense
<1>3. model # None => /\ model \in Version /\ model \in DOMAIN table
                      /\ table[model].gate # "BLOCK"
  <2>1. model # None => model \in ActiveIn(table) /\ ActiveIn(table) \subseteq DOMAIN table
                        /\ DOMAIN table \subseteq Version
    BY ActiveOfTable
  <2> HIDE DEF model
  <2> QED
    BY <2>1 DEF GovInv, NoneBlocked
<1> HIDE DEF model
<1>4. model # None => score \in [label : Version, model : Version] /\ score.model = model
  BY <1>2, <1>3
<1> HIDE DEF score
<1>5. scores \subseteq [label : Version, model : Version] /\
      \A s \in scores : s.model \in DOMAIN table /\ table[s.model].gate # "BLOCK"
  BY DEF GovInv, VersionsTypeOK, NoneBlocked
<1>6. /\ scores' \subseteq [label : Version, model : Version]
      /\ \A s \in scores' : s.model \in DOMAIN table /\ table[s.model].gate # "BLOCK"
  BY <1>1, <1>3, <1>4, <1>5
<1> QED
  BY <1>1, <1>6, EndKeeps

\* The rows that are committed: no gate changes, one version serves, the new one is next.
LEMMA CommitKeeps ==
  ASSUME GovInv, NEW c \in Call, CommitCall(c)
  PROVE  GovInv'
<1> DEFINE T == Visible(c)
<1>1. /\ call[c].pc = "commit" /\ table' = T /\ own' = [own EXCEPT ![c] = NoRows]
      /\ versionsLock' = (IF versionsLock = c THEN NoCall ELSE versionsLock)
      /\ call' = [call EXCEPT ![c] = FreeCall] /\ begun' = begun /\ scores' = scores
  BY DEF CommitCall, EndWith
<1>2. versionsLock = c /\ versionsLock' = NoCall /\ NoCall \notin Call
  BY <1>1, CallFacts DEF MemorySense
<1>3. /\ IsTable(T) /\ DOMAIN T = DOMAIN own[c] \cup DOMAIN table
      /\ \A v \in DOMAIN own[c] : T[v] = own[c][v]
      /\ \A v \in DOMAIN table \ DOMAIN own[c] : T[v] = table[v]
  BY VisibleRows
<1>4. \A v \in DOMAIN table : T[v].gate = table[v].gate
  BY RowsAreTyped
<1> HIDE DEF T
<1>5. /\ call' \in [Call -> CallMemory] /\ call'[c] = FreeCall
      /\ \A d \in Call \ {c} : call'[d] = call[d] /\ own'[d] = own[d]
      /\ own'[c] = NoRows /\ DOMAIN own' = Call
  BY <1>1, CallFacts, FreeIsAMemory
<1>6. RowSense(call[c], own[c], table, TRUE)
  BY <1>2, CallFacts DEF RowSense
<1>7. /\ ActiveIn(own[c]) # {} =>
            ActiveIn(T) = {call[c].target} /\ T[call[c].target].gate # "BLOCK"
      /\ ActiveIn(own[c]) = {} => ActiveIn(T) \subseteq ActiveIn(table)
  <2>1. CASE ActiveIn(own[c]) = {}
    BY <1>3, <2>1 DEF ActiveIn
  <2>2. CASE ActiveIn(own[c]) # {}
    <3>1. PICK v \in DOMAIN own[c] : own[c][v].active
      BY <2>2 DEF ActiveIn
    <3>2. /\ v = call[c].target /\ own[c][v].gate # "BLOCK" /\ ActiveIn(table) \subseteq DOMAIN own[c]
      BY <1>6, <3>1 DEF RowSense
    <3>3. \A w \in DOMAIN own[c] : own[c][w].active => w = v
      BY <1>6, <3>2 DEF RowSense
    <3>4. ActiveIn(T) = {v}
      BY <1>3, <3>1, <3>2, <3>3 DEF ActiveIn
    <3> QED
      BY <1>3, <2>2, <3>1, <3>2, <3>4
  <2> QED
    BY <2>1, <2>2
<1>8. VersionsTypeOK'
  <2>1. \A d \in Call : IsTable(own'[d])
    BY <1>5, CallFacts, FreeIsAMemory
  <2>2. scores' \subseteq [label : Version, model : Version] /\ begun' \in 0..MaxCalls
    BY <1>1 DEF GovInv, VersionsTypeOK
  <2> QED
    BY <1>1, <1>2, <1>3, <1>5, <2>1, <2>2
       DEF VersionsTypeOK, IsTable, CallMemory, Version, Row, None, Gate
<1>9. OneServing' /\ NoneBlocked'
  <2>1. \A v, w \in ActiveIn(T) : v = w
    BY <1>7 DEF GovInv, OneServing
  <2>2. \A v \in ActiveIn(T) : T[v].gate # "BLOCK"
    <3>1. CASE ActiveIn(own[c]) # {}
      BY <1>7, <3>1
    <3>2. CASE ActiveIn(own[c]) = {}
      BY <1>4, <1>7, <3>2 DEF GovInv, NoneBlocked, ActiveIn
    <3> QED
      BY <3>1, <3>2
  <2>3. \A s \in scores : s.model \in DOMAIN T /\ T[s.model].gate # "BLOCK"
    BY <1>3, <1>4 DEF GovInv, NoneBlocked
  <2>4. ActiveIn(table)' = ActiveIn(T)
    BY <1>1 DEF ActiveIn
  <2> QED
    BY <1>1, <2>1, <2>2, <2>3, <2>4 DEF OneServing, NoneBlocked
<1>10. Apart'
  <2> SUFFICES ASSUME NEW d \in Call, NEW e \in Call, d # e
               PROVE  /\ DOMAIN own'[d] \cap DOMAIN own'[e] = {}
                      /\ ActiveIn(own'[d]) = {} \/ ActiveIn(own'[e]) = {}
    BY DEF Apart, ActiveIn
  <2>1. CASE d = c \/ e = c
    BY <1>5, <2>1, FreeIsAMemory
  <2>2. CASE d # c /\ e # c
    BY <1>5, <2>2 DEF GovInv, Apart
  <2> QED
    BY <2>1, <2>2
<1>11. ASSUME NEW d \in Call
       PROVE  Sense(call'[d], own'[d], T, versionsLock' = d)
  <2>1. CASE d = c
    BY <1>2, <1>5, <2>1, FreeIsAMemory DEF Sense, MemorySense, RowSense
  <2>2. CASE d # c
    <3>1. /\ MemorySense(call[d], own[d], table, FALSE) /\ RowSense(call[d], own[d], table, FALSE)
          /\ call'[d] = call[d] /\ own'[d] = own[d] /\ versionsLock' # d
      <4>1. (versionsLock = d) = FALSE
        BY <1>2, <2>2
      <4> QED
        BY <1>2, <1>5, <2>2, <4>1, CallFacts DEF MemorySense, RowSense
    <3>2. \A v : Eligible(table, v) => Eligible(T, v)
      BY <1>3, <1>4 DEF Eligible
    <3>3. MemorySense(call[d], own[d], T, FALSE)
      BY <1>3, <3>1, <3>2 DEF MemorySense
    <3>4. ActiveIn(own[d]) # {} => ActiveIn(T) \subseteq ActiveIn(table)
      BY <1>7, <2>2 DEF GovInv, Apart
    <3>5. RowSense(call[d], own[d], T, FALSE)
      <4> SUFFICES ASSUME NEW v \in DOMAIN own[d]
                   PROVE  /\ v \in DOMAIN T /\ own[d][v].gate = T[v].gate
                          /\ own[d][v].active =>
                                /\ v = call[d].target /\ call[d].pc \in {"ledger", "commit"}
                                /\ own[d][v].gate # "BLOCK" /\ ActiveIn(T) \subseteq DOMAIN own[d]
        BY DEF RowSense
      <4>1. v \in DOMAIN table /\ own[d][v].gate = table[v].gate
        BY <3>1 DEF RowSense
      <4>2. own[d][v].active => ActiveIn(own[d]) # {}
        BY DEF ActiveIn
      <4> QED
        BY <1>3, <1>4, <3>1, <3>4, <4>1, <4>2 DEF RowSense
    <3> QED
      BY <3>1, <3>3, <3>5 DEF Sense, MemorySense, RowSense
  <2> QED
    BY <2>1, <2>2
<1>12. Numbered'
  <2>1. PICK n \in 0..MaxCalls : DOMAIN table = 1..n /\ n + Cardinality(Busy) <= begun
    BY DEF GovInv, Numbered
  <2>2. /\ MaxCalls \in Nat /\ begun \in 0..MaxCalls /\ Cardinality(Busy) \in Nat
        /\ Cardinality(Busy') = Cardinality(Busy) - 1
    BY <1>1, CallFacts, BusyIsCounted, FreeIsAMemory DEF GovInv, VersionsTypeOK
  <2>3. CASE DOMAIN own[c] \subseteq DOMAIN table
    <3>1. DOMAIN T = 1..n
      BY <1>3, <2>1, <2>3
    <3> QED
      BY <1>1, <2>1, <2>2, <3>1 DEF Numbered
  <2>4. ASSUME NEW v \in DOMAIN own[c], v \notin DOMAIN table
        PROVE  Numbered'
    <3>1. \A w \in DOMAIN own[c] \ DOMAIN table : w \in Version /\ 1..n = 1..(w - 1)
      BY <1>6, <2>1, CallFacts DEF RowSense, IsTable
    <3>2. ASSUME NEW w \in DOMAIN own[c] \ DOMAIN table PROVE w = n + 1
      <4>1. w \in Nat \ {0} /\ n \in Nat
        BY <2>1, <2>2, <3>1 DEF Version
      <4>2. ~(n < w - 1)
        <5>1. n < w - 1 => w - 1 \in 1..(w - 1)
          BY <4>1
        <5>2. n < w - 1 => w - 1 \notin 1..n
          BY <4>1
        <5> QED
          BY <3>1, <5>1, <5>2
      <4>3. ~(w - 1 < n)
        <5>1. w - 1 < n => n \in 1..n
          BY <4>1
        <5>2. w - 1 < n => n \notin 1..(w - 1)
          BY <4>1
        <5> QED
          BY <3>1, <5>1, <5>2
      <4> QED
        BY <4>1, <4>2, <4>3
    <3>3. v = n + 1 /\ v \in Version
      BY <2>4, <3>1, <3>2
    <3>4. DOMAIN T = 1..n \cup {n + 1}
      BY <1>3, <2>1, <2>4, <3>2, <3>3
    <3>5. 1..n \cup {n + 1} = 1..(n + 1) /\ n + 1 \in 0..MaxCalls
      BY <2>1, <2>2, <3>3 DEF Version
    <3>6. (n + 1) + Cardinality(Busy') <= begun
      BY <2>1, <2>2
    <3> QED
      BY <1>1, <3>4, <3>5, <3>6 DEF Numbered
  <2> QED
    BY <2>3, <2>4
<1> QED
  BY <1>1, <1>8, <1>9, <1>10, <1>11, <1>12 DEF GovInv, Sense, MemorySense, RowSense


-----------------------------------------------------------------------------
LEMMA GovFirst == VersionsInit => GovInv
<1> SUFFICES ASSUME VersionsInit PROVE GovInv
  OBVIOUS
<1>1. /\ table = NoRows /\ own = [c \in Call |-> NoRows] /\ versionsLock = NoCall
      /\ call = [c \in Call |-> FreeCall] /\ scores = {} /\ begun = 0
      /\ NoCall \notin Call /\ MaxCalls \in Nat
  BY GovernanceAssumption DEF VersionsInit
<1>2. VersionsTypeOK /\ \A c \in Call : call[c] = FreeCall /\ own[c] = NoRows
  BY <1>1, FreeIsAMemory DEF VersionsTypeOK
<1>3. \A c \in Call : Sense(call[c], own[c], table, versionsLock = c)
  BY <1>1, <1>2, FreeIsAMemory DEF Sense, MemorySense, RowSense
<1>4. Apart
  BY <1>2, FreeIsAMemory DEF Apart
<1>5. Numbered
  <2>1. Busy = {} /\ DOMAIN table = {} /\ 1..0 = {}
    BY <1>1, <1>2, FreeIsAMemory DEF Busy
  <2>2. Cardinality(Busy) = 0
    BY <2>1, FS_EmptySet
  <2>3. 0 \in 0..MaxCalls /\ 0 + 0 <= 0
    BY <1>1
  <2> QED
    BY <1>1, <2>1, <2>2, <2>3 DEF Numbered
<1>6. OneServing /\ NoneBlocked
  BY <1>1, FreeIsAMemory DEF OneServing, NoneBlocked
<1> QED
  BY <1>2, <1>3, <1>4, <1>5, <1>6 DEF GovInv

LEMMA GovStep ==
  ASSUME GovInv, [VersionsNext]_versionsVars
  PROVE  GovInv'
<1>1. CASE UNCHANGED versionsVars
  <2>1. /\ table' = table /\ own' = own /\ versionsLock' = versionsLock /\ call' = call
        /\ scores' = scores /\ begun' = begun
    BY <1>1 DEF versionsVars
  <2>2. VersionsTypeOK'
    BY <2>1 DEF GovInv, VersionsTypeOK, IsTable, CallMemory, Row, Gate, Version, None
  <2>3. \A c \in Call : Sense(call[c], own[c], table, versionsLock = c)'
    BY <2>1 DEF GovInv, Sense, MemorySense, RowSense
  <2>4. Apart' /\ OneServing' /\ NoneBlocked'
    BY <2>1 DEF GovInv, Apart, OneServing, NoneBlocked, ActiveIn
  <2>5. Numbered'
    BY <2>1 DEF GovInv, Numbered, Busy
  <2> QED
    BY <2>2, <2>3, <2>4, <2>5 DEF GovInv
<1>2. ASSUME NEW c \in Call, Proceed(c)
      PROVE  GovInv'
  BY <1>2, LockKeeps, NumberKeeps, InsertKeeps, CeilingKeeps, PickKeeps, VersionsReadKeep, RetireKeeps,
     RaiseKeeps, AppendKeeps, CommitKeeps, ScoreKeeps, EndAnyKeeps DEF Proceed
<1> QED
  BY <1>1, <1>2, BeginAnyKeeps, EndAnyKeeps DEF VersionsNext

\* What the open transactions have written, and remember, fits the table in every behaviour.
THEOREM GovernanceAlways == VersionsSpec => []GovInv
BY GovFirst, GovStep, PTL DEF VersionsSpec

LEMMA GovPromise == GovInv => VersionsAreGoverned
<1> SUFFICES ASSUME GovInv PROVE VersionsAreGoverned
  OBVIOUS
<1>1. PICK n \in 0..MaxCalls : DOMAIN table = 1..n
  BY DEF GovInv, Numbered
<1>2. n \in Nat /\ IsFiniteSet(DOMAIN table) /\ Cardinality(DOMAIN table) = n
  BY <1>1, GovernanceAssumption, FS_Interval
<1>3. OneActive
  <2>1. CASE ActiveIn(table) = {}
    BY <2>1, FS_EmptySet DEF OneActive
  <2>2. ASSUME NEW v \in ActiveIn(table) PROVE OneActive
    <3>1. ActiveIn(table) = {v}
      BY DEF GovInv, OneServing
    <3>2. Cardinality({v}) = 1
      BY FS_Singleton
    <3> QED
      BY <3>1, <3>2 DEF OneActive
  <2> QED
    BY <2>1, <2>2
<1>4. BlockedNeverServes
  BY DEF GovInv, NoneBlocked, BlockedNeverServes
<1>5. NumbersNeverClash
  <2>1. ASSUME NEW c \in Call, call[c].pc = "insert"
        PROVE  call[c].target \notin DOMAIN table /\ Owners(c, call[c].target) = {}
    <3>1. /\ call[c].target \in Version /\ DOMAIN table = 1..(call[c].target - 1)
          /\ versionsLock = c
      BY <2>1, CallFacts DEF MemorySense
    <3>2. call[c].target \notin DOMAIN table
      BY <3>1 DEF Version
    <3>3. ASSUME NEW d \in Call \ {c}, call[c].target \in DOMAIN own[d] PROVE FALSE
      BY <3>1, <3>2, <3>3, CallFacts DEF RowSense
    <3> QED
      BY <3>2, <3>3 DEF Owners
  <2> QED
    BY <1>1, <1>2, <2>1 DEF NumbersNeverClash
<1> QED
  BY <1>3, <1>4, <1>5 DEF VersionsAreGoverned, GovInv

\* Whatever calls on a tenant's model versions overlap, die or are ended for a deadlock: at
\* most one version is active, none that the gate blocked is or scores, and no two
\* trainings have one number.
THEOREM VersionsAlwaysGoverned == VersionsSpec => []VersionsAreGoverned
BY GovernanceAlways, GovPromise, PTL
=============================================================================
