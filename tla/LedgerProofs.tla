------------------------------ MODULE LedgerProofs ------------------------------
(***************************************************************************)
(* Proofs about LedgerAppend, for any writers, bound and number of retries,*)
(* with the advisory lock or without it, and about LedgerEvidence, for any *)
(* servers, clocks, entries, page and pack sizes.                          *)
(*                                                                         *)
(* Of the writers.  Committed rows are the sequences below n; the open     *)
(* transaction of a writer w holds those from n up to its own length m[w], *)
(* and at most one transaction holds any (Shape).  A head in hand may be   *)
(* stale, but it was the head of a shorter chain that is still a prefix    *)
(* (Fresh), so an insert that the unique constraint lets through extends   *)
(* the chain at its very end.                                              *)
(*                                                                         *)
(* Of the evidence.  While servers without the key and the key were never  *)
(* mixed, signed entries follow all others; a migration that runs alone    *)
(* has every unsigned entry in hand (KeySense).  A page is an initial part *)
(* of what matches, in sequence; what matches follows what was read        *)
(* without a gap when the whole ledger is wanted or times are in order, so *)
(* the rows of an export are consecutive (ExportSense), and they stay      *)
(* entries of a ledger that only grows.                                    *)
(***************************************************************************)
EXTENDS LedgerAppend, LedgerEvidence, Integers, Sequences, FiniteSetTheorems, SequenceTheorems,
        WellFoundedInduction, TLAPS

\* t is a chain of length n whose hashes are among the first h made.
Good(t, n, h) ==
  /\ IsTable(t)
  /\ DOMAIN t = 0..(n - 1)
  /\ \A k \in 0..(n - 1) : t[k].prev = IF k = 0 THEN GENESIS ELSE t[k - 1].hash
  /\ \A k \in 0..(n - 1) : t[k].hash \in 1..h
  /\ \A j, k \in 0..(n - 1) : t[j].hash = t[k].hash => j = k

\* The link the entry at sequence k of t must have.
LinkAt(t, k) == IF k = 0 THEN GENESIS ELSE t[k - 1].hash

\* The head w has read is that of a prefix of the k rows it sees; of all of them, when
\* it has rows of its own (k # n).
Fresh(w, k, n) ==
  /\ head[w].seq <= k
  /\ k # n => head[w].seq = k
  /\ head[w].prev = LinkAt(Visible(w), head[w].seq)

Shape(n, m) ==
  /\ Good(table, n, made)
  /\ \A w \in Writer :
       /\ n <= m[w]
       /\ DOMAIN own[w] = n..(m[w] - 1)
       /\ Good(Visible(w), m[w], made)
       /\ pc[w] = "read" => Fresh(w, m[w], n)
  /\ \A v, w \in Writer : v # w => m[v] = n \/ m[w] = n

IInv == LedgerTypeOK /\ \E n \in Nat, m \in [Writer -> Nat] : Shape(n, m)

-----------------------------------------------------------------------------
\* The rows two tables have together.
LEMMA UnionType ==
  ASSUME NEW f, NEW g, IsTable(f), IsTable(g)
  PROVE  IsTable(Union(f, g))
BY DEF IsTable, Union, LedgerEntry

\* Nothing is added by an empty transaction.
LEMMA UnionEmpty ==
  ASSUME NEW f, NEW g, IsTable(f), IsTable(g), DOMAIN g = {}
  PROVE  Union(f, g) = f
BY DEF IsTable, Union, LedgerEntry

\* HeadOf finds the end of a chain.
LEMMA HeadOfGood ==
  ASSUME NEW t, NEW n \in Nat, NEW h \in Nat, Good(t, n, h)
  PROVE  /\ HeadOf(t).seq = n
         /\ HeadOf(t).prev = LinkAt(t, n)
         /\ HeadOf(t) \in [seq : Nat, prev : Nat]
<1>1. CASE n = 0
  BY <1>1 DEF Good, HeadOf, LinkAt, GENESIS
<1>2. CASE n # 0
  <2>1. n - 1 \in DOMAIN t /\ \A j \in DOMAIN t : j <= n - 1
    BY <1>2 DEF Good
  <2>2. Newest(t) \in DOMAIN t /\ \A j \in DOMAIN t : j <= Newest(t)
    BY <2>1 DEF Newest
  <2>3. Newest(t) = n - 1
    <3>1. DOMAIN t = 0..(n - 1)
      BY DEF Good
    <3>2. Newest(t) \in 0..(n - 1) /\ n - 1 <= Newest(t)
      BY <2>1, <2>2, <3>1
    <3> QED
      BY <3>2
  <2>4. t[n - 1].hash \in Nat
    BY <2>1 DEF Good, IsTable, LedgerEntry
  <2> QED
    BY <1>2, <2>1, <2>3, <2>4 DEF HeadOf, LinkAt
<1> QED
  BY <1>1, <1>2

\* A chain stays one when more hashes have been made.
LEMMA GoodMore ==
  ASSUME NEW t, NEW n \in Nat, NEW h \in Nat, Good(t, n, h)
  PROVE  Good(t, n, h + 1)
BY DEF Good

\* A chain is verified by its readers.
LEMMA GoodChained ==
  ASSUME NEW t, NEW n \in Nat, NEW h \in Nat, Good(t, n, h)
  PROVE  Chained(t)
BY DEF Good, Chained

\* One entry more, linked to the last and with a hash never made before.
LEMMA GoodAppend ==
  ASSUME NEW t, NEW n \in Nat, NEW h \in Nat, Good(t, n, h),
         NEW u, IsTable(u), DOMAIN u = 0..n,
         \A k \in 0..(n - 1) : u[k] = t[k],
         u[n].prev = LinkAt(t, n), u[n].hash = h + 1
  PROVE  Good(u, n + 1, h + 1)
<1>1. \A k \in 0..n : k = n \/ k \in 0..(n - 1)
  OBVIOUS
<1>2. ASSUME NEW k \in 0..n
      PROVE  u[k].prev = IF k = 0 THEN GENESIS ELSE u[k - 1].hash
  <2>1. CASE k = n
    <3>1. k # 0 => k - 1 \in 0..(n - 1)
      BY <2>1
    <3> QED
      BY <2>1, <3>1 DEF LinkAt
  <2>2. CASE k # n
    <3>1. k \in 0..(n - 1) /\ (k # 0 => k - 1 \in 0..(n - 1))
      BY <2>2
    <3> QED
      BY <3>1 DEF Good
  <2> QED
    BY <2>1, <2>2
<1>3. \A k \in 0..n : u[k].hash \in 1..(h + 1)
  BY <1>1 DEF Good
<1>4. \A j, k \in 0..n : u[j].hash = u[k].hash => j = k
  BY <1>1 DEF Good
<1> QED
  BY <1>2, <1>3, <1>4 DEF Good

-----------------------------------------------------------------------------
LEMMA InitShape == LedgerInit => IInv
<1> SUFFICES ASSUME LedgerInit PROVE IInv
  OBVIOUS
<1>1. IsTable(NoRows) /\ DOMAIN NoRows = {}
  BY DEF IsTable, NoRows, LedgerEntry
<1>2. LedgerTypeOK
  BY <1>1, LedgerAssumption DEF LedgerInit, LedgerTypeOK, GENESIS
<1>3. Good(NoRows, 0, 0)
  BY <1>1 DEF Good
<1>4. \A w \in Writer : Visible(w) = NoRows
  BY <1>1, UnionEmpty DEF LedgerInit, Visible
<1>5. Shape(0, [w \in Writer |-> 0])
  BY <1>1, <1>3, <1>4 DEF LedgerInit, Shape
<1> QED
  BY <1>2, <1>5 DEF IInv

\* Steps that change no row and give nobody a head.
LEMMA ShapeKept ==
  ASSUME IInv, LedgerTypeOK', table' = table, own' = own, made' = made,
         \A w \in Writer : pc'[w] = "read" => pc[w] = "read" /\ head'[w] = head[w]
  PROVE  IInv'
<1> PICK n \in Nat, m \in [Writer -> Nat] : Shape(n, m)
  BY DEF IInv
<1>1. \A w \in Writer : Visible(w)' = Visible(w)
  BY DEF Visible
<1>2. Good(table, n, made)'
  BY DEF Shape, Good
<1>3. ASSUME NEW w \in Writer
      PROVE  Good(Visible(w), m[w], made)'
  BY <1>1 DEF Shape, Good
<1>4. ASSUME NEW w \in Writer, pc'[w] = "read"
      PROVE  Fresh(w, m[w], n)'
  BY <1>1, <1>4 DEF Shape, Fresh, LinkAt
<1>5. Shape(n, m)'
  BY <1>2, <1>3, <1>4 DEF Shape
<1> QED
  BY <1>5 DEF IInv

\* A transaction ends and takes its rows with it.
LEMMA ShapeEnd ==
  ASSUME IInv, LedgerTypeOK', NEW w \in Writer, EndWith(w, table)
  PROVE  IInv'
<1> PICK n \in Nat, m \in [Writer -> Nat] : Shape(n, m)
  BY DEF IInv
<1> DEFINE mm == [m EXCEPT ![w] = n]
<1>1. IsTable(table) /\ IsTable(NoRows) /\ DOMAIN NoRows = {} /\ made \in Nat
  BY DEF IInv, LedgerTypeOK, IsTable, NoRows, LedgerEntry
<1>2. table' = table /\ made' = made /\ own'[w] = NoRows
  BY DEF EndWith, IInv, LedgerTypeOK
<1>3. \A v \in Writer \ {w} : own'[v] = own[v] /\ mm[v] = m[v]
  BY DEF EndWith, IInv, LedgerTypeOK
<1>4. Good(table, n, made)'
  BY <1>2 DEF Shape, Good
<1>5. Visible(w)' = table /\ mm[w] = n
  BY <1>1, <1>2, UnionEmpty DEF Visible
<1>6. \A v \in Writer \ {w} : Visible(v)' = Visible(v)
  BY <1>2, <1>3 DEF Visible
<1>7. ASSUME NEW v \in Writer
      PROVE  /\ n <= mm[v]
             /\ DOMAIN own'[v] = n..(mm[v] - 1)
             /\ Good(Visible(v), mm[v], made)'
             /\ pc'[v] = "read" => Fresh(v, mm[v], n)'
  <2>1. CASE v = w
    <3>1. DOMAIN NoRows = n..(n - 1)
      BY <1>1
    <3>2. Good(Visible(w), mm[w], made)'
      BY <1>4, <1>5, <1>2
    <3>3. pc'[w] # "read"
      BY DEF EndWith, IInv, LedgerTypeOK
    <3> QED
      BY <2>1, <3>1, <3>2, <3>3, <1>2, <1>5
  <2>2. CASE v # w
    <3>1. Good(Visible(v), m[v], made)'
      <4>1. Good(Visible(v), m[v], made)
        BY DEF Shape
      <4> QED
        BY <2>2, <4>1, <1>2, <1>6
    <3>2. pc'[v] = pc[v] /\ head' = head
      BY <2>2 DEF EndWith, IInv, LedgerTypeOK
    <3>3. pc'[v] = "read" => Fresh(v, m[v], n)'
      BY <2>2, <3>2, <1>6 DEF Shape, Fresh, LinkAt
    <3> QED
      BY <2>2, <3>1, <3>3, <1>3 DEF Shape
  <2> QED
    BY <2>1, <2>2
<1>8. \A u, v \in Writer : u # v => mm[u] = n \/ mm[v] = n
  BY <1>3, <1>5 DEF Shape
<1>9. Shape(n, mm)'
  BY <1>4, <1>7, <1>8 DEF Shape
<1>10. mm \in [Writer -> Nat]
  OBVIOUS
<1> QED
  BY <1>9, <1>10 DEF IInv

\* A transaction commits: its rows become everyone's.
LEMMA ShapeCommit ==
  ASSUME IInv, LedgerTypeOK', NEW w \in Writer, Commit(w)
  PROVE  IInv'
<1> PICK n \in Nat, m \in [Writer -> Nat] : Shape(n, m)
  BY DEF IInv
<1> IsTable(table) /\ (\A v \in Writer : IsTable(own[v])) /\ IsTable(NoRows) /\ DOMAIN NoRows = {}
  BY DEF IInv, LedgerTypeOK, IsTable, NoRows, LedgerEntry
<1>1. CASE m[w] = n
  <2>1. DOMAIN own[w] = {}
    BY <1>1 DEF Shape
  <2>2. Union(table, own[w]) = table
    BY <2>1, UnionEmpty
  <2> QED
    BY <2>2, ShapeEnd DEF Commit
<1>2. CASE m[w] # n
  <2> DEFINE k == m[w]
             mm == [v \in Writer |-> m[w]]
  <2>1. table' = Visible(w) /\ made' = made /\ head' = head /\ own'[w] = NoRows
    BY DEF Commit, EndWith, Visible, IInv, LedgerTypeOK
  <2>2. \A v \in Writer \ {w} : own'[v] = own[v] /\ pc'[v] = pc[v]
    BY DEF Commit, EndWith, IInv, LedgerTypeOK
  <2>3. \A v \in Writer \ {w} : m[v] = n /\ DOMAIN own[v] = {}
    BY <1>2 DEF Shape
  <2>4. \A v \in Writer : DOMAIN own'[v] = {} /\ IsTable(own'[v])
    BY <2>1, <2>2, <2>3
  <2>5. Good(Visible(w), k, made) /\ k \in Nat /\ n <= k /\ made \in Nat
    BY DEF Shape, IInv, LedgerTypeOK
  <2>6. Good(table', k, made') /\ IsTable(table')
    BY <2>1, <2>5 DEF Good
  <2>7. \A v \in Writer : Visible(v)' = table'
    BY <2>4, <2>6, UnionEmpty DEF Visible
  <2>8. ASSUME NEW v \in Writer, pc'[v] = "read"
        PROVE  Fresh(v, k, k)'
    <3>1. v # w
      BY <2>8 DEF Commit, EndWith, IInv, LedgerTypeOK
    <3>2. Fresh(v, m[v], n)
      BY <2>2, <2>8, <3>1 DEF Shape
    <3>3. head[v].seq \in 0..n /\ head'[v] = head[v]
      BY <2>1, <2>3, <3>1, <3>2 DEF Fresh, IInv, LedgerTypeOK
    <3>4. DOMAIN table = 0..(n - 1)
      BY DEF Shape, Good
    <3>5. \A j \in 0..(n - 1) : Visible(v)[j] = table[j] /\ Visible(w)[j] = table[j]
      BY <3>4 DEF Visible, Union
    <3>6. LinkAt(Visible(v), head[v].seq) = LinkAt(Visible(w), head[v].seq)
      BY <3>3, <3>5 DEF LinkAt
    <3> QED
      BY <2>1, <2>5, <2>7, <3>2, <3>3, <3>6 DEF Fresh, LinkAt
  <2>9. Shape(k, mm)'
    <3> HIDE DEF k
    <3>0. k..(k - 1) = {}
      BY <2>5
    <3>1. \A v \in Writer : DOMAIN own'[v] = k..(k - 1)
      BY <2>4, <3>0
    <3> USE DEF k
    <3> QED
      BY <2>5, <2>6, <2>7, <2>8, <3>1 DEF Shape
  <2> QED
    BY <2>5, <2>9 DEF IInv
<1> QED
  BY <1>1, <1>2

\* A writer reads the head of what it sees.
LEMMA ShapeRead ==
  ASSUME IInv, LedgerTypeOK', NEW w \in Writer, ReadHead(w)
  PROVE  IInv'
<1> PICK n \in Nat, m \in [Writer -> Nat] : Shape(n, m)
  BY DEF IInv
<1>1. table' = table /\ own' = own /\ made' = made /\ made \in Nat
  BY DEF ReadHead, IInv, LedgerTypeOK
<1>2. \A v \in Writer : Visible(v)' = Visible(v)
  BY <1>1 DEF Visible
<1>3. Good(Visible(w), m[w], made) /\ m[w] \in Nat
  BY DEF Shape
<1>4. HeadOf(Visible(w)).seq = m[w] /\ HeadOf(Visible(w)).prev = LinkAt(Visible(w), m[w])
  BY <1>1, <1>3, HeadOfGood
<1>5. head'[w] = HeadOf(Visible(w))
  BY DEF ReadHead, IInv, LedgerTypeOK
<1>6. Fresh(w, m[w], n)'
  BY <1>2, <1>3, <1>4, <1>5 DEF Fresh
<1>7. ASSUME NEW v \in Writer, pc'[v] = "read"
      PROVE  Fresh(v, m[v], n)'
  <2>1. CASE v = w
    BY <1>6, <2>1
  <2>2. CASE v # w
    <3>1. pc[v] = "read" /\ head'[v] = head[v]
      BY <1>7, <2>2 DEF ReadHead, IInv, LedgerTypeOK
    <3>2. Fresh(v, m[v], n)
      BY <3>1 DEF Shape
    <3> QED
      BY <1>2, <3>1, <3>2 DEF Fresh
  <2> QED
    BY <2>1, <2>2
<1>8. ASSUME NEW v \in Writer
      PROVE  Good(Visible(v), m[v], made)'
  <2>1. Good(Visible(v), m[v], made)
    BY DEF Shape
  <2> QED
    BY <2>1, <1>1, <1>2
<1>9. Good(table, n, made)'
  <2>1. Good(table, n, made)
    BY DEF Shape
  <2> QED
    BY <2>1, <1>1
<1>10. Shape(n, m)'
  BY <1>1, <1>7, <1>8, <1>9 DEF Shape
<1> QED
  BY <1>10 DEF IInv

\* An insert the unique constraint lets through extends what its writer sees, and
\* nobody else has rows of their own.
LEMMA InsertAtEnd ==
  ASSUME IInv, NEW w \in Writer, Insert(w),
         NEW n \in Nat, NEW m \in [Writer -> Nat], Shape(n, m)
  PROVE  /\ head[w].seq = m[w]
         /\ head[w].prev = LinkAt(Visible(w), m[w])
         /\ \A v \in Writer \ {w} : m[v] = n /\ DOMAIN own[v] = {}
<1>1. Fresh(w, m[w], n) /\ n <= m[w] /\ DOMAIN table = 0..(n - 1)
  BY DEF Shape, Insert, MayInsert, Good
<1>2. head[w].seq \in Nat
  BY DEF IInv, LedgerTypeOK
<1>3. head[w].seq = m[w]
  BY <1>1, <1>2 DEF Fresh, Insert
<1>4. ASSUME NEW v \in Writer \ {w}
      PROVE  m[v] = n /\ DOMAIN own[v] = {}
  <2>1. m[w] \notin DOMAIN own[v]
    BY <1>3, <1>4 DEF Insert, PutRow, MayInsert
  <2>2. DOMAIN own[v] = n..(m[v] - 1) /\ n <= m[v] /\ (m[v] = n \/ m[w] = n)
    BY <1>4 DEF Shape
  <2>3. m[v] = n
    BY <2>1, <2>2
  <2>4. n..(n - 1) = {}
    OBVIOUS
  <2> QED
    BY <2>2, <2>3, <2>4
<1> QED
  BY <1>1, <1>3, <1>4 DEF Fresh

LEMMA ShapeInsert ==
  ASSUME IInv, LedgerTypeOK', NEW w \in Writer, Insert(w)
  PROVE  IInv'
<1> PICK n \in Nat, m \in [Writer -> Nat] : Shape(n, m)
  BY DEF IInv
<1> DEFINE k == m[w]
           mm == [m EXCEPT ![w] = k + 1]
<1>1. /\ head[w].seq = k
      /\ head[w].prev = LinkAt(Visible(w), k)
      /\ \A v \in Writer \ {w} : m[v] = n /\ DOMAIN own[v] = {}
  BY InsertAtEnd
<1>2. table' = table /\ made' = made + 1 /\ head' = head /\ made \in Nat
  BY DEF Insert, PutRow, IInv, LedgerTypeOK
<1>3. \A v \in Writer \ {w} : own'[v] = own[v] /\ pc'[v] = pc[v] /\ mm[v] = m[v]
  BY DEF Insert, PutRow, IInv, LedgerTypeOK
<1>4. /\ DOMAIN own'[w] = DOMAIN own[w] \cup {k}
      /\ \A j \in DOMAIN own[w] : j # k => own'[w][j] = own[w][j]
      /\ own'[w][k] = [prev |-> head[w].prev, hash |-> made + 1]
  BY <1>1 DEF Insert, PutRow, IInv, LedgerTypeOK
<1>5. n <= k /\ k \in Nat /\ DOMAIN own[w] = n..(k - 1) /\ DOMAIN table = 0..(n - 1)
  BY DEF Shape, Good
<1>6. mm[w] = k + 1
  OBVIOUS
<1> HIDE DEF mm, k
<1>7. DOMAIN own'[w] = n..k
  BY <1>4, <1>5
<1>8. IsTable(Visible(w)')
  <2>1. IsTable(table') /\ IsTable(own'[w])
    BY DEF LedgerTypeOK
  <2> QED
    BY <2>1, UnionType DEF Visible
<1>9. Good(Visible(w), k + 1, made)'
  <2>1. Good(Visible(w), k, made)
    BY DEF Shape, k
  <2>2. DOMAIN Visible(w)' = 0..k
    BY <1>2, <1>5, <1>7 DEF Visible, Union
  <2>3. \A j \in 0..(k - 1) : Visible(w)'[j] = Visible(w)[j]
    <3>1. \A j \in 0..(k - 1) : j # k /\ (j \in DOMAIN table \/ j \in DOMAIN own[w])
      BY <1>5
    <3> QED
      BY <1>2, <1>4, <3>1 DEF Visible, Union
  <2>4. Visible(w)'[k] = own'[w][k]
    BY <1>2, <1>4, <1>5 DEF Visible, Union
  <2> QED
    BY <1>1, <1>2, <1>4, <1>5, <1>8, <2>1, <2>2, <2>3, <2>4, GoodAppend
<1>10. Good(table, n, made)'
  BY <1>2, GoodMore DEF Shape
<1>11. ASSUME NEW v \in Writer
       PROVE  /\ n <= mm[v]
              /\ DOMAIN own'[v] = n..(mm[v] - 1)
              /\ Good(Visible(v), mm[v], made)'
              /\ pc'[v] = "read" => Fresh(v, mm[v], n)'
  <2>1. CASE v = w
    <3>1. pc'[w] # "read"
      BY DEF Insert, PutRow, IInv, LedgerTypeOK
    <3>2. (k + 1) - 1 = k
      BY <1>5
    <3> QED
      BY <2>1, <3>1, <3>2, <1>5, <1>6, <1>7, <1>9
  <2>2. CASE v # w
    <3>1. Visible(v)' = Visible(v)
      BY <1>2, <1>3, <2>2 DEF Visible
    <3>2. Good(Visible(v), m[v], made)
      BY DEF Shape
    <3>3. Good(Visible(v), m[v], made)'
      BY <1>2, <3>1, <3>2, GoodMore
    <3>4. pc'[v] = "read" => Fresh(v, m[v], n)'
      BY <1>2, <1>3, <2>2, <3>1 DEF Shape, Fresh
    <3> QED
      BY <1>3, <2>2, <3>3, <3>4 DEF Shape
  <2> QED
    BY <2>1, <2>2
<1>12. \A u, v \in Writer : u # v => mm[u] = n \/ mm[v] = n
  BY <1>1, <1>3
<1>13. mm \in [Writer -> Nat]
  BY <1>5 DEF mm
<1>14. Shape(n, mm)'
  BY <1>10, <1>11, <1>12 DEF Shape
<1> QED
  BY <1>13, <1>14 DEF IInv

-----------------------------------------------------------------------------
LEMMA TypeStep ==
  ASSUME IInv, [LedgerNext]_ledgerVars
  PROVE  LedgerTypeOK'
<1> USE LedgerAssumption
<1> LedgerTypeOK
  BY DEF IInv
<1> IsTable(NoRows)
  BY DEF IsTable, NoRows, LedgerEntry
<1>1. ASSUME NEW w \in Writer
      PROVE  HeadOf(Visible(w)) \in [seq : Nat, prev : Nat]
  <2> PICK n \in Nat, m \in [Writer -> Nat] : Shape(n, m)
    BY DEF IInv
  <2>1. Good(Visible(w), m[w], made) /\ m[w] \in Nat /\ made \in Nat
    BY DEF Shape, LedgerTypeOK
  <2> QED
    BY <2>1, HeadOfGood
<1>2. ASSUME NEW w \in Writer, Begin(w) \/ CallAppend(w) \/ LockTenant(w)
      PROVE  LedgerTypeOK'
  BY <1>2 DEF LedgerTypeOK, Begin, CallAppend, LockTenant
<1>3. ASSUME NEW w \in Writer, ReadHead(w)
      PROVE  LedgerTypeOK'
  BY <1>1, <1>3 DEF LedgerTypeOK, ReadHead
<1>4. ASSUME NEW w \in Writer, Insert(w)
      PROVE  LedgerTypeOK'
  <2>1. head[w].seq \in Nat /\ head[w].prev \in Nat /\ made + 1 \in Nat
    BY DEF LedgerTypeOK
  <2>2. IsTable(own'[w])
    BY <1>4, <2>1 DEF LedgerTypeOK, Insert, PutRow, IsTable, LedgerEntry
  <2>3. \A v \in Writer \ {w} : own'[v] = own[v]
    BY <1>4 DEF LedgerTypeOK, Insert, PutRow
  <2>4. DOMAIN own' = Writer
    BY <1>4 DEF LedgerTypeOK, Insert, PutRow
  <2> QED
    BY <1>4, <2>1, <2>2, <2>3, <2>4 DEF LedgerTypeOK, Insert, PutRow
<1>5. ASSUME NEW w \in Writer, NEW rows, IsTable(rows), EndWith(w, rows)
      PROVE  LedgerTypeOK'
  BY <1>5 DEF LedgerTypeOK, EndWith
<1>6. ASSUME NEW w \in Writer, Conflict(w)
      PROVE  LedgerTypeOK'
  BY <1>6 DEF LedgerTypeOK, Conflict
<1>7. ASSUME NEW w \in Writer, GiveUp(w) \/ Rollback(w) \/ Commit(w)
      PROVE  LedgerTypeOK'
  <2>1. IsTable(table) /\ IsTable(Union(table, own[w]))
    BY UnionType DEF LedgerTypeOK
  <2> QED
    BY <1>5, <1>7, <2>1 DEF GiveUp, Rollback, Commit
<1>8. CASE UNCHANGED ledgerVars
  BY <1>8 DEF LedgerTypeOK, ledgerVars
<1> QED
  BY <1>2, <1>3, <1>4, <1>6, <1>7, <1>8 DEF LedgerNext, Proceed

LEMMA ShapeStep == IInv /\ [LedgerNext]_ledgerVars => IInv'
<1> SUFFICES ASSUME IInv, [LedgerNext]_ledgerVars PROVE IInv'
  OBVIOUS
<1> LedgerTypeOK /\ LedgerTypeOK'
  BY TypeStep DEF IInv
<1>1. ASSUME NEW w \in Writer, Begin(w) \/ CallAppend(w) \/ LockTenant(w) \/ Conflict(w)
      PROVE  IInv'
  <2>1. table' = table /\ own' = own /\ made' = made
    BY <1>1 DEF Begin, CallAppend, LockTenant, Conflict
  <2>2. \A v \in Writer : pc'[v] = "read" => pc[v] = "read" /\ head'[v] = head[v]
    BY <1>1 DEF Begin, CallAppend, LockTenant, Conflict, LedgerTypeOK
  <2> QED
    BY <2>1, <2>2, ShapeKept
<1>2. ASSUME NEW w \in Writer, ReadHead(w)
      PROVE  IInv'
  BY <1>2, ShapeRead
<1>3. ASSUME NEW w \in Writer, Insert(w)
      PROVE  IInv'
  BY <1>3, ShapeInsert
<1>4. ASSUME NEW w \in Writer, Commit(w)
      PROVE  IInv'
  BY <1>4, ShapeCommit
<1>5. ASSUME NEW w \in Writer, GiveUp(w) \/ Rollback(w)
      PROVE  IInv'
  BY <1>5, ShapeEnd DEF GiveUp, Rollback
<1>6. CASE UNCHANGED ledgerVars
  BY <1>6, ShapeKept DEF ledgerVars
<1> QED
  BY <1>1, <1>2, <1>3, <1>4, <1>5, <1>6 DEF LedgerNext, Proceed

THEOREM ShapeAlways == LedgerSpec => []IInv
<1> QED
  BY InitShape, ShapeStep, PTL DEF LedgerSpec

\* Values keep their types.
THEOREM TypeAlways == LedgerSpec => []LedgerTypeOK
<1>1. IInv => LedgerTypeOK
  BY DEF IInv
<1> QED
  BY <1>1, ShapeAlways, PTL

\* The stored ledger always verifies, as does what any transaction sees of it: for any
\* number of concurrent writers, and even where lock_tenant() locks nothing.
THEOREM ChainAlwaysIntact == LedgerSpec => []ChainIntact
<1>1. IInv => ChainIntact
  <2> SUFFICES ASSUME IInv PROVE ChainIntact
    OBVIOUS
  <2> PICK n \in Nat, m \in [Writer -> Nat] : Shape(n, m)
    BY DEF IInv
  <2>1. made \in Nat
    BY DEF IInv, LedgerTypeOK
  <2>2. Chained(table)
    BY <2>1, GoodChained DEF Shape
  <2>3. ASSUME NEW w \in Writer
        PROVE  Chained(Visible(w))
    BY <2>1, GoodChained DEF Shape
  <2> QED
    BY <2>2, <2>3 DEF ChainIntact
<1> QED
  BY <1>1, ShapeAlways, PTL

-----------------------------------------------------------------------------
\* With the advisory lock, only its holder has a head in hand or rows of its own, and
\* the head it has is the end of what it sees.
LInv ==
  Advisory => \A w \in Writer :
    /\ tries[w] = 0
    /\ pc[w] \in {"locked", "read"} \/ DOMAIN own[w] # {} => lock = w
    /\ pc[w] = "read" => head[w] = HeadOf(Visible(w))

LEMMA LockStep == IInv /\ LInv /\ [LedgerNext]_ledgerVars => LInv'
<1> SUFFICES ASSUME IInv, LInv, [LedgerNext]_ledgerVars, Advisory PROVE LInv'
  BY DEF LInv
<1> USE LedgerAssumption
<1> LedgerTypeOK
  BY DEF IInv
<1> PICK n \in Nat, m \in [Writer -> Nat] : Shape(n, m)
  BY DEF IInv
<1>0. DOMAIN NoRows = {}
  BY DEF NoRows
<1>1. ASSUME NEW w \in Writer, Begin(w) \/ CallAppend(w) \/ LockTenant(w)
      PROVE  LInv'
  <2>1. \A v \in Writer : Visible(v)' = Visible(v)
    BY <1>1 DEF Visible, Begin, CallAppend, LockTenant
  <2> QED
    BY <1>1, <2>1 DEF LInv, LedgerTypeOK, Begin, CallAppend, LockTenant
<1>2. ASSUME NEW w \in Writer, ReadHead(w)
      PROVE  LInv'
  <2>1. \A v \in Writer : Visible(v)' = Visible(v)
    BY <1>2 DEF Visible, ReadHead
  <2> QED
    BY <1>2, <2>1 DEF LInv, LedgerTypeOK, ReadHead
<1>3. ASSUME NEW w \in Writer, Insert(w)
      PROVE  LInv'
  <2>1. lock = w /\ lock' = lock
    BY <1>3 DEF LInv, Insert, PutRow, MayInsert
  <2>2. \A v \in Writer \ {w} : own'[v] = own[v] /\ pc'[v] = pc[v] /\ pc[v] # "read"
    BY <1>3, <2>1 DEF LInv, LedgerTypeOK, Insert, PutRow
  <2> QED
    BY <1>3, <2>1, <2>2 DEF LInv, LedgerTypeOK, Insert, PutRow
<1>4. ASSUME NEW w \in Writer, Conflict(w) \/ GiveUp(w)
      PROVE  FALSE
  <2>1. pc[w] = "read" /\ head[w].seq \in DOMAIN table
    BY <1>4 DEF Conflict, GiveUp, MayInsert
  <2>2. head[w].seq = m[w]
    <3>1. Good(Visible(w), m[w], made) /\ m[w] \in Nat /\ made \in Nat
      BY DEF Shape, LedgerTypeOK
    <3>2. HeadOf(Visible(w)).seq = m[w]
      BY <3>1, HeadOfGood
    <3> QED
      BY <2>1, <3>2 DEF LInv
  <2>3. n <= m[w] /\ DOMAIN table = 0..(n - 1)
    BY DEF Shape, Good
  <2> QED
    BY <2>1, <2>2, <2>3
<1>5. ASSUME NEW w \in Writer, NEW rows, EndWith(w, rows),
             \A v \in Writer \ {w} : pc[v] = "read" => Union(rows, own[v]) = Visible(v)
      PROVE  LInv'
  <2>1. \A v \in Writer \ {w} : own'[v] = own[v] /\ pc'[v] = pc[v]
    BY <1>5 DEF EndWith, LedgerTypeOK
  <2>2. tries'[w] = 0 /\ pc'[w] = "idle" /\ own'[w] = NoRows /\ head' = head /\ table' = rows
    BY <1>5 DEF EndWith, LedgerTypeOK
  <2>3. \A v \in Writer \ {w} : lock = v => lock' = v
    BY <1>5 DEF EndWith
  <2>4. \A v \in Writer \ {w} : tries'[v] = tries[v]
    BY <1>5 DEF EndWith, LedgerTypeOK
  <2>5. \A v \in Writer \ {w} : pc[v] = "read" => Visible(v)' = Visible(v)
    BY <1>5, <2>1, <2>2 DEF Visible
  <2> QED
    BY <1>0, <2>1, <2>2, <2>3, <2>4, <2>5 DEF LInv
<1>6. ASSUME NEW w \in Writer, Rollback(w)
      PROVE  LInv'
  BY <1>5, <1>6 DEF Rollback, Visible
<1>7. ASSUME NEW w \in Writer, Commit(w)
      PROVE  LInv'
  <2>1. ASSUME NEW v \in Writer \ {w}, pc[v] = "read"
        PROVE  Union(Union(table, own[w]), own[v]) = Visible(v)
    <3>1. DOMAIN own[w] = {}
      BY <2>1 DEF LInv
    <3>2. Union(table, own[w]) = table
      BY <3>1, UnionEmpty DEF LedgerTypeOK
    <3> QED
      BY <3>2 DEF Visible
  <2> QED
    BY <1>5, <1>7, <2>1 DEF Commit
<1>8. CASE UNCHANGED ledgerVars
  BY <1>8 DEF LInv, ledgerVars, Visible
<1> QED
  BY <1>1, <1>2, <1>3, <1>4, <1>6, <1>7, <1>8 DEF LedgerNext, Proceed

\* With the advisory lock no append ever meets another writer's row: the retries are
\* never used.
THEOREM AlwaysQueued == LedgerSpec => []QueuedNotRacing
<1>1. LedgerInit => LInv
  BY DEF LedgerInit, LInv, NoRows
<1>2. IInv /\ LInv => QueuedNotRacing
  <2> SUFFICES ASSUME IInv, LInv, Advisory, NEW w \in Writer, pc[w] = "read",
                      NEW v \in Writer \ {w}
               PROVE  own[v] = NoRows
    BY DEF QueuedNotRacing, LInv
  <2>1. DOMAIN own[v] = {}
    BY DEF LInv
  <2> QED
    BY <2>1 DEF IInv, LedgerTypeOK, IsTable, NoRows
<1> QED
  BY <1>1, <1>2, ShapeAlways, LockStep, PTL DEF LedgerSpec

-----------------------------------------------------------------------------
\* The log of a chain, entry by entry.
LEMMA LogOfGood ==
  ASSUME NEW t, NEW n \in Nat, NEW h \in Nat, Good(t, n, h)
  PROVE  /\ LogOf(t) \in Seq(LedgerEntry)
         /\ Len(LogOf(t)) = n
         /\ \A i \in 1..n : LogOf(t)[i] = t[i - 1]
<1>1. {k + 1 : k \in DOMAIN t} = 1..n
  <2>1. \A i \in 1..n : i - 1 \in 0..(n - 1) /\ (i - 1) + 1 = i
    OBVIOUS
  <2>2. DOMAIN t = 0..(n - 1)
    BY DEF Good
  <2> QED
    BY <2>1, <2>2
<1>2. LogOf(t) = [i \in 1..n |-> t[i - 1]]
  BY <1>1 DEF LogOf
<1>3. \A i \in 1..n : t[i - 1] \in LedgerEntry
  BY DEF Good, IsTable
<1> QED
  BY <1>2, <1>3

\* The ledger implements an append-only log: whatever transactions do, its readers see
\* it grow at the end, by whole batches, with the links going on.
THEOREM LedgerIsAppendOnly == LedgerSpec => LogGrows
<1>1. LedgerInit => Log!Init
  BY DEF LedgerInit, Log!Init, NoRows, LogOf
<1>2. IInv /\ IInv' /\ [LedgerNext]_ledgerVars
        => [Log!ExtendLog]_(LogOf(table))
  <2> SUFFICES ASSUME IInv, IInv', [LedgerNext]_ledgerVars
               PROVE  LogOf(table)' = LogOf(table) \/ Log!ExtendLog
    OBVIOUS
  <2> PICK n \in Nat, m \in [Writer -> Nat] : Shape(n, m)
    BY DEF IInv
  <2>0. LedgerTypeOK /\ Good(table, n, made)
    BY DEF IInv, Shape
  <2>1. ASSUME NEW w \in Writer, Commit(w)
        PROVE  LogOf(table)' = LogOf(table) \/ Log!ExtendLog
    <3> DEFINE k == m[w]
    <3>1. table' = Visible(w) /\ Good(Visible(w), k, made) /\ k \in Nat /\ n <= k /\ made \in Nat
      BY <2>0, <2>1 DEF Commit, EndWith, Visible, Shape, LedgerTypeOK
    <3>2. CASE k = n
      <4>1. DOMAIN own[w] = {}
        BY <3>2 DEF Shape
      <4>2. table' = table
        BY <2>0, <3>1, <4>1, UnionEmpty DEF Visible, LedgerTypeOK
      <4> QED
        BY <4>2
    <3>3. CASE k # n
      <4>1. \A i \in 1..n : table'[i - 1] = table[i - 1]
        <5>1. \A i \in 1..n : i - 1 \in DOMAIN table
          BY <2>0 DEF Good
        <5> QED
          BY <3>1, <5>1 DEF Visible, Union
      <4>2. /\ Len(LogOf(table)) = n /\ Len(LogOf(table')) = k
            /\ \A i \in 1..n : LogOf(table)[i] = table[i - 1]
            /\ \A i \in 1..k : LogOf(table')[i] = table'[i - 1]
        BY <2>0, <3>1, LogOfGood
      <4>3. \A i \in 1..n : LogOf(table')[i] = LogOf(table)[i]
        BY <3>1, <4>1, <4>2
      <4>4. Log!IsLinked(LogOf(table'))
        <5>1. ASSUME NEW i \in 1..k
              PROVE  LogOf(table')[i].prev =
                       IF i = 1 THEN GENESIS ELSE LogOf(table')[i - 1].hash
          <6>1. i - 1 \in 0..(k - 1) /\ (i # 1 => i - 1 \in 1..k)
            BY <3>1
          <6>2. table'[i - 1].prev =
                  IF i - 1 = 0 THEN GENESIS ELSE table'[(i - 1) - 1].hash
            BY <3>1, <6>1 DEF Good
          <6> QED
            BY <4>2, <6>1, <6>2
        <5> QED
          BY <4>2, <5>1 DEF Log!IsLinked
      <4>5. Len(LogOf(table')) > Len(LogOf(table))
        BY <3>1, <3>3, <4>2
      <4>6. \A i \in 1..Len(LogOf(table)) : LogOf(table')[i] = LogOf(table)[i]
        BY <4>2, <4>3
      <4> QED
        BY <4>4, <4>5, <4>6, Zenon DEF Log!ExtendLog
    <3> QED
      BY <3>2, <3>3
  <2>2. ASSUME table' = table
        PROVE  LogOf(table)' = LogOf(table)
    BY <2>2
  <2> QED
    BY <2>1, <2>2 DEF LedgerNext, Proceed, Begin, CallAppend, LockTenant, ReadHead, Insert,
         Conflict, GiveUp, Rollback, EndWith, ledgerVars
<1> QED
  BY <1>1, <1>2, ShapeAlways, PTL DEF LedgerSpec, LogGrows, Log!Spec

-----------------------------------------------------------------------------
\* A nonempty set of numbers has a least one.
LEMMA LeastNatural ==
  ASSUME NEW T \in SUBSET Nat, T # {}
  PROVE  \E n \in T : \A m \in T : n <= m
<1> DEFINE R == OpToRel(<, Nat)
<1>1. IsWellFoundedOn(R, Nat)
  BY NatLessThanWellFounded
<1>2. \A m, n \in Nat : m < n => <<m, n>> \in R
  BY DEF OpToRel
<1> HIDE DEF R
<1>3. PICK n \in T : \A m \in T : ~ (<<m, n>> \in R)
  BY <1>1, WFMin
<1>4. ASSUME NEW m \in T PROVE n <= m
  <2>1. ~(<<m, n>> \in R)
    BY <1>3
  <2>2. ~(m < n)
    BY <1>2, <2>1
  <2> QED
    BY <2>2
<1> QED
  BY <1>4

\* Of a finite set of indices there is one with k - 1 before it, for each k up to its size.
LEMMA KthIsThere ==
  ASSUME NEW n \in Nat, NEW M \in SUBSET (1..n)
  PROVE  /\ IsFiniteSet(M) /\ Cardinality(M) \in Nat
         /\ \A k \in 1..Cardinality(M) : \E i \in M : Cardinality({j \in M : j < i}) = k - 1
<1> DEFINE Before(i) == {j \in M : j < i}
<1>1. IsFiniteSet(M) /\ Cardinality(M) \in Nat
  <2>1. IsFiniteSet(1..n)
    BY FS_Interval
  <2> QED
    BY <2>1, FS_Subset, FS_CardinalityType
<1>2. \A i : IsFiniteSet(Before(i)) /\ Cardinality(Before(i)) \in Nat
  BY <1>1, FS_Subset, FS_CardinalityType
<1>3. \A i \in M : i \in Nat
  OBVIOUS
<1> DEFINE T == {k \in 1..Cardinality(M) : ~ \E i \in M : Cardinality(Before(i)) = k - 1}
<1>4. ASSUME T # {}
      PROVE  FALSE
  <2>1. T \in SUBSET Nat
    OBVIOUS
  <2> HIDE DEF T
  <2>2. PICK k \in T : \A m \in T : k <= m
    BY <1>4, <2>1, LeastNatural
  <2>3. k \in 1..Cardinality(M) /\ \A i \in M : Cardinality(Before(i)) # k - 1
    BY DEF T
  <2>4. CASE k = 1
    <3>1. M # {}
      BY <1>1, <2>3, <2>4, FS_EmptySet
    <3>2. PICK a \in M : \A j \in M : a <= j
      BY <1>3, <3>1, LeastNatural
    <3>3. \A j \in M : ~(j < a)
      BY <1>3, <3>2
    <3>4. Before(a) = {}
      BY <3>3
    <3> QED
      BY <2>3, <2>4, <3>4, FS_EmptySet
  <2>5. CASE k > 1
    <3>1. k - 1 \in 1..Cardinality(M) /\ k - 1 < k /\ k \in Int
      BY <1>1, <2>3, <2>5
    <3>2. k - 1 \notin T
      BY <2>2, <3>1
    <3>3. PICK i \in M : Cardinality(Before(i)) = (k - 1) - 1
      BY <3>1, <3>2 DEF T
    <3> DEFINE upto == Before(i) \cup {i}
               beyond == {j \in M : j > i}
    <3>4. i \notin Before(i)
      BY <1>3
    <3>5. Cardinality(upto) = k - 1
      <4>1. IsFiniteSet(Before(i)) /\ Cardinality(Before(i)) = (k - 1) - 1
        BY <1>2, <3>3
      <4>2. Cardinality(upto) = Cardinality(Before(i)) + 1
        BY <3>4, <4>1, FS_AddElement
      <4> QED
        BY <3>1, <4>1, <4>2
    <3>6. beyond # {}
      <4> SUFFICES ASSUME beyond = {} PROVE FALSE
        OBVIOUS
      <4>1. \A j \in M : j < i \/ j = i
        BY <1>3
      <4>2. M = upto
        BY <4>1
      <4> HIDE DEF upto
      <4> QED
        BY <1>1, <2>3, <3>1, <3>5, <4>2
    <3>7. PICK b \in beyond : \A j \in beyond : b <= j
      <4>1. beyond \in SUBSET Nat
        BY <1>3
      <4> HIDE DEF beyond
      <4> QED
        BY <3>6, <4>1, LeastNatural
    <3>8. ASSUME NEW j \in M
          PROVE  j < b <=> (j < i \/ j = i)
      <4>1. j \in Nat /\ i \in Nat /\ b \in Nat /\ b > i
        BY <1>3
      <4>2. j > i => b <= j
        BY <3>7
      <4> QED
        BY <4>1, <4>2
    <3>9. Before(b) = upto
      BY <3>8
    <3> HIDE DEF upto
    <3> QED
      BY <2>3, <3>5, <3>9
  <2> QED
    BY <1>1, <2>3, <2>4, <2>5
<1> QED
  BY <1>1, <1>4

-----------------------------------------------------------------------------
\* Who has a key signs.  While the key and servers without it were never mixed, signed entries
\* come after all others; a migration that ran alone has all that is unsigned in hand.
KeySense ==
  /\ writer.by # NoServer =>
       (writer.entry.signed <=> server[writer.by] = "keyed") /\ Len(chain) < MaxEntries
  /\ ~mixed =>
       /\ Plain # {} => /\ \A i \in DOMAIN chain : ~chain[i].signed
                        /\ \A s \in Server : server[s] # "keyed"
       /\ \A i, j \in DOMAIN chain : i < j /\ chain[i].signed => chain[j].signed
       /\ signer.pc = "selected" => signer.alone
  /\ signer.alone => Plain = {} /\ \A i \in DOMAIN chain : ~chain[i].signed => i \in signer.rows
  /\ settled => Plain = {} /\ \A i \in DOMAIN chain : chain[i].signed

\* Row k of an export is entry e of the ledger it was read from.
Exported(r) ==
  /\ r.number + 1 \in DOMAIN chain
  /\ export.from <= chain[r.number + 1].at /\ chain[r.number + 1].at <= export.to
  /\ export.sound => r.signed

ExportSense ==
  /\ export.sound => settled
  /\ \A k \in DOMAIN export.rows : Exported(export.rows[k])
  /\ Whole => \A k \in DOMAIN export.rows : export.rows[k].number = k - 1
  /\ TimesInOrder => \A k \in DOMAIN export.rows :
                       export.rows[k].number = export.rows[1].number + k - 1
  /\ export.pc = "pack" => \A k \in DOMAIN export.rows : export.rows[k].number < export.head

EvidenceInv == EvidenceTypeOK /\ KeySense /\ ExportSense

\* Entries are only added, and keep their time and their signature.
Grown ==
  \A i \in DOMAIN chain : /\ i \in DOMAIN chain' /\ chain'[i].at = chain[i].at
                          /\ chain[i].signed => chain'[i].signed

LEMMA ChainIs ==
  ASSUME EvidenceTypeOK
  PROVE  /\ DOMAIN chain = 1..Len(chain) /\ Len(chain) \in Nat
         /\ \A i \in DOMAIN chain : /\ chain[i] \in SignedEntry /\ chain[i].at \in 0..LastTime
                                    /\ chain[i].at \in Nat /\ chain[i].signed \in BOOLEAN
<1>1. chain \in Seq(SignedEntry)
  BY DEF EvidenceTypeOK
<1>2. /\ DOMAIN chain = 1..Len(chain) /\ Len(chain) \in Nat
      /\ \A i \in DOMAIN chain : chain[i] \in SignedEntry
  BY <1>1, LenProperties, ElementOfSeq
<1> QED
  BY <1>2, EvidenceAssumption DEF SignedEntry

LEMMA ClocksAreMoments ==
  ASSUME EvidenceTypeOK, NEW s \in Server
  PROVE  ClockOf(s) \in 0..LastTime
BY EvidenceAssumption DEF EvidenceTypeOK, ClockOf

-----------------------------------------------------------------------------
\* What each step makes of the types, the chain and the keys.
LEMMA EntryIsAppended ==
  ASSUME EvidenceTypeOK, AppendEntry
  PROVE  /\ chain' \in Seq(SignedEntry) /\ Len(chain') = Len(chain) + 1
         /\ DOMAIN chain' = 1..(Len(chain) + 1)
         /\ \A i \in DOMAIN chain : chain'[i] = chain[i]
         /\ chain'[Len(chain) + 1] = writer.entry
<1>1. chain \in Seq(SignedEntry) /\ writer.entry \in SignedEntry
  BY DEF EvidenceTypeOK
<1>2. chain' = Append(chain, writer.entry)
  BY DEF AppendEntry
<1>3. chain' \in Seq(SignedEntry)
  BY <1>1, <1>2, AppendProperties
<1> QED
  BY <1>1, <1>2, <1>3, AppendProperties, LenProperties, ChainIs

LEMMA EntriesAreSigned ==
  ASSUME EvidenceTypeOK, CommitSigned
  PROVE  /\ chain' \in Seq(SignedEntry) /\ Len(chain') = Len(chain) /\ DOMAIN chain' = DOMAIN chain
         /\ \A i \in DOMAIN chain :
              /\ chain'[i].at = chain[i].at
              /\ chain'[i].signed <=> chain[i].signed \/ i \in signer.rows
<1>1. chain' = [i \in DOMAIN chain |-> IF i \in signer.rows THEN [chain[i] EXCEPT !.signed = TRUE]
                                      ELSE chain[i]]
  BY DEF CommitSigned
<1>2. ASSUME NEW i \in DOMAIN chain
      PROVE  /\ chain'[i] \in SignedEntry /\ chain'[i].at = chain[i].at
             /\ chain'[i].signed <=> chain[i].signed \/ i \in signer.rows
  <2>1. chain[i] \in SignedEntry
    BY ChainIs
  <2> QED
    BY <1>1, <2>1 DEF SignedEntry
<1>3. DOMAIN chain' = 1..Len(chain) /\ Len(chain) \in Nat
  BY <1>1, ChainIs
<1>4. chain' \in [1..Len(chain) -> SignedEntry]
  BY <1>1, <1>2, <1>3
<1>5. chain' \in Seq(SignedEntry) /\ Len(chain') = Len(chain)
  BY <1>3, <1>4, IsASeq
<1> QED
  BY <1>2, <1>3, <1>5, ChainIs

-----------------------------------------------------------------------------
\* A page is in sequence, of entries that match.
LEMMA PageIs ==
  ASSUME EvidenceTypeOK
  PROVE  /\ Matching \in SUBSET (1..Len(chain))
         /\ Page \in Seq(Matching)
         /\ \A k \in DOMAIN Page : /\ k \in Nat /\ Page[k] \in Matching
                                   /\ Cardinality({j \in Matching : j < Page[k]}) = k - 1
<1> DEFINE size == IF Cardinality(Matching) < Batch THEN Cardinality(Matching) ELSE Batch
<1>1. Matching \in SUBSET (1..Len(chain)) /\ Len(chain) \in Nat
  BY ChainIs DEF Matching
<1> DEFINE M == Matching
<1> HIDE DEF M
<1>2. /\ Cardinality(Matching) \in Nat
      /\ \A k \in 1..Cardinality(Matching) :
           \E i \in Matching : Cardinality({j \in Matching : j < i}) = k - 1
  BY <1>1, KthIsThere
<1>3. size \in 0..Cardinality(Matching)
  BY <1>2, EvidenceAssumption
<1>4. Page = [k \in 1..size |->
                CHOOSE i \in Matching : Cardinality({j \in Matching : j < i}) = k - 1]
  BY DEF Page
<1> HIDE DEF size
<1>5. ASSUME NEW k \in 1..size
      PROVE  Page[k] \in Matching /\ Cardinality({j \in Matching : j < Page[k]}) = k - 1
  <2>1. k \in 1..Cardinality(Matching)
    BY <1>2, <1>3
  <2>2. \E i \in Matching : Cardinality({j \in Matching : j < i}) = k - 1
    BY <1>2, <2>1
  <2>3. Page[k] = CHOOSE i \in Matching : Cardinality({j \in Matching : j < i}) = k - 1
    BY <1>4
  <2> QED
    BY <2>2, <2>3
<1>6. DOMAIN Page = 1..size /\ size \in Nat
  BY <1>2, <1>3, <1>4
<1>7. Page \in [1..size -> Matching]
  BY <1>4, <1>5
<1>8. Page \in Seq(Matching)
  BY <1>6, <1>7, IsASeq
<1> QED
  BY <1>1, <1>5, <1>6, <1>8

\* When what matches is all from one entry on to another, so is the page.
LEMMA PageOfInterval ==
  ASSUME EvidenceTypeOK, NEW a \in Matching, \A i \in Matching : a <= i,
         \A i \in Matching, j \in DOMAIN chain : a <= j /\ j <= i => j \in Matching,
         NEW k \in DOMAIN Page
  PROVE  Page[k] = a + k - 1
<1> DEFINE i == Page[k]
<1>1. /\ i \in Matching /\ Cardinality({j \in Matching : j < i}) = k - 1 /\ k \in Nat
      /\ Matching \in SUBSET (1..Len(chain))
  BY PageIs
<1> HIDE DEF i
<1>2. i \in Nat /\ a \in Nat /\ a <= i /\ DOMAIN chain = 1..Len(chain) /\ Len(chain) \in Nat
  BY <1>1, ChainIs
<1>3. ASSUME NEW j
      PROVE  j \in {x \in Matching : x < i} <=> j \in a..(i - 1)
  <2>1. ASSUME j \in Matching, j < i
        PROVE  j \in a..(i - 1)
    BY <1>1, <1>2, <2>1
  <2>2. ASSUME j \in a..(i - 1)
        PROVE  j \in Matching /\ j < i
    <3>1. j \in Int /\ a <= j /\ j <= i /\ j < i
      BY <1>2, <2>2
    <3>2. i <= Len(chain) /\ 1 <= a
      BY <1>1
    <3>3. j \in DOMAIN chain
      BY <1>2, <3>1, <3>2
    <3> QED
      BY <1>1, <3>1, <3>3
  <2> QED
    BY <2>1, <2>2
<1>4. {x \in Matching : x < i} = a..(i - 1)
  BY <1>3
<1>5. Cardinality(a..(i - 1)) = i - a
  <2>1. a \in Int /\ i - 1 \in Int
    BY <1>2
  <2>2. Cardinality(a..(i - 1)) = IF a > i - 1 THEN 0 ELSE (i - 1) - a + 1
    BY <2>1, FS_Interval
  <2> QED
    BY <1>2, <2>2
<1>6. k - 1 = i - a
  BY <1>1, <1>4, <1>5
<1> QED
  BY <1>1, <1>2, <1>6 DEF i

-----------------------------------------------------------------------------
\* There is room for the entry that was made, for its writer alone appends.
LEMMA RoomIsKept ==
  ASSUME EvidenceTypeOK, KeySense, AppendEntry
  PROVE  Len(chain') <= MaxEntries
<1>1. Len(chain) < MaxEntries
  BY DEF KeySense, AppendEntry
<1> QED
  BY <1>1, EntryIsAppended, ChainIs, EvidenceAssumption

Row == [number : 0..(MaxEntries - 1), signed : BOOLEAN]

LEMMA RowsAre ==
  ASSUME EvidenceTypeOK
  PROVE  /\ export.rows \in Seq(Row) /\ Len(export.rows) \in Nat
         /\ DOMAIN export.rows = 1..Len(export.rows)
         /\ \A k \in DOMAIN export.rows : export.rows[k] \in Row /\ export.rows[k].number \in Nat
         /\ After = IF Len(export.rows) = 0 THEN 0 ELSE export.rows[Len(export.rows)].number + 1
<1>1. export.rows \in Seq(Row)
  BY DEF EvidenceTypeOK, Export, Row
<1> DEFINE rs == export.rows
<1>2. rs \in Seq(Row)
  BY <1>1
<1>3. After = IF rs = << >> THEN 0 ELSE rs[Len(rs)].number + 1
  BY DEF After, Last
<1> HIDE DEF rs
<1>4. Len(rs) \in Nat /\ DOMAIN rs = 1..Len(rs) /\ \A k \in DOMAIN rs : rs[k] \in Row
  BY <1>2, LenProperties, ElementOfSeq
<1>5. rs = << >> <=> Len(rs) = 0
  BY <1>2, EmptySeq
<1>6. \A k \in DOMAIN rs : rs[k].number \in Nat
  BY <1>4, EvidenceAssumption DEF Row
<1>7. After = IF Len(rs) = 0 THEN 0 ELSE rs[Len(rs)].number + 1
  BY <1>3, <1>5
<1> QED
  BY <1>2, <1>4, <1>6, <1>7 DEF rs

\* What a page that is not empty makes of the export.
RowsAreRead ==
  /\ export' \in Export
  /\ export'.pc \in {"page", "refused"}
  /\ export'.pc # "refused" => Len(export'.rows) <= MaxEvidence
  /\ export'.from = export.from /\ export'.to = export.to /\ export'.sound = export.sound
  /\ DOMAIN export'.rows = 1..(Len(export.rows) + Len(Page)) /\ Len(Page) \in Nat \ {0}
  /\ \A k \in DOMAIN export.rows : export'.rows[k] = export.rows[k]
  /\ \A k \in DOMAIN Page :
       export'.rows[Len(export.rows) + k] =
         [number |-> Page[k] - 1, signed |-> chain[Page[k]].signed]

LEMMA PageIsRead ==
  ASSUME EvidenceTypeOK, ReadPage, Page # << >>
  PROVE  RowsAreRead
<1> DEFINE rs == export.rows
           q == [k \in DOMAIN Page |-> [number |-> Page[k] - 1, signed |-> chain[Page[k]].signed]]
           read == rs \o q
<1>1. export.pc = "page" /\ export \in Export
  BY DEF ReadPage, EvidenceTypeOK
<1>2. export' = [export EXCEPT !.rows = read,
                               !.pc = IF TooMany(Len(read)) THEN "refused" ELSE "page"]
  BY DEF ReadPage
<1>3. Page \in Seq(Matching) /\ Matching \in SUBSET (1..Len(chain))
  BY PageIs
<1>4. DOMAIN Page = 1..Len(Page) /\ Len(Page) \in Nat \ {0}
  BY <1>3, LenProperties, EmptySeq
<1>5. \A k \in DOMAIN Page : q[k] \in Row
  <2>1. \A i \in Matching : i \in 1..MaxEntries /\ i \in DOMAIN chain
    BY <1>3, ChainIs, EvidenceAssumption DEF EvidenceTypeOK
  <2>2. \A i \in Matching : i - 1 \in 0..(MaxEntries - 1) /\ chain[i].signed \in BOOLEAN
    BY <2>1, ChainIs, EvidenceAssumption
  <2> QED
    BY <2>2, PageIs DEF Row
<1>6. q \in Seq(Row) /\ Len(q) = Len(Page) /\ DOMAIN q = DOMAIN Page
  <2>1. q \in [1..Len(Page) -> Row]
    BY <1>4, <1>5
  <2> HIDE DEF q
  <2>2. q \in Seq(Row) /\ DOMAIN q = 1..Len(Page)
    BY <1>4, <2>1, IsASeq
  <2>3. Len(q) = Len(Page)
    BY <1>4, <2>2, LenProperties
  <2> QED
    BY <1>4, <2>2, <2>3
<1>7. rs \in Seq(Row) /\ DOMAIN rs = 1..Len(rs) /\ Len(rs) \in Nat
  BY RowsAre
<1> HIDE DEF rs, q
<1>8. /\ read \in Seq(Row) /\ Len(read) = Len(rs) + Len(q)
      /\ \A k \in 1..(Len(rs) + Len(q)) : read[k] = IF k <= Len(rs) THEN rs[k] ELSE q[k - Len(rs)]
  BY <1>6, <1>7, ConcatProperties
<1>9. DOMAIN read = 1..(Len(rs) + Len(q))
  BY <1>8, LenProperties
<1> HIDE DEF read
<1>10. /\ export'.rows = read /\ export'.pc = (IF TooMany(Len(read)) THEN "refused" ELSE "page")
       /\ export'.from = export.from /\ export'.to = export.to /\ export'.sound = export.sound
  BY <1>1, <1>2 DEF Export
<1>11. export' \in Export
  BY <1>1, <1>2, <1>8 DEF Export, Row
<1>12. export'.pc # "refused" => Len(export'.rows) <= MaxEvidence
  <2>1. Len(read) \in Nat /\ MaxEvidence \in Nat
    BY <1>4, <1>6, <1>7, <1>8, EvidenceAssumption
  <2> QED
    BY <1>10, <2>1 DEF TooMany
<1>13. \A k \in DOMAIN rs : export'.rows[k] = rs[k]
  <2>1. \A k \in DOMAIN rs : k \in 1..(Len(rs) + Len(q)) /\ k <= Len(rs)
    BY <1>4, <1>6, <1>7
  <2> QED
    BY <1>8, <1>10, <2>1
<1>14. \A k \in DOMAIN Page : export'.rows[Len(rs) + k] = q[k]
  <2>1. \A k \in DOMAIN Page : /\ Len(rs) + k \in 1..(Len(rs) + Len(q)) /\ ~(Len(rs) + k <= Len(rs))
                               /\ (Len(rs) + k) - Len(rs) = k
    BY <1>4, <1>6, <1>7
  <2> QED
    BY <1>8, <1>10, <2>1
<1>15. \A k \in DOMAIN Page : export'.rows[Len(rs) + k] =
                                [number |-> Page[k] - 1, signed |-> chain[Page[k]].signed]
  BY <1>14 DEF q
<1>16. DOMAIN export'.rows = 1..(Len(rs) + Len(Page))
  BY <1>6, <1>9, <1>10
<1>17. export'.pc \in {"page", "refused"}
  BY <1>10
<1> HIDE DEF rs
<1> QED
  BY <1>4, <1>10, <1>11, <1>12, <1>13, <1>15, <1>16, <1>17 DEF RowsAreRead, rs

-----------------------------------------------------------------------------
LEMMA EvidenceTypeStep ==
  ASSUME EvidenceTypeOK, KeySense, [EvidenceNext]_evidenceVars
  PROVE  EvidenceTypeOK'
<1>1. CASE UNCHANGED evidenceVars
  BY <1>1 DEF evidenceVars, EvidenceTypeOK
<1>2. CASE ClockTick
  BY <1>2, EvidenceAssumption DEF ClockTick, EvidenceTypeOK
<1>3. ASSUME NEW s \in Server, Stop(s)
      PROVE  EvidenceTypeOK'
  BY <1>3, EvidenceAssumption DEF Stop, EvidenceTypeOK, NoEntry, SignedEntry
<1>4. ASSUME NEW s \in Server, Start(s)
      PROVE  EvidenceTypeOK'
  BY <1>4, EvidenceAssumption DEF Start, EvidenceTypeOK, Plain
<1>5. ASSUME NEW s \in Server, MakeEntry(s)
      PROVE  EvidenceTypeOK'
  <2>1. ClockOf(s) \in 0..LastTime /\ SignedBy(s) \in BOOLEAN
    BY ClocksAreMoments DEF SignedBy
  <2>2. writer' \in [by : Server \cup {NoServer}, entry : SignedEntry] /\ writer'.by = s
    BY <1>5, <2>1 DEF MakeEntry, SignedEntry
  <2> QED
    BY <1>5, <2>2 DEF MakeEntry, EvidenceTypeOK
<1>6. CASE AppendEntry
  <2>1. Len(chain') <= MaxEntries
    BY <1>6, RoomIsKept
  <2>2. chain' \in Seq(SignedEntry) /\ DOMAIN chain' = 1..(Len(chain) + 1) /\ Len(chain) \in Nat
    BY <1>6, EntryIsAppended, ChainIs
  <2>3. writer' \in [by : Server \cup {NoServer}, entry : SignedEntry] /\ writer'.by = NoServer
    BY <1>6, EvidenceAssumption DEF AppendEntry, NoEntry, SignedEntry
  <2>4. \A i \in DOMAIN chain : i \in DOMAIN chain'
    BY <2>2, ChainIs
  <2>5. signer' \in [pc : {"idle", "selected"}, rows : SUBSET DOMAIN chain', alone : BOOLEAN]
    BY <1>6, <2>4 DEF AppendEntry, EvidenceTypeOK
  <2> QED
    BY <1>6, <2>1, <2>2, <2>3, <2>5 DEF AppendEntry, EvidenceTypeOK
<1>7. CASE SelectUnsigned
  BY <1>7 DEF SelectUnsigned, EvidenceTypeOK, Unsigned, Plain
<1>8. CASE CommitSigned
  BY <1>8, EntriesAreSigned DEF CommitSigned, EvidenceTypeOK
<1>9. ASSUME NEW to \in 0..LastTime, NEW from \in 0..to, BeginExport(from, to)
      PROVE  EvidenceTypeOK'
  <2>1. from \in 0..LastTime
    BY EvidenceAssumption
  <2>2. NoExport \in Export /\ NoExport.rows = << >>
    BY EvidenceAssumption DEF NoExport, Export
  <2>3. export' = [NoExport EXCEPT !.pc = "page", !.from = from, !.to = to, !.sound = settled]
    BY <1>9 DEF BeginExport
  <2>4. export' \in Export /\ export'.rows = << >>
    BY <2>1, <2>2, <2>3 DEF Export, EvidenceTypeOK
  <2>5. Len(export'.rows) <= MaxEvidence
    BY <2>4, EvidenceAssumption
  <2> QED
    BY <1>9, <2>4, <2>5 DEF BeginExport, EvidenceTypeOK
<1>10. CASE ReadPage
  <2>1. CASE Page = << >>
    <3>1. export' = [export EXCEPT !.pc = "head"] /\ export.pc = "page"
      BY <1>10, <2>1 DEF ReadPage
    <3>2. export' \in Export /\ export'.rows = export.rows
      BY <3>1 DEF EvidenceTypeOK, Export
    <3> QED
      BY <1>10, <3>1, <3>2 DEF ReadPage, EvidenceTypeOK
  <2>2. CASE Page # << >>
    <3>1. /\ export' \in Export
          /\ export'.pc # "refused" => Len(export'.rows) <= MaxEvidence
      BY <1>10, <2>2, PageIsRead DEF RowsAreRead
    <3> QED
      BY <1>10, <3>1 DEF ReadPage, EvidenceTypeOK
  <2> QED
    BY <2>1, <2>2
<1>11. CASE ReadPackHead
  <2>1. export' = [export EXCEPT !.pc = "pack", !.head = Len(chain)] /\ export.pc = "head"
    BY <1>11 DEF ReadPackHead
  <2>2. Len(chain) \in 0..MaxEntries
    BY ChainIs, EvidenceAssumption DEF EvidenceTypeOK
  <2>3. export' \in Export /\ export'.rows = export.rows
    BY <2>1, <2>2 DEF EvidenceTypeOK, Export
  <2> QED
    BY <1>11, <2>1, <2>3 DEF ReadPackHead, EvidenceTypeOK
<1> QED
  BY <1>1, <1>2, <1>3, <1>4, <1>5, <1>6, <1>7, <1>8, <1>9, <1>10, <1>11 DEF EvidenceNext


LEMMA KeyStep ==
  ASSUME EvidenceTypeOK, KeySense, [EvidenceNext]_evidenceVars
  PROVE  KeySense'
<1>1. ASSUME UNCHANGED <<chain, server, writer, signer, settled, mixed>>
      PROVE  KeySense'
  BY <1>1 DEF KeySense, Plain
<1>2. ASSUME NEW s \in Server, Stop(s)
      PROVE  KeySense'
  <2>1. Plain' \subseteq Plain /\ server' = [server EXCEPT ![s] = "down"] /\ server[s] = "plain"
    BY <1>2 DEF Stop, Plain, EvidenceTypeOK
  <2>2. \A t \in Server : server'[t] = "keyed" => server[t] = "keyed"
    BY <2>1 DEF EvidenceTypeOK
  <2>3. UNCHANGED <<chain, signer, settled, mixed>>
    BY <1>2 DEF Stop
  <2>4. (writer.by # NoServer =>
           (writer.entry.signed <=> server[writer.by] = "keyed") /\ Len(chain) < MaxEntries)'
    <3>1. CASE writer.by = s
      BY <1>2, <3>1, EvidenceAssumption DEF Stop
    <3>2. CASE writer.by # s
      <4>1. writer' = writer
        BY <1>2, <3>2 DEF Stop
      <4>2. writer.by # NoServer => writer.by \in Server /\ server'[writer.by] = server[writer.by]
        BY <2>1, <3>2 DEF EvidenceTypeOK
      <4> QED
        BY <2>3, <4>1, <4>2 DEF KeySense
    <3> QED
      BY <3>1, <3>2
  <2> QED
    BY <2>1, <2>2, <2>3, <2>4 DEF KeySense
<1>3. ASSUME NEW s \in Server, Start(s)
      PROVE  KeySense'
  <2>1. Plain' = Plain /\ server' = [server EXCEPT ![s] = "keyed"] /\ server[s] = "down"
    BY <1>3 DEF Start, Plain, EvidenceTypeOK
  <2>2. UNCHANGED <<chain, writer, signer, settled>> /\ (~mixed' => ~mixed /\ Plain = {})
    BY <1>3 DEF Start
  <2>3. writer.by # NoServer => writer.by \in Server /\ server'[writer.by] = server[writer.by]
    BY <2>1 DEF EvidenceTypeOK
  <2> QED
    BY <2>1, <2>2, <2>3 DEF KeySense
<1>4. ASSUME NEW s \in Server, MakeEntry(s)
      PROVE  KeySense'
  <2>1. UNCHANGED <<chain, server, signer, settled, mixed>> /\ Plain' = Plain
    BY <1>4 DEF MakeEntry, Plain
  <2>2. writer'.by = s /\ (writer'.entry.signed <=> server[s] = "keyed") /\ Len(chain) < MaxEntries
    BY <1>4 DEF MakeEntry, SignedBy
  <2> QED
    BY <2>1, <2>2 DEF KeySense
<1>5. CASE AppendEntry
  <2>1. UNCHANGED <<server, signer, settled, mixed>> /\ writer'.by = NoServer /\ Plain' = Plain
    BY <1>5 DEF AppendEntry, Plain
  <2> DEFINE n == Len(chain) + 1
  <2>2. /\ DOMAIN chain = 1..(n - 1) /\ n \in Nat /\ DOMAIN chain' = 1..n
        /\ \A i \in DOMAIN chain : chain'[i] = chain[i]
        /\ chain'[n] = writer.entry
    BY <1>5, EntryIsAppended, ChainIs
  <2>3. \A i \in DOMAIN chain' : i \in DOMAIN chain \/ i = n
    BY <2>2
  <2>4. writer.by \in Server /\ server[writer.by] \in {"plain", "keyed"}
        /\ (chain'[n].signed <=> server[writer.by] = "keyed")
    BY <1>5, <2>2 DEF AppendEntry, EvidenceTypeOK, KeySense
  <2>5. Plain = {} => chain'[n].signed
    BY <2>4 DEF Plain
  <2>6. \A i \in DOMAIN chain, j \in DOMAIN chain' : j < i => j \in DOMAIN chain
    BY <2>2
  <2>7. \A j \in DOMAIN chain' : n < j => FALSE
    BY <2>2
  <2> HIDE DEF n
  <2>8. ASSUME ~mixed, Plain # {}
        PROVE  \A i \in DOMAIN chain' : ~chain'[i].signed
    BY <2>2, <2>3, <2>4, <2>8 DEF KeySense
  <2>9. ASSUME ~mixed, NEW i \in DOMAIN chain', NEW j \in DOMAIN chain', i < j, chain'[i].signed
        PROVE  chain'[j].signed
    <3>1. i \in DOMAIN chain /\ chain[i].signed
      BY <2>2, <2>3, <2>7, <2>9
    <3>2. Plain = {}
      BY <2>9, <3>1 DEF KeySense
    <3> QED
      BY <2>2, <2>3, <2>5, <2>9, <3>1, <3>2 DEF KeySense
  <2>10. signer.alone =>
           Plain = {} /\ \A i \in DOMAIN chain' : ~chain'[i].signed => i \in signer.rows
    BY <2>2, <2>3, <2>5 DEF KeySense
  <2>11. settled => Plain = {} /\ \A i \in DOMAIN chain' : chain'[i].signed
    BY <2>2, <2>3, <2>5 DEF KeySense
  <2> QED
    BY <2>1, <2>8, <2>9, <2>10, <2>11 DEF KeySense
<1>6. CASE SelectUnsigned
  <2>1. /\ UNCHANGED <<chain, server, writer, settled>> /\ Plain' = Plain
        /\ mixed' = (mixed \/ Plain # {})
        /\ signer' = [pc |-> "selected", rows |-> Unsigned, alone |-> Plain = {}]
    BY <1>6 DEF SelectUnsigned, Plain
  <2>2. signer'.alone <=> Plain = {}
    BY <2>1
  <2>3. \A i \in DOMAIN chain : ~chain[i].signed => i \in signer'.rows
    BY <2>1 DEF Unsigned
  <2> QED
    BY <2>1, <2>2, <2>3 DEF KeySense
<1>7. CASE CommitSigned
  <2>1. /\ UNCHANGED <<server, writer, mixed>> /\ Plain' = Plain
        /\ settled' = (settled \/ signer.alone) /\ ~signer'.alone /\ signer'.pc = "idle"
        /\ signer.pc = "selected"
    BY <1>7 DEF CommitSigned, Plain
  <2>2. /\ DOMAIN chain' = DOMAIN chain /\ Len(chain') = Len(chain)
        /\ \A i \in DOMAIN chain : chain'[i].signed <=> chain[i].signed \/ i \in signer.rows
    BY <1>7, EntriesAreSigned
  <2>3. ASSUME settled \/ signer.alone
        PROVE  Plain = {} /\ \A i \in DOMAIN chain' : chain'[i].signed
    BY <2>2, <2>3 DEF KeySense
  <2>4. ~mixed => signer.alone
    BY <2>1 DEF KeySense
  <2> QED
    BY <2>1, <2>2, <2>3, <2>4 DEF KeySense
<1>8. CASE UNCHANGED evidenceVars
  BY <1>1, <1>8 DEF evidenceVars
<1>9. CASE ClockTick
  BY <1>1, <1>9 DEF ClockTick
<1>10. ASSUME NEW to \in 0..LastTime, NEW from \in 0..to, BeginExport(from, to)
       PROVE  KeySense'
  BY <1>1, <1>10 DEF BeginExport
<1>11. CASE ReadPage \/ ReadPackHead
  BY <1>1, <1>11 DEF ReadPage, ReadPackHead
<1> QED
  BY <1>2, <1>3, <1>4, <1>5, <1>6, <1>7, <1>8, <1>9, <1>10, <1>11 DEF EvidenceNext

-----------------------------------------------------------------------------
\* What an export has read stays true of a ledger that only grows.
LEMMA ExportIsKept ==
  ASSUME EvidenceTypeOK, ExportSense, Grown, settled => settled', export' = export
  PROVE  ExportSense'
<1>1. TimesInOrder' => TimesInOrder
  <2>1. ASSUME TimesInOrder', NEW i \in DOMAIN chain, NEW j \in DOMAIN chain, i < j
        PROVE  chain[i].at <= chain[j].at
    <3>1. chain'[i].at <= chain'[j].at
      BY <2>1 DEF TimesInOrder, Grown
    <3> QED
      BY <3>1 DEF Grown
  <2> QED
    BY <2>1 DEF TimesInOrder
<1>2. Whole' <=> Whole
  BY DEF Whole
<1>3. ASSUME NEW k \in DOMAIN export.rows
      PROVE  Exported(export.rows[k])'
  <2>1. Exported(export.rows[k])
    BY DEF ExportSense
  <2> QED
    BY <2>1 DEF Exported, Grown
<1> QED
  BY <1>1, <1>2, <1>3 DEF ExportSense

\* The page that comes next begins where the last one ended and leaves nothing out: of the
\* whole ledger, and of a range in which the entries' times are in order.
LEMMA PageFollows ==
  ASSUME EvidenceTypeOK, ExportSense, Page # << >>, Whole \/ TimesInOrder
  PROVE  \E a \in Matching : /\ \A m \in DOMAIN Page : Page[m] = a + m - 1
                             /\ export.rows # << >> \/ Whole => a = After + 1
<1>1. /\ Matching \in SUBSET (1..Len(chain)) /\ Page \in Seq(Matching)
      /\ DOMAIN chain = 1..Len(chain) /\ Len(chain) \in Nat
  BY PageIs, ChainIs
<1>2. Matching # {}
  <2>1. Len(Page) \in Nat \ {0} /\ DOMAIN Page = 1..Len(Page)
    BY <1>1, LenProperties, EmptySeq
  <2>2. 1 \in DOMAIN Page
    BY <2>1
  <2> QED
    BY <2>2, PageIs
<1>3. PICK a \in Matching : \A i \in Matching : a <= i
  <2>1. Matching \in SUBSET Nat
    BY <1>1
  <2> QED
    BY <1>2, <2>1, LeastNatural
<1>4. /\ After \in Nat /\ export.from \in Nat /\ export.to \in Nat
      /\ export.rows # << >> => /\ Len(export.rows) \in DOMAIN export.rows
                                /\ After = export.rows[Len(export.rows)].number + 1
  <2>1. export.from \in Nat /\ export.to \in Nat
    BY EvidenceAssumption DEF EvidenceTypeOK, Export
  <2>2. export.rows # << >> => Len(export.rows) # 0
    BY RowsAre, EmptySeq
  <2>3. Len(export.rows) # 0 => Len(export.rows) \in DOMAIN export.rows
    BY RowsAre
  <2> QED
    BY <2>1, <2>2, <2>3, RowsAre
<1>5. /\ a \in Nat /\ a > After /\ a \in DOMAIN chain
      /\ chain[a].at <= export.to /\ export.from <= chain[a].at
  BY <1>1 DEF Matching
<1>6. ASSUME NEW i \in DOMAIN chain, NEW j \in DOMAIN chain, i <= j
      PROVE  /\ Whole => export.from <= chain[i].at /\ chain[i].at <= export.to
             /\ ~Whole => chain[i].at <= chain[j].at
  <2>1. chain[i].at \in 0..LastTime /\ chain[i].at \in Nat /\ chain[j].at \in Nat
    BY ChainIs
  <2>2. i = j \/ i < j
    BY <1>1, <1>6
  <2> QED
    BY <2>1, <2>2, EvidenceAssumption DEF Whole, TimesInOrder
<1>7. ASSUME NEW i \in Matching, NEW j \in DOMAIN chain, a <= j, j <= i
      PROVE  j \in Matching
  <2>1. i \in DOMAIN chain /\ j > After /\ chain[i].at <= export.to /\ export.from <= chain[a].at
    BY <1>1, <1>4, <1>5, <1>7 DEF Matching
  <2>2. export.from <= chain[j].at /\ chain[j].at <= export.to
    <3>1. chain[i].at \in Nat /\ chain[j].at \in Nat /\ chain[a].at \in Nat
      BY <1>5, <2>1, ChainIs
    <3> QED
      BY <1>4, <1>5, <1>6, <1>7, <2>1, <3>1
  <2> QED
    BY <2>1, <2>2 DEF Matching
<1>8. \A m \in DOMAIN Page : Page[m] = a + m - 1
  BY <1>3, <1>7, PageOfInterval
<1>9. ASSUME export.rows # << >> \/ Whole
      PROVE  a = After + 1
  <2> DEFINE b == After + 1
  <2>1. b \in DOMAIN chain /\ b <= a /\ b > After
    BY <1>1, <1>4, <1>5
  <2>2. chain[b].at \in Nat /\ chain[a].at \in Nat
    BY <1>5, <2>1, ChainIs
  <2>3. CASE Whole
    <3>1. b \in Matching
      BY <1>5, <1>6, <2>1, <2>3 DEF Matching
    <3> QED
      BY <1>3, <1>4, <1>5, <2>1, <3>1
  <2>4. CASE ~Whole
    <3>1. Exported(export.rows[Len(export.rows)])
      BY <1>4, <1>9, <2>4 DEF ExportSense
    <3>2. After \in DOMAIN chain /\ export.from <= chain[After].at
      BY <1>4, <1>9, <2>4, <3>1 DEF Exported
    <3>3. chain[After].at <= chain[b].at /\ chain[b].at <= chain[a].at
      BY <1>4, <1>5, <1>6, <2>1, <2>4, <3>2
    <3>4. export.from <= chain[b].at /\ chain[b].at <= export.to
      <4>1. chain[After].at \in Nat
        BY <3>2, ChainIs
      <4> QED
        BY <1>4, <1>5, <2>2, <3>2, <3>3, <4>1
    <3>5. b \in Matching
      BY <2>1, <3>4 DEF Matching
    <3> QED
      BY <1>3, <1>4, <1>5, <2>1, <3>5
  <2> QED
    BY <2>3, <2>4
<1> QED
  BY <1>8, <1>9

LEMMA PageKeepsSense ==
  ASSUME EvidenceTypeOK, KeySense, ExportSense, ReadPage, Page # << >>
  PROVE  ExportSense'
<1> DEFINE n == Len(export.rows)
           row(k) == export'.rows[k]
<1>1. RowsAreRead /\ UNCHANGED <<chain, settled>>
  BY PageIsRead DEF ReadPage
<1>2. n \in Nat /\ DOMAIN export.rows = 1..n
  BY RowsAre
<1>3. Page \in Seq(Matching) /\ Matching \in SUBSET (1..Len(chain))
      /\ DOMAIN chain = 1..Len(chain) /\ Len(chain) \in Nat
  BY PageIs, ChainIs
<1>4. DOMAIN Page = 1..Len(Page) /\ Len(Page) \in Nat \ {0}
  BY <1>1, <1>3, LenProperties DEF RowsAreRead
<1>5. \A m \in DOMAIN Page : Page[m] \in Matching /\ Page[m] \in Nat
  <2>1. \A i \in Matching : i \in Nat
    BY <1>3
  <2> QED
    BY <2>1, PageIs
<1>6. ASSUME NEW k \in DOMAIN export'.rows
      PROVE  k \in Nat /\ (k \in DOMAIN export.rows \/ \E m \in DOMAIN Page : k = n + m)
  <2>1. k \in 1..(n + Len(Page))
    BY <1>1, <1>6 DEF RowsAreRead
  <2>2. k <= n \/ k > n
    BY <1>2, <2>1
  <2>3. k > n => k - n \in DOMAIN Page /\ k = n + (k - n)
    BY <1>2, <1>4, <2>1
  <2> QED
    BY <1>2, <2>1, <2>2, <2>3
<1>7. \A k \in DOMAIN export.rows : row(k) = export.rows[k]
  BY <1>1 DEF RowsAreRead
<1>8. ASSUME NEW m \in DOMAIN Page, NEW k, k = n + m
       PROVE  row(k).number = Page[m] - 1 /\ row(k).signed = chain[Page[m]].signed
  <2>1. row(n + m) = [number |-> Page[m] - 1, signed |-> chain[Page[m]].signed]
    BY <1>1 DEF RowsAreRead
  <2>2. row(k) = [number |-> Page[m] - 1, signed |-> chain[Page[m]].signed]
    BY <1>8, <2>1
  <2> HIDE DEF row
  <2> QED
    BY <2>2
<1>9. Whole' = Whole /\ TimesInOrder' = TimesInOrder
  BY <1>1 DEF Whole, TimesInOrder, RowsAreRead
<1>10. export'.sound = export.sound /\ export'.from = export.from /\ export'.to = export.to
      /\ export'.pc # "pack"
  BY <1>1 DEF RowsAreRead
<1>11. ASSUME NEW k \in DOMAIN export'.rows
       PROVE  Exported(export.rows[k])'
  <2>1. CASE k \in DOMAIN export.rows
    <3>1. Exported(export.rows[k])
      BY <2>1 DEF ExportSense
    <3> QED
      BY <1>1, <1>7, <1>10, <2>1, <3>1 DEF Exported
  <2>2. CASE k \notin DOMAIN export.rows
    <3>1. PICK m \in DOMAIN Page : k = n + m
      BY <1>6, <1>11, <2>2
    <3>2. row(k).number = Page[m] - 1 /\ row(k).signed = chain[Page[m]].signed
      BY <1>8, <3>1
    <3>3. Page[m] \in Matching /\ Page[m] \in Nat /\ (Page[m] - 1) + 1 = Page[m]
      BY <1>5
    <3>4. export.sound => chain[Page[m]].signed
      BY <3>3 DEF ExportSense, KeySense, Matching
    <3> QED
      BY <1>1, <1>10, <3>2, <3>3, <3>4 DEF Exported, Matching
  <2> QED
    BY <2>1, <2>2
<1>12. ASSUME Whole, NEW k \in DOMAIN export'.rows
       PROVE  row(k).number = k - 1
  <2>1. CASE k \in DOMAIN export.rows
    BY <1>7, <1>12, <2>1 DEF ExportSense
  <2>2. CASE k \notin DOMAIN export.rows
    <3>1. PICK m \in DOMAIN Page : k = n + m
      BY <1>6, <1>12, <2>2
    <3>2. PICK a \in Matching : a = After + 1 /\ \A i \in DOMAIN Page : Page[i] = a + i - 1
      BY <1>12, PageFollows
    <3>3. After = n
      <4>1. n # 0 => n \in DOMAIN export.rows
        BY <1>2
      <4>2. n # 0 => export.rows[n].number = n - 1
        BY <1>12, <4>1 DEF ExportSense
      <4> QED
        BY <1>2, <4>2, RowsAre
    <3>4. Page[m] = (n + 1) + m - 1
      BY <3>2, <3>3
    <3>5. row(k).number = Page[m] - 1
      BY <1>8, <3>1
    <3>6. m \in Nat
      BY <1>4
    <3> QED
      BY <1>2, <3>1, <3>4, <3>5, <3>6
  <2> QED
    BY <2>1, <2>2
<1>13. ASSUME TimesInOrder, NEW k \in DOMAIN export'.rows
       PROVE  row(k).number = row(1).number + k - 1
  <2> HIDE DEF row, n
  <2>1. PICK a \in Matching : /\ \A i \in DOMAIN Page : Page[i] = a + i - 1
                              /\ export.rows # << >> => a = After + 1
    BY <1>13, PageFollows
  <2>2. a \in Nat
    BY <1>3
  <2>3. CASE n = 0
    <3>1. PICK m \in DOMAIN Page : k = n + m
      <4>1. k \notin DOMAIN export.rows
        BY <1>2, <2>3
      <4> QED
        BY <1>6, <1>13, <4>1
    <3>2. m \in Nat /\ n + m = m /\ n + 1 = 1 /\ 1 \in DOMAIN Page
      BY <1>4, <2>3
    <3>3. row(m).number = Page[m] - 1 /\ row(1).number = Page[1] - 1
      <4>1. m = n + m /\ 1 = n + 1
        BY <3>2
      <4> QED
        BY <1>8, <3>2, <4>1
    <3>4. Page[m] = a + m - 1 /\ Page[1] = a + 1 - 1
      BY <2>1, <3>2
    <3> QED
      BY <2>2, <3>1, <3>2, <3>3, <3>4
  <2>4. CASE n # 0
    <3>1. 1 \in DOMAIN export.rows /\ n \in DOMAIN export.rows
      BY <1>2, <2>4
    <3>2. row(1) = export.rows[1] /\ export.rows[1].number \in Nat
      BY <1>7, <3>1, RowsAre
    <3>3. export.rows[n].number = export.rows[1].number + n - 1
      BY <1>13, <3>1 DEF ExportSense
    <3>4. CASE k \in DOMAIN export.rows
      BY <1>7, <1>13, <3>2, <3>4 DEF ExportSense
    <3>5. CASE k \notin DOMAIN export.rows
      <4>1. PICK m \in DOMAIN Page : k = n + m
        BY <1>6, <1>13, <3>5
      <4>2. m \in Nat
        BY <1>4
      <4>3. export.rows # << >>
        BY <3>1
      <4>4. a = (export.rows[n].number + 1) + 1
        BY <2>1, <2>4, <4>3, RowsAre DEF n
      <4>5. Page[m] = a + m - 1
        BY <2>1
      <4>6. row(k).number = Page[m] - 1
        BY <1>8, <4>1
      <4> DEFINE x == export.rows[1].number
      <4>7. x \in Nat /\ n \in Nat /\ export.rows[n].number = x + n - 1 /\ row(1).number = x
        BY <1>2, <3>2, <3>3 DEF n
      <4> HIDE DEF x
      <4>8. a = x + n + 1
        BY <4>4, <4>7
      <4>9. Page[m] = x + (n + m)
        BY <4>2, <4>5, <4>7, <4>8
      <4>10. row(k).number = row(1).number + (n + m) - 1
        BY <4>2, <4>6, <4>7, <4>9
      <4> QED
        BY <4>1, <4>10
    <3> QED
      BY <3>4, <3>5
  <2> QED
    BY <2>3, <2>4
<1> QED
  BY <1>1, <1>9, <1>10, <1>11, <1>12, <1>13 DEF ExportSense

LEMMA ExportStep ==
  ASSUME EvidenceTypeOK, KeySense, ExportSense, [EvidenceNext]_evidenceVars
  PROVE  ExportSense'
<1>1. ASSUME UNCHANGED <<chain, export, settled>>
      PROVE  ExportSense'
  <2>1. Grown
    BY <1>1 DEF Grown
  <2> QED
    BY <1>1, <2>1, ExportIsKept
<1>2. CASE UNCHANGED evidenceVars
  BY <1>1, <1>2 DEF evidenceVars
<1>3. CASE ClockTick \/ SelectUnsigned
  BY <1>1, <1>3 DEF ClockTick, SelectUnsigned
<1>4. ASSUME NEW s \in Server, Stop(s) \/ Start(s) \/ MakeEntry(s)
      PROVE  ExportSense'
  BY <1>1, <1>4 DEF Stop, Start, MakeEntry
<1>5. CASE AppendEntry
  <2>1. \A i \in DOMAIN chain : i \in DOMAIN chain'
    BY <1>5, EntryIsAppended, ChainIs
  <2>2. Grown
    BY <1>5, <2>1, EntryIsAppended DEF Grown
  <2>3. UNCHANGED <<export, settled>>
    BY <1>5 DEF AppendEntry
  <2> QED
    BY <2>2, <2>3, ExportIsKept
<1>6. CASE CommitSigned
  <2>1. Grown
    BY <1>6, EntriesAreSigned DEF Grown
  <2>2. export' = export /\ (settled => settled')
    BY <1>6 DEF CommitSigned
  <2> QED
    BY <2>1, <2>2, ExportIsKept
<1>7. ASSUME NEW to \in 0..LastTime, NEW from \in 0..to, BeginExport(from, to)
      PROVE  ExportSense'
  <2>1. export'.rows = << >> /\ export'.sound = settled /\ export'.pc = "page" /\ settled' = settled
    BY <1>7 DEF BeginExport, NoExport
  <2> QED
    BY <2>1 DEF ExportSense
<1>8. ASSUME UNCHANGED <<chain, settled>>, NEW now \in {"head", "pack"}, NEW upto,
             export' = [export EXCEPT !.pc = now, !.head = upto],
             now = "pack" => \A k \in DOMAIN export.rows : export.rows[k].number < upto
      PROVE  ExportSense'
  <2>1. /\ export'.rows = export.rows /\ export'.sound = export.sound /\ export'.from = export.from
        /\ export'.to = export.to /\ export'.pc = now /\ export'.head = upto
    BY <1>8 DEF EvidenceTypeOK, Export
  <2>2. Whole' = Whole /\ TimesInOrder' = TimesInOrder
    BY <1>8, <2>1 DEF Whole, TimesInOrder
  <2>3. ASSUME NEW k \in DOMAIN export.rows
        PROVE  Exported(export.rows[k])'
    <3>1. Exported(export.rows[k])
      BY DEF ExportSense
    <3> QED
      BY <1>8, <2>1, <3>1 DEF Exported
  <2> QED
    BY <1>8, <2>1, <2>2, <2>3 DEF ExportSense
<1>9. CASE ReadPage
  <2>1. CASE Page = << >>
    <3>1. export' = [export EXCEPT !.pc = "head"] /\ UNCHANGED <<chain, settled>>
      BY <1>9, <2>1 DEF ReadPage
    <3>2. export' = [export EXCEPT !.pc = "head", !.head = export.head]
      BY <3>1 DEF EvidenceTypeOK, Export
    <3> QED
      BY <1>8, <3>1, <3>2
  <2>2. CASE Page # << >>
    BY <1>9, <2>2, PageKeepsSense
  <2> QED
    BY <2>1, <2>2
<1>10. CASE ReadPackHead
  <2>1. export' = [export EXCEPT !.pc = "pack", !.head = Len(chain)] /\ UNCHANGED <<chain, settled>>
    BY <1>10 DEF ReadPackHead
  <2>2. ASSUME NEW k \in DOMAIN export.rows
        PROVE  export.rows[k].number < Len(chain)
    <3>1. export.rows[k].number \in Nat /\ export.rows[k].number + 1 \in 1..Len(chain)
      BY RowsAre, ChainIs DEF ExportSense, Exported
    <3> QED
      BY <3>1
  <2> QED
    BY <1>8, <2>1, <2>2
<1> QED
  BY <1>2, <1>3, <1>4, <1>5, <1>6, <1>7, <1>9, <1>10 DEF EvidenceNext

-----------------------------------------------------------------------------
\* The invariant of the signed ledger and of an export of it.
THEOREM EvidenceAlways == EvidenceSpec => []EvidenceInv
<1>1. EvidenceInit => EvidenceInv
  <2> SUFFICES ASSUME EvidenceInit PROVE EvidenceInv
    OBVIOUS
  <2>1. NoExport \in Export /\ NoExport.rows = << >> /\ NoExport.pc = "idle" /\ ~NoExport.sound
    BY EvidenceAssumption DEF NoExport, Export
  <2>2. chain \in Seq(SignedEntry) /\ Len(chain) = 0 /\ DOMAIN chain = {}
    BY DEF EvidenceInit
  <2>3. writer \in [by : Server \cup {NoServer}, entry : SignedEntry]
    BY EvidenceAssumption DEF EvidenceInit, NoEntry, SignedEntry
  <2>4. Len(export.rows) <= MaxEvidence
    BY <2>1, EvidenceAssumption DEF EvidenceInit
  <2>5. signer \in [pc : {"idle", "selected"}, rows : SUBSET DOMAIN chain, alone : BOOLEAN]
    BY DEF EvidenceInit
  <2>6. server \in [Server -> {"plain", "down", "keyed"}] /\ writer.by = NoServer
    BY DEF EvidenceInit
  <2>7. clock \in 0..LastTime
    BY EvidenceAssumption DEF EvidenceInit
  <2>8. settled \in BOOLEAN /\ mixed \in BOOLEAN
    BY DEF EvidenceInit
  <2>9. export \in Export /\ Len(chain) <= MaxEntries
    BY <2>1, <2>2, EvidenceAssumption DEF EvidenceInit
  <2>10. EvidenceTypeOK
    BY <2>2, <2>3, <2>4, <2>5, <2>6, <2>7, <2>8, <2>9 DEF EvidenceTypeOK
  <2>11. KeySense
    BY <2>2, EvidenceAssumption DEF EvidenceInit, KeySense
  <2>12. ExportSense
    BY <2>1, <2>2 DEF EvidenceInit, ExportSense
  <2> QED
    BY <2>10, <2>11, <2>12 DEF EvidenceInv
<1>2. EvidenceInv /\ [EvidenceNext]_evidenceVars => EvidenceInv'
  BY EvidenceTypeStep, KeyStep, ExportStep DEF EvidenceInv
<1> QED
  BY <1>1, <1>2, PTL DEF EvidenceSpec

\* However the signing key is introduced: a ledger that never mixed signed and unsigned
\* writers verifies, a settled one verifies with every signature required, and a pack
\* exported page by page from it verifies and is not ahead of its own head (ledger.py,
\* evidence.py, ops/sign_ledger.py, verify_evidence.py).
THEOREM EvidenceAlwaysHolds == EvidenceSpec => []EvidenceHolds
<1>1. EvidenceInv => EvidenceHolds
  <2> SUFFICES ASSUME EvidenceInv PROVE EvidenceHolds
    OBVIOUS
  <2>1. EvidenceTypeOK /\ KeySense /\ ExportSense
    BY DEF EvidenceInv
  <2>2. DOMAIN chain = 1..Len(chain) /\ Len(chain) \in Nat
    BY <2>1, ChainIs
  <2>3. SeparateVerifies
    <3>1. ASSUME ~mixed, NEW i \in DOMAIN chain, NEW j \in 1..(i - 1), chain[j].signed
          PROVE  chain[i].signed
      <4>1. j \in DOMAIN chain /\ j < i
        BY <2>2
      <4> QED
        BY <2>1, <3>1, <4>1 DEF KeySense
    <3> QED
      BY <3>1 DEF SeparateVerifies, Intact, BrokenEntries
  <2>4. SettledVerifies
    BY <2>1 DEF SettledVerifies, Intact, BrokenEntries, KeySense
  <2>5. ASSUME export.pc = "pack", export.sound, Whole \/ TimesInOrder, NEW k \in DOMAIN export.rows
        PROVE  k \notin Problems
    <3>1. /\ DOMAIN export.rows = 1..Len(export.rows) /\ Len(export.rows) \in Nat
          /\ \A i \in DOMAIN export.rows : export.rows[i].number \in Nat
      BY <2>1, RowsAre
    <3>2. 1 \in DOMAIN export.rows /\ k \in Nat /\ (k # 1 => k - 1 \in DOMAIN export.rows)
      BY <3>1
    <3>3. \A i \in DOMAIN export.rows : export.rows[i].number = export.rows[1].number + i - 1
      <4>1. CASE TimesInOrder
        BY <2>1, <4>1 DEF ExportSense
      <4>2. CASE Whole
        <5>1. \A i \in DOMAIN export.rows : export.rows[i].number = i - 1
          BY <2>1, <4>2 DEF ExportSense
        <5>2. export.rows[1].number = 1 - 1
          BY <3>2, <5>1
        <5> QED
          BY <3>1, <5>1, <5>2
      <4> QED
        BY <2>5, <4>1, <4>2
    <3>4. export.rows[k].signed
      BY <2>1, <2>5 DEF ExportSense, Exported
    <3>5. FirstSequence = export.rows[1].number
      BY <3>2 DEF FirstSequence
    <3>6. k # 1 => export.rows[k].number = export.rows[k - 1].number + 1
      <4>1. k # 1 => export.rows[k - 1].number = export.rows[1].number + (k - 1) - 1
        BY <3>2, <3>3
      <4>2. export.rows[k].number = export.rows[1].number + k - 1 /\ export.rows[1].number \in Nat
        BY <3>1, <3>2, <3>3
      <4> QED
        BY <3>2, <4>1, <4>2
    <3>7. k = 1 => export.rows[k].number = FirstSequence
      BY <3>5
    <3> QED
      BY <3>4, <3>6, <3>7 DEF Problems
  <2>6. EvidenceVerifies
    BY <2>5 DEF EvidenceVerifies, Problems
  <2>7. PackMatchesHead
    BY <2>1 DEF PackMatchesHead, ExportSense
  <2> QED
    BY <2>1, <2>3, <2>4, <2>6, <2>7 DEF EvidenceHolds
<1> QED
  BY <1>1, EvidenceAlways, PTL
=============================================================================
