------------------------------ MODULE LedgerAppend ------------------------------
(***************************************************************************)
(* Concurrent writers appending to one tenant's hash-chained ledger        *)
(* (aegis/api/app.py PersistentLedger over persistence LedgerRepository).  *)
(* A writer is a request's transaction; it appends any number of entries   *)
(* and then commits or rolls back.  Each append takes the tenant's         *)
(* advisory lock, reads the head, and inserts the next entry in a savepoint*)
(* with the unique constraint on (tenant, sequence) behind it; a conflict  *)
(* is retried from a fresh head, a few times.                              *)
(*                                                                         *)
(* Transactions are READ COMMITTED: a statement sees what is committed and *)
(* its own rows.  An insert that meets another transaction's uncommitted   *)
(* row with the same sequence waits for that transaction to end.  A hash   *)
(* is a number never used before: SHA-256 is taken to be injective.        *)
(***************************************************************************)
EXTENDS Naturals, FiniteSets

CONSTANTS
  Writer,
  NoWriter,        \* the advisory lock is free
  Advisory,        \* TRUE on PostgreSQL; lock_tenant does nothing elsewhere
  AppendRetries,   \* _LEDGER_APPEND_RETRIES
  MaxMade          \* bound: entries inserted, rolled back ones included

ASSUME LedgerAssumption ==
  /\ NoWriter \notin Writer
  /\ Advisory \in BOOLEAN
  /\ AppendRetries \in Nat \ {0}
  /\ MaxMade \in Nat

GENESIS == 0

VARIABLES
  table,   \* committed rows, by sequence: the unique constraint is its domain
  own,     \* own[w]: rows of w's open transaction, by sequence
  pc,      \* "idle", "open" (in a transaction), "waiting" for the advisory lock,
           \* "locked" (the lock granted), "read" (head in hand)
  head,    \* head[w]: the (sequence, previous hash) w has read
  tries,   \* tries[w]: conflicts of the append in progress
  lock,    \* holder of the advisory lock
  made     \* hashes used so far

ledgerVars == <<table, own, pc, head, tries, lock, made>>

LedgerEntry == [prev : Nat, hash : Nat]
NoRows == [k \in {} |-> [prev |-> GENESIS, hash |-> GENESIS]]

IsTable(t) ==
  /\ DOMAIN t \subseteq Nat
  /\ t \in [DOMAIN t -> LedgerEntry]

LedgerTypeOK ==
  /\ IsTable(table)
  /\ \A w \in Writer : IsTable(own[w])
  /\ DOMAIN own = Writer
  /\ pc \in [Writer -> {"idle", "open", "waiting", "locked", "read"}]
  /\ head \in [Writer -> [seq : Nat, prev : Nat]]
  /\ tries \in [Writer -> 0..AppendRetries]
  /\ lock \in Writer \cup {NoWriter}
  /\ made \in Nat

\* The rows of f, and those of g at other sequences.
Union(f, g) ==
  [k \in DOMAIN f \cup DOMAIN g |-> IF k \in DOMAIN f THEN f[k] ELSE g[k]]

Visible(w) == Union(table, own[w])

Newest(t) == CHOOSE k \in DOMAIN t : \A j \in DOMAIN t : j <= k

\* LedgerRepository.head: the row with the greatest sequence, or the genesis.
HeadOf(t) ==
  IF DOMAIN t = {} THEN [seq |-> 0, prev |-> GENESIS]
  ELSE [seq |-> Newest(t) + 1, prev |-> t[Newest(t)].hash]

-----------------------------------------------------------------------------
LedgerInit ==
  /\ table = NoRows
  /\ own = [w \in Writer |-> NoRows]
  /\ pc = [w \in Writer |-> "idle"]
  /\ head = [w \in Writer |-> [seq |-> 0, prev |-> GENESIS]]
  /\ tries = [w \in Writer |-> 0]
  /\ lock = NoWriter
  /\ made = 0

\* Database.session(): a transaction begins.
Begin(w) ==
  /\ pc[w] = "idle"
  /\ pc' = [pc EXCEPT ![w] = "open"]
  /\ UNCHANGED <<table, own, head, tries, lock, made>>

\* append() is called.
CallAppend(w) ==
  /\ pc[w] = "open"
  /\ made < MaxMade
  /\ pc' = [pc EXCEPT ![w] = "waiting"]
  /\ UNCHANGED <<table, own, head, tries, lock, made>>

\* lock_tenant() returns: at once to the holder, to another once the holder's
\* transaction has ended, and to everyone where it does nothing.
LockTenant(w) ==
  /\ pc[w] = "waiting"
  /\ Advisory => lock \in {w, NoWriter}
  /\ lock' = IF Advisory THEN w ELSE lock
  /\ pc' = [pc EXCEPT ![w] = "locked"]
  /\ tries' = [tries EXCEPT ![w] = 0]
  /\ UNCHANGED <<table, own, head, made>>

ReadHead(w) ==
  /\ pc[w] = "locked"
  /\ head' = [head EXCEPT ![w] = HeadOf(Visible(w))]
  /\ pc' = [pc EXCEPT ![w] = "read"]
  /\ UNCHANGED <<table, own, tries, lock, made>>

\* The insert does not wait for another transaction's row with this sequence.
MayInsert(w) ==
  /\ pc[w] = "read"
  /\ \A v \in Writer \ {w} : head[w].seq \notin DOMAIN own[v]

\* The row of w's next entry, linked to the head in hand, with its own hash.
PutRow(w) ==
  /\ made' = made + 1
  /\ own' = [own EXCEPT ![w] =
       [k \in DOMAIN @ \cup {head[w].seq} |->
          IF k = head[w].seq THEN [prev |-> head[w].prev, hash |-> made + 1] ELSE @[k]]]

\* Mutant of Insert: no unique constraint.
InsertUnconstrained(w) ==
  /\ pc[w] = "read"
  /\ PutRow(w)
  /\ pc' = [pc EXCEPT ![w] = "open"]
  /\ UNCHANGED <<table, head, tries, lock>>

Insert(w) ==
  /\ MayInsert(w)
  /\ head[w].seq \notin DOMAIN table
  /\ PutRow(w)
  /\ pc' = [pc EXCEPT ![w] = "open"]
  /\ UNCHANGED <<table, head, tries, lock>>

\* Mutant of EndWith: the lock outlives the transaction.
EndKeepingLock(w, rows) ==
  /\ table' = rows
  /\ own' = [own EXCEPT ![w] = NoRows]
  /\ pc' = [pc EXCEPT ![w] = "idle"]
  /\ tries' = [tries EXCEPT ![w] = 0]
  /\ UNCHANGED <<head, lock, made>>

\* End of a transaction, with rows left in the table.
EndWith(w, rows) ==
  /\ table' = rows
  /\ own' = [own EXCEPT ![w] = NoRows]
  /\ pc' = [pc EXCEPT ![w] = "idle"]
  /\ tries' = [tries EXCEPT ![w] = 0]
  /\ lock' = IF lock = w THEN NoWriter ELSE lock
  /\ UNCHANGED <<head, made>>

\* Mutant of Conflict: the sequence is stepped over instead of the head read again.
ConflictStepsOver(w) ==
  /\ MayInsert(w)
  /\ head[w].seq \in DOMAIN table
  /\ tries[w] + 1 < AppendRetries
  /\ tries' = [tries EXCEPT ![w] = @ + 1]
  /\ head' = [head EXCEPT ![w].seq = @ + 1]
  /\ UNCHANGED <<table, own, pc, lock, made>>

\* IntegrityError: the savepoint is undone and the head is read again.
Conflict(w) ==
  /\ MayInsert(w)
  /\ head[w].seq \in DOMAIN table
  /\ tries[w] + 1 < AppendRetries
  /\ tries' = [tries EXCEPT ![w] = @ + 1]
  /\ pc' = [pc EXCEPT ![w] = "locked"]
  /\ UNCHANGED <<table, own, head, lock, made>>

\* The last conflict: append() raises and the request's transaction rolls back.
GiveUp(w) ==
  /\ MayInsert(w)
  /\ head[w].seq \in DOMAIN table
  /\ tries[w] + 1 >= AppendRetries
  /\ EndWith(w, table)

Commit(w) ==
  /\ pc[w] = "open"
  /\ EndWith(w, Union(table, own[w]))

\* Any other failure of the request.
Rollback(w) ==
  /\ pc[w] # "idle"
  /\ EndWith(w, table)

Proceed(w) ==
  LockTenant(w) \/ ReadHead(w) \/ Insert(w) \/ Conflict(w) \/ GiveUp(w) \/ Commit(w)

LedgerNext ==
  \E w \in Writer : Begin(w) \/ CallAppend(w) \/ Proceed(w) \/ Rollback(w)

\* A transaction in progress is carried on by its request; the database grants the
\* lock, or the end of another's insert, in the order they were asked for.
Fairness == \A w \in Writer : SF_ledgerVars(Proceed(w))

LedgerSpec == LedgerInit /\ [][LedgerNext]_ledgerVars /\ Fairness

-----------------------------------------------------------------------------
\* DecisionLedger.verify of a set of rows: no sequence is missing, every row links to
\* the one before it, and no two rows have the same hash.
Chained(t) ==
  /\ \A k \in DOMAIN t : \A j \in 0..k : j \in DOMAIN t
  /\ \A k \in DOMAIN t :
       t[k].prev = IF k = 0 THEN GENESIS ELSE t[k - 1].hash
  /\ \A j, k \in DOMAIN t : t[j].hash = t[k].hash => j = k

\* The stored ledger verifies at every moment, and so does what any open transaction
\* sees of it, whoever else is appending, committing or rolling back.
ChainIntact == Chained(table) /\ \A w \in Writer : Chained(Visible(w))

\* lock_tenant: writers "queue for the advisory lock instead of racing on head() and
\* burning through the append retry budget": the head in hand stays the head, and no
\* append meets another transaction's row, committed or not.
QueuedNotRacing ==
  Advisory => \A w \in Writer :
    /\ tries[w] = 0
    /\ pc[w] = "read" =>
         /\ head[w] = HeadOf(Visible(w))
         /\ \A v \in Writer \ {w} : own[v] = NoRows

\* Every transaction ends: waiting for the lock and waiting for another's row never
\* close a circle, and the retries run out.
TransactionsEnd == \A w \in Writer : pc[w] # "idle" ~> pc[w] = "idle"

\* The rows of a table in the order of their sequence, which is what readers page
\* through.
LogOf(t) == [i \in {k + 1 : k \in DOMAIN t} |-> t[i - 1]]

Log == INSTANCE AppendOnlyLog WITH log <- LogOf(table)

\* Commits only ever extend the log that readers have seen, by linked entries at its end
\* (the refinement of AppendOnlyLog).
LogGrows == Log!Spec
=============================================================================
