---------------------------- MODULE ModelGovernance ----------------------------
(***************************************************************************)
(* The attrition model versions of one tenant (aegis/persistence           *)
(* ModelRepository) under concurrent API calls: train, activate, rollback  *)
(* and score, each a READ COMMITTED transaction on PostgreSQL whose        *)
(* statements are steps.                                                   *)
(*                                                                         *)
(* The session keeps the rows a call still refers to as it first read      *)
(* them: a later SELECT does not refresh them, and an attribute set to the *)
(* value it was read with is not written.  "seen" is that memory.  A row   *)
(* updated by an open transaction is locked, an insert or update that      *)
(* would break a unique index waits for the transaction it might clash     *)
(* with, and PostgreSQL ends one transaction of a circle of waits.         *)
(***************************************************************************)
EXTENDS Naturals, FiniteSets, FiniteSetsExt

CONSTANTS
  Call,            \* slots for API calls in progress
  NoCall,          \* the advisory lock is free
  Unverifiable,    \* versions whose signature fails once they are stored
  MaxCalls         \* bound: calls begun, and so versions trained

ASSUME GovernanceAssumption ==
  /\ IsFiniteSet(Call) /\ NoCall \notin Call
  /\ Unverifiable \subseteq Nat
  /\ MaxCalls \in Nat

VARIABLES
  table,   \* committed rows of attrition_model_versions, by version
  own,     \* own[c]: the rows c has inserted or updated, not committed
  versionsLock, \* holder of the tenant's advisory lock
  call,    \* what each call knows
  scores,  \* the scores kept: the version they are labelled with, the one that scored
  begun    \* calls begun (bound)

versionsVars == <<table, own, versionsLock, call, scores, begun>>

Version == 1..MaxCalls
None == 0
Gate == {"PASS", "WARN", "BLOCK"}
Row == [gate : Gate, active : BOOLEAN]

IsTable(t) == DOMAIN t \subseteq Version /\ t \in [DOMAIN t -> Row]
NoRows == [v \in {} |-> [gate |-> "BLOCK", active |-> FALSE]]

\* pc of a call, in the order of the code: "free"; "lock", "number", "insert" of a
\* training; "ceiling", "eligible" of a rollback; "load" of a scoring; "versions",
\* "retire", "raise" of activate(); "ledger"; "commit".
CallMemory ==
  [ pc : { "free", "lock", "number", "insert", "ceiling", "eligible", "load", "versions",
           "retire", "raise", "ledger", "commit" },
    target : Version \cup {None},   \* the version to insert or activate
    gate : Gate,                    \* verdict on the model being trained
    seen : [Version -> {"unseen", "active", "inactive"}],
    todo : SUBSET Version,          \* versions activate() has yet to switch off
    label : Version \cup {None} ]   \* the version read as the active one

FreeCall ==
  [ pc |-> "free", target |-> None, gate |-> "BLOCK",
    seen |-> [v \in Version |-> "unseen"], todo |-> {}, label |-> None ]

VersionsTypeOK ==
  /\ IsTable(table)
  /\ DOMAIN own = Call /\ \A c \in Call : IsTable(own[c])
  /\ versionsLock \in Call \cup {NoCall}
  /\ call \in [Call -> CallMemory]
  /\ scores \subseteq [label : Version, model : Version]
  /\ begun \in 0..MaxCalls

\* The rows of f, and those of g for other versions.
Union(f, g) ==
  [v \in DOMAIN f \cup DOMAIN g |-> IF v \in DOMAIN f THEN f[v] ELSE g[v]]

Visible(c) == Union(own[c], table)

\* ModelRepository.active on rows t: the partial index allows at most one.
ActiveIn(t) == {v \in DOMAIN t : t[v].active}
ActiveOf(t) == IF ActiveIn(t) = {} THEN None ELSE CHOOSE v \in ActiveIn(t) : TRUE

Flag(active) == IF active THEN "active" ELSE "inactive"

\* What c takes row v for when a SELECT returns it.
Takes(c, v) ==
  IF call[c].seen[v] # "unseen" THEN call[c].seen[v] ELSE Flag(Visible(c)[v].active)

Eligible(t, v) == v \in DOMAIN t /\ t[v].gate # "BLOCK"

-----------------------------------------------------------------------------
\* Whom c waits for: the holder of the advisory lock; who has an uncommitted version
\* of the row it updates; who may make a second active row, or has just ended one.
Owners(c, v) == {d \in Call \ {c} : v \in DOMAIN own[d]}

Rivals(c) ==
  { d \in Call \ {c} : \E v \in DOMAIN own[d] \ {call[c].target} :
      own[d][v].active \/ (v \in DOMAIN table /\ table[v].active) }

WaitsFor(c) ==
  CASE call[c].pc \in {"lock", "ledger"} -> {versionsLock} \ {c, NoCall}
    [] call[c].pc = "insert" -> Owners(c, call[c].target)
    [] call[c].pc = "retire" -> Owners(c, Min(call[c].todo))
    [] call[c].pc = "raise" ->
         Owners(c, call[c].target)
           \cup IF call[c].seen[call[c].target] = "active" THEN {} ELSE Rivals(c)
    [] OTHER -> {}

\* c is on a circle of waits.
Deadlocked(c) ==
  \E n \in 1..Cardinality(Call) : \E path \in [0..n -> Call] :
    /\ path[0] = c /\ path[n] = c
    /\ \A i \in 0..(n - 1) : path[i + 1] \in WaitsFor(path[i])

-----------------------------------------------------------------------------
VersionsInit ==
  /\ table = NoRows
  /\ own = [c \in Call |-> NoRows]
  /\ versionsLock = NoCall
  /\ call = [c \in Call |-> FreeCall]
  /\ scores = {}
  /\ begun = 0

\* A call begins with its first statement and goes on in memory m.
BeginAs(c, m) ==
  /\ call[c].pc = "free"
  /\ begun < MaxCalls
  /\ begun' = begun + 1
  /\ call' = [call EXCEPT ![c] = m]
  /\ UNCHANGED <<table, own, versionsLock, scores>>

\* train_model: reads the active version as the reference, then judges the model; what
\* the judgement is depends on numbers that are left out.
BeginTraining(c, gate) ==
  LET current == ActiveOf(table) IN
    BeginAs(c, [FreeCall EXCEPT
      !.pc = "lock", !.gate = gate,
      !.seen = [v \in Version |-> IF v = current THEN "active" ELSE "unseen"]])

\* activate_model and the head of activate(): refused if blocked or not verifiable.
BeginActivation(c, version) ==
  /\ Eligible(table, version) /\ version \notin Unverifiable
  /\ BeginAs(c, [FreeCall EXCEPT
       !.pc = "versions", !.target = version,
       !.seen[version] = Flag(table[version].active)])

\* rollback_model: the version that is to be rolled back from.
BeginRollback(c) ==
  LET current == ActiveOf(table) IN
    BeginAs(c, [FreeCall EXCEPT
      !.pc = "ceiling",
      !.seen = [v \in Version |-> IF v = current THEN "active" ELSE "unseen"]])

\* score_employees: the version the scores will be labelled with.
BeginScoring(c) ==
  /\ ActiveIn(table) # {}
  /\ BeginAs(c, [FreeCall EXCEPT !.pc = "load", !.label = ActiveOf(table)])

-----------------------------------------------------------------------------
\* A statement of c that only reads, or waits for nobody.
Continue(c, m) ==
  /\ WaitsFor(c) = {}
  /\ call' = [call EXCEPT ![c] = m]
  /\ UNCHANGED <<table, own, scores, begun>>

\* Mutant of EndWith: the advisory lock outlives the transaction.
EndKeepingLock(c, rows) ==
  /\ table' = rows
  /\ own' = [own EXCEPT ![c] = NoRows]
  /\ call' = [call EXCEPT ![c] = FreeCall]
  /\ UNCHANGED <<versionsLock, begun>>

\* End of a transaction with rows in the table: every lock is given back.
EndWith(c, rows) ==
  /\ table' = rows
  /\ own' = [own EXCEPT ![c] = NoRows]
  /\ versionsLock' = IF versionsLock = c THEN NoCall ELSE versionsLock
  /\ call' = [call EXCEPT ![c] = FreeCall]
  /\ UNCHANGED begun

\* Mutant of LockTenant: trainings do not queue.
NumberWithoutLock(c) ==
  /\ call[c].pc = "lock"
  /\ call' = [call EXCEPT ![c].pc = "number"]
  /\ UNCHANGED <<table, own, versionsLock, scores, begun>>

\* add_version: "Two trainings at once must not both claim the next version number."
LockTenant(c) ==
  /\ call[c].pc = "lock"
  /\ Continue(c, [call[c] EXCEPT !.pc = "number"])
  /\ versionsLock' = c

TakeNumber(c) ==
  LET next == Max({None} \cup DOMAIN Visible(c)) + 1 IN
    /\ call[c].pc = "number"
    /\ Continue(c, [call[c] EXCEPT !.pc = "insert", !.target = next])
    /\ UNCHANGED versionsLock

\* The row is stored inactive; only a model that is not blocked goes on to activate().
InsertVersion(c) ==
  LET v == call[c].target IN
    /\ call[c].pc = "insert" /\ WaitsFor(c) = {}
    /\ v \notin DOMAIN table
    /\ own' = [own EXCEPT ![c] =
                 Union([w \in {v} |-> [gate |-> call[c].gate, active |-> FALSE]], @)]
    /\ call' = [call EXCEPT ![c].seen[v] = "inactive",
                            ![c].pc = IF call[c].gate = "BLOCK" THEN "ledger" ELSE "versions"]
    /\ UNCHANGED <<table, versionsLock, scores, begun>>

\* previous_eligible: the active version is read again, then the rows below it.
ReadCeiling(c) ==
  /\ call[c].pc = "ceiling"
  /\ Continue(c, [call[c] EXCEPT !.pc = "eligible", !.label = ActiveOf(table)])
  /\ UNCHANGED versionsLock

PickEligible(c) ==
  LET below == { v \in DOMAIN table :
                   /\ call[c].label # None => v < call[c].label
                   /\ Eligible(table, v) /\ v \notin Unverifiable }
  IN /\ call[c].pc = "eligible" /\ below # {}
     /\ Continue(c, [call[c] EXCEPT !.pc = "versions", !.target = Max(below),
                                    !.seen[Max(below)] = Takes(c, Max(below))])
     /\ UNCHANGED versionsLock

\* There is no earlier version that is allowed to serve.
NothingEligible(c) ==
  /\ call[c].pc = "eligible"
  /\ \A v \in DOMAIN table :
       \/ call[c].label # None /\ v >= call[c].label
       \/ ~Eligible(table, v) \/ v \in Unverifiable
  /\ EndWith(c, table)
  /\ UNCHANGED scores

\* activate(): who else is active, as far as the session knows.
ReadVersions(c) ==
  LET others == {v \in DOMAIN Visible(c) \ {call[c].target} : Takes(c, v) = "active"} IN
    /\ call[c].pc = "versions"
    /\ Continue(c, [call[c] EXCEPT !.todo = others,
                                   !.pc = IF others = {} THEN "raise" ELSE "retire"])
    /\ UNCHANGED versionsLock

\* The flush of "other.active = False", one row after another by primary key.
Retire(c) ==
  LET v == Min(call[c].todo)
      left == call[c].todo \ {v}
  IN /\ call[c].pc = "retire" /\ WaitsFor(c) = {}
     /\ own' = [own EXCEPT ![c] =
                  Union([w \in {v} |-> [Visible(c)[v] EXCEPT !.active = FALSE]], @)]
     /\ call' = [call EXCEPT ![c].todo = left,
                             ![c].pc = IF left = {} THEN "raise" ELSE "retire"]
     /\ UNCHANGED <<table, versionsLock, scores, begun>>

\* Another row is active and stays so: the unique index is violated.
Clash(c) == ActiveIn(Visible(c)) \ {call[c].target} # {}

\* "target.active = True" and its flush; a target that was read as active is only
\* given a new activated_at.
RaiseWith(c, admitted) ==
  LET v == call[c].target
      before == Visible(c)[v]
      after == IF call[c].seen[v] = "active" THEN before ELSE [before EXCEPT !.active = TRUE]
  IN /\ call[c].pc = "raise" /\ WaitsFor(c) = {}
     /\ admitted
     /\ own' = [own EXCEPT ![c] = Union([w \in {v} |-> after], @)]
     /\ call' = [call EXCEPT ![c].pc = "ledger"]
     /\ UNCHANGED <<table, versionsLock, scores, begun>>

Raise(c) == RaiseWith(c, call[c].seen[call[c].target] = "active" \/ ~Clash(c))

\* IntegrityError: the version number or the active row is taken.
Violate(c) ==
  /\ WaitsFor(c) = {}
  /\ \/ call[c].pc = "insert" /\ call[c].target \in DOMAIN table
     \/ call[c].pc = "raise" /\ call[c].seen[call[c].target] # "active" /\ Clash(c)
  /\ EndWith(c, table)
  /\ UNCHANGED scores

\* The ledger entry of the call; a training holds the lock already.
AppendLedger(c) ==
  /\ call[c].pc = "ledger"
  /\ Continue(c, [call[c] EXCEPT !.pc = "commit"])
  /\ versionsLock' = c

CommitCall(c) ==
  /\ call[c].pc = "commit"
  /\ EndWith(c, Visible(c))
  /\ UNCHANGED scores

\* load() reads the active version once more; it scores unless its signature fails.
KeepScore(c) ==
  LET model == ActiveOf(table) IN
    /\ call[c].pc = "load"
    /\ scores' = IF model = None \/ model \in Unverifiable \/ table[call[c].label].gate = "BLOCK"
                 THEN scores
                 ELSE scores \cup {[label |-> call[c].label, model |-> model]}
    /\ EndWith(c, table)

\* PostgreSQL ends a transaction on a circle of waits; a call may also die on its own.
BreakDeadlock(c) ==
  /\ Deadlocked(c)
  /\ EndWith(c, table)
  /\ UNCHANGED scores

Fail(c) ==
  /\ call[c].pc # "free"
  /\ EndWith(c, table)
  /\ UNCHANGED scores

Begin(c) ==
  \/ \E gate \in Gate : BeginTraining(c, gate)
  \/ \E v \in Version : BeginActivation(c, v)
  \/ BeginRollback(c) \/ BeginScoring(c)

Proceed(c) ==
  \/ LockTenant(c) \/ TakeNumber(c) \/ InsertVersion(c)
  \/ ReadCeiling(c) \/ PickEligible(c) \/ NothingEligible(c)
  \/ ReadVersions(c) \/ Retire(c) \/ Raise(c) \/ Violate(c)
  \/ AppendLedger(c) \/ CommitCall(c) \/ KeepScore(c)

VersionsNext == \E c \in Call : Begin(c) \/ Proceed(c) \/ BreakDeadlock(c) \/ Fail(c)

\* A call in progress is carried on by its thread; PostgreSQL grants locks in the order
\* they were asked for and looks for circles of waits.  Nobody owes a new call.
VersionsFairness == \A c \in Call : SF_versionsVars(Proceed(c)) /\ WF_versionsVars(BreakDeadlock(c))

VersionsSpec == VersionsInit /\ [][VersionsNext]_versionsVars /\ VersionsFairness

-----------------------------------------------------------------------------
\* No interleaving of activations, rollbacks and trainings, none of which locks the
\* active row before it reads it, commits two active versions (models.py
\* uq_model_one_active, repositories.py activate).
OneActive == Cardinality(ActiveIn(table)) <= 1

\* A version the gate blocked is never active, and never scores, whichever version the
\* score is labelled with ("BLOCK models are stored [...] but they cannot be activated or
\* served").
BlockedNeverServes ==
  /\ \A v \in ActiveIn(table) : table[v].gate # "BLOCK"
  /\ \A s \in scores : table[s.model].gate # "BLOCK"

\* Versions are numbered without a gap, and no training ever finds its number taken:
\* "Two trainings at once must not both claim the next version number."
NumbersNeverClash ==
  /\ DOMAIN table = 1..Cardinality(DOMAIN table)
  /\ \A c \in Call : call[c].pc = "insert" =>
       call[c].target \notin DOMAIN table /\ Owners(c, call[c].target) = {}

\* Every call ends, although trainings take the lock before the rows and activations the
\* rows before the lock.
CallsEnd == \A c \in Call : call[c].pc # "free" ~> call[c].pc = "free"

-----------------------------------------------------------------------------
\* What the documents say, which overlapping calls break.

\* README.md: every score is kept "with its model version".
LabelsAreTrue == \A s \in scores : s.label = s.model

\* test_model_versions.py: versions accumulate "and one is active"; every version that
\* is not blocked was activated when it was stored.
OneServes ==
  (\E v \in DOMAIN table : table[v].gate # "BLOCK") => ActiveIn(table) # {}

\* Whatever requests on the versions of a tenant overlap: one version is active, none that is
\* blocked, and no two have one number.
VersionsAreGoverned ==
  /\ VersionsTypeOK /\ OneActive /\ BlockedNeverServes /\ NumbersNeverClash

=============================================================================
