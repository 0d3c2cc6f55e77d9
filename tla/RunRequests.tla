------------------------------- MODULE RunRequests -------------------------------
(***************************************************************************)
(* Concurrent API requests on one stored run (aegis/api/app.py start_run   *)
(* and _mutate_run): each loads the run, applies one AgentRuntime          *)
(* operation to its copy in memory, and saves the copy, in one database    *)
(* transaction.  Nothing locks the run.  What is locked is the tenant's    *)
(* ledger: the first entry a request records takes an advisory lock that   *)
(* the transaction holds to its end, but by then the run has been loaded   *)
(* and, for an approval, the tool has been executed.                       *)
(*                                                                         *)
(* Tools act on the world at once (an e-mail cannot be rolled back); the   *)
(* run, its steps and its ledger entries appear at the commit or not at    *)
(* all.  max_steps of advance() is left out: a request executes a step at  *)
(* most once and workflows are shorter than 50 steps (AgentRuntime has it).*)
(***************************************************************************)
EXTENDS WorkflowRun, Sequences, FiniteSets

CONSTANTS
  Request,           \* request slots of the API
  NoRequest,         \* the advisory lock is free
  Tenant,
  Policy,            \* the policy every request loads
  MaxStepAttempts,
  MaxServed          \* bound: requests served after the one that starts the run

ASSUME RequestsAssumption ==
  /\ Policy \in TenantPolicy({Policy.tenant})
  /\ NoRequest \notin Request
  /\ MaxStepAttempts \in Nat \ {0}
  /\ MaxServed \in Nat

VARIABLES
  stored,      \* the run has been saved by the request that started it
  row,         \* the committed run and step rows
  trail,       \* the committed ledger entries of each step
  calls,       \* who approved each execution of a step's tool: never undone
  lock,        \* holder of pg_advisory_xact_lock for the tenant
  req,         \* what each request holds in memory
  served,      \* requests begun so far (bound)
  overlapped,  \* history: two requests were in progress at the same time
  crashed      \* history: a request was rolled back

vars == <<stored, row, trail, calls, lock, req, served, overlapped, crashed>>

Outcome == StepStatus \cup {"RETRIED"}
Entry == [outcome : Outcome, approver : Name]
NoEntries == [s \in Step |-> <<>>]

(***************************************************************************)
(* pc of a request: "free"; "loaded", the run is in memory; "locking",     *)
(* waiting for the ledger lock to append what it has recorded; "advancing",*)
(* inside advance(); "saving".  "next" is where "locking" goes on.         *)
(***************************************************************************)
Memory ==
  [ pc : {"free", "loaded", "locking", "advancing", "saving"},
    next : {"advancing", "saving"},
    run : RunState,
    ready : SUBSET Step,
    entries : [Step -> Seq(Entry)] ]

Free == [ pc |-> "free", next |-> "saving", run |-> NewRun,
          ready |-> {}, entries |-> NoEntries ]

TypeOK ==
  /\ stored \in BOOLEAN
  /\ row \in RunState
  /\ trail \in [Step -> Seq(Entry)]
  /\ calls \in [Step -> Seq(Name)]
  /\ lock \in Request \cup {NoRequest}
  /\ req \in [Request -> Memory]
  /\ served \in 0..MaxServed
  /\ overlapped \in BOOLEAN
  /\ crashed \in BOOLEAN

-----------------------------------------------------------------------------
\* start_run: start() and then advance() on a run that is not in the database yet.
Init ==
  /\ stored = FALSE
  /\ row = NewRun
  /\ trail = NoEntries
  /\ calls = NoEntries
  /\ lock = NoRequest
  /\ \E starter \in Request :
       req = [r \in Request |->
                IF r = starter THEN [Free EXCEPT !.pc = "advancing"] ELSE Free]
  /\ served = 0
  /\ overlapped = FALSE
  /\ crashed = FALSE

\* RunRepository.load: a plain read of committed rows.
Load(r) ==
  /\ req[r].pc = "free"
  /\ stored /\ served < MaxServed
  /\ req' = [req EXCEPT ![r] = [Free EXCEPT !.pc = "loaded", !.run = row]]
  /\ served' = served + 1
  /\ overlapped' = (overlapped \/ \E q \in Request : req[q].pc # "free")
  /\ UNCHANGED <<stored, row, trail, calls, lock, crashed>>

\* The operation raises (wrong status, blank name, attempts used up): nothing changed.
Refuse(r) ==
  /\ req[r].pc = "loaded"
  /\ req' = [req EXCEPT ![r] = Free]
  /\ UNCHANGED <<stored, row, trail, calls, lock, served, overlapped, crashed>>

\* The copy of r becomes "after", with one more ledger entry for s; then the request
\* goes on to "next", through the lock if it does not hold it yet.
Recorded(r, after, s, outcome, approver, ready, next) ==
  req' = [req EXCEPT ![r] =
            [ req[r] EXCEPT !.run = after, !.ready = ready, !.next = next,
                            !.pc = IF lock = r THEN next ELSE "locking",
                            !.entries[s] = Append(@, [outcome |-> outcome, approver |-> approver]) ]]

\* _invoke(): the tool acts before the entry is recorded.
InvokeStep(r, before, s, approver, ready) ==
  \E answer \in ToolAnswer(s) :
    LET after == Invoke(before, s, answer)
        halts == ready = {} /\ RunStatusOf(after) = "FAILED" /\ req[r].pc = "advancing"
    IN /\ Recorded(r, after, s, InvokedStatus(s, answer), approver, ready,
                   IF halts THEN "saving" ELSE "advancing")
       /\ calls' = IF answer = "absent" THEN calls
                   ELSE [calls EXCEPT ![s] = Append(@, approver)]

Approve(r, s, who) ==
  /\ req[r].pc = "loaded"
  /\ req[r].run.status[s] = "AWAITING_APPROVAL"
  /\ who # Blank
  /\ InvokeStep(r, [req[r].run EXCEPT !.approver[s] = who], s, who, {})
  /\ UNCHANGED <<stored, row, trail, lock, served, overlapped, crashed>>

Reject(r, s, who) ==
  /\ req[r].pc = "loaded"
  /\ req[r].run.status[s] = "AWAITING_APPROVAL"
  /\ Recorded(r, [req[r].run EXCEPT !.approver[s] = who, !.status[s] = "REJECTED"],
              s, "REJECTED", who, {}, "saving")
  /\ UNCHANGED <<stored, row, trail, calls, lock, served, overlapped, crashed>>

ResolveExternal(r, s, status) ==
  /\ req[r].pc = "loaded"
  /\ req[r].run.status[s] = "AWAITING_EXTERNAL"
  /\ status \in {"COMPLETED", "FAILED"}
  /\ Recorded(r, Transition(req[r].run, s, status), s, status, NoOne, {}, "advancing")
  /\ UNCHANGED <<stored, row, trail, calls, lock, served, overlapped, crashed>>

\* What retry() does to a step once it may.
PutBack(r, s, who, status) ==
  Recorded(r, [req[r].run EXCEPT !.approver[s] = NoOne, !.status[s] = status],
           s, "RETRIED", who, {}, "advancing")

\* Mutant of Retry: one attempt too many.
RetryOnceMore(r, s, who) ==
  /\ req[r].pc = "loaded" /\ req[r].run.status[s] = "FAILED" /\ who # Blank
  /\ req[r].run.attempts[s] <= MaxStepAttempts
  /\ PutBack(r, s, who, "PENDING")
  /\ UNCHANGED <<stored, row, trail, calls, lock, served, overlapped, crashed>>

Retry(r, s, who) ==
  /\ req[r].pc = "loaded"
  /\ req[r].run.status[s] = "FAILED"
  /\ who # Blank
  /\ req[r].run.attempts[s] < MaxStepAttempts
  /\ PutBack(r, s, who, "PENDING")
  /\ UNCHANGED <<stored, row, trail, calls, lock, served, overlapped, crashed>>

-----------------------------------------------------------------------------
\* LedgerRepository.lock_tenant, then the append inside the transaction.
AcquireLock(r) ==
  /\ req[r].pc = "locking"
  /\ lock = NoRequest
  /\ lock' = r
  /\ req' = [req EXCEPT ![r].pc = req[r].next]
  /\ UNCHANGED <<stored, row, trail, calls, served, overlapped, crashed>>

CollectReady(r) ==
  /\ req[r].pc = "advancing" /\ req[r].ready = {}
  /\ RunnableSteps(req[r].run) # {}
  /\ req' = [req EXCEPT ![r].ready = RunnableSteps(req[r].run)]
  /\ UNCHANGED <<stored, row, trail, calls, lock, served, overlapped, crashed>>

Settle(r) ==
  /\ req[r].pc = "advancing" /\ req[r].ready = {}
  /\ RunnableSteps(req[r].run) = {}
  /\ req' = [req EXCEPT ![r].pc = "saving"]
  /\ UNCHANGED <<stored, row, trail, calls, lock, served, overlapped, crashed>>

\* A step held or denied by the gate; a failed run stops after the batch.
Hold(r, s, status, left) ==
  LET after == Transition(req[r].run, s, status)
      halts == left = {} /\ RunStatusOf(after) = "FAILED"
  IN /\ Recorded(r, after, s, status, NoOne, left, IF halts THEN "saving" ELSE "advancing")
     /\ UNCHANGED calls

Execute(r, s) ==
  LET verdict == Evaluate(Policy, Propose(Tenant, s, {}))
      left == req[r].ready \ {s}
  IN /\ req[r].pc = "advancing"
     /\ s \in req[r].ready /\ \A t \in left : s <= t
     /\ \/ verdict = "ALLOW" /\ InvokeStep(r, req[r].run, s, NoOne, left)
        \/ verdict = "REQUIRE_HUMAN_APPROVAL" /\ Hold(r, s, "AWAITING_APPROVAL", left)
        \/ verdict = "DENY" /\ Hold(r, s, "DENIED", left)
     /\ UNCHANGED <<stored, row, trail, lock, served, overlapped, crashed>>

\* Mutants of Commit: the entries are not part of the transaction; the lock outlives it.
CommitRunOnly(r) ==
  /\ req[r].pc = "saving"
  /\ row' = req[r].run
  /\ stored' = TRUE
  /\ lock' = IF lock = r THEN NoRequest ELSE lock
  /\ req' = [req EXCEPT ![r] = Free]
  /\ UNCHANGED <<trail, calls, served, overlapped, crashed>>

CommitKeepingLock(r) ==
  /\ req[r].pc = "saving"
  /\ row' = req[r].run
  /\ trail' = [s \in Step |-> trail[s] \o req[r].entries[s]]
  /\ stored' = TRUE
  /\ req' = [req EXCEPT ![r] = Free]
  /\ UNCHANGED <<calls, lock, served, overlapped, crashed>>

\* save() and the commit, which makes rows and entries visible and frees the lock.  The
\* whole copy is written: save() reads the rows again (the session keeps only weak
\* references to those load() read) and sets every column of every step.
Commit(r) ==
  /\ req[r].pc = "saving"
  /\ row' = req[r].run
  /\ trail' = [s \in Step |-> trail[s] \o req[r].entries[s]]
  /\ stored' = TRUE
  /\ lock' = IF lock = r THEN NoRequest ELSE lock
  /\ req' = [req EXCEPT ![r] = Free]
  /\ UNCHANGED <<calls, served, overlapped, crashed>>

\* The process dies, the database goes away or a call raises: the transaction rolls
\* back, whatever its tools have done by then.
Crash(r) ==
  /\ req[r].pc # "free"
  /\ req' = [req EXCEPT ![r] = Free]
  /\ lock' = IF lock = r THEN NoRequest ELSE lock
  /\ crashed' = TRUE
  /\ UNCHANGED <<stored, row, trail, calls, served, overlapped>>

Work(r) ==
  \/ CollectReady(r) \/ Settle(r) \/ Commit(r)
  \/ \E s \in Step : Execute(r, s)

Operation(r) ==
  \/ Refuse(r)
  \/ \E s \in Step :
       \/ \E who \in Person \cup {Blank} : Approve(r, s, who) \/ Reject(r, s, who) \/ Retry(r, s, who)
       \/ \E status \in StepStatus : ResolveExternal(r, s, status)

Next ==
  \E r \in Request : Load(r) \/ Operation(r) \/ AcquireLock(r) \/ Work(r) \/ Crash(r)

\* A request that has been accepted is carried through by its thread, and the database
\* grants an advisory lock in the order it was asked for.  Nobody owes a new request.
Fairness ==
  \A r \in Request :
    /\ WF_vars(Operation(r))
    /\ WF_vars(Work(r))
    /\ SF_vars(AcquireLock(r))

Spec == Init /\ [][Next]_vars /\ Fairness

-----------------------------------------------------------------------------
Outcomes(s) == { trail[s][i].outcome : i \in DOMAIN trail[s] }
Held(s) == Cardinality({ i \in DOMAIN trail[s] : trail[s][i].outcome = "AWAITING_APPROVAL" })
Irreversible(s) == ActionOf[s] \in IRREVERSIBLE_ACTIONS

TrailTells(s) ==
  LET last == trail[s][Len(trail[s])].outcome IN
    IF trail[s] = <<>> THEN row.status[s] = "PENDING"
    ELSE row.status[s] = IF last = "RETRIED" THEN "PENDING" ELSE last

\* Whatever requests overlap or die, an irreversible action is executed only with a
\* person's name on it.
IrreversibleNamesPerson ==
  \A s \in Step : Irreversible(s) => \A i \in DOMAIN calls[s] : calls[s][i] \in Person

\* No stored status without its evidence: lost updates and rollbacks included, a step
\* that is not pending has a committed ledger entry with that very outcome, and a
\* stored approver is named by one of its entries.
StatusIsWitnessed ==
  stored => \A s \in Step :
    /\ row.status[s] # "PENDING" => row.status[s] \in Outcomes(s)
    /\ row.approver[s] # NoOne =>
         \E i \in DOMAIN trail[s] : trail[s][i].approver = row.approver[s]

\* As long as no two requests overlapped, crashes included, the stored run is the one
\* the ledger tells (what AgentRuntime promises as TrailTellsStatus).
SerialTrailTellsStatus == stored /\ ~overlapped => \A s \in Step : TrailTells(s)

\* As long as no two requests overlapped and none died, an irreversible action is
\* executed once per hold for approval and within the attempt limit.
SerialCallsAreSpent ==
  ~overlapped /\ ~crashed => \A s \in Step :
    /\ Irreversible(s) => Len(calls[s]) <= Held(s)
    /\ Len(calls[s]) <= MaxStepAttempts

\* Every request ends: the ledger lock is always given back, so nobody waits for ever.
RequestsEnd == \A r \in Request : req[r].pc # "free" ~> req[r].pc = "free"

-----------------------------------------------------------------------------
\* What the documents say of a run, which overlapping requests break.

\* test_runtime.py: approving a step that is no longer awaiting approval is an error,
\* so one hold for approval yields one execution.
ApprovalIsSpentOnce ==
  ~crashed => \A s \in Step : Irreversible(s) => Len(calls[s]) <= Held(s)

\* Whatever requests on one run overlap: an irreversible action has a person's name on it,
\* and the ledger and the attempts tell what was done as long as none overlapped.
RequestsKeepTheRun ==
  /\ TypeOK /\ IrreversibleNamesPerson /\ SerialTrailTellsStatus /\ SerialCallsAreSpent

=============================================================================
