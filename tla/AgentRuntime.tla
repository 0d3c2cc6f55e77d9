------------------------------ MODULE AgentRuntime ------------------------------
(***************************************************************************)
(* AgentRuntime (aegis/agents/runtime.py) driving one workflow run: start, *)
(* advance, approve, reject, resolve_external and retry, one request at a  *)
(* time.  A request is one operation followed by the loop of advance(),    *)
(* which is modelled step by step so that tools answer as they please.     *)
(* RunRequests lifts the restriction to one request at a time.             *)
(*                                                                         *)
(* The ledger is kept as the entries of this run, one sequence per step    *)
(* ("trail"); the tenant's hash chain they are part of is LedgerAppend.    *)
(***************************************************************************)
EXTENDS WorkflowRun, Sequences, FiniteSets

CONSTANTS
  Tenant,            \* the run's tenant
  Policies,          \* the policies the tenant may have stored
  Confidences,       \* what the ConfidenceSource may answer
  MaxStepAttempts,   \* MAX_STEP_ATTEMPTS
  MaxSteps           \* the max_steps of advance()

ASSUME RuntimeAssumption ==
  /\ \A p \in Policies : p \in TenantPolicy({p.tenant})
  /\ Policies # {}
  /\ Confidences \subseteq OptionalPercent
  /\ MaxStepAttempts \in Nat \ {0}
  /\ MaxSteps \in Nat \ {0}

VARIABLES
  run,        \* WorkflowRun: the state of every step
  policy,     \* the policy stored for the tenant
  phase,      \* "idle" between requests, "advancing" inside advance()
  ready,      \* the steps of advance()'s current batch not executed yet
  executed,   \* advance()'s counter
  trail,      \* the ledger entries of each step, oldest first
  calls       \* who approved each execution of a step's tool, oldest first

vars == <<run, policy, phase, ready, executed, trail, calls>>

Outcome == StepStatus \cup {"RETRIED"}
Entry == [outcome : Outcome, approver : Name]

TypeOK ==
  /\ run \in RunState
  /\ policy \in Policies
  /\ phase \in {"idle", "advancing"}
  /\ ready \subseteq Step
  /\ executed \in Nat
  /\ trail \in [Step -> Seq(Entry)]
  /\ calls \in [Step -> Seq(Name)]

Record(s, outcome, approver) ==
  trail' = [trail EXCEPT ![s] = Append(@, [outcome |-> outcome, approver |-> approver])]

BeginAdvance == phase' = "advancing" /\ ready' = {} /\ executed' = 0

-----------------------------------------------------------------------------
\* start() followed by advance(): the run exists only with its context complete.
Init ==
  /\ run = NewRun
  /\ policy \in Policies
  /\ phase = "advancing"
  /\ ready = {}
  /\ executed = 0
  /\ trail = [s \in Step |-> <<>>]
  /\ calls = [s \in Step |-> <<>>]

\* advance(): "ready = run.runnable_steps()" while there are any.
CollectReady ==
  /\ phase = "advancing" /\ ready = {}
  /\ executed < MaxSteps
  /\ RunnableSteps(run) # {}
  /\ ready' = RunnableSteps(run)
  /\ UNCHANGED <<run, policy, phase, executed, trail, calls>>

\* Mutant of Settle: the loop ends only at its limit.
SettleAtLimitOnly ==
  /\ phase = "advancing" /\ ready = {}
  /\ RunnableSteps(run) = {} /\ executed >= MaxSteps
  /\ phase' = "idle"
  /\ UNCHANGED <<run, policy, ready, executed, trail, calls>>

\* advance() returns: nothing is runnable, or it has executed max_steps.
Settle ==
  /\ phase = "advancing" /\ ready = {}
  /\ RunnableSteps(run) = {} \/ executed >= MaxSteps
  /\ phase' = "idle"
  /\ UNCHANGED <<run, policy, ready, executed, trail, calls>>

\* The step of the batch that is defined first.
NextReady(s) == s \in ready /\ \A t \in ready : s <= t

\* What the loop of advance() does after a step: a failed run stops it, but only
\* once the whole batch has been executed.
AfterStep(s) ==
  /\ executed' = executed + 1
  /\ ready' = ready \ {s}
  /\ phase' = IF ready' = {} /\ RunStatusOf(run') = "FAILED" THEN "idle" ELSE phase

\* _invoke(): the tool runs at once and whatever it answers is recorded.
InvokeStep(before, s, approver) ==
  \E answer \in ToolAnswer(s) :
    /\ run' = Invoke(before, s, answer)
    /\ Record(s, InvokedStatus(s, answer), approver)
    /\ calls' = IF answer = "absent" THEN calls
                ELSE [calls EXCEPT ![s] = Append(@, approver)]

\* _execute() of the next step of the batch, by verdict.
ExecuteAllowed(s, confidence) ==
  /\ phase = "advancing" /\ NextReady(s)
  /\ Evaluate(policy, Propose(Tenant, s, confidence)) = "ALLOW"
  /\ InvokeStep(run, s, NoOne)
  /\ AfterStep(s)
  /\ UNCHANGED policy

ExecuteHeld(s, confidence) ==
  /\ phase = "advancing" /\ NextReady(s)
  /\ Evaluate(policy, Propose(Tenant, s, confidence)) = "REQUIRE_HUMAN_APPROVAL"
  /\ run' = Transition(run, s, "AWAITING_APPROVAL")
  /\ Record(s, "AWAITING_APPROVAL", NoOne)
  /\ AfterStep(s)
  /\ UNCHANGED <<policy, calls>>

ExecuteDenied(s, confidence) ==
  /\ phase = "advancing" /\ NextReady(s)
  /\ Evaluate(policy, Propose(Tenant, s, confidence)) = "DENY"
  /\ run' = Transition(run, s, "DENIED")
  /\ Record(s, "DENIED", NoOne)
  /\ AfterStep(s)
  /\ UNCHANGED <<policy, calls>>

-----------------------------------------------------------------------------
\* approve(): the gate is not asked again; the approval is the permission.
Approve(s, who) ==
  /\ phase = "idle"
  /\ run.status[s] = "AWAITING_APPROVAL"
  /\ who # Blank
  /\ InvokeStep([run EXCEPT !.approver[s] = who], s, who)
  /\ BeginAdvance
  /\ UNCHANGED policy

\* Mutant of Reject: the ledger is forgotten.
RejectUnrecorded(s, who) ==
  /\ phase = "idle"
  /\ run.status[s] = "AWAITING_APPROVAL"
  /\ run' = [run EXCEPT !.approver[s] = who, !.status[s] = "REJECTED"]
  /\ UNCHANGED <<policy, phase, ready, executed, trail, calls>>

\* reject(): no name is demanded and advance() is not called.
Reject(s, who) ==
  /\ phase = "idle"
  /\ run.status[s] = "AWAITING_APPROVAL"
  /\ run' = [run EXCEPT !.approver[s] = who, !.status[s] = "REJECTED"]
  /\ Record(s, "REJECTED", who)
  /\ UNCHANGED <<policy, phase, ready, executed, calls>>

\* Mutant of ResolveExternal: what was waiting for the answer is not started.
ResolveWithoutAdvance(s, status) ==
  /\ phase = "idle"
  /\ run.status[s] = "AWAITING_EXTERNAL"
  /\ status \in {"COMPLETED", "FAILED"}
  /\ run' = Transition(run, s, status)
  /\ Record(s, status, NoOne)
  /\ UNCHANGED <<policy, phase, ready, executed, calls>>

ResolveExternal(s, status) ==
  /\ phase = "idle"
  /\ run.status[s] = "AWAITING_EXTERNAL"
  /\ status \in {"COMPLETED", "FAILED"}
  /\ run' = Transition(run, s, status)
  /\ Record(s, status, NoOne)
  /\ BeginAdvance
  /\ UNCHANGED <<policy, calls>>

\* What retry() does to a step once it may.
PutBack(s, who, status) ==
  /\ run' = [run EXCEPT !.approver[s] = NoOne, !.status[s] = status]
  /\ Record(s, "RETRIED", who)
  /\ BeginAdvance
  /\ UNCHANGED <<policy, calls>>

\* Mutant of Retry: a decision retried like a fault.
RetryDecision(s, who) ==
  /\ phase = "idle" /\ run.status[s] \in {"FAILED", "DENIED", "REJECTED"} /\ who # Blank
  /\ run.attempts[s] < MaxStepAttempts
  /\ PutBack(s, who, "PENDING")

\* retry(): the step goes back to PENDING, so that advance() asks the gate again.
Retry(s, who) ==
  /\ phase = "idle"
  /\ run.status[s] = "FAILED"
  /\ who # Blank
  /\ run.attempts[s] < MaxStepAttempts
  /\ PutBack(s, who, "PENDING")

\* Provisioning the tenant again stores another posture between two requests; a
\* request keeps the policy it loaded.
StorePolicy(p) ==
  /\ phase = "idle"
  /\ policy' = p
  /\ UNCHANGED <<run, phase, ready, executed, trail, calls>>

Execute(s) ==
  \E c \in Confidences : ExecuteAllowed(s, c) \/ ExecuteHeld(s, c) \/ ExecuteDenied(s, c)

Decide(s) ==
  \/ \E who \in Person \cup {Blank} : Approve(s, who) \/ Reject(s, who) \/ Retry(s, who)
  \/ \E status \in StepStatus : ResolveExternal(s, status)

Advance == CollectReady \/ Settle \/ \E s \in Step : Execute(s)

Next ==
  \/ Advance
  \/ \E s \in Step : Decide(s)
  \/ \E p \in Policies : StorePolicy(p)

\* advance() is a loop of one request and runs to its end; people, providers and
\* operators owe the run nothing.
Spec == Init /\ [][Next]_vars /\ WF_vars(Advance)

-----------------------------------------------------------------------------
\* A step was executed, refused or held only once everything it requires was done:
\* no order of approvals, failures and retries lets a step overtake (runtime.py
\* advance, workflow.py runnable_steps).
StartedAfterDependencies ==
  \A s \in Step :
    run.status[s] # "PENDING" \/ trail[s] # <<>> \/ s \in ready
      => \A d \in Requires[s] : DependencySatisfied(run, d)

\* How often the entries say that a step was held for approval.
HeldIn(entries) ==
  Cardinality({ i \in 1..Len(entries) : entries[i].outcome = "AWAITING_APPROVAL" })

\* No configuration, confidence or retry executes an irreversible action without a
\* person: every execution names its approver, and each hold for approval is spent on
\* at most one execution (gate.py evaluate, runtime.py approve and retry).
IrreversibleNeedsPerson ==
  \A s \in Step : ActionOf[s] \in IRREVERSIBLE_ACTIONS =>
    /\ Len(calls[s]) <= HeldIn(trail[s])
    /\ \A i \in 1..Len(calls[s]) : calls[s][i] \in Person

\* A step's tool is executed at most MAX_STEP_ATTEMPTS times, however approvals,
\* provider failures and retries follow each other; approve() tests no limit, so this
\* rests on retry() and on attempts counting every execution.
AttemptsBounded ==
  \A s \in Step : Len(calls[s]) <= run.attempts[s] /\ run.attempts[s] <= MaxStepAttempts

\* The ledger is enough to rebuild the run: the last entry of a step is the status the
\* run is in, a retried step is pending, and an untouched one has no entry.
TrailTellsStatus ==
  \A s \in Step :
    LET last == trail[s][Len(trail[s])].outcome IN
      IF trail[s] = <<>> THEN run.status[s] = "PENDING"
      ELSE run.status[s] = IF last = "RETRIED" THEN "PENDING" ELSE last

\* Between requests a run that has not failed leaves nothing runnable behind: no
\* endpoint advances a run by itself, so such a step would wait for ever.  (max_steps
\* is 50 and the longest workflow has 7 steps.)
IdleIsSettled ==
  phase = "idle" /\ RunStatusOf(run) # "FAILED" /\ StepCount <= MaxSteps
    => RunnableSteps(run) = {}

\* "a denied or rejected step is a decision, not a fault": a step that was completed,
\* skipped, denied or rejected stays so, and its tool is not executed again.
DecisionsAreFinal ==
  [][ \A s \in Step :
        run.status[s] \in {"COMPLETED", "SKIPPED", "DENIED", "REJECTED"}
          => run'.status[s] = run.status[s] /\ calls'[s] = calls[s] ]_vars

\* Every request comes back: advance() cannot loop on its own outcomes.
AdvanceReturns == phase = "advancing" ~> phase = "idle"
=============================================================================
