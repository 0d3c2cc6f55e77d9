--------------------------- MODULE AgentRuntimeProofs ---------------------------
(***************************************************************************)
(* Proofs about AgentRuntime, for any workflow definition, policies,       *)
(* confidences and limits.                                                 *)
(*                                                                         *)
(* The argument.  Every step of the specification that touches the run     *)
(* moves one step of the workflow (Moved): it is invoked, or its status is *)
(* set.  Whatever moves a step finds it pending and in advance()'s batch,  *)
(* or awaiting or failed; so the batch stays what runnable_steps() would   *)
(* return (Batch), which is what keeps a finished step finished.           *)
(***************************************************************************)
EXTENDS AgentRuntime, FiniteSetTheorems, TLAPS

\* A tool is about to be tried, or was held back from it: one more attempt is allowed.
Untried(s) == run.status[s] \in {"PENDING", "AWAITING_APPROVAL"}

\* The steps of the batch are the runnable ones still to be executed; there are none
\* between requests.
Batch ==
  /\ ready \subseteq RunnableSteps(run)
  /\ phase = "idle" => ready = {}

IInv == TypeOK /\ Batch

\* The tool of s is tried for the named approver, with whatever result.
Tried(s, approver) ==
  /\ \E status \in {"COMPLETED", "AWAITING_EXTERNAL", "FAILED", "SKIPPED"} :
       /\ run'.status = [run.status EXCEPT ![s] = status]
       /\ run'.attempts = [run.attempts EXCEPT ![s] = @ + 1]
       /\ trail' = [trail EXCEPT ![s] = Append(@, [outcome |-> status, approver |-> approver])]
  /\ calls' = calls \/ calls' = [calls EXCEPT ![s] = Append(@, approver)]

\* Step s is invoked, by the gate's leave or a person's.
Invoked(s, approver) ==
  /\ \/ /\ run.status[s] = "PENDING" /\ s \in ready /\ approver = NoOne
        /\ ActionOf[s] \notin IRREVERSIBLE_ACTIONS
        /\ ready' = ready \ {s}
     \/ /\ run.status[s] = "AWAITING_APPROVAL" /\ approver \in Person
        /\ ready' = {}
  /\ Tried(s, approver)

\* The status of s is set without its tool: held or denied by the gate, rejected by a
\* person, answered by a provider, or put back by retry().
MayBecome(s, status) ==
  \/ /\ s \in ready /\ run.status[s] = "PENDING"
     /\ status \in {"AWAITING_APPROVAL", "DENIED"} /\ ready' = ready \ {s}
  \/ /\ run.status[s] = "AWAITING_APPROVAL" /\ status = "REJECTED"
     /\ ready' = ready
  \/ /\ run.status[s] = "AWAITING_EXTERNAL" /\ status \in {"COMPLETED", "FAILED"}
     /\ ready' = {}
  \/ /\ run.status[s] = "FAILED" /\ status = "PENDING"
     /\ run.attempts[s] < MaxStepAttempts /\ ready' = {}

Marked(s, status, approver) ==
  /\ MayBecome(s, status)
  /\ run'.status = [run.status EXCEPT ![s] = status]
  /\ run'.attempts = run.attempts
  /\ trail' = [trail EXCEPT ![s] =
       Append(@, [outcome |-> IF status = "PENDING" THEN "RETRIED" ELSE status,
                  approver |-> approver])]
  /\ calls' = calls

Moved ==
  \E s \in Step, approver \in Name :
    Invoked(s, approver) \/ \E status \in StepStatus : Marked(s, status, approver)

\* Nothing of the run is touched; a batch may be collected.
Unmoved ==
  /\ run' = run /\ trail' = trail /\ calls' = calls
  /\ ready' = ready \/ ready' = RunnableSteps(run)

-----------------------------------------------------------------------------
\* The gate never allows an irreversible action, whatever the policy.
LEMMA IrreversibleNeverAllowed ==
  ASSUME NEW p, NEW action, action.type \in IRREVERSIBLE_ACTIONS
  PROVE  Evaluate(p, action) # "ALLOW"
BY DEF Evaluate, NeedsPerson

-----------------------------------------------------------------------------
\* Policy q allows nothing that p does not, and action b asks for more than a, or for the
\* same with less confidence.
Tighter(q, p) ==
  /\ q.tenant = p.tenant /\ q.autonomous \subseteq p.autonomous /\ p.forbidden \subseteq q.forbidden
  /\ q.readable \subseteq p.readable /\ q.floor >= p.floor

Bolder(b, a) ==
  /\ b.tenant = a.tenant /\ b.type = a.type /\ a.touches \subseteq b.touches
  /\ \A c \in a.confidence : \E d \in b.confidence : d <= c

AsStrict(v, w) == v = w \/ v = "DENY" \/ w = "ALLOW"

\* The gate is monotone: a tighter policy or a bolder action never receives a laxer answer,
\* although it reads tenants, two lists, domains and a floor (gate.py, evaluate).
THEOREM TighterNeverLooser ==
  ASSUME NEW T, NEW p \in TenantPolicy(T), NEW q \in TenantPolicy(T), Tighter(q, p),
         NEW a \in ProposedAction(T), NEW b \in ProposedAction(T), Bolder(b, a)
  PROVE  AsStrict(Evaluate(q, b), Evaluate(p, a))
<1>1. Denied(p, a) => Denied(q, b)
  BY DEF Denied, RestrictedDomains, Tighter, Bolder
<1>2. NeedsPerson(p, a) => NeedsPerson(q, b)
  <2>1. ASSUME NEW c \in a.confidence, c < p.floor PROVE \E d \in b.confidence : d < q.floor
    <3>1. PICK d \in b.confidence : d <= c
      BY DEF Bolder
    <3>2. a.confidence \subseteq Nat /\ b.confidence \subseteq Nat /\ p.floor \in Nat /\ q.floor \in Nat
      BY DEF ProposedAction, TenantPolicy, OptionalPercent, Percent
    <3>3. c \in Nat /\ d \in Nat /\ p.floor <= q.floor
      BY <3>2 DEF Tighter
    <3> QED
      BY <2>1, <3>1, <3>2, <3>3
  <2> QED
    BY <2>1 DEF NeedsPerson, Tighter, Bolder
<1> QED
  BY <1>1, <1>2 DEF Evaluate, AsStrict

\* The two policies that provisioning can store are policies, and the conservative one is
\* the tighter.
LEMMA ConservativeIsTighter ==
  ASSUME NEW T, NEW tenant \in T
  PROVE  /\ ConservativePolicy(tenant) \in TenantPolicy(T) /\ PermissivePolicy(tenant) \in TenantPolicy(T)
         /\ Tighter(ConservativePolicy(tenant), PermissivePolicy(tenant))
<1>1. ConservativePolicy(tenant).autonomous \in SUBSET ActionType
  BY DEF ConservativePolicy, ActionType
<1>2. ConservativePolicy(tenant) \in TenantPolicy(T)
  BY <1>1 DEF ConservativePolicy, TenantPolicy, Percent
<1>3. PermissivePolicy(tenant) \in TenantPolicy(T)
  BY DEF PermissivePolicy, TenantPolicy, Percent
<1>4. "REJECT_APPLICATION" \notin ConservativePolicy(tenant).autonomous
  BY DEF ConservativePolicy
<1>5. Tighter(ConservativePolicy(tenant), PermissivePolicy(tenant))
  BY <1>1, <1>4 DEF ConservativePolicy, PermissivePolicy, Tighter
<1> QED
  BY <1>2, <1>3, <1>5

-----------------------------------------------------------------------------
LEMMA InvokedStatuses ==
  ASSUME NEW s \in Step, NEW answer \in ToolAnswer(s)
  PROVE  InvokedStatus(s, answer) \in {"COMPLETED", "AWAITING_EXTERNAL", "FAILED", "SKIPPED"}
<1>1. answer \in {"ok", "failed", "absent"}
  BY DEF ToolAnswer
<1> QED
  BY <1>1 DEF InvokedStatus

LEMMA InvokeMoves ==
  ASSUME TypeOK, NEW before \in RunState, before.status = run.status,
         before.attempts = run.attempts, NEW s \in Step, NEW approver \in Name,
         InvokeStep(before, s, approver)
  PROVE  Tried(s, approver) /\ run' \in RunState
<1> PICK answer \in ToolAnswer(s) :
      /\ run' = Invoke(before, s, answer)
      /\ Record(s, InvokedStatus(s, answer), approver)
      /\ calls' = IF answer = "absent" THEN calls
                  ELSE [calls EXCEPT ![s] = Append(@, approver)]
  BY DEF InvokeStep
<1> DEFINE status == InvokedStatus(s, answer)
<1>1. status \in {"COMPLETED", "AWAITING_EXTERNAL", "FAILED", "SKIPPED"}
  BY InvokedStatuses
<1> HIDE DEF status
<1>2. run' = [before EXCEPT !.attempts[s] = @ + 1, !.status[s] = status]
  BY DEF Invoke, status
<1>3. /\ run'.status = [before.status EXCEPT ![s] = status]
      /\ run'.attempts = [before.attempts EXCEPT ![s] = @ + 1]
      /\ run'.approver = before.approver
      /\ run' = [status |-> run'.status, attempts |-> run'.attempts, approver |-> run'.approver]
  BY <1>2 DEF RunState
<1>5. run' \in RunState
  <2>1. before.status \in [Step -> StepStatus] /\ before.attempts \in [Step -> Nat]
        /\ before.approver \in [Step -> Name]
    BY DEF RunState
  <2>2. status \in StepStatus
    BY <1>1 DEF StepStatus
  <2>3. run'.status \in [Step -> StepStatus]
    BY <1>3, <2>1, <2>2
  <2>4. run'.attempts \in [Step -> Nat]
    BY <1>3, <2>1
  <2> QED
    BY <1>3, <2>1, <2>3, <2>4 DEF RunState
<1>4. trail' = [trail EXCEPT ![s] = Append(@, [outcome |-> status, approver |-> approver])]
  BY DEF Record, status
<1> QED
  BY <1>1, <1>3, <1>4, <1>5 DEF Tried

\* Every step of the specification moves one step of the workflow, or none.
LEMMA StepMoves ==
  ASSUME IInv, [Next]_vars
  PROVE  /\ run' \in RunState
         /\ Moved \/ Unmoved
<1> TypeOK
  BY DEF IInv
<1> USE DefinitionAssumption
<1>1. CASE CollectReady \/ Settle \/ (\E p \in Policies : StorePolicy(p)) \/ UNCHANGED vars
  BY <1>1 DEF CollectReady, Settle, StorePolicy, vars, Unmoved, TypeOK
<1>2. ASSUME NEW s \in Step, NEW c \in Confidences, ExecuteAllowed(s, c)
      PROVE  run' \in RunState /\ Moved
  <2>1. s \in ready /\ ready' = ready \ {s} /\ run.status[s] = "PENDING"
    BY <1>2 DEF ExecuteAllowed, NextReady, AfterStep, IInv, Batch, RunnableSteps
  <2>2. ActionOf[s] \notin IRREVERSIBLE_ACTIONS
    BY <1>2, IrreversibleNeverAllowed DEF ExecuteAllowed, Propose
  <2>3. run \in RunState /\ InvokeStep(run, s, NoOne) /\ NoOne \in Name
    BY <1>2 DEF ExecuteAllowed, TypeOK, Name
  <2>4. Invoked(s, NoOne) /\ run' \in RunState
    BY <2>1, <2>2, <2>3, InvokeMoves DEF Invoked
  <2> QED
    BY <2>3, <2>4 DEF Moved
<1>3. ASSUME NEW s \in Step, NEW c \in Confidences, ExecuteHeld(s, c)
      PROVE  run' \in RunState /\ Moved
  <2>1. s \in ready /\ ready' = ready \ {s} /\ run.status[s] = "PENDING"
    BY <1>3 DEF ExecuteHeld, NextReady, AfterStep, IInv, Batch, RunnableSteps
  <2>2. Marked(s, "AWAITING_APPROVAL", NoOne) /\ run' \in RunState
    BY <1>3, <2>1 DEF ExecuteHeld, Marked, MayBecome, Transition, Record, TypeOK, RunState, StepStatus
  <2> QED
    BY <2>2 DEF Moved, Name, StepStatus
<1>4. ASSUME NEW s \in Step, NEW c \in Confidences, ExecuteDenied(s, c)
      PROVE  run' \in RunState /\ Moved
  <2>1. s \in ready /\ ready' = ready \ {s} /\ run.status[s] = "PENDING"
    BY <1>4 DEF ExecuteDenied, NextReady, AfterStep, IInv, Batch, RunnableSteps
  <2>2. Marked(s, "DENIED", NoOne) /\ run' \in RunState
    BY <1>4, <2>1 DEF ExecuteDenied, Marked, MayBecome, Transition, Record, TypeOK, RunState, StepStatus
  <2> QED
    BY <2>2 DEF Moved, Name, StepStatus
<1>5. ASSUME NEW s \in Step, NEW who \in Person \cup {Blank}, Approve(s, who)
      PROVE  run' \in RunState /\ Moved
  <2> DEFINE before == [run EXCEPT !.approver[s] = who]
  <2>1. before \in RunState /\ before.status = run.status /\ before.attempts = run.attempts
    BY DEF TypeOK, RunState, Name
  <2> HIDE DEF before
  <2>2. who \in Person /\ who \in Name /\ InvokeStep(before, s, who)
    BY <1>5 DEF Approve, Name, before
  <2>3. Invoked(s, who) /\ run' \in RunState
    BY <1>5, <2>1, <2>2, InvokeMoves DEF Invoked, Approve, BeginAdvance
  <2> QED
    BY <2>2, <2>3 DEF Moved
<1>6. ASSUME NEW s \in Step, NEW who \in Person \cup {Blank}, Reject(s, who)
      PROVE  run' \in RunState /\ Moved
  <2>1. Marked(s, "REJECTED", who) /\ run' \in RunState
    BY <1>6 DEF Reject, Marked, MayBecome, Record, TypeOK, RunState, StepStatus, Name
  <2> QED
    BY <2>1 DEF Moved, Name, StepStatus
<1>7. ASSUME NEW s \in Step, NEW status \in StepStatus, ResolveExternal(s, status)
      PROVE  run' \in RunState /\ Moved
  <2>1. Marked(s, status, NoOne) /\ run' \in RunState
    BY <1>7 DEF ResolveExternal, Marked, MayBecome, Transition, Record, BeginAdvance, TypeOK, RunState
  <2> QED
    BY <2>1 DEF Moved, Name
<1>8. ASSUME NEW s \in Step, NEW who \in Person \cup {Blank}, Retry(s, who)
      PROVE  run' \in RunState /\ Moved
  <2>1. Marked(s, "PENDING", who) /\ run' \in RunState
    BY <1>8 DEF Retry, PutBack, Marked, MayBecome, Record, BeginAdvance, TypeOK, RunState, StepStatus, Name
  <2> QED
    BY <2>1 DEF Moved, Name, StepStatus
<1> QED
  BY <1>1, <1>2, <1>3, <1>4, <1>5, <1>6, <1>7, <1>8 DEF Next, Advance, Execute, Decide

-----------------------------------------------------------------------------
\* The variables that are not the run's.
LEMMA OtherTypes ==
  ASSUME IInv, [Next]_vars
  PROVE  policy' \in Policies /\ phase' \in {"idle", "advancing"} /\ executed' \in Nat
<1> TypeOK
  BY DEF IInv
<1>1. CASE UNCHANGED vars
  BY <1>1 DEF vars, TypeOK
<1>2. CASE CollectReady \/ Settle \/ (\E p \in Policies : StorePolicy(p))
  BY <1>2 DEF TypeOK, CollectReady, Settle, StorePolicy
<1>3. ASSUME NEW s \in Step, Execute(s)
      PROVE  policy' = policy /\ AfterStep(s)
  BY <1>3 DEF Execute, ExecuteAllowed, ExecuteHeld, ExecuteDenied
<1>4. ASSUME NEW s \in Step, Execute(s)
      PROVE  phase' \in {"idle", "advancing"} /\ executed' \in Nat
  BY <1>3, <1>4 DEF AfterStep, TypeOK
<1>5. ASSUME NEW s \in Step, Decide(s)
      PROVE  policy' = policy /\ (BeginAdvance \/ UNCHANGED <<phase, executed>>)
  BY <1>5 DEF Decide, Approve, Reject, Retry, PutBack, ResolveExternal
<1>6. ASSUME NEW s \in Step, Decide(s)
      PROVE  phase' \in {"idle", "advancing"} /\ executed' \in Nat
  BY <1>5, <1>6 DEF BeginAdvance, TypeOK
<1>7. policy \in Policies
  BY DEF TypeOK
<1> QED
  BY <1>1, <1>2, <1>3, <1>4, <1>5, <1>6, <1>7 DEF Next, Advance

LEMMA TypeStep ==
  ASSUME IInv, [Next]_vars
  PROVE  TypeOK'
<1> TypeOK
  BY DEF IInv
<1>1. run' \in RunState
  BY StepMoves
<1>2. CASE Unmoved
  <2>1. trail' \in [Step -> Seq(Entry)] /\ calls' \in [Step -> Seq(Name)] /\ ready' \subseteq Step
    BY <1>2 DEF Unmoved, TypeOK, RunnableSteps
  <2> QED
    BY <1>1, <2>1, OtherTypes DEF TypeOK
<1>3. CASE Moved
  <2>1. PICK s \in Step, approver \in Name :
          Invoked(s, approver) \/ \E status \in StepStatus : Marked(s, status, approver)
    BY <1>3 DEF Moved
  <2>2. ready' \subseteq Step
    BY <2>1 DEF Invoked, Marked, MayBecome, TypeOK
  <2>3. calls' \in [Step -> Seq(Name)]
    <3>1. calls' = calls \/ calls' = [calls EXCEPT ![s] = Append(@, approver)]
      BY <2>1 DEF Invoked, Tried, Marked
    <3>2. calls \in [Step -> Seq(Name)] /\ Append(calls[s], approver) \in Seq(Name)
      BY DEF TypeOK
    <3> QED
      BY <3>1, <3>2
  <2>4. \E outcome \in Outcome :
          trail' = [trail EXCEPT ![s] = Append(@, [outcome |-> outcome, approver |-> approver])]
    BY <2>1 DEF Invoked, Tried, Marked, Outcome, StepStatus
  <2>5. trail' \in [Step -> Seq(Entry)]
    <3> PICK outcome \in Outcome :
          trail' = [trail EXCEPT ![s] = Append(@, [outcome |-> outcome, approver |-> approver])]
      BY <2>4
    <3>1. [outcome |-> outcome, approver |-> approver] \in Entry
      BY DEF Entry
    <3>2. trail \in [Step -> Seq(Entry)]
      BY DEF TypeOK
    <3> HIDE DEF Entry
    <3>3. Append(trail[s], [outcome |-> outcome, approver |-> approver]) \in Seq(Entry)
      BY <3>1, <3>2
    <3> QED
      BY <3>2, <3>3
  <2> QED
    BY <1>1, <2>2, <2>3, <2>5, OtherTypes DEF TypeOK
<1> QED
  BY <1>2, <1>3, StepMoves

LEMMA BatchStep ==
  ASSUME IInv, [Next]_vars
  PROVE  Batch'
<1> TypeOK /\ TypeOK'
  BY TypeStep DEF IInv
<1>1. ready' \subseteq RunnableSteps(run)'
  <2>1. CASE Unmoved
    BY <2>1 DEF Unmoved, IInv, Batch
  <2>2. CASE Moved
    <3>1. PICK s \in Step, approver \in Name :
            Invoked(s, approver) \/ \E status \in StepStatus : Marked(s, status, approver)
      BY <2>2 DEF Moved
    <3>2. \A t \in Step \ {s} : run'.status[t] = run.status[t]
      BY <3>1 DEF Invoked, Tried, Marked, TypeOK, RunState
    <3>3. ready' \subseteq ready \ {s}
      BY <3>1 DEF Invoked, Marked, MayBecome, IInv, Batch, RunnableSteps
    <3>4. \A t \in ready : \A d \in Requires[t] : d \in Step
      BY DefinitionAssumption DEF TypeOK
    <3>5. ASSUME NEW t \in ready', NEW d \in Requires[t]
          PROVE  DependencySatisfied(run', d)
      <4>1. DependencySatisfied(run, d) /\ d \in Step
        BY <3>3, <3>4, <3>5 DEF IInv, Batch, RunnableSteps
      <4>2. d # s
        BY <3>1, <4>1 DEF DependencySatisfied, Invoked, Marked, MayBecome
      <4> QED
        BY <3>2, <4>1, <4>2 DEF DependencySatisfied
    <3>6. \A t \in ready' : t \in Step /\ run'.status[t] = "PENDING"
      BY <3>2, <3>3 DEF IInv, Batch, RunnableSteps
    <3> QED
      BY <3>5, <3>6 DEF RunnableSteps
  <2> QED
    BY <2>1, <2>2, StepMoves
<1>2. phase' = "idle" => ready' = {}
  <2>1. CASE UNCHANGED vars
    BY <2>1 DEF vars, IInv, Batch
  <2>2. ASSUME NEW s \in Step, AfterStep(s)
        PROVE  phase' = "idle" => ready' = {}
    BY <2>2 DEF AfterStep, IInv, Batch, TypeOK
  <2> QED
    BY <2>1, <2>2 DEF IInv, Batch, Next, Advance, CollectReady, Settle, Execute, ExecuteAllowed,
      ExecuteHeld, ExecuteDenied, Decide, Approve, Reject, Retry, PutBack, ResolveExternal,
      StorePolicy, BeginAdvance
<1> QED
  BY <1>1, <1>2 DEF Batch

THEOREM RunAlways == Spec => []IInv
<1>1. Init => IInv
  BY DefinitionAssumption, RuntimeAssumption
     DEF Init, IInv, TypeOK, Batch, NewRun, RunState, StepStatus, Name
<1>2. IInv /\ [Next]_vars => IInv'
  BY TypeStep, BatchStep DEF IInv
<1> QED
  BY <1>1, <1>2, PTL DEF Spec

\* Values keep their types, whatever the workflow.
THEOREM TypeAlways == Spec => []TypeOK
<1>1. IInv => TypeOK
  BY DEF IInv
<1> QED
  BY <1>1, RunAlways, PTL

-----------------------------------------------------------------------------
\* What moves at a step: one step of the workflow, which was not finished.
LEMMA OneMoves ==
  ASSUME IInv, Moved
  PROVE  \E s \in Step, approver \in Name :
           /\ Invoked(s, approver) \/ \E status \in StepStatus : Marked(s, status, approver)
           /\ run.status[s] \in {"PENDING", "AWAITING_APPROVAL", "AWAITING_EXTERNAL", "FAILED"}
           /\ run.status[s] = "PENDING" => s \in ready
           /\ ready' \subseteq ready
           /\ \A t \in Step \ {s} :
                /\ run'.status[t] = run.status[t] /\ run'.attempts[t] = run.attempts[t]
                /\ trail'[t] = trail[t] /\ calls'[t] = calls[t]
<1> TypeOK
  BY DEF IInv
<1>1. PICK s \in Step, approver \in Name :
        Invoked(s, approver) \/ \E status \in StepStatus : Marked(s, status, approver)
  BY DEF Moved
<1>2. /\ run.status[s] \in {"PENDING", "AWAITING_APPROVAL", "AWAITING_EXTERNAL", "FAILED"}
      /\ run.status[s] = "PENDING" => s \in ready
      /\ ready' \subseteq ready
  BY <1>1 DEF Invoked, Marked, MayBecome
<1>3. ASSUME NEW t \in Step \ {s}
      PROVE  /\ run'.status[t] = run.status[t] /\ run'.attempts[t] = run.attempts[t]
             /\ trail'[t] = trail[t] /\ calls'[t] = calls[t]
  BY <1>1 DEF Invoked, Tried, Marked, TypeOK, RunState
<1> QED
  BY <1>1, <1>2, <1>3

\* A satisfied dependency stays satisfied.
LEMMA SatisfiedStays ==
  ASSUME IInv, [Next]_vars, NEW d \in Step, DependencySatisfied(run, d)
  PROVE  DependencySatisfied(run', d)
<1>1. CASE Unmoved
  BY <1>1 DEF Unmoved
<1>2. CASE Moved
  <2>1. run'.status[d] = run.status[d]
    BY <1>2, OneMoves DEF DependencySatisfied
  <2> QED
    BY <2>1 DEF DependencySatisfied
<1> QED
  BY <1>1, <1>2, StepMoves

\* No order of approvals, failures and retries lets a step overtake what it requires.
THEOREM AlwaysAfterDependencies == Spec => []StartedAfterDependencies
<1>1. Init => StartedAfterDependencies
  BY DEF Init, StartedAfterDependencies, NewRun
<1>2. ASSUME IInv, [Next]_vars, StartedAfterDependencies
      PROVE  StartedAfterDependencies'
  <2> SUFFICES ASSUME NEW t \in Step, NEW d \in Requires[t],
                      run'.status[t] # "PENDING" \/ trail'[t] # <<>> \/ t \in ready'
               PROVE  DependencySatisfied(run', d)
    BY DEF StartedAfterDependencies
  <2>1. d \in Step
    BY DefinitionAssumption
  <2>2. DependencySatisfied(run, d)
    <3>1. CASE Unmoved
      BY <1>2, <3>1 DEF Unmoved, StartedAfterDependencies, RunnableSteps
    <3>2. CASE Moved
      <4>1. run.status[t] # "PENDING" \/ trail[t] # <<>> \/ t \in ready
        BY <1>2, <3>2, OneMoves
      <4> QED
        BY <1>2, <4>1 DEF StartedAfterDependencies
    <3> QED
      BY <1>2, <3>1, <3>2, StepMoves
  <2> QED
    BY <1>2, <2>1, <2>2, SatisfiedStays
<1> QED
  BY <1>1, <1>2, RunAlways, PTL DEF Spec

\* Completed, skipped, denied and rejected steps stay so, and their tools are not
\* executed again.
THEOREM DecisionsStayFinal == Spec => DecisionsAreFinal
<1>1. ASSUME IInv, [Next]_vars
      PROVE  [ \A s \in Step :
                 run.status[s] \in {"COMPLETED", "SKIPPED", "DENIED", "REJECTED"}
                   => run'.status[s] = run.status[s] /\ calls'[s] = calls[s] ]_vars
  <2>1. CASE Unmoved
    BY <2>1 DEF Unmoved
  <2>2. CASE Moved
    BY <1>1, <2>2, OneMoves
  <2> QED
    BY <1>1, <2>1, <2>2, StepMoves
<1> QED
  BY <1>1, RunAlways, PTL DEF Spec, DecisionsAreFinal

-----------------------------------------------------------------------------
\* What the limit of retry() rests on: a step about to be tried has an attempt left.
AttemptLeft == \A s \in Step : Untried(s) => run.attempts[s] < MaxStepAttempts

\* A tool is executed at most MAX_STEP_ATTEMPTS times, though approve() tests no limit.
THEOREM AttemptsAlwaysBounded == Spec => []AttemptsBounded
<1> DEFINE AInv == AttemptsBounded /\ AttemptLeft
<1>1. Init => AInv
  BY RuntimeAssumption DEF Init, AttemptsBounded, AttemptLeft, NewRun
<1>2. ASSUME IInv, [Next]_vars, AInv
      PROVE  AInv'
  <2>1. CASE Unmoved
    BY <1>2, <2>1 DEF Unmoved, AttemptsBounded, AttemptLeft, Untried
  <2>2. CASE Moved
    <3>1. PICK s \in Step, approver \in Name :
            /\ Invoked(s, approver) \/ \E status \in StepStatus : Marked(s, status, approver)
            /\ \A t \in Step \ {s} :
                 /\ run'.status[t] = run.status[t] /\ run'.attempts[t] = run.attempts[t]
                 /\ calls'[t] = calls[t]
      BY <1>2, <2>2, OneMoves
    <3>2. \A t \in Step \ {s} :
            /\ Len(calls'[t]) <= run'.attempts[t] /\ run'.attempts[t] <= MaxStepAttempts
            /\ run'.status[t] \in {"PENDING", "AWAITING_APPROVAL"}
                 => run'.attempts[t] < MaxStepAttempts
      BY <1>2, <3>1 DEF AttemptsBounded, AttemptLeft, Untried
    <3>3. /\ run.attempts[s] \in Nat /\ run'.attempts \in [Step -> Nat] /\ run.attempts \in [Step -> Nat]
          /\ run.status \in [Step -> StepStatus]
          /\ calls \in [Step -> Seq(Name)] /\ MaxStepAttempts \in Nat
      BY <1>2, TypeStep, RuntimeAssumption DEF IInv, TypeOK, RunState
    <3>4. CASE Invoked(s, approver)
      <4>1. run.attempts[s] < MaxStepAttempts
        BY <1>2, <3>4 DEF Invoked, AttemptLeft, Untried
      <4>2. run'.attempts[s] = run.attempts[s] + 1
            /\ run'.status[s] \notin {"PENDING", "AWAITING_APPROVAL"}
        BY <3>3, <3>4 DEF Invoked, Tried
      <4>3. Len(calls'[s]) <= Len(calls[s]) + 1 /\ Len(calls[s]) \in Nat
        BY <3>3, <3>4 DEF Invoked, Tried
      <4>4. Len(calls'[s]) \in Nat
        BY <1>2, TypeStep DEF TypeOK
      <4> QED
        BY <1>2, <3>2, <3>3, <4>1, <4>2, <4>3, <4>4 DEF AttemptsBounded, AttemptLeft, Untried
    <3>5. CASE \E status \in StepStatus : Marked(s, status, approver)
      <4> PICK status \in StepStatus : Marked(s, status, approver)
        BY <3>5
      <4>1. run'.attempts[s] = run.attempts[s] /\ calls'[s] = calls[s] /\ run'.status[s] = status
        BY <3>3 DEF Marked
      <4>2. status \in {"PENDING", "AWAITING_APPROVAL"} => run.attempts[s] < MaxStepAttempts
        BY <1>2 DEF Marked, MayBecome, AttemptLeft, Untried
      <4> QED
        BY <1>2, <3>2, <4>1, <4>2 DEF AttemptsBounded, AttemptLeft, Untried
    <3> QED
      BY <3>1, <3>4, <3>5
  <2> QED
    BY <1>2, <2>1, <2>2, StepMoves
<1> QED
  BY <1>1, <1>2, RunAlways, PTL DEF Spec

-----------------------------------------------------------------------------
\* A step's entries grow by one that carries its new status.
LEMMA EntryTells ==
  ASSUME IInv, NEW s \in Step, NEW approver \in Name,
         Invoked(s, approver) \/ \E status \in StepStatus : Marked(s, status, approver)
  PROVE  \E outcome \in Outcome :
           /\ trail'[s] = Append(trail[s], [outcome |-> outcome, approver |-> approver])
           /\ run'.status[s] = IF outcome = "RETRIED" THEN "PENDING" ELSE outcome
<1> trail \in [Step -> Seq(Entry)] /\ run.status \in [Step -> StepStatus]
  BY DEF IInv, TypeOK, RunState
<1>1. CASE Invoked(s, approver)
  BY <1>1 DEF Invoked, Tried, Outcome, StepStatus
<1>2. CASE \E status \in StepStatus : Marked(s, status, approver)
  <2> PICK status \in StepStatus : Marked(s, status, approver)
    BY <1>2
  <2>1. status # "RETRIED"
    BY DEF StepStatus
  <2> QED
    BY <2>1 DEF Marked, Outcome
<1> QED
  BY <1>1, <1>2

\* The last entry of every step is the status the run is in.
THEOREM TrailAlwaysTells == Spec => []TrailTellsStatus
<1>1. Init => TrailTellsStatus
  BY DEF Init, TrailTellsStatus, NewRun
<1>2. ASSUME IInv, [Next]_vars, TrailTellsStatus
      PROVE  TrailTellsStatus'
  <2>1. CASE Unmoved
    BY <1>2, <2>1 DEF Unmoved, TrailTellsStatus
  <2>2. CASE Moved
    <3>1. PICK s \in Step, approver \in Name :
            /\ Invoked(s, approver) \/ \E status \in StepStatus : Marked(s, status, approver)
            /\ \A t \in Step \ {s} : run'.status[t] = run.status[t] /\ trail'[t] = trail[t]
      BY <1>2, <2>2, OneMoves
    <3>2. PICK outcome \in Outcome :
            /\ trail'[s] = Append(trail[s], [outcome |-> outcome, approver |-> approver])
            /\ run'.status[s] = IF outcome = "RETRIED" THEN "PENDING" ELSE outcome
      BY <1>2, <3>1, EntryTells
    <3>3. trail[s] \in Seq(Entry)
      BY <1>2 DEF IInv, TypeOK
    <3>4. trail'[s] # <<>> /\ trail'[s][Len(trail'[s])].outcome = outcome
      <4> HIDE DEF Entry
      <4>1. ASSUME NEW e
            PROVE  Append(trail[s], e) # <<>>
                   /\ Append(trail[s], e)[Len(Append(trail[s], e))] = e
        BY <3>3
      <4> QED
        BY <3>2, <4>1
    <3> QED
      BY <1>2, <3>1, <3>2, <3>4 DEF TrailTellsStatus
  <2> QED
    BY <1>2, <2>1, <2>2, StepMoves
<1> QED
  BY <1>1, <1>2, RunAlways, PTL DEF Spec

-----------------------------------------------------------------------------
LEMMA HeldType ==
  ASSUME NEW t \in Seq(Entry)
  PROVE  /\ HeldIn(t) \in Nat
         /\ IsFiniteSet({ i \in 1..Len(t) : t[i].outcome = "AWAITING_APPROVAL" })
<1>1. IsFiniteSet(1..Len(t))
  BY FS_Interval
<1>2. { i \in 1..Len(t) : t[i].outcome = "AWAITING_APPROVAL" } \subseteq 1..Len(t)
  OBVIOUS
<1> QED
  BY <1>1, <1>2, FS_Subset, FS_CardinalityType DEF HeldIn

\* An entry more is a hold more if it says so.
LEMMA HeldAppend ==
  ASSUME NEW t \in Seq(Entry), NEW e
  PROVE  HeldIn(Append(t, e)) =
           IF e.outcome = "AWAITING_APPROVAL" THEN HeldIn(t) + 1 ELSE HeldIn(t)
<1> DEFINE H(u) == { i \in 1..Len(u) : u[i].outcome = "AWAITING_APPROVAL" }
<1>1. /\ Len(t) \in Nat /\ Len(Append(t, e)) = Len(t) + 1
      /\ \A i \in 1..Len(t) : Append(t, e)[i] = t[i]
      /\ Append(t, e)[Len(t) + 1] = e
  OBVIOUS
<1>2. 1..(Len(t) + 1) = (1..Len(t)) \cup {Len(t) + 1} /\ Len(t) + 1 \notin 1..Len(t)
  BY <1>1
<1>3. IsFiniteSet(H(t)) /\ HeldIn(t) = Cardinality(H(t)) /\ Len(t) + 1 \notin H(t)
  BY <1>2, HeldType DEF HeldIn
<1>4. HeldIn(Append(t, e)) = Cardinality(H(Append(t, e)))
  BY DEF HeldIn
<1>5. CASE e.outcome = "AWAITING_APPROVAL"
  <2>1. H(Append(t, e)) = H(t) \cup {Len(t) + 1}
    BY <1>1, <1>2, <1>5
  <2> HIDE DEF H
  <2> QED
    BY <1>3, <1>4, <1>5, <2>1, FS_AddElement
<1>6. CASE e.outcome # "AWAITING_APPROVAL"
  <2>1. H(Append(t, e)) = H(t)
    BY <1>1, <1>2, <1>6
  <2> QED
    BY <1>3, <1>4, <1>6, <2>1
<1> QED
  BY <1>5, <1>6

\* A hold that no execution has been spent on, while a person has the decision.
HoldLeft ==
  \A s \in Step : ActionOf[s] \in IRREVERSIBLE_ACTIONS /\ run.status[s] = "AWAITING_APPROVAL"
    => Len(calls[s]) < HeldIn(trail[s])

\* No policy, confidence or retry executes an irreversible action without a person, and
\* every hold for approval pays for one execution at most.
THEOREM IrreversibleAlwaysNeedsPerson == Spec => []IrreversibleNeedsPerson
<1> DEFINE PInv == IrreversibleNeedsPerson /\ HoldLeft
<1>1. Init => PInv
  <2> SUFFICES ASSUME Init PROVE PInv
    OBVIOUS
  <2>1. HeldIn(<<>>) \in Nat
    <3>1. <<>> \in Seq(Entry)
      OBVIOUS
    <3> QED
      BY <3>1, HeldType
  <2>2. ASSUME NEW s \in Step
        PROVE  /\ calls[s] = <<>> /\ trail[s] = <<>> /\ run.status[s] = "PENDING"
               /\ Len(calls[s]) = 0
    BY DEF Init, NewRun
  <2> QED
    BY <2>1, <2>2 DEF IrreversibleNeedsPerson, HoldLeft
<1>2. ASSUME IInv, [Next]_vars, PInv
      PROVE  PInv'
  <2>1. CASE Unmoved
    BY <1>2, <2>1 DEF Unmoved, IrreversibleNeedsPerson, HoldLeft
  <2>2. CASE Moved
    <3>1. PICK s \in Step, approver \in Name :
            /\ Invoked(s, approver) \/ \E status \in StepStatus : Marked(s, status, approver)
            /\ \A t \in Step \ {s} :
                 /\ run'.status[t] = run.status[t] /\ trail'[t] = trail[t]
                 /\ calls'[t] = calls[t]
      BY <1>2, <2>2, OneMoves
    <3>2. /\ trail \in [Step -> Seq(Entry)] /\ calls \in [Step -> Seq(Name)]
          /\ run.status \in [Step -> StepStatus]
      BY <1>2 DEF IInv, TypeOK, RunState
    <3>3. HeldIn(trail[s]) \in Nat /\ Len(calls[s]) \in Nat
      <4>1. trail[s] \in Seq(Entry) /\ calls[s] \in Seq(Name)
        BY <3>2
      <4> HIDE DEF Entry
      <4>2. HeldIn(trail[s]) \in Nat
        BY <4>1, HeldType
      <4>3. \A q \in Seq(Name) : Len(q) \in Nat
        OBVIOUS
      <4> QED
        BY <4>1, <4>2, <4>3
    <3>4. ASSUME ActionOf[s] \in IRREVERSIBLE_ACTIONS
          PROVE  /\ Len(calls'[s]) <= HeldIn(trail'[s])
                 /\ \A i \in 1..Len(calls'[s]) : calls'[s][i] \in Person
                 /\ run'.status[s] = "AWAITING_APPROVAL" => Len(calls'[s]) < HeldIn(trail'[s])
      <4>1. CASE Invoked(s, approver)
        <5>1. run.status[s] = "AWAITING_APPROVAL" /\ approver \in Person /\ Tried(s, approver)
          BY <3>4, <4>1 DEF Invoked
        <5>2. PICK status \in {"COMPLETED", "AWAITING_EXTERNAL", "FAILED", "SKIPPED"} :
                /\ run'.status[s] = status
                /\ trail'[s] = Append(trail[s], [outcome |-> status, approver |-> approver])
          BY <3>2, <5>1 DEF Tried
        <5>3. HeldIn(trail'[s]) = HeldIn(trail[s])
          BY <3>2, <5>2, HeldAppend
        <5>4. Len(calls[s]) + 1 <= HeldIn(trail[s])
          BY <1>2, <3>3, <3>4, <5>1 DEF HoldLeft
        <5>5. calls'[s] = calls[s] \/ calls'[s] = Append(calls[s], approver)
          BY <3>2, <5>1 DEF Tried
        <5>6. \A i \in 1..Len(calls[s]) : calls[s][i] \in Person
          BY <1>2, <3>4 DEF IrreversibleNeedsPerson
        <5>7. /\ Len(calls'[s]) <= Len(calls[s]) + 1
              /\ \A i \in 1..Len(calls'[s]) : calls'[s][i] \in Person
          <6>1. ASSUME NEW q \in Seq(Name), NEW e \in Person,
                       \A i \in 1..Len(q) : q[i] \in Person
                PROVE  /\ Len(Append(q, e)) = Len(q) + 1
                       /\ \A i \in 1..Len(Append(q, e)) : Append(q, e)[i] \in Person
            BY <6>1
          <6>2. calls[s] \in Seq(Name)
            BY <3>2
          <6>3. CASE calls'[s] = calls[s]
            BY <3>3, <5>6, <6>3
          <6>4. CASE calls'[s] = Append(calls[s], approver)
            <7>1. Person \subseteq Name /\ approver \in Person
              BY <5>1 DEF Name
            <7> QED
              BY <3>3, <5>6, <6>1, <6>2, <6>4, <7>1
          <6> QED
            BY <5>5, <6>3, <6>4
        <5>8. Len(calls'[s]) \in Nat
          BY <1>2, TypeStep DEF TypeOK
        <5> QED
          BY <3>3, <5>2, <5>3, <5>4, <5>7, <5>8
      <4>2. CASE \E status \in StepStatus : Marked(s, status, approver)
        <5> PICK status \in StepStatus : Marked(s, status, approver)
          BY <4>2
        <5>1. calls'[s] = calls[s] /\ run'.status[s] = status
          BY <3>2 DEF Marked
        <5>2. HeldIn(trail'[s]) = IF status = "AWAITING_APPROVAL" THEN HeldIn(trail[s]) + 1
                                  ELSE HeldIn(trail[s])
          BY <3>2, HeldAppend DEF Marked
        <5>3. /\ Len(calls[s]) <= HeldIn(trail[s])
              /\ \A i \in 1..Len(calls[s]) : calls[s][i] \in Person
          BY <1>2, <3>4 DEF IrreversibleNeedsPerson
        <5> QED
          BY <3>3, <5>1, <5>2, <5>3
      <4> QED
        BY <3>1, <4>1, <4>2
    <3> QED
      BY <1>2, <3>1, <3>4 DEF IrreversibleNeedsPerson, HoldLeft
  <2> QED
    BY <1>2, <2>1, <2>2, StepMoves
<1> QED
  BY <1>1, <1>2, RunAlways, PTL DEF Spec

-----------------------------------------------------------------------------
\* advance() has executed no more steps than have ever been touched.
Touched(r) == { s \in Step : r.status[s] # "PENDING" }

Counted ==
  /\ phase = "advancing" => executed <= Cardinality(Touched(run))
  /\ IdleIsSettled

LEMMA TouchedFinite ==
  ASSUME NEW r
  PROVE  /\ IsFiniteSet(Touched(r)) /\ Cardinality(Touched(r)) \in Nat
         /\ Touched(r) # Step => Cardinality(Touched(r)) < StepCount
<1>1. IsFiniteSet(Step) /\ Cardinality(Step) = StepCount
  BY DefinitionAssumption, FS_Interval DEF Step
<1>2. Touched(r) \subseteq Step
  BY DEF Touched
<1> QED
  BY <1>1, <1>2, FS_Subset, FS_CardinalityType

\* One step of the batch executed is one more step touched.
LEMMA TouchedGrows ==
  ASSUME NEW s \in Step, run.status[s] = "PENDING", run'.status[s] # "PENDING",
         \A t \in Step \ {s} : run'.status[t] = run.status[t]
  PROVE  Cardinality(Touched(run')) = Cardinality(Touched(run)) + 1
<1>1. Touched(run') = Touched(run) \cup {s} /\ s \notin Touched(run)
  BY DEF Touched
<1> QED
  BY <1>1, TouchedFinite, FS_AddElement

\* A run that failed says so.
LEMMA FailedStatus ==
  ASSUME NEW r
  PROVE  RunStatusOf(r) = "FAILED" <=> \E s \in Step : r.status[s] = "FAILED"
BY DEF RunStatusOf

\* Executing a step of the batch.
LEMMA CountExecute ==
  ASSUME IInv, Counted, NEW s \in Step, Execute(s), [Next]_vars
  PROVE  Counted'
<1> TypeOK
  BY DEF IInv
<1>1. AfterStep(s) /\ s \in ready /\ phase = "advancing"
  BY DEF Execute, ExecuteAllowed, ExecuteHeld, ExecuteDenied, NextReady
<1>2. run.status[s] = "PENDING"
  BY <1>1 DEF IInv, Batch, RunnableSteps
<1>3. run'.status[s] # "PENDING" /\ \A t \in Step \ {s} : run'.status[t] = run.status[t]
  <2>1. run \in RunState /\ run.status \in [Step -> StepStatus] /\ NoOne \in Name
    BY DEF TypeOK, RunState, Name
  <2>2. Tried(s, NoOne) \/ \E status \in {"AWAITING_APPROVAL", "DENIED"} :
                             run' = Transition(run, s, status)
    BY <2>1, InvokeMoves DEF Execute, ExecuteAllowed, ExecuteHeld, ExecuteDenied
  <2>3. \E status \in StepStatus \ {"PENDING"} : run'.status = [run.status EXCEPT ![s] = status]
    BY <2>1, <2>2 DEF Tried, Transition, StepStatus, RunState
  <2> QED
    BY <2>1, <2>3
<1>4. Cardinality(Touched(run')) = Cardinality(Touched(run)) + 1 /\ Cardinality(Touched(run)) \in Nat
  BY <1>2, <1>3, TouchedGrows, TouchedFinite
<1>5. executed' <= Cardinality(Touched(run'))
  BY <1>1, <1>4 DEF AfterStep, Counted, TypeOK
<1>6. phase' = "idle" => RunStatusOf(run') = "FAILED"
  BY <1>1 DEF AfterStep
<1> QED
  BY <1>5, <1>6 DEF Counted, IdleIsSettled

\* Between requests a run that has not failed leaves nothing runnable behind.
THEOREM IdleAlwaysSettled == Spec => []IdleIsSettled
<1>1. Init => Counted
  <2> SUFFICES ASSUME Init PROVE Counted
    OBVIOUS
  <2>1. Touched(run) = {}
    BY DEF Touched, Init, NewRun
  <2>2. Cardinality({}) = 0
    BY FS_EmptySet
  <2> QED
    BY <2>1, <2>2 DEF Init, Counted, IdleIsSettled
<1>2. ASSUME IInv, [Next]_vars, Counted
      PROVE  Counted'
  <2> TypeOK /\ TypeOK'
    BY <1>2, TypeStep DEF IInv
  <2>1. CASE CollectReady
    BY <1>2, <2>1 DEF CollectReady, Counted, IdleIsSettled, Touched
  <2>2. CASE Settle
    <3>1. run' = run /\ phase' = "idle"
      BY <2>2 DEF Settle
    <3>2. ASSUME StepCount <= MaxSteps, RunnableSteps(run) # {}
          PROVE  FALSE
      <4>1. Touched(run) # Step
        BY <3>2 DEF Touched, RunnableSteps
      <4>2. executed <= Cardinality(Touched(run)) /\ Cardinality(Touched(run)) < StepCount
            /\ Cardinality(Touched(run)) \in Nat
        BY <1>2, <2>2, <4>1, TouchedFinite DEF Settle, Counted
      <4>3. executed >= MaxSteps
        BY <2>2, <3>2 DEF Settle
      <4> QED
        BY <3>2, <4>2, <4>3, DefinitionAssumption, RuntimeAssumption DEF TypeOK
    <3> QED
      BY <3>1, <3>2 DEF Counted, IdleIsSettled
  <2>3. ASSUME NEW s \in Step, Execute(s)
        PROVE  Counted'
    BY <1>2, <2>3, CountExecute
  <2>4. ASSUME NEW s \in Step, Decide(s), BeginAdvance
        PROVE  Counted'
    <3>1. Cardinality(Touched(run')) \in Nat
      BY TouchedFinite
    <3> QED
      BY <2>4, <3>1 DEF BeginAdvance, Counted, IdleIsSettled
  <2>5. ASSUME NEW s \in Step, NEW who \in Person \cup {Blank}, Reject(s, who)
        PROVE  Counted'
    <3>1. phase = "idle" /\ phase' = "idle" /\ run.status[s] = "AWAITING_APPROVAL"
      BY <2>5 DEF Reject
    <3>2. /\ run'.status[s] = "REJECTED"
          /\ \A t \in Step \ {s} : run'.status[t] = run.status[t]
      BY <2>5 DEF Reject, TypeOK, RunState
    <3>3. RunStatusOf(run') # "FAILED" => RunStatusOf(run) # "FAILED"
      BY <3>1, <3>2, FailedStatus
    <3>4. RunnableSteps(run') \subseteq RunnableSteps(run)
      <4> SUFFICES ASSUME NEW t \in RunnableSteps(run') PROVE t \in RunnableSteps(run)
        OBVIOUS
      <4>1. t \in Step /\ t # s /\ run.status[t] = "PENDING"
        BY <3>2 DEF RunnableSteps
      <4>2. ASSUME NEW d \in Requires[t]
            PROVE  DependencySatisfied(run, d)
        <5>1. d \in Step /\ DependencySatisfied(run', d)
          BY <4>1, DefinitionAssumption DEF RunnableSteps
        <5>2. d # s
          BY <3>2, <5>1 DEF DependencySatisfied
        <5> QED
          BY <3>2, <5>1, <5>2 DEF DependencySatisfied
      <4> QED
        BY <4>1, <4>2 DEF RunnableSteps
    <3> QED
      BY <1>2, <3>1, <3>3, <3>4 DEF Counted, IdleIsSettled
  <2>6. ASSUME NEW p \in Policies, StorePolicy(p)
        PROVE  Counted'
    BY <1>2, <2>6 DEF StorePolicy, Counted, IdleIsSettled
  <2>7. CASE UNCHANGED vars
    BY <1>2, <2>7 DEF vars, Counted, IdleIsSettled, Touched
  <2>8. ASSUME NEW s \in Step, Decide(s)
        PROVE  BeginAdvance \/ \E who \in Person \cup {Blank} : Reject(s, who)
    BY <2>8 DEF Decide, Approve, Retry, PutBack, ResolveExternal
  <2> QED
    BY <1>2, <2>1, <2>2, <2>3, <2>4, <2>5, <2>6, <2>7, <2>8 DEF Next, Advance
<1>3. Counted => IdleIsSettled
  BY DEF Counted
<1> QED
  BY <1>1, <1>2, <1>3, RunAlways, PTL DEF Spec
=============================================================================
