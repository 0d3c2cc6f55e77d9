------------------------------ MODULE WorkflowRun ------------------------------
(***************************************************************************)
(* One run of a workflow (aegis/agents/workflow.py): its definition, the   *)
(* state of its steps, what may run next, and what invoking a step does to *)
(* it.  Pure operators on a run, shared by AgentRuntime (one request at a  *)
(* time) and RunRequests (concurrent requests on the stored run).          *)
(*                                                                         *)
(* A step is its position in the definition.  The context and the results  *)
(* of tools are data the control never reads, so they are left out; that a *)
(* run only starts with the context its steps require is why a step may be *)
(* executed at all here.                                                   *)
(***************************************************************************)
EXTENDS GovernanceGate

CONSTANTS
  StepCount,        \* number of steps of the definition
  Requires,         \* StepDefinition.requires, as positions
  ActionOf,         \* StepDefinition.action_type
  Optional,         \* the steps with optional = True
  AwaitsExternal,   \* the steps with awaits_external = True
  Registered,       \* the action types the ToolRegistry resolves
  Person,           \* who may sign a decision
  NoOne,            \* approver None
  Blank             \* a name that strips to nothing

Step == 1..StepCount

\* WorkflowDefinition.__post_init__: a step depends on steps defined before it.
ASSUME DefinitionAssumption ==
  /\ StepCount \in Nat \ {0}
  /\ Requires \in [Step -> SUBSET Step]
  /\ \A s \in Step : \A d \in Requires[s] : d < s
  /\ ActionOf \in [Step -> ActionType]
  /\ Optional \subseteq Step
  /\ AwaitsExternal \subseteq Step
  /\ Registered \subseteq ActionType
  /\ NoOne \notin Person
  /\ Blank \notin Person \cup {NoOne}

Name == Person \cup {NoOne, Blank}

StepStatus ==
  { "PENDING", "AWAITING_APPROVAL", "AWAITING_EXTERNAL", "COMPLETED", "REJECTED",
    "FAILED", "SKIPPED", "DENIED" }

TERMINAL_STEP_STATUSES == {"COMPLETED", "REJECTED", "FAILED", "SKIPPED", "DENIED"}

RunState ==
  [ status : [Step -> StepStatus], attempts : [Step -> Nat],
    approver : [Step -> Name] ]

NewRun ==
  [ status |-> [s \in Step |-> "PENDING"], attempts |-> [s \in Step |-> 0],
    approver |-> [s \in Step |-> NoOne] ]

\* WorkflowRun.status, in the order the code tests the cases.
RunStatusOf(run) ==
  IF \E s \in Step : run.status[s] = "FAILED" THEN "FAILED"
  ELSE IF \A s \in Step : run.status[s] \in TERMINAL_STEP_STATUSES THEN "COMPLETED"
  ELSE IF \E s \in Step : run.status[s] \in {"AWAITING_APPROVAL", "AWAITING_EXTERNAL"}
    THEN "BLOCKED"
  ELSE "RUNNING"

DependencySatisfied(run, d) ==
  \/ run.status[d] = "COMPLETED"
  \/ run.status[d] = "SKIPPED" /\ d \in Optional

\* Mutant of RunnableSteps: a dependency counts however it ended.
RunnableAfterAnyEnd(run) ==
  { s \in Step : /\ run.status[s] = "PENDING"
                 /\ \A d \in Requires[s] : run.status[d] \in TERMINAL_STEP_STATUSES }

RunnableSteps(run) ==
  { s \in Step : /\ run.status[s] = "PENDING"
                 /\ \A d \in Requires[s] : DependencySatisfied(run, d) }

-----------------------------------------------------------------------------
\* What a tool can answer for a step: resolve() found none, or it ran and said so.
ToolAnswer(s) == IF ActionOf[s] \in Registered THEN {"ok", "failed"} ELSE {"absent"}

\* The status AgentRuntime._invoke leaves behind.
InvokedStatus(s, answer) ==
  CASE answer = "absent" -> IF s \in Optional THEN "SKIPPED" ELSE "FAILED"
    [] answer = "failed" -> "FAILED"
    [] answer = "ok"     -> IF s \in AwaitsExternal THEN "AWAITING_EXTERNAL" ELSE "COMPLETED"

Transition(run, s, status) == [run EXCEPT !.status[s] = status]

Invoke(run, s, answer) ==
  [ run EXCEPT !.attempts[s] = @ + 1, !.status[s] = InvokedStatus(s, answer) ]

\* The ProposedAction of a step: _propose adds no domains of its own.
Propose(tenant, s, confidence) ==
  [ tenant |-> tenant, type |-> ActionOf[s], touches |-> {}, confidence |-> confidence ]
=============================================================================
