---------------------------- MODULE RunRequestsProofs ----------------------------
(***************************************************************************)
(* Proofs about RunRequests, for any workflow definition, policy, number   *)
(* of requests and limits: what holds of the stored run however requests   *)
(* on it overlap or die, and what holds as long as none overlapped.        *)
(*                                                                         *)
(* The argument.  A request is judged by its copy of the run together with *)
(* what it will have recorded: the committed entries of a step followed by *)
(* its own.  The copy is witnessed by those entries, and others' commits   *)
(* only add to them, so that whichever copy is written last is witnessed.  *)
(* While no two requests overlap there is one copy at most, it started     *)
(* from the stored run, and the committed entries do not change under it:  *)
(* then its last entry is its status, and its calls are paid for.          *)
(*                                                                         *)
(* Every step of the specification that changes a copy writes one entry of *)
(* one workflow step (Wrote); that is proved once, action by action        *)
(* (StepKinds), and every invariant is proved from it.                     *)
(***************************************************************************)
EXTENDS RunRequests, FiniteSetTheorems, SequenceTheorems, TLAPS

\* Requests in progress.
Busy(r) == req[r].pc # "free"

\* A tool is about to be tried, or was held back from it: one more attempt is allowed.
Untried(status) == status \in {"PENDING", "AWAITING_APPROVAL"}

\* Steps to be executed: none of them has been.
Batch(steps, run) == steps \subseteq Step /\ \A s \in steps : run.status[s] = "PENDING"

\* The batch of a request is steps it has not executed, and a request that has just read
\* the run has recorded nothing.
Batches ==
  \A r \in Request :
    /\ Batch(req[r].ready, req[r].run)
    /\ req[r].pc = "loaded" => req[r].entries = NoEntries
    /\ req[r].pc = "free" => req[r] = Free

IInv == TypeOK /\ Batches

RunVars == <<stored, row, trail, lock, served, overlapped, crashed>>

\* The status of s becomes what its new entry tells; its approver becomes the one the
\* entry names or nobody, or stays.
Turned(before, after, s, outcome, who) ==
  /\ after.status = [before.status EXCEPT
                       ![s] = IF outcome = "RETRIED" THEN "PENDING" ELSE outcome]
  /\ \E named \in {before.approver[s], who, NoOne} :
       after.approver = [before.approver EXCEPT ![s] = named]

\* Request r, whose memory becomes m, writes one entry of step s.
Wrote(r, m, s, outcome, who) ==
  /\ req' = [req EXCEPT ![r] = m]
  /\ req[r].pc \in {"loaded", "advancing"}
  /\ m.pc \in {"locking", "advancing", "saving"}
  /\ Turned(req[r].run, m.run, s, outcome, who)
  /\ m.entries = [req[r].entries EXCEPT
                    ![s] = Append(@, [outcome |-> outcome, approver |-> who])]
  /\ Batch(m.ready, m.run)

\* The tool of s is tried for whoever approved it, with whatever result.
Tried(r, m, s, outcome, who) ==
  /\ outcome \in {"COMPLETED", "AWAITING_EXTERNAL", "FAILED", "SKIPPED"}
  /\ m.run.attempts = [req[r].run.attempts EXCEPT ![s] = @ + 1]
  /\ calls' = calls \/ calls' = [calls EXCEPT ![s] = Append(@, who)]

\* The copy that is tried: the request's, perhaps with an approver's name on it.
Signed(run, before, s, who) ==
  /\ before.status = run.status /\ before.attempts = run.attempts
  /\ before.approver \in {run.approver, [run.approver EXCEPT ![s] = who]}

\* The gate or a person gives leave to try the tool.
Invoked(r, m, s, outcome, who) ==
  /\ Tried(r, m, s, outcome, who)
  /\ \/ /\ req[r].run.status[s] = "PENDING" /\ who = NoOne /\ ~Irreversible(s)
     \/ /\ req[r].pc = "loaded" /\ req[r].run.status[s] = "AWAITING_APPROVAL"
        /\ who \in Person

\* The status of s is set without its tool.
Marked(r, m, s, outcome) ==
  /\ m.run.attempts = req[r].run.attempts
  /\ calls' = calls
  /\ \/ /\ req[r].run.status[s] = "PENDING" /\ outcome \in {"AWAITING_APPROVAL", "DENIED"}
     \/ /\ outcome \in {"REJECTED", "COMPLETED", "FAILED"}
     \/ /\ req[r].run.status[s] = "FAILED" /\ outcome = "RETRIED"
        /\ req[r].run.attempts[s] < MaxStepAttempts

Writes(r) ==
  /\ UNCHANGED RunVars
  /\ \E m \in Memory, s \in Step, outcome \in Outcome, who \in Name :
       /\ Wrote(r, m, s, outcome, who)
       /\ Invoked(r, m, s, outcome, who) \/ Marked(r, m, s, outcome)

\* A request goes on without touching its copy of the run or what it has recorded.
Paces(r) ==
  /\ UNCHANGED <<stored, row, trail, calls, served, overlapped, crashed>>
  /\ lock' \in {lock, r}
  /\ \E m \in Memory :
       /\ req' = [req EXCEPT ![r] = m]
       /\ req[r].pc \in {"locking", "advancing"} /\ m.pc \in {"advancing", "saving"}
       /\ m.run = req[r].run /\ m.entries = req[r].entries
       /\ Batch(m.ready, m.run)

-----------------------------------------------------------------------------
\* The gate never allows an irreversible action, whatever the policy.
LEMMA IrreversibleNeverAllowed ==
  ASSUME NEW p, NEW action, action.type \in IRREVERSIBLE_ACTIONS
  PROVE  Evaluate(p, action) # "ALLOW"
BY DEF Evaluate, NeedsPerson

\* What invoking a step can leave behind.
LEMMA InvokedStatuses ==
  ASSUME NEW s \in Step, NEW answer \in ToolAnswer(s)
  PROVE  InvokedStatus(s, answer) \in {"COMPLETED", "AWAITING_EXTERNAL", "FAILED", "SKIPPED"}
<1>1. answer \in {"ok", "failed", "absent"}
  BY DEF ToolAnswer
<1> QED
  BY <1>1 DEF InvokedStatus

\* The parts of a request's memory have their types.
LEMMA MemoryParts ==
  ASSUME TypeOK, NEW r \in Request
  PROVE  /\ req[r] \in Memory
         /\ req[r].run \in RunState
         /\ req[r].run.status \in [Step -> StepStatus]
         /\ req[r].run.attempts \in [Step -> Nat]
         /\ req[r].run.approver \in [Step -> Name]
         /\ req[r].entries \in [Step -> Seq(Entry)]
<1>1. req[r] \in Memory
  BY DEF TypeOK
<1>2. req[r].run \in RunState /\ req[r].entries \in [Step -> Seq(Entry)]
  BY <1>1 DEF Memory
<1> QED
  BY <1>1, <1>2 DEF RunState

\* Recording an entry in the copy writes it.
LEMMA RecordedWrites ==
  ASSUME TypeOK, NEW r \in Request, NEW s \in Step, NEW after \in RunState,
         NEW outcome \in Outcome, NEW who \in Name, NEW ready,
         NEW next \in {"advancing", "saving"},
         Recorded(r, after, s, outcome, who, ready, next),
         req[r].pc \in {"loaded", "advancing"},
         Turned(req[r].run, after, s, outcome, who),
         Batch(ready, after)
  PROVE  \E m \in Memory : m.run = after /\ Wrote(r, m, s, outcome, who)
<1> DEFINE e == [outcome |-> outcome, approver |-> who]
           m == [ req[r] EXCEPT !.run = after, !.ready = ready, !.next = next,
                                !.pc = IF lock = r THEN next ELSE "locking",
                                !.entries[s] = Append(@, e) ]
<1>1. req[r] \in Memory /\ req[r].entries \in [Step -> Seq(Entry)]
  BY MemoryParts
<1>2. req' = [req EXCEPT ![r] = m]
  BY DEF Recorded
<1>3. Append(req[r].entries[s], e) \in Seq(Entry)
  <2>1. e \in Entry
    BY DEF Entry
  <2>2. req[r].entries[s] \in Seq(Entry)
    BY <1>1
  <2> HIDE DEF e
  <2> QED
    BY <2>1, <2>2, AppendProperties
<1> HIDE DEF e
<1>4. /\ m.run = after /\ m.ready = ready
      /\ m.pc \in {"locking", "advancing", "saving"}
      /\ m.entries = [req[r].entries EXCEPT ![s] = Append(@, e)]
  BY <1>1 DEF Memory
<1>5. m.entries \in [Step -> Seq(Entry)]
  BY <1>1, <1>3, <1>4
<1>6. m \in Memory
  BY <1>1, <1>3 DEF Memory, Batch
<1> HIDE DEF m
<1> QED
  BY <1>2, <1>4, <1>6 DEF Wrote, e

\* Trying a tool writes its entry, whatever the tool answers.
LEMMA InvokeWrites ==
  ASSUME TypeOK, NEW r \in Request, NEW s \in Step, NEW before \in RunState,
         NEW who \in Name, NEW ready,
         InvokeStep(r, before, s, who, ready),
         req[r].pc \in {"loaded", "advancing"},
         Signed(req[r].run, before, s, who),
         Batch(ready, before), s \notin ready
  PROVE  \E m \in Memory, outcome \in Outcome :
           Wrote(r, m, s, outcome, who) /\ Tried(r, m, s, outcome, who)
<1> PICK answer \in ToolAnswer(s) :
      LET after == Invoke(before, s, answer)
          halts == ready = {} /\ RunStatusOf(after) = "FAILED" /\ req[r].pc = "advancing"
      IN /\ Recorded(r, after, s, InvokedStatus(s, answer), who, ready,
                     IF halts THEN "saving" ELSE "advancing")
         /\ calls' = IF answer = "absent" THEN calls
                     ELSE [calls EXCEPT ![s] = Append(@, who)]
  BY DEF InvokeStep
<1> DEFINE outcome == InvokedStatus(s, answer)
           after == Invoke(before, s, answer)
           halts == ready = {} /\ RunStatusOf(after) = "FAILED" /\ req[r].pc = "advancing"
           next == IF halts THEN "saving" ELSE "advancing"
<1>1. outcome \in {"COMPLETED", "AWAITING_EXTERNAL", "FAILED", "SKIPPED"}
  BY InvokedStatuses
<1>2. Recorded(r, after, s, outcome, who, ready, next) /\ next \in {"advancing", "saving"}
  OBVIOUS
<1>3. /\ before.status \in [Step -> StepStatus] /\ before.attempts \in [Step -> Nat]
      /\ before.approver \in [Step -> Name] /\ req[r].run.approver \in [Step -> Name]
  BY MemoryParts DEF RunState, Signed
<1>4. after = [before EXCEPT !.attempts[s] = @ + 1, !.status[s] = outcome]
  BY DEF Invoke
<1> HIDE DEF outcome, next, halts, after
<1>5. outcome \in StepStatus /\ outcome \in Outcome /\ outcome # "RETRIED"
  BY <1>1 DEF StepStatus, Outcome
<1>6. /\ after.status = [before.status EXCEPT ![s] = outcome]
      /\ after.attempts = [before.attempts EXCEPT ![s] = @ + 1]
      /\ after.approver = before.approver
      /\ after = [status |-> after.status, attempts |-> after.attempts,
                  approver |-> after.approver]
  BY <1>4 DEF RunState
<1>7. after \in RunState
  <2>1. after.status \in [Step -> StepStatus] /\ after.attempts \in [Step -> Nat]
    BY <1>3, <1>5, <1>6
  <2> QED
    BY <1>3, <1>6, <2>1 DEF RunState
<1>8. /\ Turned(req[r].run, after, s, outcome, who)
      /\ Batch(ready, after)
  BY <1>3, <1>5, <1>6 DEF Turned, Batch, Signed
<1>9. PICK m \in Memory : m.run = after /\ Wrote(r, m, s, outcome, who)
  BY <1>2, <1>5, <1>7, <1>8, RecordedWrites
<1>10. calls' = calls \/ calls' = [calls EXCEPT ![s] = Append(@, who)]
  OBVIOUS
<1>11. Tried(r, m, s, outcome, who)
  BY <1>1, <1>6, <1>9, <1>10 DEF Tried, Signed
<1> QED
  BY <1>5, <1>9, <1>11


-----------------------------------------------------------------------------
\* Each kind of step, for the operation of a request that has loaded the run.
LEMMA OperationWrites ==
  ASSUME IInv, NEW r \in Request, NEW s \in Step
  PROVE  /\ \A who \in Person \cup {Blank} :
              Approve(r, s, who) \/ Reject(r, s, who) \/ Retry(r, s, who) => Writes(r)
         /\ \A status \in StepStatus : ResolveExternal(r, s, status) => Writes(r)
<1> TypeOK
  BY DEF IInv
<1> DEFINE run == req[r].run
<1>1. /\ run \in RunState /\ run.status \in [Step -> StepStatus]
      /\ run.attempts \in [Step -> Nat] /\ run.approver \in [Step -> Name]
      /\ run = [status |-> run.status, attempts |-> run.attempts, approver |-> run.approver]
  BY MemoryParts DEF RunState
<1>6. \A before : Batch({}, before)
  BY DEF Batch
<1>2. ASSUME NEW who \in Person \cup {Blank}, Approve(r, s, who)
      PROVE  Writes(r)
  <2> DEFINE before == [run EXCEPT !.approver[s] = who]
  <2>1. who \in Person /\ who \in Name
    BY <1>2 DEF Approve, Name
  <2>2. /\ before \in RunState /\ before.status = run.status
        /\ before.attempts = run.attempts
        /\ before.approver = [run.approver EXCEPT ![s] = who]
    BY <1>1, <2>1 DEF RunState
  <2>3. /\ req[r].pc = "loaded" /\ run.status[s] = "AWAITING_APPROVAL"
        /\ InvokeStep(r, before, s, who, {}) /\ UNCHANGED RunVars
    BY <1>2 DEF Approve, RunVars
  <2> HIDE DEF before
  <2>6. Signed(run, before, s, who)
    BY <2>2 DEF Signed
  <2>4. PICK m \in Memory, outcome \in Outcome :
          Wrote(r, m, s, outcome, who) /\ Tried(r, m, s, outcome, who)
    BY <1>6, <2>1, <2>2, <2>3, <2>6, InvokeWrites
  <2>5. Invoked(r, m, s, outcome, who)
    BY <2>1, <2>3, <2>4 DEF Invoked
  <2> QED
    BY <2>1, <2>3, <2>4, <2>5 DEF Writes
<1>3. ASSUME NEW who \in Person \cup {Blank}, Reject(r, s, who)
      PROVE  Writes(r)
  <2> DEFINE after == [run EXCEPT !.approver[s] = who, !.status[s] = "REJECTED"]
  <2>1. who \in Name /\ "REJECTED" \in StepStatus /\ "REJECTED" \in Outcome
    BY DEF Name, StepStatus, Outcome
  <2>2. /\ after \in RunState /\ after.attempts = run.attempts
        /\ after.status = [run.status EXCEPT ![s] = "REJECTED"]
        /\ after.approver = [run.approver EXCEPT ![s] = who]
    BY <1>1, <2>1 DEF RunState
  <2>3. /\ req[r].pc = "loaded" /\ run.status[s] = "AWAITING_APPROVAL"
        /\ Recorded(r, after, s, "REJECTED", who, {}, "saving")
        /\ UNCHANGED RunVars /\ calls' = calls
    BY <1>3 DEF Reject, RunVars
  <2> HIDE DEF after
  <2>6. Turned(run, after, s, "REJECTED", who)
    BY <2>2 DEF Turned
  <2>4. PICK m \in Memory : m.run = after /\ Wrote(r, m, s, "REJECTED", who)
    BY <1>6, <2>1, <2>2, <2>3, <2>6, RecordedWrites
  <2>5. Marked(r, m, s, "REJECTED")
    BY <2>2, <2>3, <2>4 DEF Marked
  <2> QED
    BY <2>1, <2>3, <2>4, <2>5 DEF Writes
<1>4. ASSUME NEW who \in Person \cup {Blank}, Retry(r, s, who)
      PROVE  Writes(r)
  <2> DEFINE after == [run EXCEPT !.approver[s] = NoOne, !.status[s] = "PENDING"]
  <2>1. who \in Name /\ NoOne \in Name /\ "PENDING" \in StepStatus /\ "RETRIED" \in Outcome
    BY DEF Name, StepStatus, Outcome
  <2>2. /\ after \in RunState /\ after.attempts = run.attempts
        /\ after.status = [run.status EXCEPT ![s] = "PENDING"]
        /\ after.approver = [run.approver EXCEPT ![s] = NoOne]
    BY <1>1, <2>1 DEF RunState
  <2>3. /\ req[r].pc = "loaded" /\ run.status[s] = "FAILED"
        /\ run.attempts[s] < MaxStepAttempts
        /\ Recorded(r, after, s, "RETRIED", who, {}, "advancing")
        /\ UNCHANGED RunVars /\ calls' = calls
    BY <1>4 DEF Retry, PutBack, RunVars
  <2> HIDE DEF after
  <2>6. Turned(run, after, s, "RETRIED", who)
    BY <2>2 DEF Turned
  <2>4. PICK m \in Memory : m.run = after /\ Wrote(r, m, s, "RETRIED", who)
    BY <1>6, <2>1, <2>2, <2>3, <2>6, RecordedWrites
  <2>5. Marked(r, m, s, "RETRIED")
    BY <2>2, <2>3, <2>4 DEF Marked
  <2> QED
    BY <2>1, <2>3, <2>4, <2>5 DEF Writes
<1>5. ASSUME NEW status \in StepStatus, ResolveExternal(r, s, status)
      PROVE  Writes(r)
  <2> DEFINE after == Transition(run, s, status)
  <2>1. /\ NoOne \in Name /\ status \in {"COMPLETED", "FAILED"} /\ status \in Outcome
        /\ status # "RETRIED"
    BY <1>5 DEF ResolveExternal, Name, Outcome
  <2>2. /\ after \in RunState /\ after.attempts = run.attempts
        /\ after.status = [run.status EXCEPT ![s] = status]
        /\ after.approver = [run.approver EXCEPT ![s] = run.approver[s]]
    BY <1>1, <2>1 DEF RunState, Transition
  <2>3. /\ req[r].pc = "loaded"
        /\ Recorded(r, after, s, status, NoOne, {}, "advancing")
        /\ UNCHANGED RunVars /\ calls' = calls
    BY <1>5 DEF ResolveExternal, RunVars
  <2> HIDE DEF after
  <2>6. Turned(run, after, s, status, NoOne)
    BY <2>1, <2>2 DEF Turned
  <2>4. PICK m \in Memory : m.run = after /\ Wrote(r, m, s, status, NoOne)
    BY <1>6, <2>1, <2>2, <2>3, <2>6, RecordedWrites
  <2>5. Marked(r, m, s, status)
    BY <2>1, <2>2, <2>3, <2>4 DEF Marked
  <2> QED
    BY <2>1, <2>3, <2>4, <2>5 DEF Writes
<1> QED
  BY <1>2, <1>3, <1>4, <1>5

\* A step of the batch that is executed is pending; it is tried, held or denied.
LEMMA ExecuteWrites ==
  ASSUME IInv, NEW r \in Request, NEW s \in Step, Execute(r, s)
  PROVE  Writes(r)
<1> TypeOK
  BY DEF IInv
<1> DEFINE run == req[r].run
           left == req[r].ready \ {s}
           verdict == Evaluate(Policy, Propose(Tenant, s, {}))
<1>1. /\ run \in RunState /\ run.status \in [Step -> StepStatus]
      /\ run.attempts \in [Step -> Nat] /\ run.approver \in [Step -> Name]
      /\ run = [status |-> run.status, attempts |-> run.attempts, approver |-> run.approver]
      /\ req[r].ready \subseteq Step
  BY MemoryParts DEF RunState, Memory
<1>2. /\ run.status[s] = "PENDING" /\ Batch(left, run) /\ s \notin left
      /\ req[r].pc = "advancing" /\ NoOne \in Name /\ UNCHANGED RunVars
  BY <1>1 DEF Execute, IInv, Batches, Batch, Name, RunVars
<1> HIDE DEF left
<1>3. CASE verdict = "ALLOW" /\ InvokeStep(r, run, s, NoOne, left)
  <2>1. ~Irreversible(s)
    BY <1>3, IrreversibleNeverAllowed DEF Irreversible, Propose
  <2>4. Signed(run, run, s, NoOne)
    BY DEF Signed
  <2>2. PICK m \in Memory, outcome \in Outcome :
          Wrote(r, m, s, outcome, NoOne) /\ Tried(r, m, s, outcome, NoOne)
    BY <1>1, <1>2, <1>3, <2>4, InvokeWrites
  <2>3. Invoked(r, m, s, outcome, NoOne)
    BY <1>2, <2>1, <2>2 DEF Invoked
  <2> QED
    BY <1>2, <2>2, <2>3 DEF Writes
<1>4. ASSUME NEW status \in {"AWAITING_APPROVAL", "DENIED"}, Hold(r, s, status, left)
      PROVE  Writes(r)
  <2> DEFINE after == Transition(run, s, status)
             next == IF left = {} /\ RunStatusOf(after) = "FAILED" THEN "saving" ELSE "advancing"
  <2>1. status \in StepStatus /\ status \in Outcome /\ status # "RETRIED"
    BY DEF StepStatus, Outcome
  <2>2. /\ after \in RunState /\ after.attempts = run.attempts
        /\ after.status = [run.status EXCEPT ![s] = status]
        /\ after.approver = [run.approver EXCEPT ![s] = run.approver[s]]
        /\ Batch(left, after)
    BY <1>1, <1>2, <2>1 DEF RunState, Transition, Batch
  <2>3. Recorded(r, after, s, status, NoOne, left, next) /\ calls' = calls
        /\ next \in {"advancing", "saving"}
    BY <1>4 DEF Hold
  <2> HIDE DEF after, next
  <2>4. PICK m \in Memory : m.run = after /\ Wrote(r, m, s, status, NoOne)
    <3>1. Turned(run, after, s, status, NoOne)
      BY <2>1, <2>2 DEF Turned
    <3> QED
      BY <1>2, <2>1, <2>2, <2>3, <3>1, RecordedWrites
  <2>5. Marked(r, m, s, status)
    BY <1>2, <2>2, <2>3, <2>4 DEF Marked
  <2> QED
    BY <1>2, <2>1, <2>4, <2>5 DEF Writes
<1> QED
  BY <1>3, <1>4 DEF Execute, left

\* Waiting for the lock is over, a batch is collected, or there is nothing left to do.
LEMMA Pacing ==
  ASSUME IInv, NEW r \in Request, AcquireLock(r) \/ CollectReady(r) \/ Settle(r)
  PROVE  Paces(r)
<1>1. req[r] \in Memory /\ req[r].run \in RunState
  BY MemoryParts DEF IInv
<1>2. Batch(req[r].ready, req[r].run)
  BY DEF IInv, Batches
<1>3. CASE AcquireLock(r)
  <2> DEFINE m == [req[r] EXCEPT !.pc = req[r].next]
  <2>1. m \in Memory /\ m.pc \in {"advancing", "saving"} /\ m.run = req[r].run
        /\ m.entries = req[r].entries /\ m.ready = req[r].ready
    BY <1>1 DEF Memory
  <2>2. req' = [req EXCEPT ![r] = m]
    BY <1>3 DEF AcquireLock
  <2> HIDE DEF m
  <2> QED
    BY <1>2, <1>3, <2>1, <2>2 DEF AcquireLock, Paces
<1>4. CASE CollectReady(r)
  <2> DEFINE m == [req[r] EXCEPT !.ready = RunnableSteps(req[r].run)]
  <2>1. m \in Memory /\ m.pc = req[r].pc /\ m.run = req[r].run
        /\ m.entries = req[r].entries /\ m.ready = RunnableSteps(req[r].run)
    BY <1>1 DEF Memory, RunnableSteps
  <2>2. req' = [req EXCEPT ![r] = m]
    BY <1>4 DEF CollectReady
  <2>3. Batch(m.ready, m.run)
    BY <2>1 DEF RunnableSteps, Batch
  <2> HIDE DEF m
  <2> QED
    BY <1>4, <2>1, <2>2, <2>3 DEF CollectReady, Paces
<1>5. CASE Settle(r)
  <2> DEFINE m == [req[r] EXCEPT !.pc = "saving"]
  <2>1. m \in Memory /\ m.pc = "saving" /\ m.run = req[r].run
        /\ m.entries = req[r].entries /\ m.ready = req[r].ready
    BY <1>1 DEF Memory
  <2>2. req' = [req EXCEPT ![r] = m]
    BY <1>5 DEF Settle
  <2> HIDE DEF m
  <2> QED
    BY <1>2, <1>5, <2>1, <2>2 DEF Settle, Paces
<1> QED
  BY <1>3, <1>4, <1>5

\* Every step of the specification, by what it does to a request.
LEMMA StepKinds ==
  ASSUME IInv, [Next]_vars
  PROVE  \/ \E r \in Request : Load(r) \/ Refuse(r) \/ Writes(r) \/ Paces(r) \/ Commit(r) \/ Crash(r)
         \/ UNCHANGED vars
BY OperationWrites, ExecuteWrites, Pacing DEF Next, Operation, Work


\* What is appended to a step's entries or calls is a sequence again.
LEMMA AppendedTypes ==
  ASSUME TypeOK, NEW s \in Step, NEW who \in Name
  PROVE  [calls EXCEPT ![s] = Append(@, who)] \in [Step -> Seq(Name)]
<1>1. calls \in [Step -> Seq(Name)]
  BY DEF TypeOK
<1>2. Append(calls[s], who) \in Seq(Name)
  BY <1>1, AppendProperties
<1> QED
  BY <1>1, <1>2

LEMMA FreeType == Free \in Memory /\ Batch(Free.ready, Free.run) /\ Free.entries = NoEntries
<1>1. NewRun \in RunState
  BY DEF NewRun, RunState, StepStatus, Name
<1>2. NoEntries \in [Step -> Seq(Entry)]
  BY EmptySeq DEF NoEntries
<1> QED
  BY <1>1, <1>2 DEF Free, Memory, Batch

\* Values keep their types, and batches stay what is still to be executed.
LEMMA TypeStep ==
  ASSUME IInv, [Next]_vars
  PROVE  IInv'
<1> TypeOK /\ Batches
  BY DEF IInv
<1>1. ASSUME NEW r \in Request, Load(r)
      PROVE  IInv'
  <2> DEFINE m == [Free EXCEPT !.pc = "loaded", !.run = row]
  <2>1. m \in Memory /\ m.pc = "loaded" /\ m.entries = NoEntries /\ Batch(m.ready, m.run)
    BY FreeType DEF TypeOK, Memory, Free, Batch
  <2>2. req' = [req EXCEPT ![r] = m]
    BY <1>1 DEF Load
  <2> HIDE DEF m
  <2>3. TypeOK'
    BY <1>1, <2>1, <2>2, RequestsAssumption DEF Load, TypeOK
  <2>4. Batches'
    BY <2>1, <2>2 DEF Batches, TypeOK
  <2> QED
    BY <2>3, <2>4 DEF IInv
<1>2. ASSUME NEW r \in Request, Refuse(r) \/ Commit(r) \/ Crash(r)
      PROVE  IInv'
  <2>1. req' = [req EXCEPT ![r] = Free] /\ lock' \in {lock, NoRequest}
    BY <1>2 DEF Refuse, Commit, Crash
  <2>2. row' \in RunState
    BY <1>2, MemoryParts DEF Refuse, Commit, Crash, TypeOK
  <2>3. trail' \in [Step -> Seq(Entry)]
    <3>1. req[r].entries \in [Step -> Seq(Entry)] /\ trail \in [Step -> Seq(Entry)]
      BY MemoryParts DEF TypeOK
    <3>2. \A s \in Step : trail[s] \o req[r].entries[s] \in Seq(Entry)
      BY <3>1, ConcatProperties
    <3> QED
      BY <1>2, <3>1, <3>2 DEF Refuse, Commit, Crash
  <2>4. /\ calls' = calls /\ served' = served /\ overlapped' = overlapped
        /\ stored' \in BOOLEAN /\ crashed' \in BOOLEAN
    BY <1>2 DEF Refuse, Commit, Crash, TypeOK
  <2>5. TypeOK'
    BY <2>1, <2>2, <2>3, <2>4, FreeType DEF TypeOK
  <2>6. Batches'
    BY <2>1, FreeType DEF Batches, TypeOK
  <2> QED
    BY <2>5, <2>6 DEF IInv
<1>3. ASSUME NEW r \in Request, Writes(r)
      PROVE  IInv'
  <2>1. PICK m \in Memory, s \in Step, outcome \in Outcome, who \in Name :
          /\ Wrote(r, m, s, outcome, who)
          /\ Invoked(r, m, s, outcome, who) \/ Marked(r, m, s, outcome)
    BY <1>3 DEF Writes
  <2>2. calls' \in [Step -> Seq(Name)]
    <3>1. calls' = calls \/ calls' = [calls EXCEPT ![s] = Append(@, who)]
      BY <2>1 DEF Invoked, Tried, Marked
    <3>2. calls \in [Step -> Seq(Name)]
      BY DEF TypeOK
    <3>3. [calls EXCEPT ![s] = Append(@, who)] \in [Step -> Seq(Name)]
      BY AppendedTypes
    <3>4. CASE calls' = calls
      BY <3>2, <3>4
    <3>5. CASE calls' = [calls EXCEPT ![s] = Append(@, who)]
      BY <3>3, <3>5
    <3> QED
      BY <3>1, <3>4, <3>5
  <2>3. TypeOK'
    BY <1>3, <2>1, <2>2 DEF Writes, RunVars, Wrote, TypeOK
  <2>4. Batches'
    BY <2>1 DEF Wrote, Batches, TypeOK
  <2> QED
    BY <2>3, <2>4 DEF IInv
<1>4. ASSUME NEW r \in Request, Paces(r)
      PROVE  IInv'
  <2>1. TypeOK'
    BY <1>4 DEF Paces, TypeOK
  <2>2. Batches'
    BY <1>4 DEF Paces, Batches, TypeOK
  <2> QED
    BY <2>1, <2>2 DEF IInv
<1>5. CASE UNCHANGED vars
  BY <1>5 DEF vars, IInv, TypeOK, Batches
<1> QED
  BY <1>1, <1>2, <1>3, <1>4, <1>5, StepKinds

LEMMA TypeInit == Init => IInv
<1> SUFFICES ASSUME Init PROVE IInv
  OBVIOUS
<1>1. NewRun \in RunState
  BY DEF NewRun, RunState, StepStatus, Name
<1>2. NoEntries \in [Step -> Seq(Entry)] /\ NoEntries \in [Step -> Seq(Name)]
  BY EmptySeq DEF NoEntries
<1>3. PICK starter \in Request :
        req = [r \in Request |-> IF r = starter THEN [Free EXCEPT !.pc = "advancing"] ELSE Free]
  BY DEF Init
<1>4. \A r \in Request :
        /\ req[r] \in Memory /\ Batch(req[r].ready, req[r].run)
        /\ req[r].pc \in {"free", "advancing"}
        /\ req[r].pc = "free" => req[r] = Free
  BY <1>3, FreeType DEF Free, Memory
<1> QED
  <2>1. req \in [Request -> Memory]
    BY <1>3, <1>4
  <2>2. TypeOK
    <3>1. /\ stored \in BOOLEAN /\ row = NewRun /\ trail = NoEntries /\ calls = NoEntries
          /\ lock = NoRequest /\ served = 0 /\ overlapped \in BOOLEAN /\ crashed \in BOOLEAN
      BY DEF Init
    <3>2. 0 \in 0..MaxServed
      BY RequestsAssumption
    <3> QED
      BY <1>1, <1>2, <2>1, <3>1, <3>2 DEF TypeOK
  <2>3. Batches
    BY <1>4 DEF Batches
  <2> QED
    BY <2>2, <2>3 DEF IInv

\* What links the run, the ledger, the executions and the requests in flight holds always.
THEOREM RequestsAlways == Spec => []IInv
BY TypeInit, TypeStep, PTL DEF Spec

-----------------------------------------------------------------------------
EntriesOf(t) == { t[i] : i \in DOMAIN t }

\* The status and the approver of a step have their evidence among entries.
Evidence(status, approver, entries) ==
  /\ status # "PENDING" => \E e \in entries : e.outcome = status
  /\ approver # NoOne => \E e \in entries : e.approver = approver

WitnessInv ==
  /\ stored => \A s \in Step :
       Evidence(row.status[s], row.approver[s], EntriesOf(trail[s]))
  /\ \A r \in Request : Busy(r) => \A s \in Step :
       Evidence(req[r].run.status[s], req[r].run.approver[s],
                EntriesOf(trail[s]) \cup EntriesOf(req[r].entries[s]))


LEMMA EntriesGrow ==
  ASSUME NEW t \in Seq(Entry), NEW e \in Entry
  PROVE  EntriesOf(Append(t, e)) = EntriesOf(t) \cup {e}
<1> HIDE DEF Entry
<1>1. /\ Append(t, e) \in Seq(Entry) /\ Len(t) \in Nat /\ Len(Append(t, e)) = Len(t) + 1
      /\ \A i \in 1..Len(t) : Append(t, e)[i] = t[i]
      /\ Append(t, e)[Len(t) + 1] = e
  BY AppendProperties, LenProperties
<1>2. DOMAIN t = 1..Len(t) /\ DOMAIN Append(t, e) = 1..(Len(t) + 1)
  BY <1>1, LenProperties
<1>3. 1..(Len(t) + 1) = (1..Len(t)) \cup {Len(t) + 1}
  BY <1>1
<1> QED
  BY <1>1, <1>2, <1>3 DEF EntriesOf

LEMMA EntriesJoined ==
  ASSUME NEW t \in Seq(Entry), NEW u \in Seq(Entry)
  PROVE  EntriesOf(t \o u) = EntriesOf(t) \cup EntriesOf(u)
<1> HIDE DEF Entry
<1>1. EntriesOf(t) = Range(t) /\ EntriesOf(u) = Range(u) /\ EntriesOf(t \o u) = Range(t \o u)
  BY DEF EntriesOf, Range
<1> QED
  BY <1>1, RangeConcatenation

\* Whichever copy of the run is written last, its statuses and approvers have their
\* evidence in the ledger: a copy is witnessed by the committed entries and its own, and
\* the commits of others only add to the former.
LEMMA WitnessStep ==
  ASSUME IInv, [Next]_vars, WitnessInv
  PROVE  WitnessInv'
<1> TypeOK
  BY DEF IInv
<1>1. ASSUME NEW r \in Request, Load(r)
      PROVE  WitnessInv'
  <2>1. /\ req' = [req EXCEPT ![r] = [Free EXCEPT !.pc = "loaded", !.run = row]]
        /\ stored /\ UNCHANGED <<stored, row, trail>>
    BY <1>1 DEF Load
  <2>2. /\ req'[r].run = row /\ \A q \in Request \ {r} : req'[q] = req[q]
    BY <2>1 DEF TypeOK, Free
  <2>3. \A s \in Step : Evidence(row.status[s], row.approver[s], EntriesOf(trail[s]))
    BY <2>1 DEF WitnessInv
  <2> QED
    BY <2>1, <2>2, <2>3 DEF WitnessInv, Evidence, Busy
<1>2. ASSUME NEW r \in Request, Refuse(r) \/ Crash(r)
      PROVE  WitnessInv'
  <2>1. UNCHANGED <<stored, row, trail>> /\ req' = [req EXCEPT ![r] = Free]
    BY <1>2 DEF Refuse, Crash
  <2>2. \A q \in Request : Busy(q)' => Busy(q) /\ req'[q] = req[q]
    BY <2>1 DEF Busy, Free, TypeOK
  <2> QED
    BY <2>1, <2>2 DEF WitnessInv, Evidence
<1>3. ASSUME NEW r \in Request, Commit(r)
      PROVE  WitnessInv'
  <2>1. /\ Busy(r) /\ row' = req[r].run /\ req' = [req EXCEPT ![r] = Free]
        /\ trail' = [s \in Step |-> trail[s] \o req[r].entries[s]]
    BY <1>3 DEF Commit, Busy
  <2>2. \A s \in Step : EntriesOf(trail'[s]) = EntriesOf(trail[s]) \cup EntriesOf(req[r].entries[s])
    BY <2>1, EntriesJoined, MemoryParts DEF TypeOK
  <2>3. \A s \in Step : Evidence(row'.status[s], row'.approver[s], EntriesOf(trail'[s]))
    BY <2>1, <2>2 DEF WitnessInv
  <2>4. \A q \in Request : Busy(q)' => Busy(q) /\ req'[q] = req[q]
    BY <2>1 DEF Busy, Free, TypeOK
  <2> QED
    BY <2>2, <2>3, <2>4 DEF WitnessInv, Evidence
<1>4. ASSUME NEW r \in Request, Writes(r)
      PROVE  WitnessInv'
  <2>1. PICK m \in Memory, s \in Step, outcome \in Outcome, who \in Name :
          Wrote(r, m, s, outcome, who)
    BY <1>4 DEF Writes
  <2> DEFINE e == [outcome |-> outcome, approver |-> who]
  <2>2. /\ UNCHANGED <<stored, row, trail>> /\ Busy(r)
        /\ req'[r] = m /\ \A q \in Request \ {r} : req'[q] = req[q]
    BY <1>4, <2>1 DEF Writes, RunVars, Wrote, TypeOK, Busy
  <2>3. /\ \A t \in Step \ {s} : /\ m.run.status[t] = req[r].run.status[t]
                                 /\ m.run.approver[t] = req[r].run.approver[t]
                                 /\ m.entries[t] = req[r].entries[t]
        /\ m.run.status[s] \in {"PENDING", outcome}
        /\ m.run.approver[s] \in {req[r].run.approver[s], who, NoOne}
        /\ m.entries[s] = Append(req[r].entries[s], e)
    BY <2>1, MemoryParts DEF Wrote, Turned
  <2>4. EntriesOf(m.entries[s]) = EntriesOf(req[r].entries[s]) \cup {e}
    <3>1. e \in Entry /\ req[r].entries[s] \in Seq(Entry)
      BY MemoryParts DEF Entry
    <3> QED
      BY <2>3, <3>1, EntriesGrow
  <2>5. e.outcome = outcome /\ e.approver = who
    OBVIOUS
  <2> HIDE DEF e
  <2>6. \A t \in Step : Evidence(req[r].run.status[t], req[r].run.approver[t],
                                 EntriesOf(trail[t]) \cup EntriesOf(req[r].entries[t]))
    BY <2>2 DEF WitnessInv
  <2>7. \A t \in Step : Evidence(m.run.status[t], m.run.approver[t],
                                 EntriesOf(trail[t]) \cup EntriesOf(m.entries[t]))
    <3> SUFFICES ASSUME NEW t \in Step
                 PROVE  Evidence(m.run.status[t], m.run.approver[t],
                                 EntriesOf(trail[t]) \cup EntriesOf(m.entries[t]))
      OBVIOUS
    <3>1. CASE t # s
      BY <2>3, <2>6, <3>1
    <3>2. CASE t = s
      BY <2>3, <2>4, <2>5, <2>6, <3>2 DEF Evidence
    <3> QED
      BY <3>1, <3>2
  <2> QED
    BY <2>2, <2>7 DEF WitnessInv, Busy
<1>5. ASSUME NEW r \in Request, Paces(r)
      PROVE  WitnessInv'
  BY <1>5 DEF Paces, WitnessInv, Busy, TypeOK
<1>6. CASE UNCHANGED vars
  BY <1>6 DEF vars, WitnessInv, Busy
<1> QED
  BY <1>1, <1>2, <1>3, <1>4, <1>5, <1>6, StepKinds

\* No stored status without its evidence, however requests overlap or die: a step that is
\* not pending has a committed entry with that outcome, a stored approver is named by one.
THEOREM StatusAlwaysWitnessed == Spec => []StatusIsWitnessed
<1>1. Init => WitnessInv
  BY DEF Init, WitnessInv, Evidence, NewRun, Free, Busy
<1>2. WitnessInv => StatusIsWitnessed
  BY DEF WitnessInv, StatusIsWitnessed, Evidence, EntriesOf, Outcomes
<1> QED
  BY <1>1, <1>2, WitnessStep, RequestsAlways, PTL DEF Spec

-----------------------------------------------------------------------------
\* Whoever writes, an irreversible action is tried for a person only.
LEMMA NamesStep ==
  ASSUME IInv, [Next]_vars, IrreversibleNamesPerson
  PROVE  IrreversibleNamesPerson'
<1> TypeOK
  BY DEF IInv
<1>1. ASSUME NEW r \in Request,
             Load(r) \/ Refuse(r) \/ Paces(r) \/ Commit(r) \/ Crash(r)
      PROVE  calls' = calls
  BY <1>1 DEF Load, Refuse, Paces, Commit, Crash
<1>2. ASSUME calls' = calls
      PROVE  IrreversibleNamesPerson'
  BY <1>2 DEF IrreversibleNamesPerson, Irreversible
<1>3. ASSUME NEW r \in Request, Writes(r)
      PROVE  IrreversibleNamesPerson'
  <2>1. PICK m \in Memory, s \in Step, outcome \in Outcome, who \in Name :
          Invoked(r, m, s, outcome, who) \/ Marked(r, m, s, outcome)
    BY <1>3 DEF Writes
  <2>2. CASE calls' = calls
    BY <1>2, <2>2
  <2>3. CASE calls' = [calls EXCEPT ![s] = Append(@, who)] /\ Invoked(r, m, s, outcome, who)
    <3>1. ~Irreversible(s) \/ who \in Person
      BY <2>3 DEF Invoked
    <3>2. calls \in [Step -> Seq(Name)]
      BY DEF TypeOK
    <3>3. /\ calls'[s] = Append(calls[s], who)
          /\ \A t \in Step \ {s} : calls'[t] = calls[t]
      BY <2>3, <3>2
    <3>4. ASSUME who \in Person, \A i \in DOMAIN calls[s] : calls[s][i] \in Person
          PROVE  \A i \in DOMAIN calls'[s] : calls'[s][i] \in Person
      <4> DEFINE q == calls[s]
      <4>1. q \in Seq(Name)
        BY <3>2
      <4>2. /\ DOMAIN q = 1..Len(q) /\ Len(q) \in Nat
            /\ Append(q, who) \in Seq(Name) /\ Len(Append(q, who)) = Len(q) + 1
            /\ \A i \in 1..Len(q) : Append(q, who)[i] = q[i]
            /\ Append(q, who)[Len(q) + 1] = who
        BY <4>1, AppendProperties, LenProperties
      <4>3. DOMAIN Append(q, who) = 1..(Len(q) + 1)
        BY <4>2, LenProperties
      <4> HIDE DEF q
      <4>4. \A i \in DOMAIN Append(q, who) : i \in 1..Len(q) \/ i = Len(q) + 1
        BY <4>2, <4>3
      <4>5. \A i \in DOMAIN Append(q, who) : Append(q, who)[i] \in Person
        BY <3>4, <4>2, <4>4 DEF q
      <4> QED
        BY <3>3, <4>5 DEF q
    <3> QED
      BY <3>1, <3>3, <3>4 DEF IrreversibleNamesPerson, Irreversible
  <2> QED
    BY <2>1, <2>2, <2>3 DEF Invoked, Tried, Marked
<1>4. CASE UNCHANGED vars
  BY <1>2, <1>4 DEF vars
<1> QED
  BY <1>1, <1>2, <1>3, <1>4, StepKinds

\* Whatever requests overlap or die, an irreversible action has a person's name on it.
THEOREM IrreversibleAlwaysNamesPerson == Spec => []IrreversibleNamesPerson
<1>1. Init => IrreversibleNamesPerson
  BY DEF Init, IrreversibleNamesPerson, NoEntries
<1> QED
  BY <1>1, NamesStep, RequestsAlways, PTL DEF Spec

-----------------------------------------------------------------------------
\* What is recorded of a step once r commits.
Told(r, s) == trail[s] \o req[r].entries[s]

\* The status that entries tell.
Telling(t) ==
  IF t = <<>> THEN "PENDING"
  ELSE IF t[Len(t)].outcome = "RETRIED" THEN "PENDING" ELSE t[Len(t)].outcome

HeldIn(t) == Cardinality({ i \in DOMAIN t : t[i].outcome = "AWAITING_APPROVAL" })

\* As long as none overlapped: one request at a time, and one that has just read the run
\* has read the stored one.
Alone ==
  ~overlapped =>
    /\ \A r, q \in Request : Busy(r) /\ Busy(q) => r = q
    /\ \A r \in Request : req[r].pc = "loaded" => req[r].run = row
    /\ \A r \in Request : req[r].pc = "loaded" => stored

TellsInv ==
  ~overlapped =>
    /\ stored => \A s \in Step : row.status[s] = Telling(trail[s])
    /\ \A r \in Request : Busy(r) => \A s \in Step : req[r].run.status[s] = Telling(Told(r, s))

\* The executions of s so far are paid for by the holds among the entries t of run, and
\* within its attempts.
Paid(run, s, t, spent) ==
  /\ Irreversible(s) /\ run.status[s] = "AWAITING_APPROVAL" => spent < HeldIn(t)
  /\ spent <= run.attempts[s] /\ run.attempts[s] <= MaxStepAttempts
  /\ Untried(run.status[s]) => run.attempts[s] < MaxStepAttempts

\* As long as none overlapped or died, executions are paid for: by the committed entries,
\* by the stored run when nobody works on it, and else by the copy of who does.
PaidInv ==
  ~overlapped /\ ~crashed => \A s \in Step :
    /\ Irreversible(s) => Len(calls[s]) <= HeldIn(trail[s])
    /\ stored /\ (\A r \in Request : ~Busy(r)) => Paid(row, s, trail[s], Len(calls[s]))
    /\ \A r \in Request : Busy(r) => Paid(req[r].run, s, Told(r, s), Len(calls[s]))
    /\ Len(calls[s]) <= MaxStepAttempts

SerialInv == Alone /\ TellsInv /\ PaidInv

\* While none overlaps, requests follow one another.
LEMMA AloneStep ==
  ASSUME IInv, [Next]_vars, Alone
  PROVE  Alone'
<1> TypeOK
  BY DEF IInv
<1> SUFFICES ASSUME ~overlapped'
             PROVE  /\ \A r, q \in Request : Busy(r)' /\ Busy(q)' => r = q
                    /\ \A r \in Request : req'[r].pc = "loaded" => req'[r].run = row' /\ stored'
  BY DEF Alone
<1>1. ASSUME NEW r \in Request, Load(r)
      PROVE  /\ \A p, q \in Request : Busy(p)' /\ Busy(q)' => p = q
             /\ \A q \in Request : req'[q].pc = "loaded" => req'[q].run = row' /\ stored'
  <2>1. \A q \in Request : req[q].pc = "free"
    BY <1>1 DEF Load
  <2>2. /\ \A q \in Request \ {r} : req'[q] = req[q]
        /\ req'[r].run = row /\ row' = row /\ stored'
    BY <1>1 DEF Load, TypeOK, Free
  <2> QED
    BY <2>1, <2>2 DEF Busy
<1>2. ASSUME NEW r \in Request, Refuse(r) \/ Commit(r) \/ Crash(r)
      PROVE  /\ \A p, q \in Request : Busy(p)' /\ Busy(q)' => p = q
             /\ \A q \in Request : req'[q].pc = "loaded" => req'[q].run = row' /\ stored'
  <2>1. /\ req' = [req EXCEPT ![r] = Free] /\ overlapped' = overlapped /\ Busy(r)
        /\ row' = row \/ Commit(r)
    BY <1>2 DEF Refuse, Commit, Crash, Busy
  <2>2. \A q \in Request : ~Busy(q)'
    BY <2>1 DEF Alone, Busy, TypeOK, Free
  <2> QED
    BY <2>2 DEF Busy
<1>3. ASSUME NEW r \in Request, Writes(r) \/ Paces(r)
      PROVE  /\ \A p, q \in Request : Busy(p)' /\ Busy(q)' => p = q
             /\ \A q \in Request : req'[q].pc = "loaded" => req'[q].run = row' /\ stored'
  <2>1. /\ \A q \in Request \ {r} : req'[q] = req[q]
        /\ req'[r].pc \in {"locking", "advancing", "saving"} /\ Busy(r)
        /\ UNCHANGED <<row, stored, overlapped>>
    BY <1>3 DEF Writes, Wrote, RunVars, Paces, TypeOK, Busy
  <2> QED
    BY <2>1 DEF Alone, Busy
<1>4. CASE UNCHANGED vars
  BY <1>4 DEF vars, Alone, Busy
<1> QED
  BY <1>1, <1>2, <1>3, <1>4, StepKinds

\* Appending to what is joined behind is appending to the whole.
LEMMA AppendJoined ==
  ASSUME NEW t \in Seq(Entry), NEW u \in Seq(Entry), NEW e \in Entry
  PROVE  t \o Append(u, e) = Append(t \o u, e)
<1> DEFINE w == <<e>>
<1>1. w \in Seq(Entry)
  OBVIOUS
<1>2. Append(u, e) = u \o w /\ t \o u \in Seq(Entry)
  BY AppendIsConcat, ConcatProperties
<1>3. Append(t \o u, e) = (t \o u) \o w
  BY <1>2, AppendIsConcat
<1> HIDE DEF w
<1>4. (t \o u) \o w = t \o (u \o w)
  BY <1>1, ConcatAssociative
<1> QED
  BY <1>2, <1>3, <1>4

\* An entry more of a copy is an entry more of what is told once it commits.
LEMMA ToldGrows ==
  ASSUME TypeOK, NEW r \in Request, NEW s \in Step, NEW e \in Entry,
         trail' = trail, req'[r].entries[s] = Append(req[r].entries[s], e)
  PROVE  Told(r, s)' = Append(Told(r, s), e)
<1>1. trail[s] \in Seq(Entry) /\ req[r].entries[s] \in Seq(Entry)
  BY MemoryParts DEF TypeOK
<1>2. Told(r, s)' = trail[s] \o Append(req[r].entries[s], e)
  BY DEF Told
<1>3. \A t, u \in Seq(Entry) : t \o Append(u, e) = Append(t \o u, e)
  BY AppendJoined
<1> QED
  BY <1>1, <1>2, <1>3 DEF Told

\* A request that has recorded nothing tells what is committed.
LEMMA ToldOfNothing ==
  ASSUME TypeOK, NEW r \in Request, NEW s \in Step, req[r].entries = NoEntries
  PROVE  Told(r, s) = trail[s]
<1>1. trail[s] \in Seq(Entry) /\ req[r].entries[s] = <<>>
  BY DEF TypeOK, NoEntries
<1> QED
  BY <1>1, ConcatEmptySeq DEF Told

LEMMA ToldType ==
  ASSUME TypeOK, NEW r \in Request, NEW s \in Step
  PROVE  Told(r, s) \in Seq(Entry)
<1>1. trail[s] \in Seq(Entry) /\ req[r].entries[s] \in Seq(Entry)
  BY MemoryParts DEF TypeOK
<1> QED
  BY <1>1, ConcatProperties DEF Told

LEMMA TellingGrows ==
  ASSUME NEW t \in Seq(Entry), NEW e \in Entry
  PROVE  Telling(Append(t, e)) = IF e.outcome = "RETRIED" THEN "PENDING" ELSE e.outcome
<1> HIDE DEF Entry
<1>1. /\ Append(t, e) # <<>> /\ Len(Append(t, e)) = Len(t) + 1
      /\ Append(t, e)[Len(t) + 1] = e
  BY AppendProperties
<1> QED
  BY <1>1 DEF Telling

\* That requests overlapped is never forgotten.
LEMMA OverlapStays ==
  ASSUME IInv, [Next]_vars
  PROVE  overlapped => overlapped'
<1> TypeOK
  BY DEF IInv
<1>1. ASSUME NEW r \in Request,
             Load(r) \/ Refuse(r) \/ Writes(r) \/ Paces(r) \/ Commit(r) \/ Crash(r)
      PROVE  overlapped => overlapped'
  BY <1>1 DEF Load, Refuse, Writes, RunVars, Paces, Commit, Crash
<1>2. CASE UNCHANGED vars
  BY <1>2 DEF vars
<1> QED
  BY <1>1, <1>2, StepKinds

\* What a request that loads the run has in memory.
LEMMA LoadGives ==
  ASSUME TypeOK, NEW r \in Request, Load(r)
  PROVE  /\ stored /\ UNCHANGED <<stored, row, trail, calls, crashed>>
         /\ req'[r].run = row /\ \A s \in Step : Told(r, s)' = trail[s]
         /\ \A q \in Request \ {r} : req'[q] = req[q]
         /\ ~overlapped' => \A q \in Request : ~Busy(q)
<1>1. /\ stored /\ UNCHANGED <<stored, row, trail, calls, crashed>>
      /\ req'[r].run = row /\ req'[r].entries = NoEntries
      /\ \A q \in Request \ {r} : req'[q] = req[q]
      /\ ~overlapped' => \A q \in Request : ~Busy(q)
  BY DEF Load, TypeOK, Free, Busy
<1>2. \A s \in Step : trail[s] \in Seq(Entry)
  BY DEF TypeOK
<1>3. \A s \in Step : trail[s] \o <<>> = trail[s]
  BY <1>2, ConcatEmptySeq
<1>4. \A s \in Step : req'[r].entries[s] = <<>>
  BY <1>1 DEF NoEntries
<1> QED
  BY <1>1, <1>3, <1>4 DEF Told

\* What a request that commits leaves, when it was alone.
LEMMA CommitGives ==
  ASSUME TypeOK, Alone, ~overlapped, NEW r \in Request, Commit(r)
  PROVE  /\ stored' /\ calls' = calls /\ crashed' = crashed /\ Busy(r) /\ row' = req[r].run
         /\ \A s \in Step : trail'[s] = Told(r, s)
         /\ \A q \in Request : ~Busy(q)'
<1>1. /\ stored' /\ calls' = calls /\ crashed' = crashed /\ Busy(r) /\ row' = req[r].run
      /\ trail' = [s \in Step |-> trail[s] \o req[r].entries[s]]
      /\ req' = [req EXCEPT ![r] = Free]
  BY DEF Commit, Busy
<1>2. \A q \in Request : ~Busy(q)'
  BY <1>1 DEF Alone, Busy, Free, TypeOK
<1> QED
  BY <1>1, <1>2 DEF Told

\* What a request that writes does to its copy and to what it tells.
WriteTells(r, m, s, outcome, who) ==
  /\ Busy(r) /\ req'[r] = m /\ \A q \in Request \ {r} : req'[q] = req[q]
  /\ \A t \in Step \ {s} : m.run.status[t] = req[r].run.status[t] /\ Told(r, t)' = Told(r, t)
  /\ Told(r, s)' = Append(Told(r, s), [outcome |-> outcome, approver |-> who])
  /\ m.run.status[s] = IF outcome = "RETRIED" THEN "PENDING" ELSE outcome

\* A request that writes tells it so.
LEMMA WriteGives ==
  ASSUME TypeOK, NEW r \in Request, NEW m \in Memory, NEW s \in Step,
         NEW outcome \in Outcome, NEW who \in Name,
         Wrote(r, m, s, outcome, who), UNCHANGED RunVars
  PROVE  WriteTells(r, m, s, outcome, who)
<1> DEFINE e == [outcome |-> outcome, approver |-> who]
<1>1. /\ Busy(r) /\ req'[r] = m /\ \A q \in Request \ {r} : req'[q] = req[q]
      /\ trail' = trail
  BY DEF Wrote, RunVars, TypeOK, Busy
<1>2. /\ \A t \in Step \ {s} : /\ m.run.status[t] = req[r].run.status[t]
                               /\ m.entries[t] = req[r].entries[t]
      /\ m.run.status[s] = IF outcome = "RETRIED" THEN "PENDING" ELSE outcome
      /\ m.entries[s] = Append(req[r].entries[s], e)
  BY MemoryParts DEF Wrote, Turned
<1>3. e \in Entry
  BY DEF Entry
<1> HIDE DEF e
<1>4. Told(r, s)' = Append(Told(r, s), e)
  BY <1>1, <1>2, <1>3, ToldGrows
<1>5. \A t \in Step \ {s} : Told(r, t)' = Told(r, t)
  BY <1>1, <1>2 DEF Told
<1> QED
  BY <1>1, <1>2, <1>4, <1>5 DEF e, WriteTells

\* As long as none overlapped, the last entry of a step tells its status, in the stored
\* run and in the copy of the one request in progress.
LEMMA TellsStep ==
  ASSUME IInv, [Next]_vars, Alone, TellsInv
  PROVE  TellsInv'
<1> TypeOK
  BY DEF IInv
<1> SUFFICES ASSUME ~overlapped'
             PROVE  /\ stored' => \A s \in Step : row'.status[s] = Telling(trail'[s])
                    /\ \A q \in Request : Busy(q)' =>
                         \A s \in Step : req'[q].run.status[s] = Telling(Told(q, s)')
  BY DEF TellsInv
<1> ~overlapped
  BY OverlapStays
<1>1. ASSUME NEW r \in Request, Load(r)
      PROVE  TellsInv'
  BY <1>1, LoadGives DEF TellsInv, Busy
<1>2. ASSUME NEW r \in Request, Refuse(r) \/ Crash(r)
      PROVE  TellsInv'
  <2>1. UNCHANGED <<stored, row, trail>> /\ req' = [req EXCEPT ![r] = Free]
    BY <1>2 DEF Refuse, Crash
  <2>2. \A q \in Request : Busy(q)' => Busy(q) /\ req'[q] = req[q]
    BY <2>1 DEF Busy, Free, TypeOK
  <2> QED
    BY <2>1, <2>2 DEF TellsInv, Told
<1>3. ASSUME NEW r \in Request, Commit(r)
      PROVE  TellsInv'
  BY <1>3, CommitGives DEF TellsInv
<1>4. ASSUME NEW r \in Request, Writes(r)
      PROVE  TellsInv'
  <2>1. PICK m \in Memory, s \in Step, outcome \in Outcome, who \in Name :
          Wrote(r, m, s, outcome, who)
    BY <1>4 DEF Writes
  <2> DEFINE e == [outcome |-> outcome, approver |-> who]
  <2>2. /\ Busy(r) /\ req'[r] = m /\ \A q \in Request \ {r} : req'[q] = req[q]
        /\ \A t \in Step \ {s} : m.run.status[t] = req[r].run.status[t] /\ Told(r, t)' = Told(r, t)
        /\ Told(r, s)' = Append(Told(r, s), e)
        /\ m.run.status[s] = IF outcome = "RETRIED" THEN "PENDING" ELSE outcome
    <3>1. WriteTells(r, m, s, outcome, who)
      BY <1>4, <2>1, WriteGives DEF Writes
    <3> QED
      BY <3>1 DEF WriteTells
  <2>3. Telling(Append(Told(r, s), e)) = IF outcome = "RETRIED" THEN "PENDING" ELSE outcome
    <3>1. e \in Entry /\ e.outcome = outcome
      BY DEF Entry
    <3> HIDE DEF e
    <3> QED
      BY <3>1, ToldType, TellingGrows
  <2> HIDE DEF e
  <2>4. UNCHANGED <<stored, row, trail>>
    BY <1>4 DEF Writes, RunVars
  <2>5. \A q \in Request \ {r} : Busy(q)' => Busy(q) /\ \A t \in Step : Told(q, t)' = Told(q, t)
    BY <2>2, <2>4 DEF Busy, Told
  <2>6. \A t \in Step : req[r].run.status[t] = Telling(Told(r, t))
    BY <2>2 DEF TellsInv
  <2>7. \A t \in Step : req'[r].run.status[t] = Telling(Told(r, t)')
    BY <2>2, <2>3, <2>6
  <2>8. \A q \in Request : Busy(q)' => \A t \in Step : req'[q].run.status[t] = Telling(Told(q, t)')
    BY <2>2, <2>5, <2>7 DEF TellsInv
  <2> QED
    BY <2>4, <2>8 DEF TellsInv
<1>5. ASSUME NEW r \in Request, Paces(r)
      PROVE  TellsInv'
  <2>1. /\ UNCHANGED <<stored, row, trail>> /\ Busy(r)
        /\ \A q \in Request : req'[q].run = req[q].run /\ req'[q].entries = req[q].entries
        /\ \A q \in Request \ {r} : req'[q] = req[q]
    BY <1>5 DEF Paces, Busy, TypeOK
  <2> QED
    BY <2>1 DEF TellsInv, Told, Busy
<1>6. CASE UNCHANGED vars
  BY <1>6 DEF vars, TellsInv, Told, Busy
<1> QED
  BY <1>1, <1>2, <1>3, <1>4, <1>5, <1>6, StepKinds DEF TellsInv


-----------------------------------------------------------------------------
LEMMA HeldType ==
  ASSUME NEW t \in Seq(Entry)
  PROVE  /\ HeldIn(t) \in Nat
         /\ IsFiniteSet({ i \in DOMAIN t : t[i].outcome = "AWAITING_APPROVAL" })
<1>1. IsFiniteSet(1..Len(t)) /\ DOMAIN t = 1..Len(t)
  BY FS_Interval, LenProperties
<1>2. { i \in DOMAIN t : t[i].outcome = "AWAITING_APPROVAL" } \subseteq 1..Len(t)
  BY <1>1
<1> QED
  BY <1>1, <1>2, FS_Subset, FS_CardinalityType DEF HeldIn

\* An entry more is a hold more if it says so.
LEMMA HeldGrows ==
  ASSUME NEW t \in Seq(Entry), NEW e \in Entry
  PROVE  HeldIn(Append(t, e)) =
           IF e.outcome = "AWAITING_APPROVAL" THEN HeldIn(t) + 1 ELSE HeldIn(t)
<1> HIDE DEF Entry
<1> DEFINE H(u) == { i \in DOMAIN u : u[i].outcome = "AWAITING_APPROVAL" }
           v == Append(t, e)
<1>1. /\ v \in Seq(Entry) /\ Len(t) \in Nat /\ Len(v) = Len(t) + 1
      /\ \A i \in 1..Len(t) : v[i] = t[i]
      /\ v[Len(t) + 1] = e
  BY AppendProperties, LenProperties
<1> HIDE DEF v
<1>2. /\ DOMAIN t = 1..Len(t) /\ DOMAIN v = (1..Len(t)) \cup {Len(t) + 1}
      /\ Len(t) + 1 \notin 1..Len(t)
  BY <1>1, LenProperties
<1>3. IsFiniteSet(H(t)) /\ HeldIn(t) = Cardinality(H(t)) /\ HeldIn(v) = Cardinality(H(v))
      /\ Len(t) + 1 \notin H(t)
  BY <1>2, HeldType DEF HeldIn
<1>4. CASE e.outcome = "AWAITING_APPROVAL"
  <2>1. H(v) = H(t) \cup {Len(t) + 1}
    BY <1>1, <1>2, <1>4
  <2> HIDE DEF H
  <2> QED
    BY <1>3, <1>4, <2>1, FS_AddElement DEF v
<1>5. CASE e.outcome # "AWAITING_APPROVAL"
  <2>1. H(v) = H(t)
    BY <1>1, <1>2, <1>5
  <2> QED
    BY <1>3, <1>5, <2>1 DEF v
<1> QED
  BY <1>4, <1>5

\* What a request adds takes no hold away.
LEMMA HeldKept ==
  ASSUME NEW t \in Seq(Entry), NEW u \in Seq(Entry)
  PROVE  HeldIn(t) <= HeldIn(t \o u)
<1> HIDE DEF Entry
<1> DEFINE H(w) == { i \in DOMAIN w : w[i].outcome = "AWAITING_APPROVAL" }
           v == t \o u
<1>1. /\ v \in Seq(Entry) /\ Len(t) \in Nat /\ Len(u) \in Nat /\ Len(v) = Len(t) + Len(u)
      /\ \A i \in 1..Len(t) : v[i] = t[i]
  BY ConcatProperties, LenProperties
<1> HIDE DEF v
<1>2. DOMAIN t = 1..Len(t) /\ DOMAIN v = 1..(Len(t) + Len(u))
  BY <1>1, LenProperties
<1>3. H(t) \subseteq H(v)
  BY <1>1, <1>2
<1>4. IsFiniteSet(H(v))
  BY <1>1, HeldType
<1>5. HeldIn(t) = Cardinality(H(t)) /\ HeldIn(v) = Cardinality(H(v))
  BY DEF HeldIn
<1> HIDE DEF H
<1> QED
  BY <1>3, <1>4, <1>5, FS_Subset DEF v

\* The numbers that PaidInv compares.
LEMMA PaidNumbers ==
  ASSUME IInv, NEW s \in Step
  PROVE  /\ Len(calls[s]) \in Nat /\ HeldIn(trail[s]) \in Nat
         /\ MaxStepAttempts \in Nat \ {0}
         /\ \A r \in Request : HeldIn(Told(r, s)) \in Nat /\ req[r].run.attempts[s] \in Nat
<1> TypeOK
  BY DEF IInv
<1>1. calls[s] \in Seq(Name) /\ trail[s] \in Seq(Entry)
  BY DEF TypeOK
<1>2. Len(calls[s]) \in Nat
  BY <1>1, LenProperties
<1> QED
  BY <1>1, <1>2, ToldType, HeldType, MemoryParts, RequestsAssumption


\* Trying the tool of s spends a hold or an attempt that was left; putting s back or
\* holding it leaves one.
LEMMA PaidWrites ==
  ASSUME IInv, PaidInv, ~overlapped, ~crashed, NEW r \in Request, NEW m \in Memory,
         NEW s \in Step, NEW outcome \in Outcome, NEW who \in Name,
         Wrote(r, m, s, outcome, who), UNCHANGED RunVars,
         Invoked(r, m, s, outcome, who) \/ Marked(r, m, s, outcome)
  PROVE  /\ Irreversible(s) => Len(calls'[s]) <= HeldIn(trail[s])
         /\ Len(calls'[s]) <= MaxStepAttempts
         /\ Paid(m.run, s, Told(r, s)', Len(calls'[s]))
<1> TypeOK
  BY DEF IInv
<1> DEFINE e == [outcome |-> outcome, approver |-> who]
           status == req[r].run.status[s]
           n == Len(calls[s])
           k == req[r].run.attempts[s]
           held == HeldIn(Told(r, s))
<1>1. /\ Busy(r) /\ Told(r, s)' = Append(Told(r, s), e)
      /\ m.run.status[s] = IF outcome = "RETRIED" THEN "PENDING" ELSE outcome
  <2>1. WriteTells(r, m, s, outcome, who)
    BY WriteGives
  <2> QED
    BY <2>1 DEF WriteTells
<1>2. n \in Nat /\ k \in Nat /\ held \in Nat /\ MaxStepAttempts \in Nat /\ HeldIn(trail[s]) \in Nat
  BY PaidNumbers
<1>3. HeldIn(Told(r, s)') = IF outcome = "AWAITING_APPROVAL" THEN held + 1 ELSE held
  <2>1. e \in Entry /\ e.outcome = outcome
    BY DEF Entry
  <2> HIDE DEF e
  <2> QED
    BY <1>1, <2>1, ToldType, HeldGrows
<1>4. /\ Irreversible(s) /\ status = "AWAITING_APPROVAL" => n < held
      /\ n <= k /\ k <= MaxStepAttempts
      /\ Untried(status) => k < MaxStepAttempts
      /\ Irreversible(s) => n <= HeldIn(trail[s])
  BY <1>1 DEF PaidInv, Paid
<1>5. calls \in [Step -> Seq(Name)] /\ req[r].run.attempts \in [Step -> Nat]
  BY MemoryParts DEF TypeOK
<1>6. CASE Invoked(r, m, s, outcome, who)
  <2>1. m.run.attempts[s] = k + 1
    BY <1>5, <1>6 DEF Invoked, Tried
  <2>2. Len(calls'[s]) \in {n, n + 1}
    <3>1. calls'[s] = calls[s] \/ calls'[s] = Append(calls[s], who)
      BY <1>5, <1>6 DEF Invoked, Tried
    <3>2. Len(Append(calls[s], who)) = n + 1
      BY <1>5, AppendProperties
    <3> QED
      BY <3>1, <3>2
  <2>3. k < MaxStepAttempts
    BY <1>4, <1>6 DEF Invoked, Untried
  <2>4. m.run.status[s] \notin {"PENDING", "AWAITING_APPROVAL"}
    BY <1>1, <1>6 DEF Invoked, Tried
  <2>5. Irreversible(s) => Len(calls'[s]) <= HeldIn(trail[s])
    <3>1. ASSUME Irreversible(s)
          PROVE  n < HeldIn(trail[s])
      <4>1. status = "AWAITING_APPROVAL" /\ req[r].pc = "loaded"
        BY <1>6, <3>1 DEF Invoked
      <4>2. Told(r, s) = trail[s]
        BY <4>1, ToldOfNothing DEF IInv, Batches
      <4> QED
        BY <1>4, <3>1, <4>1, <4>2
    <3> QED
      BY <1>2, <2>2, <3>1
  <2>6. Len(calls'[s]) <= m.run.attempts[s] /\ m.run.attempts[s] <= MaxStepAttempts
        /\ Len(calls'[s]) <= MaxStepAttempts
    <3> DEFINE l == Len(calls'[s])
               a == m.run.attempts[s]
    <3>1. l \in {n, n + 1} /\ a = k + 1 /\ n <= k /\ k < MaxStepAttempts
      BY <1>4, <2>1, <2>2, <2>3
    <3> HIDE DEF l, a, n, k
    <3>2. l <= a /\ a <= MaxStepAttempts /\ l <= MaxStepAttempts
      BY <1>2, <3>1
    <3> QED
      BY <3>2 DEF l, a
  <2> QED
    BY <2>4, <2>5, <2>6 DEF Paid, Untried
<1>7. CASE Marked(r, m, s, outcome)
  <2>1. m.run.attempts[s] = k /\ Len(calls'[s]) = n
    BY <1>7 DEF Marked
  <2>2. Untried(m.run.status[s]) => k < MaxStepAttempts
    BY <1>1, <1>4, <1>7 DEF Marked, Untried
  <2>3. Irreversible(s) /\ m.run.status[s] = "AWAITING_APPROVAL" => n < HeldIn(Told(r, s)')
    <3>1. ASSUME Irreversible(s), m.run.status[s] = "AWAITING_APPROVAL"
          PROVE  n <= held /\ outcome = "AWAITING_APPROVAL"
      <4>1. outcome = "AWAITING_APPROVAL"
        BY <1>1, <3>1
      <4>2. HeldIn(trail[s]) <= held
        BY HeldKept, MemoryParts DEF Told, TypeOK
      <4> QED
        BY <1>2, <1>4, <3>1, <4>1, <4>2
    <3> QED
      BY <1>2, <1>3, <3>1
  <2>4. n <= MaxStepAttempts
    BY <1>2, <1>4
  <2> QED
    BY <1>4, <2>1, <2>2, <2>3, <2>4 DEF Paid
<1> QED
  BY <1>6, <1>7

\* As long as none overlapped or died, no execution is without a hold or an attempt.
LEMMA PaidStep ==
  ASSUME IInv, [Next]_vars, Alone, PaidInv
  PROVE  PaidInv'
<1> TypeOK
  BY DEF IInv
<1> SUFFICES ASSUME ~overlapped', ~crashed'
             PROVE  PaidInv'
  BY DEF PaidInv
<1> ~overlapped
  BY OverlapStays
<1>1. ASSUME NEW r \in Request, Load(r)
      PROVE  PaidInv'
  <2>1. ~crashed
    BY <1>1, LoadGives
  <2>2. Busy(r)'
    BY <1>1 DEF Load, Busy, TypeOK
  <2> QED
    BY <1>1, <2>1, <2>2, LoadGives DEF PaidInv, Busy
<1>2. ASSUME NEW r \in Request, Refuse(r)
      PROVE  PaidInv'
  <2>1. /\ UNCHANGED <<stored, row, trail, calls, crashed>> /\ req' = [req EXCEPT ![r] = Free]
        /\ req[r].pc = "loaded" /\ Busy(r)
    BY <1>2 DEF Refuse, Busy
  <2>2. req[r].run = row /\ \A s \in Step : Told(r, s) = trail[s]
    BY <2>1, ToldOfNothing DEF Alone, IInv, Batches
  <2>3. \A q \in Request : ~Busy(q)'
    BY <2>1 DEF Alone, Busy, Free, TypeOK
  <2> QED
    BY <2>1, <2>2, <2>3 DEF PaidInv
<1>3. ASSUME NEW r \in Request, Crash(r)
      PROVE  PaidInv'
  BY <1>3 DEF Crash
<1>4. ASSUME NEW r \in Request, Commit(r)
      PROVE  PaidInv'
  <2>1. /\ calls' = calls /\ crashed' = crashed /\ Busy(r) /\ row' = req[r].run
        /\ \A s \in Step : trail'[s] = Told(r, s)
        /\ \A q \in Request : ~Busy(q)'
    BY <1>4, CommitGives
  <2>2. \A s \in Step : HeldIn(trail[s]) <= HeldIn(Told(r, s))
    BY HeldKept, MemoryParts DEF Told, TypeOK
  <2>3. \A s \in Step : /\ Len(calls[s]) \in Nat /\ HeldIn(trail[s]) \in Nat
                        /\ HeldIn(Told(r, s)) \in Nat
    BY PaidNumbers
  <2>4. \A s \in Step : Irreversible(s) => Len(calls'[s]) <= HeldIn(trail'[s])
    BY <2>1, <2>2, <2>3 DEF PaidInv
  <2> QED
    BY <2>1, <2>4 DEF PaidInv
<1>5. ASSUME NEW r \in Request, Writes(r)
      PROVE  PaidInv'
  <2>1. PICK m \in Memory, s \in Step, outcome \in Outcome, who \in Name :
          /\ Wrote(r, m, s, outcome, who)
          /\ Invoked(r, m, s, outcome, who) \/ Marked(r, m, s, outcome)
    BY <1>5 DEF Writes
  <2>2. UNCHANGED RunVars /\ UNCHANGED <<stored, row, trail, crashed>> /\ ~crashed
    BY <1>5 DEF Writes, RunVars
  <2>3. /\ Busy(r) /\ req'[r] = m /\ \A q \in Request \ {r} : req'[q] = req[q]
        /\ \A t \in Step \ {s} : m.run.status[t] = req[r].run.status[t] /\ Told(r, t)' = Told(r, t)
    <3>1. WriteTells(r, m, s, outcome, who)
      BY <2>1, <2>2, WriteGives
    <3> QED
      BY <3>1 DEF WriteTells
  <2>4. \A t \in Step \ {s} : m.run.attempts[t] = req[r].run.attempts[t] /\ calls'[t] = calls[t]
    BY <2>1, MemoryParts DEF Invoked, Tried, Marked, TypeOK
  <2>5. /\ Irreversible(s) => Len(calls'[s]) <= HeldIn(trail[s])
        /\ Len(calls'[s]) <= MaxStepAttempts
        /\ Paid(m.run, s, Told(r, s)', Len(calls'[s]))
    BY <2>1, <2>2, PaidWrites
  <2>6. \A t \in Step \ {s} : Paid(m.run, t, Told(r, t)', Len(calls'[t]))
    BY <2>2, <2>3, <2>4 DEF PaidInv, Paid
  <2>7. \A q \in Request : Busy(q)' => q = r
    BY <2>3 DEF Alone, Busy
  <2>8. Busy(r)'
    BY <2>1, <2>3 DEF Wrote, Busy
  <2>9. \A t \in Step : /\ Irreversible(t) => Len(calls'[t]) <= HeldIn(trail'[t])
                        /\ Len(calls'[t]) <= MaxStepAttempts
    BY <2>2, <2>4, <2>5 DEF PaidInv
  <2>10. \A t \in Step, q \in Request : Busy(q)' => Paid(req'[q].run, t, Told(q, t)', Len(calls'[t]))
    BY <2>3, <2>5, <2>6, <2>7
  <2> QED
    BY <2>8, <2>9, <2>10 DEF PaidInv
<1>6. ASSUME NEW r \in Request, Paces(r)
      PROVE  PaidInv'
  <2>1. /\ UNCHANGED <<stored, row, trail, calls, crashed>> /\ Busy(r)
        /\ \A q \in Request : req'[q].run = req[q].run /\ req'[q].entries = req[q].entries
        /\ \A q \in Request \ {r} : req'[q] = req[q]
    BY <1>6 DEF Paces, Busy, TypeOK
  <2>2. Busy(r)'
    BY <1>6 DEF Paces, Busy, TypeOK
  <2> QED
    BY <2>1, <2>2 DEF PaidInv, Told, Busy
<1>7. CASE UNCHANGED vars
  BY <1>7 DEF vars, PaidInv, Told, Busy
<1> QED
  BY <1>1, <1>2, <1>3, <1>4, <1>5, <1>6, <1>7, StepKinds

\* As long as requests follow one another, the stored run is the one the ledger tells,
\* and an execution has its hold and its attempt.
THEOREM SerialAlways == Spec => []SerialInv
<1>1. Init => SerialInv
  <2> SUFFICES ASSUME Init PROVE SerialInv
    OBVIOUS
  <2>1. PICK starter \in Request :
          req = [r \in Request |-> IF r = starter THEN [Free EXCEPT !.pc = "advancing"] ELSE Free]
    BY DEF Init
  <2>2. /\ \A r \in Request : Busy(r) => r = starter
        /\ \A r \in Request : /\ req[r].run = NewRun /\ req[r].entries = NoEntries
                              /\ req[r].pc # "loaded"
        /\ Busy(starter) /\ ~stored
    BY <2>1 DEF Init, Free, Busy
  <2>3. Alone
    BY <2>2 DEF Alone
  <2>4. \A s \in Step : calls[s] = <<>> /\ trail[s] = <<>> /\ \A r \in Request : Told(r, s) = <<>>
    <3>1. <<>> \o <<>> = <<>>
      BY ConcatEmptySeq, EmptySeq
    <3> QED
      BY <2>2, <3>1 DEF Init, NoEntries, Told
  <2>5. TellsInv
    BY <2>2, <2>4 DEF TellsInv, Telling, NewRun
  <2>6. HeldIn(<<>>) \in Nat /\ Len(<<>>) = 0
    BY EmptySeq, HeldType
  <2>7. \A r \in Request, s \in Step : Paid(req[r].run, s, Told(r, s), Len(calls[s]))
    BY <2>2, <2>4, <2>6, RequestsAssumption DEF Paid, NewRun, Untried
  <2>8. PaidInv
    BY <2>2, <2>4, <2>6, <2>7, RequestsAssumption DEF PaidInv
  <2> QED
    BY <2>3, <2>5, <2>8 DEF SerialInv
<1>2. IInv /\ SerialInv /\ [Next]_vars => SerialInv'
  BY AloneStep, TellsStep, PaidStep DEF SerialInv
<1> QED
  BY <1>1, <1>2, RequestsAlways, PTL DEF Spec

\* Whatever requests on one run overlap, die or roll back: values keep their types, an
\* irreversible action has a person's name on it, and as long as none overlapped the
\* ledger and the attempts tell what was done.
THEOREM RequestsAlwaysKeepTheRun == Spec => []RequestsKeepTheRun
<1>1. IInv /\ SerialInv => TypeOK /\ SerialTrailTellsStatus /\ SerialCallsAreSpent
  <2> SUFFICES ASSUME IInv, SerialInv
               PROVE  TypeOK /\ SerialTrailTellsStatus /\ SerialCallsAreSpent
    OBVIOUS
  <2>1. TypeOK
    BY DEF IInv
  <2>2. SerialTrailTellsStatus
    BY DEF SerialInv, TellsInv, Telling, SerialTrailTellsStatus, TrailTells
  <2>3. SerialCallsAreSpent
    BY DEF SerialInv, PaidInv, HeldIn, Held, SerialCallsAreSpent
  <2> QED
    BY <2>1, <2>2, <2>3
<1>2. TypeOK /\ IrreversibleNamesPerson /\ SerialTrailTellsStatus /\ SerialCallsAreSpent
        => RequestsKeepTheRun
  BY DEF RequestsKeepTheRun
<1> QED
  BY <1>1, <1>2, RequestsAlways, SerialAlways, IrreversibleAlwaysNamesPerson, PTL
=============================================================================
