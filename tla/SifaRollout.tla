------------------------------ MODULE SifaRollout ------------------------------
(***************************************************************************)
(* How versions of the ranker reach live traffic                           *)
(* (sifa/serving/platform.py, monitoring/guard.py, persistence/store.py):  *)
(* an operator promotes, advances and rolls back, requests are served by   *)
(* the version the registry names, the guard watches the canary, and the   *)
(* process restarts from what it has saved.                                *)
(*                                                                         *)
(* Operations and the recording of a served request run one at a time      *)
(* under the platform's lock; a request chooses its model before it takes  *)
(* that lock.  Every call of the store is a transaction of its own, so a   *)
(* crash falls between any two of them; a step here is one such            *)
(* transaction with the memory it goes with.                               *)
(***************************************************************************)
EXTENDS SifaRegistry, Bags

CONSTANTS
  Request,        \* slots for requests being served
  MinimumSamples, \* requests the guard wants to have seen
  GuardEvery,     \* the guard looks after so many requests of the canary
  MaxVersions,    \* bound: versions registered
  MaxServed       \* bound: requests accepted

ASSUME RolloutAssumption ==
  /\ MinimumSamples \in Nat \ {0} /\ GuardEvery \in Nat \ {0}
  /\ MaxVersions \in Nat \ {0} /\ MaxServed \in Nat
  /\ IsFiniteSet(Request)

VARIABLES
  registry,   \* stages of the versions, in memory
  stages,     \* the same in the store
  window,     \* outcomes of served requests, in memory, of "live" and "canary"
  events,     \* the same in the store
  ranker,     \* the version that answers when none is live
  op,         \* the operation that holds the platform's lock
  request,    \* what each request in progress was answered by
  served,     \* requests accepted (bound)
  overtaken   \* history: a request was recorded after its canary had left, or a
              \* crash cut an operation short

vars == <<registry, stages, window, events, ranker, op, request, served, overtaken>>

Version == 1..MaxVersions
Windows == {"live", "canary"}
NoEvents == [w \in Windows |-> EmptyBag]

\* pc names what the operation does next; a registry mutation that touched a second
\* version saves it at "save" and goes on to "then".
Idle == [pc |-> "idle", version |-> None, then |-> "idle"]
Free == [pc |-> "free", version |-> None, stage |-> "live"]

IsRegistry(r) == Len(r) \in Version /\ \A v \in DOMAIN r : r[v] \in Stage
IsWindow(bag) ==
  /\ DOMAIN bag \subseteq [version : Version \cup {None}, clicked : BOOLEAN]
  /\ \A e \in DOMAIN bag : bag[e] \in 1..MaxServed

TypeOK ==
  /\ IsRegistry(registry) /\ IsRegistry(stages)
  /\ DOMAIN window = Windows /\ DOMAIN events = Windows
  /\ \A w \in Windows : IsWindow(window[w]) /\ IsWindow(events[w])
  /\ ranker \in DOMAIN registry
  /\ op \in [ pc : {"idle", "shadow", "canary", "save", "reset", "swap", "guard"},
              version : Version \cup {None}, then : {"idle", "reset", "swap"} ]
  /\ request \in [Request -> [ pc : {"free", "served"}, version : Version \cup {None},
                               stage : Windows ]]
  /\ served \in 0..MaxServed
  /\ overtaken \in BOOLEAN

-----------------------------------------------------------------------------
\* A serving window, judged: impressions, clicks and the guard.
Impressions(bag) == BagCardinality(bag)
Clicks(bag) == BagCardinality([e \in {d \in DOMAIN bag : d.clicked} |-> bag[e]])

\* The click-through of the canary is below 85% of that of the live model.
FallsBehind(baseline, candidate) ==
  /\ Clicks(baseline) > 0
  /\ 100 * Clicks(candidate) * Impressions(baseline)
       < 85 * Clicks(baseline) * Impressions(candidate)

\* assess(); flawed stands for the calibration and the latency of the canary.
Objects(flawed) ==
  /\ Impressions(window["canary"]) >= MinimumSamples
  /\ FallsBehind(window["live"], window["canary"]) \/ flawed

-----------------------------------------------------------------------------
\* After the first start: version 1 was taken through every stage.
Init ==
  /\ registry = <<"live">> /\ stages = registry
  /\ window = NoEvents /\ events = NoEvents
  /\ ranker = 1
  /\ op = Idle
  /\ request = [r \in Request |-> Free]
  /\ served = 0
  /\ overtaken = FALSE

\* A mutation of the registry: the versions it touched are saved one by one.
Mutate(new, saves, next) ==
  /\ registry' = new
  /\ stages' = [v \in DOMAIN new |-> IF v = saves[1] THEN new[v] ELSE stages[v]]
  /\ op' = IF Len(saves) = 1 THEN [pc |-> next, version |-> saves[1], then |-> "idle"]
           ELSE [pc |-> "save", version |-> saves[2], then |-> next]
  /\ UNCHANGED <<window, events, ranker, request, served, overtaken>>

SaveSecond ==
  /\ op.pc = "save"
  /\ stages' = [stages EXCEPT ![op.version] = registry[op.version]]
  /\ op' = [pc |-> op.then, version |-> op.version, then |-> "idle"]
  /\ UNCHANGED <<registry, window, events, ranker, request, served, overtaken>>

Saves(first, second) == IF second = None THEN <<first>> ELSE <<first, second>>

Finish ==
  /\ op' = Idle
  /\ UNCHANGED <<registry, stages, ranker, request, served, overtaken>>

\* The operation ends with a RegistryError.
Refuse == Finish /\ UNCHANGED <<window, events>>

-----------------------------------------------------------------------------
\* promote_candidate(): trained, registered, into shadow, into canary.
Promote ==
  /\ op.pc = "idle" /\ Len(registry) < MaxVersions
  /\ Mutate(Registered(registry), <<Len(registry) + 1>>, "shadow")

EnterStage(stage, next) ==
  /\ op.pc = stage
  /\ IF MayMove(registry, op.version, stage)
     THEN Mutate(Moved(registry, op.version, stage), <<op.version>>, next)
     ELSE Refuse

EnterShadow == EnterStage("shadow", "canary")
EnterCanary == EnterStage("canary", "reset")

\* _reset_canary_window()
ResetCanaryWindow ==
  /\ op.pc = "reset"
  /\ window' = [window EXCEPT !["canary"] = EmptyBag]
  /\ events' = [events EXCEPT !["canary"] = EmptyBag]
  /\ Finish

Withdraw(next) ==
  Mutate(RolledBack(registry), Saves(Withdrawn(registry), Restored(registry)), next)

\* Mutant of Rollback: the window stays.
RollbackKeepingWindow ==
  /\ op.pc = "idle" /\ Withdrawn(registry) # None
  /\ Withdraw("idle")

\* An operator's rollback; refused when nothing serves.
Rollback ==
  /\ op.pc = "idle" /\ Withdrawn(registry) # None
  /\ Withdraw("reset")

\* advance_canary(): only when the guard has seen enough and finds it healthy.
Advance ==
  LET canary == FirstIn(registry, "canary")
      replaced == Replaced(registry, canary, "live")
  IN /\ op.pc = "idle" /\ canary # None
     /\ Impressions(window["canary"]) >= MinimumSamples
     /\ \E flawed \in BOOLEAN : ~Objects(flawed)
     /\ Mutate(Moved(registry, canary, "live"),
               IF replaced = None THEN <<canary>> ELSE <<replaced, canary>>, "swap")

\* The canary's window becomes the live one.
SwapWindows ==
  /\ op.pc = "swap"
  /\ window' = [NoEvents EXCEPT !["live"] = window["canary"]]
  /\ events' = [NoEvents EXCEPT !["live"] = events["canary"]]
  /\ Finish

-----------------------------------------------------------------------------
\* recommend(): which version answers is read before the platform's lock is taken; a
\* user's hash decides whether the canary does.
Serve(r, version, stage) ==
  /\ request[r].pc = "free" /\ served < MaxServed
  /\ served' = served + 1
  /\ request' = [request EXCEPT ![r] = [pc |-> "served", version |-> version, stage |-> stage]]
  /\ UNCHANGED <<registry, stages, window, events, ranker, op, overtaken>>

ServeCanary(r) ==
  LET canary == FirstIn(registry, "canary") IN
    canary # None /\ Serve(r, canary, "canary")

\* Without a live version the ranker in hand answers, as version 0.
ServeLive(r) == Serve(r, FirstIn(registry, "live"), "live")

\* _record_serving(): counted in the window of the stage that was read.
Record(r, clicked) ==
  LET w == request[r].stage
      event == SetToBag({[version |-> request[r].version, clicked |-> clicked]})
      grown == window[w] (+) event
      due == w = "canary" /\ Impressions(grown) % GuardEvery = 0
  IN /\ request[r].pc = "served" /\ op.pc = "idle"
     /\ window' = [window EXCEPT ![w] = grown]
     /\ events' = [events EXCEPT ![w] = @ (+) event]
     /\ op' = IF due THEN [Idle EXCEPT !.pc = "guard"] ELSE Idle
     /\ request' = [request EXCEPT ![r] = Free]
     /\ overtaken' = (overtaken \/ (w = "canary" /\ registry[request[r].version] # "canary"))
     /\ UNCHANGED <<registry, stages, ranker, served>>

\* Mutant of EnforceGuard: nobody asks whether there still is a canary.
EnforceGuardAnyway ==
  /\ op.pc = "guard"
  /\ \E flawed \in BOOLEAN :
       IF Objects(flawed) /\ Withdrawn(registry) # None THEN Withdraw("reset") ELSE Refuse

\* _enforce_guard(): a canary the guard objects to is rolled back.
EnforceGuard ==
  /\ op.pc = "guard"
  /\ \E flawed \in BOOLEAN :
       IF FirstIn(registry, "canary") # None /\ Objects(flawed)
       THEN Withdraw("reset") ELSE Refuse

-----------------------------------------------------------------------------
\* The process dies; _restore() reads back what was saved: of the events all, where the code
\* keeps the last 5,000 of each window, far more than the guard wants.
Restart ==
  /\ registry' = stages /\ window' = events
  /\ ranker' = IF FirstIn(stages, "live") = None THEN 1 ELSE FirstIn(stages, "live")
  /\ op' = Idle
  /\ request' = [r \in Request |-> Free]
  /\ overtaken' = (overtaken \/ op.pc # "idle")
  /\ UNCHANGED <<stages, events, served>>

Next ==
  \/ Promote \/ EnterShadow \/ EnterCanary \/ ResetCanaryWindow
  \/ Rollback \/ Advance \/ SaveSecond \/ SwapWindows
  \/ \E r \in Request :
       ServeCanary(r) \/ ServeLive(r) \/ \E clicked \in BOOLEAN : Record(r, clicked)
  \/ EnforceGuard
  \/ Restart

Spec == Init /\ [][Next]_vars

-----------------------------------------------------------------------------
\* At no moment, in memory or in a store cut short by a crash, are two versions live, two
\* in canary or two in shadow (registry/models.py: "would put two models live at once").
OneOfEach ==
  \A s \in {"live", "canary", "shadow"} :
    /\ Cardinality(InStage(registry, s)) <= 1
    /\ Cardinality(InStage(stages, s)) <= 1

\* What is saved of a version moves along the allowed edges only, whatever operations a
\* crash cuts short: nothing that was rolled back serves again.
SavedStagesMoveOn ==
  [][ \A v \in DOMAIN stages :
        \/ stages'[v] = stages[v]
        \/ stages'[v] \in ALLOWED[stages[v]]
        \/ <<stages[v], stages'[v]>> \in SYSTEM_EDGES ]_vars

\* Between operations a restart would bring back exactly what is in memory (README:
\* persisted are "every registry version with its stage" and "the serving windows").
NothingIsUnsaved == op.pc = "idle" => stages = registry /\ events = window

\* The guard never withdraws or replaces the live version, although the canary it was
\* called for may be gone by the time it looks.
GuardSparesLive ==
  [][op.pc = "guard" => FirstIn(registry', "live") = FirstIn(registry, "live")]_vars

\* Stages move along the allowed edges, and the guard never against the live version.
RolloutMovesOn ==
  /\ SavedStagesMoveOn /\ GuardSparesLive

\* The guard judges a canary by the canary's own requests, as long as none was recorded
\* after its canary had left and no crash cut an operation short.
SerialWindowIsTheCanarys ==
  op.pc = "idle" /\ ~overtaken =>
    \A e \in DOMAIN window["canary"] : e.version = FirstIn(registry, "canary")

-----------------------------------------------------------------------------
\* What the documents say, which a second promotion breaks.

\* Even without a crash: a promotion takes a candidate through shadow into canary, or
\* leaves nothing behind (README: "promote a candidate (shadow, then canary at ten
\* percent)").  No operation moves a version out of shadow later, and no other enters
\* while it is there.
ShadowIsPassing == op.pc = "idle" /\ ~overtaken => InStage(registry, "shadow") = {}

\* The roll-out: one version of each stage at every moment, and at rest what is saved is what
\* is in memory and the window is the canary's.
RolloutIsConsistent ==
  /\ TypeOK /\ OneOfEach /\ NothingIsUnsaved /\ SerialWindowIsTheCanarys

=============================================================================
