------------------------------- MODULE SifaBoot -------------------------------
(***************************************************************************)
(* How Sifa comes up (sifa/serving/api.py): a thread builds the platform,  *)
(* warms a demo up (sifa/serving/demo.py), starts the scheduler and        *)
(* publishes the platform, while requests already arrive and look at what  *)
(* the thread has left so far, each look a step of its own.  A request     *)
(* that finds neither a platform nor a reason builds one itself.           *)
(*                                                                         *)
(* The process may die at any moment.  Every save of a version is a        *)
(* transaction of its own and stays; the rest is gone.  A first build marks*)
(* its directory when all is saved; one that is not marked is built anew.  *)
(***************************************************************************)
EXTENDS Naturals, Sequences, FiniteSets

CONSTANTS
  Caller,      \* requests that can be in progress at once
  MaxDeaths    \* bound: deaths of the process


Nobody == "nobody"
Thread == "thread"

ASSUME BootAssumption == MaxDeaths \in Nat /\ Nobody \notin Caller

VARIABLES
  boot,        \* where the boot thread is; "dead" when it has ended
  platform,    \* who built the platform that is served: nobody, the thread or a request
  bootError,   \* _boot_error is set
  scheduler,   \* _scheduler is set and runs
  builder,     \* the request that holds _platform_lock, or nobody
  caller,      \* where each request is, and which platform it was given
  versions,    \* stages of the stored versions, v1 first
  marked,      \* the fingerprint is stored: the directory is restored, not built
  saves,       \* saves of v1 the first build in progress has made
  seeded,      \* how far seed_release_history has come in this life
  deaths       \* bound: deaths of the process

bootVars ==
  <<boot, platform, bootError, scheduler, builder, caller, versions, marked, saves, seeded, deaths>>

Callers == [at : {"arrives", "no platform", "no error", "locks", "builds", "served", "refused"},
            given : {Nobody, Thread} \cup Caller]

BootTypeOK ==
  /\ boot \in {"building", "warming", "warm", "scheduled", "published", "failing", "dead"}
  /\ platform \in {Nobody, Thread} \cup Caller
  /\ bootError \in BOOLEAN /\ scheduler \in BOOLEAN
  /\ builder \in {Nobody} \cup Caller
  /\ caller \in [Caller -> Callers]
  /\ \A c \in Caller : caller[c].at = "builds" => builder = c
  /\ versions \in Seq({"draft", "shadow", "canary", "live", "archived", "rolled_back"})
  /\ marked \in BOOLEAN /\ saves \in 0..4
  /\ seeded \in 0..9 /\ deaths \in 0..MaxDeaths

BootInit ==
  /\ boot = "building" /\ platform = Nobody /\ bootError = FALSE /\ scheduler = FALSE
  /\ builder = Nobody /\ caller = [c \in Caller |-> [at |-> "arrives", given |-> Nobody]]
  /\ versions = << >> /\ marked = FALSE /\ saves = 0 /\ seeded = 0 /\ deaths = 0

Directory == <<versions, marked, saves>>

-----------------------------------------------------------------------------
\* save_version of v1: the row is replaced, and the others stay.
Saved(stored, stage) == IF stored = << >> THEN <<stage>> ELSE [stored EXCEPT ![1] = stage]

FirstStages == <<"draft", "shadow", "canary", "live">>

\* _cold_build: v1 is registered and moved to live, each stage saved; then the directory is
\* marked.
ColdBuild ==
  /\ ~marked
  /\ IF saves < Len(FirstStages)
     THEN /\ versions' = Saved(versions, FirstStages[saves + 1])
          /\ saves' = saves + 1 /\ UNCHANGED marked
     ELSE marked' = TRUE /\ saves' = 0 /\ UNCHANGED versions

\* _build_platform in the thread: what is marked, before or by this build, is done with.
BuildInThread ==
  /\ boot = "building"
  /\ \/ ColdBuild /\ UNCHANGED boot
     \/ marked /\ boot' = "warming" /\ UNCHANGED Directory
  /\ UNCHANGED <<platform, bootError, scheduler, builder, caller, seeded, deaths>>

Latest(stored, stage) == [stored EXCEPT ![Len(stored)] = stage]

\* seed_release_history: v2 goes all the way, v3 is rolled back as a canary.  A promotion
\* saves the version it replaces, then the one that is live now.
Seed(step, stored) ==
  CASE step \in {1, 6} -> Append(stored, "draft")
    [] step \in {2, 7} -> Latest(stored, "shadow")
    [] step \in {3, 8} -> Latest(stored, "canary")
    [] step = 4 -> [v \in DOMAIN stored |-> IF stored[v] = "live" THEN "archived" ELSE stored[v]]
    [] step = 5 -> Latest(stored, "live")
    [] step = 9 -> Latest(stored, "rolled_back")

\* A history is written where there is none but v1.
Seeds == seeded \in 1..8 \/ (seeded = 0 /\ Len(versions) = 1)

\* warm_up: after the feeds, the release history step by step.
Warm ==
  /\ boot = "warming"
  /\ IF Seeds THEN /\ versions' = Seed(seeded + 1, versions)
                   /\ seeded' = seeded + 1 /\ UNCHANGED boot
              ELSE boot' = "warm" /\ UNCHANGED <<versions, seeded>>
  /\ UNCHANGED <<platform, bootError, scheduler, builder, caller, marked, saves, deaths>>

\* The scheduler is started and set, then the platform is set, in this order.
StartScheduler ==
  /\ boot = "warm"
  /\ boot' = "scheduled" /\ scheduler' = TRUE
  /\ UNCHANGED <<platform, bootError, builder, caller, Directory, seeded, deaths>>

Publish ==
  /\ boot = "scheduled"
  /\ boot' = "published" /\ platform' = Thread
  /\ UNCHANGED <<bootError, scheduler, builder, caller, Directory, seeded, deaths>>

\* Mutant of FailToBoot: the reason is not kept.
FailSilently ==
  /\ boot \in {"building", "warming", "warm"}
  /\ boot' = "failing" /\ saves' = 0
  /\ UNCHANGED <<platform, bootError, scheduler, builder, caller, versions, marked, seeded, deaths>>

\* Building, warming up and making the scheduler may raise.
FailToBoot ==
  /\ boot \in {"building", "warming", "warm"}
  /\ boot' = "failing" /\ bootError' = TRUE /\ saves' = 0
  /\ UNCHANGED <<platform, scheduler, builder, caller, versions, marked, seeded, deaths>>

EndThread ==
  /\ boot \in {"published", "failing"}
  /\ boot' = "dead"
  /\ UNCHANGED <<platform, bootError, scheduler, builder, caller, Directory, seeded, deaths>>

BootStep == BuildInThread \/ Warm \/ StartScheduler \/ Publish \/ EndThread

-----------------------------------------------------------------------------
Goes(c, at) == caller' = [caller EXCEPT ![c].at = at]
Given(c, built) == caller' = [caller EXCEPT ![c] = [at |-> "served", given |-> built]]
NoThread == UNCHANGED <<boot, bootError, scheduler, seeded, deaths>>

\* get_platform, look by look: is there a platform, ...
LookForPlatform(c) ==
  /\ caller[c].at = "arrives"
  /\ IF platform # Nobody THEN Given(c, platform) ELSE Goes(c, "no platform")
  /\ NoThread /\ UNCHANGED <<platform, builder, Directory>>

\* ... did the boot fail, ...
LookForError(c) ==
  /\ caller[c].at = "no platform"
  /\ Goes(c, IF bootError THEN "refused" ELSE "no error")
  /\ NoThread /\ UNCHANGED <<platform, builder, Directory>>

\* ... does the thread still build?
LookForThread(c) ==
  /\ caller[c].at = "no error"
  /\ Goes(c, IF boot # "dead" THEN "refused" ELSE "locks")
  /\ NoThread /\ UNCHANGED <<platform, builder, Directory>>

\* Mutant of Lock: under the lock, nobody looks again.
LockAndBuild(c) ==
  /\ caller[c].at = "locks" /\ builder = Nobody
  /\ builder' = c /\ Goes(c, "builds")
  /\ NoThread /\ UNCHANGED <<platform, Directory>>

\* Under the lock, the platform is looked for once more.
Lock(c) ==
  /\ caller[c].at = "locks" /\ builder = Nobody
  /\ IF platform = Nobody THEN builder' = c /\ Goes(c, "builds")
                          ELSE Given(c, platform) /\ UNCHANGED builder
  /\ NoThread /\ UNCHANGED <<platform, Directory>>

\* The request builds, without warm-up and scheduler, or fails to.
BuildOnRequest(c) ==
  /\ caller[c].at = "builds"
  /\ \/ ColdBuild /\ UNCHANGED <<platform, builder, caller>>
     \/ /\ marked /\ platform' = c /\ Given(c, c)
        /\ builder' = Nobody /\ UNCHANGED Directory
     \/ /\ Goes(c, "refused") /\ saves' = 0
        /\ builder' = Nobody /\ UNCHANGED <<platform, versions, marked>>
  /\ NoThread

\* The next request in this slot.
Arrive(c) ==
  /\ caller[c].at \in {"served", "refused"}
  /\ caller' = [caller EXCEPT ![c] = [at |-> "arrives", given |-> Nobody]]
  /\ NoThread /\ UNCHANGED <<platform, builder, Directory>>

ProceedCaller(c) ==
  \/ LookForPlatform(c) \/ LookForError(c) \/ LookForThread(c)
  \/ Lock(c) \/ BuildOnRequest(c)

\* The process dies and comes up again.
Die ==
  /\ deaths < MaxDeaths
  /\ deaths' = deaths + 1
  /\ boot' = "building" /\ platform' = Nobody /\ bootError' = FALSE /\ scheduler' = FALSE
  /\ builder' = Nobody /\ caller' = [c \in Caller |-> [at |-> "arrives", given |-> Nobody]]
  /\ saves' = 0 /\ seeded' = 0
  /\ UNCHANGED <<versions, marked>>

BootNext ==
  \/ BootStep \/ FailToBoot \/ Die
  \/ \E c \in Caller : ProceedCaller(c) \/ Arrive(c)

BootSpec ==
  /\ BootInit /\ [][BootNext]_bootVars
  /\ WF_bootVars(BootStep) /\ \A c \in Caller : SF_bootVars(ProceedCaller(c))

-----------------------------------------------------------------------------
\* readyz
Readyz == IF platform # Nobody THEN "ready" ELSE IF bootError THEN "failed" ELSE "starting"

\* However requests race the end of the boot thread, all are given one platform: two would
\* train and save over each other's versions in one state directory.
OnePlatform ==
  \A c, d \in Caller : caller[c].at = "served" /\ caller[d].at = "served" =>
    caller[c].given = caller[d].given

\* A platform that is served has its scheduler, so drift and the guard are watched; the one
\* exception is a platform a request built in the moment the boot failed.
ReadyIsWatched == platform # Nobody => scheduler \/ bootError

Live == {v \in DOMAIN versions : versions[v] = "live"}

\* Wherever the process dies, no two stored versions are live, and of a directory that is
\* marked one is - but for a death between the saves of v1, archived, and of v2, still a
\* canary: then none is until somebody advances v2, and the build-time ranker answers.
OneLiveThroughout ==
  /\ \A v, w \in Live : v = w
  /\ marked => Live # {} \/ versions = <<"archived", "canary">>

\* A build from nothing writes over a v1 of an earlier one at most: no history is stored
\* before the directory is marked.
NothingIsBuiltOver == ~marked => Len(versions) <= 1

\* ... and however often it boots, the history is written once.
SeededOnce == Len(versions) <= 3

\* A request that was told to come back later is told so in vain for a while only: the
\* platform becomes ready or says why it does not.
StartingEnds == (\E c \in Caller : caller[c].at = "refused") ~> Readyz # "starting"

\* Every request is answered, the ones that queue for the lock as well: WaitsForLock(c) leads to
\* RequestOver(c).
WaitsForLock(c) == caller[c].at = "locks"
RequestOver(c) == caller[c].at \in {"arrives", "served", "refused"}

\* The start of the process: one platform, watched, on a history written once.
BootIsConsistent ==
  /\ BootTypeOK /\ OnePlatform /\ ReadyIsWatched /\ OneLiveThroughout
  /\ NothingIsBuiltOver /\ SeededOnce

=============================================================================
