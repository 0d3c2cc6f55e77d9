----------------------------- MODULE SifaBenchmark -----------------------------
(***************************************************************************)
(* Benchmark jobs of Sifa's API (sifa/serving/api.py) behind its rate      *)
(* limiter and roles (sifa/serving/auth.py).  A request is counted, its    *)
(* role is checked, it takes the benchmark lock or is refused, lists a job *)
(* and starts a thread, which runs the job and lets go of the lock.  Time  *)
(* is kept as the age of each counted request, in units of the window.     *)
(***************************************************************************)
EXTENDS Naturals, Sequences, FiniteSets, SequencesExt

CONSTANTS
  Client,     \* requests that can be in progress at once
  MaxJobs,    \* MAX_JOBS
  PerWindow,  \* SIFA_EXPENSIVE_PER_MINUTE
  Minute,     \* the window of the limiter, in units of time
  MaxStarted, \* bound: jobs started
  MaxNoThread \* bound: threads that cannot be started

ASSUME BenchmarkAssumption ==
  /\ MaxJobs \in Nat \ {0} /\ PerWindow \in Nat \ {0} /\ Minute \in Nat \ {0}
  /\ MaxStarted \in Nat /\ MaxNoThread \in Nat

VARIABLES
  operators,  \* clients whose key has the operator role; the others are viewers
  counted,    \* ages of the requests the limiter counts for each client's key, oldest first
  client,     \* where each request is, and the job it started
  busy,       \* _benchmark_lock is held
  jobs,       \* all jobs there were, by number
  listed,     \* _jobs: those that can be polled, oldest first
  threads,    \* jobs with a thread
  noThread    \* jobs whose thread could not be started

benchmarkVars == <<operators, counted, client, busy, jobs, listed, threads, noThread>>

Job == DOMAIN jobs
Expired == Minute + 1

BenchmarkTypeOK ==
  /\ operators \subseteq Client
  /\ counted \in [Client -> Seq(0..Expired)]
  /\ \A c \in Client : Len(counted[c]) <= PerWindow
  /\ client \in [Client -> [at : {"idle", "counted", "allowed", "locked", "listed", "started",
                                  "429", "403", "409", "500"}, job : 0..MaxStarted]]
  /\ busy \in BOOLEAN
  /\ jobs \in Seq([status : {"running", "done", "failed"},
                   result : BOOLEAN, error : BOOLEAN, finished : BOOLEAN])
  /\ Len(listed) <= MaxJobs /\ IsInjective(listed) /\ ToSet(listed) \subseteq Job
  /\ threads \subseteq Job /\ noThread \subseteq Job /\ Cardinality(noThread) <= MaxNoThread

BenchmarkInit ==
  /\ operators \in SUBSET Client
  /\ counted = [c \in Client |-> << >>]
  /\ client = [c \in Client |-> [at |-> "idle", job |-> 0]]
  /\ busy = FALSE /\ jobs = << >> /\ listed = << >> /\ threads = {} /\ noThread = {}

-----------------------------------------------------------------------------
Reaches(c, at) == client' = [client EXCEPT ![c].at = at]

\* while hits and now - hits[0] > window: popleft
Current(hits) ==
  LET gone == CHOOSE n \in 0..Len(hits) :
                /\ \A i \in 1..n : hits[i] > Minute
                /\ n < Len(hits) => hits[n + 1] <= Minute
  IN SubSeq(hits, gone + 1, Len(hits))

\* RateLimiter.check, before the role is: a viewer is counted too, one who is refused is not.
RateCheck(c) ==
  /\ client[c].at = "idle"
  /\ LET hits == Current(counted[c])
     IN IF Len(hits) >= PerWindow
        THEN counted' = [counted EXCEPT ![c] = hits] /\ Reaches(c, "429")
        ELSE counted' = [counted EXCEPT ![c] = Append(hits, 0)] /\ Reaches(c, "counted")
  /\ UNCHANGED <<operators, busy, jobs, listed, threads, noThread>>

\* requires(Role.OPERATOR)
RoleCheck(c) ==
  /\ client[c].at = "counted"
  /\ Reaches(c, IF c \in operators THEN "allowed" ELSE "403")
  /\ UNCHANGED <<operators, counted, busy, jobs, listed, threads, noThread>>

\* The lock is taken without waiting.
TakeLock(c) ==
  /\ client[c].at = "allowed" /\ Len(jobs) < MaxStarted
  /\ busy' = TRUE /\ Reaches(c, IF busy THEN "409" ELSE "locked")
  /\ UNCHANGED <<operators, counted, jobs, listed, threads, noThread>>

\* Mutant of KeptJobs: of too many, the newest goes.
KeptOldestJobs(all) == SubSeq(all, 1, IF Len(all) > MaxJobs THEN MaxJobs ELSE Len(all))

\* while len(_jobs) > MAX_JOBS: pop the oldest
KeptJobs(all) == IF Len(all) > MaxJobs THEN Tail(all) ELSE all

ListJob(c) ==
  /\ client[c].at = "locked"
  /\ jobs' = Append(jobs, [status |-> "running", result |-> FALSE,
                           error |-> FALSE, finished |-> FALSE])
  /\ listed' = KeptJobs(Append(listed, Len(jobs) + 1))
  /\ client' = [client EXCEPT ![c] = [at |-> "listed", job |-> Len(jobs) + 1]]
  /\ UNCHANGED <<operators, counted, busy, threads, noThread>>

\* The thread is started and 202 answered; or it cannot be, and nobody lets go of the lock.
StartThread(c) ==
  /\ client[c].at = "listed"
  /\ \/ Reaches(c, "started") /\ threads' = threads \cup {client[c].job} /\ UNCHANGED noThread
     \/ /\ Cardinality(noThread) < MaxNoThread
        /\ Reaches(c, "500") /\ noThread' = noThread \cup {client[c].job} /\ UNCHANGED threads
  /\ UNCHANGED <<operators, counted, busy, jobs, listed>>

\* The next request of this client.
Ask(c) ==
  /\ client[c].at \in {"started", "429", "403", "409", "500"}
  /\ client' = [client EXCEPT ![c] = [at |-> "idle", job |-> 0]]
  /\ UNCHANGED <<operators, counted, busy, jobs, listed, threads, noThread>>

\* work(): the result before the status, ...
Compute(j) ==
  /\ j \in threads /\ jobs[j].status = "running" /\ ~jobs[j].result /\ ~jobs[j].error
  /\ \E ok \in BOOLEAN : jobs' = [jobs EXCEPT ![j].result = ok, ![j].error = ~ok]
  /\ UNCHANGED <<operators, counted, client, busy, listed, threads, noThread>>

SetStatus(j) ==
  /\ j \in threads /\ jobs[j].status = "running" /\ (jobs[j].result \/ jobs[j].error)
  /\ jobs' = [jobs EXCEPT ![j].status = IF jobs[j].result THEN "done" ELSE "failed"]
  /\ UNCHANGED <<operators, counted, client, busy, listed, threads, noThread>>

Finish(j) ==
  /\ j \in threads /\ jobs[j].status # "running" /\ ~jobs[j].finished
  /\ jobs' = [jobs EXCEPT ![j].finished = TRUE]
  /\ UNCHANGED <<operators, counted, client, busy, listed, threads, noThread>>

\* ... and last of all the lock.
Release(j) ==
  /\ j \in threads /\ jobs[j].finished
  /\ busy' = FALSE /\ threads' = threads \ {j}
  /\ UNCHANGED <<operators, counted, client, jobs, listed, noThread>>

\* A unit of time passes.
Older ==
  /\ counted' = [c \in Client |->
       [i \in DOMAIN counted[c] |->
          IF counted[c][i] = Expired THEN Expired ELSE counted[c][i] + 1]]
  /\ UNCHANGED <<operators, client, busy, jobs, listed, threads, noThread>>

ProceedClient(c) == RoleCheck(c) \/ TakeLock(c) \/ ListJob(c) \/ StartThread(c)
Work == \E j \in Job : Compute(j) \/ SetStatus(j) \/ Finish(j) \/ Release(j)

BenchmarkNext ==
  \/ \E c \in Client : RateCheck(c) \/ ProceedClient(c) \/ Ask(c)
  \/ Work \/ Older

BenchmarkSpec ==
  /\ BenchmarkInit /\ [][BenchmarkNext]_benchmarkVars
  /\ WF_benchmarkVars(Work) /\ \A c \in Client : WF_benchmarkVars(ProceedClient(c))

-----------------------------------------------------------------------------
\* However requests race, one job is worked on at a time: each pegs a core.
OneWorksAtATime == Cardinality(threads) <= 1

\* A job number that was answered can be polled until MAX_JOBS newer jobs were started; no
\* job that runs is ever among the ones evicted.
AnsweredCanBePolled ==
  \A j \in Job : j + MaxJobs > Len(jobs) => j \in ToSet(listed)

\* Whenever a poll copies the job, one that is done has its result, a failed one its error.
DoneHasResult ==
  \A j \in Job : /\ jobs[j].status = "done" => jobs[j].result
                 /\ jobs[j].status = "failed" => jobs[j].error

\* The lock is held by a request that is starting a job, by a job's thread or, lost until the
\* process ends, by a job whose thread could not be started.
LockHasAnOwner ==
  busy => \/ threads # {} \/ noThread # {}
          \/ \E c \in Client : client[c].at \in {"locked", "listed"}

\* When no thread failed to start, a refusal with 409 passes: the lock is let go of again:
\* busy leads to LetGo.
LetGo == ~busy \/ noThread # {}

\* Benchmark jobs: one at a time, under a lock somebody will release, and each kept with its
\* result for whoever was told of it.
JobsAreKept ==
  /\ BenchmarkTypeOK /\ OneWorksAtATime /\ AnsweredCanBePolled /\ DoneHasResult
  /\ LockHasAnOwner

=============================================================================
