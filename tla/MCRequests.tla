------------------------------- MODULE MCRequests -------------------------------
(***************************************************************************)
(* Overlapping requests, for TLC: those on one stored run, and those on    *)
(* the model versions of one tenant.  A behaviour chooses one of the two   *)
(* and runs it; the other stays as it starts, so that the states add up    *)
(* and do not multiply.                                                    *)
(*                                                                         *)
(* The runs.  Offer: outreach is delegated and may fail, the offer below   *)
(* it needs a person.  Provider: the irreversible step below it also       *)
(* awaits an outside answer, next to a step that is denied.                *)
(***************************************************************************)
EXTENDS RunRequests, ModelGovernance

OfferRequires == [s \in 1..2 |-> IF s = 1 THEN {} ELSE {1}]
OfferActions == [s \in 1..2 |-> IF s = 1 THEN "SEND_MESSAGE" ELSE "EXTEND_OFFER"]
OfferTools == {"SEND_MESSAGE", "EXTEND_OFFER"}

ProviderRequires == [s \in 1..3 |-> IF s = 2 THEN {1} ELSE {}]
ProviderActions == [s \in 1..3 |-> CASE s = 1 -> "SEND_MESSAGE"
                                     [] s = 2 -> "TERMINATE_EMPLOYMENT"
                                     [] s = 3 -> "GRANT_EQUITY"]
ProviderTools == {"SEND_MESSAGE", "TERMINATE_EMPLOYMENT"}

Conservative == ConservativePolicy("acme")

-----------------------------------------------------------------------------
VARIABLE part    \* which part runs; chosen once

requestsVars == <<vars, versionsVars, part>>

\* Nobody works on the run where the versions are what runs.
RunAtRest ==
  /\ stored = FALSE /\ row = NewRun /\ trail = NoEntries /\ calls = NoEntries
  /\ lock = NoRequest /\ req = [r \in Request |-> Free]
  /\ served = 0 /\ overlapped = FALSE /\ crashed = FALSE

MCInit ==
  /\ part \in {"run", "versions"}
  /\ IF part = "run" THEN Init ELSE RunAtRest
  /\ VersionsInit

MCNext ==
  \/ part = "run" /\ Next /\ UNCHANGED <<versionsVars, part>>
  \/ part = "versions" /\ VersionsNext /\ UNCHANGED <<vars, part>>

\* The fairness of each part: its steps are those it takes while it runs.
MCSpec ==
  /\ MCInit /\ [][MCNext]_requestsVars
  /\ \A r \in Request :
       /\ WF_vars(part = "run" /\ Operation(r))
       /\ WF_vars(part = "run" /\ Work(r))
       /\ SF_vars(part = "run" /\ AcquireLock(r))
  /\ \A c \in Call :
       /\ SF_versionsVars(part = "versions" /\ Proceed(c))
       /\ WF_versionsVars(part = "versions" /\ BreakDeadlock(c))
=============================================================================
