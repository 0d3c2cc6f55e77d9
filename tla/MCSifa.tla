--------------------------------- MODULE MCSifa ---------------------------------
(***************************************************************************)
(* What Sifa keeps and computes, for TLC: feedback and its counters, the   *)
(* roll-out of its rankers, the stored state, the making of a feed, the    *)
(* feature store and the vector index.  A behaviour chooses one of them    *)
(* and runs it; the others stay as they start, so that the states add up   *)
(* and do not multiply.                                                    *)
(***************************************************************************)
EXTENDS SifaRollout, SifaFeedback, SifaState, FeedPipeline, FeatureStore, VectorIndex

VARIABLE part    \* which part runs; chosen once

sifaVars == <<vars, feedbackVars, stateVars, pipelineVars, storeVars, indexVars, part>>

TwoTopics == <<"art", "sport">>

MCInit ==
  /\ part \in {"rollout", "feedback", "state", "feed", "features", "index"}
  /\ Init /\ FeedbackInit /\ StateInit /\ PipelineInit /\ StoreInit /\ IndexInit
  /\ IF part = "feed" THEN author[Items] = Anonymous
     ELSE bucket = 0 /\ author = [i \in Id |-> Anonymous]
  /\ part = "feedback" \/ memory.mode = "feedback"

RolloutStill == UNCHANGED vars
FeedbackStill == UNCHANGED feedbackVars
StateStill == UNCHANGED stateVars
FeedStill == UNCHANGED pipelineVars
FeaturesStill == UNCHANGED storeVars
IndexStill == UNCHANGED indexVars

MCNext ==
  /\ UNCHANGED part
  /\ \/ /\ part = "rollout" /\ Next
        /\ FeedbackStill /\ StateStill /\ FeedStill /\ FeaturesStill /\ IndexStill
     \/ /\ part = "feedback" /\ FeedbackNext
        /\ RolloutStill /\ StateStill /\ FeedStill /\ FeaturesStill /\ IndexStill
     \/ /\ part = "state" /\ StateNext
        /\ RolloutStill /\ FeedbackStill /\ FeedStill /\ FeaturesStill /\ IndexStill
     \/ /\ part = "feed" /\ PipelineNext
        /\ RolloutStill /\ FeedbackStill /\ StateStill /\ FeaturesStill /\ IndexStill
     \/ /\ part = "features" /\ StoreNext
        /\ RolloutStill /\ FeedbackStill /\ StateStill /\ FeedStill /\ IndexStill
     \/ /\ part = "index" /\ IndexNext
        /\ RolloutStill /\ FeedbackStill /\ StateStill /\ FeedStill /\ FeaturesStill

MCSpec == MCInit /\ [][MCNext]_sifaVars

=============================================================================
