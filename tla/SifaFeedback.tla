----------------------------- MODULE SifaFeedback -----------------------------
(***************************************************************************)
(* What the outcome of a served feed counts for (sifa/serving/platform.py, *)
(* persistence/store.py): the experiment counters, the serving windows the *)
(* guard reads and the bandit, fed by simulated outcomes or by the         *)
(* feedback users send later, and what of it survives a crash.             *)
(*                                                                         *)
(* Recording a feed, recording feedback and switching the mode run under   *)
(* the platform's lock; a feed's impression is stored after it, without    *)
(* the lock.  Every call of the store is a transaction of its own, and a   *)
(* step here is one of them with the memory it goes with.  A window in     *)
(* memory is its whole past; its deque holds the last WindowSize of it.    *)
(***************************************************************************)
EXTENDS Naturals, Sequences, FiniteSets

CONSTANTS
  MaxFeeds,     \* bound: feeds served, numbered in the order they began
  Item,         \* the items of a feed
  Arm,          \* the variants of the experiment; "holdout" is not counted
  WindowSize,   \* WINDOW_SIZE, and the limit of load_window
  MaxUpsets     \* bound: switches of the outcome mode and restarts, together

ASSUME FeedbackAssumption ==
  /\ "holdout" \notin Arm
  /\ MaxFeeds \in Nat \ {0} /\ WindowSize \in Nat \ {0} /\ MaxUpsets \in Nat
  /\ IsFiniteSet(Item)

VARIABLES
  memory,       \* mode, counters, windows and bandit of the process
  saved,        \* the same in the store
  impressions,  \* stored impressions
  feedback,     \* stored feedback: pairs of feed and item, with the click
  feed,         \* the feeds being served, and those that are over
  working,      \* what the holder of the platform's lock does next
  switches, crashes,
  late          \* history: the mode was switched after a feed was first looked at

feedbackVars ==
  <<memory, saved, impressions, feedback, feed, working, switches, crashes, late>>

Feed == 1..MaxFeeds
Mode == {"simulated", "feedback"}
Side == {"live", "canary"}            \* the two serving windows
Event == [feed : Feed, clicked : BOOLEAN]

Outcomes == [mode : Mode, trials : [Arm -> 0..MaxFeeds],
             successes : [Arm -> 0..(2 * MaxFeeds)],
             window : [Side -> Seq(Event)], rewards : 0..(MaxFeeds * Cardinality(Item))]

Fresh(mode, rewards) ==
  [mode |-> mode, trials |-> [a \in Arm |-> 0], successes |-> [a \in Arm |-> 0],
   window |-> [w \in Side |-> << >>], rewards |-> rewards]

NotServed == [pc |-> "new", arm |-> "holdout", side |-> "live", clicked |-> FALSE]
NoWork == [pc |-> "free", feed |-> 1]

FeedbackTypeOK ==
  /\ memory \in Outcomes /\ saved \in Outcomes
  /\ impressions \subseteq [feed : Feed, arm : Arm \cup {"holdout"}, source : Mode,
                            credited : BOOLEAN]
  /\ \A i, j \in impressions : i.feed = j.feed => i = j
  /\ feedback \subseteq [feed : Feed, item : Item, clicked : BOOLEAN]
  /\ \A f, g \in feedback : f.feed = g.feed /\ f.item = g.item => f = g
  /\ feed \in [Feed -> [pc : {"new", "decided", "recorded", "over"},
                        arm : Arm \cup {"holdout"}, side : Side, clicked : BOOLEAN]]
  /\ working \in [pc : {"free", "count", "reward", "clicked", "credit", "success", "window",
                        "live", "canary", "counters", "mode"}, feed : Feed]
  /\ switches \in 0..MaxUpsets /\ crashes \in 0..MaxUpsets
  /\ late \in BOOLEAN

-----------------------------------------------------------------------------
FeedbackInit ==
  /\ memory \in {Fresh(mode, 0) : mode \in Mode} /\ saved = memory
  /\ impressions = {} /\ feedback = {}
  /\ feed = [f \in Feed |-> NotServed]
  /\ working = NoWork
  /\ switches = 0 /\ crashes = 0 /\ late = FALSE

\* The feeds served at once are those begun and not over.
Begun(f) == feed[f].pc # "new"
NextFeed(f) == ~Begun(f) /\ \A e \in Feed : e < f => Begun(e)

\* What a window's deque holds, of its past.
Kept(window) ==
  SubSeq(window, IF Len(window) > WindowSize THEN Len(window) - WindowSize + 1 ELSE 1,
         Len(window))

\* Under the lock: memory changes, one transaction commits, and "next" comes next.
Under(f, new, store, next) ==
  /\ memory' = new /\ saved' = store
  /\ working' = [pc |-> next, feed |-> f]
  /\ UNCHANGED <<switches, crashes, late>>

-----------------------------------------------------------------------------
\* recommend() and the beginning of _record_serving: the experiment assigns an arm, the
\* registry a stage, and the mode says whether there is an outcome already.
Decide(f) ==
  /\ NextFeed(f)
  /\ \E arm \in Arm \cup {"holdout"}, side \in Side, clicked \in BOOLEAN :
       /\ clicked => memory.mode = "simulated"
       /\ feed' = [feed EXCEPT ![f] = [pc |-> "decided", arm |-> arm, side |-> side,
                                       clicked |-> clicked]]
  /\ UNCHANGED <<memory, saved, impressions, feedback, working, switches, crashes, late>>

Counted(outcomes, arm, trial, success) ==
  IF arm = "holdout" THEN outcomes
  ELSE [outcomes EXCEPT !.trials[arm] = @ + trial, !.successes[arm] = @ + success]

\* _record_serving under the lock: counted in memory, and the event is stored.
RecordEvent(f) ==
  LET event == [feed |-> f, clicked |-> feed[f].clicked]
      new == Counted(memory, feed[f].arm, 1, IF feed[f].clicked THEN 1 ELSE 0)
  IN /\ feed[f].pc = "decided" /\ working.pc = "free"
     /\ Under(f, [new EXCEPT !.window[feed[f].side] = Append(@, event)],
              [saved EXCEPT !.window[feed[f].side] = Append(@, event)], "count")
     /\ feed' = [feed EXCEPT ![f].pc = "recorded"]
     /\ UNCHANGED <<impressions, feedback>>

\* put("counters")
PutCounters(next) ==
  Under(working.feed, memory,
        [saved EXCEPT !.trials = memory.trials, !.successes = memory.successes], next)

StoreCounters ==
  /\ working.pc = "count" /\ PutCounters("free")
  /\ UNCHANGED <<impressions, feedback, feed>>

\* add_impression, after the lock: the mode is read again.
AddImpression(f) ==
  /\ feed[f].pc = "recorded" /\ (working.pc = "count" => working.feed # f)
  /\ impressions' = impressions \cup
       {[feed |-> f, arm |-> feed[f].arm, source |-> memory.mode, credited |-> FALSE]}
  /\ feed' = [feed EXCEPT ![f] = [NotServed EXCEPT !.pc = "over"]]
  /\ UNCHANGED <<memory, saved, feedback, working, switches, crashes, late>>

-----------------------------------------------------------------------------
IsRepeat(f, item, clicked) == \E b \in feedback : b.feed = f /\ b.item = item

\* record_feedback: the impression is looked up and the pair inserted; a repeat changes
\* nothing.
AddFeedback(f, item, clicked) ==
  /\ working.pc = "free"
  /\ \E i \in impressions : i.feed = f
  /\ ~IsRepeat(f, item, clicked)
  /\ feedback' = feedback \cup {[feed |-> f, item |-> item, clicked |-> clicked]}
  /\ Under(f, memory, saved, IF clicked THEN "clicked" ELSE "reward")
  /\ UNCHANGED <<impressions, feed>>

\* Only the first click of a feed served in feedback mode counts, and only in that mode.
Credits(i) == i.source = "feedback" /\ memory.mode = "feedback" /\ ~i.credited

ImpressionOf(f) == CHOOSE i \in impressions : i.feed = f

\* reward() and put("bandit").
Reward ==
  /\ working.pc \in {"reward", "clicked"}
  /\ LET rewarded == [memory EXCEPT !.rewards = @ + 1] IN
     Under(working.feed, rewarded, [saved EXCEPT !.rewards = rewarded.rewards],
           IF working.pc = "clicked" /\ Credits(ImpressionOf(working.feed))
           THEN "credit" ELSE "free")
  /\ UNCHANGED <<impressions, feedback, feed>>

MarkCredited ==
  /\ working.pc = "credit"
  /\ impressions' = {IF i.feed = working.feed THEN [i EXCEPT !.credited = TRUE] ELSE i :
                       i \in impressions}
  /\ Under(working.feed, memory, saved, "success")
  /\ UNCHANGED <<feedback, feed>>

\* The arm's success, in memory and in the store.
CountSuccess ==
  LET new == Counted(memory, ImpressionOf(working.feed).arm, 0, 1) IN
  /\ working.pc = "success"
  /\ Under(working.feed, new,
           [saved EXCEPT !.trials = new.trials, !.successes = new.successes], "window")
  /\ UNCHANGED <<impressions, feedback, feed>>

Clicked(window, f) ==
  [k \in DOMAIN window |-> IF window[k].feed = f THEN [window[k] EXCEPT !.clicked = TRUE]
                           ELSE window[k]]

\* Mutant of ClickKept: the place in the deque is taken to be the feed's number.
ClickAtNumber(window, f) ==
  [k \in DOMAIN window |->
     IF window[k].feed = f /\ k <= WindowSize THEN [window[k] EXCEPT !.clicked = TRUE]
     ELSE window[k]]

\* credit_click: an event that has left the deque is not changed.
ClickKept(window, f) ==
  [k \in DOMAIN window |->
     IF window[k].feed = f /\ k > Len(window) - WindowSize
     THEN [window[k] EXCEPT !.clicked = TRUE] ELSE window[k]]

\* credit_click in both windows, then credit_window_click.
CreditWindow ==
  /\ working.pc = "window"
  /\ Under(working.feed,
           [memory EXCEPT !.window = [w \in Side |-> ClickKept(@[w], working.feed)]],
           [saved EXCEPT !.window = [w \in Side |-> Clicked(@[w], working.feed)]], "free")
  /\ UNCHANGED <<impressions, feedback, feed>>

-----------------------------------------------------------------------------
\* What memory is after a switch to mode.
AfterSwitch(mode) == Fresh(mode, memory.rewards)

\* set_outcome_mode: memory starts again, then the store, transaction by transaction.
SwitchMode(mode) ==
  /\ working.pc = "free" /\ mode # memory.mode /\ switches + crashes < MaxUpsets
  /\ memory' = AfterSwitch(mode)
  /\ working' = [pc |-> "live", feed |-> 1]
  /\ switches' = switches + 1
  /\ late' = (late \/ \E f \in Feed : Begun(f))
  /\ UNCHANGED <<saved, impressions, feedback, feed, crashes>>

ClearWindow ==
  /\ working.pc \in Side
  /\ Under(1, memory, [saved EXCEPT !.window[working.pc] = << >>],
           IF working.pc = "live" THEN "canary" ELSE "counters")
  /\ UNCHANGED <<impressions, feedback, feed>>

ResetCounters ==
  /\ working.pc = "counters" /\ PutCounters("mode")
  /\ UNCHANGED <<impressions, feedback, feed>>

SetMode ==
  /\ working.pc = "mode" /\ Under(1, memory, [saved EXCEPT !.mode = memory.mode], "free")
  /\ UNCHANGED <<impressions, feedback, feed>>

-----------------------------------------------------------------------------
\* The process dies and restores: the windows' last events, and impressions as old as the
\* retention are pruned with their feedback.
CrashAndRestore ==
  /\ switches + crashes < MaxUpsets /\ crashes' = crashes + 1
  /\ LET kept == [saved EXCEPT !.window = [w \in Side |-> Kept(@[w])]] IN
     memory' = kept /\ saved' = kept
  /\ \E since \in 1..(MaxFeeds + 1) :
       /\ impressions' = {i \in impressions : i.feed >= since}
       /\ feedback' = {b \in feedback : b.feed >= since}
  /\ feed' = [f \in Feed |-> IF Begun(f) THEN [NotServed EXCEPT !.pc = "over"] ELSE feed[f]]
  /\ working' = NoWork
  /\ UNCHANGED <<switches, late>>

FeedbackNext ==
  \/ \E f \in Feed :
       \/ Decide(f) \/ RecordEvent(f) \/ AddImpression(f)
       \/ \E item \in Item, clicked \in BOOLEAN : AddFeedback(f, item, clicked)
  \/ StoreCounters \/ Reward \/ MarkCredited \/ CountSuccess \/ CreditWindow
  \/ \E mode \in Mode : SwitchMode(mode)
  \/ ClearWindow \/ ResetCounters \/ SetMode
  \/ CrashAndRestore

FeedbackSpec == FeedbackInit /\ [][FeedbackNext]_feedbackVars

-----------------------------------------------------------------------------
AtRest == working.pc = "free"

\* Between operations a restart brings back what is in memory: counters, mode, bandit and
\* what the windows' deques hold, late clicks included.
RestartLosesNothing ==
  AtRest =>
    /\ [saved EXCEPT !.window = 0] = [memory EXCEPT !.window = 0]
    /\ \A w \in Side : Kept(saved.window[w]) = Kept(memory.window[w])

\* "Successes cannot exceed trials" (MixtureSprt.evaluate), wherever a crash falls, as
\* long as the mode was not switched since the first feed.
SerialSuccessesWithinTrials ==
  ~late => \A a \in Arm : memory.successes[a] <= memory.trials[a]

\* "Successes cannot exceed trials" (MixtureSprt.evaluate), with no restart at all.
SuccessesWithinTrials ==
  crashes = 0 => \A a \in Arm : memory.successes[a] <= memory.trials[a]

\* A repeat "is stored once and counted once": every stored pair has rewarded the bandit
\* once, when no crash has cut in.
RewardedOnce == AtRest /\ crashes = 0 => memory.rewards = Cardinality(feedback)

\* Feedback mode "counts each feed as a trial and its first click as the success": served
\* in that mode and undisturbed, an arm's successes are its feeds that were clicked.
SuccessesAreClickedFeeds ==
  AtRest /\ crashes = 0 /\ ~late /\ memory.mode = "feedback" =>
    \A a \in Arm : memory.successes[a] =
      Cardinality({i \in impressions : i.arm = a /\ \E b \in feedback :
                     b.feed = i.feed /\ b.clicked})

\* Feedback: counted once, for the feed it belongs to, and the counts survive a restart.
FeedbackIsCounted ==
  /\ FeedbackTypeOK /\ RestartLosesNothing /\ SerialSuccessesWithinTrials
  /\ RewardedOnce /\ SuccessesAreClickedFeeds

=============================================================================
