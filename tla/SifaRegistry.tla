------------------------------ MODULE SifaRegistry ------------------------------
(***************************************************************************)
(* The model registry of Sifa (sifa/registry/models.py) for one model      *)
(* name: its versions in order, each with a stage.  What the registry      *)
(* allows and what its mutations make of the versions is defined here; who *)
(* calls it, and when versions are saved, is SifaRollout.                  *)
(*                                                                         *)
(* A registry is a sequence of stages.  The traffic of a version follows   *)
(* from its stage; history, actors, metrics and cards are left out.        *)
(***************************************************************************)
EXTENDS Naturals, Sequences, FiniteSets, FiniteSetsExt

Stage == {"draft", "shadow", "canary", "live", "rolled_back", "archived"}

ALLOWED == [stage \in Stage |->
  CASE stage = "draft" -> {"shadow", "archived"}
    [] stage = "shadow" -> {"canary", "archived", "rolled_back"}
    [] stage = "canary" -> {"live", "rolled_back"}
    [] stage = "live" -> {"rolled_back", "archived"}
    [] stage = "rolled_back" -> {"archived"}
    [] stage = "archived" -> {}]

SYSTEM_EDGES == {<<"archived", "live">>}

None == 0

InStage(registry, stage) == {v \in DOMAIN registry : registry[v] = stage}

\* live(), canary() and shadow(): the first version in that stage.
FirstIn(registry, stage) ==
  IF InStage(registry, stage) = {} THEN None ELSE Min(InStage(registry, stage))

Registered(registry) == Append(registry, "draft")

\* transition() refuses an edge that is not allowed, and a second shadow or canary.
MayMove(registry, version, stage) ==
  /\ stage \in ALLOWED[registry[version]]
  /\ stage \in {"shadow", "canary"} => InStage(registry, stage) \subseteq {version}

\* The live version that version replaces when it goes to stage.
Replaced(registry, version, stage) ==
  LET current == FirstIn(registry, "live") IN
    IF stage = "live" /\ current # version THEN current ELSE None

Moved(registry, version, stage) ==
  [v \in DOMAIN registry |->
     IF v = version THEN stage
     ELSE IF v = Replaced(registry, version, stage) THEN "archived"
     ELSE registry[v]]

\* rollback() withdraws the canary, or else the live version.
Withdrawn(registry) ==
  IF FirstIn(registry, "canary") # None THEN FirstIn(registry, "canary")
  ELSE FirstIn(registry, "live")

Restorable(registry, version) == {v \in InStage(registry, "archived") : v < version}

\* Only withdrawing the live version restores an older one.
Restored(registry) ==
  LET current == Withdrawn(registry)
      older == Restorable(registry, current)
  IN IF registry[current] = "live" /\ older # {} THEN Max(older) ELSE None

RolledBack(registry) ==
  [v \in DOMAIN registry |->
     IF v = Withdrawn(registry) THEN "rolled_back"
     ELSE IF v = Restored(registry) THEN "live"
     ELSE registry[v]]
=============================================================================
