------------------------------ MODULE AppendOnlyLog ------------------------------
(***************************************************************************)
(* What the decision ledger promises its readers: a log that only grows at *)
(* its end, by whole batches (one request's entries), and in which every   *)
(* entry is linked to the one before it by its hash.                       *)
(***************************************************************************)
EXTENDS Naturals, Sequences

CONSTANT GENESIS   \* the link of the first entry

VARIABLE log       \* the entries readers see

IsLinked(entries) ==
  \A i \in 1..Len(entries) :
    entries[i].prev = IF i = 1 THEN GENESIS ELSE entries[i - 1].hash

Init == log = <<>>

\* A batch is appended: what was there is untouched and the links go on.
ExtendLog ==
  /\ Len(log') > Len(log)
  /\ \A i \in 1..Len(log) : log'[i] = log[i]
  /\ IsLinked(log')

Spec == Init /\ [][ExtendLog]_log
=============================================================================
