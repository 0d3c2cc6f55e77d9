----------------------------- MODULE LedgerEvidence -----------------------------
(***************************************************************************)
(* Signatures and evidence over one tenant's decision ledger: servers that *)
(* append while the signing key is being introduced, the migration that    *)
(* signs the entries written before (python -m aegis.ops.sign_ledger), the *)
(* verification of the chain, and the evidence packs exported page by page *)
(* while others append and sign.                                           *)
(*                                                                         *)
(* Entries are appended under the tenant's lock and their hashes link      *)
(* (LedgerAppend), so an entry is its signature and the time its server's  *)
(* clock showed.  Nobody rewrites the table here; what verify() and the    *)
(* offline verifier say of a table that is sound is what is asked.         *)
(***************************************************************************)
EXTENDS Naturals, Sequences, FiniteSets, SequencesExt

CONSTANTS
  Server,
  Slow,          \* servers whose clock is behind
  NoServer,
  MaxEntries,    \* bound: entries appended
  LastTime,      \* bound: the clock
  Batch,         \* entries read by one statement of an export
  MaxEvidence    \* MAX_EVIDENCE

ASSUME EvidenceAssumption ==
  /\ Slow \subseteq Server /\ NoServer \notin Server
  /\ MaxEntries \in Nat /\ LastTime \in Nat
  /\ Batch \in Nat \ {0} /\ MaxEvidence \in Nat

VARIABLES
  chain,      \* the committed entries, in sequence
  server,     \* how each server runs: "plain" has no signing key
  writer,     \* the server that holds the lock, and the entry it has made
  clock,
  signer,     \* the migration: rows selected and not yet committed
  export,     \* the export in progress, or the last one's pack
  settled,    \* history: a migration ran entirely after the last plain server
  mixed       \* history: the key was used while a plain server ran

evidenceVars == <<chain, server, writer, clock, signer, export, settled, mixed>>

SignedEntry == [signed : BOOLEAN, at : 0..LastTime]
NoEntry == [signed |-> FALSE, at |-> 0]

Export ==
  [ pc : {"idle", "page", "head", "pack", "refused"},
    from : 0..LastTime, to : 0..LastTime,
    rows : Seq([number : 0..(MaxEntries - 1), signed : BOOLEAN]),
    head : 0..MaxEntries,      \* entries up to the head, 0 for an empty ledger
    sound : BOOLEAN ]          \* history: the ledger was settled when it began

NoExport == [pc |-> "idle", from |-> 0, to |-> 0, rows |-> << >>, head |-> 0, sound |-> FALSE]

EvidenceTypeOK ==
  /\ chain \in Seq(SignedEntry) /\ Len(chain) <= MaxEntries
  /\ server \in [Server -> {"plain", "down", "keyed"}]
  /\ writer \in [by : Server \cup {NoServer}, entry : SignedEntry]
  /\ writer.by # NoServer => server[writer.by] # "down"
  /\ clock \in 0..LastTime
  /\ signer \in [pc : {"idle", "selected"}, rows : SUBSET DOMAIN chain, alone : BOOLEAN]
  /\ export \in Export
  /\ export.pc # "refused" => Len(export.rows) <= MaxEvidence
  /\ settled \in BOOLEAN /\ mixed \in BOOLEAN

-----------------------------------------------------------------------------
EvidenceInit ==
  /\ chain = << >> /\ clock = 0
  /\ server = [s \in Server |-> "plain"]
  /\ writer = [by |-> NoServer, entry |-> NoEntry]
  /\ signer = [pc |-> "idle", rows |-> {}, alone |-> FALSE]
  /\ export = NoExport
  /\ settled = FALSE /\ mixed = FALSE

Plain == {s \in Server : server[s] = "plain"}
ClockOf(s) == IF s \in Slow /\ clock > 0 THEN clock - 1 ELSE clock

ClockTick ==
  /\ clock < LastTime /\ clock' = clock + 1
  /\ UNCHANGED <<chain, server, writer, signer, export, settled, mixed>>

\* A server is stopped for the deployment; a transaction of its own is rolled back.
Stop(s) ==
  /\ server[s] = "plain"
  /\ server' = [server EXCEPT ![s] = "down"]
  /\ writer' = IF writer.by = s THEN [by |-> NoServer, entry |-> NoEntry] ELSE writer
  /\ UNCHANGED <<chain, clock, signer, export, settled, mixed>>

\* ledger_signing_key: from now on the server has AEGIS_LEDGER_SIGNING_KEY.
Start(s) ==
  /\ server[s] = "down"
  /\ server' = [server EXCEPT ![s] = "keyed"]
  /\ mixed' = (mixed \/ Plain # {})
  /\ UNCHANGED <<chain, writer, clock, signer, export, settled>>

\* entry_signature, or None without a key.
SignedBy(s) == server[s] = "keyed"

\* lock_tenant, then make_entry with the time of the server.
MakeEntry(s) ==
  /\ server[s] # "down" /\ writer.by = NoServer /\ Len(chain) < MaxEntries
  /\ writer' = [by |-> s, entry |-> [signed |-> SignedBy(s), at |-> ClockOf(s)]]
  /\ UNCHANGED <<chain, server, clock, signer, export, settled, mixed>>

\* append(), and the commit that releases the lock.
AppendEntry ==
  /\ writer.by # NoServer
  /\ chain' = Append(chain, writer.entry)
  /\ writer' = [by |-> NoServer, entry |-> NoEntry]
  /\ UNCHANGED <<server, clock, signer, export, settled, mixed>>

Unsigned == {i \in DOMAIN chain : ~chain[i].signed}

\* sign_unsigned: the chain's hashes hold; the unsigned rows are selected and signed.
SelectUnsigned ==
  /\ signer.pc = "idle" /\ \E s \in Server : server[s] # "plain"
  /\ signer' = [pc |-> "selected", rows |-> Unsigned, alone |-> Plain = {}]
  /\ mixed' = (mixed \/ Plain # {})
  /\ UNCHANGED <<chain, server, writer, clock, export, settled>>

CommitSigned ==
  /\ signer.pc = "selected"
  /\ chain' = [i \in DOMAIN chain |-> IF i \in signer.rows THEN [chain[i] EXCEPT !.signed = TRUE]
                                      ELSE chain[i]]
  /\ settled' = (settled \/ signer.alone)
  /\ signer' = [pc |-> "idle", rows |-> {}, alone |-> FALSE]
  /\ UNCHANGED <<server, writer, clock, export, mixed>>

-----------------------------------------------------------------------------
\* DecisionLedger.verify with the key: the entry it calls broken, if any.
BrokenEntries(requireSigned) ==
  {i \in DOMAIN chain : ~chain[i].signed /\ (requireSigned \/ \E j \in 1..(i - 1) : chain[j].signed)}

Intact(requireSigned) == BrokenEntries(requireSigned) = {}

-----------------------------------------------------------------------------
\* ledger_evidence, with from and to; 0 and LastTime leave a side open.  (A range that ends
\* before it begins gives a pack without entries, as an empty ledger does.)
BeginExport(from, to) ==
  /\ export.pc \in {"idle", "pack", "refused"}
  /\ export' = [NoExport EXCEPT !.pc = "page", !.from = from, !.to = to, !.sound = settled]
  /\ UNCHANGED <<chain, server, writer, clock, signer, settled, mixed>>

After == IF export.rows = << >> THEN 0 ELSE Last(export.rows).number + 1

\* Rows of the next statement: recorded within the range, after the last one read, ...
Matching ==
  {i \in DOMAIN chain : i > After /\ export.from <= chain[i].at /\ chain[i].at <= export.to}

\* ... in sequence, Batch of them at most.
Page ==
  [k \in 1..(IF Cardinality(Matching) < Batch THEN Cardinality(Matching) ELSE Batch) |->
     CHOOSE i \in Matching : Cardinality({j \in Matching : j < i}) = k - 1]

\* 413: the range must be narrowed.
TooMany(n) == n > MaxEvidence

\* in_range: a page is read, until one is empty or islice has enough.
ReadPage ==
  /\ export.pc = "page"
  /\ export' =
       IF Page = << >> THEN [export EXCEPT !.pc = "head"]
       ELSE LET read == export.rows \o [k \in DOMAIN Page |->
                          [number |-> Page[k] - 1, signed |-> chain[Page[k]].signed]] IN
            [export EXCEPT !.rows = read,
                           !.pc = IF TooMany(Len(read)) THEN "refused" ELSE "page"]
  /\ UNCHANGED <<chain, server, writer, clock, signer, settled, mixed>>

\* Mutant of ReadPackHead: the head was read with the first page.
ReadPackHeadOfFirst ==
  /\ export.pc = "head"
  /\ export' = [export EXCEPT !.pc = "pack", !.head = IF export.rows = << >> THEN 0 ELSE 1]
  /\ UNCHANGED <<chain, server, writer, clock, signer, settled, mixed>>

\* last(), after the rows; build_evidence_pack.
ReadPackHead ==
  /\ export.pc = "head"
  /\ export' = [export EXCEPT !.pc = "pack", !.head = Len(chain)]
  /\ UNCHANGED <<chain, server, writer, clock, signer, settled, mixed>>

\* The manifest: first_sequence (and the anchor before it) is that of the first entry.
FirstSequence == IF export.rows = << >> THEN 0 ELSE export.rows[1].number

\* verify() of verify_evidence.py with the key: the entries it has a problem with.  A row
\* that does not follow the one before it neither has the expected sequence nor links.
Problems ==
  {k \in DOMAIN export.rows :
     \/ export.rows[k].number # IF k = 1 THEN FirstSequence ELSE export.rows[k - 1].number + 1
     \/ ~export.rows[k].signed}

EvidenceNext ==
  \/ ClockTick
  \/ \E s \in Server : Stop(s) \/ Start(s) \/ MakeEntry(s)
  \/ AppendEntry
  \/ SelectUnsigned \/ CommitSigned
  \/ \E to \in 0..LastTime : \E from \in 0..to : BeginExport(from, to)
  \/ ReadPage \/ ReadPackHead

EvidenceSpec == EvidenceInit /\ [][EvidenceNext]_evidenceVars

-----------------------------------------------------------------------------
\* A sound ledger is not reported as broken: when the key was never used while a server
\* without it ran, verify() with the key finds the chain intact at every moment.
SeparateVerifies == ~mixed => Intact(FALSE)

\* However the key was introduced, a migration that ran after the last server without it
\* leaves a ledger that verifies with every signature required, and so it stays.
SettledVerifies == settled => Intact(TRUE)

TimesInOrder == \A i, j \in DOMAIN chain : i < j => chain[i].at <= chain[j].at
Whole == export.from = 0 /\ export.to = LastTime

\* An export that began on such a ledger passes the offline verifier although entries were
\* appended between its statements; with from or to, if the servers' clocks agreed.
EvidenceVerifies ==
  export.pc = "pack" /\ export.sound /\ (Whole \/ TimesInOrder) => Problems = {}

\* The head a pack attests is not behind its own entries, and a pack of the whole ledger
\* is complete up to some entry: nothing before its last one is missing.
PackMatchesHead ==
  export.pc = "pack" =>
    /\ \A k \in DOMAIN export.rows : export.rows[k].number < export.head
    /\ Whole => \A k \in DOMAIN export.rows : export.rows[k].number = k - 1

\* What the ledger is kept for: whatever interleaves while the signing key is introduced, a
\* settled ledger verifies and a pack that was exported verifies and ends at its own head.
EvidenceHolds ==
  /\ EvidenceTypeOK /\ SeparateVerifies /\ SettledVerifies /\ EvidenceVerifies
  /\ PackMatchesHead

=============================================================================
