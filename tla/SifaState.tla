------------------------------- MODULE SifaState -------------------------------
(***************************************************************************)
(* The state directory of Sifa and how a process starts from it            *)
(* (sifa/serving/platform.py, persistence/store.py, serving/api.py): built *)
(* cold or restored, moved aside when the data it was built from changed.  *)
(* An artifact is a file written beside the database and a hash of it in   *)
(* the database; a crash falls between any two writes.                     *)
(*                                                                         *)
(* An artifact is known by the data it was trained on and the start of the *)
(* process that wrote it: two trainings never make the same bytes.         *)
(***************************************************************************)
EXTENDS Naturals, Sequences, FiniteSets, Functions

CONSTANTS
  Data,        \* what a fingerprint may stand for: data, features and configuration
  NoData,      \* no fingerprint is stored
  MaxStarts,   \* bound: starts of the process
  MaxRankers   \* bound: versions of the ranker

ASSUME StateAssumption ==
  NoData \notin Data /\ MaxStarts \in Nat \ {0} /\ MaxRankers \in Nat \ {0}

VARIABLES
  db,        \* the database: fingerprint, hash of the tower, rows of the versions
  files,     \* artifacts on disk: the tower and the rankers by version
  process,   \* what the process is doing, and the artifacts it has in memory
  starts,    \* starts of the process
  mixed      \* history: a build was left unfinished and the data changed before the next

stateVars == <<db, files, process, starts, mixed>>

Nothing == [data |-> NoData, start |-> 0]
Artifact == [data : Data, start : 1..MaxStarts]
NoDatabase == [fingerprint |-> NoData, tower |-> Nothing, rows |-> << >>]
Down == [pc |-> "down", data |-> NoData, tower |-> Nothing, rankers |-> << >>, version |-> 1]

StateTypeOK ==
  /\ db.fingerprint \in Data \cup {NoData} /\ db.tower \in Artifact \cup {Nothing}
  /\ Len(db.rows) <= MaxRankers /\ \A v \in DOMAIN db.rows : db.rows[v] \in Artifact
  /\ files.tower \in Artifact \cup {Nothing}
  /\ files.rankers \in [1..MaxRankers -> Artifact \cup {Nothing}]
  /\ process.pc \in {"down", "open", "hash", "file", "row", "mark", "ready", "failed"}
  /\ process.data \in Data \cup {NoData} /\ process.tower \in Artifact \cup {Nothing}
  /\ \A v \in DOMAIN process.rankers : process.rankers[v] \in Artifact
  /\ process.version \in 1..MaxRankers
  /\ starts \in 0..MaxStarts /\ mixed \in BOOLEAN

StateInit ==
  /\ db = NoDatabase
  /\ files = [tower |-> Nothing, rankers |-> [v \in 1..MaxRankers |-> Nothing]]
  /\ process = Down /\ starts = 0 /\ mixed = FALSE

Trained == [data |-> process.data, start |-> starts]
On(pc) == process.pc = pc
Do(pc) == process' = [process EXCEPT !.pc = pc]

-----------------------------------------------------------------------------
\* The process starts, with data of this fingerprint.
StartProcess(data) ==
  /\ On("down") /\ starts < MaxStarts
  /\ process' = [Down EXCEPT !.pc = "open", !.data = data]
  /\ starts' = starts + 1
  /\ mixed' = (mixed \/ (db.fingerprint = NoData
                         /\ \E v \in DOMAIN db.rows : db.rows[v].data # data))
  /\ UNCHANGED <<db, files>>

Stale == db.fingerprint \notin {NoData, process.data}

\* archive() moves the database aside; the artifacts stay where they are.
Archive ==
  /\ On("open") /\ Stale
  /\ db' = NoDatabase
  /\ UNCHANGED <<files, process, starts, mixed>>

HasState == db.fingerprint = process.data /\ db.tower # Nothing /\ db.rows # << >>

\* load_artifact refuses a file that is missing or has another hash.
HasHashes ==
  /\ files.tower = db.tower
  /\ \A v \in DOMAIN db.rows : db.rows[v] = files.rankers[v]

\* _restore
Restore ==
  /\ On("open") /\ ~Stale /\ HasState
  /\ process' = IF HasHashes
                THEN [process EXCEPT !.pc = "ready", !.tower = files.tower,
                                     !.rankers = [v \in DOMAIN db.rows |-> files.rankers[v]]]
                ELSE [process EXCEPT !.pc = "failed"]
  /\ UNCHANGED <<db, files, starts, mixed>>

\* _cold_build: the tower's file, its hash, then the first version and the fingerprint.
BuildTower ==
  /\ On("open") /\ ~Stale /\ ~HasState
  /\ files' = [files EXCEPT !.tower = Trained]
  /\ process' = [process EXCEPT !.pc = "hash", !.tower = Trained, !.rankers = <<Trained>>]
  /\ UNCHANGED <<db, starts, mixed>>

\* Mutant of StoreTowerHash: the fingerprint is stored with it, before there is a version.
StoreTowerHashMarked ==
  /\ On("hash") /\ Do("file")
  /\ db' = [db EXCEPT !.tower = files.tower, !.fingerprint = process.data]
  /\ UNCHANGED <<files, starts, mixed>>

StoreTowerHash ==
  /\ On("hash") /\ Do("file") /\ db' = [db EXCEPT !.tower = files.tower]
  /\ UNCHANGED <<files, starts, mixed>>

-----------------------------------------------------------------------------
HasArtifact(v) == v \in DOMAIN db.rows

\* _persist_version: the file, unless the row has one already, ...
SaveFile ==
  LET v == process.version IN
  /\ On("file") /\ Do("row")
  /\ files' = IF HasArtifact(v) THEN files
              ELSE [files EXCEPT !.rankers[v] = process.rankers[v]]
  /\ UNCHANGED <<db, starts, mixed>>

\* save_version keeps the hash of a row when no file was written.
WithRow(rows, v) ==
  IF v \notin DOMAIN rows THEN Append(rows, files.rankers[v])
  ELSE IF HasArtifact(v) THEN rows ELSE [rows EXCEPT ![v] = files.rankers[v]]

\* ... then the row.  The first version of a build saves the same row again on its way to
\* LIVE, before the build is marked.
SaveRow ==
  /\ On("row") /\ Do(IF db.fingerprint = NoData THEN "mark" ELSE "ready")
  /\ db' = [db EXCEPT !.rows = WithRow(@, process.version)]
  /\ UNCHANGED <<files, starts, mixed>>

\* The fingerprint is stored last.
MarkBuilt ==
  /\ On("mark") /\ Do("ready") /\ db' = [db EXCEPT !.fingerprint = process.data]
  /\ UNCHANGED <<files, starts, mixed>>

\* promote_candidate: a version is trained, and then saved.
TrainNext ==
  /\ On("ready") /\ Len(db.rows) < MaxRankers
  /\ process' = [process EXCEPT !.pc = "file", !.version = Len(db.rows) + 1,
                                !.rankers = Append(@, Trained)]
  /\ UNCHANGED <<db, files, starts, mixed>>

\* Every transition of a version saves it again.
MoveVersion(v) ==
  /\ On("ready") /\ v \in DOMAIN db.rows
  /\ process' = [process EXCEPT !.pc = "file", !.version = v]
  /\ UNCHANGED <<db, files, starts, mixed>>

Crash ==
  /\ ~On("down") /\ process' = Down
  /\ UNCHANGED <<db, files, starts, mixed>>

StateNext ==
  \/ \E data \in Data : StartProcess(data)
  \/ Archive \/ Restore \/ BuildTower \/ StoreTowerHash
  \/ SaveFile \/ SaveRow \/ MarkBuilt
  \/ TrainNext \/ \E v \in 1..MaxRankers : MoveVersion(v)
  \/ Crash

StateSpec == StateInit /\ [][StateNext]_stateVars

-----------------------------------------------------------------------------
\* Once a build is marked nothing that is stored is refused at a restart, wherever a
\* crash fell: the hashes in the database are those of the files.
MarkedIsRestorable == db.fingerprint # NoData => HasHashes /\ ~On("failed")

\* What is marked with a fingerprint, and what serves, was trained on that data: never
\* "old artifacts" that "describe another model", unless the data changed while the very
\* first build was unfinished.
SerialServesItsData ==
  ~mixed =>
    /\ db.fingerprint # NoData =>
         \A a \in Range(db.rows) \cup {db.tower} : a.data = db.fingerprint
    /\ On("ready") =>
         \A a \in Range(process.rankers) \cup {process.tower} : a.data = process.data

\* The state directory: what is marked can be restored, and is of one and the same data.
StateIsRestorable ==
  /\ StateTypeOK /\ MarkedIsRestorable /\ SerialServesItsData

=============================================================================
