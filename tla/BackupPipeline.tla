--------------------------- MODULE BackupPipeline ---------------------------
(***************************************************************************)
(* A backup to one storage: engine.backup with the write_backup of         *)
(* FsLikeStorage (local, ssh, ftp) or SwiftStorage on the write_stream     *)
(* thread, and PhysicalStorage.put_metadata on the main thread.            *)
(***************************************************************************)
EXTENDS BackupEngine

VARIABLES
    held,     \* the block the writer took last
    written,  \* the data file, as the blocks written to it
    meta      \* which of Artifacts the storage holds

storageVars == <<held, written, meta>>
vars        == <<engineVars, storageVars>>

TypeOK ==
    /\ EngineTypeOK
    /\ held \in 0..Blocks
    /\ written \in Seq(1..Blocks)
    /\ meta \in SUBSET Artifacts

Init ==
    /\ EngineInit
    /\ held = 0 /\ written = <<>> /\ meta = {}

-----------------------------------------------------------------------------
(* write_stream.                                                           *)

\* create_dirs and open.
Open ==
    /\ writer = "opening"
    /\ writer' = "polling"
    /\ UNCHANGED <<main, reader, produced, queue, storageVars>>

GetMessages ==
    /\ writer \in Polls
    /\ writer' = PcAfter(writer, queue)
    /\ queue' = QueueAfter(writer, queue)
    /\ held' = IF Takes(writer, queue) THEN Head(queue.data) ELSE held
    /\ UNCHANGED <<main, reader, produced, written, meta>>

Write ==
    /\ writer = "writing"
    /\ written' = Append(written, held) /\ writer' = "polling"
    /\ UNCHANGED <<main, reader, produced, queue, held, meta>>

\* The file is closed, or swift's manifest uploaded.
Close ==
    /\ writer = "closing"
    /\ writer' = "done"
    /\ UNCHANGED <<main, reader, produced, queue, storageVars>>

WriteFails ==
    /\ "write" \in Faults /\ writer \in {"opening", "writing", "closing"}
    /\ queue' = ForceStop(queue) /\ writer' = "failed"
    /\ UNCHANGED <<main, reader, produced, storageVars>>

Writer == Open \/ GetMessages \/ Write \/ Close \/ WriteFails

-----------------------------------------------------------------------------
PutMetadata ==
    LET a == NextArtifact(meta)
    IN  /\ main = "metadata"
        /\ meta' = meta \cup {a}
        /\ main' = IF a = "metadata" THEN "done" ELSE main
        /\ UNCHANGED <<reader, produced, queue, writer, held, written>>

Main ==
    \/ (Start \/ StartFails \/ Join \/ MetadataFails) /\ UNCHANGED storageVars
    \/ PutMetadata

Next ==
    \/ Reader /\ UNCHANGED storageVars
    \/ Writer
    \/ Main
    \/ Killed /\ UNCHANGED storageVars

Spec == Init /\ [][Next]_vars

(* No thread waits without a timeout; the engine and the storage answer.   *)
LiveSpec ==
    /\ Spec
    /\ WF_vars(Reader /\ UNCHANGED storageVars)
    /\ WF_vars(Writer)
    /\ WF_vars(Main)

-----------------------------------------------------------------------------
\* The data file holds the blocks the engine read, in order, none missing.
StoredInOrder == \A i \in DOMAIN written : written[i] = i

\* What previous_backup and restore can find is complete: its data file has
\* every block and its engine metadata is there.
ListedIsComplete ==
    "listing" \in meta => Len(written) = Blocks /\ "engine_metadata" \in meta

\* backup() returns or raises: neither thread waits for the other for ever.  Once a thread
\* has failed it raises: the other notices, wherever it is blocked, and no metadata
\* is written.
BackupEnds ==
    /\ <>(main \in {"done", "failed", "killed"})
    /\ queue.stop ~> main \in {"failed", "killed"} /\ meta = {}

(* The promise, with the data file as stored.                              *)
Outcome ==
    CASE main = "done"                -> "ok"
      [] main \in {"failed", "killed"} -> "failed"
      [] OTHER                        -> "pending"

Promise == INSTANCE Upload WITH
    stored <- written, listed <- "listing" \in meta, outcome <- Outcome

UploadPromise == Promise!Spec
=============================================================================
