---------------------------- MODULE BackupEngine ----------------------------
(***************************************************************************)
(* freezer.engine.BackupEngine.backup: the main thread of the agent and    *)
(* the read_stream thread, which pushes what the engine reads into a       *)
(* RichQueue. The write_stream thread runs storage.write_backup:           *)
(* BackupPipeline and MultiPipeline give it a body, for one storage and    *)
(* for several.                                                            *)
(*                                                                         *)
(* A thread that raises puts its exception in its except queue and calls   *)
(* force_stop before it ends (QueuedThread.run): that is one step, for the *)
(* except queue is read only after the thread was joined.                  *)
(***************************************************************************)
EXTENDS RichQueue

CONSTANTS
    Blocks,  \* number of blocks the engine reads
    Faults   \* subset of {"read", "write", "meta", "kill"}

ASSUME BlocksAssumption == Blocks \in Nat

Mains   == {"starting", "running", "metadata", "done", "failed", "killed"}
Readers == {"idle", "reading", "putting", "done", "failed", "killed"}

VARIABLES
    main,      \* the main thread, in backup()
    reader,    \* the read_stream thread
    produced,  \* blocks read; the last one is in hand while "putting"
    queue,     \* input_queue
    writer     \* the write_stream thread

engineVars == <<main, reader, produced, queue, writer>>

Artifacts == {"engine_metadata", "listing", "metadata"}

EngineTypeOK ==
    /\ main \in Mains /\ reader \in Readers /\ writer \in Threads
    /\ produced \in 0..Blocks
    /\ queue \in Queues(1..Blocks)
    /\ Len(queue.data) <= QueueSize

EngineInit ==
    /\ main = "starting" /\ reader = "idle" /\ writer = "idle"
    /\ produced = 0 /\ queue = NewQueue

-----------------------------------------------------------------------------
(* read_stream: put_messages over the generator of the engine.             *)

ReadBlock ==
    /\ reader = "reading" /\ produced < Blocks
    /\ produced' = produced + 1 /\ reader' = "putting"
    /\ UNCHANGED <<main, queue, writer>>

\* Mutant of PutBlock: a block that meets a full queue is given up.
PutBlockOrDrop ==
    /\ reader = "putting"
    /\ queue' = IF IsFull(queue) THEN queue ELSE Put(queue, produced)
    /\ reader' = "reading"
    /\ UNCHANGED <<main, produced, writer>>

\* put looks at the stop flag only when the queue is full.
PutBlock ==
    /\ reader = "putting" /\ ~IsFull(queue)
    /\ queue' = Put(queue, produced) /\ reader' = "reading"
    /\ UNCHANGED <<main, produced, writer>>

\* Mutant of PutIsStopped: put tries again without check_stop.
PutTriesAgain ==
    /\ reader = "putting" /\ IsFull(queue) /\ queue.stop
    /\ UNCHANGED <<main, reader, produced, queue, writer>>

PutIsStopped ==
    /\ reader = "putting" /\ IsFull(queue) /\ queue.stop
    /\ reader' = "failed"
    /\ UNCHANGED <<main, produced, queue, writer>>

ReadEnds ==
    /\ reader = "reading" /\ produced = Blocks
    /\ queue' = Finish(queue) /\ reader' = "done"
    /\ UNCHANGED <<main, produced, writer>>

\* The engine raises: a file, tar's exit status, a remote call.
ReadFails ==
    /\ "read" \in Faults /\ reader = "reading"
    /\ queue' = ForceStop(queue) /\ reader' = "failed"
    /\ UNCHANGED <<main, produced, writer>>

Reader == ReadBlock \/ PutBlock \/ PutIsStopped \/ ReadEnds \/ ReadFails

-----------------------------------------------------------------------------
(* The main thread.                                                        *)

\* The metadata of the previous backup is there: both threads start.
Start ==
    /\ main = "starting"
    /\ main' = "running" /\ reader' = "reading" /\ writer' = "opening"
    /\ UNCHANGED <<produced, queue>>

\* previous_backup, mkdtemp or get_file raises.
StartFails ==
    /\ "meta" \in Faults /\ main = "starting"
    /\ main' = "failed"
    /\ UNCHANGED <<reader, produced, queue, writer>>

\* Mutant of Join: the except queue of the write stream is not read.
JoinUnaware ==
    /\ main = "running" /\ reader \in Ended /\ writer \in Ended
    /\ main' = IF reader = "failed" THEN "failed" ELSE "metadata"
    /\ UNCHANGED <<reader, produced, queue, writer>>

Join ==
    /\ main = "running" /\ reader \in Ended /\ writer \in Ended
    /\ main' = IF reader = "failed" \/ writer = "failed" THEN "failed" ELSE "metadata"
    /\ UNCHANGED <<reader, produced, queue, writer>>

MetadataFails ==
    /\ "meta" \in Faults /\ main = "metadata"
    /\ main' = "failed"
    /\ UNCHANGED <<reader, produced, queue, writer>>

\* The agent is killed; its threads are daemons.
Killed ==
    /\ "kill" \in Faults /\ main \in {"starting", "running", "metadata"}
    /\ main' = "killed" /\ reader' = "killed" /\ writer' = "killed"
    /\ UNCHANGED <<produced, queue>>

\* Mutant of NextArtifact: the metadata is put before its directory is made.
NextArtifactSwapped(m) ==
    CASE "engine_metadata" \notin m -> "engine_metadata"
      [] "engine_metadata" \in m /\ "metadata" \notin m -> "metadata"
      [] "engine_metadata" \in m /\ "metadata" \in m -> "listing"

\* put_metadata on one storage, whose artifacts are m: the next one it writes.
NextArtifact(m) ==
    CASE "engine_metadata" \notin m -> "engine_metadata"
      [] "engine_metadata" \in m /\ "listing" \notin m -> "listing"
      [] "engine_metadata" \in m /\ "listing" \in m -> "metadata"
=============================================================================
