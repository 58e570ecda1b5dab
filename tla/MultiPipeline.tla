--------------------------- MODULE MultiPipeline ---------------------------
(***************************************************************************)
(* A backup to several storages at once ("parallel backup"): the           *)
(* write_stream thread runs MultipleStorage.write_backup, which starts one *)
(* thread per storage, each with a queue of its own, and copies every      *)
(* block of the input queue to all of them (StorageManager.transmit).      *)
(***************************************************************************)
EXTENDS BackupEngine

CONSTANTS
    Last,    \* the storages are 1..Last, in the order of the configuration
    AtEnd,   \* ftp, swift, s3: what they hold can be read once the upload is completed
    Silent   \* s3: what fails during an upload aborts it, and is not raised

ASSUME LastAssumption == Last \in Nat \ {0}

Storages == 1..Last

ASSUME KindAssumption == AtEnd \subseteq Storages /\ Silent \subseteq AtEnd

VARIABLES
    held,     \* held[0]: the block the transmitter sends; held[s]: s writes
    target,   \* the storage that gets it next
    out,      \* output_queues
    thread,   \* the thread of each storage
    taken,    \* the blocks that the thread of each storage has written somewhere
    written,  \* the data that a restore would read from each storage
    meta      \* which of Artifacts each storage holds

multiVars == <<held, target, out, thread, taken, written, meta>>
vars      == <<engineVars, multiVars>>

TypeOK ==
    /\ EngineTypeOK
    /\ held \in [0..Last -> 0..Blocks]
    /\ target \in Storages
    /\ out \in [Storages -> Queues(1..Blocks)]
    /\ \A s \in Storages : Len(out[s].data) <= QueueSize
    /\ thread \in [Storages -> Threads]
    /\ taken \in [Storages -> Seq(1..Blocks)] /\ written \in [Storages -> Seq(1..Blocks)]
    /\ meta \in [Storages -> SUBSET Artifacts]

Init ==
    /\ EngineInit
    /\ held = [s \in 0..Last |-> 0] /\ target = 1
    /\ out = [s \in Storages |-> NewQueue]
    /\ thread = [s \in Storages |-> "idle"]
    /\ taken = [s \in Storages |-> <<>>] /\ written = [s \in Storages |-> <<>>]
    /\ meta = [s \in Storages |-> {}]

-----------------------------------------------------------------------------
(* write_stream: MultipleStorage.write_backup and StorageManager.          *)

StartThreads ==
    /\ writer = "opening"
    /\ writer' = "polling"
    /\ thread' = [s \in Storages |-> "opening"]
    /\ UNCHANGED <<main, reader, produced, queue, held, target, out, taken, written, meta>>

GetMessages ==
    /\ writer \in Polls
    /\ writer' = PcAfter(writer, queue)
    /\ queue' = QueueAfter(writer, queue)
    /\ held' = IF Takes(writer, queue) THEN [held EXCEPT ![0] = Head(queue.data)] ELSE held
    /\ UNCHANGED <<main, reader, produced, target, out, thread, taken, written, meta>>

\* Mutant of Send: a storage that failed is passed over.
SendToHealthy ==
    /\ writer = "writing" /\ (~IsFull(out[target]) \/ out[target].stop)
    /\ out' = [out EXCEPT ![target] = IF IsFull(@) THEN @ ELSE Put(@, held[0])]
    /\ target' = IF target = Last THEN 1 ELSE target + 1
    /\ writer' = IF target = Last THEN "polling" ELSE writer
    /\ UNCHANGED <<main, reader, produced, queue, held, thread, taken, written, meta>>

\* send_message puts the block in each output queue in turn.
Send ==
    /\ writer = "writing" /\ ~IsFull(out[target])
    /\ out' = [out EXCEPT ![target] = Put(@, held[0])]
    /\ target' = IF target = Last THEN 1 ELSE target + 1
    /\ writer' = IF target = Last THEN "polling" ELSE writer
    /\ UNCHANGED <<main, reader, produced, queue, held, thread, taken, written, meta>>

\* one_fails_all_fail: a storage failed, and its queue is full.  Everything is
\* stopped, and the exception leaves write_backup before the threads are joined.
OneFailsAllFail ==
    /\ writer = "writing" /\ IsFull(out[target]) /\ out[target].stop
    /\ queue' = ForceStop(queue)
    /\ out' = [s \in Storages |-> ForceStop(out[s])]
    /\ writer' = "failed"
    /\ UNCHANGED <<main, reader, produced, held, target, thread, taken, written, meta>>

\* send_message("", True)
SendFinish ==
    /\ writer = "closing"
    /\ out' = [s \in Storages |-> Finish(out[s])]
    /\ writer' = "joining"
    /\ UNCHANGED <<main, reader, produced, queue, held, target, thread, taken, written, meta>>

\* handle_exception_queue tests the method except_queue.empty without calling
\* it: what the storages raised is never seen here.
JoinThreads ==
    /\ writer = "joining" /\ \A s \in Storages : thread[s] \in Ended
    /\ writer' = "done"
    /\ UNCHANGED <<main, reader, produced, queue, multiVars>>

Writer ==
    \/ StartThreads \/ GetMessages \/ Send \/ OneFailsAllFail
    \/ SendFinish \/ JoinThreads

-----------------------------------------------------------------------------
(* The thread of storage s: write_backup of a physical storage.            *)

ThreadOpen(s) ==
    /\ thread[s] = "opening"
    /\ thread' = [thread EXCEPT ![s] = "polling"]
    /\ UNCHANGED <<engineVars, held, target, out, taken, written, meta>>

ThreadGet(s) ==
    /\ thread[s] \in Polls
    /\ thread' = [thread EXCEPT ![s] = PcAfter(@, out[s])]
    /\ out' = [out EXCEPT ![s] = QueueAfter(thread[s], @)]
    /\ held' = IF Takes(thread[s], out[s]) THEN [held EXCEPT ![s] = Head(out[s].data)] ELSE held
    /\ UNCHANGED <<engineVars, target, taken, written, meta>>

\* A file takes the block at once; ftp writes a temporary file, swift a segment, s3 a part.
ThreadWrite(s) ==
    /\ thread[s] = "writing"
    /\ thread' = [thread EXCEPT ![s] = "polling"]
    /\ taken' = [taken EXCEPT ![s] = Append(@, held[s])]
    /\ written' = IF s \in AtEnd THEN written ELSE [written EXCEPT ![s] = taken'[s]]
    /\ UNCHANGED <<engineVars, held, target, out, meta>>

\* put_file of ftp, the manifest of swift, complete_multipart_upload of s3.
ThreadClose(s) ==
    /\ thread[s] = "closing"
    /\ thread' = [thread EXCEPT ![s] = "done"]
    /\ written' = [written EXCEPT ![s] = taken[s]]
    /\ UNCHANGED <<engineVars, held, target, out, taken, meta>>

\* The storage raises: only its own queue is stopped.
ThreadFails(s) ==
    /\ "write" \in Faults /\ thread[s] \in {"opening", "writing", "closing"}
    /\ thread' = [thread EXCEPT ![s] = "failed"]
    /\ out' = [out EXCEPT ![s] = ForceStop(@)]
    /\ UNCHANGED <<engineVars, held, target, taken, written, meta>>

\* s3 aborts the upload and returns: nobody empties its queue any more, or stops it.
ThreadGivesUp(s) ==
    /\ "write" \in Faults /\ s \in Silent /\ thread[s] \in {"writing", "closing"}
    /\ thread' = [thread EXCEPT ![s] = "failed"]
    /\ UNCHANGED <<engineVars, held, target, out, taken, written, meta>>

Thread(s) ==
    \/ ThreadOpen(s) \/ ThreadGet(s) \/ ThreadWrite(s) \/ ThreadClose(s)
    \/ ThreadFails(s) \/ ThreadGivesUp(s)

-----------------------------------------------------------------------------
\* put_metadata of one storage after the other.
PutMetadata(s) ==
    LET a == NextArtifact(meta[s])
    IN  /\ main = "metadata"
        /\ meta[s] # Artifacts /\ \A t \in 1..(s - 1) : meta[t] = Artifacts
        /\ meta' = [meta EXCEPT ![s] = @ \cup {a}]
        /\ main' = IF s = Last /\ a = "metadata" THEN "done" ELSE main
        /\ UNCHANGED <<reader, produced, queue, writer, held, target, out, thread, taken, written>>

Main ==
    \/ (Start \/ StartFails \/ Join \/ MetadataFails) /\ UNCHANGED multiVars
    \/ \E s \in Storages : PutMetadata(s)

\* The threads of the storages are daemons too.
KilledAll ==
    /\ Killed
    /\ thread' = [s \in Storages |-> "killed"]
    /\ UNCHANGED <<held, target, out, taken, written, meta>>

Next ==
    \/ Reader /\ UNCHANGED multiVars
    \/ Writer
    \/ \E s \in Storages : Thread(s)
    \/ Main
    \/ KilledAll

Spec == Init /\ [][Next]_vars

LiveSpec ==
    /\ Spec
    /\ WF_vars(Reader /\ UNCHANGED multiVars)
    /\ WF_vars(Writer)
    /\ \A s \in Storages : WF_vars(Thread(s))
    /\ WF_vars(Main)

-----------------------------------------------------------------------------
\* A storage whose thread ended normally holds all of the backup when its metadata is
\* written.  A failure that nobody notices came late, for an earlier one makes the transmitter
\* stop everything or wait: the thread had taken all but the blocks that its queue still
\* took after the failure and the one in its hands.  A file is short of these; of ftp, swift
\* and s3 the whole backup may be lost.  Nothing is ever out of order.
LossIsBounded ==
    /\ TypeOK
    /\ \A s \in Storages :
           /\ \A i \in DOMAIN written[s] : written[s][i] = i
           /\ meta[s] # {} =>
                  LET missing == Blocks - Len(written[s])
                      late    == Blocks - Len(taken[s]) <= QueueSize + 1
                  IN  \/ missing = 0
                      \/ thread[s] # "done" /\ late /\ (s \in AtEnd \/ missing <= QueueSize + 1)

\* The transmitter puts a block in the full queue of s3, whose thread has given up.
StuckOn(s) ==
    /\ writer = "writing" /\ target = s
    /\ s \in Silent /\ thread[s] = "failed" /\ IsFull(out[s]) /\ ~out[s].stop

\* backup() returns or raises, whichever storages fail, and it raises when the read or the
\* write stream has failed; unless s3 gave up before the end, when it waits for ever.
BackupEnds ==
    /\ <>(main \in {"done", "failed", "killed"}) \/ \E s \in Storages : <>[]StuckOn(s)
    /\ queue.stop ~>
           \/ main \in {"failed", "killed"} /\ \A s \in Storages : meta[s] = {}
           \/ \E s \in Storages : StuckOn(s)
=============================================================================
