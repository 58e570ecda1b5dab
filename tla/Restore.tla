------------------------------- MODULE Restore -------------------------------
(***************************************************************************)
(* freezer.engine.BackupEngine.restore of a chain of tar backups.  For     *)
(* each level the agent starts two processes joined by a pipe:             *)
(* process_stream (read_blocks) reads the backup from the storage and      *)
(* sends its blocks, engine_stream (restore_level) receives them and feeds *)
(* tar, a process of its own.                                              *)
(*                                                                         *)
(* multiprocessing.Pipe is a socket pair.  What its two ends do depends on *)
(* which processes still have them open, so the model keeps who does: a    *)
(* fork inherits what its parent has open, an exit closes everything.      *)
(***************************************************************************)
EXTENDS Naturals, Sequences

CONSTANTS
    MaxLevel,    \* the level of the last backup of the chain
    Blocks,      \* bound: blocks of each backup
    SocketSize,  \* blocks that fit in the socket
    OutputSize,  \* bound: messages of tar that fit in its output pipes
    Faults       \* subset of {"prepare", "io", "error", "lost", "ftp", "meta", "tar", "noise", "kill"};
                 \* "ftp": the backups may be on a storage of that kind

ASSUME RestoreConstants ==
    /\ MaxLevel \in Nat /\ Blocks \in Nat
    /\ SocketSize \in Nat \ {0} /\ OutputSize \in Nat

Levels    == 0..MaxLevel
Processes == {"main", "reader", "engine"}

VARIABLES
    main,      \* the agent, in restore()
    level,     \* the level being restored
    writers,   \* the processes that have write_pipe open
    readers,   \* the processes that have read_pipe open
    socket,    \* number of blocks in the socket
    reader,    \* process_stream
    sent,      \* sent[l]: blocks of level l put in the socket
    cut,       \* history: the levels whose reading ended early without a word
    engine,    \* engine_stream; "one": it exited with code 1
    stdin,     \* number of blocks in tar's standard input
    tar,       \* the tar process; "zero" and "other": it exited, with that code
    output,    \* messages of tar that nobody has read
    applied,   \* applied[l]: blocks of level l that tar has extracted
    excepts    \* which except queues hold an exception

mainVars   == <<main, level>>
pipeVars   == <<writers, readers, socket>>
readerVars == <<reader, sent, cut>>
tarVars    == <<stdin, tar, output, applied>>
restoreVars == <<mainVars, pipeVars, readerVars, engine, tarVars, excepts>>

Mains   == {"preparing", "piping", "closing", "forking", "leaving", "joining",
            "done", "failed", "killed"}
Readers == {"none", "closing", "fetching", "sending", "looping", "polling", "exited"}
Engines == {"none", "opening", "receiving", "feeding", "draining", "zero", "one"}
Tars    == {"none", "running", "blocked", "zero", "other"}

MainEnded   == main \in {"done", "failed", "killed"}
EngineEnded == engine \in {"zero", "one"}
TarEnded    == tar \in {"zero", "other"}

RestoreTypeOK ==
    /\ main \in Mains /\ level \in Levels
    /\ writers \subseteq Processes /\ readers \subseteq Processes
    /\ socket \in 0..SocketSize
    /\ reader \in Readers /\ sent \in [Levels -> 0..Blocks] /\ cut \subseteq Levels
    /\ engine \in Engines
    /\ stdin \in 0..1 /\ tar \in Tars /\ output \in 0..OutputSize
    /\ applied \in [Levels -> 0..Blocks]
    /\ excepts \subseteq {"read", "write"}

RestoreInit ==
    /\ main = "preparing" /\ level = 0
    /\ writers = {} /\ readers = {} /\ socket = 0
    /\ reader = "none" /\ sent = [l \in Levels |-> 0] /\ cut = {}
    /\ engine = "none"
    /\ stdin = 0 /\ tar = "none" /\ output = 0 /\ applied = [l \in Levels |-> 0]
    /\ excepts = {}

-----------------------------------------------------------------------------
(* The agent.                                                              *)

\* The directory is there and may be written to, and the chain was found.
Prepare ==
    /\ main = "preparing"
    /\ main' = "piping"
    /\ UNCHANGED <<level, pipeVars, readerVars, engine, tarVars, excepts>>

\* The directory, the listing, an empty listing; or backups[level] is missing.
PrepareFails ==
    /\ "prepare" \in Faults /\ main \in {"preparing", "piping"}
    /\ main' = "failed"
    /\ UNCHANGED <<level, pipeVars, readerVars, engine, tarVars, excepts>>

\* Pipe(), and the fork of process_stream, which inherits both ends.
ForkReader ==
    /\ main = "piping"
    /\ main' = "closing"
    /\ writers' = {"main", "reader"} /\ readers' = {"main", "reader"} /\ socket' = 0
    /\ reader' = "closing"
    /\ UNCHANGED <<level, sent, cut, engine, tarVars, excepts>>

\* Mutant of CloseWritePipe: it is left to the close() after both forks.
CloseWritePipeLater ==
    /\ main = "closing"
    /\ main' = "forking"
    /\ UNCHANGED <<level, pipeVars, readerVars, engine, tarVars, excepts>>

\* write_pipe.close(), so that engine_stream does not inherit that end.
CloseWritePipe ==
    /\ main = "closing"
    /\ main' = "forking" /\ writers' = writers \ {"main"}
    /\ UNCHANGED <<level, readers, socket, readerVars, engine, tarVars, excepts>>

ForkEngine ==
    /\ main = "forking"
    /\ main' = "leaving" /\ engine' = "opening"
    /\ readers' = readers \cup {"engine"}
    /\ writers' = writers \cup (IF "main" \in writers THEN {"engine"} ELSE {})
    /\ stdin' = 0 /\ tar' = "none" /\ output' = 0
    /\ UNCHANGED <<level, socket, readerVars, applied, excepts>>

\* read_pipe.close() and write_pipe.close().
LeavePipe ==
    /\ main = "leaving"
    /\ main' = "joining"
    /\ writers' = writers \ {"main"} /\ readers' = readers \ {"main"}
    /\ UNCHANGED <<level, socket, readerVars, engine, tarVars, excepts>>

Joined == reader = "exited" /\ EngineEnded

\* Mutant of Trouble: the exit code of engine_stream is not looked at, nor
\* what it put in its queue.
TroubleReading == "read" \in excepts

Trouble == engine = "one" \/ excepts # {}

\* Both processes are joined; the next level, the end, or EngineException.
NextLevel ==
    /\ main = "joining" /\ Joined
    /\ IF Trouble THEN main' = "failed" /\ UNCHANGED level
       ELSE IF level = MaxLevel THEN main' = "done" /\ UNCHANGED level
       ELSE main' = "piping" /\ level' = level + 1
    /\ UNCHANGED <<pipeVars, readerVars, engine, tarVars, excepts>>

\* A signal ends the agent; the two processes live on without it.
Killed ==
    /\ "kill" \in Faults /\ ~MainEnded
    /\ main' = "killed"
    /\ writers' = writers \ {"main"} /\ readers' = readers \ {"main"}
    /\ UNCHANGED <<level, socket, readerVars, engine, tarVars, excepts>>

Agent == Prepare \/ ForkReader \/ CloseWritePipe \/ ForkEngine \/ LeavePipe \/ NextLevel

-----------------------------------------------------------------------------
(* process_stream: read_blocks.                                            *)

ReaderExits == reader' = "exited" /\ writers' = writers \ {"reader"} /\ readers' = readers \ {"reader"}

CloseReadPipe ==
    /\ reader = "closing"
    /\ reader' = "fetching" /\ readers' = readers \ {"reader"}
    /\ UNCHANGED <<mainVars, writers, socket, sent, cut, engine, tarVars, excepts>>

Fetch ==
    /\ reader = "fetching"
    /\ reader' = IF sent[level] = Blocks THEN "polling" ELSE "sending"
    /\ UNCHANGED <<mainVars, pipeVars, sent, cut, engine, tarVars, excepts>>

\* The end of a file that ftp has fetched is bytes, and it waits for a string:
\* its generator yields nothing more and never ends.
FetchFromFtp ==
    /\ "ftp" \in Faults /\ reader = "fetching" /\ sent[level] = Blocks
    /\ reader' = "looping"
    /\ UNCHANGED <<mainVars, pipeVars, sent, cut, engine, tarVars, excepts>>

\* An IOError of the storage ends read_blocks without a word.
FetchIOError ==
    /\ "io" \in Faults /\ reader = "fetching"
    /\ ReaderExits /\ cut' = cut \cup {level}
    /\ UNCHANGED <<mainVars, socket, sent, engine, tarVars, excepts>>

\* Any other exception is put in read_except_queue, if it can be pickled.
FetchFails ==
    /\ reader = "fetching"
    /\ \/ "error" \in Faults /\ excepts' = excepts \cup {"read"} /\ UNCHANGED cut
       \/ "lost" \in Faults /\ cut' = cut \cup {level} /\ UNCHANGED excepts
    /\ ReaderExits
    /\ UNCHANGED <<mainVars, socket, sent, engine, tarVars>>

Send ==
    /\ reader = "sending" /\ readers # {} /\ socket < SocketSize
    /\ socket' = socket + 1
    /\ sent' = [sent EXCEPT ![level] = @ + 1]
    /\ reader' = "fetching"
    /\ UNCHANGED <<mainVars, writers, readers, cut, engine, tarVars, excepts>>

\* BrokenPipeError is an IOError.
SendBrokenPipe ==
    /\ reader = "sending" /\ readers = {}
    /\ ReaderExits
    /\ UNCHANGED <<mainVars, socket, sent, cut, engine, tarVars, excepts>>

\* write_pipe.poll() is true when the other end is closed: only while it is
\* open does the loop end.
PollAndClose ==
    /\ reader = "polling" /\ readers # {}
    /\ ReaderExits
    /\ UNCHANGED <<mainVars, socket, sent, cut, engine, tarVars, excepts>>

ReadBlocks ==
    \/ CloseReadPipe \/ Fetch \/ FetchFromFtp \/ FetchIOError \/ FetchFails
    \/ Send \/ SendBrokenPipe \/ PollAndClose

-----------------------------------------------------------------------------
(* engine_stream: restore_level, and the tar process it starts.            *)

EngineExits(code) ==
    /\ engine' = code
    /\ writers' = writers \ {"engine"} /\ readers' = readers \ {"engine"}

Open ==
    /\ engine = "opening"
    /\ engine' = "receiving" /\ tar' = "running"
    /\ UNCHANGED <<mainVars, pipeVars, readerVars, stdin, output, applied, excepts>>

\* The metadata, a missing key, the compression program, Popen.
OpenFails ==
    /\ "meta" \in Faults /\ engine = "opening"
    /\ EngineExits("one") /\ excepts' = excepts \cup {"write"}
    /\ UNCHANGED <<mainVars, socket, readerVars, tarVars>>

Receive ==
    /\ engine = "receiving"
    /\ \/ socket > 0 /\ socket' = socket - 1 /\ engine' = "feeding"
       \/ socket = 0 /\ writers = {} /\ engine' = "draining" /\ UNCHANGED socket
    /\ UNCHANGED <<mainVars, writers, readers, readerVars, tarVars, excepts>>

\* stdin.write: it blocks while tar does not read, and raises when tar is gone.
Feed ==
    /\ engine = "feeding"
    /\ \/ ~TarEnded /\ stdin = 0 /\ stdin' = 1 /\ engine' = "receiving"
       \/ TarEnded /\ engine' = "draining" /\ UNCHANGED stdin
    /\ UNCHANGED <<mainVars, pipeVars, readerVars, tar, output, applied, excepts>>

\* Mutant of ExitCode: stderr is logged, the return code is not looked at.
ExitCodeIgnored == "zero"

ExitCode == IF tar = "zero" THEN "zero" ELSE "one"

\* communicate has returned; check_process_output.
CheckOutput ==
    /\ engine = "draining" /\ TarEnded
    /\ EngineExits(ExitCode)
    /\ excepts' = IF ExitCode = "one" THEN excepts \cup {"write"} ELSE excepts
    /\ UNCHANGED <<mainVars, socket, readerVars, tarVars>>

RestoreLevel == Open \/ OpenFails \/ Receive \/ Feed \/ CheckOutput

TarExtracts ==
    /\ tar = "running" /\ stdin = 1
    /\ stdin' = 0 /\ applied' = [applied EXCEPT ![level] = @ + 1]
    /\ UNCHANGED <<mainVars, pipeVars, readerVars, engine, tar, output, excepts>>

\* Errors, or the listing of a dry run: nobody reads them before communicate.
TarComplains ==
    /\ "noise" \in Faults /\ tar = "running" /\ engine # "draining"
    /\ \/ output < OutputSize /\ output' = output + 1 /\ UNCHANGED tar
       \/ output = OutputSize /\ tar' = "blocked" /\ UNCHANGED output
    /\ UNCHANGED <<mainVars, pipeVars, readerVars, engine, stdin, applied, excepts>>

TarIsHeard ==
    /\ tar = "blocked" /\ engine = "draining"
    /\ tar' = "running" /\ output' = 0
    /\ UNCHANGED <<mainVars, pipeVars, readerVars, engine, stdin, applied, excepts>>

\* communicate closes tar's standard input.  A tar that complained, or met a
\* truncated archive, may end with any code.
TarEnds ==
    /\ tar = "running" /\ stdin = 0 /\ engine = "draining"
    /\ \/ tar' = "zero"
       \/ "tar" \in Faults /\ tar' = "other"
    /\ UNCHANGED <<mainVars, pipeVars, readerVars, engine, stdin, output, applied, excepts>>

TarDies ==
    /\ "tar" \in Faults /\ tar = "running"
    /\ tar' = "other"
    /\ UNCHANGED <<mainVars, pipeVars, readerVars, engine, stdin, output, applied, excepts>>

Tar == TarExtracts \/ TarIsHeard \/ TarEnds

RestoreNext ==
    \/ Agent \/ PrepareFails \/ Killed
    \/ ReadBlocks \/ RestoreLevel
    \/ Tar \/ TarComplains \/ TarDies

RestoreSpec == RestoreInit /\ [][RestoreNext]_restoreVars

(* The processes run; every read of the storage gives data, its end or an  *)
(* exception.                                                              *)
LiveSpec ==
    /\ RestoreSpec
    /\ WF_restoreVars(Agent) /\ WF_restoreVars(ReadBlocks) /\ WF_restoreVars(RestoreLevel) /\ WF_restoreVars(Tar)

-----------------------------------------------------------------------------
\* No two levels are extracted at once, and a level is begun only when tar has
\* ended well with the one below: a fault never leaves a gap in the chain.
LevelsInTurn ==
    [][level' # level => Joined /\ tar = "zero" /\ applied[level] = sent[level]]_restoreVars

\* restore() returns normally only when tar has extracted every block that was
\* sent, and the whole backup was sent unless its reading was cut by an IOError
\* of the storage or by an exception that cannot be pickled.  The other error
\* that read_blocks swallows, a broken pipe, is always reported by the other
\* process.
NothingIsLost ==
    main = "done" => \A l \in Levels : applied[l] = sent[l] /\ (sent[l] = Blocks \/ l \in cut)

\* restore() leaves no process behind that still writes to the directory.
NoneIsLeft ==
    main \in {"done", "failed"} /\ engine # "none" =>
        reader = "exited" /\ EngineEnded /\ tar \notin {"running", "blocked"}

\* When restore() returns, what it began has been done to its end.
RestoreIsWhole == RestoreTypeOK /\ NothingIsLost /\ NoneIsLeft

(* The three ways in which the processes go on for ever.                   *)
Looping  == reader = "looping"
Spinning == reader = "polling" /\ readers = {}
Jammed   == tar = "blocked" /\ engine = "feeding" /\ stdin = 1

\* restore() ends, unless the backup is on an ftp storage, engine_stream ended
\* while process_stream was at the end of the backup, or tar had more to say
\* than its pipes hold.
RestoreEnds == <>MainEnded \/ <>[]Looping \/ <>[]Spinning \/ <>[]Jammed
==============================================================================
