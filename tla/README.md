# A verification of freezer

TLA+ modules, TLC configurations and TLAPS proofs for freezer, the backup
service of OpenStack: the scheduler (`freezer-scheduler`), and the agent
(`freezer-agent`) that makes and restores backups.  Paths below are relative to
the repository; every definition is translated from the code, and
`PROJECT.json` names the lines of each.

## 1. The system

A **scheduler** runs on each client machine.  It polls the freezer API for the
job documents of its client, turns them into apscheduler jobs, and runs each
execution on a thread that spawns **agents**, one process per action.  An agent
reads the data of one backup with an **engine** and streams it into one or
several **storages**, or streams it back.

| component | state it keeps | operations | what makes it hard |
|---|---|---|---|
| scheduler (`freezer/scheduler/{freezer_scheduler,scheduler_job,utils}.py`) | `jobs`, the document and the state of each Job, apscheduler's job store, `lock`; the API's copy of each document | poll, the events of a job, schedule/unschedule, execute, finish, push to the API | three kinds of threads, the API changed by users and by pushes, pages, crashes, agents that outlive the scheduler |
| daemon (`freezer/scheduler/daemon.py`, `freezer/lib/pep3143daemon`) | pid file and its lock, `exit_flag` | start, stop, restart, status, reload | two processes racing for one file |
| Windows service, scheduler options | - | glue, declarations | - |
| execution (`scheduler_job.py`, `Job.execute` and what it calls) | the result, tries, configuration files of agents; the session in the API | start session, actions with retries, mandatory actions, end session | lost calls, aborted agents, several hosts in one session |
| agent (`freezer/main.py`, `freezer/job.py`) | its options; mounted snapshots, locks of applications, a pool of threads | backup, restore, admin, info, exec | resources to release on every path, which failures reach the exit code |
| pipeline (`freezer/engine/engine.py`, `freezer/utils/streaming.py`) | two threads and a bounded queue with two flags; for a restore, two processes and a socket pair | backup, restore | unlocked flags, failures of either side, kills, who has which end of the pipe open |
| several storages (`freezer/storage/multiple.py`) | one queue and one thread per storage | write_backup, put_metadata, get_level_zero | one fails, all fail |
| chains (`freezer/storage/{base,physical}.py`) | what each storage lists: level 0 and increments | previous_backup, restore listing, remove_older_than, put_metadata | partial failures, order of listings, options about levels |
| storages (`local, ssh, ftp, s3, swift`) | files or objects | write, read, listdir, rmtree | retries, swallowed errors |
| engines (`tar, rsync, rsyncv2, nova, glance, osbrick`) | child processes, metadata of files | backup_data, restore_level | pipes, deltas |
| OpenStack backups (`freezer/openstack`) | temporary snapshots, volumes, images | backup, restore, rotation | clean-up after failures |
| snapshots and modes (`freezer/snapshot`, `freezer/mode`) | LVM or VSS snapshot, locked tables | create, mount, remove | clean-up after failures |
| utilities, configuration | - | compression, encryption, checksums, parsing | - |

They interact through the API (scheduler and users), processes and signals
(scheduler and agent), the queues (engine and storages), and the files of a
storage (one agent and the next).

What has to be true of each:

* scheduler: no event moves a job out of RunningState under its agent;
  apscheduler holds only jobs the scheduler knows; what is dropped is no longer
  scheduled, and its last execution disturbs nobody; jobs that are started run,
  recurring jobs recur, deleted ones disappear.  (That a job has one execution at
  a time is apscheduler's promise, `max_instances`, and taken as given);
* execution: the result that is reported is that of the actions; no file with
  credentials outlives its agent; the session learns the result;
* daemon: one daemon per pid file, and the file names it; stop stops it;
* pipeline: blocks arrive in order and whole, what is listed is complete, a
  failure of either thread ends the backup in a failure, and the backup ends;
* restore: levels are extracted in turn, a failure of any of the three processes
  ends the restore in a failure, and the restore ends;
* several storages: the same of each storage that did not fail;
* chains: what a restore reads is a full backup and the increments made one on
  top of the other, up to the date it asks for; limits of levels hold;
* storages: what is listed is whole, what was reported as made can be restored,
  what was reported as removed is gone, whatever drops, fails or is killed;
* agent, snapshots, modes: what is read is of one moment; the application and
  the host are left as they were found; exit code 0 is not a lie;
* OpenStack: temporary resources are removed, and not too early; rotation removes
  what is too much and nothing else.

## 2. The modules

| module | models | uses |
|---|---|---|
| `Scheduler` | poll, Job, triggers, executions, agents, users, crashes | |
| `MCScheduler` | values of its constants for TLC | `Scheduler` |
| `JobExecution` | one execution: session, actions, retries, agents, result | |
| `MCJobExecution` | values of its constants for TLC | `JobExecution` |
| `Daemon` | the command `freezer-scheduler` and its pid file | |
| `RichQueue` | the queue and the loop of a thread that reads it | |
| `BackupEngine` | main thread and read stream of `BackupEngine.backup` | `RichQueue` |
| `BackupPipeline` | a backup to one storage | `BackupEngine`, `Upload` |
| `MultiPipeline` | a backup to several storages | `BackupEngine` |
| `Upload` | what a backup promises of a storage (abstract) | |
| `PipelineProofs` | the theorems of the pipeline | `BackupPipeline` |
| `Restore` | `BackupEngine.restore`, its two processes per level, and tar | |
| `BackupChain` | the chains of backups, as a name's agents see them | |
| `MCBackupChain` | values of its constants for TLC | `BackupChain` |
| `PhysicalStorage` | the five kinds of storage below their interface | |
| `Snapshot` | backup of a file system: mode, snapshot, mount, engine, clean-up | |
| `Agent` | the agent from options to exit code | `Snapshot` |
| `Rotation` | native backups in Cinder and their rotation | |
| `Cloud` | fourteen procedures that back up and restore OpenStack resources | `Rotation` |
| `SchedulerProofs`, `JobExecutionProofs`, `DaemonProofs`, `MultiPipelineProofs`, `PhysicalStorageProofs` | the theorems of a module | the module |
| `ChainProofs` | the theorems about chains, how they are made and how they are restored | `BackupChain`, `Restore` |
| `AgentProofs` | the theorems of what one run of the agent does to its host, to the services and to native backups | `Agent`, `Cloud` (with `Rotation`) |

The scheduler is split by question: `Scheduler` has an execution as two lock
sections with agents between them, `JobExecution` has what happens between them,
`Daemon` the process they run in.  The same holds for an agent: `Agent` and
`Snapshot` see the engine as two reads, `BackupPipeline`, `MultiPipeline` and
`Restore` are the engine, `PhysicalStorage` the storage it writes to, and
`BackupChain` the meaning of what a storage lists.

### Scheduler

`api[j]` is the `job_schedule` section the API holds of job `j` (status, event,
and whether there is a `current_pid`).  `doc[j][n]`, `state[j][n]` and
`exec[j][n]` are the document, the state object and the execution of a Job
object; `table[j]` is `self.jobs`, `trigger[j]` apscheduler's job store.  A job
id can have two Job objects: one that `self.jobs` has dropped while its
execution is still pending, and its successor.  Two are enough because apscheduler
keeps the instances of an id to one.

The poll is a process with a program counter: it fetches one page after the
other (`PollFetch`), visits the listed jobs in their order (`PollCreate`, then
one action for each pair of event and state), then the jobs that were not listed
(`PollRemove`), decides which of them to drop (`PollLook`) and drops them
(`PollPop`).  What the code does while it holds `scheduler.lock` is one action;
fetching pages, the last two steps of a poll, pushing the pid and the life of an
agent interleave with everything else: an execution that waited for the lock may
begin between the look and the pop.  `ExecuteBegin` and `Finish` are the two lock
sections of `Job.execute`; between the second and the moment at which apscheduler
counts its instance down (`InstanceEnds`) the execution is `"finished"`, and a run
that is due then is skipped.  `Push` is
`update_job_metadata`: it replaces the document in the API, does nothing when
the document is gone, and may be lost (fault `"api"`).

Simplifications that do not change what the properties say: a job listed on two
pages is visited once, with the later document; the two pushes of
`ScheduledState.stop` are one; the looks at `can_be_removed` are one step, and the
pops another, since what one job does between them does not depend on the other
jobs; a trigger may fire at any time; an execution needs any number of agents up
to `MaxAgents`, none included (a job without actions, `disable_exec`): see
`JobExecution`.  The API's side of a request and of a listing is external: a
request replaces the event, `start` also clears the status, and a listing is
ordered by job id.

### JobExecution

`run[j]` is the local state of `Job.execute` on the host of job `j`: the place,
the tries of a call and of an action, the result so far, and the fate of each
action.  `Plans` are the lists of actions that a job may have, `Refusals` the sets
of jobs that contain an exec action where that is disabled.  Jobs are those of one
session, each on a host of its own.  The API's side of sessions is external: a job
that sends the current tag starts the next session, an older tag joins the current
one, and only the current tag may report an end (`current`, `started`, `ended`).
A call that is lost may or may not have been served.  An agent ends with success,
with -15 (an abort: the action is not tried again), or in another way, which is
tried again up to `max_retries`.  After an action that did not succeed only the
mandatory ones are run; the result is that of the last one that did not succeed,
so that a mandatory action that fails later replaces `aborted`.

`config[j]` counts configuration files that hold the credentials of an action.
The writing of the file, `Popen`, or `communicate` (with an output that is no
text) may raise: that leaves the file and leaves `execute` without `finish`;
`lost` records it, and the session never hears of that execution.  Uploading an
agent's metadata may fail and is only logged: it changes nothing here.  Retries of
calls are immediate here, and wait in the code.

### Daemon

A pid file is an inode, named by the process that created it: `path` is the
inode at `pid_fname`, `file[p]` the one `p` has open, `holder` the owner of its
`flock`, `content` the pid that is written in it.  Every system call of `start`,
`stop` and `restart` is an action of its own, and any number of commands
interleave.  `release` closes the file, which unlocks it, before it removes the
path.  A process can be killed or interrupted anywhere.  Not modelled: a pid
that is given to another program; `status` and `reload`, which only read the pid
and signal nothing that ends.

### Pipeline

`queue` is the `RichQueue`; blocks are numbered.  A thread that iterates
`get_messages` is in one of three places: it is about to look at `is_force_stop`
and `finish_transmission` (`"polling"`), to look at the queue (`"deciding"`), or
to take a block (`"getting"`): these reads are not atomic in the code.  Timeouts
of a second are abstracted: a thread at a full or an empty queue may look at the
flags at any time.  `QueuedThread.run` puts the exception and sets
`is_force_stop` in one step, since the exception is read after the join only.
`Faults` says which calls may raise; `"kill"` ends the process at any point.
`put_metadata` writes three artifacts; the `listing` is the directory
(`create_dirs`) by which `get_level_zero` and `get_increments` find a backup.
For swift the manifest upload is `Close`, and its `create_dirs` does nothing, so
that a backup is listed one artifact later than here.

In `MultiPipeline` the write stream is the transmitter; `out[s]` and `thread[s]`
are the queue and the thread of storage `s`.  When the transmitter raises,
`write_backup` leaves without joining the storage threads, which is modelled as
it is.  `taken[s]` are the blocks the thread has written somewhere, `written[s]`
what a restore would read: the same for a file, but on ftp, swift and s3 (`AtEnd`)
nothing before `put_file`, the manifest or the completed upload (`ThreadClose`),
each of which may raise unnoticed.  s3 (`Silent`) does not even raise: its
`write_backup` aborts the upload and returns, and nobody stops its queue
(`ThreadGivesUp`).

### Restore

`main`, `reader` and `engine` are the program counters of `restore`, of
`read_blocks` and of `restore_level`; `tar` is the process that `restore_level`
starts.  `multiprocessing.Pipe` is a socket pair, and what its ends do depends on
which processes have them open: `writers` and `readers` say which, a fork copies
its parent's, an exit closes the process's own.  `recv_bytes` sees the end of the
stream when the socket is empty and `writers` is empty; `send_bytes` breaks when
`readers` is; `write_pipe.poll()` is then true, and false before.  Blocks are
counted: `sent[l]` were put in the socket, `applied[l]` extracted by tar. tar's
input and output pipes are bounded, and its output is read by `communicate` only
(`TarIsHeard`), after the last block.  `FetchFromFtp` is the `backup_blocks` of
ftp, which waits for `''` at the end of a file that it reads as bytes, and so
never ends; `cut` remembers the levels whose reading ended early without a word.
The program tar is external: it reads all of its input, may complain at any time
(fault `"noise"`), may die or end with any code (`"tar"`).  The other faults: the
checks before the first level (`"prepare"`); a read of the storage that raises an
IOError (`"io"`), another exception (`"error"`), or one that cannot be pickled and
is lost in `except_queue.put` (`"lost"`); the start of `restore_level` (`"meta"`);
a signal to the agent (`"kill"`), which its children survive.

### Chains

A backup is its level, its time, the time of the full backup of its chain, and
`base`: the time of the backup whose engine metadata it was made from.
`LatestIncrements` is `get_latest_level_zero_increments`: of the latest full
backup up to a date, on the first storage that lists it, one backup per level.
The sorted list in `get_increments` is discarded, so which of several backups of
one level is kept is a choice, except on storages whose `listdir` sorts.
`Restarts` and `BuiltOn` are `previous_backup`: whether the next backup is a full
one, and the level it is otherwise made on top of.  Where that level is not listed
the code raises a KeyError, which ends the agent before it has done anything: a
stuttering step.  `PutMetadata` lists the backup on one storage after the other,
and `BackupFails` cuts that short.  The fault `"list"` is a `listdir` of swift or
s3 that swallows an error and returns nothing; a failure inside `get_increments`
ends the agent in the same way as the KeyError.  With `"put"` and `"list"` in one
configuration a chain can fork (`Forks`): the storages differ, and an agent that
does not see the first of them builds on a backup that has an increment there
already.  `RemoveOlderThan` lists, on the storages that answer, the chains that it
is to remove (`doomed`); `RemoveChain` takes them one by one, storage by storage,
and `RemovalFails` (fault `"remove"`) stops at one of them with any part of its
metadata gone.  `torn` remembers the chains of which something was taken and
something is still listed.  One agent works at a time, and no two backups start in
the same tick.  Agents and admin jobs that run at the same time, and are cut
short, are those of `PhysicalStorage`.

### PhysicalStorage

`store` is what one storage of the kind `conf.kind` holds of one name: blocks,
manifests, engine metadata, directories and metadata files, each an object that
exists or not.  A directory kind lists the directories of full backups and of
their increments; an object kind lists what has metadata.  Processes are agents
(`previous_backup`, `write_backup`, `put_metadata`, call by call) and admin jobs
(`remove_older_than`, metadata before data).  Connections of ssh and ftp drop, and
are made again in one place only, when ssh gets a file (`Reconnects`): in ftp the
except clause has a tuple within a tuple, which is a TypeError where it should
reconnect.  Calls of the others fail; processes are killed.  `AfterFault` says
what each call does then: listings of swift and s3 swallow the error and are
empty, `upload_chunk` tries `Tries` times, `upload_stream` of s3 aborts and
returns, after which the reader waits for a free place in the queue for ever
(`Hung`), unless aborting raises too (`UploadFails`).  Also in the model:
`put_file` of s3 takes the length of a file object and always raises; a listing of
swift shows at most `Page` objects; `listdir` of ftp raises a TypeError where a
name has no directory; a relative `--container` leads elsewhere after `chdir`.

### Snapshot and Agent

Data is a version number that the application increments while it may write.
`Snapshot` has one action per step of `BackupJob.backup` for file systems:
`Mode.prepare`, creation, guess and mount of the snapshot, release of the
application, checksum, two reads of the engine, and the finally clause.  `trouble`
remembers which steps failed, for the properties only.  `conf.text` is a choice:
FALSE is the program as it runs (`Popen` returns bytes and the code searches
them for str), TRUE the program as its unit tests mock it.  Both
are explored, since with FALSE the later steps of LVM and SQL Server are out of
reach.

`Agent` surrounds it with `freezer_main`, the checks of the options, the five
actions and the media types.  What is done for an instance, image or volume succeeds,
raises, fails without a word, or never returns; `asked`, `todo`, `busy` and `done`
follow the targets.  `Swallows` says where a failure may go unnoticed: the upload of a
volume's image to s3, a listing that fails in an admin job, an IOError of the storage
while an image is restored, and a command that is not the last of a pipe.  `Hang` is a
call of the main thread that never returns, `ThreadHangs` one of the pool's; a timeout
of the pool does not help, since the interpreter joins its threads at exit.  A project
is backed up by a pool whose results nobody reads.  `trickle` starts the whole agent
again, and runs the job itself when that fails.  The names of glance are image ids: an
admin job for them cleans the one backup name, whichever images it is asked for.

### Rotation and Cloud

`Cloud` interprets scripts: each procedure of `freezer/openstack` and of the
osbrick engine is the sequence of its calls that make, await, use or drop a
resource or that may raise, with what it undoes when they do.  The services settle
a resource as ready, in error, or lost, at any time.  An await is of one of five
kinds, after the loop of the code: some raise on an error, some only by timeout,
and some never end (`Stuck`).  A line that always raises is a `Break`: the backup
of an instance that is booted from a volume calls `volume_snapshots` and
`volumes`, the managers of cinderclient, on a proxy of openstacksdk, so that it
always raises there and leaves the snapshot and the image.  Restores with a key extract
to a directory and have scripts of their own (`ExtractFiles`).  `Rotation` has the
backups of one volume in Cinder as a sequence; an agent creates full and
incremental ones while an admin job walks through `del_off_limit_fullbackup`.
Which base Cinder chooses, and which deletions it refuses, is external; a backup
that is gone when its turn comes is ignored, as openstacksdk does.

## 3. The runs

Some properties are conjunctions of named parts, one idea each; the parts are
named in parentheses.

| run | question | properties that hold |
|---|---|---|
| `sched_safety` | two jobs (a date, an end date), one worker, executions of up to two agents, late runs, any two requests | `RunningIsReal`, `OnlyKnownJobsFire`, `ScheduledWillRun`, `EndedJobsStayEnded` |
| `sched_faults` | two jobs, one per page, one with a broken schedule; lost calls, past dates, failed spawns, a crash, two requests | `DropIsSafe` |
| `sched_live` | a recurring job listed behind one with a broken schedule, one per page, one worker, a crash, two requests to start, stop or delete them | `StartedJobsRun`, `RecurringJobsRecur`, `DeletedJobsAreForgotten`, `PollEnds` |
| `execution` | two hosts in one session, retries and mandatory actions, two faults | `ResultTellsActions`, `ConfigsAreGone`, `ResultsArrive` |
| `daemon` | three processes with any commands, a kill, interrupts | `OneDaemon`, `PidFileIsTrue` (`FileNamesDaemon`, `NothingLeft`), `StopStops` |
| `pipeline` | one storage, four blocks, all failures and a kill | `StoredInOrder`, `ListedIsComplete`, `BackupEnds`, and `UploadPromise` (the refinement) |
| `multi` | two storages, a file and s3, six blocks, all failures and a kill | `LossIsBounded` (order, healthy storages are complete, loss of the others), `BackupEnds` |
| `chain` | seven configurations of options and faults, two storages, six ticks, admin jobs that may fail | `RestoreIsChain`, `RestoreIsRecent`, `LevelsAreBounded` |
| `storages` | five kinds, relative paths, two processes of agents and admin jobs, two faults | `ChainsAreSound` (`ListedIsWhole`, `OneOfEachLevel`), `SuccessIsRestorable`, `RemovalIsComplete`, `JobsEndWell` (`FailureHasReason`, `JobEnds`) |
| `restore` | three levels of three blocks, any storage, all failures and a kill | `RestoreIsWhole` (`NothingIsLost`, `NoneIsLeft`), `LevelsInTurn`, `RestoreEnds` |
| `agent` | all options, two targets, a writing application, a kill | `ReadIsConsistent` (`ConsistentRead`, `FrozenIsRead`), `LeftAsFound` (`ServerComesBack`, `SnapshotGone`, `LockIsShort`), `ExitIsHonest`, `JobEnds` |
| `cloud` | fourteen procedures, and four native backups beside a rotation that keeps one | `NothingIsLeft` (`CleanOnSuccess`, `FailedIsRemoved`), `UsedIsReady` (`SourceIsReady`, `DroppedIsUnused`), `RotationWorks` (`RotationKeeps`, `RotationRemoves`, `RefusalHasReason`), `ProceduresEnd` |

Where the code does not keep a promise in every case, the property names the
cases, so that it says what is true and where it ends: `OneDaemon` excepts a
daemon whose file another took over while it was released, `RestoreIsChain` and
`RestoreIsRecent` a chain that may have forked or of which a removal has taken a part,
`SnapshotGone` and `ServerComesBack` the steps outside the try statement,
`ExitIsHonest` the places where a failure is swallowed, and those about an end
(`PollEnds`, `BackupEnds`, `RestoreEnds`, `JobEnds`, `ProceduresEnd`) the loops and
waits that need not end.  Section 4 lists these exceptions.

Bounds.  Two jobs are enough for one job to be in another's way (the worker, the
poll, the pages); one page per job makes every listing interleave with completions
and deletions.  Requests are bounded because each one multiplies the states: two
of them give every pair (abort then delete, stop then start).  In `sched_live`,
where liveness makes states dear, one job has a broken schedule and the other
recurs: the first is in the way of the second, and with a page for each
`PollSpins` and overlooked jobs happen.  One crash is enough for a restart with
leftovers in the API.  In `execution` one of the jobs has two actions, of which
the first may be tried again and the second may be mandatory, and runs twice; the
other (`Brief`) has one action, tried once, and runs once; `Tries = 2` stands for
5 in the code, and two faults are as many as the tries, so that a call can fail to
the end.  In `daemon` three processes are one that releases, one that takes the
file over, and one that starts after the removal: the smallest case of two
daemons; a second kill adds nothing that differs from a process that has ended.
`QueueSize = 2` is the value in the code, and with four or six blocks the queue
fills, drains, and fills again; in `multi` the blocks outnumber both queues and
the hands of both threads.  Six ticks give a chain of three levels, a second full
backup and an increment on it, with `--always-level 1` the limit twice, and a
removal at any time in between.  In `storages` three jobs are begun, the first
alone (`Alone`), so that two agents or an agent and an admin job meet at a full
backup that exists; three blocks outnumber the queue (`QueueSize = 1`) and the
hand; `Tries = 2` stands for 10, `Page = 5` for 10,000: the segments and the
manifest of two backups do not fit in one listing.  Two faults give a failure and
its repetition (the last try of `upload_chunk`), or a kill and a failure in the
job after it.  `--no-incremental` is mixed with increments on ftp only
(`FullToo`); there the first increment always fails, and full backups are needed
to go on.  In `restore` the blocks of a level outnumber the socket, tar's input
and the hands of both processes, tar can fill its output, and with three levels
there is one that is neither the first nor the last.  In `agent` two targets give
one that fails beside one that does not, and two writes separate the version that
was prepared, the one in the snapshot and the live one.  In `cloud` four backups
are two chains, one of which is beyond `Keep = 1`, the least value the code
admits.

`CHECK_DEADLOCK FALSE`: executions, backups, restores, daemons, procedures and the clock
end, and a scheduler whose `process_event` never returns (see below) stops.
`agent` checks deadlock.

Fairness.  The poll is an interval job with a worker of its own.  Triggers of a
running apscheduler fire.  The pool is a FIFO queue, so that a queued run is not
passed over for ever: strong fairness of taking it.  The lock is held for finite
sections.  `LiveSpec` adds that agents exit.  Users and crashes are never fair.
In the pipeline engine and storage answer, and a thread at a full or an empty
queue looks at the flags again and again: weak fairness of each thread.  In a
restore the processes run, the storage answers with data or an exception, and tar
reads and ends when it can.  In `execution` an execution that has begun goes on
and agents end (weak fairness of `Proceed`, per job); in `daemon` each process
runs (`Step(p)`); in `agent` the main thread and the threads of the pool go on
until they are in a call that never returns, and which call that is is a choice;
in `storages` each job that has begun; in `cloud` the agent, and each service
settles what it has accepted, one way or another.  Failures, complaints, kills,
signals and lost calls are never fair.

## 4. Where the code ends

Disagreements between the code and its documents, comments or evident intent:

* `Job.schedule` swallows the error of a broken schedule and then logs an unbound
  variable; the exception ends the poll, every time (`BadArgs`), so that the jobs
  listed after it are never started and none is ever removed (`OutOfReach`).
* `terminate_subprocess` uses `process.name` as a string; it is a method, the error
  is swallowed, and no signal is sent to a running agent.
* `except_queue.empty` in `multiple.py` is tested, not called; a storage that fails
  on the last blocks, or at the close, goes unnoticed.  `LossIsBounded` says what is
  lost then: of a file the blocks its queue still took and the one in the thread's
  hand; of ftp, swift and s3, which can be read only after the close, possibly
  everything.
* `write_backup` of s3 swallows its error, and the transmitter waits for a place in
  its queue for ever (`StuckOn`).
* With `--always-level` a restore of a date may end below the most recent backup
  before that date; `RestoreIsRecent` does not speak of this option.
* A removal lists each storage for itself.  Where one cannot be listed, or an rmtree
  raises, one storage has lost a chain that another still has; the next increment
  of it is listed on both, and on the first there is no chain below it (`torn`).
* `read_blocks` ends its loop when `write_pipe.poll()` is false, but once the other
  process has ended it is true for ever; when the last block was sent before,
  nothing breaks the loop, and `restore` never returns (`Spinning`).  The generator
  of ftp never ends (`Looping`), so that no restore from there does, and tar blocks
  when nobody reads its output (`Jammed`).  `RestoreEnds` has these three as its
  exceptions.
* `get_file` and `put_file` of ftp mean to connect again after a failure; the except
  clause that should do it raises a TypeError instead.
* A backup of an instance that is booted from a volume always raises an
  AttributeError, after the snapshot and the image have been made; both stay.
* `doc/source/contributor/sessions.rst` has a job join its session before it runs; after
  five failed calls of `start_session` it runs with the tag it had, and its result
  is refused if another job has started the next session.
* A comment in `job.py` has the snapshot removed whether an error occurred or
  not; when `release` raises in the same finally clause, it is not.
* `Popen` returns bytes, compared with str: each LVM snapshot fails
  after `lvcreate` and is left behind, and each SQL Server backup fails after `net
  stop` and leaves the server stopped.  The unit tests mock the bytes away.
* `put_file` of s3 takes the length of an open file and raises, so that no tar
  backup to s3 is ever finished; `listdir` of ftp raises where it means to return
  nothing, so that the first backup on ftp has to be made with `--no-incremental`.

Behaviours that no document speaks of, and that the properties admit by name: a
run that waits for a worker longer than `misfire_grace_time`, or whose date was
that long ago when it was added, is dropped, and a date trigger is used up by it;
a last run that is due while an earlier execution is still counted is skipped,
also between its last push and apscheduler's count, and the job stays "scheduled"
without a trigger (both in `ScheduledWillRun`); `--max-level` is tested before
`--always-level`, though the help says the latter has precedence; the age of
`--restart-always-level` is counted from the last backup of a chain;
`remove_older_than` removes a chain with increments newer than its date; a push
replaces the event a user has just set, and the answer of a poll that fetched the
document before a request to start replaces that request (`StartedJobsRun`); the
last push of a dropped object's execution may overwrite the document of the job
that was created in its place; a recurring job that paging overlooks while its
execution waits for the lock is unscheduled, and its execution then ends as the
last one, completed (`Unlisted` in `RecurringJobsRecur`); `ScheduledState.abort`
leaves the trigger in place, but marks the document as stopped; a start
acknowledges that document as it is, so that after a crash the job stays stopped
(`sched_live` has no request to abort); an exception that leaves `execute` loses a
stop, an abort or a removal that was requested meanwhile (`EndedStayEnded` is
proved without the fault `"spawn"` only); a chain forks when a storage missed a
backup and a later listing fails (`Forks`); `process_event` has no branch for
`remove` (`PollSpins`), which gets into a document when paging overlooks a running
job; an IOError of the storage during a restore is swallowed by `read_blocks`, and
an exception that cannot be pickled is lost, so that only tar can tell that its
input was cut (`cut`); an "already mounted" snapshot is taken for a success while
the live path is read; failures in the pool of a project do not reach the exit
code, and a restore by a name that matches nothing exits with 0; loops on images,
volumes and snapshots go on for ever when these are lost; the generator of a
backup is not resumed when its writer fails, so that its resources stay; a failed
listing makes an admin job succeed that has removed nothing, only the last command
of a pipe decides on the result of an exec job, and the other cases of `Swallows`;
a timeout does not end an agent whose threads hang; four restores leave a
directory, an image or a snapshot although they succeed (`Leaves`); incremental
backups that come after a full one on which they do not rest are not found as
dependents, and Cinder refuses.

## 5. What is proved

TLAPS checks every theorem for all values of the constants that the assumptions
allow: any sets of jobs, processes or targets, any sizes, numbers of blocks,
levels, storages, tries and faults, and behaviours of any length.  Two of the
assumptions were found by the proofs: at least one run per job (`Scheduler`) and
at least one target (`Agent`).  Each module of theorems has one inductive
invariant `IInv` (`CloudInv` and `RotationInv` in Cloud, `RestoreInv` in Restore),
which TLC had checked before it was proved (but for `CloudInv`, which speaks of
outlines that TLC cannot enumerate).  Below is what `IInv` has beyond the
properties themselves, and why it is needed.

**Scheduler.**

    IInv == TypeOK /\ RunningIsReal /\ OnlyKnownJobsFire
                   /\ RemovedIsStopped /\ DroppingIsIdle

Only the events of RunningState reach an executing job, and they leave state and
status alone.  `RemovedIsStopped`: a Job object whose status is `removed` is in
StopState, so that apscheduler does not hold it and no agent of it runs when poll
looks.  Only poll schedules a job, hence what it has decided to drop has no trigger
when it is popped either (`DroppingIsIdle`), whatever begins in between.  An object
that is about to be dropped, or was, has no event any more (`DroppedAreQuiet`): the
end of an execution that it still has, or that begins between the look and the pop,
does not unschedule its successor.  Hence, for every choice of faults and requests,
`RunningAlways`, `KnownAlways`, `DropsAreSafe`, and

* `ScheduledJobsWillRun`: a job in ScheduledState loses its last prospect of running
  (`Stranded`) in two ways only, a last run that is skipped and one that is late.
  An earlier version had hypotheses that excluded misfires and jobs that are created
  again; as a property of steps it needs neither;
* `RecurringAlwaysFire`: a recurring job in ScheduledState has its trigger;
* `EndedStayEnded`: an execution that ends with a stop, an abort or a removal
  requested leaves no trigger, unless an exception leaves `execute`.

**JobExecution.**  `ResultIsTrue` needs `Follows`: the result so far is success as
long as no action was unsuccessful, and then the fate of the last one that was;
each action below the current one was run if it is mandatory or none before it
was unsuccessful, and skipped otherwise; those above wait.  It is not kept for a
job whose tag the session refused, which runs nothing (`Refused`).
`ConfigsAreGoneAlways` counts: `config[j]` is the number of executions of `j` in
`lost` and of the agent that runs now.

**Daemon.**  Whoever is past `flock` holds the lock of the inode it has open
(`Locks`), so that two daemons have different inodes, and the path names one at
most.  That the other has lost its path is due to the `remove` of a process that
has closed the same inode before, or to one that came after such a removal
(`OnPathOrLost`, which has to speak of the processes that opened a file and have
not locked it yet).  From it follow `OneDaemonAlways` and `PidFileAlwaysTrue`.

**Pipeline.**  The blocks written, the block in the writer's hand, the queue and
the block in the reader's hand are consecutive; `finish` is set only behind the
last block; a writer is `done` only with an empty queue; and the main thread
reaches the metadata only after both threads have ended without failure.  It
gives `TypeCorrect`, `InOrder`, `Complete`, and `Refinement`: every step is a step
of `Upload` or leaves its variables alone.

**MultiPipeline.**  The transmitter has sent every block up to the one it holds to
each storage, and that one to the storages before the target (`Sent`).  What was
sent to a storage is taken, in the hand of its thread, or in its queue; of a
thread that failed, the block in its hand is lost and those in its queue stay
there (`Way`).  What of it can be read is all that was taken, or, where that is
decided at the end, nothing until then (`Kept`).  The queue is bounded, hence
`LossIsBoundedAlways`: a thread that failed unnoticed had taken all but
`QueueSize + 1` blocks, which are all that a file is short of.

**BackupChain.**  The argument is about the chains of which no removal has taken
anything (`Whole`).  The first storage gets each backup first, so that it lists what
any storage lists of them (`Mirrors`).  What it lists is `Sound`: below each backup
all lower levels are there and older, the next lower one is its base, a level is
there once unless it is `--always-level`, and no chain goes on after the next full
backup.  The backup being made `Fits` on top of that until it is listed, unless its
chain is torn.  What is listed of a torn chain is older than any whole one that
began later (`Older`), since a backup is made on top of the latest chain.  A
listing includes the first storage, or is of storages that all list the same,
unless a chain can fork: then only `Dated` is left, the dates of each backup and
the bounds of its level.  That only a removal that failed leaves a torn chain is
`Coming`: without a fault the removal has yet to come to all that is left of it.
Hence `RestoreIsAlwaysChain`, `RestoreIsAlwaysRecent`,
and, with forks too, `LevelsAreAlwaysBounded`.  The proof showed that
`RestoreIsRecent` holds under failures of `put_metadata` too, which an earlier
version of the property excluded.  Maxima and minima of sets of numbers come from
`MaxFacts` and `MinFacts`, by the well-foundedness of the naturals.

**Restore.** What was put in the socket and is not extracted is in the socket, in
the hand of `engine_stream`, or in tar's input, unless tar has died (`Conserved`).
A tar that ends well ended after `communicate`, which was called when the socket
was empty and nobody could write to it any more (`Drained`), so that nothing is on
its way then.  A `process_stream` that has ended early did so without a word
(`cut`), left its exception, or met an `engine_stream` that had failed
(`Reasons`).  Hence `RestoreIsWholeAlways` and the action property
`LevelsInTurnAlways`.

**PhysicalStorage.**  Here agents and admin jobs work on one storage at the same time,
each of them call by call.  `IInv` has four parts.

* `Basics`: each job has a number of its own, two that are at work at the same time
  are in `together`, and a job keeps what it has chosen.
* `Readable`: an agent has written whatever comes before the call that it makes next
  (`Written`), and an admin job has found all metadata of a chain before it touches
  the data, but for the metadata of agents that ran at the same time (`Unseen`).  So
  the entries of a storage are whole (`EntriesWhole`).
* An agent adds its level on top of all the levels it has seen.  Whatever is at that
  level or above it was made while it ran (`Above`), hence two backups of one level
  are of agents that ran at the same time (`EntriesApart`).  What it builds on has every
  level below (`Grounded`, `EntriesGrounded`), and stays as long as nobody removes the
  chain (`SucceededKept`).
* `Clearing`: as long as an admin job is alone, what is left of the chain that it
  removes is among what it has found; when it is done, nothing is left and no agent
  that runs has chosen that chain.

Hence `WhatIsListed`, `WhatSucceeded` and `WhatWasRemoved`, for each kind of
storage, any number of processes and any faults.  The first two, which need
`Readable`, are about behaviours in which no chain on swift ever has more metadata
than one listing shows (`AllIsListed`; 10,000 objects, one for each backup of the
chain): `rmtree` asks for no second page, so that it removes the first page of
the metadata and then that of the data.  The names of both are in the same order
and a backup has more data objects than metadata, which ought to keep the data of
what stays listed; but removals that disturb agents leave metadata without data,
and the proof does not count these.  TLC finds no violation with a `Page` of 1 or
2 and five jobs of two processes either.  The other kinds need no hypothesis, and
neither does `WhatWasRemoved`, which excepts the removals of which a listing was
short.  The proof is in layers, as each of the twenty-six steps can disturb each
part: what an action does to each field, what any step adds to the storage and
takes from it (`Changes`), and one lemma for each part of the invariant.

**Agent.**  From `prepare` to `release` the application is down, so that what is on
the disk is what `prepare` left there (`Flushed`); the snapshot is taken in between,
and the path leads to it unless something else was mounted in its place
(`Frozen`); `release` is called as long as the application is down (`Servers`),
and a snapshot that is not removed has a failure to account for it.  A target is done
once it is no longer among those to do, unless its media type is one that `Swallows`.
Hence `ReadIsAlwaysConsistent`, `AlwaysLeftAsFound`, `ExitIsAlwaysHonest`.

**Cloud.** Here nothing is a parameter but the services: the theorems are about
fourteen scripts of up to thirty lines.  Each script has an outline: for each of
its lines, the resources that may be there when it is reached, and those that are
ready.  `Leads` says which line leads from what to what, and `InTurn` that the
outline of a script is put together from those of its parts, which are the
functions of the code (`do_copy_volume`, `attach`, ...).  The outline of a script
is a fact about its text, checked once; that the state keeps to it (`Follows`) is
an invariant with one step per action, and does not look at the scripts any more.
At the end of each outline only the result is there, and what `Leaves` names for
that script: hence `NothingIsAlwaysLeft`.  What a line needs is ready in its
outline, and nothing depends on what it removes: hence `UsedIsAlwaysReady`.

**Rotation.**  `RotationAlwaysWorks` is an action property, proved from
`RotationInv`, which TLC had checked with up to six backups.  Of the backups: what a
listed one rests on is available, and so is the root of its chain (`RootIsThere`),
since cinder deletes nothing on which another rests; whatever was removed has
`Keep` newer full backups (`NewerAreKept`); and where a full backup was removed, no
listed one that is newer rests on an older one (`RemovalsAreLast`).  Of the job: its
goals have enough newer full backups, and each full backup that is older than one
of them and still needed is itself a goal (`GoalsAreOld`); they are removed from the
oldest on (`GoalsInOrder`), which keeps the newer ones of the others; and what
rests on a backup in the queue comes before it there, or after another full backup
(`QueueInOrder`).  The backups that are made meanwhile disturb none of this, as each
rests on the newest available one, which is newer than any goal (`Grows`,
`AdminUndisturbed`).

Only model-checked: liveness (`StartedJobsRun`, `RecurringJobsRecur`,
`DeletedJobsAreForgotten`, `PollEnds`, `ResultsArrive`, `StopStops`, `BackupEnds`,
`RestoreEnds`, `JobEnds`, `ProceduresEnd`), which is out of the prover's reach,
with the termination half of the refinement; and `FailureHasReason` of
`PhysicalStorage`, the safety part of `JobsEndWell`.

## 6. What is not modelled

Payloads, formatting, logging, argument tables and the parsing of
configurations; compression, encryption and checksums, of which only the outcome
is used.  Of the scheduler: client registration, filters by capability, the mode
without an API, the Windows service.  Of the engines: `backup_data` of tar, and
the delta algorithms of rsync and rsyncv2, which are functions over the bytes of
a file and the trees of a directory.  Of OpenStack: the clients themselves, which
are proxies.  Two hazards have no property: the push that overwrites a request
(`freezer_scheduler.py:167`), where nothing says which of the two ought to win, and
the signal of an abort (`utils.py:126`), which is never sent, so that there is no
behaviour to state.  See the components in `PROJECT.json`.

## 7. Plan

1. Proofs: `FailureHasReason` of `PhysicalStorage`.
2. The other half of the tar engine: `backup_data` and the pipes of its process
   (`tar.py` 60-91), under `BackupEngine`.
3. `Delta`: the rolling checksum and the block stream of the rsync engines, as
   functions over bounded inputs against a reference definition.
4. An abstract specification of the life of one job, implemented by `Scheduler`.
