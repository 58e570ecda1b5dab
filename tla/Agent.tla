------------------------------- MODULE Agent -------------------------------
(***************************************************************************)
(* The agent (freezer.main) and its jobs (freezer.job): from the options   *)
(* to the exit code.  A backup of a file system is that of Snapshot; what  *)
(* the engines and the services do for one instance, image or volume       *)
(* succeeds, raises, fails without a word, or never returns.  The process  *)
(* may be killed at any time.                                              *)
(***************************************************************************)
EXTENDS Snapshot

CONSTANTS
    Targets,     \* instances, images or volumes there may be
    MaxKills     \* bound: 0 or 1

ASSUME AgentConstants == Targets # {} /\ MaxKills \in 0..1

VARIABLES
    asked,       \* the targets of the job
    todo,        \* those the main thread has not begun
    busy,        \* those that a thread of the pool works on
    hung,        \* those whose thread waits for what never comes
    done         \* those that are backed up, restored or cleaned

work == <<asked, todo, busy, hung, done>>
allVars == <<conf, pc, error, trouble, live, app, released, flushed, frozen, mount,
             path, sum, read, tries, asked, todo, busy, hung, done>>

unchangedFs == <<conf, live, app, released, flushed, frozen, mount, path, sum, read, tries>>

Actions == {"backup", "restore", "admin", "info", "exec"}
Medias  == {"fs", "nova", "glance", "cinder", "cindernative", "cinderbrick"}
Selects == {"id", "name", "project"}

\* A file system is backed up under one name; a job of info or exec has no target.
\* Trickle is a program of Linux.
AgentOptions ==
    {c \in [action : Actions, media : Medias, select : Selects, trickle : BOOLEAN, mode : Modes,
            snapshot : BOOLEAN, windows : BOOLEAN, text : BOOLEAN, checksum : BOOLEAN] :
        /\ FsOptions(c)
        /\ c.action \in {"info", "exec"} => c.media = "fs"
        /\ c.media \in {"fs", "cindernative", "cinderbrick"} => c.select = "id"
        /\ c.media = "cinder" => c.select # "project"
        /\ c.trickle => ~c.windows
        /\ ~(c.action = "backup" /\ c.media = "fs") =>
               c.mode = "fs" /\ ~c.snapshot /\ ~c.windows /\ ~c.text
        /\ c.checksum => c.media = "fs" /\ c.action \in {"backup", "restore"}}

\* Where a failure may go unnoticed: s3 ends the upload of a volume's image, a storage that
\* cannot be listed has nothing to remove, a reader that meets an IOError ends the image that
\* is restored, and of the commands of a pipe only the last is asked how it ended.
Swallows ==
    \/ conf.action = "backup" /\ conf.media = "cinder"
    \/ conf.action = "admin" /\ conf.media # "cindernative"
    \/ conf.action = "restore" /\ conf.media \in {"nova", "glance"}
    \/ conf.action = "exec"

Exited == {"exit0", "exit1", "killed"}
Places == {"start", "trickle", "construct", "execute", "list", "pool", "each", "verify"}

TypeOK ==
    /\ FsTypeOK /\ conf \in AgentOptions
    /\ pc \in Places \cup Opened \cup Reading \cup Cleaning \cup Ends \cup Exited \cup {"hung"}
    /\ asked \subseteq Targets /\ todo \cup busy \cup done \subseteq asked /\ hung \subseteq busy
    /\ busy # {} => conf.action = "backup" /\ conf.select = "project"

Init ==
    /\ conf \in AgentOptions
    /\ pc = "start" /\ FsInit
    /\ asked = {} /\ todo = {} /\ busy = {} /\ hung = {} /\ done = {}

One == {CHOOSE t \in Targets : TRUE}

-----------------------------------------------------------------------------
(* main, freezer_main and run_job.                                         *)

\* Credentials, the engine.
Setup ==
    /\ pc = "start"
    /\ Goto(IF conf.trickle THEN "trickle" ELSE "construct") \/ Raise("setup")
    /\ UNCHANGED <<unchangedFs, work>>

\* No such storage, or its constructor cannot reach it.
StorageFails ==
    /\ pc = "start"
    /\ Raise("storage")
    /\ UNCHANGED <<unchangedFs, work>>

\* The same command under trickle, in a process of its own, which is another agent.  When it
\* fails, whatever it has done, the job is run without.
Trickle ==
    /\ pc = "trickle"
    /\ \/ asked' = One /\ done' = One /\ Goto("returned")
       \/ Goto("construct") /\ UNCHANGED <<asked, done>>
    /\ UNCHANGED <<unchangedFs, todo, busy, hung>>

\* Job.__init__ after its validation: names are looked up.  The attribute of conf that the
\* volumes' names are compared with does not exist.
Construct ==
    /\ pc = "construct"
    /\ \/ /\ \E found \in IF conf.select # "name" THEN {One}
                          ELSE IF conf.media = "cinder" THEN {{}} ELSE SUBSET Targets :
                asked' = found /\ todo' = found
          /\ Goto("execute")
       \/ Raise("names") /\ UNCHANGED <<asked, todo>>
    /\ UNCHANGED <<unchangedFs, busy, hung, done>>

\* _validate: an argument is missing, or does not go with another.
Refused(action) ==
    /\ pc = "construct" /\ conf.action = action
    /\ Raise("refused")
    /\ UNCHANGED <<unchangedFs, work>>

BackupRefused  == Refused("backup")
RestoreRefused == Refused("restore")
AdminRefused   == Refused("admin")
ExecRefused    == Refused("exec")

\* run_job prints the response or writes it to metadata_out.
Report ==
    /\ pc = "returned"
    /\ \/ pc' = "exit0" /\ UNCHANGED trouble
       \/ Raise("report") /\ conf.action \in {"backup", "info"}
    /\ busy = {}      \* the interpreter joins the threads of the pool
    /\ UNCHANGED <<unchangedFs, work, error>>

Unlocked == IF app = "locked" THEN "running" ELSE app

\* fail: the exit code is 1.  A lock of MySQL goes with the connection.
Fail ==
    /\ pc = "raised" /\ busy = {}
    /\ pc' = "exit1" /\ app' = Unlocked
    /\ UNCHANGED <<work, conf, error, trouble, live, released, flushed, frozen, mount,
                   path, sum, read, tries>>

Killed ==
    /\ MaxKills > 0 /\ pc \notin Exited
    /\ pc' = "killed" /\ trouble' = trouble \cup {"kill"} /\ app' = Unlocked
    /\ busy' = {} /\ hung' = {}
    /\ UNCHANGED <<conf, error, live, released, flushed, frozen, mount, path, sum, read,
                   tries, asked, todo, done>>

-----------------------------------------------------------------------------
(* The jobs.                                                               *)

Execute(action) == pc = "execute" /\ conf.action = action /\ UNCHANGED <<unchangedFs, work>>

\* The pool of a backup by name has one thread for each name, and cannot have none.
BackupJob ==
    /\ Execute("backup")
    /\ \/ conf.media = "fs" /\ Goto("mode")
       \/ conf.select = "project" /\ Goto("list")
       \/ /\ conf.media # "fs" /\ conf.select # "project"
          /\ IF todo = {} THEN Raise("nothing") ELSE Goto("each")

RestoreJob ==
    /\ Execute("restore")
    /\ Goto(IF conf.select = "project" THEN "list" ELSE "each")

\* Images have no names of their own here: whichever are asked for, it is the backup name, which
\* is cleaned once.
AdminJob ==
    /\ pc = "execute" /\ conf.action = "admin"
    /\ Goto(IF conf.select = "project" /\ conf.media = "nova" THEN "list" ELSE "each")
    /\ IF conf.media = "glance" THEN asked' = One /\ todo' = One ELSE UNCHANGED <<asked, todo>>
    /\ UNCHANGED <<unchangedFs, busy, hung, done>>

InfoJob == Execute("info") /\ Goto("each")
ExecJob == Execute("exec") /\ Goto("each")

\* backup_*_tenant: the list is stored before anything that is on it.
SaveList ==
    /\ pc = "list" /\ conf.action = "backup"
    /\ \/ /\ \E found \in SUBSET Targets :
                /\ asked' = found /\ busy' = found
                /\ IF found = {} THEN Raise("nothing") ELSE Goto("pool")
          /\ todo' = {}
       \/ Raise("list") /\ UNCHANGED <<asked, todo, busy>>
    /\ UNCHANGED <<unchangedFs, hung, done>>

SaveNovaList   == conf.media = "nova" /\ SaveList
SaveGlanceList == conf.media = "glance" /\ SaveList

\* get_*_tenant
FetchList ==
    /\ pc = "list" /\ conf.action # "backup"
    /\ \/ /\ \E found \in SUBSET Targets : asked' = found /\ todo' = found
          /\ Goto("each")
       \/ Raise("list") /\ UNCHANGED <<asked, todo>>
    /\ UNCHANGED <<unchangedFs, busy, hung, done>>

FetchNovaList   == conf.media = "nova" /\ FetchList
FetchGlanceList == conf.media = "glance" /\ FetchList

\* A thread of the pool ends; nobody asks its future for the exception.
PoolThread(t) ==
    /\ t \in busy \ hung
    /\ busy' = busy \ {t}
    /\ done' = done \cup {t} \/ UNCHANGED done
    /\ UNCHANGED <<unchangedFs, pc, error, trouble, asked, todo, hung>>

\* futures.wait: until all have ended, or CONF.timeout.
PoolWait ==
    /\ pc = "pool"
    /\ Goto("returned")
    /\ UNCHANGED <<unchangedFs, work>>

\* Mutant of Each: a failure does not end the loop.
EachTries(t) ==
    /\ pc = "each" /\ t \in todo
    /\ todo' = todo \ {t} /\ (done' = done \cup {t} \/ UNCHANGED done)
    /\ UNCHANGED <<unchangedFs, pc, error, trouble, asked, busy, hung>>

\* One after the other.
Each(t) ==
    /\ pc = "each" /\ t \in todo
    /\ \/ /\ todo' = todo \ {t} /\ UNCHANGED <<pc, error, trouble>>
          /\ done' = done \cup {t} \/ (Swallows /\ UNCHANGED done)
       \/ Raise("target") /\ UNCHANGED <<todo, done>>
    /\ UNCHANGED <<unchangedFs, asked, busy, hung>>

\* executor.submit is given what the call returned: there is no thread.
EachBackup(t)  == conf.action = "backup" /\ Each(t)
EachRestore(t) == conf.action = "restore" /\ Each(t)
EachAdmin(t)   == conf.action = "admin" /\ Each(t)
EachOther(t)   == conf.action \in {"info", "exec"} /\ Each(t)

EachEnds ==
    /\ pc = "each" /\ todo = {}
    /\ Goto(IF conf.action = "restore" /\ conf.checksum THEN "verify" ELSE "returned")
    /\ UNCHANGED <<unchangedFs, work>>

\* The checksum of the restored files against the one given.
Verify ==
    /\ pc = "verify"
    /\ Goto("returned") \/ Raise("inconsistent")
    /\ UNCHANGED <<unchangedFs, work>>

\* What the main thread has called never returns: the reader of a backup to s3 whose upload has
\* ended, a restore from ftp or whose tar is jammed, a loop of osclients, a command.
Hang ==
    /\ \/ pc \in {"first", "rest", "trickle"}
       \/ pc = "each" /\ todo # {} /\ conf.action # "info"
    /\ pc' = "hung" /\ UNCHANGED <<error, trouble>>
    /\ UNCHANGED <<unchangedFs, work>>

\* The same of a thread of the pool.
ThreadHangs(t) ==
    /\ t \in busy /\ hung' = hung \cup {t}
    /\ UNCHANGED <<unchangedFs, pc, error, trouble, asked, todo, busy, done>>

-----------------------------------------------------------------------------
FsStep == FsBackup /\ UNCHANGED work

Step ==
    \/ Setup \/ StorageFails \/ Trickle \/ Construct \/ Report \/ Fail
    \/ BackupRefused \/ RestoreRefused \/ AdminRefused \/ ExecRefused
    \/ BackupJob \/ RestoreJob \/ AdminJob \/ InfoJob \/ ExecJob
    \/ SaveNovaList \/ SaveGlanceList \/ FetchNovaList \/ FetchGlanceList
    \/ \E t \in Targets : \/ PoolThread(t) \/ EachBackup(t) \/ EachRestore(t)
                         \/ EachAdmin(t) \/ EachOther(t)
    \/ PoolWait \/ EachEnds \/ Verify
    \/ FsStep

Done == pc \in Exited /\ UNCHANGED allVars

Next ==
    \/ Step \/ (AppWrites /\ UNCHANGED work) \/ Killed \/ Done
    \/ Hang \/ \E t \in Targets : ThreadHangs(t)

\* The main thread and the threads of the pool go on, unless they hang; nothing else must happen.
Spec     == Init /\ [][Next]_allVars
LiveSpec == Spec /\ WF_allVars(Step) /\ WF_allVars(\E t \in Targets : PoolThread(t))

-----------------------------------------------------------------------------
\* This process has made a backup, and not one that it started under trickle.
FsDone ==
    pc \in {"returned", "exit0"} /\ conf.action = "backup" /\ conf.media = "fs" /\ done = {}

\* Every backup of a database that succeeds consists of one version of its files, the one that
\* prepare left on the disk, whatever the application writes meanwhile; an 'already
\* mounted' snapshot, which is taken for a success but not read, is the exception.
ConsistentRead ==
    FsDone /\ conf.mode \in {"mysql", "sqlserver"} /\ "theirs" \notin trouble
        => read = {flushed}

\* What a backup with a mounted snapshot reads is the snapshot, in both steps and
\* for the checksum, and not the live files.
FrozenIsRead ==
    pc \in {"rest", "finally"} /\ frozen # None /\ mount = "ours"
        => read \subseteq {frozen} /\ sum \in {frozen, None}

\* What is read is of one moment.
ReadIsConsistent == TypeOK /\ ConsistentRead /\ FrozenIsRead

\* An application is down or locked after the agent only if stopping it, starting it, or a step
\* between prepare and the try statement failed, or the agent was killed: no failure of the
\* checksum, of the engine or of the removal of the snapshot leaves it so.
ServerComesBack ==
    pc \in Exited /\ app # "running"
        => trouble \cap {"stop", "bytes", "vss", "adjust", "release", "kill"} # {}

\* A snapshot is left behind only if a step between its creation and the try
\* statement, its release, or its removal failed, or the agent was killed.
SnapshotGone ==
    pc \in Exited /\ frozen # None
        => trouble \cap {"bytes", "guess", "adjust", "release", "remove", "kill"} # {}

\* With a snapshot, the application is not kept waiting for the backup.
LockIsShort ==
    pc \in Reading /\ frozen # None => app = "running"

\* The agent leaves the host as it found it, and alone while it reads a snapshot.
LeftAsFound == ServerComesBack /\ SnapshotGone /\ LockIsShort

\* Exit code 0 means that everything asked for is done, except where a failure may go
\* unnoticed, and for the pool of a project, of which no failure is noticed.
ExitIsHonest ==
    pc = "exit0" /\ conf.select # "project" /\ ~Swallows => done = asked \/ read # {}

\* The agent ends, unless a call that its main thread has made never returns, or one of a thread
\* of the pool: the timeout of the wait for the pool does not help, as the threads are joined at
\* exit.  The agent's own loop, the attempts at lvremove, ends.
JobEnds == <>(pc \in Exited) \/ <>[](pc = "hung") \/ <>[](hung # {})
==============================================================================
