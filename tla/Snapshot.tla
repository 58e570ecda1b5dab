------------------------------ MODULE Snapshot ------------------------------
(***************************************************************************)
(* The backup of a file system (BackupJob.backup, media 'fs'): the         *)
(* application is locked or stopped, a snapshot of its volume is taken and *)
(* mounted, the application is released, the engine reads, and the         *)
(* snapshot is removed (freezer.job, freezer.mode, freezer.snapshot).      *)
(*                                                                         *)
(* Data is a version number that the application increments while it may   *)
(* write.  The engine reads in two steps, and with it the application      *)
(* interleaves.                                                            *)
(*                                                                         *)
(* conf.text: what a subprocess prints is str.  Popen returns bytes, which *)
(* the code compares with and searches for str; its unit tests mock str.   *)
(* Both are modelled: FALSE is the program as it runs, TRUE as it is       *)
(* tested.                                                                 *)
(***************************************************************************)
EXTENDS Naturals, FiniteSets

CONSTANTS
    MaxWrites,   \* bound: versions of the data
    None         \* no version

ASSUME SnapshotConstants == MaxWrites \in Nat /\ None \notin Nat

Attempts == 5    \* of lvremove

VARIABLES
    conf,        \* the options of the agent
    pc,          \* where its main thread is
    error,       \* an exception is on its way through the finally clause
    trouble,     \* what has failed, for the properties
    live,        \* the version of the application's data
    app,         \* the application: running, locked (mysql), stopped (SQL Server)
    released,    \* Mode.released
    flushed,     \* the version prepare left on the disk
    frozen,      \* the version in the snapshot; None: there is no snapshot
    mount,       \* on the mount point: nothing, our snapshot, something else
    path,        \* path_to_backup leads to the live volume or to the snapshot
    sum,         \* the version of which the checksum was computed
    read,        \* the versions the engine has read
    tries        \* of lvremove

vars == <<conf, pc, error, trouble, live, app, released, flushed, frozen, mount,
          path, sum, read, tries>>

Modes    == {"fs", "mysql", "mongo", "sqlserver"}
Versions == 0..MaxWrites
Opened   == {"mode", "snapshot", "params", "guess", "mounting", "adjust", "release"}
Reading  == {"enter", "checksum", "first", "rest"}
Cleaning == {"finally", "umount", "remove"}
Ends     == {"returned", "raised"}

\* SQL Server is on Windows, and the others are not.
FsOptions(c) ==
    /\ c.mode = "sqlserver" => c.windows
    /\ c.mode \in {"mysql", "mongo"} => ~c.windows

FsTypeOK ==
    /\ error \in BOOLEAN /\ released \in BOOLEAN
    /\ live \in Versions /\ app \in {"running", "locked", "stopped"}
    /\ {flushed, frozen, sum} \subseteq Versions \cup {None} /\ read \subseteq Versions
    /\ mount \in {"nothing", "ours", "theirs"} /\ path \in {"live", "snapshot"}
    /\ tries \in 0..Attempts

FsInit ==
    /\ error = FALSE /\ trouble = {} /\ live = 0 /\ app = "running" /\ released = FALSE
    /\ flushed = None /\ frozen = None /\ mount = "nothing" /\ path = "live"
    /\ sum = None /\ read = {} /\ tries = 0

Goto(place) == pc' = place /\ UNCHANGED <<error, trouble>>

\* An exception outside of the try statement of backup, or in its finally clause.
Raise(what) == pc' = "raised" /\ trouble' = trouble \cup {what} /\ UNCHANGED error

\* An exception inside of it.
RaiseInTry(what) ==
    /\ pc' = "finally" /\ error' = TRUE /\ trouble' = trouble \cup {what}

AppWrites ==
    /\ app = "running" /\ live < MaxWrites
    /\ live' = live + 1
    /\ UNCHANGED <<conf, pc, error, trouble, app, released, flushed, frozen, mount,
                   path, sum, read, tries>>

-----------------------------------------------------------------------------
(* Modes: the constructor, prepare and release.                            *)

unchangedByMode == <<conf, live, frozen, mount, path, sum, read, tries>>

\* mysql: connect; mongo: the host is not the primary; SQL Server: no conf file.
ModeFails ==
    /\ pc = "mode" /\ conf.mode # "fs"
    /\ Raise("mode")
    /\ UNCHANGED <<unchangedByMode, app, released, flushed>>

PrepareNothing ==
    /\ pc = "mode" /\ conf.mode \in {"fs", "mongo"}
    /\ Goto("snapshot")
    /\ UNCHANGED <<unchangedByMode, app, released, flushed>>

\* FLUSH TABLES WITH READ LOCK
MysqlPrepare ==
    /\ pc = "mode" /\ conf.mode = "mysql"
    /\ app' = "locked" /\ flushed' = live /\ released' = FALSE
    /\ Goto("snapshot")
    /\ UNCHANGED unchangedByMode

\* net stop; b'' differs from '', so that no error is an error.
SqlserverPrepare ==
    /\ pc = "mode" /\ conf.mode = "sqlserver"
    /\ app' = "stopped" /\ flushed' = live
    /\ IF conf.text THEN released' = FALSE /\ Goto("snapshot")
                    ELSE UNCHANGED released /\ Raise("bytes")
    /\ UNCHANGED unchangedByMode

SqlserverPrepareFails ==
    /\ pc = "mode" /\ conf.mode = "sqlserver"
    /\ Raise("stop")
    /\ UNCHANGED <<unchangedByMode, app, released, flushed>>

\* What release does, followed by Goto(next) when it does not raise.
Release(next) ==
    LET calls == conf.mode \in {"mysql", "sqlserver"} /\ ~released
    IN  \/ /\ ~calls /\ Goto(next) /\ UNCHANGED <<app, released>>
        \/ /\ calls /\ released' = TRUE /\ app' = "running"
           /\ IF conf.mode = "sqlserver" /\ ~conf.text THEN Raise("bytes") ELSE Goto(next)
        \/ /\ calls /\ conf.mode = "mysql"       \* the connection and its lock are lost
           /\ released' = TRUE /\ app' = "running" /\ Raise("release")
        \/ /\ calls /\ conf.mode = "sqlserver"   \* net start fails
           /\ released' = TRUE /\ UNCHANGED app /\ Raise("release")

-----------------------------------------------------------------------------
(* snapshot_create: LVM, or a shadow copy of Windows.                      *)

unchangedBySnapshot == <<conf, live, app, released, flushed, sum, read>>

\* Mutant of NoSnapshot: the application is released whether a snapshot was taken or not.
NoSnapshotReleases ==
    /\ pc = "snapshot" /\ ~conf.snapshot
    /\ Goto("release")
    /\ UNCHANGED <<unchangedBySnapshot, frozen, mount, path, tries>>

NoSnapshot ==
    /\ pc = "snapshot" /\ ~conf.snapshot
    /\ Goto("enter")
    /\ UNCHANGED <<unchangedBySnapshot, frozen, mount, path, tries>>

\* The path is not on a logical volume, or the options about it are wrong.
LvmParams ==
    /\ pc = "snapshot" /\ conf.snapshot /\ ~conf.windows
    /\ Goto("params") \/ Raise("params")
    /\ UNCHANGED <<unchangedBySnapshot, frozen, mount, path, tries>>

Lvcreate ==
    /\ pc = "params"
    /\ \/ frozen' = live /\ Goto("guess")
       \/ UNCHANGED frozen /\ Raise("lvcreate")
    /\ UNCHANGED <<unchangedBySnapshot, mount, path, tries>>

\* get_vol_fs_type searches the output for a str.
GetVolFsType ==
    /\ pc = "guess"
    /\ \/ conf.text /\ Goto("mounting")
       \/ conf.text /\ Raise("guess")
       \/ ~conf.text /\ Raise("bytes")
    /\ UNCHANGED <<unchangedBySnapshot, frozen, mount, path, tries>>

\* On a mount error the snapshot is removed; 'already mounted' is taken for a success,
\* and path_to_backup is not adjusted then.
Mount ==
    /\ pc = "mounting"
    /\ \/ mount' = "ours" /\ Goto("adjust")
       \/ mount' = "theirs" /\ pc' = "release" /\ UNCHANGED error
          /\ trouble' = trouble \cup {"theirs"}
       \/ UNCHANGED mount /\ pc' = "umount" /\ error' = TRUE
          /\ trouble' = trouble \cup {"mount"}
    /\ UNCHANGED <<unchangedBySnapshot, frozen, path, tries>>

Adjust ==
    /\ pc = "adjust"
    /\ \/ path' = "snapshot" /\ Goto("release")
       \/ UNCHANGED path /\ Raise("adjust")
    /\ UNCHANGED <<unchangedBySnapshot, frozen, mount, tries>>

VssCreate ==
    /\ pc = "snapshot" /\ conf.snapshot /\ conf.windows
    /\ \/ frozen' = live /\ IF conf.text THEN Goto("adjust") ELSE Raise("bytes")
       \/ UNCHANGED frozen /\ Raise("vss")
    /\ UNCHANGED <<unchangedBySnapshot, mount, path, tries>>

\* A snapshot was taken: app_mode.release() before the try statement.
ReleaseEarly ==
    /\ pc = "release"
    /\ Release("enter")
    /\ UNCHANGED <<unchangedByMode, flushed>>

-----------------------------------------------------------------------------
(* The try statement.                                                      *)

Data == IF path = "live" THEN live ELSE frozen

unchangedByReading == <<conf, live, app, released, flushed, frozen, mount, path, tries>>

Enter ==
    /\ pc = "enter"
    /\ Goto(IF conf.checksum THEN "checksum" ELSE "first") \/ RaiseInTry("path")
    /\ UNCHANGED <<unchangedByReading, sum, read>>

Checksum ==
    /\ pc = "checksum"
    /\ \/ sum' = Data /\ Goto("first")
       \/ UNCHANGED sum /\ RaiseInTry("checksum")
    /\ UNCHANGED <<unchangedByReading, read>>

\* engine.backup, between its first block and its last.
EngineReads ==
    /\ pc \in {"first", "rest"}
    /\ \/ /\ read' = read \cup {Data}
          /\ Goto(IF pc = "first" THEN "rest" ELSE "finally")
       \/ UNCHANGED read /\ RaiseInTry("engine")
    /\ UNCHANGED <<unchangedByReading, sum>>

-----------------------------------------------------------------------------
(* The finally clause.                                                     *)

Taken == frozen # None

\* Mutant of Finally: an except clause, that is, nothing is done after an error.
FinallyOnSuccess ==
    /\ pc = "finally"
    /\ IF error THEN Goto("raised") /\ UNCHANGED <<app, released>>
       ELSE Release(IF ~Taken THEN "returned" ELSE IF conf.windows THEN "remove" ELSE "umount")
    /\ UNCHANGED <<unchangedByMode, flushed>>

Finally ==
    /\ pc = "finally"
    /\ Release(IF ~Taken THEN (IF error THEN "raised" ELSE "returned")
               ELSE IF conf.windows THEN "remove" ELSE "umount")
    /\ UNCHANGED <<unchangedByMode, flushed>>

\* A umount that fails is only logged.
Umount ==
    /\ pc = "umount"
    /\ mount' = "nothing" \/ UNCHANGED mount
    /\ Goto("remove")
    /\ UNCHANGED <<unchangedBySnapshot, frozen, path, tries>>

Removed == frozen' = None /\ Goto(IF error THEN "raised" ELSE "returned")

\* Mutant of Lvremove: no end of the attempts.
LvremoveForEver ==
    /\ pc = "remove" /\ ~conf.windows
    /\ \/ Removed /\ UNCHANGED tries
       \/ conf.text /\ Goto("remove") /\ tries' = (tries + 1) % Attempts /\ UNCHANGED frozen
    /\ UNCHANGED <<unchangedBySnapshot, mount, path>>

\* The volume may be in use, which is looked for in bytes.
Lvremove ==
    /\ pc = "remove" /\ ~conf.windows
    /\ \/ Removed /\ UNCHANGED tries
       \/ /\ conf.text /\ tries' = tries + 1 /\ UNCHANGED frozen
          /\ IF tries' < Attempts THEN Goto("remove") ELSE Raise("remove")
       \/ Raise("remove") /\ UNCHANGED <<frozen, tries>>
    /\ UNCHANGED <<unchangedBySnapshot, mount, path>>

VssDelete ==
    /\ pc = "remove" /\ conf.windows
    /\ \/ Removed
       \/ UNCHANGED frozen /\ Raise("remove")
    /\ UNCHANGED <<unchangedBySnapshot, mount, path, tries>>

FsBackup ==
    \/ ModeFails \/ PrepareNothing \/ MysqlPrepare \/ SqlserverPrepare \/ SqlserverPrepareFails
    \/ NoSnapshot \/ LvmParams \/ Lvcreate \/ GetVolFsType \/ Mount \/ Adjust \/ VssCreate
    \/ ReleaseEarly \/ Enter \/ Checksum \/ EngineReads
    \/ Finally \/ Umount \/ Lvremove \/ VssDelete
==============================================================================
