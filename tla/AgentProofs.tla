------------------------------ MODULE AgentProofs ------------------------------
(***************************************************************************)
(* What one run of the agent does to its host, what a procedure does to    *)
(* the services, and what an admin job removes: Agent, Cloud, Rotation.    *)
(*                                                                         *)
(* Agent, for every set of targets and any number of writes of the         *)
(* application: what a backup reads is of one moment, the host is left as  *)
(* it was found, and exit code 0 is earned.  The argument follows the      *)
(* agent.  From prepare to release the application is down, so what is on  *)
(* the disk is what prepare left there (Flushed); a snapshot is taken in   *)
(* between, and the path leads to it unless something else was mounted in  *)
(* its place (Frozen); release is called as long as the application is     *)
(* down (Servers), and the snapshot removed (Frozen).                      *)
(*                                                                         *)
(* Cloud, whatever the services do.  Each script has an outline, two sets  *)
(* of resources for each of its lines: those that may be there when the    *)
(* line is reached, and those that are ready.  Each line leads from one    *)
(* pair to the next, so that outlines of parts make that of the whole, and *)
(* at the end nothing may be there but the result.  The state keeps to the *)
(* outline of its script (Follows).                                        *)
(*                                                                         *)
(* Rotation, for any number of backups and of those to keep.  A listed     *)
(* backup rests on an available one, so its whole chain is there           *)
(* (RootIsThere).  The job begins with full backups that have enough newer *)
(* ones; as it goes from the oldest on, and nobody else removes, they      *)
(* still have (GoalsAreOld).  What another rests on comes later in the     *)
(* queue, unless a full one lies in between (QueueInOrder).                *)
(***************************************************************************)
EXTENDS Agent, Cloud, FiniteSetTheorems, SequenceTheorems, TLAPS

Fs        == conf.action = "backup" /\ conf.media = "fs"
Databases == {"mysql", "sqlserver"}

\* The places of a backup of a file system: before the try statement, and up to release.
Prepared == Opened \ {"mode"}
Held     == Prepared \cup Reading \cup {"finally"}

Ways ==
    /\ pc \in Opened \cup Reading \cup Cleaning => Fs
    /\ Fs => pc \notin {"list", "pool", "each", "verify"}
    /\ pc \in {"params", "guess", "mounting", "umount"} => ~conf.windows
    /\ pc \notin Exited \cup {"raised"} => tries < Attempts

\* The application is down from prepare on, and until release is called.
Servers ==
    /\ pc \in Places \cup {"mode"} => app = "running"
    /\ app = "locked" => conf.mode = "mysql" /\ pc \notin Exited \cup {"returned"}
    /\ app = "stopped" =>
           /\ conf.mode = "sqlserver"
           /\ pc \in Held \cup {"hung"} \/ trouble \cap {"stop", "bytes", "vss", "adjust", "release", "kill"} # {}
    /\ pc \in Held /\ app # "running" => ~released
    /\ pc \in Prepared /\ conf.mode \in Databases => app # "running"
    /\ pc \in {"umount", "remove"} /\ app # "running" => error
    /\ pc \in Reading /\ frozen # None => app = "running"
    /\ pc \in Reading \cup {"finally"} /\ frozen = None /\ conf.mode \in Databases => app # "running"

\* The snapshot, what is mounted, and where the path leads.
Frozen ==
    /\ pc \in Places \cup {"mode", "snapshot", "params"} => frozen = None
    /\ pc \in {"guess", "mounting", "adjust", "release", "umount", "remove"} => frozen # None
    /\ pc \in (Places \cup Opened) \ {"release"} => path = "live"
    /\ path = "snapshot" /\ pc \in Held => frozen # None
    /\ mount = "theirs" => "theirs" \in trouble
    /\ pc \in Held \ {"snapshot", "params", "guess", "mounting", "adjust"} /\ frozen # None =>
           path = "snapshot" \/ mount = "theirs"
    /\ pc \in Ends \cup Exited /\ frozen # None =>
           trouble \cap {"bytes", "guess", "adjust", "release", "remove", "kill"} # {}

\* What was read so far.
ReadSoFar ==
    /\ pc \in Places \cup Opened \cup {"enter", "checksum", "first"} => read = {}
    /\ pc \in Places \cup Opened \cup {"enter", "checksum"} => sum = None
    /\ pc \in Reading \cup {"finally"} /\ frozen # None /\ mount # "theirs" =>
           read \subseteq {frozen} /\ sum \in {frozen, None}
    /\ pc = "rest" \/ (pc \in Cleaning /\ ~error) \/ (pc \in {"returned", "exit0"} /\ Fs /\ done = {}) => read # {}

\* Nothing was written after prepare that the backup has read.
Flushed ==
    conf.mode \in Databases /\ "theirs" \notin trouble =>
        /\ pc \in Held /\ app # "running" => live = flushed
        /\ pc \in Held /\ frozen # None => frozen = flushed
        /\ read \subseteq {flushed}

\* The targets.
Asked ==
    /\ pc \in {"start", "trickle", "construct"} => asked = {}
    /\ pc \in {"execute", "list"} => done = {} /\ busy = {}
    /\ Fs /\ pc \notin {"returned", "raised", "hung"} \cup Exited => done = {}
    /\ pc = "list" => conf.select = "project"
    /\ pc = "pool" => conf.select = "project"
    /\ conf.select # "project" /\ ~Swallows =>
           /\ pc \in {"execute", "each"} => asked \subseteq todo \cup done
           /\ pc = "verify" => asked \subseteq done
           /\ pc \in {"returned", "exit0"} => asked \subseteq done \/ read # {}

IInv == TypeOK /\ Ways /\ Servers /\ Frozen /\ ReadSoFar /\ Flushed /\ Asked

-----------------------------------------------------------------------------
LEMMA ConfFacts ==
    ASSUME TypeOK
    PROVE  /\ conf.mode \in Modes /\ conf.select \in Selects /\ conf.action \in Actions
           /\ conf.text \in BOOLEAN /\ conf.windows \in BOOLEAN /\ conf.snapshot \in BOOLEAN
           /\ conf.mode = "sqlserver" => conf.windows
           /\ conf.mode = "mysql" => ~conf.windows
           /\ conf.media = "fs" => conf.select = "id"
           /\ None \notin Versions
BY SnapshotConstants DEF TypeOK, AgentOptions, FsOptions, Fs, Versions

LEMMA OneTarget == One \subseteq Targets /\ One # {}
BY AgentConstants DEF One

LEMMA InitIInv == Init => IInv
<1> SUFFICES ASSUME Init PROVE IInv
    OBVIOUS
<1>1. TypeOK
  <2>1. FsTypeOK
    <3>1. error \in BOOLEAN /\ released \in BOOLEAN
          BY DEF Init, FsInit
    <3>2. live \in Versions /\ read \subseteq Versions /\ tries \in 0..Attempts
          BY SnapshotConstants DEF Init, FsInit, Versions, Attempts
    <3>3. {flushed, frozen, sum} \subseteq Versions \cup {None}
          BY DEF Init, FsInit
    <3> QED BY <3>1, <3>2, <3>3 DEF Init, FsInit, FsTypeOK
  <2>2. conf \in AgentOptions /\ pc \in Places
        BY DEF Init, Places
  <2>3. asked \subseteq Targets /\ todo \cup busy \cup done \subseteq asked /\ busy = {} /\ hung = {}
        BY DEF Init
  <2> QED BY <2>1, <2>2, <2>3 DEF TypeOK
<1> QED BY <1>1 DEF Init, FsInit, IInv, Ways, Servers, Frozen, ReadSoFar, Flushed, Asked, Swallows, Prepared, Held,
                    Opened, Reading, Cleaning, Ends, Exited, Places, Attempts

LEMMA ModeStep ==
    ASSUME IInv, UNCHANGED work,
           \/ ModeFails \/ PrepareNothing \/ MysqlPrepare
           \/ SqlserverPrepare \/ SqlserverPrepareFails
    PROVE  IInv'
<1> USE ConfFacts
<1> USE DEF IInv, TypeOK, FsTypeOK, Ways, Servers, Frozen, ReadSoFar, Flushed, Asked, Swallows, Fs, Databases, Prepared, Held,
            Opened, Reading, Cleaning, Ends, Exited, Places, work, unchangedByMode, Goto, Raise
<1>1. CASE ModeFails
      BY <1>1 DEF ModeFails
<1>2. CASE PrepareNothing
      BY <1>2 DEF PrepareNothing
<1>3. CASE MysqlPrepare
      BY <1>3 DEF MysqlPrepare
<1>4. CASE SqlserverPrepare
  <2> USE <1>4 DEF SqlserverPrepare
  <2>1. TypeOK' /\ Ways' /\ Frozen' /\ ReadSoFar'
        OBVIOUS
  <2>2. Servers'
        OBVIOUS
  <2>3. Flushed' /\ Asked'
        OBVIOUS
  <2> QED BY <2>1, <2>2, <2>3
<1>5. CASE SqlserverPrepareFails
      BY <1>5 DEF SqlserverPrepareFails
<1> QED BY <1>1, <1>2, <1>3, <1>4, <1>5

\* snapshot_create, and release after it.
LEMMA SnapshotStep ==
    ASSUME IInv, UNCHANGED work,
           NoSnapshot \/ LvmParams \/ Lvcreate \/ GetVolFsType \/ Mount \/ Adjust \/ VssCreate
    PROVE  IInv'
<1> USE ConfFacts, SnapshotConstants
<1> USE DEF IInv, TypeOK, FsTypeOK, Ways, Servers, Frozen, ReadSoFar, Flushed, Asked, Swallows, Fs,
            Databases, Prepared, Held, Opened, Reading, Cleaning, Ends, Exited, Places, work,
            unchangedBySnapshot, Goto, Raise
<1>1. CASE NoSnapshot
      BY <1>1 DEF NoSnapshot
<1>2. CASE LvmParams
      BY <1>2 DEF LvmParams
<1>3. CASE Lvcreate
      BY <1>3 DEF Lvcreate
<1>4. CASE GetVolFsType
      BY <1>4 DEF GetVolFsType
<1>5. CASE Mount
      BY <1>5 DEF Mount
<1>6. CASE Adjust
      BY <1>6 DEF Adjust
<1>7. CASE VssCreate
      BY <1>7 DEF VssCreate
<1> QED BY <1>1, <1>2, <1>3, <1>4, <1>5, <1>6, <1>7

\* The try statement.
LEMMA ReadingStep ==
    ASSUME IInv, UNCHANGED work,
           Enter \/ Checksum \/ EngineReads
    PROVE  IInv'
<1> USE ConfFacts, SnapshotConstants
<1> USE DEF IInv, TypeOK, FsTypeOK, Ways, Servers, Frozen, ReadSoFar, Flushed, Asked, Swallows, Fs,
            Databases, Prepared, Held, Opened, Reading, Cleaning, Ends, Exited, Places, work,
            unchangedByReading, Goto, RaiseInTry, Data
<1>1. CASE Enter
  <2> USE <1>1 DEF Enter
  <2>1. TypeOK'
        OBVIOUS
  <2>2. Ways'
        OBVIOUS
  <2>3. Servers'
        OBVIOUS
  <2>4. Frozen'
        OBVIOUS
  <2>5. ReadSoFar'
        OBVIOUS
  <2>6. Flushed'
        OBVIOUS
  <2>7. Asked'
        OBVIOUS
  <2> QED BY <2>1, <2>2, <2>3, <2>4, <2>5, <2>6, <2>7
<1>2. CASE Checksum
  <2> USE <1>2 DEF Checksum
  <2>1. TypeOK'
        OBVIOUS
  <2>2. Ways'
        OBVIOUS
  <2>3. Servers'
        OBVIOUS
  <2>4. Frozen'
        OBVIOUS
  <2>5. ReadSoFar'
        OBVIOUS
  <2>6. Flushed'
        OBVIOUS
  <2>7. Asked'
        OBVIOUS
  <2> QED BY <2>1, <2>2, <2>3, <2>4, <2>5, <2>6, <2>7
<1>3. CASE EngineReads
  <2> USE <1>3 DEF EngineReads
  <2>1. TypeOK'
        OBVIOUS
  <2>2. Ways'
        OBVIOUS
  <2>3. Servers'
        OBVIOUS
  <2>4. Frozen'
        OBVIOUS
  <2>5. ReadSoFar'
        OBVIOUS
  <2>6. Flushed'
        OBVIOUS
  <2>7. Asked'
        OBVIOUS
  <2> QED BY <2>1, <2>2, <2>3, <2>4, <2>5, <2>6, <2>7
<1> QED BY <1>1, <1>2, <1>3

\* The finally clause.
LEMMA CleaningStep ==
    ASSUME IInv, UNCHANGED work,
           ReleaseEarly \/ Finally \/ Umount \/ Lvremove \/ VssDelete
    PROVE  IInv'
<1> USE ConfFacts, SnapshotConstants
<1> USE DEF IInv, TypeOK, FsTypeOK, Ways, Servers, Frozen, ReadSoFar, Flushed, Asked, Swallows, Fs,
            Databases, Prepared, Held, Opened, Reading, Cleaning, Ends, Exited, Places, work,
            unchangedByMode, unchangedBySnapshot, Goto, Raise, Removed, Taken, Release, Attempts
<1>1. CASE ReleaseEarly
  <2> USE <1>1 DEF ReleaseEarly
  <2>1. TypeOK'
        OBVIOUS
  <2>2. Ways'
        OBVIOUS
  <2>3. Servers'
        OBVIOUS
  <2>4. Frozen'
        OBVIOUS
  <2>5. ReadSoFar'
        OBVIOUS
  <2>6. Flushed'
        OBVIOUS
  <2>7. Asked'
        OBVIOUS
  <2> QED BY <2>1, <2>2, <2>3, <2>4, <2>5, <2>6, <2>7
<1>2. CASE Finally
  <2> USE <1>2 DEF Finally
  <2>1. TypeOK'
        OBVIOUS
  <2>2. Ways'
        OBVIOUS
  <2>3. Servers'
        OBVIOUS
  <2>4. Frozen'
        OBVIOUS
  <2>5. ReadSoFar'
        OBVIOUS
  <2>6. Flushed'
        OBVIOUS
  <2>7. Asked'
        OBVIOUS
  <2> QED BY <2>1, <2>2, <2>3, <2>4, <2>5, <2>6, <2>7
<1>3. CASE Umount
      BY <1>3 DEF Umount
<1>4. CASE Lvremove
  <2> USE <1>4 DEF Lvremove
  <2>1. TypeOK'
        OBVIOUS
  <2>2. Ways'
        OBVIOUS
  <2>3. Servers'
        OBVIOUS
  <2>4. Frozen'
        OBVIOUS
  <2>5. ReadSoFar'
        OBVIOUS
  <2>6. Flushed'
        OBVIOUS
  <2>7. Asked'
        OBVIOUS
  <2> QED BY <2>1, <2>2, <2>3, <2>4, <2>5, <2>6, <2>7
<1>5. CASE VssDelete
      BY <1>5 DEF VssDelete
<1> QED BY <1>1, <1>2, <1>3, <1>4, <1>5

\* The main thread outside of the jobs, and what may happen at any time.
LEMMA MainStep ==
    ASSUME IInv,
           Setup \/ StorageFails \/ Trickle \/ Construct \/ BackupRefused \/ RestoreRefused \/ AdminRefused \/ ExecRefused \/ Report \/ Fail \/ Killed \/ Hang
    PROVE  IInv'
<1> USE ConfFacts
<1> USE DEF IInv, TypeOK, FsTypeOK, Ways, Servers, Frozen, ReadSoFar, Flushed, Asked, Swallows, Fs,
            Databases, Prepared, Held, Opened, Reading, Cleaning, Ends, Exited, Places,
            Goto, Raise, Refused, Unlocked, Attempts, unchangedFs, work
<1>1. CASE Setup
      BY <1>1 DEF Setup
<1>2. CASE StorageFails
      BY <1>2 DEF StorageFails
<1>3. CASE Trickle
      BY <1>3, OneTarget DEF Trickle
<1>4. CASE Construct
      BY <1>4, OneTarget DEF Construct
<1>5. CASE BackupRefused
      BY <1>5 DEF BackupRefused
<1>6. CASE RestoreRefused
      BY <1>6 DEF RestoreRefused
<1>7. CASE AdminRefused
      BY <1>7 DEF AdminRefused
<1>8. CASE ExecRefused
      BY <1>8 DEF ExecRefused
<1>9. CASE Report
      BY <1>9 DEF Report
<1>10. CASE Fail
      BY <1>10 DEF Fail
<1>11. CASE Killed
      BY <1>11 DEF Killed
<1>12. CASE Hang
      BY <1>12 DEF Hang
<1> QED BY <1>1, <1>2, <1>3, <1>4, <1>5, <1>6, <1>7, <1>8, <1>9, <1>10, <1>11, <1>12

\* A job begins, or gets the list of what there is.
LEMMA JobStep ==
    ASSUME IInv, 
           BackupJob \/ RestoreJob \/ AdminJob \/ InfoJob \/ ExecJob \/ SaveNovaList \/ SaveGlanceList \/ FetchNovaList \/ FetchGlanceList
    PROVE  IInv'
<1> USE ConfFacts
<1> USE DEF IInv, TypeOK, FsTypeOK, Ways, Servers, Frozen, ReadSoFar, Flushed, Asked, Swallows, Fs,
            Databases, Prepared, Held, Opened, Reading, Cleaning, Ends, Exited, Places,
            Execute, SaveList, FetchList, Goto, Raise, unchangedFs, work
<1>1. CASE BackupJob
      BY <1>1 DEF BackupJob
<1>2. CASE RestoreJob
      BY <1>2 DEF RestoreJob
<1>3. CASE AdminJob
      BY <1>3, OneTarget DEF AdminJob
<1>4. CASE InfoJob
      BY <1>4 DEF InfoJob
<1>5. CASE ExecJob
      BY <1>5 DEF ExecJob
<1>6. CASE SaveNovaList
      BY <1>6 DEF SaveNovaList
<1>7. CASE SaveGlanceList
      BY <1>7 DEF SaveGlanceList
<1>8. CASE FetchNovaList
      BY <1>8 DEF FetchNovaList
<1>9. CASE FetchGlanceList
      BY <1>9 DEF FetchGlanceList
<1> QED BY <1>1, <1>2, <1>3, <1>4, <1>5, <1>6, <1>7, <1>8, <1>9

\* What is done for one target, and the end of it.
LEMMA TargetStep ==
    ASSUME IInv, NEW t \in Targets,
           PoolThread(t) \/ ThreadHangs(t) \/ EachBackup(t) \/ EachRestore(t) \/ EachAdmin(t) \/ EachOther(t) \/ PoolWait \/ EachEnds \/ Verify
    PROVE  IInv'
<1> USE ConfFacts
<1> USE DEF IInv, TypeOK, FsTypeOK, Ways, Servers, Frozen, ReadSoFar, Flushed, Asked, Swallows, Fs,
            Databases, Prepared, Held, Opened, Reading, Cleaning, Ends, Exited, Places,
            Each, Goto, Raise, unchangedFs, work
<1>1. CASE PoolThread(t)
      BY <1>1 DEF PoolThread
<1>2. CASE EachBackup(t)
      BY <1>2 DEF EachBackup
<1>3. CASE EachRestore(t)
      BY <1>3 DEF EachRestore
<1>4. CASE EachAdmin(t)
      BY <1>4 DEF EachAdmin
<1>5. CASE EachOther(t)
      BY <1>5 DEF EachOther
<1>6. CASE PoolWait
      BY <1>6 DEF PoolWait
<1>7. CASE EachEnds
      BY <1>7 DEF EachEnds
<1>8. CASE Verify
      BY <1>8 DEF Verify
<1>9. CASE ThreadHangs(t)
      BY <1>9 DEF ThreadHangs
<1> QED BY <1>1, <1>2, <1>3, <1>4, <1>5, <1>6, <1>7, <1>8, <1>9

LEMMA WriteStep ==
    ASSUME IInv, AppWrites, UNCHANGED work
    PROVE  IInv'
<1> USE DEF IInv, TypeOK, FsTypeOK, Ways, Servers, Frozen, ReadSoFar, Flushed, Asked, Swallows, Fs, Held, Prepared,
            Opened, Reading, Cleaning, Ends, Exited, Places, work, AppWrites
<1>1. live' \in Versions
      BY SnapshotConstants DEF Versions
<1> QED BY <1>1

\* In every state the application, the snapshot, what was read and the targets are as the place
\* of the agent says.
THEOREM Invariance == Spec => []IInv
<1>1. IInv /\ UNCHANGED allVars => IInv'
      BY DEF IInv, TypeOK, FsTypeOK, Ways, Servers, Frozen, ReadSoFar, Flushed, Asked, Swallows, Fs, Held, Prepared,
             allVars
<1>2. IInv /\ [Next]_allVars => IInv'
  <2> SUFFICES ASSUME IInv, Next PROVE IInv'
      BY <1>1
  <2>1. CASE FsStep
        BY <2>1, ModeStep, SnapshotStep, ReadingStep, CleaningStep DEF FsStep, FsBackup
  <2>2. CASE AppWrites /\ UNCHANGED work
        BY <2>2, WriteStep
  <2>3. CASE Killed
        BY <2>3, MainStep
  <2>4. CASE Done
        BY <1>1, <2>4 DEF Done
  <2>6. CASE Hang \/ \E t \in Targets : ThreadHangs(t)
        BY <2>6, MainStep, TargetStep
  <2>5. CASE Step /\ ~FsStep
    <3>1. CASE \E t \in Targets : PoolThread(t) \/ EachBackup(t) \/ EachRestore(t)
                                   \/ EachAdmin(t) \/ EachOther(t)
          BY <3>1, TargetStep
    <3>2. CASE PoolWait \/ EachEnds \/ Verify
      <4>1. PICK t \in Targets : TRUE
            BY AgentConstants
      <4> QED BY <3>2, <4>1, TargetStep
    <3> QED BY <2>5, <3>1, <3>2, MainStep, JobStep DEF Step
  <2> QED BY <2>1, <2>2, <2>3, <2>4, <2>5, <2>6 DEF Next
<1> QED BY InitIInv, <1>2, PTL DEF Spec

\* However the application writes and whatever fails: a backup of a database that succeeds has
\* the one version of the files that prepare left, and one with a mounted snapshot reads that.
THEOREM ReadIsAlwaysConsistent == Spec => []ReadIsConsistent
<1>1. IInv => ReadIsConsistent
  <2> SUFFICES ASSUME IInv PROVE ConsistentRead /\ FrozenIsRead
      BY DEF IInv, ReadIsConsistent
  <2>1. ConsistentRead
        BY DEF IInv, ReadSoFar, Flushed, ConsistentRead, FsDone, Fs, Databases
  <2>2. FrozenIsRead
        BY DEF IInv, ReadSoFar, FrozenIsRead, Reading, Cleaning
  <2> QED BY <2>1, <2>2
<1> QED BY Invariance, <1>1, PTL

\* Whichever step fails, the agent leaves an application down or a snapshot behind only after
\* one of the failures that are named.
THEOREM AlwaysLeftAsFound == Spec => []LeftAsFound
<1>1. IInv => LeftAsFound
  <2> SUFFICES ASSUME IInv PROVE ServerComesBack /\ SnapshotGone /\ LockIsShort
      BY DEF LeftAsFound
  <2>1. ServerComesBack
        BY DEF IInv, TypeOK, FsTypeOK, Servers, ServerComesBack, Held, Prepared, Opened, Reading, Exited
  <2>2. SnapshotGone
        BY DEF IInv, Frozen, SnapshotGone, Exited
  <2>3. LockIsShort
        BY DEF IInv, Servers, LockIsShort
  <2> QED BY <2>1, <2>2, <2>3
<1> QED BY Invariance, <1>1, PTL

\* Exit code 0 says that everything asked for is done, for every set of targets, where no failure
\* may go unnoticed.
THEOREM ExitIsAlwaysHonest == Spec => []ExitIsHonest
<1>1. IInv => ExitIsHonest
      BY DEF IInv, TypeOK, Asked, ExitIsHonest
<1> QED BY Invariance, <1>1, PTL
-----------------------------------------------------------------------------
(* Cloud: the outlines of its scripts.                                     *)

Awaits == {"poll", "image", "wait_for", "upload", "volume"}
Lines  == [op : {"call", "make", "use", "drop", "break"} \cup Awaits,
           what : SUBSET Resources, from : SUBSET Resources, undo : SUBSET Resources]

\* What a resource may be made from.
Sources(d) ==
    CASE d \in {"copy"}            -> {"snapshot"}
      [] d = "image"               -> {"copy"}
      [] d \in {"volume", "server"} -> {"image"}
      [] d = "reservation"         -> {"copy"}
      [] d = "device"              -> {"reservation"}
      [] d = "mount"               -> {"tmpdir", "device"}
      [] d = "cwd"                 -> {"mount"}
      [] OTHER                     -> {}

\* Line e leads from h, what may be there, and s, what is ready, to h2 and s2.  One that
\* breaks leads nowhere.
Leads(e, h, s, h2, s2) ==
    /\ e.op \in {"make", "use"} => e.from \subseteq s
    /\ e.op = "make" => \A d \in e.what : e.from \subseteq Sources(d)
    /\ e.op = "drop" => \A d \in h : Sources(d) \cap e.what # {} => d \notin Local /\ d \in s
    /\ e.op \in {"poll", "image"} => \A q, r \in e.what : q = r
    /\ h2 = IF e.op = "make" THEN h \cup e.what
            ELSE IF e.op = "drop" THEN h \ e.what
            ELSE IF e.op = "break" THEN {} ELSE h
    /\ s2 = IF e.op = "make" THEN (s \ e.what) \cup (e.what \cap Local)
            ELSE IF e.op = "drop" THEN s \ e.what
            ELSE IF e.op = "break" THEN {}
            ELSE IF e.op \in Awaits THEN s \cup e.what ELSE s

Tables(p) == [1..Len(p) + 1 -> SUBSET Resources]

Annotates(p, H, S) == \A n \in 1..Len(p) : Leads(p[n], H[n], S[n], H[n + 1], S[n + 1])

\* Script p, or a part of one, leads from h and s to h2 and s2.
Outline(p, h, s, h2, s2) ==
    /\ p \in Seq(Lines) /\ Len(p) > 0
    /\ \E H, S \in Tables(p) :
           /\ Annotates(p, H, S)
           /\ H[1] = h /\ S[1] = s /\ H[Len(p) + 1] = h2 /\ S[Len(p) + 1] = s2

-----------------------------------------------------------------------------
(* Parts.                                                                  *)

LEMMA OneLine ==
    ASSUME NEW e \in Lines, NEW h \in SUBSET Resources, NEW s \in SUBSET Resources,
           NEW h2 \in SUBSET Resources, NEW s2 \in SUBSET Resources, Leads(e, h, s, h2, s2)
    PROVE  Outline(<<e>>, h, s, h2, s2)
<1> DEFINE H == [n \in 1..2 |-> IF n = 1 THEN h ELSE h2]
           S == [n \in 1..2 |-> IF n = 1 THEN s ELSE s2]
<1>1. <<e>> \in Seq(Lines) /\ Len(<<e>>) = 1 /\ <<e>>[1] = e
      OBVIOUS
<1>2. H \in Tables(<<e>>) /\ S \in Tables(<<e>>)
      BY <1>1 DEF Tables
<1>3. H[1] = h /\ S[1] = s /\ H[2] = h2 /\ S[2] = s2
      OBVIOUS
<1>4. Annotates(<<e>>, H, S)
  <2> SUFFICES ASSUME NEW n \in 1..1 PROVE Leads(<<e>>[n], H[n], S[n], H[n + 1], S[n + 1])
      BY <1>1 DEF Annotates
  <2>1. n = 1 /\ n + 1 = 2
        OBVIOUS
  <2> HIDE DEF H, S
  <2> QED BY <1>1, <1>3, <2>1
<1> HIDE DEF H, S
<1>5. Len(<<e>>) + 1 = 2
      BY <1>1
<1> QED BY <1>1, <1>2, <1>3, <1>4, <1>5 DEF Outline

LEMMA InTurn ==
    ASSUME NEW p, NEW q, NEW h, NEW s, NEW h2, NEW s2, NEW h3, NEW s3,
           Outline(p, h, s, h2, s2), Outline(q, h2, s2, h3, s3)
    PROVE  Outline(p \o q, h, s, h3, s3)
<1>1. p \in Seq(Lines) /\ q \in Seq(Lines) /\ Len(p) \in Nat /\ Len(q) \in Nat
      BY DEF Outline
<1>2. /\ p \o q \in Seq(Lines) /\ Len(p \o q) = Len(p) + Len(q)
      /\ \A n \in 1..Len(p) + Len(q) :
             (p \o q)[n] = IF n <= Len(p) THEN p[n] ELSE q[n - Len(p)]
      BY <1>1, ConcatProperties
<1>3. PICK H1, S1 \in Tables(p) :
          /\ Annotates(p, H1, S1)
          /\ H1[1] = h /\ S1[1] = s /\ H1[Len(p) + 1] = h2 /\ S1[Len(p) + 1] = s2
      BY DEF Outline
<1>4. PICK H2, S2 \in Tables(q) :
          /\ Annotates(q, H2, S2)
          /\ H2[1] = h2 /\ S2[1] = s2 /\ H2[Len(q) + 1] = h3 /\ S2[Len(q) + 1] = s3
      BY DEF Outline
<1> DEFINE M == Len(p)
           N == Len(q)
           H == [n \in 1..M + N + 1 |-> IF n <= M THEN H1[n] ELSE H2[n - M]]
           S == [n \in 1..M + N + 1 |-> IF n <= M THEN S1[n] ELSE S2[n - M]]
<1>5. /\ \A n \in 1..M + 1 : H[n] = H1[n] /\ S[n] = S1[n]
      /\ \A n \in 1..N + 1 : H[n + M] = H2[n] /\ S[n + M] = S2[n]
  <2>1. ASSUME NEW n \in 1..M + 1 PROVE H[n] = H1[n] /\ S[n] = S1[n]
    <3>1. CASE n <= M
          BY <1>1, <3>1
    <3>2. CASE n = M + 1
          BY <1>1, <1>3, <1>4, <3>2
    <3> QED BY <1>1, <3>1, <3>2
  <2>2. ASSUME NEW n \in 1..N + 1 PROVE H[n + M] = H2[n] /\ S[n + M] = S2[n]
        BY <1>1
  <2> QED BY <2>1, <2>2
<1>6. H \in Tables(p \o q) /\ S \in Tables(p \o q)
      BY <1>1, <1>2, <1>3, <1>4 DEF Tables
<1> HIDE DEF H, S
<1>7. Annotates(p \o q, H, S)
  <2> SUFFICES ASSUME NEW n \in 1..M + N
               PROVE  Leads((p \o q)[n], H[n], S[n], H[n + 1], S[n + 1])
      BY <1>2 DEF Annotates
  <2>1. CASE n <= M
    <3>1. n \in 1..M /\ n \in 1..M + 1 /\ n + 1 \in 1..M + 1 /\ (p \o q)[n] = p[n]
          BY <1>1, <1>2, <2>1
    <3> QED BY <1>3, <1>5, <3>1 DEF Annotates
  <2>2. CASE n > M
    <3>1. PICK m \in 1..N : n = m + M
      <4>1. n - M \in 1..N /\ n = (n - M) + M
            BY <1>1, <2>2
      <4> QED BY <4>1
    <3>2. (p \o q)[n] = q[m] /\ n + 1 = (m + 1) + M /\ m + 1 \in 1..N + 1 /\ m \in 1..N + 1
          BY <1>1, <1>2, <2>2, <3>1
    <3> QED BY <1>4, <1>5, <3>1, <3>2 DEF Annotates
  <2> QED BY <1>1, <2>1, <2>2
<1>8. H[1] = h /\ S[1] = s /\ H[Len(p \o q) + 1] = h3 /\ S[Len(p \o q) + 1] = s3
  <2>1. 1 \in 1..M + 1 /\ N + 1 \in 1..N + 1 /\ Len(p \o q) + 1 = (N + 1) + M
        BY <1>1, <1>2
  <2> QED BY <1>3, <1>4, <1>5, <2>1
<1> QED BY <1>2, <1>6, <1>7, <1>8 DEF Outline

-----------------------------------------------------------------------------
(* What each line does to what is there and ready.                         *)

LEMMA Calling ==
    ASSUME NEW h \in SUBSET Resources, NEW s \in SUBSET Resources,
           NEW undo \in SUBSET Resources
    PROVE  Outline(<<CallOr(undo)>>, h, s, h, s)
<1>1. CallOr(undo) \in Lines
      BY DEF CallOr, Line, Lines, Origin
<1>2. Leads(CallOr(undo), h, s, h, s)
      BY DEF CallOr, Line, Leads, Awaits
<1> QED BY <1>1, <1>2, OneLine

\* A service makes it: it is not ready at once.
LEMMA MakingThere ==
    ASSUME NEW h \in SUBSET Resources, NEW s \in SUBSET Resources, NEW h2,
           NEW what \in SUBSET (Resources \ Local), NEW from \in SUBSET Resources,
           NEW undo \in SUBSET Resources,
           from \subseteq s, \A d \in what : from \subseteq Sources(d), s \cap what = {},
           h2 = h \cup what
    PROVE  Outline(<<MakeOr(what, from, undo)>>, h, s, h2, s)
<1> DEFINE e == MakeOr(what, from, undo)
<1>1. e \in Lines /\ e.op = "make" /\ e.what = what /\ e.from = from
      BY DEF MakeOr, Line, Lines
<1>2. h2 \in SUBSET Resources
      OBVIOUS
<1>3. s = (s \ what) \cup (what \cap Local)
      OBVIOUS
<1> HIDE DEF e
<1>4. Leads(e, h, s, h2, s)
      BY <1>1, <1>3 DEF Leads
<1>5. Outline(<<e>>, h, s, h2, s)
      BY <1>1, <1>2, <1>4, OneLine
<1> QED BY <1>5 DEF e

\* The host makes it: it is ready.
LEMMA MakingHere ==
    ASSUME NEW h \in SUBSET Resources, NEW s \in SUBSET Resources, NEW h2, NEW s2,
           NEW r \in Local, NEW from \in SUBSET Resources, NEW undo \in SUBSET Resources,
           from \subseteq s, from \subseteq Sources(r),
           h2 = h \cup {r}, s2 = s \cup {r}
    PROVE  Outline(<<MakeOr({r}, from, undo)>>, h, s, h2, s2)
<1> DEFINE e == MakeOr({r}, from, undo)
<1>0. r \in Resources
      BY DEF Resources
<1>1. e \in Lines /\ e.op = "make" /\ e.what = {r} /\ e.from = from
      BY <1>0 DEF MakeOr, Line, Lines
<1>2. h2 \in SUBSET Resources /\ s2 \in SUBSET Resources
      BY <1>0
<1>3. s2 = (s \ {r}) \cup ({r} \cap Local)
      OBVIOUS
<1> HIDE DEF e
<1>4. Leads(e, h, s, h2, s2)
      BY <1>1, <1>3 DEF Leads
<1>5. Outline(<<e>>, h, s, h2, s2)
      BY <1>1, <1>2, <1>4, OneLine
<1> QED BY <1>5 DEF e

\* Awaits, and the upload of create_image.
LEMMA Awaiting ==
    ASSUME NEW h \in SUBSET Resources, NEW s \in SUBSET Resources, NEW s2,
           NEW how \in Awaits, NEW what \in SUBSET Resources, NEW undo \in SUBSET Resources,
           \A q, r \in what : q = r, s2 = s \cup what
    PROVE  Outline(<<Line(how, what, Origin, undo)>>, h, s, h, s2)
<1> DEFINE e == Line(how, what, Origin, undo)
<1>1. e \in Lines /\ e.op = how /\ e.what = what
      BY DEF Line, Lines, Origin
<1>2. s2 \in SUBSET Resources
      OBVIOUS
<1> HIDE DEF e
<1>3. Leads(e, h, s, h, s2)
      BY <1>1 DEF Leads, Awaits
<1>4. Outline(<<e>>, h, s, h, s2)
      BY <1>1, <1>2, <1>3, OneLine
<1> QED BY <1>4 DEF e

LEMMA Using ==
    ASSUME NEW h \in SUBSET Resources, NEW s \in SUBSET Resources,
           NEW from \in SUBSET Resources, from \subseteq s
    PROVE  Outline(<<Use(from)>>, h, s, h, s)
<1>1. Use(from) \in Lines
      BY DEF Use, Line, Lines
<1>2. Leads(Use(from), h, s, h, s)
      BY DEF Use, Line, Leads, Awaits
<1> QED BY <1>1, <1>2, OneLine

\* Nothing that may be there is still made from it.
LEMMA Dropping ==
    ASSUME NEW h \in SUBSET Resources, NEW s \in SUBSET Resources, NEW r \in Resources,
           NEW h2, NEW s2, \A d \in h : r \in Sources(d) => d \notin Local /\ d \in s,
           h2 = h \ {r}, s2 = s \ {r}
    PROVE  Outline(<<Drop(r)>>, h, s, h2, s2)
<1> DEFINE e == Drop(r)
<1>1. e \in Lines /\ e.op = "drop" /\ e.what = {r}
      BY DEF Drop, Line, Lines, Origin
<1>2. h2 \in SUBSET Resources /\ s2 \in SUBSET Resources
      OBVIOUS
<1> HIDE DEF e
<1>3. Leads(e, h, s, h2, s2)
      BY <1>1 DEF Leads
<1>4. Outline(<<e>>, h, s, h2, s2)
      BY <1>1, <1>2, <1>3, OneLine
<1> QED BY <1>4 DEF e

LEMMA Breaking ==
    ASSUME NEW h \in SUBSET Resources, NEW s \in SUBSET Resources
    PROVE  Outline(<<Break>>, h, s, {}, {})
<1>1. Break \in Lines
      BY DEF Break, Line, Lines, Origin
<1>2. Leads(Break, h, s, {}, {})
      BY DEF Break, Line, Leads, Awaits
<1> QED BY <1>1, <1>2, OneLine

-----------------------------------------------------------------------------
(* Lines in a row.                                                         *)

\* A sequence that agrees with two in a row is their concatenation.
LEMMA Glue ==
    ASSUME NEW S, NEW p \in Seq(S), NEW q \in Seq(S), NEW r \in Seq(S),
           Len(r) = Len(p) + Len(q),
           \A i \in 1..Len(p) : r[i] = p[i], \A i \in 1..Len(q) : r[i + Len(p)] = q[i]
    PROVE  r = p \o q
<1>1. /\ p \o q \in Seq(S) /\ Len(p \o q) = Len(p) + Len(q)
      /\ \A i \in 1..Len(p) + Len(q) : (p \o q)[i] = IF i <= Len(p) THEN p[i] ELSE q[i - Len(p)]
      BY ConcatProperties
<1>2. Len(p) \in Nat /\ Len(q) \in Nat
      OBVIOUS
<1>3. ASSUME NEW i \in 1..Len(r) PROVE r[i] = (p \o q)[i]
  <2>1. CASE i <= Len(p)
        BY <1>1, <1>2, <2>1
  <2>2. CASE i > Len(p)
    <3>1. i - Len(p) \in 1..Len(q) /\ (i - Len(p)) + Len(p) = i
          BY <1>2, <2>2
    <3> QED BY <1>1, <1>2, <2>2, <3>1
  <2> QED BY <1>2, <2>1, <2>2
<1> QED BY <1>1, <1>3, SeqEqual

LEMMA TwoAre ==
    ASSUME NEW a, NEW b
    PROVE  <<a, b>> = <<a>> \o <<b>>
<1> DEFINE All == {a, b}
<1>1. <<a>> \in Seq(All) /\ <<b>> \in Seq(All) /\ <<a, b>> \in Seq(All)
      OBVIOUS
<1>2. \A i \in 1..1 : i = 1
      OBVIOUS
<1>3. /\ \A i \in 1..1 : <<a, b>>[i] = <<a>>[i]
      /\ \A i \in 1..1 : <<a, b>>[i + 1] = <<b>>[i]
      BY <1>2
<1>4. Len(<<a, b>>) = 2 /\ Len(<<a>>) = 1 /\ Len(<<b>>) = 1
      OBVIOUS
<1> HIDE DEF All
<1>5. Len(<<a, b>>) = Len(<<a>>) + Len(<<b>>)
      BY <1>4
<1>6. /\ \A i \in 1..Len(<<a>>) : <<a, b>>[i] = <<a>>[i]
      /\ \A i \in 1..Len(<<b>>) : <<a, b>>[i + Len(<<a>>)] = <<b>>[i]
      BY <1>3, <1>4
<1> QED BY <1>1, <1>5, <1>6, Glue, Zenon

LEMMA ThreeAre ==
    ASSUME NEW a, NEW b, NEW c
    PROVE  <<a, b, c>> = <<a, b>> \o <<c>>
<1> DEFINE All == {a, b, c}
<1>1. <<a, b>> \in Seq(All) /\ <<c>> \in Seq(All) /\ <<a, b, c>> \in Seq(All)
      OBVIOUS
<1>2. \A i \in 1..1 : i = 1
      OBVIOUS
<1>3. \A i \in 1..2 : i = 1 \/ i = 2
      OBVIOUS
<1>4. /\ \A i \in 1..2 : <<a, b, c>>[i] = <<a, b>>[i]
      /\ \A i \in 1..1 : <<a, b, c>>[i + 2] = <<c>>[i]
      BY <1>2, <1>3
<1>5. Len(<<a, b, c>>) = 3 /\ Len(<<a, b>>) = 2 /\ Len(<<c>>) = 1
      OBVIOUS
<1> HIDE DEF All
<1> QED BY <1>1, <1>4, <1>5, Glue

LEMMA FiveAre ==
    ASSUME NEW a, NEW b, NEW c, NEW d, NEW e
    PROVE  <<a, b, c, d, e>> = <<a, b>> \o <<c, d, e>>
<1> DEFINE All == {a, b, c, d, e}
<1>1. <<a, b>> \in Seq(All) /\ <<c, d, e>> \in Seq(All) /\ <<a, b, c, d, e>> \in Seq(All)
      OBVIOUS
<1>2. \A i \in 1..2 : i = 1 \/ i = 2
      OBVIOUS
<1>3. \A i \in 1..3 : i = 1 \/ i = 2 \/ i = 3
      OBVIOUS
<1>4. /\ \A i \in 1..2 : <<a, b, c, d, e>>[i] = <<a, b>>[i]
      /\ \A i \in 1..3 : <<a, b, c, d, e>>[i + 2] = <<c, d, e>>[i]
      BY <1>2, <1>3
<1>5. Len(<<a, b, c, d, e>>) = 5 /\ Len(<<a, b>>) = 2 /\ Len(<<c, d, e>>) = 3
      OBVIOUS
<1> HIDE DEF All
<1> QED BY <1>1, <1>4, <1>5, Glue

LEMMA SixAre ==
    ASSUME NEW a, NEW b, NEW c, NEW d, NEW e, NEW f
    PROVE  <<a, b, c, d, e, f>> = <<a, b, c>> \o <<d, e, f>>
<1> DEFINE All == {a, b, c, d, e, f}
<1>1. <<a, b, c>> \in Seq(All) /\ <<d, e, f>> \in Seq(All) /\ <<a, b, c, d, e, f>> \in Seq(All)
      OBVIOUS
<1>2. \A i \in 1..3 : i = 1 \/ i = 2 \/ i = 3
      OBVIOUS
<1>3. /\ \A i \in 1..3 : <<a, b, c, d, e, f>>[i] = <<a, b, c>>[i]
      /\ \A i \in 1..3 : <<a, b, c, d, e, f>>[i + 3] = <<d, e, f>>[i]
      BY <1>2
<1>4. Len(<<a, b, c, d, e, f>>) = 6 /\ Len(<<a, b, c>>) = 3 /\ Len(<<d, e, f>>) = 3
      OBVIOUS
<1> HIDE DEF All
<1> QED BY <1>1, <1>3, <1>4, Glue

LEMMA EightAre ==
    ASSUME NEW a, NEW b, NEW c, NEW d, NEW e, NEW f, NEW g, NEW h
    PROVE  <<a, b, c, d, e, f, g, h>> = <<a, b, c, d>> \o <<e, f, g, h>>
<1> DEFINE All == {a, b, c, d, e, f, g, h}
<1>1. <<a, b, c, d>> \in Seq(All) /\ <<e, f, g, h>> \in Seq(All) /\ <<a, b, c, d, e, f, g, h>> \in Seq(All)
      OBVIOUS
<1>2. \A i \in 1..4 : i = 1 \/ i = 2 \/ i = 3 \/ i = 4
      OBVIOUS
<1>3. /\ \A i \in 1..4 : <<a, b, c, d, e, f, g, h>>[i] = <<a, b, c, d>>[i]
      /\ \A i \in 1..4 : <<a, b, c, d, e, f, g, h>>[i + 4] = <<e, f, g, h>>[i]
      BY <1>2
<1>4. Len(<<a, b, c, d, e, f, g, h>>) = 8 /\ Len(<<a, b, c, d>>) = 4 /\ Len(<<e, f, g, h>>) = 4
      OBVIOUS
<1> HIDE DEF All
<1> QED BY <1>1, <1>3, <1>4, Glue

LEMMA TwoLines ==
    ASSUME NEW a, NEW b, NEW h, NEW s, NEW h1, NEW s1, NEW h2, NEW s2,
           Outline(<<a>>, h, s, h1, s1), Outline(<<b>>, h1, s1, h2, s2)
    PROVE  Outline(<<a, b>>, h, s, h2, s2)
<1>1. <<a, b>> = <<a>> \o <<b>>
      BY TwoAre
<1>2. Outline(<<a>> \o <<b>>, h, s, h2, s2)
      BY InTurn
<1> QED BY <1>1, <1>2

LEMMA ThreeLines ==
    ASSUME NEW a, NEW b, NEW c, NEW h, NEW s, NEW h1, NEW s1, NEW h2, NEW s2, NEW h3, NEW s3,
           Outline(<<a>>, h, s, h1, s1), Outline(<<b>>, h1, s1, h2, s2),
           Outline(<<c>>, h2, s2, h3, s3)
    PROVE  Outline(<<a, b, c>>, h, s, h3, s3)
<1>1. <<a, b, c>> = <<a, b>> \o <<c>>
      BY ThreeAre
<1>2. Outline(<<a, b>> \o <<c>>, h, s, h3, s3)
      BY TwoLines, InTurn
<1> QED BY <1>1, <1>2

LEMMA FourLines ==
    ASSUME NEW a, NEW b, NEW c, NEW d, NEW h, NEW s, NEW h1, NEW s1, NEW h2, NEW s2,
           NEW h3, NEW s3, NEW h4, NEW s4,
           Outline(<<a>>, h, s, h1, s1), Outline(<<b>>, h1, s1, h2, s2),
           Outline(<<c>>, h2, s2, h3, s3), Outline(<<d>>, h3, s3, h4, s4)
    PROVE  Outline(<<a, b, c, d>>, h, s, h4, s4)
<1>1. <<a, b, c, d>> = <<a, b>> \o <<c, d>>
      OBVIOUS
<1>2. Outline(<<a, b>> \o <<c, d>>, h, s, h4, s4)
      BY TwoLines, InTurn
<1> QED BY <1>1, <1>2

LEMMA FiveLines ==
    ASSUME NEW a, NEW b, NEW c, NEW d, NEW e,
           NEW h, NEW s, NEW h1, NEW s1, NEW h2, NEW s2,
           Outline(<<a, b>>, h, s, h1, s1), Outline(<<c, d, e>>, h1, s1, h2, s2)
    PROVE  Outline(<<a, b, c, d, e>>, h, s, h2, s2)
<1>1. <<a, b, c, d, e>> = <<a, b>> \o <<c, d, e>>
      BY FiveAre
<1>2. Outline(<<a, b>> \o <<c, d, e>>, h, s, h2, s2)
      BY InTurn
<1> QED BY <1>1, <1>2

LEMMA SixLines ==
    ASSUME NEW a, NEW b, NEW c, NEW d, NEW e, NEW f,
           NEW h, NEW s, NEW h1, NEW s1, NEW h2, NEW s2,
           Outline(<<a, b, c>>, h, s, h1, s1), Outline(<<d, e, f>>, h1, s1, h2, s2)
    PROVE  Outline(<<a, b, c, d, e, f>>, h, s, h2, s2)
<1>1. <<a, b, c, d, e, f>> = <<a, b, c>> \o <<d, e, f>>
      BY SixAre
<1>2. Outline(<<a, b, c>> \o <<d, e, f>>, h, s, h2, s2)
      BY InTurn
<1> QED BY <1>1, <1>2

LEMMA EightLines ==
    ASSUME NEW a, NEW b, NEW c, NEW d, NEW e, NEW f, NEW g, NEW k,
           NEW h, NEW s, NEW h1, NEW s1, NEW h2, NEW s2,
           Outline(<<a, b, c, d>>, h, s, h1, s1), Outline(<<e, f, g, k>>, h1, s1, h2, s2)
    PROVE  Outline(<<a, b, c, d, e, f, g, k>>, h, s, h2, s2)
<1>1. <<a, b, c, d, e, f, g, k>> = <<a, b, c, d>> \o <<e, f, g, k>>
      BY EightAre
<1>2. Outline(<<a, b, c, d>> \o <<e, f, g, k>>, h, s, h2, s2)
      BY InTurn
<1> QED BY <1>1, <1>2

-----------------------------------------------------------------------------
(* The parts that the scripts share.                                       *)

LEMMA Snapshotted ==
    Outline(ProvideSnapshot, {}, {}, {"snapshot"}, {"snapshot"})
<1>1. Outline(<<Make({"snapshot"}, Origin)>>, {}, {}, {"snapshot"}, {})
      BY MakingThere DEF Make, Origin, Resources, Local
<1>2. Outline(<<Await("poll", {"snapshot"})>>, {"snapshot"}, {}, {"snapshot"}, {"snapshot"})
      BY Awaiting DEF Await, Awaits, Resources
<1> QED BY <1>1, <1>2, TwoLines DEF ProvideSnapshot

\* BrickSnapshot does the same, with wait_for.
LEMMA BrickSnapshotted ==
    Outline(BrickSnapshot, {}, {}, {"snapshot", "copy"}, {"snapshot", "copy"})
<1>1. Outline(<<Make({"snapshot"}, Origin)>>, {}, {}, {"snapshot"}, {})
      BY MakingThere DEF Make, Origin, Resources, Local
<1>2. Outline(<<Await("wait_for", {"snapshot"})>>, {"snapshot"}, {}, {"snapshot"}, {"snapshot"})
      BY Awaiting DEF Await, Awaits, Resources
<1>3. Outline(<<Make({"copy"}, {"snapshot"})>>, {"snapshot"}, {"snapshot"},
              {"snapshot", "copy"}, {"snapshot"})
      BY MakingThere DEF Make, Sources, Resources, Local
<1>4. Outline(<<Await("wait_for", {"copy"})>>, {"snapshot", "copy"}, {"snapshot"},
              {"snapshot", "copy"}, {"snapshot", "copy"})
      BY Awaiting DEF Await, Awaits, Resources
<1> QED BY <1>1, <1>2, <1>3, <1>4, FourLines DEF BrickSnapshot

LEMMA Copied ==
    ASSUME NEW h \in SUBSET Resources, NEW s \in SUBSET Resources,
           "snapshot" \in s, "copy" \notin s
    PROVE  Outline(DoCopyVolume, h, s, h \cup {"copy"}, s \cup {"copy"})
<1>1. Outline(<<Make({"copy"}, {"snapshot"})>>, h, s, h \cup {"copy"}, s)
      BY MakingThere DEF Make, Sources, Resources, Local
<1>2. h \cup {"copy"} \in SUBSET Resources
      BY DEF Resources
<1>3. Outline(<<Await("poll", {"copy"})>>, h \cup {"copy"}, s, h \cup {"copy"}, s \cup {"copy"})
      BY <1>2, Awaiting DEF Await, Awaits, Resources
<1> QED BY <1>1, <1>3, TwoLines DEF DoCopyVolume

LEMMA Imaged ==
    ASSUME NEW h \in SUBSET Resources, NEW s \in SUBSET Resources,
           "copy" \in s, "image" \notin s
    PROVE  Outline(MakeGlanceImage, h, s, h \cup {"image"}, s \cup {"image"})
<1>1. Outline(<<Make({"image"}, {"copy"})>>, h, s, h \cup {"image"}, s)
      BY MakingThere DEF Make, Sources, Resources, Local
<1>2. h \cup {"image"} \in SUBSET Resources /\ {"image"} \in SUBSET Resources
      BY DEF Resources
<1>3. Outline(<<Call>>, h \cup {"image"}, s, h \cup {"image"}, s)
      BY <1>2, Calling DEF Call
<1>4. Outline(<<Await("image", {"image"})>>, h \cup {"image"}, s, h \cup {"image"}, s \cup {"image"})
      BY <1>2, Awaiting DEF Await, Awaits
<1> QED BY <1>1, <1>3, <1>4, ThreeLines DEF MakeGlanceImage

LEMMA Created ==
    ASSUME NEW h \in SUBSET Resources, NEW s \in SUBSET Resources,
           NEW undo \in SUBSET Resources, "image" \notin s
    PROVE  Outline(CreateImage(undo), h, s, h \cup {"image"}, s \cup {"image"})
<1>1. Outline(<<MakeOr({"image"}, Origin, undo)>>, h, s, h \cup {"image"}, s)
      BY MakingThere DEF Origin, Resources, Local
<1>2. h \cup {"image"} \in SUBSET Resources /\ {"image"} \in SUBSET Resources
      BY DEF Resources
<1>3. Outline(<<Line("upload", {"image"}, Origin, undo)>>,
              h \cup {"image"}, s, h \cup {"image"}, s \cup {"image"})
      BY <1>2, Awaiting DEF Awaits
<1> QED BY <1>1, <1>3, TwoLines DEF CreateImage

LEMMA Attached ==
    ASSUME NEW h \in SUBSET Resources, NEW s \in SUBSET Resources,
           NEW volume \in SUBSET {"copy"}, volume \subseteq s
    PROVE  Outline(Attach(volume), h, s,
                   h \cup {"reservation", "device"}, s \cup {"reservation", "device"})
<1> DEFINE h1 == h \cup {"reservation"}
           s1 == s \cup {"reservation"}
           h2 == h \cup {"reservation", "device"}
           s2 == s \cup {"reservation", "device"}
           undo == {"reservation"}
<1>1. /\ h1 \in SUBSET Resources /\ s1 \in SUBSET Resources /\ h2 \in SUBSET Resources
      /\ s2 \in SUBSET Resources /\ undo \in SUBSET Resources /\ volume \in SUBSET Resources
      BY DEF Resources, Local
<1>2. "reservation" \in Local /\ "device" \in Local
      BY DEF Local
<1>3. volume \subseteq Sources("reservation") /\ {"reservation"} \subseteq Sources("device")
      BY DEF Sources
<1>4. Outline(<<Call>>, h, s, h, s)
      BY Calling DEF Call
<1>5. Outline(<<MakeOr({"reservation"}, volume, undo)>>, h, s, h1, s1)
      BY <1>1, <1>2, <1>3, MakingHere
<1>6. Outline(<<CallOr(undo)>>, h1, s1, h1, s1)
      BY <1>1, Calling
<1>7. Outline(<<MakeOr({"device"}, {"reservation"}, undo)>>, h1, s1, h2, s2)
  <2>1. h2 = h1 \cup {"device"} /\ s2 = s1 \cup {"device"} /\ {"reservation"} \subseteq s1
        OBVIOUS
  <2> HIDE DEF h1, s1, h2, s2
  <2> QED BY <1>1, <1>2, <1>3, <2>1, MakingHere
<1>8. Outline(<<CallOr(undo)>>, h2, s2, h2, s2)
      BY <1>1, Calling
<1> HIDE DEF h1, s1, h2, s2
<1>9. Outline(<<Call, MakeOr({"reservation"}, volume, undo)>>, h, s, h1, s1)
      BY <1>4, <1>5, TwoLines
<1>10. Outline(<<CallOr(undo), MakeOr({"device"}, {"reservation"}, undo), CallOr(undo)>>,
               h1, s1, h2, s2)
      BY <1>6, <1>7, <1>8, ThreeLines
<1>11. Outline(Attach(volume), h, s, h2, s2)
      BY <1>9, <1>10, FiveLines DEF Attach
<1> QED BY <1>11 DEF h2, s2

LEMMA Detached ==
    ASSUME NEW h \in SUBSET Resources, NEW s \in SUBSET Resources, "mount" \notin h
    PROVE  Outline(Detach, h, s, h \ {"device", "reservation"}, s \ {"device", "reservation"})
<1> DEFINE h1 == h \ {"device"}
           s1 == s \ {"device"}
           h2 == h \ {"device", "reservation"}
           s2 == s \ {"device", "reservation"}
<1>1. /\ h1 \in SUBSET Resources /\ s1 \in SUBSET Resources /\ h2 \in SUBSET Resources
      /\ s2 \in SUBSET Resources
      OBVIOUS
<1>2. Outline(<<Call>>, h, s, h, s) /\ Outline(<<Call>>, h1, s1, h1, s1)
      BY <1>1, Calling DEF Call
<1>3. Outline(<<Drop("device")>>, h, s, h1, s1)
      BY Dropping DEF Sources, Resources, Local
<1>4. Outline(<<Drop("reservation")>>, h1, s1, h2, s2)
  <2>1. h2 = h1 \ {"reservation"} /\ s2 = s1 \ {"reservation"} /\ "device" \notin h1
        OBVIOUS
  <2> HIDE DEF h1, s1, h2, s2
  <2> QED BY <1>1, <2>1, Dropping DEF Sources, Resources, Local
<1> HIDE DEF h1, s1, h2, s2
<1>5. Outline(<<Call, Call>>, h, s, h, s)
      BY <1>2, TwoLines
<1>6. Outline(<<Drop("device"), Call, Drop("reservation")>>, h, s, h2, s2)
      BY <1>2, <1>3, <1>4, ThreeLines
<1>7. Outline(Detach, h, s, h2, s2)
      BY <1>5, <1>6, FiveLines DEF Detach
<1> QED BY <1>7 DEF h2, s2

\* How the backup of a volume ends.
LEMMA UsedAndDropped ==
    Outline(<<Use({"image"}), Drop("snapshot"), Drop("copy"), Drop("image")>>,
            {"snapshot", "copy", "image"}, {"snapshot", "copy", "image"}, {}, {})
<1> DEFINE h  == {"snapshot", "copy", "image"}
           s  == {"snapshot", "copy", "image"}
           h1 == {"copy", "image"}
           s1 == s \ {"snapshot"}
           h2 == {"image"}
           s2 == s1 \ {"copy"}
<1>1. /\ h \in SUBSET Resources /\ s \in SUBSET Resources /\ h1 \in SUBSET Resources
      /\ s1 \in SUBSET Resources /\ h2 \in SUBSET Resources /\ s2 \in SUBSET Resources
      BY DEF Resources
<1>2. Outline(<<Use({"image"})>>, h, s, h, s)
      BY <1>1, Using
<1>3. Outline(<<Drop("snapshot")>>, h, s, h1, s1)
  <2>1. \A d \in h : "snapshot" \in Sources(d) => d \notin Local /\ d \in s
        BY DEF Sources, Local
  <2>2. h1 = h \ {"snapshot"} /\ "snapshot" \in Resources
        BY DEF Resources
  <2> HIDE DEF h, h1
  <2> QED BY <1>1, <2>1, <2>2, Dropping
<1>4. Outline(<<Drop("copy")>>, h1, s1, h2, s2)
  <2>1. \A d \in h1 : "copy" \in Sources(d) => d \notin Local /\ d \in s1
        BY DEF Sources, Local
  <2>2. h2 = h1 \ {"copy"} /\ "copy" \in Resources
        BY DEF Resources
  <2> HIDE DEF h1, s1, h2
  <2> QED BY <1>1, <2>1, <2>2, Dropping DEF s2
<1>5. Outline(<<Drop("image")>>, h2, s2, {}, {})
  <2>1. \A d \in h2 : "image" \in Sources(d) => d \notin Local /\ d \in s2
        BY DEF Sources
  <2>2. {} = h2 \ {"image"} /\ {} = s2 \ {"image"} /\ "image" \in Resources
        BY DEF Resources
  <2> HIDE DEF h2, s2
  <2> QED BY <1>1, <2>1, <2>2, Dropping
<1> HIDE DEF h, s, h1, s1, h2, s2
<1>6. Outline(<<Use({"image"}), Drop("snapshot"), Drop("copy"), Drop("image")>>, h, s, {}, {})
      BY <1>2, <1>3, <1>4, <1>5, FourLines
<1> QED BY <1>6 DEF h, s

-----------------------------------------------------------------------------
(* The scripts.                                                            *)

LEMMA CinderBackupOutlined == Outline(CinderBackup, {}, {}, {}, {})
<1> DEFINE r1 == {"snapshot"}
           r2 == {"snapshot", "copy"}
           r3 == {"snapshot", "copy", "image"}
<1>1. Outline(<<Call>>, {}, {}, {}, {})
      BY Calling DEF Call
<1>2. Outline(ProvideSnapshot, {}, {}, r1, r1)
      BY Snapshotted
<1>3. Outline(DoCopyVolume, r1, r1, r2, r2)
  <2>1. r1 \in SUBSET Resources /\ "snapshot" \in r1 \cup {} /\ "copy" \notin r1
        /\ r2 = r1 \cup {"copy"}
        BY DEF Resources
  <2> HIDE DEF r1, r2
  <2> QED BY <2>1, Copied
<1>4. Outline(MakeGlanceImage, r2, r2, r3, r3)
  <2>1. r2 \in SUBSET Resources /\ "copy" \in r2 /\ "image" \notin r2 /\ r3 = r2 \cup {"image"}
        BY DEF Resources
  <2> HIDE DEF r2, r3
  <2> QED BY <2>1, Imaged
<1>5. Outline(<<Use({"image"}), Drop("snapshot"), Drop("copy"), Drop("image")>>,
              r3, r3, {}, {})
      BY UsedAndDropped
<1> HIDE DEF r1, r2, r3
<1>6. Outline(<<Call>> \o ProvideSnapshot, {}, {}, r1, r1)
      BY <1>1, <1>2, InTurn
<1>7. Outline(<<Call>> \o ProvideSnapshot \o DoCopyVolume, {}, {}, r2, r2)
      BY <1>3, <1>6, InTurn
<1>8. Outline(<<Call>> \o ProvideSnapshot \o DoCopyVolume \o MakeGlanceImage,
              {}, {}, r3, r3)
      BY <1>4, <1>7, InTurn
<1> QED BY <1>5, <1>8, InTurn DEF CinderBackup

LEMMA NovaImageOutlined == Outline(NovaImageBackup, {}, {}, {}, {})
<1> DEFINE r == {"image"}
<1>1. Outline(<<Call>>, {}, {}, {}, {}) /\ Outline(<<Call>>, r, {}, r, {})
      /\ Outline(<<Call>>, r, r, r, r)
      BY Calling DEF Call, Resources
<1>2. Outline(<<Make({"image"}, Origin)>>, {}, {}, r, {})
      BY MakingThere DEF Make, Origin, Resources, Local
<1>3. Outline(<<Await("wait_for", {"image"})>>, r, {}, r, r)
      BY Awaiting DEF Await, Awaits, Resources
<1>4. Outline(<<Use({"image"})>>, r, r, r, r)
      BY Using DEF Resources
<1>5. Outline(<<Drop("image")>>, r, r, {}, {})
      BY Dropping DEF Sources, Resources
<1> HIDE DEF r
<1>6. Outline(<<Call, Call, Make({"image"}, Origin), Call>>, {}, {}, r, {})
      BY <1>1, <1>2, FourLines
<1>7. Outline(<<Await("wait_for", {"image"}), Call, Use({"image"}), Drop("image")>>,
              r, {}, {}, {})
      BY <1>1, <1>3, <1>4, <1>5, FourLines
<1> QED BY <1>6, <1>7, EightLines DEF NovaImageBackup

LEMMA NovaVolumeOutlined == Outline(NovaVolumeBackup, {}, {}, {}, {})
<1> DEFINE h == {"image", "snapshot"}
           i == {"image"}
<1>0. h \in SUBSET Resources /\ i \in SUBSET Resources
      BY DEF Resources
<1>1. Outline(<<Call>>, {}, {}, {}, {}) /\ Outline(<<Call>>, h, {}, h, {})
      /\ Outline(<<Call>>, h, i, h, i)
      BY <1>0, Calling DEF Call
<1>2. Outline(<<Make({"image", "snapshot"}, Origin)>>, {}, {}, h, {})
      BY MakingThere DEF Make, Origin, Resources, Local
<1>3. Outline(<<Await("wait_for", {"image"})>>, h, {}, h, i)
      BY Awaiting DEF Await, Awaits, Resources
<1>4. Outline(<<Break>>, h, i, {}, {})
      BY <1>0, Breaking
<1> HIDE DEF h, i
<1>5. Outline(<<Call, Call, Make({"image", "snapshot"}, Origin)>>, {}, {}, h, {})
      BY <1>1, <1>2, ThreeLines
<1>6. Outline(<<Call, Await("wait_for", {"image"}), Call>>, h, {}, h, i)
      BY <1>1, <1>3, ThreeLines
<1>7. Outline(<<Call, Call, Make({"image", "snapshot"}, Origin), Call,
                Await("wait_for", {"image"}), Call>>, {}, {}, h, i)
      BY <1>5, <1>6, SixLines
<1> QED BY <1>4, <1>7, InTurn DEF NovaVolumeBackup

LEMMA GlanceBackupOutlined == Outline(GlanceBackup, {}, {}, {}, {})
<1>1. Outline(<<Call>>, {}, {}, {}, {})
      BY Calling DEF Call
<1>2. Outline(<<Use(Origin)>>, {}, {}, {}, {})
      BY Using DEF Origin
<1> QED BY <1>1, <1>2, TwoLines DEF GlanceBackup

LEMMA BrickBackupOutlined == Outline(BrickBackup, {}, {}, {}, {})
<1> DEFINE r1 == {"snapshot", "copy"}
           r2 == {"snapshot", "copy", "tmpdir"}
           r3 == {"snapshot", "copy", "tmpdir", "reservation", "device"}
           r4 == {"snapshot", "copy", "tmpdir", "reservation", "device", "mount"}
           r5 == {"snapshot", "copy", "tmpdir", "reservation", "device", "mount", "cwd"}
           r6 == {"snapshot", "copy", "reservation", "device"}
           r7 == {"snapshot"}
           mounting == <<MakeOr({"mount"}, {"tmpdir", "device"}, {"device", "reservation"}),
                      Make({"cwd"}, {"mount"}), Use({"mount"}),
                      Drop("cwd"), Drop("mount"), Drop("tmpdir")>>
           last == <<Await("wait_for", {"copy"}), Drop("copy"), Drop("snapshot")>>
<1>0. /\ r1 \in SUBSET Resources /\ r2 \in SUBSET Resources /\ r3 \in SUBSET Resources
      /\ r4 \in SUBSET Resources /\ r5 \in SUBSET Resources /\ r6 \in SUBSET Resources
      /\ r7 \in SUBSET Resources
      BY DEF Resources, Local
<1>1. Outline(<<Call>>, {}, {}, {}, {})
      BY Calling DEF Call
<1>2. Outline(BrickSnapshot, {}, {}, r1, r1)
      BY BrickSnapshotted
<1>3. Outline(<<Make({"tmpdir"}, Origin)>>, r1, r1, r2, r2)
  <2>1. r2 = r1 \cup {"tmpdir"} /\ "tmpdir" \in Local
        BY DEF Local
  <2> HIDE DEF r1, r2
  <2> QED BY <1>0, <2>1, MakingHere DEF Make, Origin
<1>4. Outline(Attach({"copy"}), r2, r2, r3, r3)
  <2>1. {"copy"} \subseteq r2 /\ r3 = r2 \cup {"reservation", "device"}
        OBVIOUS
  <2> HIDE DEF r2, r3
  <2> QED BY <1>0, <2>1, Attached
<1>5. Outline(mounting, r3, r3, r6, r6)
  <2>1. Outline(<<MakeOr({"mount"}, {"tmpdir", "device"}, {"device", "reservation"})>>,
                r3, r3, r4, r4)
    <3>1. r4 = r3 \cup {"mount"} /\ "mount" \in Local
          /\ {"tmpdir", "device"} \subseteq r3 /\ {"tmpdir", "device"} \subseteq Sources("mount")
          /\ {"tmpdir", "device"} \in SUBSET Resources
          /\ {"device", "reservation"} \in SUBSET Resources
          BY DEF Resources, Local, Sources
    <3> HIDE DEF r3, r4
    <3> QED BY <1>0, <3>1, MakingHere
  <2>2. Outline(<<Make({"cwd"}, {"mount"})>>, r4, r4, r5, r5)
    <3>1. r5 = r4 \cup {"cwd"} /\ "cwd" \in Local /\ {"mount"} \subseteq r4
          /\ {"mount"} \subseteq Sources("cwd") /\ {"mount"} \in SUBSET Resources
          BY DEF Resources, Local, Sources
    <3> HIDE DEF r4, r5
    <3> QED BY <1>0, <3>1, MakingHere DEF Make
  <2>3. Outline(<<Use({"mount"})>>, r5, r5, r5, r5)
    <3>1. {"mount"} \subseteq r5 /\ {"mount"} \in SUBSET Resources
          BY DEF Resources, Local
    <3> HIDE DEF r5
    <3> QED BY <1>0, <3>1, Using
  <2>4. Outline(<<Drop("cwd")>>, r5, r5, r4, r4)
    <3>1. r4 = r5 \ {"cwd"} /\ "cwd" \in Resources /\ \A d \in r5 : "cwd" \notin Sources(d)
          BY DEF Resources, Local, Sources
    <3> HIDE DEF r4, r5
    <3> QED BY <1>0, <3>1, Dropping
  <2>5. Outline(<<Drop("mount")>>, r4, r4, r3, r3)
    <3>1. r3 = r4 \ {"mount"} /\ "mount" \in Resources /\ \A d \in r4 : "mount" \notin Sources(d)
          BY DEF Resources, Local, Sources
    <3> HIDE DEF r3, r4
    <3> QED BY <1>0, <3>1, Dropping
  <2>6. Outline(<<Drop("tmpdir")>>, r3, r3, r6, r6)
    <3>1. r6 = r3 \ {"tmpdir"} /\ "tmpdir" \in Resources /\ \A d \in r3 : "tmpdir" \notin Sources(d)
          BY DEF Resources, Local, Sources
    <3> HIDE DEF r3, r6
    <3> QED BY <1>0, <3>1, Dropping
  <2> HIDE DEF r3, r4, r5, r6
  <2>7. Outline(<<MakeOr({"mount"}, {"tmpdir", "device"}, {"device", "reservation"}),
                  Make({"cwd"}, {"mount"}), Use({"mount"})>>, r3, r3, r5, r5)
        BY <2>1, <2>2, <2>3, ThreeLines
  <2>8. Outline(<<Drop("cwd"), Drop("mount"), Drop("tmpdir")>>, r5, r5, r6, r6)
        BY <2>4, <2>5, <2>6, ThreeLines
  <2> QED BY <2>7, <2>8, SixLines
<1>6. Outline(Detach, r6, r6, r1, r1)
  <2>1. r1 = r6 \ {"device", "reservation"} /\ "mount" \notin r6
        OBVIOUS
  <2> HIDE DEF r1, r6
  <2> QED BY <1>0, <2>1, Detached
<1>7. Outline(last, r1, r1, {}, {})
  <2>1. Outline(<<Await("wait_for", {"copy"})>>, r1, r1, r1, r1)
        BY Awaiting DEF Await, Awaits, Resources
  <2>2. Outline(<<Drop("copy")>>, r1, r1, r7, r7)
    <3>1. r7 = r1 \ {"copy"} /\ "copy" \in Resources /\ \A d \in r1 : "copy" \notin Sources(d)
          BY DEF Resources, Sources
    <3> HIDE DEF r1, r7
    <3> QED BY <1>0, <3>1, Dropping
  <2>3. Outline(<<Drop("snapshot")>>, r7, r7, {}, {})
    <3>1. {} = r7 \ {"snapshot"} /\ "snapshot" \in Resources /\ \A d \in r7 : "snapshot" \notin Sources(d)
          BY DEF Resources, Sources
    <3> HIDE DEF r7
    <3> QED BY <1>0, <3>1, Dropping
  <2> HIDE DEF r1, r7
  <2> QED BY <2>1, <2>2, <2>3, ThreeLines
<1> HIDE DEF r1, r2, r3, r4, r5, r6, r7, mounting, last
<1>8. Outline(<<Call>> \o BrickSnapshot, {}, {}, r1, r1)
      BY <1>1, <1>2, InTurn
<1>9. Outline(<<Call>> \o BrickSnapshot \o <<Make({"tmpdir"}, Origin)>>, {}, {}, r2, r2)
      BY <1>3, <1>8, InTurn
<1>10. Outline(<<Call>> \o BrickSnapshot \o <<Make({"tmpdir"}, Origin)>> \o Attach({"copy"}),
               {}, {}, r3, r3)
       BY <1>4, <1>9, InTurn
<1>11. Outline(<<Call>> \o BrickSnapshot \o <<Make({"tmpdir"}, Origin)>> \o Attach({"copy"})
               \o mounting, {}, {}, r6, r6)
       BY <1>5, <1>10, InTurn
<1>12. Outline(<<Call>> \o BrickSnapshot \o <<Make({"tmpdir"}, Origin)>> \o Attach({"copy"})
               \o mounting \o Detach, {}, {}, r1, r1)
       BY <1>6, <1>11, InTurn
<1>13. Outline(<<Call>> \o BrickSnapshot \o <<Make({"tmpdir"}, Origin)>> \o Attach({"copy"})
               \o mounting \o Detach \o last, {}, {}, {}, {})
       BY <1>7, <1>12, InTurn
<1> QED BY <1>13 DEF BrickBackup, mounting, last

\* Whatever comes first leaves r, and the volume is one of these.
LEMMA BrickRestoreOutlined ==
    ASSUME NEW first, NEW r \in SUBSET {"snapshot", "copy"},
           NEW volume \in SUBSET {"copy"}, volume \subseteq r,
           (first = <<>> /\ r = {}) \/ Outline(first, {}, {}, r, r)
    PROVE  Outline(BrickRestore(first, volume), {}, {}, r, r)
<1> DEFINE r2 == r \cup {"tmpdir"}
           r3 == r \cup {"tmpdir", "reservation", "device"}
           r4 == r \cup {"tmpdir", "reservation", "device", "mount"}
           r6 == r \cup {"reservation", "device"}
           mounting == <<Call, Make({"mount"}, {"tmpdir", "device"}), Use({"mount"}),
                      Drop("mount"), Drop("tmpdir")>>
<1>0. /\ r \in SUBSET Resources /\ r2 \in SUBSET Resources /\ r3 \in SUBSET Resources
      /\ r4 \in SUBSET Resources /\ r6 \in SUBSET Resources
      BY DEF Resources, Local
<1>1. Outline(<<Call>>, {}, {}, {}, {})
      BY Calling DEF Call
<1>2. Outline(<<Call, Make({"tmpdir"}, Origin)>>, r, r, r2, r2)
  <2>1. "tmpdir" \in Local
        BY DEF Local
  <2>2. Outline(<<Call>>, r, r, r, r)
        BY <1>0, Calling DEF Call
  <2>3. Outline(<<Make({"tmpdir"}, Origin)>>, r, r, r2, r2)
        BY <1>0, <2>1, MakingHere DEF Make, Origin
  <2> QED BY <2>2, <2>3, TwoLines
<1>3. Outline(Attach(volume), r2, r2, r3, r3)
  <2>1. volume \subseteq r2 /\ r3 = r2 \cup {"reservation", "device"}
        OBVIOUS
  <2> HIDE DEF r2, r3
  <2> QED BY <1>0, <2>1, Attached
<1>4. Outline(mounting, r3, r3, r6, r6)
  <2>1. Outline(<<Call>>, r3, r3, r3, r3)
        BY <1>0, Calling DEF Call
  <2>2. Outline(<<Make({"mount"}, {"tmpdir", "device"})>>, r3, r3, r4, r4)
    <3>1. r4 = r3 \cup {"mount"} /\ "mount" \in Local
          /\ {"tmpdir", "device"} \subseteq r3 /\ {"tmpdir", "device"} \subseteq Sources("mount")
          /\ {"tmpdir", "device"} \in SUBSET Resources
          BY DEF Resources, Local, Sources
    <3> HIDE DEF r3, r4
    <3> QED BY <1>0, <3>1, MakingHere DEF Make
  <2>3. Outline(<<Use({"mount"})>>, r4, r4, r4, r4)
    <3>1. {"mount"} \subseteq r4 /\ {"mount"} \in SUBSET Resources
          BY DEF Resources, Local
    <3> HIDE DEF r4
    <3> QED BY <1>0, <3>1, Using
  <2>4. Outline(<<Drop("mount")>>, r4, r4, r3, r3)
    <3>1. r3 = r4 \ {"mount"} /\ "mount" \in Resources /\ \A d \in r4 : "mount" \notin Sources(d)
          BY DEF Resources, Local, Sources
    <3> HIDE DEF r3, r4
    <3> QED BY <1>0, <3>1, Dropping
  <2>5. Outline(<<Drop("tmpdir")>>, r3, r3, r6, r6)
    <3>1. r6 = r3 \ {"tmpdir"} /\ "tmpdir" \in Resources /\ \A d \in r3 : "tmpdir" \notin Sources(d)
          BY DEF Resources, Local, Sources
    <3> HIDE DEF r3, r6
    <3> QED BY <1>0, <3>1, Dropping
  <2> HIDE DEF r3, r4, r6
  <2>6. Outline(<<Call, Make({"mount"}, {"tmpdir", "device"})>>, r3, r3, r4, r4)
        BY <2>1, <2>2, TwoLines
  <2>7. Outline(<<Use({"mount"}), Drop("mount"), Drop("tmpdir")>>, r4, r4, r6, r6)
        BY <2>3, <2>4, <2>5, ThreeLines
  <2> QED BY <2>6, <2>7, FiveLines
<1>5. Outline(Detach, r6, r6, r, r)
  <2>1. r = r6 \ {"device", "reservation"} /\ "mount" \notin r6
        OBVIOUS
  <2> HIDE DEF r6
  <2> QED BY <1>0, <2>1, Detached
<1>6. Outline(<<Await("wait_for", volume)>>, r, r, r, r)
      BY <1>0, Awaiting DEF Await, Awaits, Resources
<1> HIDE DEF r2, r3, r4, r6, mounting
<1>7. Outline(<<Call>> \o first, {}, {}, r, r)
  <2>1. CASE first = <<>> /\ r = {}
    <3>1. <<Call>> \o <<>> = <<Call>>
          BY <1>1, ConcatEmptySeq DEF Outline
    <3> QED BY <1>1, <2>1, <3>1
  <2>2. CASE Outline(first, {}, {}, r, r)
        BY <1>1, <2>2, InTurn
  <2> QED BY <2>1, <2>2
<1>8. Outline(<<Call>> \o first \o <<Call, Make({"tmpdir"}, Origin)>>, {}, {}, r2, r2)
      BY <1>2, <1>7, InTurn
<1>9. Outline(<<Call>> \o first \o <<Call, Make({"tmpdir"}, Origin)>> \o Attach(volume),
              {}, {}, r3, r3)
      BY <1>3, <1>8, InTurn
<1>10. Outline(<<Call>> \o first \o <<Call, Make({"tmpdir"}, Origin)>> \o Attach(volume)
               \o mounting, {}, {}, r6, r6)
       BY <1>4, <1>9, InTurn
<1>11. Outline(<<Call>> \o first \o <<Call, Make({"tmpdir"}, Origin)>> \o Attach(volume)
               \o mounting \o Detach, {}, {}, r, r)
       BY <1>5, <1>10, InTurn
<1>12. Outline(<<Call>> \o first \o <<Call, Make({"tmpdir"}, Origin)>> \o Attach(volume)
               \o mounting \o Detach \o <<Await("wait_for", volume)>>, {}, {}, r, r)
       BY <1>6, <1>11, InTurn
<1> QED BY <1>12 DEF BrickRestore, mounting

LEMMA CinderRestoreOutlined ==
    ASSUME NEW open, NEW undo \in SUBSET Resources, NEW close, NEW r \in SUBSET {"tmpfile"},
           Outline(open, {}, {}, r, r),
           \/ close = <<>> /\ r = {}
           \/ Outline(close, r \cup {"image"}, r \cup {"image"}, {"image"}, {"image"})
    PROVE  Outline(CinderRestore(open, undo, close), {}, {}, {"volume"}, {"volume"})
<1> DEFINE i == {"image"}
           b == {"image", "volume"}
           v == {"volume"}
           last == <<Make({"volume"}, {"image"}), Await("volume", {"volume"}), Drop("image")>>
<1>1. Outline(CreateImage(undo), r, r, r \cup i, r \cup i)
  <2>1. r \in SUBSET Resources /\ "image" \notin r
        BY DEF Resources, Local
  <2> QED BY <2>1, Created
<1>2. Outline(last, i, i, v, v)
  <2>0. i \in SUBSET Resources /\ b \in SUBSET Resources
        BY DEF Resources
  <2>1. Outline(<<Make({"volume"}, {"image"})>>, i, i, b, i)
    <3>1. /\ {"volume"} \in SUBSET (Resources \ Local) /\ {"image"} \in SUBSET Resources
          /\ \A d \in {"volume"} : {"image"} \subseteq Sources(d)
          /\ i \cap {"volume"} = {} /\ b = i \cup {"volume"} /\ {"image"} \subseteq i
          BY DEF Resources, Local, Sources
    <3> HIDE DEF i, b
    <3> QED BY <2>0, <3>1, MakingThere DEF Make
  <2>2. Outline(<<Await("volume", {"volume"})>>, b, i, b, b)
        BY <2>0, Awaiting DEF Await, Awaits, Resources
  <2>3. Outline(<<Drop("image")>>, b, b, v, v)
    <3>1. v = b \ {"image"} /\ "image" \in Resources
          /\ \A d \in b : "image" \in Sources(d) => d \notin Local /\ d \in b
          BY DEF Resources, Sources, Local
    <3> HIDE DEF b, v
    <3> QED BY <2>0, <3>1, Dropping
  <2> HIDE DEF i, b, v
  <2> QED BY <2>1, <2>2, <2>3, ThreeLines
<1>3. (close = <<>> /\ r = {}) \/ Outline(close, r \cup i, r \cup i, i, i)
      OBVIOUS
<1> HIDE DEF i, b, v, last
<1>4. Outline(open \o CreateImage(undo), {}, {}, r \cup i, r \cup i)
      BY <1>1, InTurn
<1>5. Outline(open \o CreateImage(undo) \o close, {}, {}, i, i)
  <2>1. CASE close = <<>> /\ r = {}
    <3>1. open \o CreateImage(undo) \o <<>> = open \o CreateImage(undo)
          BY <1>4, ConcatEmptySeq DEF Outline
    <3>2. r \cup i = i
          BY <2>1
    <3> QED BY <1>4, <2>1, <3>1, <3>2
  <2>2. CASE Outline(close, r \cup i, r \cup i, i, i)
        BY <1>4, <2>2, InTurn
  <2> QED BY <1>3, <2>1, <2>2
<1>6. Outline(open \o CreateImage(undo) \o close \o last, {}, {}, v, v)
      BY <1>2, <1>5, InTurn
<1> QED BY <1>6 DEF CinderRestore, last, v

LEMMA FromFileOutlined == Outline(FromFile, {}, {}, {"volume"}, {"volume"})
<1> DEFINE t == {"tmpfile"}
           open == <<Call, Make({"tmpfile"}, Origin), CallOr({"tmpfile"})>>
           close == <<Drop("tmpfile")>>
           both == {"tmpfile", "image"}
<1>0. t \in SUBSET Resources /\ both \in SUBSET Resources /\ {"image"} \in SUBSET Resources
      BY DEF Resources, Local
<1>1. Outline(open, {}, {}, t, t)
  <2>1. Outline(<<Call>>, {}, {}, {}, {})
        BY Calling DEF Call
  <2>2. Outline(<<Make({"tmpfile"}, Origin)>>, {}, {}, t, t)
        BY MakingHere DEF Make, Origin, Resources, Local
  <2>3. Outline(<<CallOr({"tmpfile"})>>, t, t, t, t)
        BY <1>0, Calling
  <2> HIDE DEF t
  <2> QED BY <2>1, <2>2, <2>3, ThreeLines
<1>2. Outline(close, both, both, {"image"}, {"image"})
  <2>1. {"image"} = both \ {"tmpfile"} /\ "tmpfile" \in Resources
        /\ \A d \in both : "tmpfile" \notin Sources(d)
        BY DEF Resources, Sources, Local
  <2> HIDE DEF both
  <2> QED BY <1>0, <2>1, Dropping
<1>3. t \in SUBSET {"tmpfile"} /\ both = t \cup {"image"}
      OBVIOUS
<1> HIDE DEF open, close, both
<1> QED BY <1>0, <1>1, <1>2, <1>3, CinderRestoreOutlined DEF FromFile, open, close, t

LEMMA FromStreamOutlined == Outline(FromStream, {}, {}, {"volume"}, {"volume"})
<1>1. Outline(<<Call>>, {}, {}, {}, {})
      BY Calling DEF Call
<1>2. {} \in SUBSET Resources /\ {} \in SUBSET {"tmpfile"}
      OBVIOUS
<1> QED BY <1>1, <1>2, CinderRestoreOutlined DEF FromStream

LEMMA Extracted ==
    Outline(ExtractFiles, {"image"}, {"image"}, {"image", "tmpdir"}, {"image", "tmpdir"})
<1> DEFINE i == {"image"}
           b == {"image", "tmpdir"}
<1>0. i \in SUBSET Resources /\ b \in SUBSET Resources /\ "tmpdir" \in Local
      BY DEF Resources, Local
<1>1. Outline(<<Make({"tmpdir"}, Origin)>>, i, i, b, b)
  <2>1. b = i \cup {"tmpdir"}
        OBVIOUS
  <2> HIDE DEF i, b
  <2> QED BY <1>0, <2>1, MakingHere DEF Make, Origin
<1>2. Outline(<<Call>>, b, b, b, b)
      BY <1>0, Calling DEF Call
<1> HIDE DEF i, b
<1>3. Outline(ExtractFiles, i, i, b, b)
      BY <1>1, <1>2, TwoLines DEF ExtractFiles
<1> QED BY <1>3 DEF i, b

\* The image is created, and what was backed up beside it is extracted, or nothing is.
LEMMA CreatedWith ==
    ASSUME NEW files, NEW r,
           \/ files = <<>> /\ r = {"image"}
           \/ files = ExtractFiles /\ r = {"image", "tmpdir"}
    PROVE  Outline(<<Call>> \o CreateImage({}) \o files, {}, {}, r, r)
<1> DEFINE i == {"image"}
<1>1. Outline(<<Call>>, {}, {}, {}, {})
      BY Calling DEF Call
<1>2. Outline(CreateImage({}), {}, {}, i, i)
      BY Created
<1> HIDE DEF i
<1>3. Outline(<<Call>> \o CreateImage({}), {}, {}, i, i)
      BY <1>1, <1>2, InTurn
<1>4. CASE files = <<>> /\ r = {"image"}
  <2>1. <<Call>> \o CreateImage({}) \o <<>> = <<Call>> \o CreateImage({})
        BY <1>3, ConcatEmptySeq DEF Outline
  <2> QED BY <1>3, <1>4, <2>1 DEF i
<1>5. CASE files = ExtractFiles /\ r = {"image", "tmpdir"}
  <2>1. Outline(ExtractFiles, i, i, r, r)
        BY <1>5, Extracted DEF i
  <2> QED BY <1>3, <1>5, <2>1, InTurn
<1> QED BY <1>4, <1>5

LEMMA NovaRestoreOutlined ==
    ASSUME NEW files, NEW r,
           \/ files = <<>> /\ r = {"image"}
           \/ files = ExtractFiles /\ r = {"image", "tmpdir"}
    PROVE  Outline(NovaRestore(files), {}, {}, r \cup {"server"}, r)
<1> DEFINE b == r \cup {"server"}
           last == <<Await("wait_for", {"image"}), Call, Make({"server"}, {"image"})>>
<1>0. r \in SUBSET Resources
      BY DEF Resources, Local
<1>1. Outline(<<Call>> \o CreateImage({}) \o files, {}, {}, r, r)
      BY CreatedWith
<1>2. Outline(<<Call>>, r, r, r, r)
      BY <1>0, Calling DEF Call
<1>3. Outline(<<Await("wait_for", {"image"})>>, r, r, r, r)
  <2>1. {"image"} \in SUBSET Resources /\ r = r \cup {"image"}
        BY DEF Resources
  <2> QED BY <1>0, <2>1, Awaiting DEF Await, Awaits
<1>4. Outline(<<Make({"server"}, {"image"})>>, r, r, b, r)
  <2>1. /\ {"server"} \in SUBSET (Resources \ Local) /\ {"image"} \in SUBSET Resources
        /\ \A d \in {"server"} : {"image"} \subseteq Sources(d)
        /\ r \cap {"server"} = {} /\ b = r \cup {"server"} /\ {"image"} \subseteq r
        BY DEF Resources, Local, Sources
  <2> HIDE DEF b
  <2> QED BY <1>0, <2>1, MakingThere DEF Make
<1> HIDE DEF b
<1>5. Outline(last, r, r, b, r)
      BY <1>2, <1>3, <1>4, ThreeLines
<1> HIDE DEF last
<1>6. Outline(<<Call>> \o CreateImage({}) \o files \o last, {}, {}, b, r)
      BY <1>1, <1>5, InTurn
<1> QED BY <1>6 DEF NovaRestore, last, b

LEMMA GlanceRestoreOutlined ==
    ASSUME NEW files, NEW r,
           \/ files = <<>> /\ r = {"image"}
           \/ files = ExtractFiles /\ r = {"image", "tmpdir"}
    PROVE  Outline(GlanceRestore(files), {}, {}, r, r)
<1>1. r \in SUBSET Resources /\ {"image"} \in SUBSET Resources /\ r = r \cup {"image"}
      BY DEF Resources, Local
<1>2. Outline(<<Call>> \o CreateImage({}) \o files, {}, {}, r, r)
      BY CreatedWith
<1>3. Outline(<<Await("wait_for", {"image"})>>, r, r, r, r)
      BY <1>1, Awaiting DEF Await, Awaits
<1> QED BY <1>2, <1>3, InTurn DEF GlanceRestore

\* What is there when a procedure returns.
Remains(j) == Result(j) \cup Leaves(j)

LEMMA AllAreOutlined ==
    ASSUME NEW j \in Backups \cup Restores
    PROVE  \E h \in SUBSET Remains(j), s \in SUBSET Resources :
               Outline(Script(j), {}, {}, h, s)
<1>1. CASE j = "cinder backup"
      BY <1>1, CinderBackupOutlined DEF Script
<1>2. CASE j = "nova image backup"
      BY <1>2, NovaImageOutlined DEF Script
<1>3. CASE j = "nova volume backup"
      BY <1>3, NovaVolumeOutlined DEF Script
<1>4. CASE j = "glance backup"
      BY <1>4, GlanceBackupOutlined DEF Script
<1>5. CASE j = "brick backup"
      BY <1>5, BrickBackupOutlined DEF Script
<1>6. CASE j = "brick restore"
  <2>1. Outline(BrickRestore(<<>>, {}), {}, {}, {}, {})
    <3>1. {} \in SUBSET {"snapshot", "copy"} /\ {} \in SUBSET {"copy"} /\ {} \subseteq {}
          OBVIOUS
    <3> QED BY <3>1, BrickRestoreOutlined
  <2> QED BY <1>6, <2>1 DEF Script, Origin
<1>7. CASE j = "brick restore new"
  <2> DEFINE c == {"copy"}
             first == <<Make({"copy"}, Origin), Await("wait_for", {"copy"})>>
  <2>1. Outline(first, {}, {}, c, c)
    <3>1. Outline(<<Make({"copy"}, Origin)>>, {}, {}, c, {})
          BY MakingThere DEF Make, Origin, Resources, Local
    <3>2. Outline(<<Await("wait_for", {"copy"})>>, c, {}, c, c)
          BY Awaiting DEF Await, Awaits, Resources
    <3> HIDE DEF c
    <3> QED BY <3>1, <3>2, TwoLines
  <2>2. c \in SUBSET {"snapshot", "copy"} /\ c \in SUBSET {"copy"} /\ c \subseteq c
        OBVIOUS
  <2> HIDE DEF c, first
  <2>3. Outline(BrickRestore(first, c), {}, {}, c, c)
        BY <2>1, <2>2, BrickRestoreOutlined
  <2>4. c \in SUBSET Remains(j) /\ c \in SUBSET Resources
        BY <1>7 DEF Remains, Leaves, Result, Resources, c
  <2> QED BY <1>7, <2>3, <2>4 DEF Script, c, first
<1>8. CASE j = "brick restore copy"
  <2> DEFINE c == {"copy"}
             r == {"snapshot", "copy"}
  <2>1. Outline(BrickSnapshot, {}, {}, r, r)
        BY BrickSnapshotted
  <2>2. r \in SUBSET {"snapshot", "copy"} /\ c \in SUBSET {"copy"} /\ c \subseteq r
        OBVIOUS
  <2> HIDE DEF c, r
  <2>3. Outline(BrickRestore(BrickSnapshot, c), {}, {}, r, r)
        BY <2>1, <2>2, BrickRestoreOutlined
  <2>4. r \in SUBSET Remains(j) /\ r \in SUBSET Resources
        BY <1>8 DEF Remains, Leaves, Result, Resources, r
  <2> QED BY <1>8, <2>3, <2>4 DEF Script, c
<1>9. CASE j = "cinder restore file"
  <2>1. {"volume"} \in SUBSET Remains(j) /\ {"volume"} \in SUBSET Resources
        BY <1>9 DEF Remains, Leaves, Result, Resources
  <2> QED BY <1>9, <2>1, FromFileOutlined DEF Script
<1>10. CASE j = "cinder restore"
  <2>1. {"volume"} \in SUBSET Remains(j) /\ {"volume"} \in SUBSET Resources
        BY <1>10 DEF Remains, Leaves, Result, Resources
  <2> QED BY <1>10, <2>1, FromStreamOutlined DEF Script
<1>11. CASE j = "nova restore"
  <2>1. Outline(NovaRestore(<<>>), {}, {}, {"image"} \cup {"server"}, {"image"})
        BY NovaRestoreOutlined
  <2>2. {"image"} \cup {"server"} \in SUBSET Remains(j) /\ {"image"} \in SUBSET Resources
        BY <1>11 DEF Remains, Leaves, Result, Resources, Local
  <2> QED BY <1>11, <2>1, <2>2 DEF Script
<1>12. CASE j = "nova restore key"
  <2>1. Outline(NovaRestore(ExtractFiles), {}, {}, {"image", "tmpdir"} \cup {"server"}, {"image", "tmpdir"})
        BY NovaRestoreOutlined
  <2>2. {"image", "tmpdir"} \cup {"server"} \in SUBSET Remains(j) /\ {"image", "tmpdir"} \in SUBSET Resources
        BY <1>12 DEF Remains, Leaves, Result, Resources, Local
  <2> QED BY <1>12, <2>1, <2>2 DEF Script
<1>13. CASE j = "glance restore"
  <2>1. Outline(GlanceRestore(<<>>), {}, {}, {"image"}, {"image"})
        BY GlanceRestoreOutlined
  <2>2. {"image"} \in SUBSET Remains(j) /\ {"image"} \in SUBSET Resources
        BY <1>13 DEF Remains, Leaves, Result, Resources, Local
  <2> QED BY <1>13, <2>1, <2>2 DEF Script
<1>14. CASE j = "glance restore key"
  <2>1. Outline(GlanceRestore(ExtractFiles), {}, {}, {"image", "tmpdir"}, {"image", "tmpdir"})
        BY GlanceRestoreOutlined
  <2>2. {"image", "tmpdir"} \in SUBSET Remains(j) /\ {"image", "tmpdir"} \in SUBSET Resources
        BY <1>14 DEF Remains, Leaves, Result, Resources, Local
  <2> QED BY <1>14, <2>1, <2>2 DEF Script
<1> QED BY <1>1, <1>2, <1>3, <1>4, <1>5, <1>6, <1>7, <1>8, <1>9, <1>10,
           <1>11, <1>12, <1>13, <1>14
        DEF Backups, Restores

-----------------------------------------------------------------------------
(* The state keeps to the outline of the script.                           *)

Keeps(H, S) ==
    /\ There \subseteq H[at]
    /\ outcome = "running" => \A r \in S[at] : state[r] = "ready"

Follows(H, S) ==
    /\ H \in Tables(Script(job)) /\ S \in Tables(Script(job))
    /\ Annotates(Script(job), H, S)
    /\ H[Len(Script(job)) + 1] \subseteq Remains(job)
    /\ Keeps(H, S)

\* What an endless wait has raised for is gone, or could not be removed.
FailedIsGone ==
    outcome = "raised" /\ ~unremoved /\ Now.op \in {"poll", "image"} =>
        \A r \in Now.what : state[r] \in {"removed", "lost"}

CloudInv ==
    /\ CloudTypeOK
    /\ FailedIsGone
    /\ job = "rotation" => outcome = "running"
    /\ job # "rotation" => Script(job) \in Seq(Lines) /\ \E H, S : Follows(H, S)

LEMMA CloudInitially == CloudInit => CloudInv
<1> SUFFICES ASSUME CloudInit PROVE CloudInv
    OBVIOUS
<1>1. There = {} /\ FailedIsGone
      BY DEF CloudInit, There, FailedIsGone
<1>2. CASE job = "rotation"
      BY <1>1, <1>2 DEF CloudInit, CloudInv, CloudTypeOK
<1>3. CASE job \in Backups \cup Restores
  <2>1. PICK h \in SUBSET Remains(job), s \in SUBSET Resources :
            Outline(Script(job), {}, {}, h, s)
        BY <1>3, AllAreOutlined
  <2>2. PICK H, S \in Tables(Script(job)) :
            /\ Annotates(Script(job), H, S)
            /\ H[1] = {} /\ S[1] = {} /\ H[Len(Script(job)) + 1] = h
        BY <2>1 DEF Outline
  <2>3. Script(job) \in Seq(Lines) /\ Len(Script(job)) \in Nat /\ Len(Script(job)) > 0
        BY <2>1 DEF Outline
  <2>4. Follows(H, S)
        BY <1>1, <2>2 DEF CloudInit, Follows, Keeps
  <2>5. CloudTypeOK
    <3>1. state \in [Resources -> {"absent", "pending", "ready", "error", "lost", "removed"}]
          BY DEF CloudInit
    <3>2. at \in 1..(Len(Script(job)) + 1) /\ (outcome = "returned" <=> at > Len(Script(job)))
          BY <2>3 DEF CloudInit
    <3> QED BY <3>1, <3>2 DEF CloudInit, CloudTypeOK
  <2>6. outcome = "running"
        BY DEF CloudInit
  <2> QED BY <1>1, <1>3, <2>3, <2>4, <2>5, <2>6 DEF CloudInv
<1> QED BY <1>2, <1>3 DEF CloudInit

Statuses == {"absent", "pending", "ready", "error", "lost", "removed"}

\* The line that the procedure has reached.
LEMMA TheLine ==
    ASSUME CloudInv, NEW ops, At(ops), NEW H, NEW S, Follows(H, S)
    PROVE  /\ at \in 1..Len(Script(job)) /\ Len(Script(job)) \in Nat
           /\ Now \in Lines /\ Now.op \in ops
           /\ Leads(Now, H[at], S[at], H[at + 1], S[at + 1])
           /\ H[at] \in SUBSET Resources /\ S[at] \in SUBSET Resources
           /\ There \subseteq H[at] /\ \A r \in S[at] : state[r] = "ready"
<1>1. Script(job) \in Seq(Lines) /\ Len(Script(job)) \in Nat
      BY DEF CloudInv, At
<1>2. at \in 1..Len(Script(job))
      BY <1>1 DEF CloudInv, CloudTypeOK, At
<1>3. Now \in Lines
      BY <1>1, <1>2 DEF Now
<1>4. H[at] \in SUBSET Resources /\ S[at] \in SUBSET Resources
      BY <1>1, <1>2 DEF Follows, Tables
<1>5. Leads(Now, H[at], S[at], H[at + 1], S[at + 1])
      BY <1>2 DEF Follows, Annotates, Now
<1> QED BY <1>1, <1>2, <1>3, <1>4, <1>5 DEF Follows, Keeps, At

LEMMA GoesOn ==
    ASSUME CloudInv, NEW ops, At(ops), Advance, UNCHANGED <<job, unremoved>>,
           state' \in [Resources -> Statuses],
           \A H, S : Follows(H, S) => /\ There' \subseteq H[at + 1]
                                      /\ \A r \in S[at + 1] : state'[r] = "ready"
    PROVE  CloudInv'
<1>1. PICK H, S : Follows(H, S)
      BY DEF CloudInv, At
<1>2. at \in 1..Len(Script(job)) /\ Len(Script(job)) \in Nat
      BY <1>1, TheLine
<1>3. at' = at + 1 /\ outcome' = IF at = Len(Script(job)) THEN "returned" ELSE "running"
      BY DEF Advance
<1>4. Script(job)' = Script(job) /\ Remains(job)' = Remains(job)
      OBVIOUS
<1>5. CloudTypeOK'
  <2>1. at' \in 1..(Len(Script(job)) + 1) /\ (outcome' = "returned" <=> at' > Len(Script(job)))
        BY <1>2, <1>3
  <2>2. outcome' \in {"running", "returned", "raised", "abandoned"}
        BY <1>3
  <2> QED BY <1>4, <2>1, <2>2 DEF CloudInv, CloudTypeOK, Statuses
<1>6. FailedIsGone'
      BY <1>3 DEF FailedIsGone
<1>7. Follows(H, S)'
      BY <1>1, <1>3, <1>4 DEF Follows, Keeps
<1>8. Script(job)' \in Seq(Lines)
      BY <1>4 DEF CloudInv, At
<1>9. job' = job /\ job # "rotation"
      BY DEF At
<1> QED BY <1>5, <1>6, <1>7, <1>8, <1>9 DEF CloudInv

LEMMA Stops ==
    ASSUME CloudInv, NEW ops, At(ops), outcome' \in {"raised", "abandoned"}, UNCHANGED <<job, at>>,
           state' \in [Resources -> Statuses], unremoved' \in BOOLEAN, There' \subseteq There,
           FailedIsGone'
    PROVE  CloudInv'
<1>1. PICK H, S : Follows(H, S)
      BY DEF CloudInv, At
<1>2. at \in 1..Len(Script(job)) /\ Len(Script(job)) \in Nat
      BY <1>1, TheLine
<1>3. Script(job)' = Script(job) /\ Remains(job)' = Remains(job)
      OBVIOUS
<1>4. CloudTypeOK'
  <2>1. at' \in 1..(Len(Script(job)) + 1) /\ (outcome' = "returned" <=> at' > Len(Script(job)))
        BY <1>2
  <2> QED BY <1>3, <2>1 DEF CloudInv, CloudTypeOK, Statuses
<1>5. Follows(H, S)'
      BY <1>1, <1>3 DEF Follows, Keeps
<1>6. Script(job)' \in Seq(Lines)
      BY <1>3 DEF CloudInv, At
<1>7. job' = job /\ job # "rotation"
      BY DEF At
<1> QED BY <1>4, <1>5, <1>6, <1>7 DEF CloudInv

LEMMA Raises ==
    ASSUME CloudInv, NEW ops, At(ops), NEW undo, RaiseAfter(undo), UNCHANGED job,
           Now.op \in {"poll", "image"} =>
               \A r \in Now.what : state[r] = "lost" \/ (state[r] = "error" /\ r \in undo)
    PROVE  CloudInv'
<1>1. state \in [Resources -> Statuses] /\ unremoved \in BOOLEAN
      BY DEF CloudInv, CloudTypeOK, Statuses
<1>2. outcome' = "raised" /\ at' = at /\ Now' = Now
      BY DEF RaiseAfter, Now
<1> DEFINE there == {r \in undo : state[r] # "absent"}
<1>3. CASE /\ state' = [r \in Resources |-> IF r \in there THEN "removed" ELSE state[r]]
           /\ UNCHANGED unremoved
  <2>1. state' \in [Resources -> Statuses]
        BY <1>1, <1>3 DEF Statuses
  <2>2. There' \subseteq There
        BY <1>1, <1>3 DEF There
  <2>3. FailedIsGone'
    <3> SUFFICES ASSUME Now.op \in {"poll", "image"}, NEW r \in Now.what
                 PROVE  state'[r] \in {"removed", "lost"}
        BY <1>2 DEF FailedIsGone
    <3>1. PICK H, S : Follows(H, S)
          BY DEF CloudInv, At
    <3>2. r \in Resources
          BY <3>1, TheLine DEF Lines
    <3>3. state'[r] = IF r \in there THEN "removed" ELSE state[r]
          BY <1>3, <3>2
    <3> QED BY <3>3
  <2> QED BY <1>1, <1>2, <1>3, <2>1, <2>2, <2>3, Stops
<1>4. CASE there # {} /\ UNCHANGED state /\ unremoved' = TRUE
  <2>1. FailedIsGone' /\ There' = There
        BY <1>4 DEF FailedIsGone, There
  <2> QED BY <1>1, <1>2, <1>4, <2>1, Stops
<1> QED BY <1>3, <1>4 DEF RaiseAfter

LEMMA StepCalls == CloudInv /\ Calls => CloudInv'
<1> SUFFICES ASSUME CloudInv, Calls PROVE CloudInv'
    OBVIOUS
<1>1. At({"call"}) /\ UNCHANGED job
      BY DEF Calls
<1>2. CASE Advance /\ UNCHANGED <<state, unremoved>>
  <2>1. state' \in [Resources -> Statuses] /\ There' = There
        BY <1>2 DEF CloudInv, CloudTypeOK, Statuses, There
  <2>2. ASSUME NEW H, NEW S, Follows(H, S)
        PROVE  There' \subseteq H[at + 1] /\ \A r \in S[at + 1] : state'[r] = "ready"
    <3>1. /\ H[at + 1] = H[at] /\ There \subseteq H[at] /\ S[at + 1] = S[at]
          /\ \A r \in S[at] : state[r] = "ready"
          BY <1>1, <2>2, TheLine DEF Leads, Awaits, At
    <3> QED BY <1>2, <2>1, <3>1
  <2> QED BY <1>1, <1>2, <2>1, <2>2, GoesOn
<1>3. CASE RaiseAfter(Now.undo)
  <2>1. Now.op = "call"
        BY <1>1 DEF At
  <2> QED BY <1>1, <1>3, <2>1, Raises
<1> QED BY <1>2, <1>3 DEF Calls

LEMMA StepMakes == CloudInv /\ Makes => CloudInv'
<1> SUFFICES ASSUME CloudInv, Makes PROVE CloudInv'
    OBVIOUS
<1>1. At({"make"}) /\ UNCHANGED job /\ Now.op = "make"
      BY DEF Makes, At
<1>2. CASE /\ state' = [r \in Resources |-> IF r \notin Now.what THEN state[r]
                                            ELSE IF r \in Local THEN "ready" ELSE "pending"]
           /\ Advance /\ UNCHANGED unremoved
  <2>1. state' \in [Resources -> Statuses]
        BY <1>2 DEF CloudInv, CloudTypeOK, Statuses
  <2>2. There' \subseteq There \cup Now.what
        BY <1>2 DEF There
  <2>3. ASSUME NEW H, NEW S, Follows(H, S)
        PROVE  There' \subseteq H[at + 1] /\ \A r \in S[at + 1] : state'[r] = "ready"
    <3>1. /\ H[at + 1] = H[at] \cup Now.what /\ There \subseteq H[at]
          /\ S[at + 1] = (S[at] \ Now.what) \cup (Now.what \cap Local)
          /\ S[at] \in SUBSET Resources /\ Now.what \in SUBSET Resources
          /\ \A r \in S[at] : state[r] = "ready"
          BY <1>1, <2>3, TheLine DEF Leads, Lines
    <3>2. ASSUME NEW r \in S[at + 1] PROVE state'[r] = "ready"
          BY <1>2, <3>1
    <3> QED BY <2>2, <3>1, <3>2
  <2> QED BY <1>1, <1>2, <2>1, <2>3, GoesOn
<1>3. CASE RaiseAfter(Now.undo)
      BY <1>1, <1>3, Raises
<1> QED BY <1>2, <1>3 DEF Makes

LEMMA StepUses == CloudInv /\ Uses => CloudInv'
<1> SUFFICES ASSUME CloudInv, Uses PROVE CloudInv'
    OBVIOUS
<1>1. At({"use"}) /\ UNCHANGED job /\ Now.op = "use"
      BY DEF Uses, At
<1>2. CASE Advance /\ UNCHANGED <<state, unremoved>>
  <2>1. state' \in [Resources -> Statuses] /\ There' = There
        BY <1>2 DEF CloudInv, CloudTypeOK, Statuses, There
  <2>2. ASSUME NEW H, NEW S, Follows(H, S)
        PROVE  There' \subseteq H[at + 1] /\ \A r \in S[at + 1] : state'[r] = "ready"
        BY <1>1, <1>2, <2>1, <2>2, TheLine DEF Leads, Awaits
  <2> QED BY <1>1, <1>2, <2>1, <2>2, GoesOn
<1>3. CASE RaiseAfter({})
      BY <1>1, <1>3, Raises
<1>4. CASE outcome' = "abandoned" /\ UNCHANGED <<at, state, unremoved>>
  <2>1. /\ state' \in [Resources -> Statuses] /\ There' = There /\ FailedIsGone'
        /\ unremoved' \in BOOLEAN
        BY <1>4 DEF CloudInv, CloudTypeOK, Statuses, There, FailedIsGone
  <2> QED BY <1>1, <1>4, <2>1, Stops
<1> QED BY <1>2, <1>3, <1>4 DEF Uses

LEMMA StepDrops == CloudInv /\ Drops => CloudInv'
<1> SUFFICES ASSUME CloudInv, Drops PROVE CloudInv'
    OBVIOUS
<1>1. At({"drop"}) /\ UNCHANGED job /\ Now.op = "drop"
      BY DEF Drops, At
<1>2. CASE /\ state' = [r \in Resources |-> IF r \in Now.what THEN "removed" ELSE state[r]]
           /\ Advance /\ UNCHANGED unremoved
  <2>1. state' \in [Resources -> Statuses]
        BY <1>2 DEF CloudInv, CloudTypeOK, Statuses
  <2>2. There' \subseteq There \ Now.what
        BY <1>2 DEF There
  <2>3. ASSUME NEW H, NEW S, Follows(H, S)
        PROVE  There' \subseteq H[at + 1] /\ \A r \in S[at + 1] : state'[r] = "ready"
    <3>1. /\ H[at + 1] = H[at] \ Now.what /\ There \subseteq H[at]
          /\ S[at + 1] = S[at] \ Now.what
          /\ S[at] \in SUBSET Resources
          /\ \A r \in S[at] : state[r] = "ready"
          BY <1>1, <2>3, TheLine DEF Leads, Awaits
    <3>2. ASSUME NEW r \in S[at + 1] PROVE state'[r] = "ready"
          BY <1>2, <3>1
    <3> QED BY <2>2, <3>1, <3>2
  <2> QED BY <1>1, <1>2, <2>1, <2>3, GoesOn
<1>3. CASE UNCHANGED <<at, state>> /\ outcome' = "raised" /\ unremoved' = TRUE
  <2>1. state' \in [Resources -> Statuses] /\ There' = There /\ FailedIsGone'
        BY <1>3 DEF CloudInv, CloudTypeOK, Statuses, There, FailedIsGone
  <2> QED BY <1>1, <1>3, <2>1, Stops
<1> QED BY <1>2, <1>3 DEF Drops

LEMMA StepAwaitsReady == CloudInv /\ AwaitsReady => CloudInv'
<1> SUFFICES ASSUME CloudInv, AwaitsReady PROVE CloudInv'
    OBVIOUS
<1>1. /\ At(Awaits) /\ Now.op \in Awaits /\ Advance /\ UNCHANGED <<job, state, unremoved>>
      /\ \A r \in Now.what : state[r] = "ready"
      BY DEF AwaitsReady, At, Awaits, IsReady
<1>2. state' \in [Resources -> Statuses] /\ There' = There
      BY <1>1 DEF CloudInv, CloudTypeOK, Statuses, There
<1>3. ASSUME NEW H, NEW S, Follows(H, S)
      PROVE  There' \subseteq H[at + 1] /\ \A r \in S[at + 1] : state'[r] = "ready"
  <2>1. /\ H[at + 1] = H[at] /\ There \subseteq H[at]
        /\ S[at + 1] = S[at] \cup Now.what
        /\ \A r \in S[at] : state[r] = "ready"
        BY <1>1, <1>3, TheLine DEF Leads, Awaits
  <2> QED BY <1>1, <1>2, <2>1
<1> QED BY <1>1, <1>2, <1>3, GoesOn

\* What is awaited with poll and image is one resource.
LEMMA OnlyOne ==
    ASSUME CloudInv, NEW how \in {"poll", "image"}, NEW status, Finds(how, status)
    PROVE  At({how}) /\ \A r \in Now.what : state[r] \in status
<1>1. PICK H, S : Follows(H, S)
      BY DEF CloudInv, Finds, At
<1>2. At({how}) /\ Now.op \in {"poll", "image"}
      BY DEF Finds, At
<1>3. \A q, r \in Now.what : q = r
      BY <1>1, <1>2, TheLine DEF Leads
<1> QED BY <1>2, <1>3 DEF Finds

LEMMA StepFails ==
    CloudInv /\ (PollFails \/ ImageFails \/ WaitForFails \/ UploadFails \/ Breaks) => CloudInv'
<1> SUFFICES ASSUME CloudInv, PollFails \/ ImageFails \/ WaitForFails \/ UploadFails \/ Breaks
             PROVE  CloudInv'
    OBVIOUS
<1>1. CASE PollFails
      BY <1>1, OnlyOne, Raises DEF PollFails
<1>2. CASE ImageFails
  <2>1. CASE Finds("image", {"error"}) /\ RaiseAfter(Now.what)
        BY <1>2, <2>1, OnlyOne, Raises DEF ImageFails
  <2>2. CASE Finds("image", {"lost"}) /\ RaiseAfter({})
    <3>1. At({"image"}) /\ \A r \in Now.what : state[r] = "lost"
          BY <2>2, OnlyOne
    <3> QED BY <1>2, <2>2, <3>1, Raises DEF ImageFails
  <2> QED BY <1>2, <2>1, <2>2 DEF ImageFails
<1>3. CASE WaitForFails
  <2>1. Now.op \notin {"poll", "image"}
        BY <1>3 DEF WaitForFails, At
  <2> QED BY <1>3, <2>1, Raises DEF WaitForFails
<1>4. CASE UploadFails
  <2>1. At({"upload"}) /\ Now.op \notin {"poll", "image"}
        BY <1>4 DEF UploadFails, Finds, At
  <2> QED BY <1>4, <2>1, Raises DEF UploadFails
<1>5. CASE Breaks
  <2>1. Now.op \notin {"poll", "image"}
        BY <1>5 DEF Breaks, At
  <2> QED BY <1>5, <2>1, Raises DEF Breaks
<1> QED BY <1>1, <1>2, <1>3, <1>4, <1>5

LEMMA StepServiced ==
    ASSUME CloudInv, NEW r \in Resources, Serviced(r)
    PROVE  CloudInv'
<1>1. PICK t \in {"ready", "error", "lost"} : state' = [state EXCEPT ![r] = t]
      BY DEF Serviced
<1>2. /\ job # "rotation" /\ state[r] = "pending" /\ UNCHANGED <<job, at, outcome, unremoved>>
      /\ state \in [Resources -> Statuses]
      BY DEF Serviced, CloudInv, CloudTypeOK, Statuses
<1>3. PICK H, S : Follows(H, S)
      BY <1>2 DEF CloudInv
<1>4. Script(job)' = Script(job) /\ Remains(job)' = Remains(job)
      /\ Now' = Now
      BY <1>2 DEF Now
<1>5. CloudTypeOK'
  <2>1. state' \in [Resources -> Statuses]
        BY <1>1, <1>2 DEF Statuses
  <2> QED BY <1>2, <1>4, <2>1 DEF CloudInv, CloudTypeOK, Statuses
<1>6. There' \subseteq There
      BY <1>1, <1>2 DEF There
<1>7. FailedIsGone'
  <2> SUFFICES ASSUME outcome = "raised", ~unremoved, Now.op \in {"poll", "image"},
                      NEW q \in Now.what
               PROVE  state'[q] \in {"removed", "lost"}
      BY <1>2, <1>4 DEF FailedIsGone
  <2>1. state[q] \in {"removed", "lost"}
        BY DEF CloudInv, FailedIsGone
  <2> QED BY <1>1, <1>2, <2>1
<1>8. Follows(H, S)'
  <2>1. ASSUME outcome = "running", NEW q \in S[at] PROVE state'[q] = "ready"
    <3>1. state[q] = "ready"
          BY <1>3, <2>1 DEF Follows, Keeps
    <3> QED BY <1>1, <1>2, <3>1
  <2> QED BY <1>2, <1>3, <1>4, <1>6, <2>1 DEF Follows, Keeps
<1> QED BY <1>2, <1>4, <1>5, <1>7, <1>8 DEF CloudInv

LEMMA CloudStep == CloudInv /\ [CloudNext]_bothVars => CloudInv'
<1> SUFFICES ASSUME CloudInv, [CloudNext]_bothVars PROVE CloudInv'
    OBVIOUS
<1>1. CASE Agent
      BY <1>1, StepCalls, StepMakes, StepUses, StepDrops, StepAwaitsReady, StepFails DEF Agent
<1>2. CASE \E r \in Resources : Serviced(r)
      BY <1>2, StepServiced
<1>3. CASE UNCHANGED cloudVars
  <2>1. UNCHANGED <<job, at, state, outcome, unremoved>>
        BY <1>3 DEF cloudVars
  <2> QED BY <2>1 DEF CloudInv, CloudTypeOK, FailedIsGone, Now, Follows, Keeps, There
<1> QED BY <1>1, <1>2, <1>3 DEF CloudNext, bothVars

-----------------------------------------------------------------------------
LEMMA AlwaysCloudInv == CloudSpec => []CloudInv
<1> QED BY CloudInitially, CloudStep, PTL DEF CloudSpec

LEMMA LeftIsNothing == CloudInv => NothingIsLeft
<1> SUFFICES ASSUME CloudInv PROVE NothingIsLeft
    OBVIOUS
<1>1. CleanOnSuccess
  <2> SUFFICES ASSUME outcome = "returned" PROVE There \subseteq Remains(job)
      BY DEF CleanOnSuccess, Remains
  <2>1. job # "rotation"
        BY DEF CloudInv
  <2>2. at = Len(Script(job)) + 1
        BY <2>1 DEF CloudInv, CloudTypeOK
  <2> QED BY <2>1, <2>2 DEF CloudInv, Follows, Keeps
<1>2. FailedIsRemoved
      BY DEF CloudInv, FailedIsGone, FailedIsRemoved
<1> QED BY <1>1, <1>2 DEF NothingIsLeft, CloudInv

LEMMA MadeFromSources ==
    ASSUME NEW H, NEW S, Follows(H, S), Script(job) \in Seq(Lines), NEW d \in Resources
    PROVE  MadeFrom(d) \subseteq Sources(d)
<1> SUFFICES ASSUME NEW e \in Range(Script(job)), e.op = "make", d \in e.what
             PROVE  e.from \subseteq Sources(d)
    BY DEF MadeFrom
<1>1. PICK n \in 1..Len(Script(job)) : e = Script(job)[n]
      BY DEF Range
<1> QED BY <1>1 DEF Follows, Annotates, Leads

LEMMA UsedIsReadyNow == CloudInv => UsedIsReady
<1> SUFFICES ASSUME CloudInv PROVE UsedIsReady
    OBVIOUS
<1>1. ASSUME At({"make", "use"}), NEW r \in Now.from
      PROVE  state[r] = "ready"
  <2>1. PICK H, S : Follows(H, S)
        BY <1>1 DEF CloudInv, At
  <2>2. Now.from \subseteq S[at] /\ \A q \in S[at] : state[q] = "ready"
        BY <1>1, <2>1, TheLine DEF Leads
  <2> QED BY <1>1, <2>2
<1>2. ASSUME At({"drop"}), NEW d \in Resources, MadeFrom(d) \cap Now.what # {}
      PROVE  state[d] \notin (IF d \in Local THEN {"ready"} ELSE {"pending"})
  <2>1. PICK H, S : Follows(H, S)
        BY <1>2 DEF CloudInv, At
  <2>2. Sources(d) \cap Now.what # {}
    <3>1. Script(job) \in Seq(Lines)
          BY <1>2 DEF CloudInv, At
    <3>2. MadeFrom(d) \subseteq Sources(d)
          BY <1>2, <2>1, <3>1, MadeFromSources
    <3> QED BY <1>2, <3>2
  <2>3. d \in H[at] => d \notin Local /\ d \in S[at]
    <3>1. Leads(Now, H[at], S[at], H[at + 1], S[at + 1]) /\ Now.op = "drop"
          BY <1>2, <2>1, TheLine DEF At
    <3> QED BY <2>2, <3>1 DEF Leads
  <2>4. There \subseteq H[at] /\ \A q \in S[at] : state[q] = "ready"
        BY <1>2, <2>1, TheLine
  <2> QED BY <2>3, <2>4 DEF There
<1> QED BY <1>1, <1>2 DEF UsedIsReady, SourceIsReady, DroppedIsUnused

\* Whatever the services do, and wherever a procedure raises: one that returns has removed
\* what it made on the way, but for what Leaves names, and what is found in error by a
\* procedure that polls is removed before it raises.
THEOREM NothingIsAlwaysLeft == CloudSpec => []NothingIsLeft
<1> QED BY AlwaysCloudInv, LeftIsNothing, PTL

\* What a line is made from, or reads, is ready, and what it removes has nothing still made
\* from it, in every procedure.
THEOREM UsedIsAlwaysReady == CloudSpec => []UsedIsReady
<1> QED BY AlwaysCloudInv, UsedIsReadyNow, PTL

-----------------------------------------------------------------------------
(* The backups of a set in their order.                                    *)

LEMMA LeastNatural ==
    ASSUME NEW T \in SUBSET Nat, T # {}
    PROVE  \E x \in T : \A y \in T : x <= y
<1> DEFINE R == StrictSubsetOrdering(Nat)
           F == FiniteSubsetsOf(Nat)
           I == {1..x : x \in T}
<1>1. IsWellFoundedOn(R, F)
      BY FS_StrictSubsetOrderingWellFounded
<1>2. I \subseteq F /\ I # {}
  <2>1. ASSUME NEW x \in T PROVE IsFiniteSet(1..x) /\ 1..x \subseteq Nat
    <3>1. x \in Int /\ 1 \in Int
          OBVIOUS
    <3>2. IsFiniteSet(1..x)
          BY <3>1, FS_Interval
    <3> QED BY <3>2
  <2> QED BY <2>1 DEF FiniteSubsetsOf
<1>3. \A x, y \in T : y < x => <<1..y, 1..x>> \in R
  <2> SUFFICES ASSUME NEW x \in T, NEW y \in T, y < x
               PROVE  1..y \subseteq 1..x /\ 1..y # 1..x
      BY DEF StrictSubsetOrdering
  <2>1. x \in 1..x /\ x \notin 1..y
        OBVIOUS
  <2> QED BY <2>1
<1> HIDE DEF R, F
<1>4. PICK i \in I : \A j \in I : ~(<<j, i>> \in R)
      BY <1>1, <1>2, WFMin
<1>5. PICK x \in T : i = 1..x
      BY <1>4
<1>6. \A y \in T : ~(y < x)
      BY <1>3, <1>4, <1>5
<1> QED BY <1>6

LEMMA GreatestNumber ==
    ASSUME NEW N \in Nat, NEW S \in SUBSET (1..N), S # {}
    PROVE  \E x \in S : \A y \in S : x >= y
<1> DEFINE T == {m \in Nat : \A x \in S : x <= m}
<1>1. PICK m \in T : \A y \in T : m <= y
  <2>1. N \in T
        OBVIOUS
  <2> QED BY <2>1, LeastNatural
<1>2. m \in S
  <2> SUFFICES ASSUME m \notin S PROVE FALSE
      OBVIOUS
  <2>1. \A x \in S : x <= m /\ x # m
        BY <1>1
  <2>2. m # 0 /\ m \in Nat
    <3>1. PICK x \in S : TRUE
          OBVIOUS
    <3> QED BY <1>1, <2>1, <3>1
  <2>3. m - 1 \in T
        BY <2>1, <2>2
  <2>4. m <= m - 1
        BY <1>1, <2>3
  <2> QED BY <2>2, <2>4
<1> QED BY <1>1, <1>2

LEMMA FiniteRange ==
    ASSUME NEW N \in Nat, NEW S \in SUBSET (1..N)
    PROVE  IsFiniteSet(S) /\ Cardinality(S) \in Nat
<1>1. IsFiniteSet(1..N)
      BY FS_Interval
<1>2. IsFiniteSet(S)
      BY <1>1, FS_Subset
<1> QED BY <1>2, FS_CardinalityType

Ascends(s)  == \A m, n \in DOMAIN s : m < n => s[m] < s[n]
Descends(s) == \A m, n \in DOMAIN s : m < n => s[m] > s[n]

LEMMA AscendingRow ==
    ASSUME NEW N \in Nat, NEW S \in SUBSET (1..N)
    PROVE  \E s \in Row(S) : Ascends(s)
<1> DEFINE P(n) == \A T \in SUBSET (1..N) : Cardinality(T) = n => \E s \in Row(T) : Ascends(s)
           Bad  == {n \in Nat : ~P(n)}
<1>1. \A T \in SUBSET (1..N) : IsFiniteSet(T) /\ Cardinality(T) \in Nat
      BY FiniteRange
<1>2. Bad = {}
  <2> SUFFICES ASSUME Bad # {} PROVE FALSE
      OBVIOUS
  <2>1. PICK n \in Bad : \A k \in Bad : n <= k
        BY LeastNatural
  <2>2. PICK T \in SUBSET (1..N) : Cardinality(T) = n /\ ~\E s \in Row(T) : Ascends(s)
        BY <2>1
  <2>3. CASE T = {}
    <3>1. n = 0
          BY <2>2, <2>3, FS_EmptySet
    <3>2. [x \in 1..0 |-> 0] \in Row(T) /\ Ascends([x \in 1..0 |-> 0])
          BY <2>2, <2>3, <3>1 DEF Row, Ascends
    <3> QED BY <2>2, <3>2
  <2>4. CASE T # {}
    <3>1. PICK m \in T : \A y \in T : m >= y
          BY <2>4, GreatestNumber
    <3> DEFINE R == T \ {m}
    <3>2. Cardinality(R) = n - 1 /\ R \in SUBSET (1..N) /\ Cardinality(R) \in Nat
          BY <1>1, <2>2, <3>1, FS_RemoveElement
    <3>3. n \in Nat /\ n - 1 \in Nat /\ n - 1 \notin Bad
      <4>1. n \in Nat /\ n - 1 \in Nat
            BY <3>2
      <4>2. n - 1 < n
            BY <4>1
      <4> QED BY <2>1, <4>1, <4>2
    <3>4. PICK r \in Row(R) : Ascends(r)
          BY <3>2, <3>3
    <3> DEFINE s == [x \in 1..n |-> IF x < n THEN r[x] ELSE m]
    <3>5. r \in [1..(n - 1) -> R] /\ DOMAIN r = 1..(n - 1)
          BY <3>2, <3>4 DEF Row
    <3>6. s \in Row(T)
      <4>1. \A x \in 1..n : s[x] \in T
            BY <3>1, <3>3, <3>5
      <4> QED BY <2>2, <4>1 DEF Row
    <3>7. Ascends(s)
      <4> SUFFICES ASSUME NEW a \in 1..n, NEW b \in 1..n, a < b PROVE s[a] < s[b]
          BY DEF Ascends
      <4>1. a < n /\ a \in 1..(n - 1) /\ s[a] = r[a] /\ r[a] \in R
            BY <3>3, <3>5
      <4>2. CASE b < n
        <5>1. b \in 1..(n - 1) /\ s[b] = r[b]
              BY <3>3, <4>2
        <5> QED BY <3>4, <3>5, <4>1, <5>1 DEF Ascends
      <4>3. CASE b = n
        <5>1. s[b] = m
              BY <3>3, <4>3
        <5>2. r[a] \in T /\ r[a] # m /\ r[a] \in 1..N /\ m \in 1..N
              BY <4>1
        <5>3. m >= r[a]
              BY <3>1, <5>2
        <5>4. r[a] < m
              BY <5>2, <5>3
        <5> QED BY <4>1, <5>1, <5>4
      <4> QED BY <3>3, <4>2, <4>3
    <3> QED BY <2>2, <3>6, <3>7
  <2> QED BY <2>3, <2>4
<1> QED BY <1>1, <1>2

LEMMA OldestFirstFacts ==
    ASSUME NEW N \in Nat, NEW S \in SUBSET (1..N)
    PROVE  /\ Cardinality(S) \in Nat
           /\ OldestFirst(S) \in [1..Cardinality(S) -> S] /\ Ascends(OldestFirst(S))
           /\ Range(OldestFirst(S)) = S
<1> DEFINE s == OldestFirst(S)
           c == Cardinality(S)
<1>1. IsFiniteSet(S) /\ c \in Nat
      BY FiniteRange
<1>2. s \in Row(S) /\ Ascends(s)
  <2>1. \E r \in Row(S) : \A m, n \in DOMAIN r : m < n => r[m] < r[n]
        BY AscendingRow DEF Ascends
  <2>2. s \in Row(S) /\ \A m, n \in DOMAIN s : m < n => s[m] < s[n]
        BY <2>1 DEF OldestFirst
  <2> QED BY <2>2 DEF Ascends
<1> HIDE DEF s
<1>3. s \in [1..c -> S]
      BY <1>2 DEF Row
<1>4. s \in Injection(1..c, S)
  <2> SUFFICES ASSUME NEW a \in 1..c, NEW b \in 1..c, s[a] = s[b] PROVE a = b
      BY <1>3 DEF Injection, IsInjective
  <2>1. s[a] \in 1..N
        BY <1>3
  <2>2. ~(s[a] < s[b]) /\ ~(s[b] < s[a])
        BY <2>1
  <2>3. ~(a < b) /\ ~(b < a)
        BY <1>2, <1>3, <2>1, <2>2 DEF Ascends
  <2> QED BY <1>1, <2>3
<1>5. s \in Surjection(1..c, S)
  <2>1. Cardinality(1..c) = c
        BY <1>1, FS_Interval
  <2> QED BY <1>1, <1>4, <2>1, FS_Injection
<1>6. Range(s) = S
      BY <1>3, <1>5 DEF Surjection, Range
<1> QED BY <1>1, <1>2, <1>3, <1>6 DEF s

LEMMA NewestFirstFacts ==
    ASSUME NEW N \in Nat, NEW S \in SUBSET (1..N)
    PROVE  /\ Cardinality(S) \in Nat
           /\ NewestFirst(S) \in [1..Cardinality(S) -> S] /\ Descends(NewestFirst(S))
           /\ Range(NewestFirst(S)) = S
<1> DEFINE s == NewestFirst(S)
           c == Cardinality(S)
<1>1. IsFiniteSet(S) /\ c \in Nat
      BY FiniteRange
<1>2. s \in Row(S) /\ Descends(s)
  <2>1. PICK r \in Row(S) : Ascends(r)
        BY AscendingRow
  <2> DEFINE t == [x \in 1..c |-> r[c + 1 - x]]
  <2>2. t \in Row(S)
        BY <1>1, <2>1 DEF Row
  <2>3. \A m, n \in DOMAIN t : m < n => t[m] > t[n]
    <3> SUFFICES ASSUME NEW m \in 1..c, NEW n \in 1..c, m < n PROVE t[m] > t[n]
        OBVIOUS
    <3>1. c + 1 - n \in 1..c /\ c + 1 - m \in 1..c /\ c + 1 - n < c + 1 - m
          BY <1>1
    <3>2. r \in [1..c -> S]
          BY <2>1 DEF Row
    <3>3. r[c + 1 - n] < r[c + 1 - m]
          BY <2>1, <3>1, <3>2 DEF Ascends
    <3>4. r[c + 1 - n] \in 1..N /\ r[c + 1 - m] \in 1..N
          BY <3>1, <3>2
    <3> QED BY <3>3, <3>4
  <2>4. s \in Row(S) /\ \A m, n \in DOMAIN s : m < n => s[m] > s[n]
        BY <2>2, <2>3 DEF NewestFirst
  <2> QED BY <2>4 DEF Descends
<1> HIDE DEF s
<1>3. s \in [1..c -> S]
      BY <1>2 DEF Row
<1>4. s \in Injection(1..c, S)
  <2> SUFFICES ASSUME NEW a \in 1..c, NEW b \in 1..c, s[a] = s[b] PROVE a = b
      BY <1>3 DEF Injection, IsInjective
  <2>1. s[a] \in 1..N
        BY <1>3
  <2>2. ~(s[a] < s[b]) /\ ~(s[b] < s[a])
        BY <2>1
  <2>3. ~(a < b) /\ ~(b < a)
        BY <1>2, <1>3, <2>1, <2>2 DEF Descends
  <2> QED BY <1>1, <2>3
<1>5. s \in Surjection(1..c, S)
  <2>1. Cardinality(1..c) = c
        BY <1>1, FS_Interval
  <2> QED BY <1>1, <1>4, <2>1, FS_Injection
<1>6. Range(s) = S
      BY <1>3, <1>5 DEF Surjection, Range
<1> QED BY <1>1, <1>2, <1>3, <1>6 DEF s

-----------------------------------------------------------------------------
(* What is invariant.                                                      *)

Backup == [rests : Nat, root : Nat, status : Settling]

\* A chain of backups has one root, which is full, and what a backup rests on is available.
BackupsOK ==
    /\ backups \in Seq(Backup)
    /\ \A i \in Ids : /\ backups[i].rests \in 1..i /\ backups[i].root \in 1..i
                      /\ Full(backups[i].root)
                      /\ backups[backups[i].rests].root = backups[i].root
                      /\ Full(i) => backups[i].root = i
                      /\ i \in Listed /\ ~Full(i) => backups[i].rests \in Available

Deleted(i) == backups[i].status \in {"deleting", "error_deleting", "gone"}
Newer(f)   == {j \in Available : Full(j) /\ j > f}

\* Where a full backup is removed, no backup that comes later rests on an older one.
RemovalsAreLast ==
    \A k \in Ids, j \in Listed : Full(k) /\ Deleted(k) => ~(backups[j].root < k /\ k < j)

NewerAreKept ==
    \A i, f \in Ids : Deleted(i) /\ backups[i].root = f => Cardinality(Newer(f)) >= Keep

Deletes == step \in {"delete", "wait"}
Works   == step = "next" \/ Deletes
Current == queue[Len(queue)]

AdminOK ==
    /\ wants \in {"nothing", "full", "incremental"}
    /\ step \in {"idle", "next", "delete", "wait", "returned", "refused", "failed"}
    /\ goals \subseteq Ids
    /\ fulls \in Seq(Nat) /\ Range(fulls) \subseteq goals /\ Ascends(fulls)
    /\ queue \in Seq(Nat) /\ Range(queue) \subseteq Ids
    /\ Deletes => queue # <<>>

\* The goals are full and too many, and so is every older one that is still needed.
GoalsAreOld ==
    Works => \A g \in goals :
        /\ Full(g) /\ Cardinality(Newer(g)) >= Keep
        /\ \A j \in Listed : ~Full(j) /\ backups[j].root < g => backups[j].root \in goals

\* They are removed from the oldest on.
GoalsInOrder ==
    /\ Works => \A g \in goals : Gone(g) \/ g \in Range(fulls) \/ (Deletes /\ g = Current)
    /\ step = "returned" => \A g \in goals : Gone(g)

QueueIsOfCurrent ==
    Deletes => /\ Current \in goals /\ \A g \in Range(fulls) : Current < g
               /\ \A i \in Range(queue) : backups[i].root <= Current /\ Current <= i

\* What rests on a backup in the queue comes before it, or after another full backup.
QueueInOrder ==
    Deletes => \A a \in DOMAIN queue : \A j \in Listed :
        j # queue[a] /\ backups[j].rests = queue[a] =>
            \/ \E b \in 1..(a - 1) : queue[b] = j
            \/ \E k \in Ids : Full(k) /\ backups[j].root < k /\ k < j

BackupsInv  == BackupsOK /\ RemovalsAreLast /\ NewerAreKept
RotationInv == BackupsInv /\ AdminOK /\ GoalsAreOld /\ GoalsInOrder /\ QueueIsOfCurrent /\ QueueInOrder

LEMMA IdsAreFinite ==
    ASSUME BackupsOK
    PROVE  /\ Len(backups) \in Nat /\ Ids = 1..Len(backups) /\ Ids \subseteq Nat
           /\ \A i \in Ids : backups[i] \in Backup
           /\ \A S \in SUBSET Ids : IsFiniteSet(S) /\ Cardinality(S) \in Nat
           /\ \A S, T \in SUBSET Ids : S \subseteq T => Cardinality(S) <= Cardinality(T)
<1>1. Len(backups) \in Nat /\ Ids = 1..Len(backups) /\ Ids \subseteq Nat /\ \A i \in Ids : backups[i] \in Backup
      BY DEF BackupsOK, Ids
<1>2. \A S \in SUBSET Ids : IsFiniteSet(S) /\ Cardinality(S) \in Nat
      BY <1>1, FiniteRange
<1>3. \A S, T \in SUBSET Ids : S \subseteq T => Cardinality(S) <= Cardinality(T)
      BY <1>2, FS_Subset
<1> QED BY <1>1, <1>2, <1>3

LEMMA RootIsThere ==
    ASSUME BackupsOK, NEW j \in Listed, ~Full(j)
    PROVE  backups[j].root \in Available
<1> DEFINE Bad == {i \in Listed : ~Full(i) /\ backups[i].root \notin Available}
<1>1. Bad = {}
  <2> SUFFICES ASSUME Bad # {} PROVE FALSE
      OBVIOUS
  <2>1. Bad \in SUBSET Nat
        BY IdsAreFinite DEF Listed
  <2>2. PICK m \in Bad : \A n \in Bad : m <= n
        BY <2>1, LeastNatural
  <2> DEFINE b == backups[m].rests
  <2>3. m \in Ids /\ m \in Listed /\ ~Full(m) /\ backups[m].root \notin Available
        BY DEF Listed
  <2>4. b \in 1..m /\ b # m /\ b \in Available /\ backups[b].root = backups[m].root
        BY <2>3 DEF BackupsOK, Full
  <2>5. b \in Ids /\ b \in Listed /\ (Full(b) => backups[b].root = b)
        BY <2>4 DEF BackupsOK, Available, Listed, Is, Gone
  <2>6. b \in Bad
        BY <2>3, <2>4, <2>5
  <2>7. m <= b /\ m \in Nat
        BY <2>1, <2>2, <2>6
  <2> QED BY <2>4, <2>7
<1> QED BY <1>1

-----------------------------------------------------------------------------
(* What may happen to the backups.                                         *)

LEMMA StatusChanges ==
    ASSUME BackupsOK, NEW i \in Ids, NEW s \in Settling, Becomes(i, s)
    PROVE  /\ Ids' = Ids /\ backups' \in Seq(Backup)
           /\ \A j \in Ids : /\ backups'[j].rests = backups[j].rests
                             /\ backups'[j].root = backups[j].root
                             /\ backups'[j].status = IF j = i THEN s ELSE backups[j].status
           /\ \A j \in Ids : Full(j)' <=> Full(j)
<1>1. backups \in Seq(Backup) /\ i \in 1..Len(backups) /\ Len(backups) \in Nat
      BY DEF BackupsOK, Ids
<1>2. backups' = [backups EXCEPT ![i].status = s] /\ DOMAIN backups = 1..Len(backups)
      BY <1>1 DEF Becomes
<1>3. \A j \in 1..Len(backups) : backups[j] \in Backup
      BY <1>1
<1>4. backups' \in [1..Len(backups) -> Backup]
      BY <1>2, <1>3 DEF Backup
<1>5. backups' \in Seq(Backup) /\ Len(backups') = Len(backups)
      BY <1>1, <1>4, LenProperties, IsASeq
<1>6. \A j \in Ids : /\ backups'[j].rests = backups[j].rests
                     /\ backups'[j].root = backups[j].root
                     /\ backups'[j].status = IF j = i THEN s ELSE backups[j].status
      BY <1>2, <1>3 DEF Ids, Backup
<1> QED BY <1>5, <1>6 DEF Ids, Full
LEMMA BackupIsCreated ==
    ASSUME BackupsOK, NEW rec \in Backup, backups' = Append(backups, rec)
    PROVE  /\ Ids' = Ids \cup {Len(backups) + 1} /\ backups' \in Seq(Backup)
           /\ Len(backups) + 1 \in Nat /\ \A j \in Ids : j \in Nat /\ j < Len(backups) + 1
           /\ backups'[Len(backups) + 1] = rec
           /\ \A j \in Ids : backups'[j] = backups[j]
           /\ \A j \in Ids : Full(j)' <=> Full(j)
<1>1. backups \in Seq(Backup) /\ Len(backups) \in Nat
      BY DEF BackupsOK
<1>2. /\ backups' \in Seq(Backup) /\ Len(backups') = Len(backups) + 1
      /\ backups'[Len(backups) + 1] = rec /\ \A j \in 1..Len(backups) : backups'[j] = backups[j]
      BY <1>1
<1>3. Ids' = 1..(Len(backups) + 1) /\ Ids = 1..Len(backups)
      BY <1>2 DEF Ids
<1>4. Ids' = Ids \cup {Len(backups) + 1} /\ \A j \in Ids : j \in Nat /\ j < Len(backups) + 1
      BY <1>1, <1>3
<1> QED BY <1>1, <1>2, <1>3, <1>4 DEF Full

\* What does not disturb the admin job: nothing else is removed, and a new backup is full or
\* rests on the newest available one.
Grows ==
    /\ Ids \subseteq Ids'
    /\ \A j \in Ids : /\ backups'[j].rests = backups[j].rests
                      /\ backups'[j].root = backups[j].root
                      /\ Full(j)' <=> Full(j)
                      /\ Gone(j) => Gone(j)'
    /\ \A f \in Ids : Cardinality(Newer(f)) >= Keep => Cardinality(Newer(f)') >= Keep
    /\ \A j \in Ids' \ Ids : ~Full(j)' =>
         /\ backups'[j].rests \in Available /\ backups'[j].rests < j
         /\ backups'[j].root = backups[backups'[j].rests].root
         /\ \A k \in Available : k <= backups'[j].rests

\* A status that was not available changes, and what was removed stays so.
LEMMA Settlement ==
    ASSUME BackupsInv, NEW i \in Ids, Settles(i)
    PROVE  BackupsInv' /\ Grows
<1>1. PICK s \in Settling : /\ Becomes(i, s)
                            /\ \/ Is(i, "creating") /\ s \in {"available", "error"}
                               \/ Is(i, "deleting") /\ s \in {"gone", "error_deleting"}
      BY DEF Settles, Settling
<1>2. BackupsOK /\ RemovalsAreLast /\ NewerAreKept
      BY DEF BackupsInv
<1>3. /\ Ids' = Ids /\ backups' \in Seq(Backup)
      /\ \A j \in Ids : /\ backups'[j].rests = backups[j].rests
                        /\ backups'[j].root = backups[j].root
                        /\ backups'[j].status = IF j = i THEN s ELSE backups[j].status
      /\ \A j \in Ids : Full(j)' <=> Full(j)
      BY <1>1, <1>2, StatusChanges
<1>4. Available \subseteq Available' /\ Listed' \subseteq Listed /\ \A j \in Ids : Gone(j) => Gone(j)'
      BY <1>1, <1>3 DEF Available, Listed, Gone, Is
<1>5. \A j \in Ids : Deleted(j)' => Deleted(j)
      BY <1>1, <1>3 DEF Deleted, Is
<1>6. BackupsOK'
  <2> SUFFICES ASSUME NEW j \in Ids
               PROVE  /\ backups'[j].rests \in 1..j /\ backups'[j].root \in 1..j
                      /\ Full(backups[j].root)'
                      /\ backups'[backups[j].rests].root = backups[j].root
                      /\ Full(j) => backups[j].root = j
                      /\ j \in Listed' /\ ~Full(j) => backups[j].rests \in Available'
      BY <1>3 DEF BackupsOK
  <2>1. /\ backups[j].rests \in 1..j /\ backups[j].root \in 1..j
        /\ Full(backups[j].root)
        /\ backups[backups[j].rests].root = backups[j].root
        /\ Full(j) => backups[j].root = j
        /\ j \in Listed /\ ~Full(j) => backups[j].rests \in Available
        BY <1>2 DEF BackupsOK
  <2>2. backups[j].rests \in Ids /\ backups[j].root \in Ids
        BY <1>2, <2>1, IdsAreFinite
  <2> QED BY <1>3, <1>4, <2>1, <2>2
<1>7. RemovalsAreLast'
      BY <1>2, <1>3, <1>4, <1>5 DEF RemovalsAreLast, Listed
<1>8. \A f \in Ids : Cardinality(Newer(f)) >= Keep => Cardinality(Newer(f)') >= Keep
  <2> SUFFICES ASSUME NEW f \in Ids, Cardinality(Newer(f)) >= Keep
               PROVE  Cardinality(Newer(f)') >= Keep
      OBVIOUS
  <2>1. Newer(f) \subseteq Newer(f)' /\ Newer(f) \subseteq Ids /\ Newer(f)' \subseteq Ids
        BY <1>3, <1>4 DEF Newer, Available
  <2>2. /\ Cardinality(Newer(f)) <= Cardinality(Newer(f)')
        /\ Cardinality(Newer(f)) \in Nat /\ Cardinality(Newer(f)') \in Nat
        BY <1>2, <2>1, IdsAreFinite
  <2> QED BY <2>2, RotationConstants
<1>9. NewerAreKept'
      BY <1>2, <1>3, <1>5, <1>8 DEF NewerAreKept
<1> QED BY <1>3, <1>4, <1>6, <1>7, <1>8, <1>9 DEF BackupsInv, Grows
LEMMA NewBackup ==
    ASSUME BackupsInv, NEW n \in Nat, n = Len(backups) + 1,
           NEW rec \in Backup, rec.status = "creating", backups' = Append(backups, rec),
           \/ rec.rests = n /\ rec.root = n
           \/ /\ rec.rests \in Available /\ rec.root = backups[rec.rests].root
              /\ \A k \in Available : k <= rec.rests
    PROVE  BackupsInv' /\ Grows
<1>1. BackupsOK /\ RemovalsAreLast /\ NewerAreKept
      BY DEF BackupsInv
<1>2. /\ Len(backups) \in Nat /\ Ids = 1..Len(backups) /\ \A i \in Ids : backups[i] \in Backup
      /\ \A S \in SUBSET Ids : IsFiniteSet(S) /\ Cardinality(S) \in Nat
      /\ \A S, T \in SUBSET Ids : S \subseteq T => Cardinality(S) <= Cardinality(T)
      BY <1>1, IdsAreFinite
<1>3. /\ Ids' = Ids \cup {n} /\ backups' \in Seq(Backup)
      /\ \A j \in Ids : j \in Nat /\ j < n
      /\ backups'[n] = rec
      /\ \A j \in Ids : backups'[j] = backups[j]
      /\ \A j \in Ids : Full(j)' <=> Full(j)
      BY <1>1, BackupIsCreated
<1>4. n \notin Ids
      BY <1>3
<1>5. \/ rec.rests = n /\ rec.root = n
      \/ /\ rec.rests \in Available /\ rec.root = backups[rec.rests].root
         /\ \A k \in Available : k <= rec.rests
      OBVIOUS
<1>6. Available' = Available /\ Listed' = Listed \cup {n}
      BY <1>3, <1>4 DEF Available, Listed, Gone, Is
<1>7. Available \subseteq Ids /\ Available \subseteq Listed
      BY DEF Available, Listed, Gone, Is
<1>8. \A f \in Ids : Newer(f)' = Newer(f)
      BY <1>3, <1>6, <1>7 DEF Newer
<1>9. Full(n)' <=> rec.rests = n
      BY <1>3 DEF Full
<1>10. \A j \in Ids : /\ backups[j].rests \in 1..j /\ backups[j].root \in 1..j
                      /\ Full(backups[j].root)
                      /\ backups[backups[j].rests].root = backups[j].root
                      /\ Full(j) => backups[j].root = j
                      /\ j \in Listed /\ ~Full(j) => backups[j].rests \in Available
                      /\ backups[j].rests \in Ids /\ backups[j].root \in Ids
  <2> SUFFICES ASSUME NEW j \in Ids
               PROVE  /\ backups[j].rests \in 1..j /\ backups[j].root \in 1..j
                      /\ Full(backups[j].root)
                      /\ backups[backups[j].rests].root = backups[j].root
                      /\ Full(j) => backups[j].root = j
                      /\ j \in Listed /\ ~Full(j) => backups[j].rests \in Available
                      /\ backups[j].rests \in Ids /\ backups[j].root \in Ids
      OBVIOUS
  <2>1. /\ backups[j].rests \in 1..j /\ backups[j].root \in 1..j
        /\ Full(backups[j].root)
        /\ backups[backups[j].rests].root = backups[j].root
        /\ Full(j) => backups[j].root = j
        /\ j \in Listed /\ ~Full(j) => backups[j].rests \in Available
        BY <1>1 DEF BackupsOK
  <2> QED BY <1>2, <2>1
<1>11. BackupsOK'
  <2>1. ASSUME NEW j \in Ids
        PROVE  /\ backups'[j].rests \in 1..j /\ backups'[j].root \in 1..j
               /\ backups'[backups'[j].root].rests = backups'[j].root
               /\ backups'[backups'[j].rests].root = backups'[j].root
               /\ Full(j)' => backups'[j].root = j
               /\ j \in Listed' /\ ~Full(j)' => backups'[j].rests \in Available'
    <3>1. j \in Listed' => j \in Listed
          BY <1>4, <1>6
    <3>2. backups'[j] = backups[j]
          BY <1>3
    <3>3. backups'[backups[j].rests] = backups[backups[j].rests]
          BY <1>3, <1>10
    <3>4. backups'[backups[j].root].rests = backups[j].root
          BY <1>3, <1>10 DEF Full
    <3>5. backups'[backups'[j].root].rests = backups'[j].root
          BY <3>2, <3>4 DEF Full
    <3> QED BY <1>3, <1>6, <1>10, <3>1, <3>2, <3>3, <3>5
  <2>2. /\ backups'[n].rests \in 1..n /\ backups'[n].root \in 1..n
        /\ backups'[backups'[n].root].rests = backups'[n].root
        /\ backups'[backups'[n].rests].root = backups'[n].root
        /\ Full(n)' => backups'[n].root = n
        /\ ~Full(n)' => backups'[n].rests \in Available'
    <3>1. CASE rec.rests = n /\ rec.root = n
          BY <1>3, <1>9, <3>1, n \in 1..n
    <3>2. CASE rec.rests \in Available /\ rec.root = backups[rec.rests].root
      <4>1. rec.rests \in Ids /\ rec.root \in Ids
            BY <1>7, <1>10, <3>2
      <4>2. rec.root \in 1..rec.rests /\ Full(rec.root)
            BY <1>10, <3>2, <4>1
      <4>3. backups'[rec.root].rests = rec.root /\ backups'[rec.rests].root = rec.root
            BY <1>3, <3>2, <4>1, <4>2 DEF Full
      <4>4. rec.rests \in 1..n /\ rec.root \in 1..n /\ rec.rests # n
            BY <1>2, <1>3, <1>4, <4>1
      <4> QED BY <1>3, <1>6, <1>9, <3>2, <4>3, <4>4
    <3> QED BY <1>5, <3>1, <3>2
  <2> QED BY <1>3, <2>1, <2>2 DEF BackupsOK, Full
<1>12. \A k \in Ids : Deleted(k)' <=> Deleted(k)
       BY <1>3 DEF Deleted
<1>13. ~Deleted(n)'
       BY <1>3 DEF Deleted
<1>14. NewerAreKept'
       BY <1>1, <1>3, <1>4, <1>8, <1>10, <1>12, <1>13 DEF NewerAreKept
<1>15. RemovalsAreLast'
  <2> SUFFICES ASSUME NEW k \in Ids, NEW j \in Listed', Full(k), Deleted(k),
                      backups'[j].root < k, k < j
               PROVE  FALSE
      BY <1>3, <1>12, <1>13 DEF RemovalsAreLast
  <2>1. CASE j \in Listed
        BY <1>1, <1>3, <2>1 DEF RemovalsAreLast, Listed
  <2>2. CASE j = n
    <3>1. k # n /\ backups'[j] = rec
          BY <1>3, <1>4, <2>2
    <3>2. rec.root # n
          BY <1>3, <2>2, <3>1
    <3>3. rec.rests \in Available /\ rec.root = backups[rec.rests].root
          /\ \A i \in Available : i <= rec.rests
          BY <1>5, <3>2
    <3>4. backups[k].root = k /\ Cardinality(Newer(k)) >= Keep
          BY <1>1, <1>10 DEF NewerAreKept
    <3>5. Newer(k) # {}
      <4> SUFFICES ASSUME Newer(k) = {} PROVE FALSE
          OBVIOUS
      <4>1. Cardinality(Newer(k)) = 0 /\ Keep \in Nat \ {0}
            BY FS_EmptySet, RotationConstants
      <4> QED BY <3>4, <4>1
    <3>6. PICK i \in Available : Full(i) /\ i > k
          BY <3>5 DEF Newer
    <3>7. rec.rests > k /\ rec.rests \in Listed
          BY <1>3, <1>7, <3>3, <3>6
    <3>8. backups[rec.rests].root < k
          BY <2>2, <3>1, <3>3
    <3> QED BY <1>1, <3>7, <3>8 DEF RemovalsAreLast
  <2> QED BY <1>6, <2>1, <2>2
<1>16. Grows
  <2>1. ASSUME NEW j \in Ids' \ Ids, ~Full(j)'
        PROVE  /\ backups'[j].rests \in Available /\ backups'[j].rests < j
               /\ backups'[j].root = backups[backups'[j].rests].root
               /\ \A k \in Available : k <= backups'[j].rests
        BY <1>3, <1>5, <1>7, <1>9, <2>1
  <2>2. \A j \in Ids : Gone(j) => Gone(j)'
        BY <1>3 DEF Gone, Is
  <2> QED BY <1>3, <1>8, <2>1, <2>2 DEF Grows
<1> QED BY <1>11, <1>14, <1>15, <1>16 DEF BackupsInv

LEMMA NoBackup ==
    ASSUME BackupsInv, UNCHANGED backups
    PROVE  BackupsInv' /\ Grows /\ Ids' = Ids /\ Listed' = Listed /\ Available' = Available
<1>1. Ids' = Ids /\ Available' = Available /\ Listed' = Listed
      BY DEF Ids, Available, Listed, Gone, Is
<1>2. \A f \in Ids : Newer(f)' = Newer(f)
      BY <1>1 DEF Newer, Full
<1>3. BackupsOK'
      BY <1>1 DEF BackupsInv, BackupsOK, Full
<1>4. RemovalsAreLast' /\ NewerAreKept'
      BY <1>1, <1>2 DEF BackupsInv, RemovalsAreLast, NewerAreKept, Full, Deleted
<1>5. Grows
      BY <1>1, <1>2 DEF Grows, Full, Gone, Is
<1> QED BY <1>1, <1>3, <1>4, <1>5 DEF BackupsInv

LEMMA Creation ==
    ASSUME BackupsInv, CreateBackup
    PROVE  BackupsInv' /\ Grows
<1> DEFINE n    == Len(backups) + 1
           base == CHOOSE i \in Available : \A j \in Available : i >= j
           Old  == [rests |-> base, root |-> backups[base].root, status |-> "creating"]
           New  == [rests |-> n, root |-> n, status |-> "creating"]
<1>1. /\ Len(backups) \in Nat /\ Ids = 1..Len(backups) /\ \A i \in Ids : backups[i] \in Backup
      BY IdsAreFinite DEF BackupsInv
<1>2. \/ backups' = backups
      \/ backups' = Append(backups, New)
      \/ Available # {} /\ backups' = Append(backups, Old)
      BY DEF CreateBackup
<1>3. Available # {} => base \in Available /\ \A k \in Available : k <= base
  <2> SUFFICES ASSUME Available # {} PROVE base \in Available /\ \A k \in Available : k <= base
      OBVIOUS
  <2>1. Available \in SUBSET (1..Len(backups))
        BY <1>1 DEF Available
  <2>2. \E i \in Available : \A j \in Available : i >= j
        BY <1>1, <2>1, GreatestNumber
  <2>3. base \in Available /\ \A j \in Available : base >= j
        BY <2>2
  <2> HIDE DEF base
  <2> QED BY <1>1, <2>1, <2>3
<1> HIDE DEF base
<1>4. CASE backups' = backups
      BY <1>4, NoBackup
<1>5. CASE backups' = Append(backups, New)
  <2>1. New \in Backup
        BY <1>1 DEF Backup, Settling
  <2> QED BY <1>5, <2>1, NewBackup
<1>6. CASE Available # {} /\ backups' = Append(backups, Old)
  <2>1. base \in Ids
        BY <1>3, <1>6 DEF Available
  <2>2. backups[base].root \in Nat /\ base \in Nat
        BY <1>1, <2>1 DEF Backup
  <2>3. Old \in Backup
        BY <2>2 DEF Backup, Settling
  <2> QED BY <1>3, <1>6, <2>3, NewBackup
<1> QED BY <1>2, <1>4, <1>5, <1>6
-----------------------------------------------------------------------------
(* What the admin job relies on, while the backups change beside it.       *)

LEMMA SomeAreNewer ==
    ASSUME NEW f, Cardinality(Newer(f)) >= Keep
    PROVE  \E k \in Available : Full(k) /\ k > f
<1>1. Newer(f) # {}
  <2> SUFFICES ASSUME Newer(f) = {} PROVE FALSE
      OBVIOUS
  <2>1. Cardinality(Newer(f)) = 0 /\ Keep \in Nat \ {0}
        BY FS_EmptySet, RotationConstants
  <2> QED BY <2>1
<1> QED BY <1>1 DEF Newer

LEMMA NewerOfNewer ==
    ASSUME BackupsOK, NEW f \in Nat, NEW g \in Nat, f <= g
    PROVE  /\ Newer(g) \subseteq Newer(f) /\ Newer(f) \subseteq Ids /\ Newer(g) \subseteq Ids
           /\ g \notin Newer(g)
<1>1. ASSUME NEW k \in Newer(g) PROVE k \in Newer(f) /\ k # g
  <2>1. k \in Available /\ Full(k) /\ k > g
        BY DEF Newer
  <2>2. k \in Nat
        BY <2>1, IdsAreFinite DEF Available
  <2>3. k > f
        BY <2>1, <2>2
  <2> QED BY <2>1, <2>2, <2>3 DEF Newer
<1> QED BY <1>1 DEF Newer, Available

\* The last of the queue is the one it is for.
LEMMA CurrentIsQueued ==
    ASSUME AdminOK, Deletes
    PROVE  /\ Len(queue) \in Nat /\ Len(queue) \in DOMAIN queue /\ DOMAIN queue = 1..Len(queue)
           /\ 1 \in DOMAIN queue /\ Current \in Range(queue) /\ Head(queue) = queue[1]
           /\ \A a \in DOMAIN queue : queue[a] \in Range(queue) /\ queue[a] \in Ids
<1>1. queue \in Seq(Nat) /\ queue # <<>> /\ Range(queue) \subseteq Ids
      BY DEF AdminOK
<1>2. Len(queue) \in Nat \ {0} /\ DOMAIN queue = 1..Len(queue) /\ Head(queue) = queue[1]
      BY <1>1
<1>3. Len(queue) \in DOMAIN queue /\ 1 \in DOMAIN queue
      BY <1>2
<1> QED BY <1>1, <1>2, <1>3 DEF Current, Range

LEMMA AdminUndisturbed ==
    ASSUME RotationInv, BackupsInv', Grows, UNCHANGED <<goals, fulls, queue>>,
           wants' \in {"nothing", "full", "incremental"},
           \/ step' = step
           \/ step = "delete" /\ step' = "wait"
           \/ Deletes /\ step' \in {"refused", "failed"}
    PROVE  RotationInv'
<1>1. /\ Works' => Works
      /\ Deletes' <=> Works' /\ Deletes
      /\ step' = "returned" => step = "returned"
      BY DEF Works, Deletes
<1>2. /\ BackupsInv /\ BackupsOK /\ AdminOK /\ GoalsAreOld /\ GoalsInOrder
      /\ QueueIsOfCurrent /\ QueueInOrder /\ BackupsOK'
      BY DEF RotationInv, BackupsInv
<1>3. /\ Ids \subseteq Ids' /\ goals \subseteq Ids
      /\ \A j \in Ids : /\ backups'[j].rests = backups[j].rests
                        /\ backups'[j].root = backups[j].root
                        /\ Full(j)' <=> Full(j)
                        /\ Gone(j) => Gone(j)'
      /\ \A f \in Ids : Cardinality(Newer(f)) >= Keep => Cardinality(Newer(f)') >= Keep
      BY <1>2 DEF Grows, AdminOK
<1>4. \A j \in Ids' \ Ids : ~Full(j)' =>
         /\ backups'[j].rests \in Available /\ backups'[j].rests < j
         /\ backups'[j].root = backups[backups'[j].rests].root
         /\ \A k \in Available : k <= backups'[j].rests
      BY DEF Grows
<1>5. \A j \in Listed' : j \in Ids => j \in Listed
      BY <1>3 DEF Listed
<1>6. Available \subseteq Ids /\ Available \subseteq Listed
      BY DEF Available, Listed, Gone, Is
<1>7. Ids \subseteq Nat /\ Ids' \subseteq Nat
      BY <1>2, IdsAreFinite DEF BackupsOK, Ids
<1>8. AdminOK'
      BY <1>2, <1>3 DEF AdminOK, Deletes
<1>9. GoalsAreOld'
  <2> SUFFICES ASSUME Works', NEW g \in goals
               PROVE  /\ Full(g)' /\ Cardinality(Newer(g)') >= Keep
                      /\ \A j \in Listed' : ~Full(j)' /\ backups'[j].root < g => backups'[j].root \in goals
      BY DEF GoalsAreOld
  <2>1. /\ g \in Ids /\ Full(g) /\ Cardinality(Newer(g)) >= Keep
        /\ \A j \in Listed : ~Full(j) /\ backups[j].root < g => backups[j].root \in goals
        BY <1>1, <1>2, <1>3 DEF GoalsAreOld
  <2>2. ASSUME NEW j \in Listed', ~Full(j)', backups'[j].root < g
        PROVE  backups'[j].root \in goals
    <3>1. CASE j \in Ids
          BY <1>3, <1>5, <2>1, <2>2, <3>1
    <3>2. CASE j \notin Ids
      <4>1. j \in Ids' \ Ids
            BY <3>2 DEF Listed
      <4>2. PICK k \in Available : Full(k) /\ k > g
            BY <2>1, SomeAreNewer
      <4>3. PICK b \in Available : b = backups'[j].rests /\ backups'[j].root = backups[b].root /\ k <= b
            BY <1>4, <2>2, <4>1
      <4>4. b \in Listed /\ b \in Ids /\ b \in Nat /\ k \in Nat /\ g \in Nat
            BY <1>6, <1>7, <2>1
      <4>5. Full(b) => backups[b].root = b
            BY <1>2, <4>4 DEF BackupsOK
      <4>6. ~Full(b)
            BY <2>2, <4>2, <4>3, <4>4, <4>5
      <4> QED BY <2>1, <2>2, <4>3, <4>4, <4>6
    <3> QED BY <3>1, <3>2
  <2> QED BY <1>3, <2>1, <2>2
<1>10. GoalsInOrder'
  <2>1. Current' = Current
        BY DEF Current
  <2>2. \A g \in goals : Gone(g) => Gone(g)'
        BY <1>3
  <2> QED BY <1>1, <1>2, <2>1, <2>2 DEF GoalsInOrder
<1>11. QueueIsOfCurrent'
  <2>1. Current' = Current
        BY DEF Current
  <2> SUFFICES ASSUME Deletes', NEW i \in Range(queue)
               PROVE  backups'[i].root <= Current /\ Current <= i
      BY <1>1, <1>2, <2>1 DEF QueueIsOfCurrent
  <2>2. i \in Ids
        BY <1>2 DEF AdminOK
  <2> QED BY <1>1, <1>2, <1>3, <2>2 DEF QueueIsOfCurrent
<1>12. QueueInOrder'
  <2> SUFFICES ASSUME Deletes', NEW a \in DOMAIN queue, NEW j \in Listed',
                      j # queue[a], backups'[j].rests = queue[a]
               PROVE  \/ \E b \in 1..(a - 1) : queue[b] = j
                      \/ \E k \in Ids' : Full(k)' /\ backups'[j].root < k /\ k < j
      BY DEF QueueInOrder
  <2>1. Deletes /\ Works
        BY <1>1 DEF Works
  <2>2. CASE j \in Ids
    <3>1. j \in Listed /\ backups[j].rests = queue[a] /\ backups'[j].root = backups[j].root
          BY <1>3, <1>5, <2>2
    <3>2. CASE \E b \in 1..(a - 1) : queue[b] = j
          BY <3>2
    <3>3. CASE \E k \in Ids : Full(k) /\ backups[j].root < k /\ k < j
          BY <1>3, <3>1, <3>3
    <3> QED BY <1>2, <2>1, <3>1, <3>2, <3>3 DEF QueueInOrder
  <2>3. CASE j \notin Ids
    <3>1. j \in Ids' \ Ids /\ ~Full(j)'
          BY <2>3 DEF Listed, Full
    <3>2. queue[a] \in Range(queue) /\ queue[a] \in Ids /\ Current \in Range(queue)
          BY <1>2, <2>1, CurrentIsQueued
    <3>3. Current \in goals /\ backups[queue[a]].root <= Current
          BY <1>2, <2>1, <3>2 DEF QueueIsOfCurrent
    <3>4. Cardinality(Newer(Current)) >= Keep
          BY <1>2, <2>1, <3>3 DEF GoalsAreOld
    <3>5. PICK k \in Available : Full(k) /\ k > Current
          BY <3>4, SomeAreNewer
    <3>6. /\ queue[a] < j /\ k <= queue[a]
          /\ backups'[j].root = backups[queue[a]].root
          BY <1>4, <3>1
    <3>7. k \in Ids /\ k \in Nat /\ j \in Nat /\ queue[a] \in Nat /\ Current \in Nat
          BY <1>3, <1>6, <1>7, <3>1, <3>2, <3>3
    <3>8. backups[queue[a]].root \in Nat
          BY <1>2, <3>2, IdsAreFinite DEF Backup
    <3>9. backups'[j].root < k /\ k < j
          BY <3>3, <3>5, <3>6, <3>7, <3>8
    <3> QED BY <1>3, <3>5, <3>7, <3>9
  <2> QED BY <2>2, <2>3
<1> QED BY <1>8, <1>9, <1>10, <1>11, <1>12 DEF RotationInv
-----------------------------------------------------------------------------
(* The steps of the admin job.                                             *)

\* What is deleted is not needed.
LEMMA Deletion ==
    ASSUME RotationInv, step = "delete", NEW i \in Ids, i = Head(queue), Deletable(i),
           Becomes(i, "deleting")
    PROVE  BackupsInv' /\ Grows
<1>1. /\ BackupsInv /\ BackupsOK /\ RemovalsAreLast /\ NewerAreKept
      /\ AdminOK /\ GoalsAreOld /\ GoalsInOrder /\ QueueIsOfCurrent
      BY DEF RotationInv, BackupsInv
<1>2. Deletes /\ Works
      BY DEF Deletes, Works
<1>3. /\ Ids' = Ids /\ backups' \in Seq(Backup)
      /\ \A j \in Ids : /\ backups'[j].rests = backups[j].rests
                        /\ backups'[j].root = backups[j].root
                        /\ backups'[j].status = IF j = i THEN "deleting" ELSE backups[j].status
      /\ \A j \in Ids : Full(j)' <=> Full(j)
      BY <1>1, StatusChanges DEF Settling
<1>4. /\ backups[i].status \in {"available", "error"}
      /\ \A j \in Listed : j # i => backups[j].rests # i
      BY DEF Deletable
<1>5. Available' = Available \ {i} /\ Listed' = Listed /\ \A j \in Ids : Gone(j) <=> Gone(j)'
      BY <1>3, <1>4 DEF Available, Listed, Gone, Is
<1>6. /\ Available \subseteq Ids /\ Listed \subseteq Ids /\ Ids \subseteq Nat
      /\ \A S, T \in SUBSET Ids : S \subseteq T => Cardinality(S) <= Cardinality(T)
      /\ \A S \in SUBSET Ids : Cardinality(S) \in Nat
      /\ \A j \in Ids : backups[j].root \in Nat
      BY <1>1, IdsAreFinite DEF Available, Listed, Backup
<1>7. i \in Range(queue)
      BY <1>1, <1>2, CurrentIsQueued DEF Range
<1>8. /\ Current \in goals /\ Current \in Ids /\ Full(Current)
      /\ Cardinality(Newer(Current)) >= Keep
      /\ backups[i].root <= Current /\ Current <= i
      BY <1>1, <1>2, <1>7 DEF QueueIsOfCurrent, GoalsAreOld, AdminOK
<1>9. Full(i) => i = Current
  <2>1. Full(i) => backups[i].root = i
        BY <1>1 DEF BackupsOK
  <2> QED BY <1>6, <1>8, <2>1
<1>10. \A f \in Ids : Cardinality(Newer(f)) >= Keep => Cardinality(Newer(f)') >= Keep
  <2> SUFFICES ASSUME NEW f \in Ids, Cardinality(Newer(f)) >= Keep
               PROVE  Cardinality(Newer(f)') >= Keep
      OBVIOUS
  <2>1. Newer(f)' = Newer(f) \ {i}
        BY <1>3, <1>5, <1>6 DEF Newer
  <2>2. CASE i \notin Newer(f)
        BY <2>1, <2>2, Newer(f)' = Newer(f)
  <2>3. CASE i \in Newer(f)
    <3>1. i = Current /\ f < i
          BY <1>6, <1>9, <2>3 DEF Newer
    <3>2. Newer(i) \subseteq Newer(f) /\ i \notin Newer(i) /\ Newer(f) \subseteq Ids
          BY <1>1, <1>6, <3>1, NewerOfNewer
    <3>3. /\ Cardinality(Newer(i)) <= Cardinality(Newer(f)')
          /\ Cardinality(Newer(i)) \in Nat /\ Cardinality(Newer(f)') \in Nat
      <4>1. Newer(i) \subseteq Newer(f)' /\ Newer(i) \subseteq Ids /\ Newer(f)' \subseteq Ids
            BY <2>1, <3>2
      <4> QED BY <1>6, <4>1
    <3>4. Cardinality(Newer(i)) >= Keep
          BY <1>8, <3>1
    <3> QED BY <3>3, <3>4, RotationConstants
  <2> QED BY <2>2, <2>3
<1>11. BackupsOK'
  <2> SUFFICES ASSUME NEW j \in Ids
               PROVE  /\ backups'[j].rests \in 1..j /\ backups'[j].root \in 1..j
                      /\ Full(backups[j].root)'
                      /\ backups'[backups[j].rests].root = backups[j].root
                      /\ Full(j) => backups[j].root = j
                      /\ j \in Listed /\ ~Full(j) => backups[j].rests \in Available'
      BY <1>3, <1>5 DEF BackupsOK
  <2>1. /\ backups[j].rests \in 1..j /\ backups[j].root \in 1..j
        /\ Full(backups[j].root)
        /\ backups[backups[j].rests].root = backups[j].root
        /\ Full(j) => backups[j].root = j
        /\ j \in Listed /\ ~Full(j) => backups[j].rests \in Available
        BY <1>1 DEF BackupsOK
  <2>2. backups[j].rests \in Ids /\ backups[j].root \in Ids
        BY <1>1, <2>1, IdsAreFinite
  <2>3. j \in Listed /\ ~Full(j) => backups[j].rests # i
        BY <1>4 DEF Full
  <2> QED BY <1>3, <1>5, <2>1, <2>2, <2>3
<1>12. NewerAreKept'
  <2> SUFFICES ASSUME NEW j \in Ids, NEW f \in Ids, Deleted(j)', backups[j].root = f
               PROVE  Cardinality(Newer(f)') >= Keep
      BY <1>3 DEF NewerAreKept
  <2>1. CASE j # i
    <3>1. Deleted(j)
          BY <1>3, <2>1 DEF Deleted
    <3> QED BY <1>1, <1>10, <3>1 DEF NewerAreKept
  <2>2. CASE j = i
    <3>1. f <= Current /\ f \in Nat /\ Current \in Nat
          BY <1>6, <1>8, <2>2
    <3>2. Newer(Current) \subseteq Newer(f) /\ Newer(f) \subseteq Ids
          BY <1>1, <3>1, NewerOfNewer
    <3>3. Newer(Current) \subseteq Ids
          BY <3>2
    <3>4. /\ Cardinality(Newer(Current)) <= Cardinality(Newer(f))
          /\ Cardinality(Newer(Current)) \in Nat /\ Cardinality(Newer(f)) \in Nat
          BY <1>6, <3>2, <3>3
    <3>5. Cardinality(Newer(f)) >= Keep
          BY <1>8, <3>4, RotationConstants
    <3> QED BY <1>10, <3>5
  <2> QED BY <2>1, <2>2
<1>13. RemovalsAreLast'
  <2> SUFFICES ASSUME NEW k \in Ids, NEW j \in Listed, Full(k), Deleted(k)',
                      backups[j].root < k, k < j
               PROVE  FALSE
    <3>1. \A j \in Listed : backups'[j].root = backups[j].root
          BY <1>3, <1>6
    <3> QED BY <1>3, <1>5, <3>1 DEF RemovalsAreLast
  <2>1. CASE k # i
    <3>1. Deleted(k)
          BY <1>3, <2>1 DEF Deleted
    <3> QED BY <1>1, <3>1 DEF RemovalsAreLast
  <2>2. CASE k = i
    <3>1. k = Current /\ j \in Ids
          BY <1>6, <1>9, <2>2
    <3>2. ~Full(j)
          BY <1>1, <1>6, <3>1 DEF BackupsOK
    <3> DEFINE r == backups[j].root
    <3>3. r \in goals
          BY <1>1, <1>2, <1>8, <3>1, <3>2 DEF GoalsAreOld
    <3>4. r \in Available
          BY <1>1, <3>2, RootIsThere
    <3>5. ~Gone(r)
          BY <3>4 DEF Available, Gone, Is
    <3>6. r \in Range(fulls)
          BY <1>1, <1>2, <1>6, <3>1, <3>3, <3>5 DEF GoalsInOrder
    <3>7. Current < r
          BY <1>1, <1>2, <3>6 DEF QueueIsOfCurrent
    <3>8. r \in Nat /\ k \in Nat /\ r < k
          BY <1>6, <3>1
    <3> QED BY <3>1, <3>7, <3>8
  <2> QED BY <2>1, <2>2
<1> QED BY <1>3, <1>5, <1>10, <1>11, <1>12, <1>13 DEF BackupsInv, Grows

LEMMA DeletingInv ==
    ASSUME RotationInv, DeleteBackup
    PROVE  RotationInv'
<1>1. Deletes /\ AdminOK /\ BackupsInv /\ step = "delete"
      BY DEF RotationInv, DeleteBackup, Deletes
<1> DEFINE i == Head(queue)
<1>2. i \in Ids
      BY <1>1, CurrentIsQueued
<1>3. UNCHANGED <<wants, goals, fulls, queue>>
      BY DEF DeleteBackup
<1>4. wants' \in {"nothing", "full", "incremental"}
      BY <1>1, <1>3 DEF AdminOK
<1>5. CASE Deletable(i) /\ Becomes(i, "deleting") /\ step' = "wait"
  <2>1. BackupsInv' /\ Grows
        BY <1>1, <1>2, <1>5, Deletion
  <2> QED BY <1>1, <1>3, <1>4, <1>5, <2>1, AdminUndisturbed
<1>6. CASE UNCHANGED backups /\ step' \in {"wait", "refused"}
  <2>1. BackupsInv' /\ Grows
        BY <1>1, <1>6, NoBackup
  <2> QED BY <1>1, <1>3, <1>4, <1>6, <2>1, AdminUndisturbed
<1> QED BY <1>5, <1>6 DEF DeleteBackup
LEMMA EndOfQueue ==
    ASSUME RotationInv, step = "wait", Gone(Head(queue)), queue' = Tail(queue),
           step' = IF queue' = <<>> THEN "next" ELSE "delete",
           UNCHANGED <<backups, wants, goals, fulls>>
    PROVE  RotationInv'
<1>1. /\ BackupsInv /\ BackupsOK /\ AdminOK /\ GoalsAreOld /\ GoalsInOrder
      /\ QueueIsOfCurrent /\ QueueInOrder /\ Deletes /\ Works
      BY DEF RotationInv, BackupsInv, Deletes, Works
<1>2. BackupsInv' /\ Ids' = Ids /\ Listed' = Listed /\ Available' = Available
      BY <1>1, NoBackup
<1>3. /\ Len(queue) \in Nat /\ Len(queue) \in DOMAIN queue /\ DOMAIN queue = 1..Len(queue)
      /\ 1 \in DOMAIN queue /\ Head(queue) = queue[1] /\ queue \in Seq(Nat) /\ queue # <<>>
      /\ \A a \in DOMAIN queue : queue[a] \in Range(queue) /\ queue[a] \in Ids
      BY <1>1, CurrentIsQueued DEF AdminOK
<1>4. /\ queue' \in Seq(Nat) /\ Len(queue') = Len(queue) - 1
      /\ DOMAIN queue' = 1..(Len(queue) - 1)
      /\ \A a \in 1..(Len(queue) - 1) : queue'[a] = queue[a + 1] /\ a + 1 \in DOMAIN queue
      BY <1>3, HeadTailProperties
<1>5. Range(queue') \subseteq Range(queue)
      BY <1>4 DEF Range
<1>6. /\ Works' /\ step' \in {"next", "delete"}
      /\ Deletes' <=> queue' # <<>>
      BY DEF Works, Deletes
<1>7. queue' # <<>> => Current' = Current
  <2> SUFFICES ASSUME queue' # <<>> PROVE Current' = Current
      OBVIOUS
  <2>1. Len(queue') \in Nat \ {0}
        BY <1>4
  <2>2. Len(queue) - 1 \in 1..(Len(queue) - 1)
        BY <1>3, <1>4, <2>1
  <2> QED BY <1>3, <1>4, <2>2 DEF Current
<1>8. queue' = <<>> => Gone(Current)
  <2> SUFFICES ASSUME queue' = <<>> PROVE Gone(Current)
      OBVIOUS
  <2>1. Len(queue) = 1
        BY <1>3, <1>4
  <2> QED BY <1>3, <2>1 DEF Current
<1>9. AdminOK'
      BY <1>1, <1>2, <1>4, <1>5, <1>6 DEF AdminOK
<1>10. GoalsAreOld'
  <2>1. \A g \in goals : Newer(g)' = Newer(g) /\ (Full(g)' <=> Full(g))
        BY <1>2 DEF Newer, Full
  <2> QED BY <1>1, <1>2, <2>1 DEF GoalsAreOld, Full
<1>11. GoalsInOrder'
  <2>1. \A g \in goals : Gone(g)' <=> Gone(g)
        BY DEF Gone, Is
  <2>2. \A g \in goals : Gone(g) \/ g \in Range(fulls) \/ g = Current
        BY <1>1 DEF GoalsInOrder
  <2> QED BY <1>6, <1>7, <1>8, <2>1, <2>2 DEF GoalsInOrder
<1>12. QueueIsOfCurrent'
      BY <1>1, <1>5, <1>6, <1>7 DEF QueueIsOfCurrent
<1>13. QueueInOrder'
  <2> SUFFICES ASSUME NEW a \in 1..(Len(queue) - 1), NEW j \in Listed,
                      j # queue'[a], backups[j].rests = queue'[a]
               PROVE  \/ \E b \in 1..(a - 1) : queue'[b] = j
                      \/ \E k \in Ids : Full(k) /\ backups[j].root < k /\ k < j
      BY <1>2, <1>4 DEF QueueInOrder, Full
  <2>1. a + 1 \in DOMAIN queue /\ queue'[a] = queue[a + 1]
        BY <1>4
  <2>2. \/ \E b \in 1..(a + 1 - 1) : queue[b] = j
        \/ \E k \in Ids : Full(k) /\ backups[j].root < k /\ k < j
        BY <1>1, <2>1 DEF QueueInOrder
  <2>3. ASSUME NEW b \in 1..(a + 1 - 1), queue[b] = j
        PROVE  \E c \in 1..(a - 1) : queue'[c] = j
    <3>1. b # 1
          BY <1>3, <2>3 DEF Listed
    <3>2. b - 1 \in 1..(a - 1) /\ b - 1 \in 1..(Len(queue) - 1) /\ (b - 1) + 1 = b
          BY <1>3, <3>1
    <3>3. queue'[b - 1] = queue[(b - 1) + 1]
          BY <1>4, <3>2
    <3> QED BY <2>3, <3>2, <3>3
  <2> QED BY <2>2, <2>3
<1> QED BY <1>2, <1>9, <1>10, <1>11, <1>12, <1>13 DEF RotationInv

LEMMA WaitingInv ==
    ASSUME RotationInv, WaitDelBackup
    PROVE  RotationInv'
<1>1. Deletes /\ AdminOK /\ BackupsInv /\ step = "wait"
      BY DEF RotationInv, WaitDelBackup, Deletes
<1>2. UNCHANGED <<backups, wants, goals, fulls>>
      BY DEF WaitDelBackup
<1>3. CASE step' = "failed" /\ UNCHANGED queue
  <2>1. BackupsInv' /\ Grows
        BY <1>1, <1>2, NoBackup
  <2>2. wants' \in {"nothing", "full", "incremental"}
        BY <1>1, <1>2 DEF AdminOK
  <2> QED BY <1>1, <1>2, <1>3, <2>1, <2>2, AdminUndisturbed
<1>4. CASE /\ Gone(Head(queue)) /\ queue' = Tail(queue)
           /\ step' = IF queue' = <<>> THEN "next" ELSE "delete"
      BY <1>1, <1>2, <1>4, EndOfQueue
<1> QED BY <1>3, <1>4 DEF WaitDelBackup

LEMMA EndingInv ==
    ASSUME RotationInv, RotationEnds
    PROVE  RotationInv'
<1>1. /\ BackupsInv /\ AdminOK /\ GoalsInOrder /\ step = "next" /\ fulls = <<>> /\ step' = "returned"
      /\ UNCHANGED <<backups, wants, goals, fulls, queue>>
      BY DEF RotationInv, RotationEnds
<1>2. BackupsInv' /\ Ids' = Ids
      BY <1>1, NoBackup
<1>3. ~Works' /\ ~Deletes' /\ ~Deletes /\ Works
      BY <1>1 DEF Works, Deletes
<1>4. AdminOK'
      BY <1>1, <1>2, <1>3 DEF AdminOK
<1>5. Range(fulls) = {}
      BY <1>1 DEF Range
<1>6. \A g \in goals : Gone(g)'
      BY <1>1, <1>3, <1>5 DEF GoalsInOrder, Gone, Is
<1>7. GoalsInOrder'
      BY <1>1, <1>3, <1>6 DEF GoalsInOrder
<1> QED BY <1>2, <1>3, <1>4, <1>7 DEF RotationInv, GoalsAreOld, QueueIsOfCurrent, QueueInOrder

LEMMA RestartInv ==
    ASSUME RotationInv, NextRotation
    PROVE  RotationInv'
<1>1. /\ BackupsInv /\ AdminOK /\ step' = "idle" /\ goals' = {} /\ fulls' = <<>> /\ queue' = <<>>
      /\ UNCHANGED <<backups, wants>>
      BY DEF RotationInv, NextRotation
<1>2. BackupsInv' /\ Ids' = Ids
      BY <1>1, NoBackup
<1>3. ~Works' /\ ~Deletes' /\ step' # "returned"
      BY <1>1 DEF Works, Deletes
<1>4. AdminOK'
  <2>1. <<>> \in Seq(Nat) /\ Range(<<>>) = {} /\ Ascends(<<>>)
        BY DEF Range, Ascends
  <2> QED BY <1>1, <1>3, <2>1 DEF AdminOK
<1> QED BY <1>2, <1>3, <1>4
        DEF RotationInv, GoalsAreOld, GoalsInOrder, QueueIsOfCurrent, QueueInOrder
\* The queue holds the dependents from the newest on, and last the full backup.
LEMMA QueueOf ==
    ASSUME BackupsOK, NEW f \in Ids, NEW q,
           q = Append(NewestFirst(Dependents(f)), f)
    PROVE  /\ q \in Seq(Nat) /\ q # <<>> /\ q[Len(q)] = f
           /\ Range(q) = Dependents(f) \cup {f}
           /\ \A a, b \in DOMAIN q : q[a] < q[b] => b < a
<1> DEFINE D == Dependents(f)
           s == NewestFirst(D)
           c == Cardinality(D)
<1>1. /\ Len(backups) \in Nat /\ Ids = 1..Len(backups) /\ Ids \subseteq Nat /\ f \in Nat
      BY IdsAreFinite
<1>2. D \in SUBSET (1..Len(backups)) /\ \A i \in D : i > f
      BY <1>1 DEF Dependents, Listed
<1>3. c \in Nat /\ s \in [1..c -> D] /\ Descends(s) /\ Range(s) = D
      BY <1>1, <1>2, NewestFirstFacts
<1> HIDE DEF s, c, D
<1>4. s \in Seq(Nat) /\ Len(s) = c
  <2>1. s \in [1..c -> Nat]
        BY <1>1, <1>2, <1>3
  <2> QED BY <1>3, <2>1
<1>5. /\ q \in Seq(Nat) /\ Len(q) = c + 1 /\ DOMAIN q = 1..(c + 1) /\ q[c + 1] = f
      /\ \A a \in 1..c : q[a] = s[a]
  <2>1. q = Append(s, f)
        BY DEF s, D
  <2> QED BY <1>1, <1>3, <1>4, <2>1
<1>6. \A a \in 1..c : s[a] \in D /\ s[a] \in Nat /\ s[a] > f
      BY <1>1, <1>2, <1>3
<1>7. Range(q) = D \cup {f}
  <2>1. \A x \in Range(q) : x \in D \cup {f}
        BY <1>3, <1>5, <1>6 DEF Range
  <2>2. \A x \in D : x \in Range(q)
    <3> SUFFICES ASSUME NEW x \in Range(s) PROVE x \in Range(q)
        BY <1>3
    <3>1. PICK a \in 1..c : x = s[a]
          BY <1>3 DEF Range
    <3>2. a \in DOMAIN q /\ q[a] = x
          BY <1>3, <1>5, <3>1
    <3> QED BY <3>2 DEF Range
  <2>3. f \in Range(q)
    <3>1. c + 1 \in DOMAIN q
          BY <1>3, <1>5
    <3> QED BY <1>5, <3>1 DEF Range
  <2> QED BY <2>1, <2>2, <2>3
<1>8. ASSUME NEW a \in 1..(c + 1), NEW b \in 1..(c + 1), q[a] < q[b]
      PROVE  b < a
  <2>1. b # c + 1
    <3> SUFFICES ASSUME b = c + 1 PROVE FALSE
        OBVIOUS
    <3>1. q[b] = f
          BY <1>5
    <3>2. CASE a = c + 1
          BY <1>1, <1>5, <1>8, <3>1, <3>2
    <3>3. CASE a # c + 1
      <4>1. a \in 1..c
            BY <1>3, <3>3
      <4>2. q[a] = s[a] /\ s[a] > f /\ s[a] \in Nat
            BY <1>5, <1>6, <4>1
      <4> QED BY <1>1, <1>8, <3>1, <4>2
    <3> QED BY <3>2, <3>3
  <2>2. b \in 1..c
        BY <1>3, <2>1
  <2>3. CASE a = c + 1
        BY <1>3, <2>2, <2>3
  <2>4. CASE a # c + 1
    <3>1. a \in 1..c
          BY <1>3, <2>4
    <3>2. s[a] < s[b] /\ s[a] \in Nat /\ s[b] \in Nat
          BY <1>5, <1>6, <1>8, <2>2, <3>1
    <3>3. ~(a < b)
          BY <1>3, <2>2, <3>1, <3>2 DEF Descends
    <3>4. a # b
          BY <3>2
    <3> QED BY <2>2, <3>1, <3>3, <3>4
  <2> QED BY <2>3, <2>4
<1>9. q # <<>> /\ q[Len(q)] = f
      BY <1>3, <1>5
<1> QED BY <1>5, <1>7, <1>8, <1>9 DEF D

LEMMA NextFullInv ==
    ASSUME RotationInv, NextFull
    PROVE  RotationInv'
<1>1. /\ BackupsInv /\ BackupsOK /\ AdminOK /\ GoalsAreOld /\ GoalsInOrder
      /\ step = "next" /\ fulls # <<>> /\ UNCHANGED <<backups, wants, goals>>
      /\ queue' = Append(NewestFirst(Dependents(Head(fulls))), Head(fulls))
      /\ fulls' = Tail(fulls) /\ step' = "delete"
      BY DEF RotationInv, BackupsInv, NextFull
<1>2. BackupsInv' /\ Ids' = Ids /\ Listed' = Listed /\ Available' = Available
      BY <1>1, NoBackup
<1>3. Works /\ Works' /\ ~Deletes /\ Deletes' /\ step' # "returned"
      BY <1>1 DEF Works, Deletes
<1>4. /\ fulls \in Seq(Nat) /\ Range(fulls) \subseteq goals /\ Ascends(fulls) /\ goals \subseteq Ids
      BY <1>1 DEF AdminOK
<1>5. /\ Len(fulls) \in Nat /\ 1 \in DOMAIN fulls /\ DOMAIN fulls = 1..Len(fulls)
      /\ Head(fulls) = fulls[1]
      BY <1>1, <1>4
<1>6. PICK f \in Ids : f = Head(fulls)
  <2>1. fulls[1] \in Range(fulls)
        BY <1>5 DEF Range
  <2> QED BY <1>4, <1>5, <2>1
<1>7. f \in Range(fulls) /\ f \in goals /\ f \in Nat
      BY <1>4, <1>5, <1>6 DEF Range
<1>8. /\ fulls' \in Seq(Nat) /\ Len(fulls') = Len(fulls) - 1 /\ DOMAIN fulls' = 1..(Len(fulls) - 1)
      /\ \A a \in 1..(Len(fulls) - 1) : fulls'[a] = fulls[a + 1] /\ a + 1 \in DOMAIN fulls
      BY <1>1, <1>4, <1>5, HeadTailProperties
<1>9. Ascends(fulls')
  <2> SUFFICES ASSUME NEW m \in 1..(Len(fulls) - 1), NEW n \in 1..(Len(fulls) - 1), m < n
               PROVE  fulls'[m] < fulls'[n]
      BY <1>8 DEF Ascends
  <2>1. m + 1 < n + 1
        OBVIOUS
  <2> QED BY <1>4, <1>8, <2>1 DEF Ascends
<1>10. \A g \in Range(fulls') : g \in Range(fulls) /\ f < g
  <2> SUFFICES ASSUME NEW a \in 1..(Len(fulls) - 1) PROVE fulls'[a] \in Range(fulls) /\ f < fulls'[a]
      BY <1>8 DEF Range
  <2>1. 1 < a + 1
        OBVIOUS
  <2> QED BY <1>4, <1>5, <1>6, <1>8, <2>1 DEF Range, Ascends
<1>11. \A g \in Range(fulls) : g = f \/ g \in Range(fulls')
  <2> SUFFICES ASSUME NEW a \in 1..Len(fulls), a # 1 PROVE fulls[a] \in Range(fulls')
      BY <1>5, <1>6 DEF Range
  <2>1. a - 1 \in 1..(Len(fulls) - 1) /\ (a - 1) + 1 = a
        BY <1>5
  <2>2. fulls'[a - 1] = fulls[a] /\ a - 1 \in DOMAIN fulls'
        BY <1>8, <2>1
  <2> QED BY <2>2 DEF Range
<1>12. /\ queue' \in Seq(Nat) /\ queue' # <<>> /\ Current' = f
       /\ Range(queue') = Dependents(f) \cup {f}
       /\ \A a, b \in DOMAIN queue' : queue'[a] < queue'[b] => b < a
  <2>1. queue' = Append(NewestFirst(Dependents(f)), f)
        BY <1>1, <1>6
  <2> QED BY <1>1, <2>1, QueueOf DEF Current
<1>13. Dependents(f) \subseteq Listed /\ Listed \subseteq Ids /\ Ids \subseteq Nat
       BY <1>1, IdsAreFinite DEF Dependents, Listed
<1>14. Full(f) /\ backups[f].root = f
       BY <1>1, <1>3, <1>7 DEF GoalsAreOld, BackupsOK
<1>15. \A j \in Listed : ~Full(j) => /\ backups[j].root \in Listed /\ backups[j].root \in Ids
                                     /\ Full(backups[j].root) /\ backups[j].root \in 1..j
  <2> SUFFICES ASSUME NEW j \in Listed, ~Full(j)
               PROVE  /\ backups[j].root \in Listed /\ backups[j].root \in Ids
                      /\ Full(backups[j].root) /\ backups[j].root \in 1..j
      OBVIOUS
  <2>1. backups[j].root \in Available
        BY <1>1, RootIsThere
  <2> QED BY <1>1, <1>13, <2>1 DEF BackupsOK, Available, Listed, Gone, Is
<1>16. \A i \in Dependents(f) : ~Full(i) /\ i > f /\ backups[i].root <= f
  <2> SUFFICES ASSUME NEW i \in Dependents(f)
               PROVE  ~Full(i) /\ i > f /\ backups[i].root <= f
      OBVIOUS
  <2>1. i \in Listed /\ i > f /\ i \in Nat /\ \A j \in Listed : j \in (f + 1)..i => ~Full(j)
        BY <1>13 DEF Dependents
  <2>2. i \in (f + 1)..i
        BY <1>7, <2>1
  <2>3. ~Full(i)
        BY <2>1, <2>2
  <2>4. backups[i].root \in Listed /\ Full(backups[i].root) /\ backups[i].root \in 1..i
        BY <1>15, <2>1, <2>3
  <2>5. backups[i].root \notin (f + 1)..i
        BY <2>1, <2>4
  <2> QED BY <1>7, <2>1, <2>3, <2>4, <2>5
<1>17. AdminOK'
  <2>1. Range(queue') \subseteq Ids
        BY <1>12, <1>13
  <2>2. Range(fulls') \subseteq goals
        BY <1>4, <1>10
  <2> QED BY <1>1, <1>2, <1>8, <1>9, <1>12, <2>1, <2>2 DEF AdminOK
<1>18. GoalsAreOld'
  <2>1. \A g \in goals : Newer(g)' = Newer(g) /\ (Full(g)' <=> Full(g))
        BY <1>1, <1>2 DEF Newer, Full
  <2> QED BY <1>1, <1>2, <1>3, <2>1 DEF GoalsAreOld, Full
<1>19. GoalsInOrder'
  <2>1. \A g \in goals : Gone(g)' <=> Gone(g)
        BY <1>1 DEF Gone, Is
  <2>2. \A g \in goals : Gone(g) \/ g \in Range(fulls') \/ g = f
        BY <1>1, <1>3, <1>11 DEF GoalsInOrder
  <2>3. goals' = goals /\ Current' = f
        BY <1>1, <1>12
  <2>4. \A g \in goals' : Gone(g)' \/ g \in Range(fulls') \/ (Deletes' /\ g = Current')
        BY <1>3, <2>1, <2>2, <2>3
  <2> QED BY <1>3, <2>4 DEF GoalsInOrder
<1>20. QueueIsOfCurrent'
  <2>1. \A i \in Dependents(f) : i \in Nat
        BY <1>13
  <2>2. \A i \in Dependents(f) : backups[i].root <= f /\ f <= i
        BY <1>7, <1>16, <2>1
  <2>3. backups[f].root <= f /\ f <= f
        BY <1>7, <1>14
  <2>4. \A i \in Range(queue') : backups[i].root <= f /\ f <= i
        BY <1>12, <2>2, <2>3
  <2> QED BY <1>1, <1>7, <1>10, <1>12, <2>4 DEF QueueIsOfCurrent
<1>21. QueueInOrder'
  <2> SUFFICES ASSUME NEW a \in DOMAIN queue', NEW j \in Listed,
                      j # queue'[a], backups[j].rests = queue'[a]
               PROVE  \/ \E b \in 1..(a - 1) : queue'[b] = j
                      \/ \E k \in Ids : Full(k) /\ backups[j].root < k /\ k < j
      BY <1>1, <1>2 DEF QueueInOrder, Full
  <2> DEFINE i == queue'[a]
  <2>1. i \in Range(queue') /\ a \in Nat /\ DOMAIN queue' = 1..Len(queue')
        BY <1>12 DEF Range
  <2>2. i \in Ids /\ backups[i].root <= f /\ f <= i
        BY <1>7, <1>12, <1>13, <1>14, <1>16, <2>1
  <2>3. j \in Ids /\ j \in Nat /\ i \in Nat /\ ~Full(j)
        BY <1>13, <2>2 DEF Full
  <2>4. i < j /\ backups[j].root = backups[i].root
        BY <1>1, <2>3 DEF BackupsOK
  <2>5. CASE j \in Dependents(f)
    <3>1. j \in Range(queue')
          BY <1>12, <2>5
    <3>2. PICK b \in DOMAIN queue' : queue'[b] = j
          BY <3>1 DEF Range
    <3>3. b < a
          BY <1>12, <2>4, <3>2
    <3>4. b \in 1..(a - 1)
          BY <2>1, <3>2, <3>3
    <3> QED BY <3>2, <3>4
  <2>6. CASE j \notin Dependents(f)
    <3>1. j > f
          BY <1>7, <2>2, <2>3, <2>4
    <3>2. PICK k \in Listed : k \in (f + 1)..j /\ Full(k)
          BY <2>6, <3>1 DEF Dependents
    <3>3. k # j /\ k \in Ids /\ k \in Nat
          BY <1>13, <2>3, <3>2
    <3>4. backups[j].root \in Nat
          BY <1>1, <2>3, IdsAreFinite DEF Backup
    <3>5. backups[j].root < k /\ k < j
          BY <1>7, <2>2, <2>3, <2>4, <3>2, <3>3, <3>4
    <3> QED BY <3>2, <3>3, <3>5
  <2> QED BY <2>5, <2>6
<1> QED BY <1>2, <1>17, <1>18, <1>19, <1>20, <1>21 DEF RotationInv
LEMMA Prefix ==
    ASSUME NEW S, NEW s, NEW k \in Int, \A a \in 1..k : s[a] \in S
    PROVE  /\ SubSeq(s, 1, k) \in Seq(S) /\ Len(SubSeq(s, 1, k)) = IF 1 <= k THEN k ELSE 0
           /\ \A a \in 1..k : SubSeq(s, 1, k)[a] = s[a]
<1>1. /\ SubSeq(s, 1, k) \in Seq(S)
      /\ Len(SubSeq(s, 1, k)) = IF 1 <= k THEN k - 1 + 1 ELSE 0
      /\ \A a \in 1..(k - 1 + 1) : SubSeq(s, 1, k)[a] = s[1 + a - 1]
      BY SubSeqProperties
<1>2. k - 1 + 1 = k /\ \A a \in 1..k : 1 + a - 1 = a
      OBVIOUS
<1> QED BY <1>1, <1>2

\* All but the Keep newest of a row of full backups.
LEMMA SliceOf ==
    ASSUME BackupsOK, NEW s, NEW q, s = OldestFirst({i \in Available : Full(i)}),
           q = SubSeq(s, 1, Len(s) - Keep)
    PROVE  /\ q \in Seq(Nat) /\ Ascends(q)
           /\ \A g \in Range(q) : /\ g \in Available /\ Full(g)
                                  /\ Cardinality(Newer(g)) >= Keep
                                  /\ \A h \in Available : Full(h) /\ h < g => h \in Range(q)
<1> DEFINE S == {i \in Available : Full(i)}
           c == Cardinality(S)
<1>1. /\ Len(backups) \in Nat /\ Ids = 1..Len(backups) /\ Ids \subseteq Nat
      /\ \A T \in SUBSET Ids : IsFiniteSet(T) /\ Cardinality(T) \in Nat
      BY IdsAreFinite
<1>2. S \in SUBSET (1..Len(backups)) /\ S \subseteq Ids
      BY <1>1 DEF Available
<1>3. c \in Nat /\ s \in [1..c -> S] /\ Ascends(s) /\ Range(s) = S
      BY <1>1, <1>2, OldestFirstFacts
<1> HIDE DEF S, c
<1>4. s \in Seq(S) /\ Len(s) = c /\ DOMAIN s = 1..c /\ Keep \in Nat \ {0}
      BY <1>3, RotationConstants
<1>5. /\ q \in Seq(S) /\ Len(q) = IF 1 <= c - Keep THEN c - Keep ELSE 0
      /\ \A a \in 1..(c - Keep) : q[a] = s[a]
  <2>1. PICK k \in Int : k = c - Keep
        BY <1>3, <1>4
  <2>2. \A a \in 1..k : s[a] \in S
        BY <1>3, <1>4, <2>1
  <2>3. q = SubSeq(s, 1, k)
        BY <1>4, <2>1, Zenon
  <2>4. /\ SubSeq(s, 1, k) \in Seq(S) /\ Len(SubSeq(s, 1, k)) = IF 1 <= k THEN k ELSE 0
        /\ \A a \in 1..k : SubSeq(s, 1, k)[a] = s[a]
        BY <2>2, Prefix
  <2>5. q \in Seq(S) /\ Len(q) = (IF 1 <= k THEN k ELSE 0) /\ \A a \in 1..k : q[a] = s[a]
        BY <2>3, <2>4, Zenon
  <2> QED BY <2>1, <2>5, Zenon
<1>6. DOMAIN q = 1..(c - Keep)
  <2>1. DOMAIN q = 1..Len(q)
        BY <1>5
  <2> QED BY <1>3, <1>4, <1>5, <2>1
<1>7. \A a \in 1..(c - Keep) : a \in 1..c /\ a \in DOMAIN s /\ q[a] = s[a] /\ s[a] \in S
      BY <1>3, <1>4, <1>5
<1>8. q \in Seq(Nat)
      BY <1>1, <1>2, <1>5, SeqMonotonic
<1>9. Ascends(q)
  <2> SUFFICES ASSUME NEW m \in 1..(c - Keep), NEW n \in 1..(c - Keep), m < n
               PROVE  q[m] < q[n]
      BY <1>6 DEF Ascends
  <2>1. s[m] < s[n]
        BY <1>3, <1>7 DEF Ascends
  <2> QED BY <1>7, <2>1
<1>10. ASSUME NEW g \in Range(q)
       PROVE  /\ g \in Available /\ Full(g)
              /\ Cardinality(Newer(g)) >= Keep
              /\ \A h \in Available : Full(h) /\ h < g => h \in Range(q)
  <2>1. PICK a \in 1..(c - Keep) : g = s[a] /\ a \in DOMAIN s
        BY <1>6, <1>7 DEF Range
  <2>2. g \in S /\ g \in Available /\ Full(g) /\ g \in Nat
        BY <1>1, <1>2, <1>7, <2>1 DEF S
  <2>3. Cardinality(Newer(g)) >= Keep
    <3> DEFINE I == (c - Keep + 1)..c
               h == [x \in I |-> s[x]]
    <3>1. Cardinality(I) = Keep
          BY <1>3, <1>4, <2>1, FS_Interval
    <3>2. \A x \in I : x \in DOMAIN s /\ a < x /\ x \in Nat /\ s[x] \in S
          BY <1>3, <1>4, <2>1
    <3>3. \A x \in I : s[x] \in Newer(g)
      <4> SUFFICES ASSUME NEW x \in I PROVE s[x] \in Newer(g)
          OBVIOUS
      <4>1. s[a] < s[x] /\ s[x] \in S
            BY <1>3, <2>1, <3>2 DEF Ascends
      <4>2. s[x] \in Available /\ Full(s[x]) /\ s[x] \in Nat
            BY <1>1, <1>2, <4>1 DEF S
      <4> QED BY <2>1, <2>2, <4>1, <4>2 DEF Newer
    <3>4. \A x, y \in I : s[x] = s[y] => x = y
      <4> SUFFICES ASSUME NEW x \in I, NEW y \in I, s[x] = s[y] PROVE x = y
          OBVIOUS
      <4>1. s[x] \in Nat /\ s[y] \in Nat
            BY <1>1, <1>2, <3>2
      <4>2. ~(s[x] < s[y]) /\ ~(s[y] < s[x])
            BY <4>1
      <4>3. ~(x < y) /\ ~(y < x)
            BY <1>3, <3>2, <4>2 DEF Ascends
      <4> QED BY <3>2, <4>3
    <3>5. h \in Injection(I, Newer(g))
          BY <3>3, <3>4 DEF Injection, IsInjective
    <3>6. IsFiniteSet(Newer(g)) /\ Cardinality(Newer(g)) \in Nat
          BY <1>1, <2>2, NewerOfNewer
    <3> HIDE DEF h, I
    <3>7. Cardinality(I) <= Cardinality(Newer(g))
          BY <3>5, <3>6, FS_Injection
    <3> QED BY <1>4, <3>1, <3>6, <3>7
  <2>4. ASSUME NEW h \in Available, Full(h), h < g PROVE h \in Range(q)
    <3>1. h \in S /\ h \in Nat
          BY <1>1, <1>2, <2>4 DEF S
    <3>2. PICK b \in 1..c : h = s[b] /\ b \in DOMAIN s
          BY <1>3, <1>4, <3>1 DEF Range
    <3>3. ~(a < b) /\ a # b
          BY <1>3, <2>1, <2>2, <2>4, <3>1, <3>2 DEF Ascends
    <3>4. b \in 1..(c - Keep)
          BY <1>3, <1>4, <2>1, <3>2, <3>3
    <3> QED BY <1>6, <1>7, <3>2, <3>4 DEF Range
  <2> QED BY <2>2, <2>3, <2>4
<1> QED BY <1>8, <1>9, <1>10

LEMMA DelOffLimitInv ==
    ASSUME RotationInv, DelOffLimit
    PROVE  RotationInv'
<1>1. /\ BackupsInv /\ BackupsOK /\ AdminOK /\ step = "idle" /\ step' = "next"
      /\ UNCHANGED <<backups, wants, queue>> /\ goals' = Range(fulls')
      BY DEF RotationInv, BackupsInv, DelOffLimit
<1>2. BackupsInv' /\ Ids' = Ids /\ Listed' = Listed /\ Available' = Available
      BY <1>1, NoBackup
<1>3. Works' /\ ~Deletes' /\ step' # "returned"
      BY <1>1 DEF Works, Deletes
<1>4. /\ fulls' \in Seq(Nat) /\ Ascends(fulls')
      /\ \A g \in Range(fulls') : /\ g \in Available /\ Full(g)
                                  /\ Cardinality(Newer(g)) >= Keep
                                  /\ \A h \in Available : Full(h) /\ h < g => h \in Range(fulls')
  <2> DEFINE s == OldestFirst({i \in Available : Full(i)})
  <2>1. fulls' = SubSeq(s, 1, Len(s) - Keep)
        BY DEF DelOffLimit
  <2> HIDE DEF s
  <2>2. s = OldestFirst({i \in Available : Full(i)})
        BY DEF s
  <2> QED BY <1>1, <2>1, <2>2, SliceOf
<1>5. AdminOK'
  <2>1. Available \subseteq Ids
        BY DEF Available
  <2> QED BY <1>1, <1>2, <1>3, <1>4, <2>1 DEF AdminOK
<1>6. GoalsAreOld'
  <2> SUFFICES ASSUME NEW g \in goals'
               PROVE  /\ Full(g)' /\ Cardinality(Newer(g)') >= Keep
                      /\ \A j \in Listed' : ~Full(j)' /\ backups'[j].root < g => backups'[j].root \in goals'
      BY DEF GoalsAreOld
  <2>1. Newer(g)' = Newer(g) /\ (Full(g)' <=> Full(g))
        BY <1>1, <1>2 DEF Newer, Full
  <2>2. ASSUME NEW j \in Listed, ~Full(j), backups[j].root < g PROVE backups[j].root \in goals'
    <3>1. backups[j].root \in Available
          BY <1>1, <2>2, RootIsThere
    <3>2. Full(backups[j].root)
          BY <1>1, <2>2 DEF BackupsOK, Listed
    <3> QED BY <1>1, <1>4, <2>2, <3>1, <3>2
  <2> QED BY <1>1, <1>2, <1>4, <2>1, <2>2 DEF Full
<1>7. GoalsInOrder'
      BY <1>1, <1>3 DEF GoalsInOrder
<1> QED BY <1>2, <1>3, <1>5, <1>6, <1>7 DEF RotationInv, QueueIsOfCurrent, QueueInOrder

-----------------------------------------------------------------------------
(* The invariant, and what follows from it.                                *)

LEMMA RotationStarts ==
    ASSUME RotationInit
    PROVE  RotationInv
<1>1. /\ backups = <<>> /\ wants = "nothing" /\ step = "idle" /\ goals = {} /\ fulls = <<>> /\ queue = <<>>
      BY DEF RotationInit
<1>2. Ids = {} /\ backups \in Seq(Backup) /\ <<>> \in Seq(Nat) /\ Range(<<>>) = {} /\ Ascends(<<>>)
      BY <1>1 DEF Ids, Range, Ascends
<1>3. BackupsInv
      BY <1>2 DEF BackupsInv, BackupsOK, RemovalsAreLast, NewerAreKept
<1>4. ~Works /\ ~Deletes
      BY <1>1 DEF Works, Deletes
<1>5. AdminOK
      BY <1>1, <1>2, <1>4 DEF AdminOK
<1> QED BY <1>1, <1>3, <1>4, <1>5
        DEF RotationInv, GoalsAreOld, GoalsInOrder, QueueIsOfCurrent, QueueInOrder

LEMMA RotationStays ==
    ASSUME RotationInv, [RotationNext]_rotationVars
    PROVE  RotationInv'
<1>1. BackupsInv /\ AdminOK
      BY DEF RotationInv
<1>2. CASE BackupCinder
  <2>1. UNCHANGED <<backups, step, goals, fulls, queue>>
        BY <1>2 DEF BackupCinder, adminVars
  <2>2. wants' \in {"nothing", "full", "incremental"}
        BY <1>2 DEF BackupCinder
  <2>3. BackupsInv' /\ Grows
        BY <1>1, <2>1, NoBackup
  <2> QED BY <2>1, <2>2, <2>3, AdminUndisturbed
<1>3. CASE CreateBackup
  <2>1. BackupsInv' /\ Grows
        BY <1>1, <1>3, Creation
  <2>2. wants' = "nothing" /\ UNCHANGED <<step, goals, fulls, queue>>
        BY <1>3 DEF CreateBackup, adminVars
  <2> QED BY <2>1, <2>2, AdminUndisturbed
<1>4. ASSUME NEW i \in Ids, Settles(i) PROVE RotationInv'
  <2>1. BackupsInv' /\ Grows
        BY <1>1, <1>4, Settlement
  <2>2. UNCHANGED <<wants, step, goals, fulls, queue>>
        BY <1>4 DEF Settles, adminVars
  <2>3. wants' \in {"nothing", "full", "incremental"}
        BY <1>1, <2>2 DEF AdminOK
  <2> QED BY <2>1, <2>2, <2>3, AdminUndisturbed
<1>5. CASE UNCHANGED rotationVars
  <2>1. UNCHANGED <<backups, wants, step, goals, fulls, queue>>
        BY <1>5 DEF rotationVars
  <2>2. wants' \in {"nothing", "full", "incremental"}
        BY <1>1, <2>1 DEF AdminOK
  <2>3. BackupsInv' /\ Grows
        BY <1>1, <2>1, NoBackup
  <2> QED BY <2>1, <2>2, <2>3, AdminUndisturbed
<1> QED BY <1>2, <1>3, <1>4, <1>5, DelOffLimitInv, NextFullInv, EndingInv, DeletingInv,
           WaitingInv, RestartInv DEF RotationNext, AdminStep

LEMMA RotationInvIsEnough ==
    ASSUME RotationInv
    PROVE  RotationTypeOK /\ RotationKeeps /\ RotationRemoves
<1>1. BackupsOK /\ NewerAreKept /\ AdminOK /\ GoalsInOrder
      BY DEF RotationInv, BackupsInv
<1>2. RotationTypeOK
  <2>1. \A i \in Ids : backups[i].status \in Settling
        BY <1>1, IdsAreFinite DEF Backup
  <2>2. \A i \in Ids : backups[i].rests \in 1..i /\ backups[i].root \in 1..i /\ Full(backups[i].root)
        BY <1>1 DEF BackupsOK
  <2> QED BY <1>1, <2>1, <2>2 DEF RotationTypeOK, AdminOK, Deletes
<1>3. RotationKeeps
  <2> SUFFICES ASSUME NEW i \in Ids, Deleted(i)
               PROVE  Cardinality({j \in Available : Full(j) /\ j > backups[i].root}) >= Keep
      BY DEF RotationKeeps, Deleted
  <2>1. backups[i].root \in Ids
    <3>1. backups[i].root \in 1..i
          BY <1>1 DEF BackupsOK
    <3> QED BY <1>1, <3>1, IdsAreFinite
  <2>2. Cardinality(Newer(backups[i].root)) >= Keep
        BY <1>1, <2>1 DEF NewerAreKept
  <2> QED BY <2>2 DEF Newer
<1>4. RotationRemoves
  <2> SUFFICES ASSUME step = "returned", NEW i \in Ids, backups[i].root \in goals, ~Gone(i)
               PROVE  FALSE
      BY DEF RotationRemoves
  <2>1. Gone(backups[i].root)
        BY <1>1 DEF GoalsInOrder
  <2>2. ~Full(i) /\ i \in Listed
        BY <1>1, <2>1 DEF BackupsOK, Listed
  <2>3. backups[i].root \in Available
        BY <1>1, <2>2, RootIsThere
  <2> QED BY <2>1, <2>3 DEF Available, Gone, Is
<1> QED BY <1>2, <1>3, <1>4

LEMMA RefusalIsHonest ==
    ASSUME RotationInv, [RotationNext]_rotationVars
    PROVE  RefusalHasReason
<1> SUFFICES ASSUME step = "delete", step' = "refused"
             PROVE  \E j \in Listed :
                        \/ backups[j].status \in {"creating", "error_deleting", "deleting"}
                        \/ \E k \in Listed : Full(k) /\ backups[j].root < k /\ k < j
    BY DEF RefusalHasReason
<1> DEFINE i == Head(queue)
<1>1. /\ BackupsOK /\ RemovalsAreLast /\ AdminOK /\ QueueInOrder /\ Deletes
      BY DEF RotationInv, BackupsInv, Deletes
<1>2. ~Deletable(i) /\ ~Gone(i)
      BY DEF RotationNext, AdminStep, rotationVars, adminVars, BackupCinder, CreateBackup, Settles,
             DelOffLimit, NextFull, RotationEnds, DeleteBackup, WaitDelBackup, NextRotation
<1>3. i \in Ids /\ i \in Listed /\ i = queue[1] /\ 1 \in DOMAIN queue
      BY <1>1, <1>2, CurrentIsQueued DEF Listed
<1>4. CASE backups[i].status \notin {"available", "error"}
  <2>1. backups[i].status \in Settling /\ backups[i].status # "gone"
        BY <1>1, <1>2, <1>3, IdsAreFinite DEF Backup, Gone, Is
  <2> QED BY <1>3, <1>4, <2>1 DEF Settling
<1>5. CASE \E j \in Listed : j # i /\ backups[j].rests = i
  <2>1. PICK j \in Listed : j # i /\ backups[j].rests = i
        BY <1>5
  <2>2. \/ \E b \in 1..(1 - 1) : queue[b] = j
        \/ \E k \in Ids : Full(k) /\ backups[j].root < k /\ k < j
        BY <1>1, <1>3, <2>1 DEF QueueInOrder
  <2>3. PICK k \in Ids : Full(k) /\ backups[j].root < k /\ k < j
        BY <2>2
  <2>4. k \in Listed
        BY <1>1, <2>3 DEF RemovalsAreLast, Deleted, Listed, Gone, Is
  <2> QED BY <2>3, <2>4
<1> QED BY <1>2, <1>4, <1>5 DEF Deletable

LEMMA RotationStep ==
    RotationInv /\ [CloudNext]_bothVars => RotationInv' /\ RefusalHasReason
<1> SUFFICES ASSUME RotationInv, [CloudNext]_bothVars
             PROVE  RotationInv' /\ RefusalHasReason
    OBVIOUS
<1>1. [RotationNext]_rotationVars
      BY DEF CloudNext, bothVars
<1> QED BY <1>1, RotationStays, RefusalIsHonest

\* Whatever the backups beside it do, for every number of backups and of those to keep: the
\* rotation removes nothing that is to be kept, or that such a backup needs, it returns only
\* when all that was too many is gone, and cinder refuses a deletion only for a reason
\* that the job could not avoid.
THEOREM RotationAlwaysWorks == CloudSpec => RotationWorks
<1>1. CloudInit => RotationInv
      BY RotationStarts DEF CloudInit
<1>2. RotationInv => RotationTypeOK /\ RotationKeeps /\ RotationRemoves
      BY RotationInvIsEnough
<1> QED BY <1>1, <1>2, RotationStep, PTL DEF CloudSpec, RotationWorks
=============================================================================
