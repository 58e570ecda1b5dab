------------------------------- MODULE Cloud -------------------------------
(***************************************************************************)
(* What the agent creates in Cinder, Glance and Nova, and on its own host, *)
(* to back up and restore instances, images and volumes, and what it       *)
(* removes.                                                                *)
(*                                                                         *)
(* Each procedure of the code is a script: the sequence of its calls that  *)
(* create, await, use or remove a resource, or that may raise.  The        *)
(* actions interpret the scripts, while the services settle what they were *)
(* asked for, fail, or lose it.  The job "rotation" is that of Rotation.   *)
(***************************************************************************)
EXTENDS Rotation

VARIABLES
    job,         \* the procedure
    at,          \* the step of its script
    state,       \* of each resource
    outcome,     \* of the procedure
    unremoved    \* a removal has failed

cloudVars == <<job, at, state, outcome, unremoved>>
bothVars   == <<cloudVars, rotationVars>>

Local     == {"tmpdir", "tmpfile", "reservation", "device", "mount", "cwd"}
Resources == {"snapshot", "copy", "image", "volume", "server"} \cup Local

\* What exists before the procedure, and what nothing happens to.
Origin == {}

Line(op, what, from, undo) == [op |-> op, what |-> what, from |-> from, undo |-> undo]

CallOr(undo)       == Line("call", {}, Origin, undo)
Call               == CallOr({})
MakeOr(what, from, undo) == Line("make", what, from, undo)
Make(what, from)   == MakeOr(what, from, {})
Await(how, r)      == Line(how, r, Origin, {})
Use(from)          == Line("use", {}, from, {})
Drop(r)            == Line("drop", {r}, Origin, {})
Break              == Line("break", {}, Origin, {})

-----------------------------------------------------------------------------
(* The scripts.                                                            *)

ProvideSnapshot        == <<Make({"snapshot"}, Origin), Await("poll", {"snapshot"})>>
DoCopyVolume           == <<Make({"copy"}, {"snapshot"}), Await("poll", {"copy"})>>
MakeGlanceImage        == <<Make({"image"}, {"copy"}), Call, Await("image", {"image"})>>
CreateImage(undo)      == <<MakeOr({"image"}, Origin, undo), Line("upload", {"image"}, Origin, undo)>>

\* Mutant of CinderBackup: the copy is not awaited.
CinderBackupHasty ==
    <<Call>> \o ProvideSnapshot \o <<Make({"copy"}, {"snapshot"})>> \o MakeGlanceImage
    \o <<Use({"image"}), Drop("snapshot"), Drop("copy"), Drop("image")>>

\* backup_cinder_by_glance
CinderBackup ==
    <<Call>> \o ProvideSnapshot \o DoCopyVolume \o MakeGlanceImage
    \o <<Use({"image"}), Drop("snapshot"), Drop("copy"), Drop("image")>>

\* The instance is booted from an image: its snapshot is an image.
NovaImageBackup ==
    <<Call, Call, Make({"image"}, Origin), Call, Await("wait_for", {"image"}), Call,
      Use({"image"}), Drop("image")>>

\* From a volume: the image that nova makes refers to a snapshot of that volume.  The client
\* of cinder has no volume_snapshots, so that the script breaks here, and neither the copy
\* nor any of the removals below is reached.
NovaVolumeBackup ==
    <<Call, Call, Make({"image", "snapshot"}, Origin), Call, Await("wait_for", {"image"}), Call>>
    \o <<Break>>

GlanceBackup == <<Call, Use(Origin)>>

\* VolumeAction.__exit__ unreserves the volume, but does not disconnect it.
Attach(volume) ==
    <<Call, MakeOr({"reservation"}, volume, {"reservation"}), CallOr({"reservation"}),
      MakeOr({"device"}, {"reservation"}, {"reservation"}), CallOr({"reservation"})>>

Detach == <<Call, Call, Drop("device"), Call, Drop("reservation")>>

BrickSnapshot ==
    <<Make({"snapshot"}, Origin), Await("wait_for", {"snapshot"}),
      Make({"copy"}, {"snapshot"}), Await("wait_for", {"copy"})>>

\* A volume that cannot be mounted is detached.
BrickBackup ==
    <<Call>> \o BrickSnapshot \o <<Make({"tmpdir"}, Origin)>> \o Attach({"copy"})
    \o <<MakeOr({"mount"}, {"tmpdir", "device"}, {"device", "reservation"}), Make({"cwd"}, {"mount"}), Use({"mount"}),
         Drop("cwd"), Drop("mount"), Drop("tmpdir")>>
    \o Detach \o <<Await("wait_for", {"copy"}), Drop("copy"), Drop("snapshot")>>

\* Into the volume itself, a new one, or a copy of one that is attached.
BrickRestore(first, volume) ==
    <<Call>> \o first \o <<Call, Make({"tmpdir"}, Origin)>> \o Attach(volume)
    \o <<Call, Make({"mount"}, {"tmpdir", "device"}), Use({"mount"}), Drop("mount"), Drop("tmpdir")>>
    \o Detach \o <<Await("wait_for", volume)>>

\* Mutant of CinderRestore: the image the volume was made from is forgotten.
CinderRestoreForgets(open, undo, close) ==
    open \o CreateImage(undo) \o close
    \o <<Make({"volume"}, {"image"}), Await("volume", {"volume"})>>

\* restore_cinder_by_glance
CinderRestore(open, undo, close) ==
    open \o CreateImage(undo) \o close
    \o <<Make({"volume"}, {"image"}), Await("volume", {"volume"}), Drop("image")>>

\* The data are downloaded first, and removed in a finally clause.
FromFile == CinderRestore(<<Call, Make({"tmpfile"}, Origin), CallOr({"tmpfile"})>>, {"tmpfile"},
                          <<Drop("tmpfile")>>)
FromStream == CinderRestore(<<Call>>, {}, <<>>)

\* With a key, the files that were backed up beside the image are extracted to a directory,
\* which is not removed.
ExtractFiles == <<Make({"tmpdir"}, Origin), Call>>

NovaRestore(files) ==
    <<Call>> \o CreateImage({}) \o files
    \o <<Await("wait_for", {"image"}), Call, Make({"server"}, {"image"})>>
GlanceRestore(files) == <<Call>> \o CreateImage({}) \o files \o <<Await("wait_for", {"image"})>>

Script(j) ==
    CASE j = "cinder backup"       -> CinderBackup
      [] j = "nova image backup"   -> NovaImageBackup
      [] j = "nova volume backup"  -> NovaVolumeBackup
      [] j = "glance backup"       -> GlanceBackup
      [] j = "brick backup"        -> BrickBackup
      [] j = "brick restore"       -> BrickRestore(<<>>, Origin)
      [] j = "brick restore new"   ->
             BrickRestore(<<Make({"copy"}, Origin), Await("wait_for", {"copy"})>>, {"copy"})
      [] j = "brick restore copy"  -> BrickRestore(BrickSnapshot, {"copy"})
      [] j = "cinder restore file" -> FromFile
      [] j = "cinder restore"      -> FromStream
      [] j = "nova restore"        -> NovaRestore(<<>>)
      [] j = "nova restore key"    -> NovaRestore(ExtractFiles)
      [] j = "glance restore"      -> GlanceRestore(<<>>)
      [] j = "glance restore key"  -> GlanceRestore(ExtractFiles)

Backups  == {"cinder backup", "nova image backup", "nova volume backup", "glance backup", "brick backup"}
Restores == {"brick restore", "brick restore new", "brick restore copy",
             "cinder restore file", "cinder restore",
             "nova restore", "nova restore key", "glance restore", "glance restore key"}

\* What a procedure is there to create.
Result(j) ==
    CASE j \in {"brick restore new", "brick restore copy"} -> {"copy"}
      [] j \in {"cinder restore", "cinder restore file"}   -> {"volume"}
      [] j \in {"nova restore", "nova restore key"}        -> {"server"}
      [] j \in {"glance restore", "glance restore key"}    -> {"image"}
      [] OTHER                                             -> {}

-----------------------------------------------------------------------------
Now == Script(job)[at]

CloudTypeOK ==
    /\ job \in Backups \cup Restores \cup {"rotation"}
    /\ state \in [Resources -> {"absent", "pending", "ready", "error", "lost", "removed"}]
    /\ outcome \in {"running", "returned", "raised", "abandoned"}
    /\ unremoved \in BOOLEAN
    /\ job # "rotation" => at \in 1..(Len(Script(job)) + 1)
                           /\ (outcome = "returned" <=> at > Len(Script(job)))

CloudInit ==
    /\ job \in Backups \cup Restores \cup {"rotation"}
    /\ at = 1 /\ state = [r \in Resources |-> "absent"]
    /\ outcome = "running" /\ unremoved = FALSE
    /\ RotationInit

At(ops) == job # "rotation" /\ outcome = "running" /\ Now.op \in ops

Advance ==
    /\ at' = at + 1
    /\ outcome' = IF at = Len(Script(job)) THEN "returned" ELSE "running"

\* What is undone is removed, unless that fails too.
RaiseAfter(undo) ==
    /\ outcome' = "raised"
    /\ UNCHANGED at
    /\ LET there == {r \in undo : state[r] # "absent"}
       IN  \/ /\ state' = [r \in Resources |-> IF r \in there THEN "removed" ELSE state[r]]
              /\ UNCHANGED unremoved
           \/ there # {} /\ UNCHANGED state /\ unremoved' = TRUE

Calls ==
    /\ At({"call"})
    /\ (Advance /\ UNCHANGED <<state, unremoved>>) \/ RaiseAfter(Now.undo)
    /\ UNCHANGED job

\* What the host makes is there at once.  A service refuses to make something from
\* what is not ready.
Makes ==
    /\ At({"make"})
    /\ \/ /\ \A r \in Now.from : state[r] = "ready"
          /\ state' = [r \in Resources |-> IF r \notin Now.what THEN state[r]
                                           ELSE IF r \in Local THEN "ready" ELSE "pending"]
          /\ Advance /\ UNCHANGED unremoved
       \/ RaiseAfter(Now.undo)
    /\ UNCHANGED job

\* The data are read or written; the generator of a backup is not resumed when the writer
\* has failed.
Uses ==
    /\ At({"use"})
    /\ \/ Advance /\ UNCHANGED <<state, unremoved>>
       \/ RaiseAfter({})
       \/ /\ job \in Backups \ {"cinder backup"} /\ outcome' = "abandoned"
          /\ UNCHANGED <<at, state, unremoved>>
    /\ UNCHANGED job

Drops ==
    /\ At({"drop"})
    /\ \/ /\ state' = [r \in Resources |-> IF r \in Now.what THEN "removed" ELSE state[r]]
          /\ Advance /\ UNCHANGED unremoved
       \/ UNCHANGED <<at, state>> /\ outcome' = "raised" /\ unremoved' = TRUE
    /\ UNCHANGED job

\* The procedure awaits, in the given way, a resource that has one of the statuses.
Finds(how, status) == At({how}) /\ \E r \in Now.what : state[r] \in status

IsReady == \A r \in Now.what : state[r] = "ready"

AwaitsReady ==
    /\ At({"poll", "image", "wait_for", "upload", "volume"}) /\ IsReady
    /\ Advance /\ UNCHANGED <<job, state, unremoved>>

\* Mutant of PollFails: any exception is logged, and the loop goes on.
PollIgnoresError == Finds("poll", {"error"}) /\ UNCHANGED cloudVars

\* provide_snapshot, do_copy_volume: what is in error is removed.  What is lost is asked
\* for again and again.
PollFails == Finds("poll", {"error"}) /\ RaiseAfter(Now.what) /\ UNCHANGED job

\* make_glance_image: a killed image is removed.  One that is lost may be reported as
\* deleted, or as an exception, which is only logged when it has no code.
ImageFails ==
    /\ \/ Finds("image", {"error"}) /\ RaiseAfter(Now.what)
       \/ Finds("image", {"lost"}) /\ RaiseAfter({})
    /\ UNCHANGED job

\* wait_for ends by its timeout, or by the exception of the condition; a volume that was
\* detached is awaited again.
WaitForFails == At({"wait_for"}) /\ RaiseAfter({}) /\ UNCHANGED job

\* create_image, with what its caller undoes.
UploadFails == Finds("upload", {"error", "lost"}) /\ RaiseAfter(Now.undo) /\ UNCHANGED job

\* What is called is not there.
Breaks == At({"break"}) /\ RaiseAfter({}) /\ UNCHANGED job

\* The services: what they were asked for is there, has failed, or is removed by others.
Serviced(r) ==
    /\ job # "rotation" /\ state[r] = "pending"
    /\ \E s \in {"ready", "error", "lost"} : state' = [state EXCEPT ![r] = s]
    /\ UNCHANGED <<job, at, outcome, unremoved>>

Agent ==
         \/ Calls \/ Makes \/ Uses \/ Drops \/ Breaks
         \/ AwaitsReady \/ PollFails \/ ImageFails \/ WaitForFails \/ UploadFails

CloudNext ==
    \/ Agent /\ UNCHANGED rotationVars
    \/ (\E r \in Resources : Serviced(r)) /\ UNCHANGED rotationVars
    \/ job = "rotation" /\ RotationNext /\ UNCHANGED cloudVars

\* The agent goes on, and the services settle what they have accepted.
CloudSpec == CloudInit /\ [][CloudNext]_bothVars
CloudLiveSpec ==
    /\ CloudSpec
    /\ WF_bothVars(Agent /\ UNCHANGED rotationVars)
    /\ \A r \in Resources : WF_bothVars(Serviced(r) /\ UNCHANGED rotationVars)

-----------------------------------------------------------------------------
There == {r \in Resources : state[r] \in {"pending", "ready", "error"}}

\* What a procedure leaves though it succeeds: the restore of an instance the image that it
\* booted from, a restore into a copy its snapshot, and the restore of an instance or an
\* image with a key a directory of files.
Leaves(j) ==
    CASE j = "nova restore"       -> {"image"}
      [] j = "nova restore key"   -> {"image", "tmpdir"}
      [] j = "glance restore key" -> {"tmpdir"}
      [] j = "brick restore copy" -> {"snapshot"}
      [] OTHER                    -> {}

\* A procedure that returns has removed everything else that it created for a while:
\* snapshots, volumes, images, attachments, mounts and directories.  (The backup of an
\* instance that is booted from a volume always raises.)
CleanOnSuccess == outcome = "returned" => There \ Result(job) \subseteq Leaves(job)

\* Nothing is created from, read from or written to a resource that is not ready.
SourceIsReady == At({"make", "use"}) => \A r \in Now.from : state[r] = "ready"

MadeFrom(r) ==
    UNION {s.from : s \in {s \in Range(Script(job)) : s.op = "make" /\ r \in s.what}}

\* Nothing is removed while something that is made from it is still being made, or,
\* on the host, still in use: a directory on which a volume is mounted is not
\* removed with all that is in it.
DroppedIsUnused ==
    At({"drop"}) =>
        ~\E d \in Resources : /\ MadeFrom(d) \cap Now.what # {}
                              /\ state[d] \in (IF d \in Local THEN {"ready"} ELSE {"pending"})

\* What is found in error is not left behind, unless it cannot be removed: by the procedures
\* that poll; those that wait with wait_for leave it.
FailedIsRemoved ==
    outcome = "raised" /\ ~unremoved /\ Now.op \in {"poll", "image"} =>
        \A r \in Now.what : state[r] # "error"

\* Nothing that a procedure created for a while outlives its success, but where it is said
\* to; nor does what is found in error.
NothingIsLeft == CloudTypeOK /\ CleanOnSuccess /\ FailedIsRemoved

\* A resource is there, and ready, from before it is needed until nothing needs it.
UsedIsReady == SourceIsReady /\ DroppedIsUnused

\* The loops that need not end: on what others have removed, and on a restored volume in
\* error.
Stuck == Finds("poll", {"lost"}) \/ Finds("image", {"lost"}) \/ Finds("volume", {"error", "lost"})

\* No step of the rotation of native backups, of the backups beside it or of cinder leads to
\* where something is removed that is to be kept, or left that was to be removed, and
\* what cinder refuses is not for a wrong order.
RotationWorks ==
    [][RotationTypeOK' /\ RotationKeeps' /\ RotationRemoves' /\ RefusalHasReason]_rotationVars

\* But for these, every procedure ends: each of its waits ends when the service fails, or
\* by a timeout.
ProceduresEnd == <>(job = "rotation" \/ outcome # "running" \/ Stuck)
==============================================================================
