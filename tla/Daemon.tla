------------------------------- MODULE Daemon -------------------------------
(***************************************************************************)
(* The freezer-scheduler command: start, stop, restart and the foreground  *)
(* mode, run by any number of processes at a time, and the pid file that   *)
(* keeps the daemons apart (freezer.scheduler.daemon, pep3143daemon).      *)
(*                                                                         *)
(* A pid file is an inode, named here by the process that created it.  The *)
(* path names one inode or none; a process that has an inode open keeps it *)
(* when the path is removed, and so does the lock (flock) on it.           *)
(*                                                                         *)
(* Not modelled: a pid that is given to another program, status and reload *)
(* (which read the pid file as stop does, and signal nothing that ends).   *)
(***************************************************************************)
EXTENDS Naturals, FiniteSets

CONSTANTS
    Procs,     \* the processes that run the command
    NoFile,    \* no inode, no process
    MaxKills   \* bound: processes that die without notice

ASSUME DaemonConstants == NoFile \notin Procs /\ IsFiniteSet(Procs) /\ MaxKills \in Nat

VARIABLES
    pc,        \* where each process is
    task,      \* what it is doing: an action of the command, or a part of restart
    path,      \* the inode at pid_fname
    content,   \* the pid in each inode; NoFile: it is empty
    holder,    \* who has locked each inode
    file,      \* the inode each process has opened
    signalled, \* the processes that got SIGTERM
    kills

vars == <<pc, task, path, content, holder, file, signalled, kills>>
files == <<path, content, holder, file>>

Commands == {"start", "stop", "restart", "foreground"}
Tasks    == Commands \cup {"swap"}    \* the stop() of a restart
Reading  == {"exists", "isfile", "reading"}
Locking  == {"detaching", "opening", "locking", "truncating", "writing", "registering"}
Working  == {"running", "sleeping", "ending"}
Gone     == {"exited", "released", "aborted", "killed", "raised"}
Places   == {"idle", "removing"} \cup Reading \cup Locking \cup Working \cup Gone

Alive(p) == pc[p] \notin Gone

\* The scheduler of p runs, as a daemon.
Runs(p) == pc[p] \in {"running", "sleeping"} /\ task[p] # "foreground"

TypeOK ==
    /\ pc \in [Procs -> Places] /\ task \in [Procs -> Tasks]
    /\ path \in Procs \cup {NoFile}
    /\ content \in [Procs -> Procs \cup {NoFile}]
    /\ holder \in [Procs -> Procs \cup {NoFile}]
    /\ file \in [Procs -> Procs \cup {NoFile}]
    /\ \A p \in Procs : pc[p] = "locking" => file[p] # NoFile
    /\ signalled \subseteq Procs /\ kills \in 0..MaxKills

Init ==
    /\ pc = [p \in Procs |-> "idle"] /\ task \in [Procs -> Commands]
    /\ path = NoFile
    /\ content = [p \in Procs |-> NoFile] /\ holder = [p \in Procs |-> NoFile]
    /\ file = [p \in Procs |-> NoFile]
    /\ signalled = {} /\ kills = 0

Goto(p, place) == pc' = [pc EXCEPT ![p] = place]

-----------------------------------------------------------------------------
(* main(), and the reads of the pid file.                                  *)

Main(p) ==
    /\ pc[p] = "idle"
    /\ Goto(p, IF task[p] = "foreground" THEN "running"
               ELSE IF task[p] = "start" THEN "exists" ELSE "isfile")
    /\ UNCHANGED <<task, files, signalled, kills>>

\* os.path.exists(self.pid_fname), in start.
Exists(p) ==
    /\ pc[p] = "exists"
    /\ Goto(p, IF path = NoFile THEN "detaching" ELSE "isfile")
    /\ UNCHANGED <<task, files, signalled, kills>>

\* self.pid is None.
NoPid(p) ==
    /\ pc[p] = "isfile" /\ path = NoFile
    /\ CASE task[p] = "start"   -> Goto(p, "detaching") /\ UNCHANGED task
         [] task[p] = "stop"    -> Goto(p, "exited") /\ UNCHANGED task
         [] OTHER               -> Goto(p, "exists") /\ task' = [task EXCEPT ![p] = "start"]
    /\ UNCHANGED <<files, signalled, kills>>

IsFile(p) ==
    /\ pc[p] = "isfile" /\ path # NoFile
    /\ Goto(p, "reading")
    /\ UNCHANGED <<task, files, signalled, kills>>

ReadsPid(p) == pc[p] = "reading" /\ path # NoFile /\ content[path] # NoFile

\* The file has gone, or it is empty: open or int raises.
ReadRaises(p) ==
    /\ pc[p] = "reading" /\ ~ReadsPid(p)
    /\ Goto(p, "raised")
    /\ UNCHANGED <<task, files, signalled, kills>>

\* is_process_running, in start.
AlreadyRunning(p) == ReadsPid(p) /\ task[p] = "start" /\ Alive(content[path])

StartLooks(p) ==
    /\ ReadsPid(p) /\ task[p] = "start"
    /\ Goto(p, IF AlreadyRunning(p) THEN "exited" ELSE "detaching")
    /\ UNCHANGED <<task, files, signalled, kills>>

\* restart found a pid: stop(), which reads it again.
RestartLooks(p) ==
    /\ ReadsPid(p) /\ task[p] = "restart"
    /\ Goto(p, "isfile") /\ task' = [task EXCEPT ![p] = "swap"]
    /\ UNCHANGED <<files, signalled, kills>>

\* os.kill(pid, SIGTERM), which raises when there is no such process; restart
\* then sleeps, for a time that may be too short or not, and starts.
StopSignals(p) ==
    /\ ReadsPid(p) /\ task[p] \in {"stop", "swap"}
    /\ LET q == content[path] IN
         IF ~Alive(q) THEN Goto(p, "raised") /\ UNCHANGED <<task, signalled>>
         ELSE /\ signalled' = signalled \cup {q}
              /\ IF task[p] = "stop" THEN Goto(p, "exited") /\ UNCHANGED task
                 ELSE Goto(p, "exists") /\ task' = [task EXCEPT ![p] = "start"]
    /\ UNCHANGED <<files, kills>>

-----------------------------------------------------------------------------
(* DaemonContext.open and PidFile.acquire.                                 *)

\* The process that goes on is a grandchild of the command, which has returned
\* already; what is printed from here on goes to /dev/null.
Detach(p) ==
    /\ pc[p] = "detaching"
    /\ Goto(p, "opening")
    /\ UNCHANGED <<task, files, signalled, kills>>

\* chdir, setuid, fork, closing or redirecting files: DaemonError.
DetachFails(p) ==
    /\ pc[p] = "detaching"
    /\ Goto(p, "raised")
    /\ UNCHANGED <<task, files, signalled, kills>>

\* open(self._pidfile, "a")
Open(p) ==
    /\ pc[p] = "opening"
    /\ path' = IF path = NoFile THEN p ELSE path
    /\ file' = [file EXCEPT ![p] = path']
    /\ Goto(p, "locking")
    /\ UNCHANGED <<task, content, holder, signalled, kills>>

\* Mutant of Lock: LOCK_SH.
LockShared(p) ==
    /\ pc[p] = "locking"
    /\ holder' = [holder EXCEPT ![file[p]] = p] /\ Goto(p, "truncating")
    /\ UNCHANGED <<task, path, content, file, signalled, kills>>

\* fcntl.flock(LOCK_EX | LOCK_NB); SystemExit when it is taken.
Lock(p) ==
    /\ pc[p] = "locking"
    /\ IF holder[file[p]] = NoFile
       THEN holder' = [holder EXCEPT ![file[p]] = p] /\ Goto(p, "truncating")
       ELSE Goto(p, "exited") /\ UNCHANGED holder
    /\ UNCHANGED <<task, path, content, file, signalled, kills>>

Truncate(p) ==
    /\ pc[p] = "truncating"
    /\ content' = [content EXCEPT ![file[p]] = NoFile] /\ Goto(p, "writing")
    /\ UNCHANGED <<task, path, holder, file, signalled, kills>>

Write(p) ==
    /\ pc[p] = "writing"
    /\ content' = [content EXCEPT ![file[p]] = p] /\ Goto(p, "registering")
    /\ UNCHANGED <<task, path, holder, file, signalled, kills>>

\* atexit.register(self.release)
Register(p) ==
    /\ pc[p] = "registering" /\ p \notin signalled
    /\ Goto(p, "running")
    /\ UNCHANGED <<task, files, signalled, kills>>

-----------------------------------------------------------------------------
(* The loop of start, the signal and the end of the process.               *)

\* The kernel drops the lock of a process that ends.
Unlocked(p) == [i \in Procs |-> IF holder[i] = p THEN NoFile ELSE holder[i]]

\* daemonizable.start() raises an Exception: it is called again in 10 s.
Fails(p) ==
    /\ pc[p] = "running"
    /\ Goto(p, "sleeping")
    /\ UNCHANGED <<task, files, signalled, kills>>

Retries(p) ==
    /\ pc[p] = "sleeping" /\ p \notin signalled
    /\ Goto(p, "running")
    /\ UNCHANGED <<task, files, signalled, kills>>

\* Mutant of Handle: the loop of start catches what the handler raises.
HandleCaught(p) ==
    /\ p \in signalled /\ pc[p] \in {"running", "sleeping"}
    /\ Goto(p, "sleeping") /\ signalled' = signalled \ {p}
    /\ UNCHANGED <<task, files, kills>>

\* handle_program_exit raises SystemExit in the main thread: before the
\* registration the process just ends, later it leaves the loop.
Handle(p) ==
    /\ p \in signalled
    /\ \/ pc[p] = "registering" /\ Goto(p, "aborted") /\ holder' = Unlocked(p)
       \/ pc[p] \in {"running", "sleeping"} /\ Goto(p, "ending") /\ UNCHANGED holder
    /\ UNCHANGED <<task, path, content, file, signalled, kills>>

\* The threads of the pool have ended; release closes the file.
Close(p) ==
    /\ pc[p] = "ending"
    /\ IF task[p] = "foreground" THEN Goto(p, "exited") ELSE Goto(p, "removing")
    /\ holder' = Unlocked(p)
    /\ UNCHANGED <<task, path, content, file, signalled, kills>>

\* Mutant of Remove: the file is left behind.
RemoveNothing(p) ==
    /\ pc[p] = "removing"
    /\ Goto(p, "released")
    /\ UNCHANGED <<task, files, signalled, kills>>

\* os.remove(self._pidfile), whatever is there; ENOENT is ignored.
Remove(p) ==
    /\ pc[p] = "removing"
    /\ path' = NoFile /\ Goto(p, "released")
    /\ UNCHANGED <<task, content, holder, file, signalled, kills>>

\* SIGTERM of a foreground scheduler, from a terminal or a service manager.
Interrupt(p) ==
    /\ pc[p] = "running" /\ task[p] = "foreground"
    /\ signalled' = signalled \cup {p}
    /\ UNCHANGED <<pc, task, files, kills>>

Killed(p) ==
    /\ kills < MaxKills /\ Alive(p) /\ pc[p] # "idle"
    /\ Goto(p, "killed") /\ holder' = Unlocked(p) /\ kills' = kills + 1
    /\ UNCHANGED <<task, path, content, file, signalled>>

Look(p)    == Exists(p) \/ NoPid(p) \/ IsFile(p) \/ ReadRaises(p) \/ StartLooks(p)
Acquire(p) == Detach(p) \/ DetachFails(p) \/ Open(p) \/ Lock(p) \/ Truncate(p) \/ Write(p) \/ Register(p)
Release(p) == Handle(p) \/ Close(p) \/ Remove(p)

Step(p) ==
    \/ Main(p) \/ Look(p) \/ RestartLooks(p) \/ StopSignals(p)
    \/ Acquire(p) \/ Retries(p) \/ Release(p)

Next == \E p \in Procs : Step(p) \/ Fails(p) \/ Interrupt(p) \/ Killed(p)

Spec == Init /\ [][Next]_vars

(* Processes run, and the executions of a scheduler that ends do end.      *)
LiveSpec == Spec /\ \A p \in Procs : WF_vars(Step(p))

-----------------------------------------------------------------------------
\* Two daemons never run at once, whoever is killed, aborted, restarted or starts
\* late, but for one way: between the close and the remove of a daemon that was
\* stopped, another has locked the file that is then removed.
Overtaken ==
    \E r, s \in Procs :
        /\ pc[r] = "released" /\ r # s /\ file[s] = file[r]
        /\ pc[s] \in Working \cup {"removing", "released", "aborted", "killed"}

OneDaemon == \A p, q \in Procs : Runs(p) /\ Runs(q) => p = q \/ Overtaken

\* While the file of a running daemon is in place, it holds the daemon's pid,
\* so that stop and restart signal that daemon and no other process.
FileNamesDaemon ==
    \A p \in Procs : Runs(p) /\ path = file[p] => content[path] = p

\* When all processes are done and none of them was killed or interrupted
\* before it had registered the release, no pid file is left.
NothingLeft ==
    (\A p \in Procs : pc[p] \in {"exited", "released", "raised"}) => path = NoFile

\* The pid file says the truth, as long as there is one and when there is none.
PidFileIsTrue == TypeOK /\ FileNamesDaemon /\ NothingLeft

\* A scheduler that was signalled ends, wherever the signal finds it: while it takes the pid
\* file, before and after its release is registered, and in the loop that catches what
\* its threads raise.
StopStops == \A p \in Procs : p \in signalled ~> ~Alive(p)
==============================================================================
