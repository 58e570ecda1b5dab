---------------------------- MODULE DaemonProofs ----------------------------
(***************************************************************************)
(* Daemon for every set of processes and any number of kills.              *)
(*                                                                         *)
(* The argument: who is beyond flock holds the lock of the inode it has    *)
(* open, so that two daemons have different inodes, of which the path      *)
(* names at most one.  The inode of the other has lost its path, and only  *)
(* the remove of a daemon that has closed the same inode before can have   *)
(* done that, or a remove after such a one (OnPathOrLost).                 *)
(***************************************************************************)
EXTENDS Daemon, TLAPS

\* Past flock, with the lock.
Holding == {"truncating", "writing", "registering", "running", "sleeping", "ending"}

\* With a file open that is or will be locked, or was and is about to be removed.
Opened == Holding \cup {"locking", "removing"}

IsDaemon(p) == task[p] # "foreground"

HasFile(p) == IsDaemon(p) /\ pc[p] \in Opened

Files ==
    /\ \A p \in Procs : HasFile(p) \/ pc[p] = "released" => file[p] \in Procs
    /\ \A p \in Procs : file[p] # NoFile => IsDaemon(p)
    /\ \A p \in Procs : pc[p] \in Reading \cup Locking \cup {"removing", "released"} => IsDaemon(p)

Locks ==
    /\ \A p \in Procs : IsDaemon(p) /\ pc[p] \in Holding => holder[file[p]] = p
    /\ \A i, p \in Procs : holder[i] = p => IsDaemon(p) /\ pc[p] \in Holding /\ file[p] = i

Lost(p) == \E r \in Procs : r # p /\ pc[r] = "released" /\ file[r] = file[p]

OnPathOrLost == \A p \in Procs : HasFile(p) => path = file[p] \/ Lost(p) \/ Overtaken

Written ==
    \A p \in Procs : IsDaemon(p) /\ pc[p] \in {"registering", "running", "sleeping", "ending"} =>
        content[file[p]] = p

\* There is a file only as long as somebody is there to remove it, or has died.
Kept ==
    path # NoFile =>
        \E p \in Procs : IsDaemon(p) /\ pc[p] \in Opened \cup {"aborted", "killed"}

IInv == TypeOK /\ Files /\ Locks /\ OnPathOrLost /\ Written /\ Kept

-----------------------------------------------------------------------------
LEMMA TypeStep == TypeOK /\ [Next]_vars => TypeOK'
<1> USE DaemonConstants DEF TypeOK, Places, Reading, Locking, Working, Gone, Tasks, Commands, files
<1> SUFFICES ASSUME TypeOK, [Next]_vars PROVE TypeOK'
    OBVIOUS
<1>1. ASSUME NEW p \in Procs, Main(p) PROVE TypeOK'
      BY <1>1 DEF Main, Goto
<1>2. ASSUME NEW p \in Procs, Look(p) \/ RestartLooks(p) \/ StopSignals(p) PROVE TypeOK'
  <2>1. CASE Exists(p)
        BY <2>1 DEF Exists, Goto
  <2>2. CASE NoPid(p)
        BY <2>2 DEF NoPid, Goto
  <2>3. CASE IsFile(p)
        BY <2>3 DEF IsFile, Goto
  <2>4. CASE ReadRaises(p)
        BY <2>4 DEF ReadRaises, Goto
  <2>5. CASE StartLooks(p)
        BY <2>5 DEF StartLooks, Goto
  <2>6. CASE RestartLooks(p)
        BY <2>6 DEF RestartLooks, Goto
  <2>7. CASE StopSignals(p)
        BY <2>7 DEF StopSignals, ReadsPid, Goto
  <2> QED BY <1>2, <2>1, <2>2, <2>3, <2>4, <2>5, <2>6, <2>7 DEF Look
<1>3. ASSUME NEW p \in Procs, Acquire(p) PROVE TypeOK'
  <2>1. CASE Detach(p) \/ DetachFails(p)
        BY <2>1 DEF Detach, DetachFails, Goto
  <2>2. CASE Open(p)
        BY <2>2 DEF Open, Goto
  <2>3. CASE Lock(p)
        BY <2>3 DEF Lock, Goto
  <2>4. CASE Truncate(p) \/ Write(p) \/ Register(p)
        BY <2>4 DEF Truncate, Write, Register, Goto
  <2> QED BY <1>3, <2>1, <2>2, <2>3, <2>4 DEF Acquire
<1>4. ASSUME NEW p \in Procs, Retries(p) \/ Fails(p) \/ Interrupt(p) PROVE TypeOK'
      BY <1>4 DEF Retries, Fails, Interrupt, Goto
<1>5. ASSUME NEW p \in Procs, Release(p) PROVE TypeOK'
      BY <1>5 DEF Release, Handle, Close, Remove, Unlocked, Goto
<1>6. ASSUME NEW p \in Procs, Killed(p) PROVE TypeOK'
      BY <1>6 DEF Killed, Unlocked, Goto
<1>7. CASE UNCHANGED vars
      BY <1>7 DEF vars
<1> QED BY <1>1, <1>2, <1>3, <1>4, <1>5, <1>6, <1>7 DEF Next, Step

-----------------------------------------------------------------------------
(* The actions, by what they have in common.                               *)

\* A process that has not opened the pid file, and does not open it.
Early(p) ==
    /\ UNCHANGED files
    /\ pc[p] \in {"idle", "detaching"} \cup Reading
    /\ \E place \in {"detaching", "opening", "running", "exited", "raised"} \cup Reading :
          /\ pc' = [pc EXCEPT ![p] = place]
          /\ place = "running" => ~IsDaemon(p)'
          /\ place \in {"detaching", "opening"} \cup Reading => IsDaemon(p)'
    /\ \E t \in Tasks : task' = [task EXCEPT ![p] = t] /\ (t = "foreground" <=> ~IsDaemon(p))

\* A scheduler that goes from one place to another and keeps its file.
Late(p) ==
    /\ UNCHANGED <<task, files>>
    /\ \E place \in {"running", "sleeping"} :
          pc[p] \in {"running", "sleeping"} /\ pc' = [pc EXCEPT ![p] = place]

LEMMA EarlyActions ==
    ASSUME TypeOK, Files, NEW p \in Procs,
           Main(p) \/ Look(p) \/ RestartLooks(p) \/ StopSignals(p) \/ Detach(p) \/ DetachFails(p)
    PROVE  Early(p)
<1> USE DEF TypeOK, Files, Early, IsDaemon, Reading, Locking, Tasks, Commands, Goto, files
<1>1. CASE Main(p)
  <2>1. task' = [task EXCEPT ![p] = task[p]] /\ UNCHANGED files
        BY <1>1 DEF Main
  <2>2. CASE task[p] = "foreground"
    <3>1. pc[p] = "idle" /\ pc' = [pc EXCEPT ![p] = "running"] /\ task'[p] = "foreground"
          BY <1>1, <2>2 DEF Main
    <3> QED BY <2>1, <2>2, <3>1
  <2>3. CASE task[p] = "start"
        BY <1>1, <2>1, <2>3 DEF Main
  <2>4. CASE task[p] \notin {"foreground", "start"}
        BY <1>1, <2>1, <2>4 DEF Main
  <2> QED BY <2>2, <2>3, <2>4
<1>2. CASE Exists(p)
      BY <1>2 DEF Exists
<1>3. CASE NoPid(p)
      BY <1>3 DEF NoPid
<1>4. CASE IsFile(p) \/ ReadRaises(p) \/ StartLooks(p)
      BY <1>4 DEF IsFile, ReadRaises, StartLooks, ReadsPid
<1>5. CASE RestartLooks(p)
      BY <1>5 DEF RestartLooks, ReadsPid
<1>6. CASE StopSignals(p)
      BY <1>6 DEF StopSignals, ReadsPid
<1>7. CASE Detach(p) \/ DetachFails(p)
      BY <1>7 DEF Detach, DetachFails
<1> QED BY <1>1, <1>2, <1>3, <1>4, <1>5, <1>6, <1>7 DEF Look

LEMMA LateActions ==
    ASSUME TypeOK, NEW p \in Procs, Retries(p) \/ Fails(p) \/ Interrupt(p)
    PROVE  Late(p)
BY DEF TypeOK, Late, Retries, Fails, Interrupt, Goto, files

\* Whatever happens is one of these.
Does(p) ==
    \/ Early(p) \/ Late(p)
    \/ Open(p) \/ Lock(p) \/ Truncate(p) \/ Write(p) \/ Register(p)
    \/ Handle(p) \/ Close(p) \/ Remove(p) \/ Killed(p)

LEMMA StepsOfOne ==
    ASSUME TypeOK, Files, Next
    PROVE  \E p \in Procs : Does(p)
BY EarlyActions, LateActions DEF Next, Step, Acquire, Release, Does

-----------------------------------------------------------------------------
(* What each part of the invariant needs of the others.                    *)

LEMMA FilesStep ==
    ASSUME TypeOK, Files, NEW p \in Procs, Does(p)
    PROVE  Files'
<1> USE DaemonConstants DEF TypeOK, Files, HasFile, Opened, Holding, IsDaemon, Reading, Locking,
        Working, Goto, files
<1>1. CASE Early(p)
      BY <1>1 DEF Early
<1>2. CASE Late(p)
      BY <1>2 DEF Late
<1>3. CASE Open(p)
      BY <1>3 DEF Open
<1>4. CASE Lock(p)
      BY <1>4 DEF Lock
<1>5. CASE Truncate(p) \/ Write(p) \/ Register(p)
      BY <1>5 DEF Truncate, Write, Register
<1>6. CASE Handle(p) \/ Killed(p)
      BY <1>6 DEF Handle, Killed
<1>7. CASE Close(p) \/ Remove(p)
      BY <1>7 DEF Close, Remove
<1> QED BY <1>1, <1>2, <1>3, <1>4, <1>5, <1>6, <1>7 DEF Does

LEMMA LocksStep ==
    ASSUME TypeOK, Files, Locks, NEW p \in Procs, Does(p)
    PROVE  Locks'
<1> USE DaemonConstants DEF TypeOK, Files, Locks, HasFile, Opened, Holding, IsDaemon, Reading,
        Locking, Working, Goto, files
<1>1. CASE Early(p)
      BY <1>1 DEF Early
<1>2. CASE Late(p)
      BY <1>2 DEF Late
<1>3. CASE Open(p)
      BY <1>3 DEF Open
<1>4. CASE Lock(p)
      BY <1>4 DEF Lock
<1>5. CASE Truncate(p) \/ Write(p) \/ Register(p)
      BY <1>5 DEF Truncate, Write, Register
<1>6. CASE Handle(p) \/ Killed(p)
      BY <1>6 DEF Handle, Killed, Unlocked
<1>7. CASE Close(p) \/ Remove(p)
      BY <1>7 DEF Close, Remove, Unlocked
<1> QED BY <1>1, <1>2, <1>3, <1>4, <1>5, <1>6, <1>7 DEF Does

LEMMA WrittenStep ==
    ASSUME TypeOK, Files, Locks, Written, NEW p \in Procs, Does(p)
    PROVE  Written'
<1> USE DaemonConstants DEF TypeOK, Files, Locks, Written, HasFile, Opened, Holding, IsDaemon,
        Reading, Locking, Working, Goto, files
<1>1. CASE Early(p)
      BY <1>1 DEF Early
<1>2. CASE Late(p)
      BY <1>2 DEF Late
<1>3. CASE Open(p) \/ Lock(p)
      BY <1>3 DEF Open, Lock
<1>4. CASE Truncate(p)
      BY <1>4 DEF Truncate
<1>5. CASE Write(p) \/ Register(p)
      BY <1>5 DEF Write, Register
<1>6. CASE Handle(p) \/ Killed(p)
      BY <1>6 DEF Handle, Killed, Unlocked
<1>7. CASE Close(p) \/ Remove(p)
      BY <1>7 DEF Close, Remove, Unlocked
<1> QED BY <1>1, <1>2, <1>3, <1>4, <1>5, <1>6, <1>7 DEF Does

\* A process that fails to lock has found one that holds the lock.
LEMMA KeptStep ==
    ASSUME TypeOK, Files, Locks, Kept, NEW p \in Procs, Does(p)
    PROVE  Kept'
<1> USE DaemonConstants DEF TypeOK, Files, Locks, Kept, HasFile, Opened, Holding, IsDaemon,
        Reading, Locking, Working, Goto, files
<1>1. CASE Early(p)
      BY <1>1 DEF Early
<1>2. CASE Late(p)
      BY <1>2 DEF Late
<1>3. CASE Open(p)
      BY <1>3 DEF Open
<1>4. CASE Lock(p)
  <2>1. CASE holder[file[p]] = NoFile
        BY <1>4, <2>1 DEF Lock
  <2>2. CASE holder[file[p]] # NoFile
    <3>1. PICK q \in Procs : q = holder[file[p]] /\ q # p /\ IsDaemon(q) /\ pc[q] \in Holding
          BY <1>4, <2>2 DEF Lock
    <3>2. IsDaemon(q)' /\ pc'[q] \in Holding
          BY <1>4, <2>2, <3>1 DEF Lock
    <3> QED BY <3>2
  <2> QED BY <2>1, <2>2
<1>5. CASE Truncate(p) \/ Write(p) \/ Register(p)
      BY <1>5 DEF Truncate, Write, Register
<1>6. CASE Handle(p) \/ Killed(p)
      BY <1>6 DEF Handle, Killed, Unlocked
<1>7. CASE Close(p) \/ Remove(p)
      BY <1>7 DEF Close, Remove, Unlocked
<1> QED BY <1>1, <1>2, <1>3, <1>4, <1>5, <1>6, <1>7 DEF Does

\* What has been overtaken or lost stays so: a process that has ended is not begun again.
LEMMA Lasting ==
    ASSUME TypeOK, Files, NEW p \in Procs, Does(p)
    PROVE  /\ Overtaken => Overtaken'
           /\ \A q \in Procs : HasFile(q) /\ Lost(q) => Lost(q)'
<1> USE DaemonConstants DEF TypeOK, Files, HasFile, Opened, Holding, IsDaemon, Reading, Locking,
        Working, Gone, Goto, files
<1>1. \A r \in Procs : pc[r] = "released" => pc'[r] = "released" /\ file'[r] = file[r]
      BY DEF Does, Early, Late, Open, Lock, Truncate, Write, Register, Handle, Close, Remove,
             Killed, Alive
<1>2. \A s \in Procs : pc[s] \in Working \cup {"removing", "released", "aborted", "killed"}
          /\ file[s] # NoFile =>
          /\ pc'[s] \in Working \cup {"removing", "released", "aborted", "killed"}
          /\ file'[s] = file[s]
      BY DEF Does, Early, Late, Open, Lock, Truncate, Write, Register, Handle, Close, Remove,
             Killed, Alive
<1>3. \A q \in Procs : HasFile(q) => file'[q] = file[q]
      BY DEF Does, Early, Late, Open, Lock, Truncate, Write, Register, Handle, Close, Remove,
             Killed, Alive
<1>4. Overtaken => Overtaken'
      BY <1>1, <1>2 DEF Overtaken
<1> QED BY <1>1, <1>3, <1>4 DEF Lost

LEMMA OnPathStep ==
    ASSUME TypeOK, Files, OnPathOrLost, NEW p \in Procs, Does(p)
    PROVE  OnPathOrLost'
<1> USE DaemonConstants DEF TypeOK, Files, OnPathOrLost, HasFile, Opened, Holding, IsDaemon,
        Reading, Locking, Working, Goto, files
<1>1. CASE Early(p)
      BY <1>1, Lasting DEF Early
<1>2. CASE Late(p)
      BY <1>2, Lasting DEF Late
<1>3. CASE Open(p)
      BY <1>3, Lasting DEF Open
<1>4. CASE Lock(p) \/ Truncate(p) \/ Write(p) \/ Register(p)
      BY <1>4, Lasting DEF Lock, Truncate, Write, Register
<1>5. CASE Handle(p) \/ Killed(p) \/ Close(p)
      BY <1>5, Lasting DEF Handle, Killed, Close
<1>6. CASE Remove(p)
  <2> SUFFICES ASSUME NEW q \in Procs, HasFile(q)', ~Overtaken'
               PROVE  Lost(q)'
      OBVIOUS
  <2>1. q # p /\ HasFile(q) /\ ~Overtaken
        BY <1>6, Lasting DEF Remove
  <2>2. CASE Lost(q)
        BY <2>1, <2>2, Lasting
  <2>3. CASE path = file[q] /\ path = file[p]
        BY <1>6, <2>1, <2>3 DEF Remove, Lost
  <2>4. CASE path # file[p]
    <3>1. PICK r \in Procs : r # p /\ pc[r] = "released" /\ file[r] = file[p]
          BY <1>6, <2>1, <2>4 DEF Remove, Lost
    <3>2. Overtaken'
          BY <1>6, <3>1 DEF Remove, Overtaken
    <3> QED BY <3>2
  <2> QED BY <2>1, <2>2, <2>3, <2>4
<1> QED BY <1>1, <1>2, <1>3, <1>4, <1>5, <1>6 DEF Does

-----------------------------------------------------------------------------
LEMMA InitIInv == Init => IInv
BY DaemonConstants
DEF Init, IInv, TypeOK, Places, Reading, Locking, Working, Gone, Tasks, Commands, Files, Locks,
    OnPathOrLost, Written, Kept, HasFile, Opened, Holding, IsDaemon, files

LEMMA StutterStep == IInv /\ UNCHANGED vars => IInv'
BY DEF vars, files, IInv, TypeOK, Files, Locks, OnPathOrLost, Lost, Overtaken, Written, Kept,
       HasFile, IsDaemon

\* The inductive invariant, for any number of processes and kills.
THEOREM Invariance == Spec => []IInv
<1>1. IInv /\ [Next]_vars => IInv'
  <2> SUFFICES ASSUME IInv, [Next]_vars PROVE IInv'
      OBVIOUS
  <2>1. CASE Next
    <3>1. PICK p \in Procs : Does(p)
          BY <2>1, StepsOfOne DEF IInv
    <3> QED BY <3>1, TypeStep, FilesStep, LocksStep, WrittenStep, KeptStep, OnPathStep DEF IInv
  <2>2. CASE UNCHANGED vars
        BY <2>2, StutterStep
  <2> QED BY <2>1, <2>2
<1> QED BY InitIInv, <1>1, PTL DEF Spec

\* Two daemons run at once only after the file of one of them was removed by another that
\* had been stopped: flock keeps all others apart.
THEOREM OneDaemonAlways == Spec => []OneDaemon
<1>1. IInv => OneDaemon
  <2> SUFFICES ASSUME IInv, NEW p \in Procs, NEW q \in Procs, Runs(p), Runs(q), p # q
               PROVE  Overtaken
      BY DEF OneDaemon
  <2> USE DEF IInv, Runs, HasFile, Opened, Holding, IsDaemon
  <2>1. holder[file[p]] = p /\ holder[file[q]] = q
        BY DEF Locks
  <2>2. PICK s \in {p, q} : path # file[s]
        BY <2>1
  <2>3. Lost(s) \/ Overtaken
        BY <2>2 DEF OnPathOrLost
  <2>4. Lost(s) => Overtaken
        BY DEF Lost, Overtaken, Working
  <2> QED BY <2>3, <2>4
<1> QED BY Invariance, <1>1, PTL

\* The pid file, while it is that of a running daemon, names it; and when everybody has
\* ended in the regular way there is none.
THEOREM PidFileAlwaysTrue == Spec => []PidFileIsTrue
<1>1. IInv => PidFileIsTrue
  <2> SUFFICES ASSUME IInv PROVE FileNamesDaemon /\ NothingLeft
      BY DEF PidFileIsTrue, IInv
  <2>1. FileNamesDaemon
        BY DEF FileNamesDaemon, IInv, Written, Runs, IsDaemon
  <2>2. NothingLeft
        BY DEF NothingLeft, IInv, Kept, Opened, Holding
  <2> QED BY <2>1, <2>2
<1> QED BY Invariance, <1>1, PTL
=============================================================================
