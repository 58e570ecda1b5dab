-------------------------- MODULE SchedulerProofs --------------------------
(***************************************************************************)
(* Scheduler for any set of jobs, any size of the pool, of a page and of   *)
(* the bounds, and any faults: the type invariant, and the safety          *)
(* properties that say who may run a job.                                  *)
(*                                                                         *)
(* The argument: a Job object whose document says 'removed' is in          *)
(* StopState (RemovedIsStopped), apscheduler holds only known objects that *)
(* are not in StopState (OnlyKnownJobsFire), and a running execution pins  *)
(* its object to RunningState (RunningIsReal).  So the objects that poll   *)
(* decides to drop have neither a trigger nor a running agent; and nobody  *)
(* but poll schedules a job, so that they have no trigger when they are    *)
(* popped either (DroppingIsIdle), whatever begins in between.             *)
(*                                                                         *)
(* An object that is or will be popped has no event any more               *)
(* (DroppedAreQuiet), so that the end of an execution it still has         *)
(* unschedules nobody; and an object is scheduled only where apscheduler   *)
(* has a trigger.  What becomes of that trigger is in ScheduleStep.        *)
(***************************************************************************)
EXTENDS Scheduler, TLAPS, FiniteSetTheorems

\* A Job object marked for removal is in StopState.
RemovedIsStopped ==
    \A j \in Jobs, n \in Incarnations :
        doc[j][n].status = "removed" => state[j][n] = "Stop"

\* What poll decided to drop has no trigger, and the next step of poll drops it.
DroppingIsIdle ==
    /\ pollPc # "dropping" => dropping = {}
    /\ \A j \in dropping : trigger[j] = Absent

-----------------------------------------------------------------------------
(* Types.                                                                  *)

DocTables   == [Jobs -> [Incarnations -> Doc]]
StateTables == [Jobs -> [Incarnations -> JobStates]]
ExecTables  == [Jobs -> [Incarnations -> Pending \cup {"none"}]]

LEMMA DocFacts ==
    /\ NoDoc \in Doc
    /\ \A d \in Doc :
        /\ d.status \in Statuses /\ d.event \in Events /\ d.pid \in BOOLEAN
        /\ \A e \in Events : [d EXCEPT !.event = e] \in Doc
        /\ \A s \in Statuses : [d EXCEPT !.status = s] \in Doc
        /\ \A s \in Statuses, e \in Events : [d EXCEPT !.event = e, !.status = s] \in Doc
        /\ [d EXCEPT !.pid = TRUE] \in Doc
        /\ Stopped(d) \in Doc
        /\ Created(d) \in Doc
BY DEF Doc, NoDoc, Statuses, Events, Stopped, Created

LEMMA TypeInit == Init => TypeOK
<1> SUFFICES ASSUME Init PROVE TypeOK
    OBVIOUS
<1>1. api \in [Jobs -> Doc]
      BY ConstantsAssumption, DocFacts DEF Init
<1>2. doc \in [Jobs -> [Incarnations -> Doc]] /\ seen \in [Jobs -> Doc]
      BY DocFacts DEF Init
<1>3. /\ state \in [Jobs -> [Incarnations -> JobStates]]
      /\ exec \in [Jobs -> [Incarnations -> Pending \cup {"none"}]]
      /\ agents \in [Jobs -> [Incarnations -> Nat]]
      BY DEF Init, JobStates
<1> QED BY <1>1, <1>2, <1>3 DEF Init, TypeOK, PollPcs

LEMMA PushType ==
    ASSUME TypeOK, NEW j \in Jobs, NEW d \in Doc, Push(j, d)
    PROVE  api' \in [Jobs -> Doc]
BY DEF TypeOK, Push

LEMMA SetDocType ==
    ASSUME TypeOK, NEW j \in Jobs, NEW n \in Incarnations, NEW d \in Doc, SetDoc(j, n, d)
    PROVE  doc' \in DocTables
BY DEF TypeOK, SetDoc, DocTables

LEMMA SetStateType ==
    ASSUME TypeOK, NEW j \in Jobs, NEW n \in Incarnations, NEW s \in JobStates, SetState(j, n, s)
    PROVE  state' \in StateTables
BY DEF TypeOK, SetState, StateTables

LEMMA ExecType ==
    ASSUME TypeOK, NEW j \in Jobs, NEW n \in Incarnations, NEW e \in Pending \cup {"none"},
           exec' = [exec EXCEPT ![j][n] = e]
    PROVE  exec' \in ExecTables
BY DEF TypeOK, ExecTables

LEMMA PollEndedType ==
    ASSUME TypeOK, PollEnded
    PROVE  /\ pollPc' \in PollPcs /\ offset' \in Nat
           /\ seen' \in [Jobs -> Doc] /\ todo' \in SUBSET Jobs /\ dropping' \in SUBSET Jobs
BY DocFacts DEF PollEnded, PollPcs

LEMMA PollTypes ==
    ASSUME TypeOK, PollStart \/ PollFetch \/ PollFails \/ PollListed \/ PollLook \/ PollPop
    PROVE  TypeOK'
<1> USE DEF TypeOK, pollVars, objVars, execVars, envVars
<1>1. CASE PollStart
      BY <1>1 DEF PollStart, PollPcs
<1>2. CASE PollFetch
  <2>1. Cardinality(Page) \in Nat
        BY ConstantsAssumption, FS_Subset, FS_CardinalityType DEF Active, Page
  <2>2. seen' \in [Jobs -> Doc]
        BY <1>2 DEF PollFetch
  <2>3. pollPc' \in PollPcs /\ offset' \in Nat /\ todo' \in SUBSET Jobs
    <3>1. CASE Cardinality(Page) < PageSize
      <4>1. pollPc' = "processing" /\ offset' = 0 /\ todo' = {i \in Jobs : seen'[i] # NoDoc}
            BY <1>2, <3>1 DEF PollFetch
      <4> QED BY <4>1 DEF PollPcs
    <3>2. CASE ~(Cardinality(Page) < PageSize)
      <4>1. offset' = offset + Cardinality(Page) /\ UNCHANGED <<pollPc, todo>>
            BY <1>2, <3>2 DEF PollFetch
      <4> QED BY <2>1, <4>1
    <3> QED BY <3>1, <3>2
  <2>4. UNCHANGED <<api, dropping, started, table, objVars, trigger, execVars, envVars>>
        BY <1>2 DEF PollFetch
  <2> QED BY <2>2, <2>3, <2>4
<1>3. CASE PollFails
      BY <1>3, PollEndedType DEF PollFails, PollReturns
<1>4. CASE PollListed
      BY <1>4 DEF PollListed, PollPcs
<1>5. CASE PollPop
      BY <1>5, PollEndedType DEF PollPop, PollReturns
<1>6. CASE PollLook
      BY <1>6 DEF PollLook, PollPcs
<1> QED BY <1>1, <1>2, <1>3, <1>4, <1>5, <1>6

LEMMA PollJobTypes ==
    ASSUME TypeOK, NEW j \in Jobs, PollCreate(j) \/ PollNoPid(j) \/ PollRemove(j)
    PROVE  TypeOK'
<1> USE DEF TypeOK, pollVars, objVars, execVars, envVars
<1>1. CASE PollCreate(j)
  <2>1. PICK n \in Incarnations :
          /\ table' = [table EXCEPT ![j] = n]
          /\ doc' = [doc EXCEPT ![j][n] = Created(seen[j])]
          /\ state' = [state EXCEPT ![j][n] = "Stop"]
        BY <1>1 DEF PollCreate
  <2>2. Created(seen[j]) \in Doc
        BY DocFacts
  <2>3. doc' \in DocTables /\ state' \in StateTables
        BY <2>1, <2>2, SetDocType, SetStateType DEF SetDoc, SetState, JobStates
  <2> QED BY <1>1, <2>1, <2>2, <2>3 DEF PollCreate, DocTables, StateTables
<1>2. CASE PollNoPid(j)
      BY <1>2, PollEndedType DEF PollNoPid, PollRaises
<1>3. CASE PollRemove(j)
  <2> DEFINE n == table[j]
  <2>1. n \in Incarnations
        BY <1>3 DEF PollRemove
  <2>2. /\ [doc[j][n] EXCEPT !.event = "remove"] \in Doc
        /\ [doc[j][n] EXCEPT !.event = "", !.status = "removed"] \in Doc
    <3>1. doc[j][n] \in Doc
          BY <2>1
    <3> HIDE DEF TypeOK
    <3> QED BY <3>1, DocFacts DEF Statuses, Events
  <2>3. doc' \in DocTables /\ state' \in StateTables
    <3>1. CASE state[j][n] = "Running"
          BY <1>3, <2>1, <2>2, <3>1, SetDocType DEF PollRemove, StateTables
    <3>2. CASE state[j][n] # "Running"
      <4>1. Unschedule(j, n, "removed")
            BY <1>3, <3>2 DEF PollRemove
      <4> QED BY <2>1, <2>2, <4>1, SetDocType, SetStateType DEF Unschedule, SetDoc, JobStates
    <3> QED BY <3>1, <3>2
  <2>4. trigger' \in [Jobs -> Incarnations \cup {Absent}]
        BY <1>3 DEF PollRemove, Unschedule
  <2>5. /\ todo' \in SUBSET Jobs
        /\ UNCHANGED <<api, pollPc, offset, seen, dropping, started, table, execVars, envVars>>
        BY <1>3 DEF PollRemove
  <2> QED BY <2>3, <2>4, <2>5 DEF DocTables, StateTables
<1> QED BY <1>1, <1>2, <1>3

\* What the head of process_event leaves alone keeps its type, and the Job
\* object that it dispatches on exists.
LEMMA DispatchFacts ==
    ASSUME TypeOK, NEW j \in Jobs, NEW ev, NEW st, Dispatch(j, ev, st)
    PROVE  /\ table[j] \in Incarnations
           /\ seen[j] \in Doc /\ doc[j][table[j]] \in Doc
           /\ todo' \in SUBSET Jobs
           /\ UNCHANGED <<pollPc, offset, seen, dropping, started, table, execVars, envVars>>
BY DEF TypeOK, Dispatch

\* The four variables that an event handler may set.
LEMMA HandlerType ==
    ASSUME TypeOK, UNCHANGED <<pollPc, offset, seen, dropping, started, table, execVars, envVars>>,
           todo' \in SUBSET Jobs,
           api' \in [Jobs -> Doc], doc' \in DocTables, state' \in StateTables,
           trigger' \in [Jobs -> Incarnations \cup {Absent}]
    PROVE  TypeOK'
BY DEF TypeOK, DocTables, StateTables, execVars, envVars

LEMMA KeepTypes ==
    ASSUME TypeOK
    PROVE  /\ UNCHANGED api => api' \in [Jobs -> Doc]
           /\ UNCHANGED doc => doc' \in DocTables
           /\ UNCHANGED state => state' \in StateTables
           /\ UNCHANGED trigger => trigger' \in [Jobs -> Incarnations \cup {Absent}]
BY DEF TypeOK, DocTables, StateTables

LEMMA TakeStoppedType ==
    ASSUME TypeOK, NEW j \in Jobs, table[j] \in Incarnations, seen[j] \in Doc, TakeStopped(j)
    PROVE  api' \in [Jobs -> Doc] /\ doc' \in DocTables
<1>1. Stopped(seen[j]) \in Doc
      BY DocFacts
<1> QED BY <1>1, PushType, SetDocType DEF TakeStopped

LEMMA EventTypes ==
    ASSUME TypeOK, NEW j \in Jobs, ProcessEvent(j)
    PROVE  TypeOK'
<1>1. CASE NoEvent(j)
      BY <1>1, DispatchFacts, HandlerType, KeepTypes DEF NoEvent, objVars
<1>2. CASE StopStateStop(j)
      BY <1>2, DispatchFacts, HandlerType, KeepTypes, TakeStoppedType DEF StopStateStop
<1>3. CASE ScheduledStateStop(j)
  <2>1. trigger' \in [Jobs -> Incarnations \cup {Absent}]
        BY <1>3 DEF ScheduledStateStop, TypeOK
  <2>2. PICK st : Dispatch(j, "stop", st)
        BY <1>3 DEF ScheduledStateStop
  <2> QED BY <1>3, <2>1, <2>2, DispatchFacts, HandlerType, TakeStoppedType, SetStateType
          DEF ScheduledStateStop, JobStates
<1>4. CASE ScheduledStateAbort(j)
      BY <1>4, DispatchFacts, HandlerType, KeepTypes, TakeStoppedType DEF ScheduledStateAbort
<1>5. CASE StopStateStart(j)
  <2> DEFINE d == [seen[j] EXCEPT !.event = "", !.status = "scheduled"]
  <2>1. table[j] \in Incarnations /\ seen[j] \in Doc
        BY <1>5, DispatchFacts DEF StopStateStart
  <2>2. d \in Doc
        BY <2>1, DocFacts DEF Statuses, Events
  <2>3. trigger' \in [Jobs -> Incarnations \cup {Absent}]
        BY <1>5, <2>1 DEF StopStateStart, TypeOK
  <2>4. api' \in [Jobs -> Doc] /\ doc' \in DocTables /\ state' \in StateTables
        BY <1>5, <2>1, <2>2, PushType, SetDocType, SetStateType DEF StopStateStart, JobStates
  <2> QED BY <1>5, <2>3, <2>4, DispatchFacts, HandlerType DEF StopStateStart
<1>6. CASE StopStateStartDue(j)
  <2> DEFINE d == [seen[j] EXCEPT !.event = "", !.status = "completed"]
  <2>1. table[j] \in Incarnations /\ seen[j] \in Doc
        BY <1>6 DEF StopStateStartDue, TypeOK
  <2>2. d \in Doc
        BY <2>1, DocFacts DEF Statuses, Events
  <2>3. api' \in [Jobs -> Doc] /\ doc' \in DocTables
        BY <1>6, <2>1, <2>2, PushType, SetDocType DEF StopStateStartDue
  <2>4. exec' \in ExecTables
    <3>1. "queued" \in Pending
          BY DEF Pending
    <3>2. exec' = [exec EXCEPT ![j][table[j]] = "queued"] \/ UNCHANGED exec
          BY <1>6 DEF StopStateStartDue
    <3>3. CASE UNCHANGED exec
          BY <3>3 DEF TypeOK, ExecTables
    <3> QED BY <2>1, <3>1, <3>2, <3>3, ExecType
  <2>5. todo' \in SUBSET Jobs
        BY <1>6 DEF StopStateStartDue, TypeOK
  <2> QED BY <1>6, <2>3, <2>4, <2>5
          DEF StopStateStartDue, TypeOK, DocTables, ExecTables, envVars
<1>7. CASE OtherStateStart(j)
  <2>1. table[j] \in Incarnations /\ doc[j][table[j]] \in Doc
        BY <1>7, DispatchFacts DEF OtherStateStart
  <2>2. [doc[j][table[j]] EXCEPT !.event = ""] \in Doc
        BY <2>1, DocFacts DEF Events
  <2>3. api' \in [Jobs -> Doc] /\ doc' \in DocTables
        BY <1>7, <2>1, <2>2, PushType, SetDocType DEF OtherStateStart
  <2> QED BY <1>7, <2>3, DispatchFacts, HandlerType, KeepTypes DEF OtherStateStart
<1>8. CASE RunningStateStop(j)
  <2>1. table[j] \in Incarnations /\ doc[j][table[j]] \in Doc
        BY <1>8, DispatchFacts DEF RunningStateStop
  <2>2. [doc[j][table[j]] EXCEPT !.event = "stop"] \in Doc
        BY <2>1, DocFacts DEF Events
  <2> QED BY <1>8, <2>1, <2>2, DispatchFacts, HandlerType, KeepTypes, SetDocType
          DEF RunningStateStop
<1>9. CASE RunningStateAbort(j)
  <2>1. table[j] \in Incarnations /\ doc[j][table[j]] \in Doc
        BY <1>9, DispatchFacts DEF RunningStateAbort
  <2>2. [doc[j][table[j]] EXCEPT !.event = "abort"] \in Doc
        BY <2>1, DocFacts DEF Events
  <2> QED BY <1>9, <2>1, <2>2, DispatchFacts, HandlerType, KeepTypes, PushType, SetDocType
          DEF RunningStateAbort
<1>10. CASE PollBadArgs(j)
  <2>1. table[j] \in Incarnations /\ Stopped(seen[j]) \in Doc
        BY <1>10, DocFacts DEF PollBadArgs, TypeOK
  <2>2. doc' \in DocTables
        BY <1>10, <2>1, SetDocType DEF PollBadArgs
  <2> QED BY <1>10, <2>2, PollEndedType
          DEF PollBadArgs, PollRaises, TypeOK, DocTables, execVars, envVars
<1>11. CASE PollSpins(j)
      BY <1>11 DEF PollSpins, PollPcs, TypeOK, objVars, execVars, envVars
<1> QED BY <1>1, <1>2, <1>3, <1>4, <1>5, <1>6, <1>7, <1>8, <1>9, <1>10, <1>11 DEF ProcessEvent

LEMMA ExecTypes ==
    ASSUME TypeOK, NEW j \in Jobs, NEW n \in Incarnations,
           Fire(j) \/ FireSkipped(j) \/ Execute(j, n)
    PROVE  TypeOK'
<1> DEFINE Rest == UNCHANGED <<pollVars, table, envVars>>
<1>1. \A S : Pending \subseteq S =>
        /\ "queued" \in S /\ "late" \in S /\ "waiting" \in S /\ "executing" \in S
        /\ "spawned" \in S /\ "agent" \in S /\ "finished" \in S
      BY DEF Pending, OnWorker, InProgress, AgentAlive
<1>2. agents' \in [Jobs -> [Incarnations -> Nat]]
  <2>1. \/ UNCHANGED agents
        \/ agents' = [agents EXCEPT ![j][n] = @ + 1]
        \/ agents' = [agents EXCEPT ![j][n] = 0]
    <3>1. CASE Fire(j) \/ FireSkipped(j)
          BY <3>1 DEF Fire, FireSkipped, execVars
    <3>2. CASE Dequeue(j, n) \/ Overdue(j, n) \/ Misfire(j, n) \/ ExecuteBegin(j, n)
                 \/ ReportPid(j, n) \/ AgentExits(j, n) \/ InstanceEnds(j, n)
          BY <3>2 DEF Dequeue, Overdue, Misfire, ExecuteBegin, ReportPid, AgentExits, InstanceEnds
    <3>3. CASE SpawnAgent(j, n)
          BY <3>3 DEF SpawnAgent
    <3>4. CASE ExecuteRaises(j, n) \/ Finish(j, n)
          BY <3>4 DEF ExecuteRaises, Finish, ExecutionEnds
    <3> QED BY <3>1, <3>2, <3>3, <3>4 DEF Execute
  <2>2. agents \in [Jobs -> [Incarnations -> Nat]]
        BY DEF TypeOK
  <2>3. agents[j][n] \in Nat /\ agents[j][n] + 1 \in Nat
        BY <2>2
  <2> QED BY <2>1, <2>2, <2>3
<1>3. exec' \in ExecTables
  <2>1. CASE Fire(j)
        BY <1>1, <2>1, ExecType DEF Fire, TypeOK
  <2>2. CASE FireSkipped(j)
        BY <2>2 DEF FireSkipped, TypeOK, ExecTables, execVars
  <2>3. CASE Execute(j, n)
    <3>1. PICK e \in Pending \cup {"none"} : exec' = [exec EXCEPT ![j][n] = e]
          BY <1>1, <2>3 DEF Execute, Dequeue, Overdue, Misfire, ExecuteBegin, SpawnAgent,
             ReportPid, AgentExits, ExecuteRaises, InstanceEnds, Finish, ExecutionEnds
    <3> QED BY <3>1, ExecType
  <2> QED BY <2>1, <2>2, <2>3
<1>4. trigger' \in [Jobs -> Incarnations \cup {Absent}]
      BY DEF TypeOK, Fire, FireSkipped, Execute, Dequeue, Overdue, Misfire, ExecuteBegin,
         SpawnAgent, ReportPid, AgentExits, ExecuteRaises, InstanceEnds, Finish, Unschedule
<1>5. Rest
      BY DEF Fire, FireSkipped, Execute, Dequeue, Overdue, Misfire, ExecuteBegin,
         SpawnAgent, ReportPid, AgentExits, ExecuteRaises, InstanceEnds, Finish
<1>6. doc[j][n] \in Doc
      BY DEF TypeOK
<1>7. api' \in [Jobs -> Doc] /\ doc' \in DocTables /\ state' \in StateTables
  <2>1. CASE UNCHANGED <<api, doc, state>>
        BY <2>1, KeepTypes
  <2>2. CASE ExecuteBegin(j, n)
    <3>1. [doc[j][n] EXCEPT !.status = "running"] \in Doc
          BY <1>6, DocFacts DEF Statuses
    <3> QED BY <2>2, <3>1, PushType, SetDocType, SetStateType DEF ExecuteBegin, JobStates
  <2>3. CASE ReportPid(j, n)
    <3>1. [doc[j][n] EXCEPT !.pid = TRUE] \in Doc
          BY <1>6, DocFacts
    <3> QED BY <2>3, <3>1, PushType, SetDocType, KeepTypes DEF ReportPid
  <2>4. CASE Finish(j, n)
    <3>1. \A s \in Statuses : /\ [doc[j][n] EXCEPT !.status = s] \in Doc
                             /\ [doc[j][n] EXCEPT !.event = "", !.status = s] \in Doc
          BY <1>6, DocFacts DEF Events
    <3>2. \A s \in Statuses : Unschedule(j, n, s) =>
            doc' \in DocTables /\ state' \in StateTables /\ doc'[j][n] \in Doc
      <4> TAKE s \in Statuses
      <4> HAVE Unschedule(j, n, s)
      <4>1. doc' \in DocTables /\ state' \in StateTables
            BY <3>1, SetDocType, SetStateType DEF Unschedule, SetDoc, JobStates
      <4> QED BY <4>1 DEF DocTables
    <3>3. CASE Unschedule(j, n, "removed") /\ UNCHANGED api
          BY <3>2, <3>3, KeepTypes DEF Statuses
    <3>4. CASE Unschedule(j, n, "completed") /\ Push(j, doc'[j][n])
          BY <3>2, <3>4, PushType DEF Statuses
    <3>5. ASSUME NEW s \in Statuses, NEW t \in JobStates,
                 SetDoc(j, n, [doc[j][n] EXCEPT !.status = s]), SetState(j, n, t),
                 Push(j, [doc[j][n] EXCEPT !.status = s])
          PROVE  api' \in [Jobs -> Doc] /\ doc' \in DocTables /\ state' \in StateTables
          BY <3>1, <3>5, PushType, SetDocType, SetStateType
    <3> QED BY <2>4, <3>3, <3>4, <3>5 DEF Finish, Statuses, JobStates
  <2> QED BY <2>1, <2>2, <2>3, <2>4
          DEF Fire, FireSkipped, Execute, Dequeue, Overdue, Misfire, SpawnAgent, AgentExits,
              ExecuteRaises, InstanceEnds, objVars
<1> QED BY <1>2, <1>3, <1>4, <1>5, <1>7
        DEF TypeOK, pollVars, envVars, DocTables, StateTables, ExecTables

LEMMA UserTypes ==
    ASSUME TypeOK, NEW j \in Jobs, User(j) \/ OrphanExits(j)
    PROVE  TypeOK'
<1>1. api' \in [Jobs -> Doc]
  <2>1. CASE UNCHANGED api
        BY <2>1 DEF TypeOK
  <2>2. CASE \E d \in Doc : api' = [api EXCEPT ![j] = d]
        BY <2>2 DEF TypeOK
  <2>3. CASE StartJob(j)
    <3>1. [api[j] EXCEPT !.event = "start", !.status = ""] \in Doc
          BY DocFacts DEF TypeOK, Statuses, Events
    <3> QED BY <2>3, <3>1 DEF StartJob, TypeOK
  <2>4. CASE StopJob(j) \/ AbortJob(j)
    <3>1. \A e \in {"stop", "abort"} : [api[j] EXCEPT !.event = e] \in Doc
          BY DocFacts DEF TypeOK, Events
    <3> QED BY <2>4, <3>1 DEF StopJob, AbortJob, TypeOK
  <2> QED BY <2>1, <2>2, <2>3, <2>4, DocFacts, ConstantsAssumption
          DEF User, CreateJob, DeleteJob, OrphanExits
<1>2. \/ requests' = requests + 1 /\ UNCHANGED orphan
      \/ UNCHANGED requests /\ orphan' = [orphan EXCEPT ![j] = FALSE]
      BY DEF User, CreateJob, StartJob, StopJob, AbortJob, DeleteJob, Request, OrphanExits
<1>3. requests' \in Nat /\ orphan' \in [Jobs -> BOOLEAN]
  <2>1. requests \in Nat /\ requests + 1 \in Nat /\ orphan \in [Jobs -> BOOLEAN]
        BY DEF TypeOK
  <2> QED BY <1>2, <2>1
<1>4. UNCHANGED <<pollVars, table, objVars, trigger, execVars, crashes>>
      BY DEF User, CreateJob, StartJob, StopJob, AbortJob, DeleteJob, Request, OrphanExits
<1> QED BY <1>1, <1>2, <1>3, <1>4 DEF TypeOK, pollVars, objVars, execVars

LEMMA CrashTypes ==
    ASSUME TypeOK, Crash
    PROVE  TypeOK'
<1>1. /\ seen' \in [Jobs -> Doc] /\ doc' \in [Jobs -> [Incarnations -> Doc]]
      /\ pollPc' \in PollPcs
      BY DocFacts DEF Crash, PollPcs
<1>2. /\ state' \in [Jobs -> [Incarnations -> JobStates]]
      /\ exec' \in [Jobs -> [Incarnations -> Pending \cup {"none"}]]
      /\ agents' \in [Jobs -> [Incarnations -> Nat]]
      BY DEF Crash, JobStates
<1>3. orphan' \in [Jobs -> BOOLEAN]
      BY DEF Crash, TypeOK
<1>4. /\ offset' \in Nat /\ started' \in BOOLEAN /\ crashes' \in Nat
  <2>1. crashes' = crashes + 1 /\ started' = FALSE /\ offset' = 0
        BY DEF Crash
  <2>2. crashes \in Nat
        BY DEF TypeOK
  <2>3. crashes' \in Nat
        BY <2>1, <2>2
  <2> QED BY <2>1, <2>3
<1>6. /\ todo' \in SUBSET Jobs /\ dropping' \in SUBSET Jobs
      /\ table' \in [Jobs -> Incarnations \cup {Absent}]
      /\ trigger' \in [Jobs -> Incarnations \cup {Absent}]
      BY DEF Crash
<1>5. api' \in [Jobs -> Doc] /\ requests' \in Nat
      BY DEF Crash, TypeOK
<1> QED BY <1>1, <1>2, <1>3, <1>4, <1>5, <1>6 DEF TypeOK

LEMMA TypeStep == TypeOK /\ [Next]_vars => TypeOK'
<1> SUFFICES ASSUME TypeOK, [Next]_vars PROVE TypeOK'
    OBVIOUS
<1>1. CASE UNCHANGED vars
      BY <1>1 DEF TypeOK, vars, pollVars, objVars, execVars, envVars
<1>2. CASE Poll
      BY <1>2, PollTypes, EventTypes, PollJobTypes DEF Poll
<1>3. CASE \E j \in Jobs : Fire(j) \/ FireSkipped(j) \/ User(j) \/ OrphanExits(j)
      BY <1>3, ExecTypes, UserTypes DEF Incarnations
<1>4. CASE \E j \in Jobs, n \in Incarnations : Execute(j, n)
      BY <1>4, ExecTypes
<1>5. CASE Crash
      BY <1>5, CrashTypes
<1> QED BY <1>1, <1>2, <1>3, <1>4, <1>5 DEF Next

\* Every reachable state is well typed.
THEOREM TypeCorrect == Spec => []TypeOK
BY TypeInit, TypeStep, PTL DEF Spec

-----------------------------------------------------------------------------
(* Who may run a job.                                                      *)

IInv == TypeOK /\ RunningIsReal /\ OnlyKnownJobsFire /\ RemovedIsStopped /\ DroppingIsIdle

\* A step gives the Job object <<i, m>> the document d and the state s, and
\* leaves the other objects alone.
Becomes(i, m, d, s) ==
    \A j \in Jobs, n \in Incarnations :
        /\ doc'[j][n] = IF j = i /\ n = m THEN d ELSE doc[j][n]
        /\ state'[j][n] = IF j = i /\ n = m THEN s ELSE state[j][n]

LEMMA SetBecomes ==
    ASSUME TypeOK, NEW i \in Jobs, NEW m \in Incarnations, NEW d, NEW s, SetDoc(i, m, d)
    PROVE  /\ SetState(i, m, s) => Becomes(i, m, d, s)
           /\ UNCHANGED state => Becomes(i, m, d, state[i][m])
BY DEF TypeOK, SetDoc, SetState, Becomes

\* The rules that an object must keep when it changes.
LEMMA ObjectRules ==
    ASSUME RunningIsReal, RemovedIsStopped,
           NEW i \in Jobs, NEW m \in Incarnations, NEW d, NEW s, Becomes(i, m, d, s),
           \A j \in Jobs, n \in Incarnations :
               exec'[j][n] \in InProgress /\ (j # i \/ n # m) => exec[j][n] \in InProgress,
           exec'[i][m] \in InProgress => s = "Running" /\ d.status = "running",
           d.status = "removed" => s = "Stop"
    PROVE  RunningIsReal' /\ RemovedIsStopped'
BY DEF RunningIsReal, RemovedIsStopped, Becomes

\* The steps that move no Job object and no execution.
QuietPoll ==
    \/ PollStart \/ PollFetch \/ PollFails \/ PollListed \/ PollLook
    \/ \E j \in Jobs : PollNoPid(j) \/ NoEvent(j) \/ PollSpins(j)
QuietEnv == \E j \in Jobs : User(j) \/ OrphanExits(j)

LEMMA QuietSteps ==
    QuietPoll \/ QuietEnv \/ UNCHANGED vars => UNCHANGED <<table, doc, state, trigger, exec>>
<1>1. QuietPoll => UNCHANGED <<table, doc, state, trigger, exec>>
      BY DEF QuietPoll, PollStart, PollFetch, PollFails, PollListed, PollLook, PollNoPid, NoEvent, PollSpins,
         Dispatch, objVars, execVars
<1>2. QuietEnv => UNCHANGED <<table, doc, state, trigger, exec>>
      BY DEF QuietEnv, User, CreateJob, StartJob, StopJob, AbortJob, DeleteJob, Request,
         OrphanExits, objVars, execVars
<1>3. UNCHANGED vars => UNCHANGED <<table, doc, state, trigger, exec>>
      BY DEF vars, objVars, execVars
<1> QED BY <1>1, <1>2, <1>3

\* The moves of executions that leave the Job objects alone.
MovesOn(j, n) ==
    \/ Dequeue(j, n) \/ Overdue(j, n) \/ Misfire(j, n)
    \/ SpawnAgent(j, n) \/ AgentExits(j, n) \/ ExecuteRaises(j, n) \/ InstanceEnds(j, n)

LEMMA Cases ==
    ASSUME [Next]_vars
    PROVE  \/ QuietPoll \/ QuietEnv \/ UNCHANGED vars \/ PollPop \/ Crash
           \/ \E j \in Jobs :
                \/ PollCreate(j) \/ PollRemove(j) \/ PollBadArgs(j)
                \/ StopStateStop(j) \/ ScheduledStateStop(j) \/ ScheduledStateAbort(j)
                \/ StopStateStart(j) \/ StopStateStartDue(j) \/ OtherStateStart(j)
                \/ RunningStateStop(j) \/ RunningStateAbort(j) \/ Fire(j) \/ FireSkipped(j)
           \/ \E j \in Jobs, n \in Incarnations :
                MovesOn(j, n) \/ ExecuteBegin(j, n) \/ ReportPid(j, n) \/ Finish(j, n)
<1>1. Poll => \/ QuietPoll \/ PollPop
              \/ \E j \in Jobs :
                   \/ PollCreate(j) \/ PollRemove(j) \/ PollBadArgs(j)
                   \/ StopStateStop(j) \/ ScheduledStateStop(j) \/ ScheduledStateAbort(j)
                   \/ StopStateStart(j) \/ StopStateStartDue(j) \/ OtherStateStart(j)
                   \/ RunningStateStop(j) \/ RunningStateAbort(j)
      BY DEF Poll, QuietPoll, ProcessEvent
<1>2. \A j \in Jobs, n \in Incarnations : Execute(j, n) =>
        MovesOn(j, n) \/ ExecuteBegin(j, n) \/ ReportPid(j, n) \/ Finish(j, n)
      BY DEF Execute, MovesOn
<1> QED BY <1>1, <1>2 DEF Next, QuietEnv

LEMMA RuleStep == IInv /\ [Next]_vars => RunningIsReal' /\ RemovedIsStopped'
<1> SUFFICES ASSUME IInv, [Next]_vars PROVE RunningIsReal' /\ RemovedIsStopped'
    OBVIOUS
<1> DEFINE Rules == RunningIsReal' /\ RemovedIsStopped'
<1>0. TypeOK /\ RunningIsReal /\ RemovedIsStopped
      BY DEF IInv
<1>a. UNCHANGED <<doc, state, exec>> => Rules
      BY <1>0 DEF RunningIsReal, RemovedIsStopped
<1>b. /\ "none" \notin InProgress /\ "queued" \notin InProgress /\ "late" \notin InProgress
      /\ "waiting" \notin InProgress /\ "finished" \notin InProgress
      BY DEF InProgress, AgentAlive
<1>c. ASSUME NEW j \in Jobs, NEW d, NEW s, UNCHANGED exec,
             table[j] \in Incarnations, Becomes(j, table[j], d, s),
             exec[j][table[j]] \in InProgress => s = "Running" /\ d.status = "running",
             d.status = "removed" => s = "Stop"
      PROVE  Rules
      BY <1>0, <1>c, ObjectRules
<1>f. ASSUME NEW j \in Jobs, NEW n \in Incarnations, NEW e,
             e \in InProgress => exec[j][n] \in InProgress,
             UNCHANGED exec \/ exec' = [exec EXCEPT ![j][n] = e]
      PROVE  \A i \in Jobs, m \in Incarnations :
                 exec'[i][m] \in InProgress => exec[i][m] \in InProgress
  <2>1. exec \in [Jobs -> [Incarnations -> Pending \cup {"none"}]]
        BY <1>0 DEF TypeOK
  <2>2. CASE UNCHANGED exec
        BY <2>2
  <2>3. CASE exec' = [exec EXCEPT ![j][n] = e]
    <3>1. \A i \in Jobs, m \in Incarnations :
              exec'[i][m] = IF i = j /\ m = n THEN e ELSE exec[i][m]
          BY <2>1, <2>3
    <3> QED BY <1>f, <3>1
  <2> QED BY <1>f, <2>2, <2>3
<1>1. CASE QuietPoll \/ QuietEnv \/ UNCHANGED vars
      BY <1>1, <1>a, QuietSteps
<1>2. CASE PollPop
      BY <1>2, <1>a DEF PollPop, objVars, execVars
<1>3. CASE Crash
      BY <1>b, <1>3 DEF Crash, RunningIsReal, RemovedIsStopped, NoDoc
<1>4. ASSUME NEW j \in Jobs, PollCreate(j) PROVE Rules
  <2>1. PICK n \in Incarnations :
          /\ exec[j][n] = "none"
          /\ SetDoc(j, n, Created(seen[j])) /\ SetState(j, n, "Stop")
        BY <1>4 DEF PollCreate, SetDoc, SetState
  <2>2. Becomes(j, n, Created(seen[j]), "Stop")
        BY <1>0, <2>1, SetBecomes
  <2>3. UNCHANGED exec
        BY <1>4 DEF PollCreate, execVars
  <2> QED BY <1>0, <1>b, <2>1, <2>2, <2>3, ObjectRules
<1>5. ASSUME NEW j \in Jobs, PollRemove(j) PROVE Rules
  <2> DEFINE n == table[j]
  <2>1. n \in Incarnations /\ doc[j][n] \in Doc /\ UNCHANGED exec
        BY <1>0, <1>5 DEF PollRemove, TypeOK, execVars
  <2>2. CASE state[j][n] = "Running"
    <3> DEFINE d == [doc[j][n] EXCEPT !.event = "remove"]
    <3>1. Becomes(j, n, d, state[j][n])
          BY <1>0, <1>5, <2>1, <2>2, SetBecomes DEF PollRemove
    <3>2. d.status = doc[j][n].status
          BY <2>1 DEF Doc
    <3>3. d.status # "removed" /\ (exec[j][n] \in InProgress => d.status = "running")
          BY <1>0, <2>1, <2>2, <3>2 DEF RunningIsReal, RemovedIsStopped
    <3> HIDE DEF d
    <3> QED BY <1>c, <2>1, <2>2, <3>1, <3>3
  <2>3. CASE state[j][n] # "Running"
    <3>1. Becomes(j, n, [doc[j][n] EXCEPT !.event = "", !.status = "removed"], "Stop")
          BY <1>0, <1>5, <2>1, <2>3, SetBecomes DEF PollRemove, Unschedule, SetDoc
    <3>2. exec[j][n] \notin InProgress
          BY <1>0, <2>1, <2>3 DEF RunningIsReal
    <3> QED BY <1>c, <2>1, <3>1, <3>2
  <2> QED BY <2>2, <2>3
\* The events that a stopped or scheduled object meets.
<1>d. ASSUME NEW j \in Jobs, NEW d, table[j] \in Incarnations, state[j][table[j]] # "Running",
             UNCHANGED exec, SetDoc(j, table[j], d), d.status # "removed",
             UNCHANGED state \/ \E s : SetState(j, table[j], s)
      PROVE  Rules
  <2>1. exec[j][table[j]] \notin InProgress
        BY <1>0, <1>d DEF RunningIsReal
  <2>2. \E s : Becomes(j, table[j], d, s)
        BY <1>0, <1>d, SetBecomes
  <2> QED BY <1>c, <1>d, <2>1, <2>2
<1>6. ASSUME NEW j \in Jobs,
             PollBadArgs(j) \/ StopStateStop(j) \/ ScheduledStateStop(j) \/ ScheduledStateAbort(j)
      PROVE  Rules
  <2>1. /\ table[j] \in Incarnations /\ seen[j] \in Doc
        /\ state[j][table[j]] # "Running" /\ UNCHANGED exec
        BY <1>0, <1>6 DEF TypeOK, PollBadArgs, StopStateStop, ScheduledStateStop,
           ScheduledStateAbort, Dispatch, execVars
  <2>2. Stopped(seen[j]).status = "stop"
        BY <2>1 DEF Stopped, Doc
  <2>3. SetDoc(j, table[j], Stopped(seen[j]))
        BY <1>6 DEF PollBadArgs, StopStateStop, ScheduledStateStop, ScheduledStateAbort, TakeStopped
  <2>4. UNCHANGED state \/ SetState(j, table[j], "Stop")
        BY <1>6 DEF PollBadArgs, StopStateStop, ScheduledStateStop, ScheduledStateAbort
  <2> QED BY <1>d, <2>1, <2>2, <2>3, <2>4
<1>7. ASSUME NEW j \in Jobs, StopStateStart(j) PROVE Rules
  <2> DEFINE d == [seen[j] EXCEPT !.event = "", !.status = "scheduled"]
  <2>1. /\ table[j] \in Incarnations /\ seen[j] \in Doc
        /\ state[j][table[j]] # "Running" /\ UNCHANGED exec
        BY <1>0, <1>7 DEF TypeOK, StopStateStart, Dispatch, execVars
  <2>2. d.status # "removed"
        BY <2>1 DEF Doc
  <2>3. SetDoc(j, table[j], d) /\ SetState(j, table[j], "Scheduled")
        BY <1>7 DEF StopStateStart
  <2> QED BY <1>d, <2>1, <2>2, <2>3
<1>8. ASSUME NEW j \in Jobs, StopStateStartDue(j) PROVE Rules
  <2> DEFINE n == table[j]
             d == [seen[j] EXCEPT !.event = "", !.status = "completed"]
  <2>1. n \in Incarnations /\ seen[j] \in Doc /\ state[j][n] = "Stop"
        BY <1>0, <1>8 DEF TypeOK, StopStateStartDue
  <2>2. d.status # "removed"
        BY <2>1 DEF Doc
  <2>3. Becomes(j, n, d, state[j][n])
        BY <1>0, <1>8, <2>1, SetBecomes DEF StopStateStartDue
  <2>4. exec[j][n] \notin InProgress
        BY <1>0, <2>1 DEF RunningIsReal
  <2>5. exec' = [exec EXCEPT ![j][n] = "queued"] \/ UNCHANGED exec
        BY <1>8 DEF StopStateStartDue
  <2>6. \A i \in Jobs, m \in Incarnations :
            exec'[i][m] \in InProgress => exec[i][m] \in InProgress
        BY <1>b, <1>f, <2>1, <2>5
  <2> QED BY <1>0, <2>1, <2>2, <2>3, <2>4, <2>6, ObjectRules
\* The events of a running job, and the acknowledgement of a start.
<1>9. ASSUME NEW j \in Jobs, OtherStateStart(j) \/ RunningStateStop(j) \/ RunningStateAbort(j)
      PROVE  Rules
  <2> DEFINE n == table[j]
  <2>1. n \in Incarnations /\ doc[j][n] \in Doc /\ UNCHANGED <<exec, state>>
        BY <1>0, <1>9 DEF TypeOK, OtherStateStart, RunningStateStop, RunningStateAbort, Dispatch,
           execVars
  <2>2. PICK e : SetDoc(j, n, [doc[j][n] EXCEPT !.event = e])
        BY <1>9 DEF OtherStateStart, RunningStateStop, RunningStateAbort
  <2> DEFINE d == [doc[j][n] EXCEPT !.event = e]
  <2>3. Becomes(j, n, d, state[j][n])
        BY <1>0, <2>1, <2>2, SetBecomes
  <2>4. d.status = doc[j][n].status
        BY <2>1 DEF Doc
  <2>5. /\ exec[j][n] \in InProgress => state[j][n] = "Running" /\ d.status = "running"
        /\ d.status = "removed" => state[j][n] = "Stop"
        BY <1>0, <2>1, <2>4 DEF RunningIsReal, RemovedIsStopped
  <2> HIDE DEF d
  <2> QED BY <1>c, <2>1, <2>3, <2>5
<1>10. ASSUME NEW j \in Jobs, Fire(j) \/ FireSkipped(j) PROVE Rules
  <2>1. UNCHANGED <<doc, state>>
        BY <1>10 DEF Fire, FireSkipped, objVars
  <2>2. UNCHANGED exec \/ exec' = [exec EXCEPT ![j][trigger[j]] = "queued"]
        BY <1>10 DEF Fire, FireSkipped, execVars
  <2>3. trigger[j] \in Incarnations
        BY <1>0, <1>10 DEF Fire, FireSkipped, TypeOK
  <2>4. \A i \in Jobs, m \in Incarnations :
            exec'[i][m] \in InProgress => exec[i][m] \in InProgress
        BY <1>b, <1>f, <2>2, <2>3
  <2> QED BY <1>0, <2>1, <2>4 DEF RunningIsReal, RemovedIsStopped
<1>11. ASSUME NEW j \in Jobs, NEW n \in Incarnations, MovesOn(j, n) PROVE Rules
  <2>1. UNCHANGED <<doc, state>>
        BY <1>11 DEF MovesOn, Dequeue, Overdue, Misfire, SpawnAgent, AgentExits, ExecuteRaises, InstanceEnds,
           objVars
  <2>2. PICK e : /\ exec' = [exec EXCEPT ![j][n] = e]
                 /\ e \in InProgress => exec[j][n] \in InProgress
        BY <1>11, <1>b DEF MovesOn, Dequeue, Overdue, Misfire, SpawnAgent, AgentExits,
           ExecuteRaises, InstanceEnds, ExecutionEnds, InProgress, AgentAlive
  <2>3. \A i \in Jobs, m \in Incarnations :
            exec'[i][m] \in InProgress => exec[i][m] \in InProgress
        BY <1>0, <2>2 DEF TypeOK
  <2> QED BY <1>0, <2>1, <2>3 DEF RunningIsReal, RemovedIsStopped
\* The steps of execute: the execution <<j, n>> moves, and its object with it.
<1>e. ASSUME NEW j \in Jobs, NEW n \in Incarnations, NEW e, NEW d, NEW s,
             exec' = [exec EXCEPT ![j][n] = e], Becomes(j, n, d, s),
             e \in InProgress => s = "Running" /\ d.status = "running",
             d.status = "removed" => s = "Stop"
      PROVE  Rules
  <2>1. \A i \in Jobs, m \in Incarnations :
            exec'[i][m] = IF i = j /\ m = n THEN e ELSE exec[i][m]
        BY <1>0, <1>e DEF TypeOK
  <2> QED BY <1>0, <1>e, <2>1, ObjectRules
<1>12. ASSUME NEW j \in Jobs, NEW n \in Incarnations, ExecuteBegin(j, n) PROVE Rules
  <2> DEFINE d == [doc[j][n] EXCEPT !.status = "running"]
  <2>1. d.status = "running"
        BY <1>0 DEF TypeOK, Doc
  <2>2. Becomes(j, n, d, "Running")
        BY <1>0, <1>12, SetBecomes DEF ExecuteBegin
  <2> QED BY <1>12, <1>e, <2>1, <2>2 DEF ExecuteBegin
<1>13. ASSUME NEW j \in Jobs, NEW n \in Incarnations, ReportPid(j, n) PROVE Rules
  <2> DEFINE d == [doc[j][n] EXCEPT !.pid = TRUE]
  <2>1. d.status = doc[j][n].status
        BY <1>0 DEF TypeOK, Doc
  <2>2. Becomes(j, n, d, state[j][n])
        BY <1>0, <1>13, SetBecomes DEF ReportPid
  <2>3. state[j][n] = "Running" /\ doc[j][n].status = "running"
        BY <1>0, <1>13 DEF ReportPid, RunningIsReal, InProgress, AgentAlive
  <2> QED BY <1>13, <1>e, <2>1, <2>2, <2>3 DEF ReportPid
<1>14. ASSUME NEW j \in Jobs, NEW n \in Incarnations, Finish(j, n) PROVE Rules
  <2>1. exec' = [exec EXCEPT ![j][n] = "finished"]
        BY <1>14 DEF Finish, ExecutionEnds
  <2>2. CASE \E st \in {"removed", "completed"} : Unschedule(j, n, st)
    <3>1. \E d : Becomes(j, n, d, "Stop")
          BY <1>0, <2>2, SetBecomes DEF Unschedule, SetDoc
    <3> QED BY <1>b, <1>e, <2>1, <3>1
  <2>3. CASE \E st \in {"completed", "scheduled"}, s \in JobStates :
                SetDoc(j, n, [doc[j][n] EXCEPT !.status = st]) /\ SetState(j, n, s)
    <3>1. PICK st \in {"completed", "scheduled"}, s \in JobStates :
                SetDoc(j, n, [doc[j][n] EXCEPT !.status = st]) /\ SetState(j, n, s)
          BY <2>3
    <3>2. [doc[j][n] EXCEPT !.status = st].status = st
          BY <1>0 DEF TypeOK, Doc
    <3>3. Becomes(j, n, [doc[j][n] EXCEPT !.status = st], s)
          BY <1>0, <3>1, SetBecomes
    <3> QED BY <1>b, <1>e, <2>1, <3>1, <3>2, <3>3
  <2> QED BY <1>14, <2>2, <2>3 DEF Finish, JobStates
<1> QED BY <1>1, <1>2, <1>3, <1>4, <1>5, <1>6, <1>7, <1>8, <1>9, <1>10, <1>11, <1>12, <1>13,
           <1>14, Cases

\* apscheduler's side: the trigger, the table and the states it depends on.
LEMMA KnownStep == IInv /\ [Next]_vars => OnlyKnownJobsFire'
<1> SUFFICES ASSUME IInv, [Next]_vars PROVE OnlyKnownJobsFire'
    OBVIOUS
<1>0. TypeOK /\ OnlyKnownJobsFire /\ DroppingIsIdle
      BY DEF IInv
\* Nobody else than the object of the trigger, and no trigger appears.
<1>a. ASSUME UNCHANGED table,
             \A i \in Jobs : trigger'[i] # Absent =>
                trigger'[i] = trigger[i]
                /\ (state'[i][trigger[i]] = "Stop" => state[i][trigger[i]] = "Stop")
      PROVE  OnlyKnownJobsFire'
      BY <1>0, <1>a DEF OnlyKnownJobsFire
<1>b. ASSUME NEW j \in Jobs, NEW n \in Incarnations, NEW s, SetState(j, n, s)
      PROVE  \A i \in Jobs, m \in Incarnations :
                 state'[i][m] = IF i = j /\ m = n THEN s ELSE state[i][m]
  <2>1. state \in [Jobs -> [Incarnations -> JobStates]]
        BY <1>0 DEF TypeOK
  <2> QED BY <1>b, <2>1 DEF SetState
<1>c. trigger \in [Jobs -> Incarnations \cup {Absent}] /\ table \in [Jobs -> Incarnations \cup {Absent}]
      BY <1>0 DEF TypeOK
<1>d. ASSUME NEW j \in Jobs, UNCHANGED state
             \/ \E n \in Incarnations : \E s : SetState(j, n, s) /\ (s = "Stop" => trigger'[j] = Absent),
             UNCHANGED table, UNCHANGED trigger \/ trigger' = [trigger EXCEPT ![j] = Absent]
      PROVE  OnlyKnownJobsFire'
  <2>1. \A i \in Jobs : trigger'[i] # Absent => trigger'[i] = trigger[i]
        BY <1>c, <1>d
  <2>2. CASE UNCHANGED state
        BY <1>a, <1>d, <2>1, <2>2
  <2>3. CASE \E n \in Incarnations : \E s : SetState(j, n, s) /\ (s = "Stop" => trigger'[j] = Absent)
        BY <1>a, <1>b, <1>c, <1>d, <2>1, <2>3
  <2> QED BY <1>d, <2>2, <2>3
<1>1. CASE QuietPoll \/ QuietEnv \/ UNCHANGED vars
      BY <1>0, <1>1, QuietSteps DEF OnlyKnownJobsFire
\* A popped object has no trigger.
<1>2. CASE PollPop
  <2>1. ASSUME NEW i \in Jobs, trigger[i] # Absent PROVE table'[i] = table[i]
    <3>1. i \notin dropping
          BY <1>0, <2>1 DEF DroppingIsIdle
    <3> QED BY <1>2, <3>1 DEF PollPop
  <2>2. UNCHANGED <<trigger, state>>
        BY <1>2 DEF PollPop, objVars
  <2> QED BY <1>0, <2>1, <2>2 DEF OnlyKnownJobsFire
<1>3. CASE Crash
      BY <1>3 DEF Crash, OnlyKnownJobsFire
<1>4. ASSUME NEW j \in Jobs, PollCreate(j) PROVE OnlyKnownJobsFire'
  <2>1. trigger[j] = Absent
        BY <1>0, <1>4 DEF PollCreate, OnlyKnownJobsFire
  <2>2. PICK n \in Incarnations : table' = [table EXCEPT ![j] = n] /\ SetState(j, n, "Stop")
        BY <1>4 DEF PollCreate, SetState
  <2>3. UNCHANGED trigger
        BY <1>4 DEF PollCreate
  <2>4. \A i \in Jobs \ {j} : table'[i] = table[i] /\ state'[i] = state[i]
        BY <1>0, <2>2 DEF TypeOK, SetState
  <2> QED BY <1>0, <2>1, <2>3, <2>4 DEF OnlyKnownJobsFire
<1>5. ASSUME NEW j \in Jobs, PollRemove(j) PROVE OnlyKnownJobsFire'
  <2>1. table[j] \in Incarnations /\ UNCHANGED table
        BY <1>c, <1>5 DEF PollRemove
  <2>2. trigger' = [trigger EXCEPT ![j] = Absent] => trigger'[j] = Absent
        BY <1>c
  <2> QED BY <1>5, <1>d, <2>1, <2>2 DEF PollRemove, Unschedule
<1>6. ASSUME NEW j \in Jobs,
             \/ PollBadArgs(j) \/ StopStateStop(j) \/ ScheduledStateAbort(j) \/ StopStateStartDue(j)
             \/ OtherStateStart(j) \/ RunningStateStop(j) \/ RunningStateAbort(j)
      PROVE  OnlyKnownJobsFire'
  <2>1. UNCHANGED <<table, state, trigger>>
        BY <1>6 DEF PollBadArgs, StopStateStop, ScheduledStateAbort, StopStateStartDue,
           OtherStateStart, RunningStateStop, RunningStateAbort, Dispatch
  <2> QED BY <1>d, <2>1
<1>7. ASSUME NEW j \in Jobs, ScheduledStateStop(j) PROVE OnlyKnownJobsFire'
  <2>1. table[j] \in Incarnations /\ UNCHANGED table /\ SetState(j, table[j], "Stop")
        /\ trigger' = [trigger EXCEPT ![j] = Absent]
        BY <1>c, <1>7 DEF ScheduledStateStop, Dispatch
  <2>2. trigger'[j] = Absent
        BY <1>c, <2>1
  <2> QED BY <1>d, <2>1, <2>2
\* A stopped object is not scheduled, so schedule() finds the id free.
<1>8. ASSUME NEW j \in Jobs, StopStateStart(j) PROVE OnlyKnownJobsFire'
  <2>1. table[j] \in Incarnations /\ state[j][table[j]] = "Stop" /\ UNCHANGED table
        BY <1>c, <1>8 DEF StopStateStart, Dispatch
  <2>2. trigger[j] = Absent
        BY <1>0, <2>1 DEF OnlyKnownJobsFire
  <2>3. trigger' = [trigger EXCEPT ![j] = table[j]] /\ SetState(j, table[j], "Scheduled")
        BY <1>8, <2>2 DEF StopStateStart
  <2>4. \A i \in Jobs : trigger'[i] = IF i = j THEN table[j] ELSE trigger[i]
        BY <1>c, <2>3
  <2> QED BY <1>0, <1>b, <1>c, <2>1, <2>3, <2>4 DEF OnlyKnownJobsFire
<1>9. ASSUME NEW j \in Jobs, Fire(j) \/ FireSkipped(j) PROVE OnlyKnownJobsFire'
  <2>1. UNCHANGED <<table, state>>
        BY <1>9 DEF Fire, FireSkipped, objVars
  <2> QED BY <1>9, <1>d, <2>1 DEF Fire, FireSkipped
<1>10. ASSUME NEW j \in Jobs, NEW n \in Incarnations, MovesOn(j, n) \/ ReportPid(j, n)
       PROVE  OnlyKnownJobsFire'
  <2>1. UNCHANGED <<table, state, trigger>>
        BY <1>10 DEF MovesOn, Dequeue, Overdue, Misfire, SpawnAgent, AgentExits, ExecuteRaises, InstanceEnds,
           ReportPid, objVars
  <2> QED BY <1>d, <2>1
<1>11. ASSUME NEW j \in Jobs, NEW n \in Incarnations, ExecuteBegin(j, n)
       PROVE  OnlyKnownJobsFire'
  <2>1. SetState(j, n, "Running") /\ UNCHANGED <<table, trigger>>
        BY <1>11 DEF ExecuteBegin
  <2> QED BY <1>d, <2>1
\* finish() only stops an object after it lost its trigger.
<1>12. ASSUME NEW j \in Jobs, NEW n \in Incarnations, Finish(j, n) PROVE OnlyKnownJobsFire'
  <2>1. UNCHANGED table
        BY <1>12 DEF Finish
  <2>2. CASE \E st : Unschedule(j, n, st)
    <3>1. trigger' = [trigger EXCEPT ![j] = Absent] /\ SetState(j, n, "Stop")
          BY <2>2 DEF Unschedule
    <3>2. trigger'[j] = Absent
          BY <1>c, <3>1
    <3> QED BY <1>d, <2>1, <3>1, <3>2
  <2>3. CASE SetState(j, n, "Scheduled") /\ UNCHANGED trigger
        BY <1>d, <2>1, <2>3
  <2>4. CASE trigger[j] = Absent /\ SetState(j, n, "Stop") /\ UNCHANGED trigger
        BY <1>d, <2>1, <2>4
  <2> QED BY <1>12, <2>2, <2>3, <2>4 DEF Finish, LastRun
<1> QED BY <1>1, <1>2, <1>3, <1>4, <1>5, <1>6, <1>7, <1>8, <1>9, <1>10, <1>11, <1>12, Cases

\* poll alone schedules jobs, and not between its look and its pops.
LEMMA DroppingStep == IInv /\ [Next]_vars => DroppingIsIdle'
<1> SUFFICES ASSUME IInv, [Next]_vars PROVE DroppingIsIdle'
    OBVIOUS
<1>0. TypeOK /\ OnlyKnownJobsFire /\ RemovedIsStopped /\ DroppingIsIdle
      BY DEF IInv
<1>t. trigger \in [Jobs -> Incarnations \cup {Absent}] /\ Jobs \subseteq Nat
      BY <1>0, ConstantsAssumption DEF TypeOK
<1>a. ASSUME UNCHANGED <<pollPc, dropping>>, \A i \in Jobs : trigger'[i] # Absent => trigger[i] # Absent
      PROVE  DroppingIsIdle'
      BY <1>0, <1>a DEF DroppingIsIdle, TypeOK
<1>b. ASSUME dropping' = {} PROVE DroppingIsIdle'
      BY <1>b DEF DroppingIsIdle
\* In the other loops of poll nothing is being dropped.
<1>c. ASSUME UNCHANGED dropping, pollPc # "dropping" PROVE DroppingIsIdle'
      BY <1>0, <1>b, <1>c DEF DroppingIsIdle
<1>1. CASE PollLook
  <2>1. \A i \in Jobs : Removable(i) => trigger[i] = Absent
        BY <1>0, <1>t DEF Removable, RemovedIsStopped, OnlyKnownJobsFire, TypeOK
  <2> QED BY <1>1, <2>1 DEF PollLook, DroppingIsIdle
<1>2. CASE Crash \/ PollPop \/ PollFails \/ \E j \in Jobs : PollNoPid(j) \/ PollBadArgs(j)
      BY <1>2, <1>b DEF Crash, PollPop, PollFails, PollNoPid, PollBadArgs, PollReturns, PollRaises, PollEnded
<1>3. CASE PollStart \/ PollFetch \/ PollListed
      BY <1>3, <1>c DEF PollStart, PollFetch, PollListed
<1>4. ASSUME NEW j \in Jobs,
             \/ PollCreate(j) \/ PollRemove(j) \/ PollSpins(j) \/ StopStateStartDue(j)
             \/ NoEvent(j) \/ StopStateStop(j) \/ ScheduledStateStop(j) \/ ScheduledStateAbort(j)
             \/ StopStateStart(j) \/ OtherStateStart(j) \/ RunningStateStop(j) \/ RunningStateAbort(j)
      PROVE  DroppingIsIdle'
  <2>1. UNCHANGED dropping /\ pollPc # "dropping"
        BY <1>4 DEF PollCreate, PollRemove, PollSpins, StopStateStartDue, NoEvent, StopStateStop,
           ScheduledStateStop, ScheduledStateAbort, StopStateStart, OtherStateStart, RunningStateStop,
           RunningStateAbort, Dispatch, NextListed
  <2> QED BY <1>c, <2>1
<1>5. ASSUME NEW j \in Jobs, Fire(j) \/ FireSkipped(j) \/ User(j) \/ OrphanExits(j) PROVE DroppingIsIdle'
  <2>1. UNCHANGED <<pollPc, dropping>>
        BY <1>5 DEF Fire, FireSkipped, User, CreateJob, StartJob, StopJob, AbortJob, DeleteJob, Request,
           OrphanExits, pollVars
  <2>2. UNCHANGED trigger \/ trigger' = [trigger EXCEPT ![j] = Absent]
        BY <1>5 DEF Fire, FireSkipped, User, CreateJob, StartJob, StopJob, AbortJob, DeleteJob, Request,
           OrphanExits
  <2> QED BY <1>a, <1>t, <2>1, <2>2
<1>6. ASSUME NEW j \in Jobs, NEW n \in Incarnations,
             MovesOn(j, n) \/ ExecuteBegin(j, n) \/ ReportPid(j, n) \/ Finish(j, n)
      PROVE  DroppingIsIdle'
  <2>1. UNCHANGED <<pollPc, dropping>>
        BY <1>6 DEF MovesOn, Dequeue, Overdue, Misfire, SpawnAgent, AgentExits, ExecuteRaises,
           InstanceEnds, ExecuteBegin, ReportPid, Finish, pollVars
  <2>2. UNCHANGED trigger \/ trigger' = [trigger EXCEPT ![j] = Absent]
        BY <1>6 DEF MovesOn, Dequeue, Overdue, Misfire, SpawnAgent, AgentExits, ExecuteRaises,
           InstanceEnds, ExecuteBegin, ReportPid, Finish, Unschedule
  <2> QED BY <1>a, <1>t, <2>1, <2>2
<1>7. CASE UNCHANGED vars
      BY <1>7, <1>a DEF vars, pollVars
<1> QED BY <1>1, <1>2, <1>3, <1>4, <1>5, <1>6, <1>7, Cases DEF QuietPoll, QuietEnv

-----------------------------------------------------------------------------
LEMMA InvInit == Init => IInv
<1>1. "none" \notin Pending /\ "none" \notin InProgress
      BY DEF Pending, OnWorker, InProgress, AgentAlive
<1> SUFFICES ASSUME Init PROVE IInv
    OBVIOUS
<1>2. RunningIsReal
      BY <1>1 DEF Init, RunningIsReal
<1>3. OnlyKnownJobsFire
      BY DEF Init, OnlyKnownJobsFire
<1>4. RemovedIsStopped /\ DroppingIsIdle
      BY DEF Init, RemovedIsStopped, DroppingIsIdle
<1> QED BY <1>2, <1>3, <1>4, TypeInit DEF IInv

\* The inductive invariant.
THEOREM Invariance == Spec => []IInv
<1>1. IInv /\ [Next]_vars => IInv'
      BY TypeStep, RuleStep, KnownStep, DroppingStep DEF IInv
<1> QED BY InvInit, <1>1, PTL DEF Spec

\* No event takes a Job object out of RunningState before its execution ends.
THEOREM RunningAlways == Spec => []RunningIsReal
<1>1. IInv => RunningIsReal
      BY DEF IInv
<1> QED BY Invariance, <1>1, PTL

\* What apscheduler holds is known to self.jobs and does not believe itself
\* stopped.
THEOREM KnownAlways == Spec => []OnlyKnownJobsFire
<1>1. IInv => OnlyKnownJobsFire
      BY DEF IInv
<1> QED BY Invariance, <1>1, PTL

-----------------------------------------------------------------------------
(* What finish() may do to a job.  An object that poll drops, or dropped,  *)
(* while its execution is pending has no event left, so that its finish()  *)
(* does not unschedule the object that takes its place.                    *)
Leaving(j, n) == n # table[j] \/ doc[j][n].status = "removed" \/ j \in dropping

DroppedAreQuiet ==
    \A j \in Jobs, n \in Incarnations :
        exec[j][n] # "none" /\ Leaving(j, n) => doc[j][n].event = ""

LEMMA SetDocAt ==
    ASSUME TypeOK, NEW i \in Jobs, NEW m \in Incarnations, NEW d, SetDoc(i, m, d)
    PROVE  \A j \in Jobs, n \in Incarnations :
               doc'[j][n] = IF j = i /\ n = m THEN d ELSE doc[j][n]
BY DEF TypeOK, SetDoc

LEMMA ExecAt ==
    ASSUME TypeOK, NEW i \in Jobs, NEW m \in Incarnations, NEW e, exec' = [exec EXCEPT ![i][m] = e]
    PROVE  \A j \in Jobs, n \in Incarnations :
               exec'[j][n] = IF j = i /\ n = m THEN e ELSE exec[j][n]
BY DEF TypeOK

LEMMA QuietStep == IInv /\ DroppedAreQuiet /\ [Next]_vars => DroppedAreQuiet'
<1> SUFFICES ASSUME IInv, DroppedAreQuiet, [Next]_vars PROVE DroppedAreQuiet'
    OBVIOUS
<1>0. TypeOK /\ RunningIsReal /\ OnlyKnownJobsFire /\ RemovedIsStopped /\ DroppingIsIdle
      BY DEF IInv
<1>a. UNCHANGED <<table, doc, exec>> /\ dropping' \subseteq dropping => DroppedAreQuiet'
      BY DEF DroppedAreQuiet, Leaving
\* While poll handles events or removes jobs nothing is being dropped.
<1>d. pollPc \in {"processing", "removing"} => dropping = {}
      BY <1>0 DEF DroppingIsIdle
\* The object <<i, m>> gets the document d.
<1>b. ASSUME NEW i \in Jobs, NEW m \in Incarnations, NEW d, SetDoc(i, m, d), UNCHANGED table, dropping' \subseteq dropping,
             \A j \in Jobs, n \in Incarnations :
                 exec'[j][n] # "none" /\ (j # i \/ n # m) => exec[j][n] # "none",
             exec'[i][m] # "none" /\ (m # table[i] \/ d.status = "removed" \/ i \in dropping) => d.event = ""
      PROVE  DroppedAreQuiet'
  <2>1. \A j \in Jobs, n \in Incarnations : doc'[j][n] = IF j = i /\ n = m THEN d ELSE doc[j][n]
    <3>1. TypeOK /\ SetDoc(i, m, d)
          BY <1>0, <1>b
    <3> QED BY <3>1, SetDocAt
  <2>2. ASSUME NEW j \in Jobs, NEW n \in Incarnations, exec'[j][n] # "none",
               n # table[j] \/ doc'[j][n].status = "removed" \/ j \in dropping
        PROVE  doc'[j][n].event = ""
    <3>1. CASE j = i /\ n = m
      <4>1. doc'[j][n] = d
            BY <2>1, <3>1
      <4> QED BY <1>b, <2>2, <3>1, <4>1
    <3>2. CASE j # i \/ n # m
      <4>1. doc'[j][n] = doc[j][n] /\ exec[j][n] # "none"
            BY <1>b, <2>1, <2>2, <3>2
      <4> QED BY <2>2, <4>1 DEF DroppedAreQuiet, Leaving
    <3> QED BY <3>1, <3>2
  <2>3. UNCHANGED table /\ dropping' \subseteq dropping
        BY <1>b
  <2> QED BY <2>2, <2>3 DEF DroppedAreQuiet, Leaving
<1>1. CASE QuietPoll \/ QuietEnv \/ UNCHANGED vars
  <2>1. UNCHANGED <<table, doc, exec>>
        BY <1>1, QuietSteps
  <2>2. CASE PollLook
        BY <2>1, <2>2 DEF PollLook, Removable, DroppedAreQuiet, Leaving
  <2>3. CASE ~PollLook
    <3>1. dropping' \subseteq dropping
          BY <1>1, <2>3 DEF QuietPoll, QuietEnv, PollStart, PollFetch, PollFails, PollListed, PollNoPid,
             NoEvent, PollSpins, Dispatch, PollReturns, PollRaises, PollEnded, User, CreateJob, StartJob,
             StopJob, AbortJob, DeleteJob, Request, OrphanExits, vars, pollVars
    <3> QED BY <1>a, <2>1, <3>1
  <2> QED BY <2>2, <2>3
<1>2. CASE PollPop
  <2>1. \A j \in Jobs : table'[j] = IF j \in dropping THEN Absent ELSE table[j]
        BY <1>2 DEF PollPop
  <2>2. UNCHANGED <<doc, exec>> /\ dropping' = {}
        BY <1>2 DEF PollPop, PollReturns, PollEnded, objVars, execVars
  <2> QED BY <2>1, <2>2 DEF DroppedAreQuiet, Leaving
<1>3. CASE Crash
      BY <1>3 DEF Crash, DroppedAreQuiet, Leaving
<1>4. ASSUME NEW j \in Jobs, PollCreate(j) PROVE DroppedAreQuiet'
  <2>1. PICK n \in Incarnations : /\ exec[j][n] = "none" /\ SetDoc(j, n, Created(seen[j]))
                                  /\ table' = [table EXCEPT ![j] = n]
        BY <1>4 DEF PollCreate, SetDoc
  <2>2. table[j] = Absent /\ UNCHANGED <<exec, dropping>> /\ \A m \in Incarnations : m # Absent
        BY <1>4 DEF PollCreate, execVars, Incarnations, Absent
  <2>6. dropping = {}
        BY <1>4, <1>d DEF PollCreate, NextListed
  <2>3. \A i \in Jobs \ {j} : table'[i] = table[i]
        BY <1>0, <2>1 DEF TypeOK
  <2>4. \A i \in Jobs, m \in Incarnations :
            doc'[i][m] = IF i = j /\ m = n THEN Created(seen[j]) ELSE doc[i][m]
        BY <1>0, <2>1, SetDocAt
  <2>5. ASSUME NEW i \in Jobs, NEW m \in Incarnations, exec'[i][m] # "none",
               m # table'[i] \/ doc'[i][m].status = "removed"
        PROVE  doc'[i][m].event = ""
    <3>1. exec[i][m] # "none" /\ doc'[i][m] = doc[i][m]
          BY <2>1, <2>2, <2>4, <2>5
    <3> QED BY <2>2, <2>3, <2>5, <3>1 DEF DroppedAreQuiet, Leaving
  <2> QED BY <2>2, <2>5, <2>6 DEF DroppedAreQuiet, Leaving
<1>5. ASSUME NEW j \in Jobs, PollRemove(j) PROVE DroppedAreQuiet'
  <2> DEFINE n == table[j]
  <2>1. n \in Incarnations /\ doc[j][n] \in Doc /\ UNCHANGED <<exec, table, dropping>> /\ dropping = {}
        BY <1>0, <1>5, <1>d DEF PollRemove, TypeOK, execVars
  <2>2. CASE state[j][n] = "Running"
    <3> DEFINE d == [doc[j][n] EXCEPT !.event = "remove"]
    <3>1. SetDoc(j, n, d)
          BY <1>5, <2>2 DEF PollRemove
    <3>2. d.status = doc[j][n].status /\ d.status # "removed"
          BY <1>0, <2>1, <2>2 DEF Doc, RemovedIsStopped
    <3> HIDE DEF d
    <3> QED BY <1>b, <2>1, <3>1, <3>2
  <2>3. CASE state[j][n] # "Running"
    <3> DEFINE d == [doc[j][n] EXCEPT !.event = "", !.status = "removed"]
    <3>1. SetDoc(j, n, d)
          BY <1>5, <2>1, <2>3 DEF PollRemove, Unschedule, SetDoc
    <3>2. d.event = ""
          BY <2>1 DEF Doc
    <3> HIDE DEF d
    <3> QED BY <1>b, <2>1, <3>1, <3>2
  <2> QED BY <2>2, <2>3
\* The events that leave no event.
<1>c. ASSUME NEW j \in Jobs, NEW d, table[j] \in Incarnations, UNCHANGED table, SetDoc(j, table[j], d),
             dropping' \subseteq dropping, d.event = "", UNCHANGED exec \/ exec' = [exec EXCEPT ![j][table[j]] = "queued"]
      PROVE  DroppedAreQuiet'
  <2>1. \A i \in Jobs, m \in Incarnations :
            exec'[i][m] # "none" /\ (i # j \/ m # table[j]) => exec[i][m] # "none"
    <3>1. CASE UNCHANGED exec
          BY <3>1
    <3>2. CASE exec' = [exec EXCEPT ![j][table[j]] = "queued"]
      <4>1. table[j] \in Incarnations
            BY <1>c
      <4>2. \A i \in Jobs, m \in Incarnations :
                exec'[i][m] = IF i = j /\ m = table[j] THEN "queued" ELSE exec[i][m]
            BY <1>0, <3>2, <4>1 DEF TypeOK
      <4> QED BY <4>2
    <3> QED BY <1>c, <3>1, <3>2
  <2> QED BY <1>b, <1>c, <2>1
<1>6. ASSUME NEW j \in Jobs,
             \/ PollBadArgs(j) \/ StopStateStop(j) \/ ScheduledStateStop(j) \/ ScheduledStateAbort(j)
      PROVE  DroppedAreQuiet'
  <2>1. table[j] \in Incarnations /\ seen[j] \in Doc /\ UNCHANGED <<exec, table>> /\ dropping' \subseteq dropping
        BY <1>0, <1>6 DEF TypeOK, PollBadArgs, StopStateStop, ScheduledStateStop,
           ScheduledStateAbort, Dispatch, execVars, PollRaises, PollEnded
  <2>2. Stopped(seen[j]).event = ""
        BY <2>1 DEF Stopped, Doc
  <2>3. SetDoc(j, table[j], Stopped(seen[j]))
        BY <1>6 DEF PollBadArgs, StopStateStop, ScheduledStateStop, ScheduledStateAbort, TakeStopped
  <2> QED BY <1>c, <2>1, <2>2, <2>3
<1>7. ASSUME NEW j \in Jobs, StopStateStart(j) \/ StopStateStartDue(j) \/ OtherStateStart(j)
      PROVE  DroppedAreQuiet'
  <2>1. /\ table[j] \in Incarnations /\ seen[j] \in Doc /\ doc[j][table[j]] \in Doc /\ UNCHANGED <<table, dropping>>
        /\ UNCHANGED exec \/ exec' = [exec EXCEPT ![j][table[j]] = "queued"]
        BY <1>0, <1>7 DEF TypeOK, StopStateStart, StopStateStartDue, OtherStateStart, Dispatch, execVars
  <2>2. /\ \A s : [seen[j] EXCEPT !.event = "", !.status = s].event = ""
        /\ [doc[j][table[j]] EXCEPT !.event = ""].event = ""
        BY <2>1 DEF Doc
  <2>3. \E d : d.event = "" /\ SetDoc(j, table[j], d)
        BY <1>7, <2>2 DEF StopStateStart, StopStateStartDue, OtherStateStart
  <2> QED BY <1>c, <2>1, <2>3
\* The events of a running job, which poll does not drop.
<1>8. ASSUME NEW j \in Jobs, RunningStateStop(j) \/ RunningStateAbort(j) PROVE DroppedAreQuiet'
  <2> DEFINE n == table[j]
  <2>1. /\ n \in Incarnations /\ doc[j][n] \in Doc /\ UNCHANGED <<exec, table, dropping>>
        /\ state[j][n] = "Running" /\ dropping = {}
        BY <1>0, <1>8, <1>d DEF TypeOK, RunningStateStop, RunningStateAbort, Dispatch, NextListed, execVars
  <2>2. PICK e : SetDoc(j, n, [doc[j][n] EXCEPT !.event = e])
        BY <1>8 DEF RunningStateStop, RunningStateAbort
  <2> DEFINE d == [doc[j][n] EXCEPT !.event = e]
  <2>3. d.status = doc[j][n].status /\ d.status # "removed"
        BY <1>0, <2>1 DEF Doc, RemovedIsStopped
  <2> HIDE DEF d
  <2> QED BY <1>b, <2>1, <2>2, <2>3 DEF d
<1>9. ASSUME NEW j \in Jobs, Fire(j) \/ FireSkipped(j) PROVE DroppedAreQuiet'
  <2>1. UNCHANGED <<doc, table, dropping>>
        BY <1>9 DEF Fire, FireSkipped, objVars, pollVars
  <2>2. trigger[j] \in Incarnations /\ trigger[j] = table[j] /\ doc[j][trigger[j]].status # "removed"
        /\ j \notin dropping
        BY <1>0, <1>9 DEF Fire, FireSkipped, TypeOK, OnlyKnownJobsFire, RemovedIsStopped, DroppingIsIdle
  <2>3. UNCHANGED exec \/ exec' = [exec EXCEPT ![j][trigger[j]] = "queued"]
        BY <1>9 DEF Fire, FireSkipped, execVars
  <2>4. \A i \in Jobs, m \in Incarnations :
            exec'[i][m] = exec[i][m] \/ (i = j /\ m = trigger[j])
        BY <1>0, <2>2, <2>3, ExecAt
  <2> QED BY <2>1, <2>2, <2>4 DEF DroppedAreQuiet, Leaving
<1>10. ASSUME NEW j \in Jobs, NEW n \in Incarnations, MovesOn(j, n) PROVE DroppedAreQuiet'
  <2>1. UNCHANGED <<doc, table, dropping>> /\ exec[j][n] # "none"
        BY <1>10 DEF MovesOn, Dequeue, Overdue, Misfire, SpawnAgent, AgentExits, ExecuteRaises,
           InstanceEnds, objVars, pollVars
  <2>2. \E e : exec' = [exec EXCEPT ![j][n] = e]
        BY <1>10 DEF MovesOn, Dequeue, Overdue, Misfire, SpawnAgent, AgentExits, ExecuteRaises, InstanceEnds,
           ExecutionEnds
  <2>3. \A i \in Jobs, m \in Incarnations : exec'[i][m] # "none" => exec[i][m] # "none"
        BY <1>0, <2>1, <2>2, ExecAt
  <2> QED BY <2>1, <2>3 DEF DroppedAreQuiet, Leaving
<1>11. ASSUME NEW j \in Jobs, NEW n \in Incarnations, ExecuteBegin(j, n) \/ ReportPid(j, n)
       PROVE  DroppedAreQuiet'
  <2>1. doc[j][n] \in Doc /\ exec[j][n] # "none" /\ UNCHANGED <<table, dropping>> /\ \E e : exec' = [exec EXCEPT ![j][n] = e]
    <3>1. doc[j][n] \in Doc
          BY <1>0 DEF TypeOK
    <3>2. CASE ExecuteBegin(j, n)
          BY <3>1, <3>2 DEF ExecuteBegin, pollVars
    <3>3. CASE ReportPid(j, n)
          BY <3>1, <3>3 DEF ReportPid, pollVars
    <3> QED BY <1>11, <3>2, <3>3
  <2>2. \A i \in Jobs, m \in Incarnations : exec'[i][m] # "none" => exec[i][m] # "none"
        BY <1>0, <2>1, ExecAt
  <2>3. PICK d : /\ SetDoc(j, n, d) /\ d.event = doc[j][n].event
                 /\ d.status = "running" \/ d.status = doc[j][n].status
    <3>1. CASE ExecuteBegin(j, n)
      <4> DEFINE d == [doc[j][n] EXCEPT !.status = "running"]
      <4>1. d.event = doc[j][n].event /\ d.status = "running"
            BY <2>1 DEF Doc
      <4> QED BY <3>1, <4>1 DEF ExecuteBegin
    <3>2. CASE ReportPid(j, n)
      <4> DEFINE d == [doc[j][n] EXCEPT !.pid = TRUE]
      <4>1. d.event = doc[j][n].event /\ d.status = doc[j][n].status
            BY <2>1 DEF Doc
      <4> QED BY <3>2, <4>1 DEF ReportPid
    <3> QED BY <1>11, <3>1, <3>2
  <2>4. n # table[j] \/ d.status = "removed" \/ j \in dropping => d.event = ""
        BY <2>1, <2>3 DEF DroppedAreQuiet, Leaving
  <2> QED BY <1>b, <2>1, <2>2, <2>3, <2>4
<1>12. ASSUME NEW j \in Jobs, NEW n \in Incarnations, Finish(j, n) PROVE DroppedAreQuiet'
  <2> DEFINE e == doc[j][n].event
  <2>1. UNCHANGED <<table, dropping>> /\ exec' = [exec EXCEPT ![j][n] = "finished"] /\ exec[j][n] # "none"
    <3>1. ExecutionEnds(j, n) /\ UNCHANGED <<table, dropping>> /\ exec[j][n] # "none"
          BY <1>12 DEF Finish, pollVars
    <3> QED BY <3>1 DEF ExecutionEnds
  <2>2. \A i \in Jobs, m \in Incarnations : exec'[i][m] # "none" => exec[i][m] # "none"
        BY <1>0, <2>1, ExecAt
  <2>3. \E d : SetDoc(j, n, d) /\ (d.event = "" \/ (d.event = e /\ d.status # "removed"))
    <3>0. doc[j][n] \in Doc
          BY <1>0 DEF TypeOK
    <3>1. CASE \E st : Unschedule(j, n, st)
      <4>1. PICK st : Unschedule(j, n, st)
            BY <3>1
      <4>2. [doc[j][n] EXCEPT !.event = "", !.status = st].event = ""
            BY <3>0 DEF Doc
      <4> QED BY <4>1, <4>2 DEF Unschedule, SetDoc
    <3>2. CASE \E st \in {"completed", "scheduled"} : SetDoc(j, n, [doc[j][n] EXCEPT !.status = st])
      <4>1. \A st \in {"completed", "scheduled"} :
                /\ [doc[j][n] EXCEPT !.status = st].event = e
                /\ [doc[j][n] EXCEPT !.status = st].status # "removed"
            BY <3>0 DEF Doc
      <4> QED BY <3>2, <4>1
    <3> QED BY <1>12, <3>1, <3>2 DEF Finish
  <2>4. PICK d : SetDoc(j, n, d) /\ (d.event = "" \/ (d.event = e /\ d.status # "removed"))
        BY <2>3
  <2>5. n # table[j] \/ d.status = "removed" \/ j \in dropping => d.event = ""
        BY <2>1, <2>4 DEF DroppedAreQuiet, Leaving
  <2> QED BY <1>b, <2>1, <2>2, <2>4, <2>5
<1> QED BY <1>1, <1>2, <1>3, <1>4, <1>5, <1>6, <1>7, <1>8, <1>9, <1>10, <1>11, <1>12, Cases

\* Only the look adds to what is being dropped, and only the pop takes a job out
\* of self.jobs.
LEMMA LookDecides ==
    ASSUME [Next]_vars, NEW j \in dropping' \ dropping
    PROVE  PollLook
<1>1. CASE Poll
      BY <1>1 DEF Poll, PollStart, PollFetch, PollFails, PollListed, PollPop, PollCreate, PollNoPid,
         ProcessEvent, NoEvent, StopStateStop, ScheduledStateStop, ScheduledStateAbort, StopStateStart,
         StopStateStartDue, OtherStateStart, RunningStateStop, RunningStateAbort, PollBadArgs, PollSpins,
         PollRemove, Dispatch, PollReturns, PollRaises, PollEnded
<1>2. CASE \E i \in Jobs : Fire(i) \/ FireSkipped(i) \/ User(i) \/ OrphanExits(i)
      BY <1>2 DEF Fire, FireSkipped, User, CreateJob, StartJob, StopJob, AbortJob, DeleteJob, Request,
         OrphanExits, pollVars
<1>3. CASE \E i \in Jobs, n \in Incarnations : Execute(i, n)
      BY <1>3 DEF Execute, Dequeue, Overdue, Misfire, SpawnAgent, AgentExits, ExecuteRaises,
         InstanceEnds, ExecuteBegin, ReportPid, Finish, pollVars
<1>4. CASE Crash \/ UNCHANGED vars
      BY <1>4 DEF Crash, vars, pollVars
<1> QED BY <1>1, <1>2, <1>3, <1>4 DEF Next

LEMMA PopRemoves ==
    ASSUME TypeOK, [Next]_vars, NEW j \in Jobs, table[j] # Absent, table'[j] = Absent, crashes' = crashes
    PROVE  PollPop
<1>1. table \in [Jobs -> Incarnations \cup {Absent}] /\ crashes \in Nat
      BY DEF TypeOK
<1>2. ~Crash
      BY <1>1 DEF Crash
<1>3. ASSUME NEW i \in Jobs, PollCreate(i) PROVE table'[j] = table[j]
  <2>1. table[i] = Absent /\ \E n : table' = [table EXCEPT ![i] = n]
        BY <1>3 DEF PollCreate
  <2> QED BY <1>1, <2>1
<1>4. \A i \in Jobs :
        \/ PollRemove(i) \/ PollBadArgs(i) \/ StopStateStop(i) \/ ScheduledStateStop(i)
        \/ ScheduledStateAbort(i) \/ StopStateStart(i) \/ StopStateStartDue(i)
        \/ OtherStateStart(i) \/ RunningStateStop(i) \/ RunningStateAbort(i)
        => table' = table
      BY DEF PollRemove, PollBadArgs, StopStateStop, ScheduledStateStop, ScheduledStateAbort,
         StopStateStart, StopStateStartDue, OtherStateStart, RunningStateStop, RunningStateAbort, Dispatch
<1>5. \A i \in Jobs : Fire(i) \/ FireSkipped(i) => table' = table
      BY DEF Fire, FireSkipped
<1>6. \A i \in Jobs, n \in Incarnations :
        MovesOn(i, n) \/ ExecuteBegin(i, n) \/ ReportPid(i, n) \/ Finish(i, n) => table' = table
      BY DEF MovesOn, Dequeue, Overdue, Misfire, SpawnAgent, AgentExits, ExecuteRaises,
         InstanceEnds, ExecuteBegin, ReportPid, Finish
<1>7. table' # table
      BY <1>1
<1> QED BY <1>2, <1>3, <1>4, <1>5, <1>6, <1>7, Cases, QuietSteps

\* What poll decides to drop has neither a trigger nor a running agent; what it
\* pops has no trigger and no event, whatever began since it decided.
THEOREM DropsAreSafe == Spec => DropIsSafe
<1> DEFINE Inv == IInv /\ DroppedAreQuiet
<1> DEFINE Safe ==
      /\ \A j \in dropping' \ dropping :
            trigger[j] = Absent /\ exec[j][table[j]] \notin InProgress
      /\ \A j \in Jobs : table[j] # Absent /\ table'[j] = Absent /\ crashes' = crashes =>
            /\ trigger[j] = Absent
            /\ exec[j][table[j]] # "none" => doc[j][table[j]].event = ""
<1>1. Init => Inv
      BY InvInit DEF Init, DroppedAreQuiet
<1>2. Inv /\ [Next]_vars => Inv'
      BY TypeStep, RuleStep, KnownStep, DroppingStep, QuietStep DEF IInv
<1>3. ASSUME Inv, [Next]_vars, NEW j \in dropping' \ dropping
      PROVE  trigger[j] = Absent /\ exec[j][table[j]] \notin InProgress
  <2>1. TypeOK /\ RunningIsReal /\ OnlyKnownJobsFire /\ RemovedIsStopped
        BY <1>3 DEF IInv
  <2>2. PollLook
        BY <1>3, LookDecides
  <2>3. j \in Jobs /\ Removable(j) /\ table[j] \in Incarnations
        BY <1>3, <2>1, <2>2 DEF PollLook, Removable, TypeOK
  <2>4. state[j][table[j]] = "Stop"
        BY <2>1, <2>3 DEF Removable, RemovedIsStopped
  <2> QED BY <2>1, <2>3, <2>4 DEF RunningIsReal, OnlyKnownJobsFire
<1>4. ASSUME Inv, [Next]_vars, NEW j \in Jobs, table[j] # Absent, table'[j] = Absent, crashes' = crashes
      PROVE  /\ trigger[j] = Absent
             /\ exec[j][table[j]] # "none" => doc[j][table[j]].event = ""
  <2>1. TypeOK /\ DroppingIsIdle /\ table[j] \in Incarnations
        BY <1>4 DEF IInv, TypeOK
  <2>2. j \in dropping
        BY <1>4, <2>1, PopRemoves DEF PollPop
  <2> QED BY <1>4, <2>1, <2>2 DEF DroppingIsIdle, DroppedAreQuiet, Leaving
<1>5. Inv /\ [Next]_vars => Safe
      BY <1>3, <1>4
<1> QED BY <1>1, <1>2, <1>5, PTL DEF Spec, DropIsSafe
-----------------------------------------------------------------------------
(* Who waits to run.  A job whose last trigger is used up waits for the    *)
(* execution which that trigger submitted.                                 *)

InSchedule(j) == table[j] # Absent /\ state[j][table[j]] = "Scheduled"

\* Where the execution of a Job object is while it has yet to begin.
ToBegin == {"queued", "late", "waiting"}

\* Nothing that concerns the schedule of j.
Same(j) == table'[j] = table[j] /\ state'[j] = state[j] /\ trigger'[j] = trigger[j] /\ exec'[j] = exec[j]

LEMMA OthersStay ==
    ASSUME TypeOK, NEW i \in Jobs, NEW j \in Jobs, i # j, NEW n \in Incarnations,
           \/ PollCreate(i) \/ PollRemove(i) \/ PollBadArgs(i)
           \/ StopStateStop(i) \/ ScheduledStateStop(i) \/ ScheduledStateAbort(i)
           \/ StopStateStart(i) \/ StopStateStartDue(i) \/ OtherStateStart(i)
           \/ RunningStateStop(i) \/ RunningStateAbort(i) \/ Fire(i) \/ FireSkipped(i)
           \/ MovesOn(i, n) \/ ExecuteBegin(i, n) \/ ReportPid(i, n) \/ Finish(i, n)
    PROVE  Same(j)
<1>1. table'[j] = table[j]
      BY DEF TypeOK, PollCreate, PollRemove, PollBadArgs, StopStateStop, ScheduledStateStop,
         ScheduledStateAbort, StopStateStart, StopStateStartDue, OtherStateStart, RunningStateStop,
         RunningStateAbort, Dispatch, Fire, FireSkipped, MovesOn, Dequeue, Overdue, Misfire,
         SpawnAgent, AgentExits, ExecuteRaises, InstanceEnds, ExecuteBegin, ReportPid, Finish
<1>2. state'[j] = state[j]
      BY DEF TypeOK, PollCreate, PollRemove, PollBadArgs, StopStateStop, ScheduledStateStop,
         ScheduledStateAbort, StopStateStart, StopStateStartDue, OtherStateStart, RunningStateStop,
         RunningStateAbort, Fire, FireSkipped, MovesOn, Dequeue, Overdue, Misfire,
         SpawnAgent, AgentExits, ExecuteRaises, InstanceEnds, ExecuteBegin, ReportPid, Finish,
         SetState, Unschedule, objVars
<1>3. trigger'[j] = trigger[j]
      BY DEF TypeOK, PollCreate, PollRemove, PollBadArgs, StopStateStop, ScheduledStateStop,
         ScheduledStateAbort, StopStateStart, StopStateStartDue, OtherStateStart, RunningStateStop,
         RunningStateAbort, Fire, FireSkipped, MovesOn, Dequeue, Overdue, Misfire,
         SpawnAgent, AgentExits, ExecuteRaises, InstanceEnds, ExecuteBegin, ReportPid, Finish, Unschedule
<1>4. exec'[j] = exec[j]
  <2>1. CASE \/ PollCreate(i) \/ PollRemove(i) \/ PollBadArgs(i)
             \/ StopStateStop(i) \/ ScheduledStateStop(i) \/ ScheduledStateAbort(i)
             \/ StopStateStart(i) \/ OtherStateStart(i) \/ RunningStateStop(i) \/ RunningStateAbort(i)
        BY <2>1 DEF PollCreate, PollRemove, PollBadArgs, StopStateStop, ScheduledStateStop,
           ScheduledStateAbort, StopStateStart, OtherStateStart, RunningStateStop, RunningStateAbort,
           Dispatch, execVars
  <2>2. CASE StopStateStartDue(i) \/ Fire(i) \/ FireSkipped(i)
        BY <2>2 DEF TypeOK, StopStateStartDue, Fire, FireSkipped, execVars
  <2>3. CASE MovesOn(i, n) \/ ExecuteBegin(i, n) \/ ReportPid(i, n) \/ Finish(i, n)
        BY <2>3 DEF TypeOK, MovesOn, Dequeue, Overdue, Misfire, SpawnAgent, AgentExits,
           ExecuteRaises, InstanceEnds, ExecuteBegin, ReportPid, Finish, ExecutionEnds
  <2> QED BY <2>1, <2>2, <2>3
<1> QED BY <1>1, <1>2, <1>3, <1>4 DEF Same

\* How a job comes to be, or to stay, in ScheduledState without a trigger.
LEMMA ScheduleStep ==
    ASSUME IInv, DroppedAreQuiet, [Next]_vars, NEW j \in Jobs, InSchedule(j)', trigger'[j] = Absent
    PROVE  \/ /\ InSchedule(j) /\ trigger[j] = Absent /\ table'[j] = table[j]
              /\ exec[j][table[j]] \in ToBegin =>
                    exec'[j][table[j]] \in ToBegin \/ exec[j][table[j]] = "late"
           \/ /\ j \in Once \cup Ending /\ trigger[j] # Absent /\ table'[j] = table[j]
              /\ Instances(j) # {} \/ exec'[j][table[j]] = "queued"
<1> DEFINE Stays == /\ InSchedule(j) /\ trigger[j] = Absent /\ table'[j] = table[j]
                    /\ exec[j][table[j]] \in ToBegin =>
                          exec'[j][table[j]] \in ToBegin \/ exec[j][table[j]] = "late"
           Used  == /\ j \in Once \cup Ending /\ trigger[j] # Absent /\ table'[j] = table[j]
                    /\ Instances(j) # {} \/ exec'[j][table[j]] = "queued"
<1> SUFFICES Stays \/ Used
    OBVIOUS
<1>0. TypeOK /\ OnlyKnownJobsFire
      BY DEF IInv
<1>t. /\ table \in [Jobs -> Incarnations \cup {Absent}] /\ trigger \in [Jobs -> Incarnations \cup {Absent}]
      /\ state \in [Jobs -> [Incarnations -> JobStates]]
      /\ Absent \notin Incarnations
      BY <1>0 DEF TypeOK, Incarnations, Absent
<1>e. exec \in ExecTables
      BY <1>0 DEF TypeOK, ExecTables
<1>s. table'[j] # Absent /\ state'[j][table'[j]] = "Scheduled"
      BY DEF InSchedule
<1>a. Same(j) => Stays
      BY DEF Same, InSchedule
<1>b. ASSUME NEW n \in Incarnations, NEW s, SetState(j, n, s)
      PROVE  \A m \in Incarnations : state'[j][m] = IF m = n THEN s ELSE state[j][m]
      BY <1>b, <1>t DEF SetState
\* The steps that move an execution of j, but not its schedule.
<1>c. ASSUME NEW n \in Incarnations, NEW e, exec' = [exec EXCEPT ![j][n] = e],
             e \in ToBegin \/ exec[j][n] \notin ToBegin \/ exec[j][n] = "late" \/ n # table[j],
             UNCHANGED <<table, trigger>>, state'[j][table[j]] = state[j][table[j]]
      PROVE  Stays
  <2>1. table[j] \in Incarnations /\ InSchedule(j) /\ trigger[j] = Absent
        BY <1>c, <1>s, <1>t DEF InSchedule
  <2>2. exec'[j][table[j]] = IF n = table[j] THEN e ELSE exec[j][table[j]]
        BY <1>e, <1>c, <2>1 DEF ExecTables
  <2>3. table'[j] = table[j]
        BY <1>c
  <2>4. exec[j][table[j]] \in ToBegin => exec'[j][table[j]] \in ToBegin \/ exec[j][table[j]] = "late"
        BY <1>c, <2>2
  <2> QED BY <2>1, <2>3, <2>4
<1>1. CASE QuietPoll \/ QuietEnv \/ UNCHANGED vars
  <2>1. Same(j)
        BY <1>1, QuietSteps DEF Same
  <2> QED BY <1>a, <2>1
<1>2. CASE PollPop
  <2>1. table'[j] = table[j]
        BY <1>2, <1>s DEF PollPop
  <2> QED BY <1>2, <1>a, <2>1 DEF PollPop, Same, objVars, execVars
<1>3. CASE Crash
      BY <1>3, <1>s DEF Crash
<1>4. CASE PollCreate(j)
  <2>1. PICK n \in Incarnations : table' = [table EXCEPT ![j] = n] /\ SetState(j, n, "Stop")
        BY <1>4 DEF PollCreate, SetState
  <2>2. table'[j] = n /\ state'[j][n] = "Stop"
        BY <1>b, <1>t, <2>1
  <2> QED BY <1>s, <2>2
<1>5. CASE PollRemove(j)
  <2>1. table[j] \in Incarnations /\ UNCHANGED table
        BY <1>5, <1>t DEF PollRemove
  <2>2. state'[j][table[j]] \in {"Running", "Stop"}
    <3>1. CASE state[j][table[j]] = "Running"
          BY <1>5, <3>1 DEF PollRemove
    <3>2. CASE state[j][table[j]] # "Running"
      <4>1. SetState(j, table[j], "Stop")
            BY <1>5, <3>2 DEF PollRemove, Unschedule
      <4> QED BY <1>b, <2>1, <4>1
    <3> QED BY <3>1, <3>2
  <2> QED BY <1>s, <2>1, <2>2
<1>6. CASE \/ PollBadArgs(j) \/ StopStateStop(j) \/ ScheduledStateAbort(j) \/ OtherStateStart(j)
           \/ RunningStateStop(j) \/ RunningStateAbort(j)
  <2>1. UNCHANGED <<table, state, trigger, exec>>
        BY <1>6 DEF PollBadArgs, StopStateStop, ScheduledStateAbort, OtherStateStart,
           RunningStateStop, RunningStateAbort, Dispatch, execVars
  <2> QED BY <1>a, <2>1 DEF Same
<1>7. CASE ScheduledStateStop(j)
  <2>1. table[j] \in Incarnations /\ UNCHANGED table /\ SetState(j, table[j], "Stop")
        BY <1>7, <1>t DEF ScheduledStateStop, Dispatch
  <2> QED BY <1>b, <1>s, <2>1
\* schedule() leaves a trigger.
<1>8. CASE StopStateStart(j)
  <2>1. /\ table[j] \in Incarnations
        /\ trigger' = [trigger EXCEPT ![j] = IF @ = Absent THEN table[j] ELSE @]
        BY <1>8, <1>t DEF StopStateStart, Dispatch
  <2>2. trigger'[j] # Absent
        BY <1>t, <2>1
  <2> QED BY <2>2
<1>9. CASE StopStateStartDue(j)
  <2>1. UNCHANGED <<table, state>> /\ state[j][table[j]] = "Stop"
        BY <1>9 DEF StopStateStartDue
  <2> QED BY <1>s, <2>1
\* The last trigger is used up, for a run or for none.
<1>10. CASE Fire(j)
  <2>1. /\ trigger[j] \in Incarnations /\ exec' = [exec EXCEPT ![j][trigger[j]] = "queued"]
        /\ j \in Once \cup Ending /\ UNCHANGED table
        BY <1>10, <1>t DEF Fire
  <2>2. trigger[j] = table[j]
        BY <1>0, <2>1, <1>t DEF OnlyKnownJobsFire
  <2>3. exec'[j][table[j]] = "queued"
        BY <1>e, <2>1, <2>2 DEF ExecTables
  <2>4. trigger[j] # Absent /\ table'[j] = table[j]
        BY <1>t, <2>1
  <2> QED BY <2>1, <2>3, <2>4
<1>11. CASE FireSkipped(j)
      BY <1>11 DEF FireSkipped
<1>12. ASSUME NEW n \in Incarnations, MovesOn(j, n) \/ ReportPid(j, n) PROVE Stays
  <2>1. UNCHANGED <<table, state, trigger>>
        BY <1>12 DEF MovesOn, Dequeue, Overdue, Misfire, SpawnAgent, AgentExits, ExecuteRaises, InstanceEnds,
           ReportPid, objVars
  <2>2. PICK e : /\ exec' = [exec EXCEPT ![j][n] = e]
                 /\ e \in ToBegin \/ exec[j][n] \notin ToBegin \/ exec[j][n] = "late"
        BY <1>12 DEF MovesOn, Dequeue, Overdue, Misfire, SpawnAgent, AgentExits, ExecuteRaises, InstanceEnds,
           ReportPid, ExecutionEnds, ToBegin
  <2> QED BY <1>c, <2>1, <2>2
<1>13. ASSUME NEW n \in Incarnations, ExecuteBegin(j, n) PROVE Stays
  <2>1. UNCHANGED <<table, trigger>> /\ SetState(j, n, "Running") /\ exec' = [exec EXCEPT ![j][n] = "executing"]
        BY <1>13 DEF ExecuteBegin
  <2>2. \A m \in Incarnations : state'[j][m] = IF m = n THEN "Running" ELSE state[j][m]
        BY <1>b, <2>1
  <2>3. table[j] \in Incarnations /\ n # table[j] /\ state'[j][table[j]] = state[j][table[j]]
        BY <1>s, <1>t, <2>1, <2>2
  <2> QED BY <1>c, <2>1, <2>3
\* finish() of the known object schedules it again only where it has a trigger, and finish()
\* of a dropped one leaves the trigger alone.
<1>14. ASSUME NEW n \in Incarnations, Finish(j, n) PROVE Stays
  <2>1. UNCHANGED table /\ exec[j][n] = "executing" /\ exec' = [exec EXCEPT ![j][n] = "finished"]
        BY <1>14 DEF Finish, ExecutionEnds
  <2>2. table[j] \in Incarnations
        BY <1>s, <1>t, <2>1
  <2>3. \/ \E st : Unschedule(j, n, st) /\ doc[j][n].event \in {"remove", "stop", "abort"}
        \/ SetState(j, n, "Stop") /\ UNCHANGED trigger
        \/ SetState(j, n, "Scheduled") /\ UNCHANGED trigger /\ trigger[j] # Absent
        BY <1>14 DEF Finish, LastRun, StopRequested
  <2>4. CASE n = table[j]
    <3>1. SetState(j, n, "Stop") \/ trigger'[j] # Absent
          BY <2>3 DEF Unschedule
    <3> QED BY <1>b, <1>s, <2>1, <2>4, <3>1
  <2>5. CASE n # table[j]
    <3>1. doc[j][n].event = ""
          BY <2>1, <2>5 DEF DroppedAreQuiet, Leaving
    <3>2. UNCHANGED trigger /\ \E s : SetState(j, n, s)
          BY <2>3, <3>1
    <3>3. state'[j][table[j]] = state[j][table[j]]
          BY <1>b, <2>2, <2>5, <3>2
    <3> QED BY <1>c, <2>1, <2>5, <3>2, <3>3
  <2> QED BY <2>4, <2>5
<1>15. ASSUME NEW i \in Jobs, i # j, NEW n \in Incarnations,
              \/ PollCreate(i) \/ PollRemove(i) \/ PollBadArgs(i)
              \/ StopStateStop(i) \/ ScheduledStateStop(i) \/ ScheduledStateAbort(i)
              \/ StopStateStart(i) \/ StopStateStartDue(i) \/ OtherStateStart(i)
              \/ RunningStateStop(i) \/ RunningStateAbort(i) \/ Fire(i) \/ FireSkipped(i)
              \/ MovesOn(i, n) \/ ExecuteBegin(i, n) \/ ReportPid(i, n) \/ Finish(i, n)
       PROVE  Stays
      BY <1>0, <1>15, <1>a, OthersStay
<1>16. 1 \in Incarnations
      BY DEF Incarnations
<1> HIDE DEF Stays, Used
<1>17. CASE \E i \in Jobs :
                \/ PollCreate(i) \/ PollRemove(i) \/ PollBadArgs(i)
                \/ StopStateStop(i) \/ ScheduledStateStop(i) \/ ScheduledStateAbort(i)
                \/ StopStateStart(i) \/ StopStateStartDue(i) \/ OtherStateStart(i)
                \/ RunningStateStop(i) \/ RunningStateAbort(i) \/ Fire(i) \/ FireSkipped(i)
      BY <1>4, <1>5, <1>6, <1>7, <1>8, <1>9, <1>10, <1>11, <1>15, <1>16, <1>17
<1>18. CASE \E i \in Jobs, n \in Incarnations :
                MovesOn(i, n) \/ ExecuteBegin(i, n) \/ ReportPid(i, n) \/ Finish(i, n)
      BY <1>12, <1>13, <1>14, <1>15, <1>18
<1> QED BY <1>1, <1>2, <1>3, <1>17, <1>18, Cases

LEMMA QuietInit == Init => IInv /\ DroppedAreQuiet
BY InvInit DEF Init, DroppedAreQuiet

LEMMA QuietInvStep == IInv /\ DroppedAreQuiet /\ [Next]_vars => IInv' /\ DroppedAreQuiet'
BY TypeStep, RuleStep, KnownStep, DroppingStep, QuietStep DEF IInv

\* Whatever fails, is requested or crashes: a recurring job that believes itself scheduled has
\* its trigger, so that an old execution of a deleted and re-created job cannot take it away.
RecurringKeepTriggers == \A j \in Jobs \ (Once \cup Ending) : InSchedule(j) => trigger[j] # Absent

THEOREM RecurringAlwaysFire == Spec => []RecurringKeepTriggers
<1> DEFINE Inv == IInv /\ DroppedAreQuiet /\ RecurringKeepTriggers
<1>1. Init => Inv
  <2>1. Init => RecurringKeepTriggers
        BY DEF Init, RecurringKeepTriggers, InSchedule
  <2> QED BY <2>1, QuietInit
<1>2. Inv /\ [Next]_vars => Inv'
  <2> SUFFICES ASSUME Inv, [Next]_vars PROVE Inv'
      OBVIOUS
  <2>1. ASSUME NEW j \in Jobs \ (Once \cup Ending), InSchedule(j)', trigger'[j] = Absent PROVE FALSE
    <3>1. InSchedule(j) /\ trigger[j] = Absent
          BY <2>1, ScheduleStep
    <3> QED BY <3>1 DEF RecurringKeepTriggers
  <2> QED BY <2>1, QuietInvStep DEF RecurringKeepTriggers
<1> QED BY <1>1, <1>2, PTL DEF Spec

\* A job in ScheduledState gets stranded in two ways only: its last run is skipped because an
\* earlier execution is still counted, or it was late and is dropped.  This holds whatever is
\* requested, fails or crashes, also for an id that was deleted and created again.
THEOREM ScheduledJobsWillRun == Spec => ScheduledWillRun
<1> DEFINE Two == \A j \in Jobs : Stranded(j)' =>
                    \/ Stranded(j)
                    \/ trigger[j] # Absent /\ Instances(j) # {}
                    \/ exec[j][table[j]] = "late"
<1>1. ASSUME IInv, DroppedAreQuiet, [Next]_vars, NEW j \in Jobs, Stranded(j)'
      PROVE  \/ Stranded(j)
             \/ trigger[j] # Absent /\ Instances(j) # {}
             \/ exec[j][table[j]] = "late"
  <2>1. InSchedule(j)' /\ trigger'[j] = Absent /\ exec'[j][table'[j]] \notin ToBegin
        BY <1>1 DEF Stranded, InSchedule, ToBegin
  <2>2. CASE /\ InSchedule(j) /\ trigger[j] = Absent /\ table'[j] = table[j]
             /\ exec[j][table[j]] \in ToBegin =>
                   exec'[j][table[j]] \in ToBegin \/ exec[j][table[j]] = "late"
        BY <2>1, <2>2 DEF Stranded, InSchedule, ToBegin
  <2>3. CASE /\ trigger[j] # Absent /\ table'[j] = table[j]
             /\ Instances(j) # {} \/ exec'[j][table[j]] = "queued"
        BY <2>1, <2>3 DEF ToBegin
  <2> QED BY <1>1, <2>1, <2>2, <2>3, ScheduleStep
<1>2. IInv /\ DroppedAreQuiet /\ [Next]_vars => Two
      BY <1>1
<1> QED BY QuietInit, QuietInvStep, <1>2, PTL DEF Spec, ScheduledWillRun

\* An execution that ends with a stop, an abort or a removal requested leaves no trigger behind,
\* unless it ends by an exception that leaves execute.
THEOREM EndedStayEnded ==
    ASSUME "spawn" \notin Faults
    PROVE  Spec => EndedJobsStayEnded
<1> DEFINE Ended == \A j \in Jobs, n \in Incarnations :
              /\ exec[j][n] = "executing" /\ exec'[j][n] = "finished"
              /\ doc[j][n].event \in {"stop", "abort", "remove"}
              => trigger'[j] = Absent /\ state'[j][n] = "Stop"
<1>1. IInv /\ [Next]_vars => Ended
  <2> SUFFICES ASSUME IInv, [Next]_vars, NEW j \in Jobs, NEW n \in Incarnations,
                      exec[j][n] = "executing", exec'[j][n] = "finished",
                      doc[j][n].event \in {"stop", "abort", "remove"}
               PROVE  trigger'[j] = Absent /\ state'[j][n] = "Stop"
      OBVIOUS
  <2>1. TypeOK
        BY DEF IInv
  <2>2. ~Crash
    <3>1. Crash => exec'[j][n] = "none"
          BY DEF Crash
    <3> QED BY <3>1
  <2>a. exec'[j][n] # exec[j][n]
        OBVIOUS
  <2>3. ~(QuietPoll \/ QuietEnv \/ UNCHANGED vars \/ PollPop)
        BY <2>a, QuietSteps DEF PollPop, execVars
  <2>4. ASSUME NEW i \in Jobs,
               \/ PollCreate(i) \/ PollRemove(i) \/ PollBadArgs(i)
               \/ StopStateStop(i) \/ ScheduledStateStop(i) \/ ScheduledStateAbort(i)
               \/ StopStateStart(i) \/ OtherStateStart(i)
               \/ RunningStateStop(i) \/ RunningStateAbort(i) \/ FireSkipped(i)
        PROVE  FALSE
        BY <2>a, <2>4 DEF PollCreate, PollRemove, PollBadArgs, StopStateStop, ScheduledStateStop,
           ScheduledStateAbort, StopStateStart, OtherStateStart, RunningStateStop, RunningStateAbort,
           FireSkipped, Dispatch, execVars
  <2>5. ASSUME NEW i \in Jobs, StopStateStartDue(i) \/ Fire(i) PROVE FALSE
    <3>1. UNCHANGED exec \/ \E m \in Incarnations : exec' = [exec EXCEPT ![i][m] = "queued"]
          BY <2>1, <2>5 DEF StopStateStartDue, Fire, TypeOK
    <3>2. \A m \in Incarnations : exec' = [exec EXCEPT ![i][m] = "queued"] =>
              exec'[j][n] \in {"queued", exec[j][n]}
          BY <2>1 DEF TypeOK
    <3> QED BY <3>1, <3>2
  <2>6. ASSUME NEW i \in Jobs, NEW m \in Incarnations,
               MovesOn(i, m) \/ ExecuteBegin(i, m) \/ ReportPid(i, m)
        PROVE  FALSE
    <3>1. PICK e : exec' = [exec EXCEPT ![i][m] = e] /\ e # "finished"
          BY <2>6 DEF MovesOn, Dequeue, Overdue, Misfire, SpawnAgent, AgentExits, ExecuteRaises, InstanceEnds,
             ExecuteBegin, ReportPid
    <3>2. exec'[j][n] = IF i = j /\ m = n THEN e ELSE exec[j][n]
          BY <2>1, <3>1 DEF TypeOK
    <3> QED BY <3>1, <3>2
  <2>7. PICK i \in Jobs, m \in Incarnations : Finish(i, m)
        BY <2>2, <2>3, <2>4, <2>5, <2>6, Cases
  <2>8. i = j /\ m = n
    <3>1. exec' = [exec EXCEPT ![i][m] = "finished"]
          BY <2>7 DEF Finish, ExecutionEnds
    <3> QED BY <2>1, <2>a, <3>1 DEF TypeOK
  <2>9. \/ \E st : Unschedule(j, n, st)
        \/ trigger[j] = Absent /\ UNCHANGED trigger /\ SetState(j, n, "Stop")
        BY <2>7, <2>8 DEF Finish, LastRun, StopRequested
  <2>10. trigger'[j] = Absent
        BY <2>1, <2>9 DEF Unschedule, TypeOK
  <2>11. SetState(j, n, "Stop")
        BY <2>9 DEF Unschedule
  <2> QED BY <2>1, <2>10, <2>11 DEF SetState, TypeOK
<1> QED BY Invariance, <1>1, PTL DEF Spec, EndedJobsStayEnded
=============================================================================
