----------------------------- MODULE Scheduler -----------------------------
(***************************************************************************)
(* freezer-scheduler: the poll of the freezer API, the Job objects with    *)
(* their three states, the apscheduler triggers, the thread pool that runs *)
(* Job.execute, and the agents it spawns.                                  *)
(*                                                                         *)
(* Threads: the poll (the 'default' executor has one worker), one thread   *)
(* per execution (the 'threadpool' executor has concurrent_jobs workers),  *)
(* and apscheduler's own.  What the code does under scheduler.lock is one  *)
(* action here; everything else interleaves.                               *)
(*                                                                         *)
(* A job id can have two Job objects alive at once: one that self.jobs     *)
(* dropped while its execution was pending, and the one created after it.  *)
(* They are the incarnations of the job.                                   *)
(*                                                                         *)
(* Abstracted: the payload of a job (actions, credentials, session), the   *)
(* clock (a trigger fires at any time), and how many agents an execution   *)
(* needs (at most MaxAgents, chosen at will).                              *)
(***************************************************************************)
EXTENDS Naturals, FiniteSets

CONSTANTS
    Jobs,         \* job ids, as numbers in the order the API lists them
    Once,         \* the jobs with a 'date' trigger: it fires one time
    Ending,       \* the jobs with a schedule_end_date: any fire may be the last
    BadArgs,      \* the jobs whose schedule makes get_schedule_args raise
    Drafts,       \* the documents users create
    Workers,      \* concurrent_jobs
    PageSize,     \* limit of one jobs.list call
    Requests,     \* what users do: subset of {"create", "start", "stop", "abort", "delete"}
    Faults,       \* subset of {"api", "race", "misfire", "spawn", "crash"}
    MaxRequests,  \* bound: requests of all users
    MaxAgents,    \* bound: agents of one execution
    MaxCrashes    \* bound: crashes of the scheduler

Statuses == {"", "stop", "scheduled", "running", "removed", "completed", "gone"}
Events   == {"", "stop", "start", "abort", "remove"}

\* The job_schedule section of a job document; pid: it has a current_pid.
Doc   == [status : Statuses, event : Events, pid : BOOLEAN]
NoDoc == [status |-> "gone", event |-> "", pid |-> FALSE]

ASSUME ConstantsAssumption ==
    /\ Jobs \subseteq Nat /\ IsFiniteSet(Jobs)
    /\ Once \subseteq Jobs /\ Ending \subseteq Jobs /\ BadArgs \subseteq Jobs
    /\ Drafts \subseteq {d \in Doc : d.status # "gone"}
    /\ Workers \in Nat \ {0}
    /\ PageSize \in Nat \ {0}
    /\ MaxRequests \in Nat /\ MaxAgents \in Nat /\ MaxCrashes \in Nat

Absent       == 0
Incarnations == {1, 2}
JobStates    == {"Stop", "Scheduled", "Running"}
AgentAlive   == {"spawned", "agent"}
InProgress   == {"executing"} \cup AgentAlive   \* between execute's two lock sections
OnWorker     == {"waiting", "finished"} \cup InProgress
Pending      == {"queued", "late"} \cup OnWorker
PollPcs      == {"idle", "fetching", "processing", "removing", "dropping", "spinning"}

VARIABLES
    api,       \* the documents the API holds
    pollPc,    \* where the poll is; "spinning": process_event never returns
    offset,    \* offset of the next jobs.list call
    seen,      \* the documents this poll fetched
    todo,      \* the jobs the current loop of the poll has yet to visit
    dropping,  \* remove_list: the jobs this poll decided to drop from self.jobs
    started,   \* apscheduler runs: after the first poll
    table,     \* self.jobs: the incarnation of each job, or Absent
    doc,       \* job_doc of every Job object
    state,     \* state of every Job object
    trigger,   \* apscheduler's job store: whose execute is scheduled, or Absent
    exec,      \* where the execution of every Job object is, "none" if there is none
    agents,    \* agents the execution has spawned
    orphan,    \* an agent of the job outlived a crash of the scheduler
    requests,  \* requests made so far
    crashes    \* crashes so far

pollVars == <<pollPc, offset, seen, todo, dropping, started>>
objVars  == <<doc, state>>
execVars == <<exec, agents>>
envVars  == <<orphan, requests, crashes>>
vars     == <<api, pollVars, table, objVars, trigger, execVars, envVars>>

TypeOK ==
    /\ api \in [Jobs -> Doc]
    /\ pollPc \in PollPcs
    /\ offset \in Nat
    /\ seen \in [Jobs -> Doc]
    /\ todo \in SUBSET Jobs
    /\ dropping \in SUBSET Jobs
    /\ started \in BOOLEAN
    /\ table \in [Jobs -> Incarnations \cup {Absent}]
    /\ doc \in [Jobs -> [Incarnations -> Doc]]
    /\ state \in [Jobs -> [Incarnations -> JobStates]]
    /\ trigger \in [Jobs -> Incarnations \cup {Absent}]
    /\ exec \in [Jobs -> [Incarnations -> Pending \cup {"none"}]]
    /\ agents \in [Jobs -> [Incarnations -> Nat]]
    /\ orphan \in [Jobs -> BOOLEAN]
    /\ requests \in Nat
    /\ crashes \in Nat

Init ==
    /\ api \in [Jobs -> Drafts \cup {NoDoc}]
    /\ pollPc = "idle" /\ offset = 0 /\ todo = {} /\ dropping = {} /\ started = FALSE
    /\ seen = [j \in Jobs |-> NoDoc]
    /\ table = [j \in Jobs |-> Absent]
    /\ doc = [j \in Jobs |-> [n \in Incarnations |-> NoDoc]]
    /\ state = [j \in Jobs |-> [n \in Incarnations |-> "Stop"]]
    /\ trigger = [j \in Jobs |-> Absent]
    /\ exec = [j \in Jobs |-> [n \in Incarnations |-> "none"]]
    /\ agents = [j \in Jobs |-> [n \in Incarnations |-> 0]]
    /\ orphan = [j \in Jobs |-> FALSE]
    /\ requests = 0 /\ crashes = 0

-----------------------------------------------------------------------------
(* update_job_metadata: the API's copy is replaced by the local one.  The  *)
(* document may be gone, and every exception is swallowed.                 *)
Push(j, d) ==
    \/ api' = [api EXCEPT ![j] = IF @.status = "gone" THEN @ ELSE d]
    \/ "api" \in Faults /\ UNCHANGED api

LockFree == pollPc # "spinning"

Instances(j) == {n \in Incarnations : exec[j][n] \in Pending}
Busy == {p \in Jobs \X Incarnations : exec[p[1]][p[2]] \in OnWorker}

-----------------------------------------------------------------------------
(* The poll.                                                               *)

Active  == {j \in Jobs : api[j].status \notin {"completed", "gone"}}
Rank(j) == Cardinality({i \in Active : i <= j})

PollStart ==
    /\ pollPc = "idle"
    /\ pollPc' = "fetching"
    /\ UNCHANGED <<api, offset, seen, todo, dropping, started, table, objVars, trigger, execVars, envVars>>

Page == {j \in Active : offset < Rank(j) /\ Rank(j) <= offset + PageSize}

\* Mutant of PollFetch: the offset is not advanced.
PollFetchSamePage ==
    /\ pollPc = "fetching"
    /\ seen' = [j \in Jobs |-> IF j \in Page THEN api[j] ELSE seen[j]]
    /\ IF Cardinality(Page) < PageSize
       THEN /\ pollPc' = "processing" /\ todo' = {j \in Jobs : seen'[j] # NoDoc}
       ELSE UNCHANGED <<pollPc, todo>>
    /\ UNCHANGED <<api, offset, dropping, started, table, objVars, trigger, execVars, envVars>>

\* One page of get_active_jobs_from_api; a short page is the last one.
PollFetch ==
    /\ pollPc = "fetching"
    /\ seen' = [j \in Jobs |-> IF j \in Page THEN api[j] ELSE seen[j]]
    /\ IF Cardinality(Page) < PageSize
       THEN /\ pollPc' = "processing" /\ offset' = 0
            /\ todo' = {j \in Jobs : seen'[j] # NoDoc}
       ELSE /\ offset' = offset + Cardinality(Page)
            /\ UNCHANGED <<pollPc, todo>>
    /\ UNCHANGED <<api, dropping, started, table, objVars, trigger, execVars, envVars>>

PollEnded ==
    /\ pollPc' = "idle"
    /\ offset' = 0 /\ seen' = [j \in Jobs |-> NoDoc] /\ todo' = {} /\ dropping' = {}

\* start() runs apscheduler once the first poll has returned.
PollReturns == PollEnded /\ started' = TRUE

\* An exception leaves poll: apscheduler logs it, or, from the first poll, the
\* daemon does, and calls start() again.
PollRaises == PollEnded /\ UNCHANGED started

PollFails ==
    /\ pollPc = "fetching" /\ "api" \in Faults
    /\ PollReturns
    /\ UNCHANGED <<api, table, objVars, trigger, execVars, envVars>>

NextListed(j) == pollPc = "processing" /\ j \in todo /\ \A i \in todo : j <= i

\* Mutant of Created: only a job without a status is started.
CreatedByStatus(d) ==
    [d EXCEPT !.event = IF @ # "" THEN @ ELSE IF d.status # "" THEN "stop" ELSE "start"]

\* Job.create: a job without an event is stopped or started by its status.
Created(d) ==
    [d EXCEPT !.event = IF @ # "" THEN @ ELSE IF d.status = "stop" THEN "stop" ELSE "start"]

PollCreate(j) ==
    /\ NextListed(j) /\ table[j] = Absent
    /\ \E n \in Incarnations :
        /\ exec[j][n] = "none"
        /\ \A m \in Incarnations : m < n => exec[j][m] # "none"
        /\ table' = [table EXCEPT ![j] = n]
        /\ doc' = [doc EXCEPT ![j][n] = Created(seen[j])]
        /\ state' = [state EXCEPT ![j][n] = "Stop"]
    /\ seen' = [seen EXCEPT ![j] = Created(@)]
    /\ UNCHANGED <<api, pollPc, offset, todo, dropping, started, trigger, execVars, envVars>>

\* An 'abort' event needs a current_pid; without one the poll dies here.
PollNoPid(j) ==
    /\ NextListed(j) /\ table[j] # Absent
    /\ seen[j].event = "abort" /\ ~seen[j].pid
    /\ PollRaises
    /\ UNCHANGED <<api, table, objVars, trigger, execVars, envVars>>

\* process_event has no branch for 'remove': it loops for ever, with the lock.
PollSpins(j) ==
    /\ NextListed(j) /\ table[j] # Absent
    /\ seen[j].event = "remove"
    /\ pollPc' = "spinning"
    /\ UNCHANGED <<api, offset, seen, todo, dropping, started, table, objVars, trigger, execVars, envVars>>

\* The head of process_event: event ev meets a Job object in state st.
\* terminate_subprocess, called before it for an abort, sends no signal:
\* psutil's name is a method, so name.startswith raises, and that is swallowed.
Dispatch(j, ev, st) ==
    /\ NextListed(j) /\ table[j] # Absent
    /\ seen[j].event = ev /\ (ev = "abort" => seen[j].pid)
    /\ state[j][table[j]] = st
    /\ todo' = todo \ {j}
    /\ UNCHANGED <<pollPc, offset, seen, dropping, started, table, execVars, envVars>>

SetDoc(j, n, d) == doc' = [doc EXCEPT ![j][n] = d]
SetState(j, n, s) == state' = [state EXCEPT ![j][n] = s]

NoEvent(j) ==
    /\ \E st \in JobStates : Dispatch(j, "", st)
    /\ UNCHANGED <<api, objVars, trigger>>

Stopped(d) == [d EXCEPT !.event = "", !.status = "stop"]

\* StopState.stop: adopt the fetched document as stopped, and report it.
TakeStopped(j) ==
    /\ SetDoc(j, table[j], Stopped(seen[j]))
    /\ Push(j, Stopped(seen[j]))

StopStateStop(j) ==
    /\ Dispatch(j, "stop", "Stop") \/ Dispatch(j, "abort", "Stop")
    /\ TakeStopped(j)
    /\ UNCHANGED <<state, trigger>>

\* ScheduledState.stop unschedules, then StopState.stop handles the event again.
ScheduledStateStop(j) ==
    /\ Dispatch(j, "stop", "Scheduled")
    /\ trigger' = [trigger EXCEPT ![j] = Absent]
    /\ SetState(j, table[j], "Stop")
    /\ TakeStopped(j)

\* ScheduledState.abort calls StopState.stop: it does not unschedule.
ScheduledStateAbort(j) ==
    /\ Dispatch(j, "abort", "Scheduled")
    /\ TakeStopped(j)
    /\ UNCHANGED <<state, trigger>>

\* StopState.start and Job.schedule; add_job is swallowed when the id is taken.
StopStateStart(j) ==
    LET n == table[j]
        d == [seen[j] EXCEPT !.event = "", !.status = "scheduled"]
    IN  /\ Dispatch(j, "start", "Stop") /\ j \notin BadArgs
        /\ trigger' = [trigger EXCEPT ![j] = IF @ = Absent THEN n ELSE @]
        /\ SetDoc(j, n, d)
        /\ SetState(j, n, "Scheduled")
        /\ Push(j, d)

\* A run date in the past: apscheduler submits, and forgets, the job before
\* schedule() asks whether it is scheduled.
StopStateStartDue(j) ==
    LET n == table[j]
        d == [seen[j] EXCEPT !.event = "", !.status = "completed"]
    IN  /\ "race" \in Faults /\ j \in Once /\ started
        /\ NextListed(j) /\ n # Absent /\ j \notin BadArgs
        /\ seen[j].event = "start" /\ state[j][n] = "Stop" /\ trigger[j] = Absent
        /\ todo' = todo \ {j}
        /\ IF Instances(j) = {}
           THEN exec' = [exec EXCEPT ![j][n] = "queued"]
           ELSE UNCHANGED exec
        /\ SetDoc(j, n, d)
        /\ Push(j, d)
        /\ UNCHANGED <<pollPc, offset, seen, dropping, started, table, state, trigger, agents, envVars>>

\* get_schedule_args raised: the log line after it raises again, out of poll.
PollBadArgs(j) ==
    /\ NextListed(j) /\ table[j] # Absent /\ j \in BadArgs
    /\ seen[j].event = "start" /\ state[j][table[j]] = "Stop"
    /\ SetDoc(j, table[j], Stopped(seen[j]))
    /\ PollRaises
    /\ UNCHANGED <<api, table, state, trigger, execVars, envVars>>

\* ScheduledState.start and RunningState.start: acknowledge with the old document.
OtherStateStart(j) ==
    LET n == table[j]
        d == [doc[j][n] EXCEPT !.event = ""]
    IN  /\ Dispatch(j, "start", "Scheduled") \/ Dispatch(j, "start", "Running")
        /\ SetDoc(j, n, d)
        /\ Push(j, d)
        /\ UNCHANGED <<state, trigger>>

\* Mutant of RunningStateStop: the stop is handled as in StopState.
RunningStateStopNow(j) ==
    /\ Dispatch(j, "stop", "Running")
    /\ TakeStopped(j)
    /\ UNCHANGED <<state, trigger>>

RunningStateStop(j) ==
    /\ Dispatch(j, "stop", "Running")
    /\ SetDoc(j, table[j], [doc[j][table[j]] EXCEPT !.event = "stop"])
    /\ UNCHANGED <<api, state, trigger>>

RunningStateAbort(j) ==
    LET d == [doc[j][table[j]] EXCEPT !.event = "abort"]
    IN  /\ Dispatch(j, "abort", "Running")
        /\ SetDoc(j, table[j], d)
        /\ Push(j, d)
        /\ UNCHANGED <<state, trigger>>

\* The second loop of poll visits the known jobs that the API did not list.
PollListed ==
    /\ pollPc = "processing" /\ todo = {}
    /\ pollPc' = "removing"
    /\ todo' = {j \in Jobs : table[j] # Absent /\ seen[j] = NoDoc}
    /\ UNCHANGED <<api, offset, seen, dropping, started, table, objVars, trigger, execVars, envVars>>

\* Mutant of Unschedule: remove_job is not called.
UnscheduleForgets(j, n, status) ==
    /\ UNCHANGED trigger
    /\ doc' = [doc EXCEPT ![j][n] = [@ EXCEPT !.event = "", !.status = status]]
    /\ SetState(j, n, "Stop")

\* Mutant of Unschedule: its caller's status is lost.
UnscheduleStops(j, n, status) ==
    /\ trigger' = [trigger EXCEPT ![j] = Absent]
    /\ doc' = [doc EXCEPT ![j][n] = [@ EXCEPT !.event = "", !.status = "stop"]]
    /\ SetState(j, n, "Stop")

\* Job.unschedule, with the status its caller sets next.
Unschedule(j, n, status) ==
    /\ trigger' = [trigger EXCEPT ![j] = Absent]
    /\ doc' = [doc EXCEPT ![j][n] = [@ EXCEPT !.event = "", !.status = status]]
    /\ SetState(j, n, "Stop")

PollRemove(j) ==
    LET n == table[j]
    IN  /\ pollPc = "removing" /\ j \in todo /\ n # Absent
        /\ IF state[j][n] = "Running"
           THEN /\ SetDoc(j, n, [doc[j][n] EXCEPT !.event = "remove"])
                /\ UNCHANGED <<state, trigger>>
           ELSE Unschedule(j, n, "removed")
        /\ todo' = todo \ {j}
        /\ UNCHANGED <<api, pollPc, offset, seen, dropping, started, table, execVars, envVars>>

\* Mutant of Removable: a removed job is dropped without waiting for its end.
RemovableNow(j) == table[j] # Absent /\ seen[j] = NoDoc

Removable(j) == table[j] # Absent /\ doc[j][table[j]].status = "removed"

\* remove_list is made without the lock: an execution that waits for it may
\* begin after the look at can_be_removed and before the pop.  The looks at the
\* jobs are one step: each commutes with whatever the other jobs do.
PollLook ==
    /\ pollPc = "removing" /\ todo = {}
    /\ pollPc' = "dropping"
    /\ dropping' = {j \in Jobs : Removable(j)}
    /\ UNCHANGED <<api, offset, seen, todo, started, table, objVars, trigger, execVars, envVars>>

PollPop ==
    /\ pollPc = "dropping"
    /\ table' = [j \in Jobs |-> IF j \in dropping THEN Absent ELSE table[j]]
    /\ PollReturns
    /\ UNCHANGED <<api, objVars, trigger, execVars, envVars>>

ProcessEvent(j) ==
    \/ NoEvent(j)
    \/ StopStateStop(j) \/ ScheduledStateStop(j) \/ ScheduledStateAbort(j)
    \/ StopStateStart(j) \/ StopStateStartDue(j) \/ OtherStateStart(j)
    \/ RunningStateStop(j) \/ RunningStateAbort(j)
    \/ PollBadArgs(j) \/ PollSpins(j)

Poll ==
    \/ PollStart \/ PollFetch \/ PollFails \/ PollListed \/ PollLook \/ PollPop
    \/ \E j \in Jobs :
        PollCreate(j) \/ PollNoPid(j) \/ ProcessEvent(j) \/ PollRemove(j)

-----------------------------------------------------------------------------
(* apscheduler: triggers, at most one instance of a job (max_instances), a *)
(* thread pool of Workers.                                                 *)

Fire(j) ==
    LET n == trigger[j]
    IN  /\ started /\ n # Absent
        /\ Instances(j) = {}
        /\ exec' = [exec EXCEPT ![j][n] = "queued"]
        /\ \/ j \notin Once /\ UNCHANGED trigger
           \/ j \in Once \cup Ending /\ trigger' = [trigger EXCEPT ![j] = Absent]
        /\ UNCHANGED <<api, pollVars, table, objVars, agents, envVars>>

\* The instance limit: this run is skipped, and a date trigger is used up.
FireSkipped(j) ==
    /\ started /\ trigger[j] # Absent
    /\ Instances(j) # {}
    /\ j \in Once \cup Ending
    /\ trigger' = [trigger EXCEPT ![j] = Absent]
    /\ UNCHANGED <<api, pollVars, table, objVars, execVars, envVars>>

Dequeue(j, n) ==
    /\ exec[j][n] = "queued"
    /\ Cardinality(Busy) < Workers
    /\ exec' = [exec EXCEPT ![j][n] = "waiting"]
    /\ UNCHANGED <<api, pollVars, table, objVars, trigger, agents, envVars>>

\* The workers were busy for longer than misfire_grace_time, or a date trigger
\* was added with a run date that long ago ...
Overdue(j, n) ==
    /\ "misfire" \in Faults
    /\ exec[j][n] = "queued"
    /\ j \in Once \/ Cardinality(Busy) >= Workers
    /\ exec' = [exec EXCEPT ![j][n] = "late"]
    /\ UNCHANGED <<api, pollVars, table, objVars, trigger, agents, envVars>>

\* ... so that the worker that takes the run drops it.
Misfire(j, n) ==
    /\ exec[j][n] = "late"
    /\ Cardinality(Busy) < Workers
    /\ exec' = [exec EXCEPT ![j][n] = "none"]
    /\ UNCHANGED <<api, pollVars, table, objVars, trigger, agents, envVars>>

-----------------------------------------------------------------------------
(* Job.execute, on a thread of the pool.                                   *)

ExecuteBegin(j, n) ==
    LET d == [doc[j][n] EXCEPT !.status = "running"]
    IN  /\ exec[j][n] = "waiting" /\ LockFree
        /\ exec' = [exec EXCEPT ![j][n] = "executing"]
        /\ SetState(j, n, "Running")
        /\ SetDoc(j, n, d)
        /\ Push(j, d)
        /\ UNCHANGED <<pollVars, table, trigger, agents, envVars>>

\* execute_job_action: Popen of the agent, then its pid is reported.
SpawnAgent(j, n) ==
    /\ exec[j][n] = "executing" /\ agents[j][n] < MaxAgents
    /\ exec' = [exec EXCEPT ![j][n] = "spawned"]
    /\ agents' = [agents EXCEPT ![j][n] = @ + 1]
    /\ UNCHANGED <<api, pollVars, table, objVars, trigger, envVars>>

ReportPid(j, n) ==
    LET d == [doc[j][n] EXCEPT !.pid = TRUE]
    IN  /\ exec[j][n] = "spawned"
        /\ exec' = [exec EXCEPT ![j][n] = "agent"]
        /\ SetDoc(j, n, d)
        /\ Push(j, d)
        /\ UNCHANGED <<pollVars, table, state, trigger, agents, envVars>>

AgentExits(j, n) ==
    /\ exec[j][n] = "agent"
    /\ exec' = [exec EXCEPT ![j][n] = "executing"]
    /\ UNCHANGED <<api, pollVars, table, objVars, trigger, agents, envVars>>

\* execute is over; apscheduler has yet to count its instance down.
ExecutionEnds(j, n) ==
    /\ exec' = [exec EXCEPT ![j][n] = "finished"]
    /\ agents' = [agents EXCEPT ![j][n] = 0]

InstanceEnds(j, n) ==
    /\ exec[j][n] = "finished"
    /\ exec' = [exec EXCEPT ![j][n] = "none"]
    /\ UNCHANGED <<api, pollVars, table, objVars, trigger, agents, envVars>>

\* Popen, the temporary file or the action's options raise: the exception
\* leaves execute and apscheduler logs it.
ExecuteRaises(j, n) ==
    /\ "spawn" \in Faults
    /\ exec[j][n] = "executing"
    /\ ExecutionEnds(j, n)
    /\ UNCHANGED <<api, pollVars, table, objVars, trigger, envVars>>

\* Mutant of StopRequested: an abort does not end the job.
StopOnlyRequested(d) == d.event = "stop"

StopRequested(d) == d.event \in {"stop", "abort"}

\* Mutant of LastRun: the end of the trigger goes unnoticed.
NeverLastRun(j) == FALSE

LastRun(j) == trigger[j] = Absent

\* finish(): its branches, in the order of the code.
Finish(j, n) ==
    LET d == doc[j][n]
        removing == d.event = "remove"
        last == ~removing /\ LastRun(j)
        ending == ~removing /\ ~last /\ StopRequested(d)
        completed == [d EXCEPT !.status = "completed"]
        again == [d EXCEPT !.status = "scheduled"]
    IN  /\ exec[j][n] = "executing" /\ LockFree
        /\ ExecutionEnds(j, n)
        /\ \/ removing /\ Unschedule(j, n, "removed") /\ UNCHANGED api
           \/ /\ last
              /\ SetDoc(j, n, completed) /\ SetState(j, n, "Stop")
              /\ Push(j, completed) /\ UNCHANGED trigger
           \/ ending /\ Unschedule(j, n, "completed") /\ Push(j, doc'[j][n])
           \/ /\ ~removing /\ ~last /\ ~ending
              /\ SetDoc(j, n, again) /\ SetState(j, n, "Scheduled")
              /\ Push(j, again) /\ UNCHANGED trigger
        /\ UNCHANGED <<pollVars, table, envVars>>

Execute(j, n) ==
    \/ Dequeue(j, n) \/ Overdue(j, n) \/ Misfire(j, n)
    \/ ExecuteBegin(j, n) \/ SpawnAgent(j, n) \/ ReportPid(j, n) \/ AgentExits(j, n)
    \/ ExecuteRaises(j, n) \/ Finish(j, n) \/ InstanceEnds(j, n)

-----------------------------------------------------------------------------
(* Users of the API, and crashes of the scheduler process.                 *)

Request(kind) ==
    /\ kind \in Requests /\ requests < MaxRequests
    /\ requests' = requests + 1
    /\ UNCHANGED <<pollVars, table, objVars, trigger, execVars, orphan, crashes>>

CreateJob(j) ==
    /\ Request("create") /\ api[j].status = "gone"
    /\ \E d \in Drafts : api' = [api EXCEPT ![j] = d]

StartJob(j) ==
    /\ Request("start") /\ api[j].status # "gone"
    /\ api' = [api EXCEPT ![j].event = "start", ![j].status = ""]

StopJob(j) ==
    /\ Request("stop") /\ j \in Active
    /\ api' = [api EXCEPT ![j].event = "stop"]

AbortJob(j) ==
    /\ Request("abort") /\ j \in Active
    /\ api' = [api EXCEPT ![j].event = "abort"]

DeleteJob(j) ==
    /\ Request("delete") /\ api[j].status # "gone"
    /\ api' = [api EXCEPT ![j] = NoDoc]

User(j) == CreateJob(j) \/ StartJob(j) \/ StopJob(j) \/ AbortJob(j) \/ DeleteJob(j)

\* The process dies and its memory with it; agents are processes of their own.
Crash ==
    /\ "crash" \in Faults /\ crashes < MaxCrashes
    /\ crashes' = crashes + 1
    /\ orphan' = [j \in Jobs |-> orphan[j] \/ \E n \in Incarnations : exec[j][n] \in AgentAlive]
    /\ pollPc' = "idle" /\ started' = FALSE
    /\ offset' = 0 /\ seen' = [j \in Jobs |-> NoDoc] /\ todo' = {} /\ dropping' = {}
    /\ table' = [j \in Jobs |-> Absent]
    /\ state' = [j \in Jobs |-> [n \in Incarnations |-> "Stop"]]
    /\ doc' = [j \in Jobs |-> [n \in Incarnations |-> NoDoc]]
    /\ trigger' = [j \in Jobs |-> Absent]
    /\ exec' = [j \in Jobs |-> [n \in Incarnations |-> "none"]]
    /\ agents' = [j \in Jobs |-> [n \in Incarnations |-> 0]]
    /\ UNCHANGED <<api, requests>>

OrphanExits(j) ==
    /\ orphan[j]
    /\ orphan' = [orphan EXCEPT ![j] = FALSE]
    /\ UNCHANGED <<api, pollVars, table, objVars, trigger, execVars, requests, crashes>>

-----------------------------------------------------------------------------
Next ==
    \/ Poll
    \/ \E j \in Jobs : Fire(j) \/ FireSkipped(j) \/ User(j) \/ OrphanExits(j)
    \/ \E j \in Jobs, n \in Incarnations : Execute(j, n)
    \/ Crash

Spec == Init /\ [][Next]_vars

(* The poll is an interval job with its own worker; triggers of a running  *)
(* apscheduler fire; the pool is a FIFO queue, so a queued run is passed   *)
(* over only finitely often (SF); the lock is held for finite sections.    *)
(* Nothing makes an agent exit.                                            *)
FairSpec ==
    /\ Spec
    /\ WF_vars(Poll)
    /\ \A j \in Jobs : WF_vars(Fire(j))
    /\ \A j \in Jobs, n \in Incarnations :
        /\ SF_vars(Dequeue(j, n) \/ Misfire(j, n))
        /\ WF_vars(ExecuteBegin(j, n))
        /\ WF_vars(SpawnAgent(j, n) \/ Finish(j, n))
        /\ WF_vars(ReportPid(j, n))
        /\ WF_vars(InstanceEnds(j, n))

\* The same, with agents that do not hang.
LiveSpec ==
    /\ FairSpec
    /\ \A j \in Jobs, n \in Incarnations : WF_vars(AgentExits(j, n))
-----------------------------------------------------------------------------
(* Safety.                                                                 *)

\* While execute runs between its two lock sections no event of the poll moves
\* the job out of RunningState or off the status 'running'.
RunningIsReal ==
    \A j \in Jobs, n \in Incarnations :
        exec[j][n] \in InProgress =>
            state[j][n] = "Running" /\ doc[j][n].status = "running"

\* apscheduler only ever holds the Job object that self.jobs knows, and that
\* object does not believe itself stopped: no backup starts behind the
\* scheduler's back when jobs are removed, created again and finish late.
OnlyKnownJobsFire ==
    \A j \in Jobs : trigger[j] # Absent =>
        trigger[j] = table[j] /\ state[j][trigger[j]] # "Stop"

\* poll decides to drop a Job object only when apscheduler no longer holds the
\* job and no agent of that object runs.  An execution that waited for the lock
\* may begin before the pop; but what is popped has no trigger, and an execution
\* left on it has no event by which its finish would unschedule the object that
\* is created in its place.
DropIsSafe ==
    [][/\ \A j \in dropping' \ dropping :
            trigger[j] = Absent /\ exec[j][table[j]] \notin InProgress
       /\ \A j \in Jobs : table[j] # Absent /\ table'[j] = Absent /\ crashes' = crashes =>
            /\ trigger[j] = Absent
            /\ exec[j][table[j]] # "none" => doc[j][table[j]].event = ""]_vars

\* An execution that ends with a stop, abort or removal requested leaves no
\* trigger behind, whichever branch of finish it takes.
EndedJobsStayEnded ==
    [][\A j \in Jobs, n \in Incarnations :
          /\ exec[j][n] = "executing" /\ exec'[j][n] = "finished"
          /\ doc[j][n].event \in {"stop", "abort", "remove"}
          => trigger'[j] = Absent /\ state'[j][n] = "Stop"]_vars

\* A known job in ScheduledState that nothing will execute any more: the API
\* shows it as scheduled, and only a stop and a start bring it back.
Stranded(j) ==
    LET n == table[j]
    IN  /\ n # Absent /\ state[j][n] = "Scheduled"
        /\ trigger[j] = Absent /\ exec[j][n] \notin {"queued", "late", "waiting"}

\* A job gets stranded in two ways only: its last run is due while an earlier
\* execution is still counted, and skipped, or its last run is dropped as late.
\* No event of the poll and no branch of finish does it.
ScheduledWillRun ==
    [][\A j \in Jobs : Stranded(j)' =>
          \/ Stranded(j)
          \/ trigger[j] # Absent /\ Instances(j) # {}
          \/ exec[j][table[j]] = "late"]_vars

-----------------------------------------------------------------------------
(* Liveness.                                                               *)

InExecution(j) == \E n \in Incarnations : exec[j][n] \in InProgress

\* No user has it stopped, aborted or deleted.
Wanted(j) == api[j] # NoDoc /\ api[j].event \notin {"stop", "abort"}

\* Every poll raises when it comes to this job.
Broken(i) ==
    \/ i \in BadArgs /\ api[i].event = "start"
    \/ api[i].event = "abort" /\ ~api[i].pid

\* No poll gets to job j: process_event never returns, or an earlier job raises.
OutOfReach(j) == pollPc = "spinning" \/ \E i \in Jobs : i < j /\ Broken(i)

\* A job that asks to be started is eventually executed (poll, Job.create,
\* StopState.start, the pool), also across a crash of the scheduler, unless a
\* job listed before it breaks every poll or process_event never returns.  A
\* poll that fetched the document before the request may overwrite it.
StartedJobsRun ==
    \A j \in Jobs \ BadArgs :
        api[j].event = "start" /\ seen[j] \in {NoDoc, api[j]} ~>
            InExecution(j) \/ ~Wanted(j) \/ OutOfReach(j)

\* The API did not list the job, deleted or pushed off its page by the end of
\* another job, and the second loop of poll removes it.
Unlisted(j) == pollPc = "removing" /\ j \in todo

\* A recurring job that nobody stops is executed again and again, also across
\* a crash of the scheduler, as long as polls get to it and list it: one that
\* paging overlooks while its execution waits for the lock ends as completed.
RecurringJobsRecur ==
    \A j \in Jobs \ (Once \cup Ending \cup BadArgs) :
        [](Wanted(j) /\ ~OutOfReach(j) /\ ~Unlisted(j)) =>
            (table[j] # Absent ~> []<>InExecution(j))

\* A job deleted for good leaves self.jobs, apscheduler and the pool, as long
\* as polls get as far as their second loop.
DeletedJobsAreForgotten ==
    \A j \in Jobs :
        <>[](api[j] = NoDoc /\ pollPc # "spinning" /\ \A i \in Jobs : ~Broken(i)) =>
            <>[](table[j] = Absent /\ trigger[j] = Absent /\ Instances(j) = {})

\* Every poll ends, unless process_event meets the event it has no branch for
\* ('remove', which gets into a document when paging overlooks a running job);
\* then the lock that all executions need is held for ever.
PollEnds == []<>(pollPc = "idle") \/ <>[](pollPc = "spinning")
=============================================================================
