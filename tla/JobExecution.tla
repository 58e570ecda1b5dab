---------------------------- MODULE JobExecution ----------------------------
(***************************************************************************)
(* One execution of a job by a scheduler (Job.execute): the session is     *)
(* started, the actions are run one after the other, each by agents until  *)
(* one succeeds, and the session is ended with the result.  The jobs of a  *)
(* session are on several hosts.  The API, which keeps the session, is     *)
(* external: a job that sends the current tag starts a session of its own, *)
(* one that sends an older one joins, and only the current tag ends.  When *)
(* an execution begins, and what it does to the schedule of its job, is in *)
(* Scheduler.                                                              *)
(***************************************************************************)
EXTENDS Naturals, Sequences, FiniteSets

CONSTANTS
    Jobs,        \* of one session
    Plans,       \* of each job, the lists of actions that its document may have
    Refusals,    \* the sets of jobs that may contain an exec action, where --disable-exec is set
    Brief,       \* bound: jobs that are executed once
    MaxRetries,  \* of an action
    Tries,       \* of a call to start or to end the session (5 in the code)
    MaxRuns,     \* bound: executions of a job
    MaxFaults    \* bound: calls that are lost, agents that cannot be spawned or read

Action == [mandatory : BOOLEAN, retries : 0..MaxRetries]

ASSUME ExecutionConstants ==
    /\ IsFiniteSet(Jobs) /\ Brief \subseteq Jobs
    /\ Plans \in [Jobs -> SUBSET Seq(Action)] /\ Refusals \subseteq SUBSET Jobs
    /\ MaxRetries \in Nat /\ MaxFaults \in Nat
    /\ Tries \in Nat \ {0} /\ MaxRuns \in Nat \ {0}

Results == {"success", "fail", "aborted"}
Fates   == Results \cup {"waiting", "skipped"}

VARIABLES
    plan,      \* the actions of each job
    refused,   \* jobs that contain an exec action, where --disable-exec is set
    run,       \* of each job, its execution
    config,    \* configuration files of agents on the host of a job
    lost,      \* executions that ended with an exception
    current,   \* the tag of the session in the API
    started,   \* executions the API was told of: [job, run, tag]
    ended,     \* those it was told the result of: [job, run, tag, result]
    faults

vars == <<plan, refused, run, config, lost, current, started, ended, faults>>
host == <<plan, refused, config, lost>>
api  == <<current, started, ended>>

\* calls: tries left to start or end the session; tries: of the action; fate: what became
\* of each action; tag: session_tag of the job document.
Execution ==
    [pc : {"idle", "start", "next", "spawn", "agent", "end"}, number : 0..MaxRuns,
     calls : 0..Tries, action : Nat, tries : 0..MaxRetries + 1,
     result : Results, tag : Nat, fate : Seq(Fates)]

TypeOK ==
    /\ run \in [Jobs -> Execution]
    /\ \A j \in Jobs : plan[j] \in Plans[j] /\ DOMAIN run[j].fate = DOMAIN plan[j]
    /\ refused \subseteq Jobs /\ config \in [Jobs -> Nat] /\ lost \subseteq Jobs \X (1..MaxRuns)
    /\ current \in Nat
    /\ \A s \in started \cup ended : s.job \in Jobs /\ s.run \in 1..MaxRuns /\ s.tag \in 0..current

Init ==
    /\ plan \in {f \in [Jobs -> UNION {Plans[j] : j \in Jobs}] : \A j \in Jobs : f[j] \in Plans[j]}
    /\ refused \in Refusals
    /\ run = [j \in Jobs |->
                 [pc |-> "idle", number |-> 0, calls |-> 0, action |-> 1, tries |-> 0,
                  result |-> "success", tag |-> 0,
                  fate |-> [a \in DOMAIN plan[j] |-> "waiting"]]]
    /\ config = [j \in Jobs |-> 0] /\ lost = {}
    /\ current = 0 /\ started = {} /\ ended = {} /\ faults = 0

-----------------------------------------------------------------------------
At(j, pc) == run[j].pc = pc

Execute(j) ==
    /\ At(j, "idle") /\ run[j].number < (IF j \in Brief THEN 1 ELSE MaxRuns)
    /\ run' = [run EXCEPT ![j].pc = "start", ![j].number = @ + 1, ![j].calls = Tries]
    /\ UNCHANGED <<host, api, faults>>

\* execute returns, or is left by an exception; what was local to it is no more.
Leave(j) ==
    run' = [run EXCEPT
        ![j].pc = "idle", ![j].calls = 0, ![j].action = 1, ![j].tries = 0,
        ![j].result = "success", ![j].fate = [a \in DOMAIN plan[j] |-> "waiting"]]

\* The API starts a session of the next tag, or lets the job join that of the current.
TagFor(j) == IF run[j].tag = current THEN current + 1 ELSE current

\* Mutant of Prepared: a job that is refused returns without finish.
PreparedReturns(j) == IF j \in refused THEN "idle" ELSE "next"

\* What comes after the session is started, or cannot be: nothing, if the job is refused.
Prepared(j) == IF j \in refused THEN "end" ELSE "next"

\* execute: the job runs, or fails because exec is disabled.
Opened(j, tag) ==
    run' = [run EXCEPT
        ![j].pc = Prepared(j), ![j].calls = Tries, ![j].tag = tag,
        ![j].result = IF j \in refused THEN "fail" ELSE "success"]

\* start_session, a call that is answered.
StartSession(j) ==
    /\ At(j, "start") /\ run[j].calls > 0
    /\ current' = TagFor(j)
    /\ started' = started \cup {[job |-> j, run |-> run[j].number, tag |-> TagFor(j)]}
    /\ Opened(j, TagFor(j))
    /\ UNCHANGED <<host, ended, faults>>

\* A call is lost, or its answer is; the API may have done what it was asked.
StartIsLost(j) ==
    /\ At(j, "start") /\ run[j].calls > 0 /\ faults < MaxFaults
    /\ faults' = faults + 1
    /\ run' = [run EXCEPT ![j].calls = @ - 1]
    /\ \/ UNCHANGED api
       \/ /\ current' = TagFor(j)
          /\ started' = started \cup {[job |-> j, run |-> run[j].number, tag |-> TagFor(j)]}
          /\ UNCHANGED ended
    /\ UNCHANGED host

\* Unable to start the session: the job is executed all the same, with its old tag.
StartGivesUp(j) ==
    /\ At(j, "start") /\ run[j].calls = 0
    /\ Opened(j, run[j].tag)
    /\ UNCHANGED <<host, api, faults>>

-----------------------------------------------------------------------------
Now(j) == plan[j][run[j].action]

NextAction(j) ==
    /\ At(j, "next") /\ run[j].action \in DOMAIN plan[j]
    /\ run' = IF Now(j).mandatory \/ run[j].result = "success"
              THEN [run EXCEPT ![j].pc = "spawn", ![j].tries = Now(j).retries + 1]
              ELSE [run EXCEPT ![j].action = @ + 1, ![j].fate[run[j].action] = "skipped"]
    /\ UNCHANGED <<host, api, faults>>

NoMoreActions(j) ==
    /\ At(j, "next") /\ run[j].action \notin DOMAIN plan[j]
    /\ run' = [run EXCEPT ![j].pc = "end"]
    /\ UNCHANGED <<host, api, faults>>

\* execute_job_action: the action is written to a file, and an agent spawned to do it.
Spawn(j) ==
    /\ At(j, "spawn")
    /\ config' = [config EXCEPT ![j] = @ + 1]
    /\ run' = [run EXCEPT ![j].pc = "agent"]
    /\ UNCHANGED <<plan, refused, lost, api, faults>>

\* The file cannot be written or the agent not be spawned: the exception leaves execute,
\* nobody deletes the file, and nobody ends the session.
SpawnRaises(j) ==
    /\ At(j, "spawn") /\ faults < MaxFaults
    /\ faults' = faults + 1
    /\ config' = [config EXCEPT ![j] = @ + 1]
    /\ lost' = lost \cup {<<j, run[j].number>>}
    /\ Leave(j)
    /\ UNCHANGED <<plan, refused, api>>

\* What the agent wrote is no text: communicate raises, before the file is deleted.
OutputRaises(j) ==
    /\ At(j, "agent") /\ faults < MaxFaults
    /\ faults' = faults + 1
    /\ lost' = lost \cup {<<j, run[j].number>>}
    /\ Leave(j)
    /\ UNCHANGED <<plan, refused, config, api>>

\* Mutant of Concluded: the result of the job is that of its last action.
ConcludedLast(j, result) ==
    run' = [run EXCEPT
        ![j].pc = "next", ![j].action = @ + 1, ![j].fate[run[j].action] = result,
        ![j].result = result]

\* The result of the action: a success does not change that of the job.
Concluded(j, result) ==
    run' = [run EXCEPT
        ![j].pc = "next", ![j].action = @ + 1, ![j].fate[run[j].action] = result,
        ![j].result = IF result = "success" THEN @ ELSE result]

\* Mutant of AgentEnds: the file of an agent that will be tried again is kept.
AgentEndsKeepingFile(j) ==
    /\ At(j, "agent")
    /\ config' = [config EXCEPT ![j] = IF run[j].tries > 1 THEN @ ELSE @ - 1]
    /\ UNCHANGED <<plan, refused, lost, api, faults>>

\* communicate returns and the file is deleted, whatever the exit code of the agent.
AgentEnds(j) ==
    /\ At(j, "agent")
    /\ config' = [config EXCEPT ![j] = @ - 1]
    /\ UNCHANGED <<plan, refused, lost, api, faults>>

AgentSucceeds(j) == AgentEnds(j) /\ Concluded(j, "success")

\* SIGTERM: the action is not tried again.
AgentTerminated(j) == AgentEnds(j) /\ Concluded(j, "aborted")

\* Any other exit code, SIGKILL included.
AgentFails(j) ==
    /\ AgentEnds(j)
    /\ IF run[j].tries > 1
       THEN run' = [run EXCEPT ![j].pc = "spawn", ![j].tries = @ - 1]
       ELSE Concluded(j, "fail")

-----------------------------------------------------------------------------
Report(j) == [job |-> j, run |-> run[j].number, tag |-> run[j].tag, result |-> run[j].result]

\* end_session, a call that is answered.  The API takes a result for the current tag.
EndSession(j) ==
    /\ At(j, "end") /\ run[j].calls > 0 /\ run[j].tag = current
    /\ ended' = ended \cup {Report(j)}
    /\ Leave(j)
    /\ UNCHANGED <<host, current, started, faults>>

EndRefused(j) ==
    /\ At(j, "end") /\ run[j].calls > 0 /\ run[j].tag # current
    /\ run' = [run EXCEPT ![j].calls = @ - 1]
    /\ UNCHANGED <<host, api, faults>>

EndIsLost(j) ==
    /\ At(j, "end") /\ run[j].calls > 0 /\ faults < MaxFaults
    /\ faults' = faults + 1
    /\ run' = [run EXCEPT ![j].calls = @ - 1]
    /\ ended' \in {ended} \cup IF run[j].tag = current THEN {ended \cup {Report(j)}} ELSE {}
    /\ UNCHANGED <<host, current, started>>

EndGivesUp(j) ==
    /\ At(j, "end") /\ run[j].calls = 0
    /\ Leave(j)
    /\ UNCHANGED <<host, api, faults>>

-----------------------------------------------------------------------------
Proceed(j) ==
    \/ StartSession(j) \/ StartGivesUp(j)
    \/ NextAction(j) \/ NoMoreActions(j) \/ Spawn(j)
    \/ AgentSucceeds(j) \/ AgentTerminated(j) \/ AgentFails(j)
    \/ EndSession(j) \/ EndRefused(j) \/ EndGivesUp(j)

Fault(j) == StartIsLost(j) \/ SpawnRaises(j) \/ OutputRaises(j) \/ EndIsLost(j)

Next == \E j \in Jobs : Execute(j) \/ Proceed(j) \/ Fault(j)

Spec == Init /\ [][Next]_vars

\* An execution that has begun goes on, and every agent ends.
LiveSpec == Spec /\ \A j \in Jobs : WF_vars(Proceed(j))

-----------------------------------------------------------------------------
Fate(j, a) == run[j].fate[a]

\* The result that finish reports says what became of the actions: success if each of
\* them succeeded, otherwise how the last of those ended that did not.  Mandatory
\* actions were all run, others up to the first that did not succeed.
ResultTellsActions ==
    \A j \in Jobs \ refused : At(j, "end") =>
        LET bad == {a \in DOMAIN plan[j] : Fate(j, a) \in {"fail", "aborted"}}
        IN  /\ IF bad = {} THEN run[j].result = "success"
               ELSE \E a \in bad : run[j].result = Fate(j, a) /\ \A b \in bad : b <= a
            /\ \A a \in DOMAIN plan[j] :
                   IF plan[j][a].mandatory \/ \A b \in bad : b >= a
                   THEN Fate(j, a) \in Results ELSE Fate(j, a) = "skipped"

\* Configuration files, with the credentials in them, are those of agents that run, and
\* of executions that ended with an exception.
ConfigsAreGone ==
    TypeOK /\ \A j \in Jobs :
        config[j] = Cardinality({e \in lost : e[1] = j}) + (IF At(j, "agent") THEN 1 ELSE 0)

\* The session learns the result of an execution that it was told of, unless an exception
\* ended that, another session was started in between, or calls failed as often as they
\* are tried.
ResultsArrive ==
    \A j \in Jobs, n \in 1..MaxRuns :
        LET known == {s \in started : s.job = j /\ s.run = n}
        IN  known # {} ~>
                \/ \E e \in ended : e.job = j /\ e.run = n
                \/ <<j, n>> \in lost \/ faults >= Tries
                \/ \E s \in known : current > s.tag
=============================================================================
