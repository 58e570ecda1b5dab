------------------------- MODULE JobExecutionProofs -------------------------
(***************************************************************************)
(* JobExecution for every set of jobs, any number of tries, executions and *)
(* faults: what finish reports is what became of the actions, and no       *)
(* configuration file is forgotten unless an exception has left execute.   *)
(*                                                                         *)
(* The argument for the result: it was success as long as no action has    *)
(* failed, and afterwards it is the fate of the last one that did, for an  *)
(* action that comes later and fails is the last one (Follows).            *)
(***************************************************************************)
EXTENDS JobExecution, FiniteSetTheorems, TLAPS

Unsuccessful == {"fail", "aborted"}

\* The result so far, of an execution whose local state is r.
ResultFollows(r) ==
    IF \A a \in DOMAIN r.fate : r.fate[a] \notin Unsuccessful THEN r.result = "success"
    ELSE \E a \in DOMAIN r.fate :
             /\ r.fate[a] \in Unsuccessful /\ r.result = r.fate[a]
             /\ \A b \in DOMAIN r.fate : r.fate[b] \in Unsuccessful => b <= a

\* An action of plan p was run if it is mandatory or none before it was unsuccessful.
RunOrSkipped(p, r, a) ==
    IF p[a].mandatory \/ \A b \in DOMAIN r.fate : r.fate[b] \in Unsuccessful => b >= a
    THEN r.fate[a] \in Results ELSE r.fate[a] = "skipped"

Follows(p, r) ==
    /\ ResultFollows(r)
    /\ \A a \in DOMAIN p : IF a < r.action THEN RunOrSkipped(p, r, a) ELSE r.fate[a] = "waiting"
    /\ r.pc \in {"idle", "start"} => r.action = 1
    /\ r.pc \in {"spawn", "agent"} =>
           r.action \in DOMAIN p /\ (p[r.action].mandatory \/ r.result = "success")
    /\ r.pc = "end" => r.action \notin DOMAIN p
    /\ r.action - 1 \in {0} \cup DOMAIN p

ResultsFollow == \A j \in Jobs \ refused : Follows(plan[j], run[j])

\* A job that is refused runs nothing.
Refused ==
    \A j \in refused \cap Jobs :
        run[j].pc \notin {"next", "spawn", "agent"}

Lost(j) == {e \in lost : e[1] = j}

Configs ==
    /\ IsFiniteSet(lost)
    /\ \A j \in Jobs :
        /\ config[j] = Cardinality(Lost(j)) + (IF At(j, "agent") THEN 1 ELSE 0)
        /\ \A n \in 1..MaxRuns : <<j, n>> \in lost =>
               n < run[j].number \/ (n = run[j].number /\ At(j, "idle"))
        /\ At(j, "idle") \/ run[j].number > 0
        /\ run[j].pc \in {"spawn", "agent"} => run[j].tries > 0

IInv == TypeOK /\ ResultsFollow /\ Refused /\ Configs

-----------------------------------------------------------------------------
LEMMA PlanFacts ==
    ASSUME TypeOK, NEW j \in Jobs
    PROVE  /\ plan[j] \in Seq(Action)
           /\ \A a \in DOMAIN plan[j] : plan[j][a].retries \in 0..MaxRetries
<1>1. plan[j] \in Seq(Action)
      BY ExecutionConstants DEF TypeOK
<1>2. \A a \in DOMAIN plan[j] : plan[j][a] \in Action
      BY <1>1
<1> QED BY <1>1, <1>2 DEF Action

\* The fields of the local state of an execution.
LEMMA RunFacts ==
    ASSUME TypeOK, NEW j \in Jobs
    PROVE  /\ run[j].pc \in {"idle", "start", "next", "spawn", "agent", "end"}
           /\ run[j].number \in 0..MaxRuns /\ run[j].calls \in 0..Tries
           /\ run[j].action \in Nat /\ run[j].tries \in 0..MaxRetries + 1
           /\ run[j].result \in Results /\ run[j].tag \in Nat
           /\ run[j].fate \in [DOMAIN plan[j] -> Fates]
<1>1. run[j] \in Execution /\ DOMAIN run[j].fate = DOMAIN plan[j]
      BY DEF TypeOK
<1> QED BY <1>1 DEF Execution

-----------------------------------------------------------------------------
(* Each action, by the local state of j that it leads to.                  *)

Becomes(j, pc, number, calls, action, tries, result, tag, fate) ==
    /\ \A i \in Jobs \ {j} : run'[i] = run[i]
    /\ run'[j].pc = pc /\ run'[j].number = number /\ run'[j].calls = calls
    /\ run'[j].action = action /\ run'[j].tries = tries /\ run'[j].result = result
    /\ run'[j].tag = tag /\ run'[j].fate = fate
    /\ run' \in [Jobs -> Execution] /\ DOMAIN run'[j].fate = DOMAIN plan[j]

LEMMA BecomesIf ==
    ASSUME TypeOK, NEW j \in Jobs, NEW r \in Execution, DOMAIN r.fate = DOMAIN plan[j],
           run' = [run EXCEPT ![j] = r]
    PROVE  Becomes(j, r.pc, r.number, r.calls, r.action, r.tries, r.result, r.tag, r.fate)
<1>1. run \in [Jobs -> Execution]
      BY DEF TypeOK
<1> QED BY <1>1 DEF Becomes

LEMMA Begun ==
    ASSUME TypeOK, NEW j \in Jobs, Execute(j)
    PROVE  Becomes(j, "start", run[j].number + 1, Tries, run[j].action, run[j].tries,
                   run[j].result, run[j].tag, run[j].fate)
<1>1. run \in [Jobs -> Execution]
      BY DEF TypeOK
<1>2. run[j].number + 1 \in 0..MaxRuns /\ Tries \in 0..Tries
  <2>1. run[j].number < MaxRuns
        BY RunFacts, ExecutionConstants DEF Execute
  <2> HIDE DEF Execute
  <2> QED BY <2>1, RunFacts, ExecutionConstants
<1>3. run' = [run EXCEPT ![j].pc = "start", ![j].number = @ + 1, ![j].calls = Tries]
      BY DEF Execute
<1> QED BY <1>1, <1>2, <1>3, RunFacts DEF Becomes, Execution

LEMMA Left ==
    ASSUME TypeOK, NEW j \in Jobs, Leave(j)
    PROVE  Becomes(j, "idle", run[j].number, 0, 1, 0, "success", run[j].tag,
                   [a \in DOMAIN plan[j] |-> "waiting"])
<1>1. run \in [Jobs -> Execution]
      BY DEF TypeOK
<1>2. [a \in DOMAIN plan[j] |-> "waiting"] \in Seq(Fates)
      BY PlanFacts DEF Fates
<1>3. 0 \in 0..Tries /\ 1 \in Nat /\ 0 \in 0..MaxRetries + 1 /\ "success" \in Results
      BY ExecutionConstants DEF Results
<1>4. DOMAIN [a \in DOMAIN plan[j] |-> "waiting"] = DOMAIN plan[j]
      OBVIOUS
<1> DEFINE anew == [a \in DOMAIN plan[j] |-> "waiting"]
<1>5. run' = [run EXCEPT ![j].pc = "idle", ![j].calls = 0, ![j].action = 1, ![j].tries = 0,
                         ![j].result = "success", ![j].fate = anew]
      BY DEF Leave
<1>6. anew \in Seq(Fates) /\ DOMAIN anew = DOMAIN plan[j]
      BY <1>2, <1>4
<1> HIDE DEF anew
<1> DEFINE r == [run[j] EXCEPT !.pc = "idle", !.calls = 0, !.action = 1, !.tries = 0,
                               !.result = "success", !.fate = anew]
<1>7. run' = [run EXCEPT ![j] = r]
      BY <1>1, <1>5
<1>8. /\ r.pc = "idle" /\ r.number = run[j].number /\ r.calls = 0 /\ r.action = 1
      /\ r.tries = 0 /\ r.result = "success" /\ r.tag = run[j].tag /\ r.fate = anew
      BY <1>1 DEF Execution
<1>9. r \in Execution
      BY <1>1, <1>3, <1>6 DEF Execution
<1> HIDE DEF r
<1>10. Becomes(j, "idle", run[j].number, 0, 1, 0, "success", run[j].tag, anew)
      BY <1>6, <1>7, <1>8, <1>9, BecomesIf
<1> QED BY <1>10 DEF anew

LEMMA SessionOpened ==
    ASSUME TypeOK, NEW j \in Jobs, NEW tag \in Nat, Opened(j, tag)
    PROVE  Becomes(j, Prepared(j), run[j].number, Tries, run[j].action, run[j].tries,
                   IF j \in refused THEN "fail" ELSE "success", tag, run[j].fate)
<1>1. run \in [Jobs -> Execution]
      BY DEF TypeOK
<1>2. Tries \in 0..Tries
      BY ExecutionConstants
<1>3. Prepared(j) \in {"end", "next"} /\ (IF j \in refused THEN "fail" ELSE "success") \in Results
      BY DEF Prepared, Results
<1> DEFINE pc == Prepared(j)
           result == IF j \in refused THEN "fail" ELSE "success"
<1>4. run' = [run EXCEPT ![j].pc = pc, ![j].calls = Tries, ![j].tag = tag, ![j].result = result]
      BY DEF Opened
<1>5. pc \in {"idle", "start", "next", "spawn", "agent", "end"} /\ result \in Results
      BY <1>3
<1> HIDE DEF pc, result
<1> DEFINE r == [run[j] EXCEPT !.pc = pc, !.calls = Tries, !.tag = tag, !.result = result]
<1>6. run' = [run EXCEPT ![j] = r]
      BY <1>1, <1>4
<1>7. /\ r.pc = pc /\ r.number = run[j].number /\ r.calls = Tries
      /\ r.action = run[j].action /\ r.tries = run[j].tries /\ r.result = result
      /\ r.tag = tag /\ r.fate = run[j].fate
      BY <1>1 DEF Execution
<1>8. r \in Execution
      BY <1>1, <1>2, <1>5 DEF Execution
<1> HIDE DEF r
<1>9. Becomes(j, pc, run[j].number, Tries, run[j].action, run[j].tries, result, tag, run[j].fate)
      BY <1>6, <1>7, <1>8, BecomesIf, RunFacts
<1> QED BY <1>9 DEF pc, result

LEMMA CallMissed ==
    ASSUME TypeOK, NEW j \in Jobs, run[j].calls > 0, run' = [run EXCEPT ![j].calls = @ - 1]
    PROVE  Becomes(j, run[j].pc, run[j].number, run[j].calls - 1, run[j].action, run[j].tries,
                   run[j].result, run[j].tag, run[j].fate)
<1>1. run \in [Jobs -> Execution]
      BY DEF TypeOK
<1>2. run[j].calls - 1 \in 0..Tries
      BY RunFacts, ExecutionConstants
<1> QED BY <1>1, <1>2, RunFacts DEF Becomes, Execution

\* The action of j that is at hand gets its fate, and the next one is at hand.
LEMMA ActionConcluded ==
    ASSUME TypeOK, NEW j \in Jobs, NEW result \in Results, Concluded(j, result),
           run[j].action \in DOMAIN plan[j]
    PROVE  Becomes(j, "next", run[j].number, run[j].calls, run[j].action + 1, run[j].tries,
                   IF result = "success" THEN run[j].result ELSE result, run[j].tag,
                   [run[j].fate EXCEPT ![run[j].action] = result])
<1>1. run \in [Jobs -> Execution]
      BY DEF TypeOK
<1>2. run[j].action + 1 \in Nat
      BY RunFacts, PlanFacts
<1>3. [run[j].fate EXCEPT ![run[j].action] = result] \in Seq(Fates)
      BY RunFacts, PlanFacts DEF Fates
<1>4. (IF result = "success" THEN run[j].result ELSE result) \in Results
      BY RunFacts
<1> QED BY <1>1, <1>2, <1>3, <1>4, RunFacts DEF Becomes, Execution, Concluded

LEMMA ActionSkipped ==
    ASSUME TypeOK, NEW j \in Jobs, run[j].action \in DOMAIN plan[j],
           run' = [run EXCEPT ![j].action = @ + 1, ![j].fate[run[j].action] = "skipped"]
    PROVE  Becomes(j, run[j].pc, run[j].number, run[j].calls, run[j].action + 1, run[j].tries,
                   run[j].result, run[j].tag, [run[j].fate EXCEPT ![run[j].action] = "skipped"])
<1>1. run \in [Jobs -> Execution]
      BY DEF TypeOK
<1>2. run[j].action + 1 \in Nat
      BY RunFacts, PlanFacts
<1>3. [run[j].fate EXCEPT ![run[j].action] = "skipped"] \in Seq(Fates)
      BY RunFacts, PlanFacts DEF Fates
<1> DEFINE fate == [run[j].fate EXCEPT ![run[j].action] = "skipped"]
<1>4. fate \in Seq(Fates) /\ DOMAIN fate = DOMAIN plan[j]
      BY <1>3, RunFacts
<1>5. run' = [run EXCEPT ![j].action = @ + 1, ![j].fate = fate]
      BY <1>1
<1> HIDE DEF fate
<1> DEFINE r == [run[j] EXCEPT !.action = @ + 1, !.fate = fate]
<1>6. run' = [run EXCEPT ![j] = r]
      BY <1>1, <1>5
<1>7. /\ r.pc = run[j].pc /\ r.number = run[j].number /\ r.calls = run[j].calls
      /\ r.action = run[j].action + 1 /\ r.tries = run[j].tries
      /\ r.result = run[j].result /\ r.tag = run[j].tag /\ r.fate = fate
      BY <1>1 DEF Execution
<1>8. r \in Execution
      BY <1>1, <1>2, <1>4 DEF Execution
<1> HIDE DEF r
<1>9. Becomes(j, r.pc, r.number, r.calls, r.action, r.tries, r.result, r.tag, r.fate)
      BY <1>4, <1>6, <1>7, <1>8, BecomesIf
<1>10. Becomes(j, run[j].pc, run[j].number, run[j].calls, run[j].action + 1, run[j].tries,
               run[j].result, run[j].tag, fate)
      BY <1>7, <1>9
<1> QED BY <1>10 DEF fate

LEMMA MovesTo ==
    ASSUME TypeOK, NEW j \in Jobs, NEW pc \in {"agent", "end"}, run' = [run EXCEPT ![j].pc = pc]
    PROVE  Becomes(j, pc, run[j].number, run[j].calls, run[j].action, run[j].tries,
                   run[j].result, run[j].tag, run[j].fate)
<1>1. run \in [Jobs -> Execution]
      BY DEF TypeOK
<1> QED BY <1>1, RunFacts DEF Becomes, Execution

LEMMA IsToBeTried ==
    ASSUME TypeOK, NEW j \in Jobs, NEW n \in 0..MaxRetries + 1,
           run' = [run EXCEPT ![j].pc = "spawn", ![j].tries = n]
    PROVE  Becomes(j, "spawn", run[j].number, run[j].calls, run[j].action, n,
                   run[j].result, run[j].tag, run[j].fate)
<1>1. run \in [Jobs -> Execution]
      BY DEF TypeOK
<1> QED BY <1>1, RunFacts DEF Becomes, Execution

-----------------------------------------------------------------------------
(* The result follows the fates, whatever becomes of an action.            *)

\* Only the program counter changes: r becomes s.
LEMMA FollowsStill ==
    ASSUME NEW p, NEW r, NEW s, Follows(p, r),
           s.fate = r.fate, s.action = r.action, s.result = r.result,
           s.pc \in {"idle", "start"} => s.action = 1,
           s.pc \in {"spawn", "agent"} =>
               s.action \in DOMAIN p /\ (p[s.action].mandatory \/ s.result = "success"),
           s.pc = "end" => s.action \notin DOMAIN p
    PROVE  Follows(p, s)
BY DEF Follows, ResultFollows, RunOrSkipped

\* Nothing was run yet.
LEMMA FollowsAtFirst ==
    ASSUME NEW p \in Seq(Action), NEW s, s.action = 1, s.result = "success",
           s.fate = [a \in DOMAIN p |-> "waiting"], s.pc \in {"idle", "start", "next"}
    PROVE  Follows(p, s)
BY DEF Follows, ResultFollows, RunOrSkipped, Unsuccessful

LEMMA FollowsConcluded ==
    ASSUME NEW p \in Seq(Action), NEW r, NEW s, NEW result \in Results, Follows(p, r),
           r.fate \in [DOMAIN p -> Fates], r.pc \in {"spawn", "agent"},
           s.pc = "next", s.action = r.action + 1,
           s.fate = [r.fate EXCEPT ![r.action] = result],
           s.result = IF result = "success" THEN r.result ELSE result
    PROVE  Follows(p, s)
<1>1. PICK n \in Nat : n = r.action /\ n \in DOMAIN p
      BY DEF Follows
<1>2. \A a \in DOMAIN p : a >= n => r.fate[a] = "waiting"
      BY <1>1 DEF Follows
<1>3. /\ DOMAIN s.fate = DOMAIN p /\ s.fate[n] = result
      /\ \A a \in DOMAIN p \ {n} : s.fate[a] = r.fate[a]
      BY <1>1
<1>4. ResultFollows(s)
      BY <1>1, <1>2, <1>3 DEF Follows, ResultFollows, Results, Unsuccessful
<1>5. ASSUME NEW a \in DOMAIN p
      PROVE  IF a < s.action THEN RunOrSkipped(p, s, a) ELSE s.fate[a] = "waiting"
  <2>1. CASE a < n
        BY <1>1, <1>2, <1>3, <2>1 DEF Follows, RunOrSkipped
  <2>2. CASE a = n
        BY <1>1, <1>2, <1>3, <2>2 DEF Follows, RunOrSkipped, ResultFollows, Unsuccessful
  <2>3. CASE a > n
        BY <1>1, <1>2, <1>3, <2>3
  <2> QED BY <1>1, <2>1, <2>2, <2>3
<1> QED BY <1>1, <1>4, <1>5 DEF Follows

LEMMA FollowsSkipped ==
    ASSUME NEW p \in Seq(Action), NEW r, NEW s, Follows(p, r),
           r.fate \in [DOMAIN p -> Fates], r.action \in DOMAIN p,
           ~(p[r.action].mandatory \/ r.result = "success"),
           s.pc = "next", s.action = r.action + 1, s.result = r.result,
           s.fate = [r.fate EXCEPT ![r.action] = "skipped"]
    PROVE  Follows(p, s)
<1>1. PICK n \in Nat : n = r.action /\ n \in DOMAIN p
      OBVIOUS
<1>2. \A a \in DOMAIN p : a >= n => r.fate[a] = "waiting"
      BY <1>1 DEF Follows
<1>3. /\ DOMAIN s.fate = DOMAIN p /\ s.fate[n] = "skipped"
      /\ \A a \in DOMAIN p \ {n} : s.fate[a] = r.fate[a]
      BY <1>1
<1>4. PICK c \in DOMAIN p :
          /\ r.fate[c] \in Unsuccessful /\ r.result = r.fate[c]
          /\ \A b \in DOMAIN p : r.fate[b] \in Unsuccessful => b <= c
      BY DEF Follows, ResultFollows
<1>5. c < n
      BY <1>1, <1>2, <1>4 DEF Unsuccessful
<1>6. \A a \in DOMAIN p : s.fate[a] \in Unsuccessful <=> r.fate[a] \in Unsuccessful
      BY <1>1, <1>2, <1>3 DEF Unsuccessful
<1>7. ResultFollows(s)
      BY <1>1, <1>3, <1>4, <1>5, <1>6 DEF ResultFollows
<1>8. ASSUME NEW a \in DOMAIN p
      PROVE  IF a < s.action THEN RunOrSkipped(p, s, a) ELSE s.fate[a] = "waiting"
  <2>1. CASE a < n
        BY <1>1, <1>3, <1>6, <2>1 DEF Follows, RunOrSkipped
  <2>2. CASE a = n
        BY <1>1, <1>3, <1>4, <1>5, <1>6, <2>2 DEF RunOrSkipped
  <2>3. CASE a > n
        BY <1>1, <1>2, <1>3, <2>3
  <2> QED BY <1>1, <2>1, <2>2, <2>3
<1> QED BY <1>1, <1>7, <1>8 DEF Follows

-----------------------------------------------------------------------------
(* What a step of j must leave true of it, for the invariant to hold of    *)
(* all.                                                                    *)

LEMMA FatesStep ==
    ASSUME ResultsFollow, Refused, NEW j \in Jobs, UNCHANGED <<plan, refused>>,
           \A i \in Jobs \ {j} : run'[i] = run[i],
           j \notin refused => Follows(plan[j], run'[j]),
           j \in refused => run'[j].pc \notin {"next", "spawn", "agent"}
    PROVE  ResultsFollow' /\ Refused'
BY DEF ResultsFollow, Refused

LEMMA LostCount ==
    ASSUME Configs, NEW j \in Jobs
    PROVE  IsFiniteSet(Lost(j)) /\ Cardinality(Lost(j)) \in Nat
<1>1. Lost(j) \subseteq lost /\ IsFiniteSet(lost)
      BY DEF Lost, Configs
<1> QED BY <1>1, FS_Subset, FS_CardinalityType

LEMMA ConfigsStep ==
    ASSUME TypeOK, Configs, NEW j \in Jobs, lost' = lost,
           \A i \in Jobs \ {j} : run'[i] = run[i] /\ config'[i] = config[i],
           config'[j] \in Nat,
           config'[j] + (IF At(j, "agent") THEN 1 ELSE 0)
               = config[j] + (IF run'[j].pc = "agent" THEN 1 ELSE 0),
           \/ run'[j].number = run[j].number /\ ~At(j, "idle")
           \/ run'[j].number = run[j].number + 1,
           run'[j].pc \in {"spawn", "agent"} => run'[j].tries > 0
    PROVE  Configs'
<1>1. IsFiniteSet(lost')
      BY DEF Configs
<1>2. ASSUME NEW i \in Jobs
      PROVE  /\ config'[i] = Cardinality(Lost(i)') + (IF At(i, "agent")' THEN 1 ELSE 0)
             /\ \A n \in 1..MaxRuns : <<i, n>> \in lost' =>
                    n < run'[i].number \/ (n = run'[i].number /\ At(i, "idle")')
             /\ At(i, "idle")' \/ run'[i].number > 0
             /\ run'[i].pc \in {"spawn", "agent"} => run'[i].tries > 0
  <2>1. Lost(i)' = Lost(i)
        BY DEF Lost
  <2>2. CASE i # j
        BY <2>1, <2>2 DEF Configs, At
  <2>3. CASE i = j
    <3>1. config[j] \in Nat /\ run[j].number \in Nat /\ Cardinality(Lost(j)) \in Nat
          BY LostCount, RunFacts DEF TypeOK
    <3>2. config'[j] = Cardinality(Lost(j)') + (IF At(j, "agent")' THEN 1 ELSE 0)
          BY <2>1, <2>3, <3>1 DEF Configs, At
    <3>3. \A n \in 1..MaxRuns : <<j, n>> \in lost' => n < run'[j].number
          BY <3>1 DEF Configs
    <3>4. run'[j].number > 0
          BY <3>1 DEF Configs
    <3> QED BY <2>3, <3>2, <3>3, <3>4
  <2> QED BY <2>2, <2>3
<1> QED BY <1>1, <1>2 DEF Configs

\* What the API keeps stays well typed.
ApiOK ==
    /\ current \in Nat
    /\ \A s \in started \cup ended : s.job \in Jobs /\ s.run \in 1..MaxRuns /\ s.tag \in 0..current

LEMMA TypeStep ==
    ASSUME TypeOK, NEW j \in Jobs, UNCHANGED <<plan, refused>>, ApiOK',
           run' \in [Jobs -> Execution], DOMAIN run'[j].fate = DOMAIN plan[j],
           \A i \in Jobs \ {j} : run'[i] = run[i],
           config' \in [Jobs -> Nat], lost' \subseteq Jobs \X (1..MaxRuns)
    PROVE  TypeOK'
<1>1. \A i \in Jobs : plan'[i] \in Plans[i] /\ DOMAIN run'[i].fate = DOMAIN plan'[i]
      BY DEF TypeOK
<1> QED BY <1>1 DEF TypeOK, ApiOK

\* A step that no exception ends, and that leaves run[j] as Becomes says.
LEMMA StepKeeps ==
    ASSUME IInv, NEW j \in Jobs, UNCHANGED <<plan, refused, lost>>, ApiOK',
           run' \in [Jobs -> Execution], DOMAIN run'[j].fate = DOMAIN plan[j],
           \A i \in Jobs \ {j} : run'[i] = run[i],
           config' \in [Jobs -> Nat], \A i \in Jobs \ {j} : config'[i] = config[i],
           config'[j] + (IF At(j, "agent") THEN 1 ELSE 0)
               = config[j] + (IF run'[j].pc = "agent" THEN 1 ELSE 0),
           \/ run'[j].number = run[j].number /\ ~At(j, "idle")
           \/ run'[j].number = run[j].number + 1,
           run'[j].pc \in {"spawn", "agent"} => run'[j].tries > 0,
           j \notin refused => Follows(plan[j], run'[j]),
           j \in refused => run'[j].pc \notin {"next", "spawn", "agent"}
    PROVE  IInv'
<1>1. TypeOK'
  <2>1. lost' \subseteq Jobs \X (1..MaxRuns)
        BY DEF IInv, TypeOK
  <2> QED BY <2>1, TypeStep DEF IInv
<1>2. ResultsFollow' /\ Refused'
      BY FatesStep DEF IInv
<1>3. Configs'
  <2>1. config'[j] \in Nat /\ lost' = lost
        OBVIOUS
  <2> QED BY <2>1, ConfigsStep DEF IInv
<1> QED BY <1>1, <1>2, <1>3 DEF IInv

\* Nothing the API keeps changes.
LEMMA ApiStill ==
    ASSUME TypeOK, UNCHANGED api
    PROVE  ApiOK'
BY DEF TypeOK, ApiOK, api

\* The API is told of an execution, and starts a session or not.
LEMMA ApiStarts ==
    ASSUME TypeOK, Configs, NEW j \in Jobs, ~At(j, "idle"), current' = TagFor(j), UNCHANGED ended,
           started' = started \cup {[job |-> j, run |-> run[j].number, tag |-> TagFor(j)]}
    PROVE  ApiOK' /\ TagFor(j) \in Nat
<1>1. TagFor(j) \in {current, current + 1} /\ current \in Nat
      BY DEF TypeOK, TagFor
<1>2. run[j].number \in 1..MaxRuns
      BY RunFacts, ExecutionConstants DEF Configs
<1>3. ASSUME NEW s \in started' \cup ended'
      PROVE  s.job \in Jobs /\ s.run \in 1..MaxRuns /\ s.tag \in 0..current'
  <2>1. CASE s \in started \cup ended
        BY <1>1, <2>1 DEF TypeOK
  <2>2. CASE s = [job |-> j, run |-> run[j].number, tag |-> TagFor(j)]
        BY <1>1, <1>2, <2>2
  <2> QED BY <2>1, <2>2
<1> QED BY <1>1, <1>3 DEF ApiOK

\* The API is told a result, for the current tag.
LEMMA ApiEnds ==
    ASSUME TypeOK, Configs, NEW j \in Jobs, ~At(j, "idle"), run[j].tag = current,
           ended' = ended \cup {Report(j)}, UNCHANGED <<current, started>>
    PROVE  ApiOK'
<1>1. current \in Nat
      BY DEF TypeOK
<1>2. run[j].number \in 1..MaxRuns
      BY RunFacts, ExecutionConstants DEF Configs
<1>3. ASSUME NEW s \in started' \cup ended'
      PROVE  s.job \in Jobs /\ s.run \in 1..MaxRuns /\ s.tag \in 0..current'
  <2>1. CASE s \in started \cup ended
        BY <2>1 DEF TypeOK
  <2>2. CASE s = Report(j)
        BY <1>1, <1>2, <2>2 DEF Report
  <2> QED BY <2>1, <2>2
<1> QED BY <1>1, <1>3 DEF ApiOK

-----------------------------------------------------------------------------
(* The steps, one lemma for each phase of an execution.                    *)

LEMMA ExecuteStep ==
    ASSUME IInv, NEW j \in Jobs, Execute(j)
    PROVE  IInv'
<1>1. /\ Becomes(j, "start", run[j].number + 1, Tries, run[j].action, run[j].tries,
                  run[j].result, run[j].tag, run[j].fate)
      /\ UNCHANGED <<host, api>> /\ At(j, "idle")
      BY Begun DEF IInv, Execute
<1>2. ApiOK' /\ config' \in [Jobs -> Nat]
      BY <1>1, ApiStill DEF IInv, TypeOK, host
<1>3. j \notin refused => Follows(plan[j], run'[j])
  <2>1. SUFFICES ASSUME j \notin refused PROVE Follows(plan[j], run'[j])
        OBVIOUS
  <2>2. Follows(plan[j], run[j]) /\ run[j].action = 1
        BY <1>1, <2>1 DEF IInv, ResultsFollow, Follows, At
  <2> QED BY <1>1, <2>2, FollowsStill DEF Becomes
<1> QED BY <1>1, <1>2, <1>3, StepKeeps DEF Becomes, At, host

\* execute goes on with the actions, or fails.
LEMMA OpenedStep ==
    ASSUME IInv, NEW j \in Jobs, NEW tag \in Nat, At(j, "start"), Opened(j, tag),
           UNCHANGED host, ApiOK'
    PROVE  IInv'
<1>1. Becomes(j, Prepared(j), run[j].number, Tries, run[j].action, run[j].tries,
              IF j \in refused THEN "fail" ELSE "success", tag, run[j].fate)
      BY SessionOpened DEF IInv
<1>2. config' \in [Jobs -> Nat]
      BY DEF IInv, TypeOK, host
<1>3. j \notin refused => Follows(plan[j], run'[j])
  <2>1. SUFFICES ASSUME j \notin refused PROVE Follows(plan[j], run'[j])
        OBVIOUS
  <2>2. Follows(plan[j], run[j]) /\ run[j].action = 1
        BY <2>1 DEF IInv, ResultsFollow, Follows, At
  <2>3. \A a \in DOMAIN plan[j] : run[j].fate[a] = "waiting"
    <3>1. \A a \in DOMAIN plan[j] : ~(a < 1)
          BY PlanFacts DEF IInv
    <3> QED BY <2>2, <3>1 DEF Follows
  <2>4. run[j].fate = [a \in DOMAIN plan[j] |-> "waiting"]
        BY <2>3, RunFacts DEF IInv
  <2>5. plan[j] \in Seq(Action)
        BY PlanFacts DEF IInv
  <2> QED BY <1>1, <2>1, <2>2, <2>4, <2>5, FollowsAtFirst DEF Becomes, Prepared
<1>4. run'[j].pc \in {"next", "end"} /\ (j \in refused => run'[j].pc = "end")
      BY <1>1 DEF Becomes, Prepared
<1> QED BY <1>1, <1>2, <1>3, <1>4, StepKeeps DEF Becomes, At, host

\* A call that starts or ends the session has to be made again.
LEMMA MissedStep ==
    ASSUME IInv, NEW j \in Jobs, run[j].pc \in {"start", "end"}, run[j].calls > 0,
           run' = [run EXCEPT ![j].calls = @ - 1], UNCHANGED host, ApiOK'
    PROVE  IInv'
<1>1. Becomes(j, run[j].pc, run[j].number, run[j].calls - 1, run[j].action, run[j].tries,
              run[j].result, run[j].tag, run[j].fate)
      BY CallMissed DEF IInv
<1>2. config' \in [Jobs -> Nat]
      BY DEF IInv, TypeOK, host
<1>3. j \notin refused => Follows(plan[j], run'[j])
  <2>1. SUFFICES ASSUME j \notin refused PROVE Follows(plan[j], run'[j])
        OBVIOUS
  <2>2. Follows(plan[j], run[j])
        BY <2>1 DEF IInv, ResultsFollow
  <2>3. /\ run[j].pc = "start" => run[j].action = 1
        /\ run[j].pc = "end" => run[j].action \notin DOMAIN plan[j]
        BY <2>2 DEF Follows
  <2>4. /\ run'[j].pc = run[j].pc /\ run'[j].fate = run[j].fate
        /\ run'[j].action = run[j].action /\ run'[j].result = run[j].result
        BY <1>1 DEF Becomes
  <2> QED BY <2>2, <2>3, <2>4, FollowsStill
<1> QED BY <1>1, <1>2, <1>3, StepKeeps DEF Becomes, At, host

LEMMA StartSteps ==
    ASSUME IInv, NEW j \in Jobs, StartSession(j) \/ StartIsLost(j) \/ StartGivesUp(j)
    PROVE  IInv'
<1>1. CASE StartSession(j)
  <2>1. ApiOK' /\ TagFor(j) \in Nat
        BY <1>1, ApiStarts DEF IInv, StartSession, At
  <2> QED BY <1>1, <2>1, OpenedStep DEF StartSession
<1>2. CASE StartIsLost(j)
  <2>1. ApiOK'
    <3>1. CASE UNCHANGED api
          BY <3>1, ApiStill DEF IInv
    <3>2. CASE ~UNCHANGED api
          BY <1>2, <3>2, ApiStarts DEF IInv, StartIsLost, At
    <3> QED BY <3>1, <3>2
  <2> QED BY <1>2, <2>1, MissedStep DEF StartIsLost, At
<1>3. CASE StartGivesUp(j)
  <2>1. ApiOK' /\ run[j].tag \in Nat
        BY <1>3, ApiStill, RunFacts DEF IInv, StartGivesUp
  <2> QED BY <1>3, <2>1, OpenedStep DEF StartGivesUp
<1> QED BY <1>1, <1>2, <1>3

LEMMA NextActionStep ==
    ASSUME IInv, NEW j \in Jobs, NextAction(j)
    PROVE  IInv'
<1>1. /\ At(j, "next") /\ run[j].action \in DOMAIN plan[j]
      /\ UNCHANGED <<host, api>> /\ j \notin refused
      BY DEF NextAction, IInv, Refused, At
<1>2. ApiOK' /\ config' \in [Jobs -> Nat] /\ TypeOK /\ plan[j] \in Seq(Action)
      BY <1>1, ApiStill, PlanFacts DEF IInv, TypeOK, host
<1>3. Follows(plan[j], run[j])
      BY <1>1 DEF IInv, ResultsFollow
<1>4. CASE Now(j).mandatory \/ run[j].result = "success"
  <2>1. Now(j).retries \in 0..MaxRetries
        BY <1>1, <1>2, PlanFacts DEF Now
  <2>2. Now(j).retries + 1 \in 0..MaxRetries + 1 /\ Now(j).retries + 1 > 0
        BY <2>1, ExecutionConstants
  <2>3. run' = [run EXCEPT ![j].pc = "spawn", ![j].tries = Now(j).retries + 1]
        BY <1>4 DEF NextAction
  <2>4. Becomes(j, "spawn", run[j].number, run[j].calls, run[j].action, Now(j).retries + 1,
                run[j].result, run[j].tag, run[j].fate)
        BY <1>2, <2>2, <2>3, IsToBeTried
  <2>5. Follows(plan[j], run'[j])
        BY <1>1, <1>3, <1>4, <2>4, FollowsStill DEF Becomes, Now
  <2> QED BY <1>1, <1>2, <2>2, <2>4, <2>5, StepKeeps DEF Becomes, At, host
<1>5. CASE ~(Now(j).mandatory \/ run[j].result = "success")
  <2>1. run' = [run EXCEPT ![j].action = @ + 1, ![j].fate[run[j].action] = "skipped"]
        BY <1>5 DEF NextAction
  <2>2. Becomes(j, run[j].pc, run[j].number, run[j].calls, run[j].action + 1, run[j].tries,
                run[j].result, run[j].tag, [run[j].fate EXCEPT ![run[j].action] = "skipped"])
        BY <1>1, <1>2, <2>1, ActionSkipped
  <2>3. run[j].fate \in [DOMAIN plan[j] -> Fates]
        BY <1>2, RunFacts
  <2>4. Follows(plan[j], run'[j])
    <3>1. /\ run'[j].pc = "next" /\ run'[j].action = run[j].action + 1
          /\ run'[j].result = run[j].result
          /\ run'[j].fate = [run[j].fate EXCEPT ![run[j].action] = "skipped"]
          BY <1>1, <2>2 DEF Becomes, At
    <3>2. ~(plan[j][run[j].action].mandatory \/ run[j].result = "success")
          BY <1>5 DEF Now
    <3> QED BY <1>1, <1>2, <1>3, <2>3, <3>1, <3>2, FollowsSkipped
  <2> QED BY <1>1, <1>2, <2>2, <2>4, StepKeeps DEF Becomes, At, host
<1> QED BY <1>4, <1>5

LEMMA NoMoreStep ==
    ASSUME IInv, NEW j \in Jobs, NoMoreActions(j)
    PROVE  IInv'
<1>1. /\ At(j, "next") /\ run[j].action \notin DOMAIN plan[j]
      /\ UNCHANGED <<host, api>> /\ j \notin refused
      BY DEF NoMoreActions, IInv, Refused, At
<1>2. ApiOK' /\ config' \in [Jobs -> Nat]
      BY <1>1, ApiStill DEF IInv, TypeOK, host
<1>3. Becomes(j, "end", run[j].number, run[j].calls, run[j].action, run[j].tries,
              run[j].result, run[j].tag, run[j].fate)
      BY MovesTo DEF IInv, NoMoreActions
<1>4. Follows(plan[j], run'[j])
  <2>1. Follows(plan[j], run[j])
        BY <1>1 DEF IInv, ResultsFollow
  <2> QED BY <1>1, <1>3, <2>1, FollowsStill DEF Becomes
<1> QED BY <1>1, <1>2, <1>3, <1>4, StepKeeps DEF Becomes, At, host

LEMMA SpawnStep ==
    ASSUME IInv, NEW j \in Jobs, Spawn(j)
    PROVE  IInv'
<1>1. /\ At(j, "spawn") /\ UNCHANGED <<plan, refused, lost, api>> /\ j \notin refused
      /\ config' = [config EXCEPT ![j] = @ + 1]
      BY DEF Spawn, IInv, Refused, At
<1>2. ApiOK' /\ config \in [Jobs -> Nat]
      BY <1>1, ApiStill DEF IInv, TypeOK
<1>3. Becomes(j, "agent", run[j].number, run[j].calls, run[j].action, run[j].tries,
              run[j].result, run[j].tag, run[j].fate)
      BY MovesTo DEF IInv, Spawn
<1>4. Follows(plan[j], run'[j])
  <2>1. Follows(plan[j], run[j])
        BY <1>1 DEF IInv, ResultsFollow
  <2>2. run[j].action \in DOMAIN plan[j]
        /\ (plan[j][run[j].action].mandatory \/ run[j].result = "success")
        BY <1>1, <2>1 DEF Follows, At
  <2> QED BY <1>3, <2>1, <2>2, FollowsStill DEF Becomes
<1>5. run[j].tries > 0
      BY <1>1 DEF IInv, Configs, At
<1>6. /\ config' \in [Jobs -> Nat] /\ config'[j] = config[j] + 1
      /\ \A i \in Jobs \ {j} : config'[i] = config[i]
      BY <1>1, <1>2
<1> QED BY <1>1, <1>2, <1>3, <1>4, <1>5, <1>6, StepKeeps DEF Becomes, At

\* While the agent of j runs.
LEMMA AgentFacts ==
    ASSUME IInv, NEW j \in Jobs, AgentEnds(j)
    PROVE  /\ j \notin refused /\ Follows(plan[j], run[j]) /\ run[j].tries > 0
           /\ run[j].action \in DOMAIN plan[j]
           /\ plan[j][run[j].action].mandatory \/ run[j].result = "success"
           /\ UNCHANGED <<plan, refused, lost>> /\ ApiOK'
           /\ config' \in [Jobs -> Nat] /\ config'[j] + 1 = config[j]
           /\ \A i \in Jobs \ {j} : config'[i] = config[i]
<1>1. /\ At(j, "agent") /\ UNCHANGED <<plan, refused, lost, api>>
      /\ config' = [config EXCEPT ![j] = @ - 1]
      BY DEF AgentEnds
<1>2. j \notin refused /\ Follows(plan[j], run[j]) /\ run[j].tries > 0
      BY <1>1 DEF IInv, Refused, ResultsFollow, Configs, At
<1>3. ApiOK' /\ config \in [Jobs -> Nat]
      BY <1>1, ApiStill DEF IInv, TypeOK
<1>4. config[j] = Cardinality(Lost(j)) + 1 /\ Cardinality(Lost(j)) \in Nat
      BY <1>1, LostCount DEF IInv, Configs
<1>5. config[j] - 1 \in Nat
      BY <1>4
<1>6. /\ config' \in [Jobs -> Nat] /\ config'[j] + 1 = config[j]
      /\ \A i \in Jobs \ {j} : config'[i] = config[i]
      BY <1>1, <1>3, <1>5
<1>7. run[j].action \in DOMAIN plan[j]
      /\ (plan[j][run[j].action].mandatory \/ run[j].result = "success")
      BY <1>1, <1>2 DEF Follows, At
<1> QED BY <1>1, <1>2, <1>3, <1>6, <1>7

LEMMA ConcludedStep ==
    ASSUME IInv, NEW j \in Jobs, NEW result \in Results, AgentEnds(j), Concluded(j, result)
    PROVE  IInv'
<1>1. At(j, "agent") /\ TypeOK
      BY DEF AgentEnds, IInv
<1>2. Becomes(j, "next", run[j].number, run[j].calls, run[j].action + 1, run[j].tries,
              IF result = "success" THEN run[j].result ELSE result, run[j].tag,
              [run[j].fate EXCEPT ![run[j].action] = result])
      BY <1>1, AgentFacts, ActionConcluded
<1>3. plan[j] \in Seq(Action) /\ run[j].fate \in [DOMAIN plan[j] -> Fates]
      BY <1>1, PlanFacts, RunFacts
<1>4. Follows(plan[j], run'[j])
  <2>1. /\ run'[j].pc = "next" /\ run'[j].action = run[j].action + 1
        /\ run'[j].fate = [run[j].fate EXCEPT ![run[j].action] = result]
        /\ run'[j].result = IF result = "success" THEN run[j].result ELSE result
        BY <1>2 DEF Becomes
  <2>2. Follows(plan[j], run[j]) /\ run[j].pc \in {"spawn", "agent"}
        BY <1>1, AgentFacts DEF At
  <2> QED BY <1>3, <2>1, <2>2, FollowsConcluded
<1>5. config'[j] + 1 = config[j] /\ config[j] \in Nat /\ config'[j] \in Nat
      BY <1>1, AgentFacts DEF TypeOK
<1> QED BY <1>1, <1>2, <1>4, <1>5, AgentFacts, StepKeeps DEF Becomes, At

LEMMA AgentSteps ==
    ASSUME IInv, NEW j \in Jobs, AgentSucceeds(j) \/ AgentTerminated(j) \/ AgentFails(j)
    PROVE  IInv'
<1>1. CASE AgentSucceeds(j)
      BY <1>1, ConcludedStep DEF AgentSucceeds, Results
<1>2. CASE AgentTerminated(j)
      BY <1>2, ConcludedStep DEF AgentTerminated, Results
<1>3. CASE AgentFails(j)
  <2>1. CASE run[j].tries > 1
    <3>1. AgentEnds(j) /\ run' = [run EXCEPT ![j].pc = "spawn", ![j].tries = @ - 1]
          BY <1>3, <2>1 DEF AgentFails
    <3>2. run[j].tries - 1 \in 0..MaxRetries + 1 /\ run[j].tries - 1 > 0
      <4>1. run[j].tries \in 0..MaxRetries + 1
            BY RunFacts DEF IInv
      <4> QED BY <2>1, <4>1, ExecutionConstants
    <3>3. Becomes(j, "spawn", run[j].number, run[j].calls, run[j].action, run[j].tries - 1,
                  run[j].result, run[j].tag, run[j].fate)
          BY <3>1, <3>2, IsToBeTried DEF IInv
    <3>4. Follows(plan[j], run'[j])
      <4>1. /\ run'[j].pc = "spawn" /\ run'[j].fate = run[j].fate
            /\ run'[j].action = run[j].action /\ run'[j].result = run[j].result
            BY <3>3 DEF Becomes
      <4>2. Follows(plan[j], run[j]) /\ run[j].action \in DOMAIN plan[j]
            BY <3>1, AgentFacts
      <4>3. plan[j][run[j].action].mandatory \/ run[j].result = "success"
            BY <3>1, AgentFacts
      <4> QED BY <4>1, <4>2, <4>3, FollowsStill
    <3>5. config'[j] + 1 = config[j] /\ config[j] \in Nat /\ config'[j] \in Nat /\ At(j, "agent")
          BY <3>1, AgentFacts DEF IInv, TypeOK, AgentEnds
    <3> QED BY <3>1, <3>2, <3>3, <3>4, <3>5, AgentFacts, StepKeeps DEF Becomes, At
  <2>2. CASE ~(run[j].tries > 1)
        BY <1>3, <2>2, ConcludedStep DEF AgentFails, Results
  <2> QED BY <2>1, <2>2
<1> QED BY <1>1, <1>2, <1>3

\* execute returns.
LEMMA LeftStep ==
    ASSUME IInv, NEW j \in Jobs, At(j, "end"), Leave(j), UNCHANGED host, ApiOK'
    PROVE  IInv'
<1>1. Becomes(j, "idle", run[j].number, 0, 1, 0, "success", run[j].tag,
              [a \in DOMAIN plan[j] |-> "waiting"])
      BY Left DEF IInv
<1>2. config' \in [Jobs -> Nat] /\ plan[j] \in Seq(Action)
      BY PlanFacts DEF IInv, TypeOK, host
<1>3. Follows(plan[j], run'[j])
      BY <1>1, <1>2, FollowsAtFirst DEF Becomes
<1> QED BY <1>1, <1>2, <1>3, StepKeeps DEF Becomes, At, host

LEMMA EndSteps ==
    ASSUME IInv, NEW j \in Jobs,
           EndSession(j) \/ EndRefused(j) \/ EndIsLost(j) \/ EndGivesUp(j)
    PROVE  IInv'
<1>1. CASE EndSession(j)
      BY <1>1, ApiEnds, LeftStep DEF IInv, EndSession, At
<1>2. CASE EndRefused(j)
      BY <1>2, ApiStill, MissedStep DEF IInv, EndRefused, At
<1>3. CASE EndIsLost(j)
  <2>1. ApiOK'
    <3>1. CASE ended' = ended
          BY <1>3, <3>1, ApiStill DEF IInv, EndIsLost, api
    <3>2. CASE ended' # ended
          BY <1>3, <3>2, ApiEnds DEF IInv, EndIsLost, At
    <3> QED BY <3>1, <3>2
  <2> QED BY <1>3, <2>1, MissedStep DEF EndIsLost, At
<1>4. CASE EndGivesUp(j)
      BY <1>4, ApiStill, LeftStep DEF IInv, EndGivesUp
<1> QED BY <1>1, <1>2, <1>3, <1>4

\* An exception leaves execute, and the file it leaves is that of the execution.
LEMMA RaisesStep ==
    ASSUME IInv, NEW j \in Jobs, SpawnRaises(j) \/ OutputRaises(j)
    PROVE  IInv'
<1>1. /\ run[j].pc \in {"spawn", "agent"} /\ UNCHANGED <<plan, refused, api>> /\ TypeOK
      /\ lost' = lost \cup {<<j, run[j].number>>}
      /\ config' = IF At(j, "spawn") THEN [config EXCEPT ![j] = @ + 1] ELSE config
      BY DEF SpawnRaises, OutputRaises, IInv, At
<1>2. Becomes(j, "idle", run[j].number, 0, 1, 0, "success", run[j].tag,
              [a \in DOMAIN plan[j] |-> "waiting"])
      BY Left DEF IInv, SpawnRaises, OutputRaises
<1>3. run[j].number \in 1..MaxRuns
      BY <1>1, RunFacts, ExecutionConstants DEF IInv, Configs, At
<1>4. /\ config' \in [Jobs -> Nat] /\ config[j] \in Nat
      /\ config'[j] = config[j] + (IF At(j, "spawn") THEN 1 ELSE 0)
      /\ \A i \in Jobs \ {j} : config'[i] = config[i]
      BY <1>1 DEF TypeOK
<1>5. TypeOK'
  <2>1. lost' \subseteq Jobs \X (1..MaxRuns)
        BY <1>1, <1>3 DEF TypeOK
  <2>2. ApiOK'
        BY <1>1, ApiStill
  <2> QED BY <1>1, <1>2, <1>4, <2>1, <2>2, TypeStep DEF Becomes
<1>6. ResultsFollow' /\ Refused'
  <2>1. plan[j] \in Seq(Action)
        BY <1>1, PlanFacts
  <2>2. Follows(plan[j], run'[j])
        BY <1>2, <2>1, FollowsAtFirst DEF Becomes
  <2> QED BY <1>1, <1>2, <2>2, FatesStep DEF Becomes, IInv
<1>7. Configs'
  <2>1. IsFiniteSet(lost')
        BY <1>1, FS_AddElement DEF IInv, Configs
  <2>2. ASSUME NEW i \in Jobs
        PROVE  /\ config'[i] = Cardinality(Lost(i)') + (IF At(i, "agent")' THEN 1 ELSE 0)
               /\ \A n \in 1..MaxRuns : <<i, n>> \in lost' =>
                      n < run'[i].number \/ (n = run'[i].number /\ At(i, "idle")')
               /\ At(i, "idle")' \/ run'[i].number > 0
               /\ run'[i].pc \in {"spawn", "agent"} => run'[i].tries > 0
    <3>1. CASE i # j
      <4>1. Lost(i)' = Lost(i) /\ run'[i] = run[i] /\ config'[i] = config[i]
            BY <1>1, <1>2, <1>4, <3>1 DEF Lost, Becomes
      <4>2. \A n \in 1..MaxRuns : <<i, n>> \in lost' => <<i, n>> \in lost
            BY <1>1, <3>1
      <4> QED BY <4>1, <4>2 DEF IInv, Configs, At
    <3>2. CASE i = j
      <4>1. Lost(j)' = Lost(j) \cup {<<j, run[j].number>>}
            BY <1>1 DEF Lost
      <4>2. <<j, run[j].number>> \notin Lost(j)
        <5>1. ~(run[j].number < run[j].number) /\ ~At(j, "idle")
              BY <1>1, <1>3 DEF At
        <5>2. <<j, run[j].number>> \notin lost
              BY <1>3, <5>1 DEF IInv, Configs
        <5> QED BY <5>2 DEF Lost
      <4>3. IsFiniteSet(Lost(j)) /\ Cardinality(Lost(j)) \in Nat
            BY LostCount DEF IInv
      <4>4. Cardinality(Lost(j)') = Cardinality(Lost(j)) + 1
            BY <4>1, <4>2, <4>3, FS_AddElement
      <4>5. config[j] = Cardinality(Lost(j)) + (IF At(j, "agent") THEN 1 ELSE 0)
            BY <4>3 DEF IInv, Configs
      <4>8. config'[j] = Cardinality(Lost(j)) + 1
            BY <1>1, <1>4, <4>3, <4>5 DEF At
      <4>6. At(j, "idle")' /\ ~At(j, "agent")' /\ run'[j].number = run[j].number
            BY <1>2 DEF Becomes, At
      <4>7. \A n \in 1..MaxRuns : <<j, n>> \in lost' =>
               n < run'[j].number \/ n = run'[j].number
            BY <1>1, <4>6 DEF IInv, Configs, At
      <4> QED BY <3>2, <4>3, <4>4, <4>6, <4>7, <4>8 DEF At
    <3> QED BY <3>1, <3>2
  <2> QED BY <2>1, <2>2 DEF Configs
<1> QED BY <1>5, <1>6, <1>7 DEF IInv

-----------------------------------------------------------------------------
LEMMA InitIInv == Init => IInv
<1> SUFFICES ASSUME Init PROVE IInv
    OBVIOUS
<1>1. \A j \in Jobs : plan[j] \in Plans[j]
      BY DEF Init
<1>2. \A j \in Jobs : plan[j] \in Seq(Action)
      BY <1>1, ExecutionConstants
<1>3. ASSUME NEW j \in Jobs
      PROVE  /\ run[j].pc = "idle" /\ run[j].number = 0 /\ run[j].action = 1
             /\ run[j].result = "success" /\ run[j].fate = [a \in DOMAIN plan[j] |-> "waiting"]
      BY DEF Init
<1>4. TypeOK
  <2>1. ASSUME NEW j \in Jobs
        PROVE  [a \in DOMAIN plan[j] |-> "waiting"] \in Seq(Fates)
        BY <1>2 DEF Fates
  <2>2. run \in [Jobs -> Execution]
        BY <2>1, ExecutionConstants DEF Init, Execution, Results
  <2>3. refused \subseteq Jobs
        BY ExecutionConstants DEF Init
  <2> QED BY <1>1, <1>3, <2>2, <2>3 DEF Init, TypeOK
<1>5. ResultsFollow
  <2> SUFFICES ASSUME NEW j \in Jobs PROVE Follows(plan[j], run[j])
      BY DEF ResultsFollow
  <2>1. /\ run[j].pc \in {"idle", "start", "next"} /\ run[j].action = 1
        /\ run[j].result = "success" /\ run[j].fate = [a \in DOMAIN plan[j] |-> "waiting"]
        BY <1>3
  <2>2. plan[j] \in Seq(Action)
        BY <1>2
  <2> HIDE DEF Init
  <2> QED BY <2>1, <2>2, FollowsAtFirst
<1>6. Refused
      BY <1>3 DEF Refused
<1>7. Configs
  <2>1. \A j \in Jobs : Lost(j) = {}
        BY DEF Init, Lost
  <2>2. lost = {} /\ IsFiniteSet(lost) /\ Cardinality({}) = 0
        BY FS_EmptySet DEF Init
  <2>3. \A j \in Jobs : config[j] = 0
        BY DEF Init
  <2>4. ASSUME NEW j \in Jobs
        PROVE  /\ config[j] = Cardinality(Lost(j)) + (IF At(j, "agent") THEN 1 ELSE 0)
               /\ \A n \in 1..MaxRuns : <<j, n>> \notin lost
               /\ At(j, "idle") /\ run[j].pc \notin {"spawn", "agent"}
    <3>1. At(j, "idle") /\ ~At(j, "agent") /\ run[j].pc \notin {"spawn", "agent"}
          BY <1>3 DEF At
    <3>2. Cardinality(Lost(j)) = 0
          BY <2>1, <2>2
    <3>3. config[j] = 0 + 0 /\ \A n \in 1..MaxRuns : <<j, n>> \notin lost
          BY <2>2, <2>3
    <3> QED BY <3>1, <3>2, <3>3
  <2> QED BY <2>2, <2>4 DEF Configs
<1> QED BY <1>4, <1>5, <1>6, <1>7 DEF IInv

LEMMA StutterStep ==
    ASSUME IInv, UNCHANGED vars
    PROVE  IInv'
<1> USE DEF vars
<1>1. TypeOK'
      BY DEF IInv, TypeOK
<1>2. ResultsFollow' /\ Refused'
      BY DEF IInv, ResultsFollow, Refused
<1>3. Configs'
      BY DEF IInv, Configs, Lost, At
<1> QED BY <1>1, <1>2, <1>3 DEF IInv

\* In every state what an execution has in hand (its result, its action, its tries) agrees
\* with the fates of its actions, and each configuration file has an agent or a lost execution.
THEOREM Invariance == Spec => []IInv
<1>1. IInv /\ [Next]_vars => IInv'
  <2> SUFFICES ASSUME IInv, [Next]_vars PROVE IInv'
      OBVIOUS
  <2>1. CASE Next
    <3>1. PICK j \in Jobs : Execute(j) \/ Proceed(j) \/ Fault(j)
          BY <2>1 DEF Next
    <3> QED BY <3>1, ExecuteStep, StartSteps, NextActionStep, NoMoreStep, SpawnStep, AgentSteps,
               EndSteps, RaisesStep DEF Proceed, Fault
  <2>2. CASE UNCHANGED vars
        BY <2>2, StutterStep
  <2> QED BY <2>1, <2>2
<1> QED BY InitIInv, <1>1, PTL DEF Spec

\* finish reports what became of the actions, for every list of actions, and whatever
\* calls are lost: success if each action that was run succeeded, else how the last
\* one ended that did not; and every mandatory action was run.
THEOREM ResultIsTrue == Spec => []ResultTellsActions
<1>1. IInv => ResultTellsActions
  <2> SUFFICES ASSUME IInv, NEW j \in Jobs \ refused, At(j, "end"),
                      NEW bad, bad = {a \in DOMAIN plan[j] : Fate(j, a) \in {"fail", "aborted"}}
               PROVE  /\ IF bad = {} THEN run[j].result = "success"
                         ELSE \E a \in bad : run[j].result = Fate(j, a) /\ \A b \in bad : b <= a
                      /\ \A a \in DOMAIN plan[j] :
                             IF plan[j][a].mandatory \/ \A b \in bad : b >= a
                             THEN Fate(j, a) \in Results ELSE Fate(j, a) = "skipped"
      BY DEF ResultTellsActions
  <2>1. Follows(plan[j], run[j])
        BY DEF IInv, ResultsFollow
  <2>2. DOMAIN run[j].fate = DOMAIN plan[j]
        BY DEF IInv, TypeOK
  <2>3. \A a : a \in bad <=> a \in DOMAIN plan[j] /\ run[j].fate[a] \in Unsuccessful
        BY DEF Fate, Unsuccessful
  <2>4. IF bad = {} THEN run[j].result = "success"
        ELSE \E a \in bad : run[j].result = Fate(j, a) /\ \A b \in bad : b <= a
        BY <2>1, <2>2, <2>3 DEF Follows, ResultFollows, Fate
  <2>5. ASSUME NEW a \in DOMAIN plan[j]
        PROVE  IF plan[j][a].mandatory \/ \A b \in bad : b >= a
               THEN Fate(j, a) \in Results ELSE Fate(j, a) = "skipped"
    <3>1. a < run[j].action
      <4>1. run[j].action \notin DOMAIN plan[j] /\ run[j].action - 1 \in {0} \cup DOMAIN plan[j]
            BY <2>1 DEF Follows, At
      <4>2. run[j].action \in Nat /\ plan[j] \in Seq(Action)
            BY RunFacts, PlanFacts DEF IInv
      <4> QED BY <4>1, <4>2
    <3>2. RunOrSkipped(plan[j], run[j], a)
          BY <2>1, <3>1 DEF Follows
    <3> QED BY <2>2, <2>3, <3>2 DEF RunOrSkipped, Fate
  <2> QED BY <2>4, <2>5
<1> QED BY Invariance, <1>1, PTL

\* However agents end and calls fail, the configuration files on a host are those of the
\* agents that run there and of the executions that an exception has left.
THEOREM ConfigsAreGoneAlways == Spec => []ConfigsAreGone
<1>1. IInv => ConfigsAreGone
      BY DEF IInv, ConfigsAreGone, Configs, Lost
<1> QED BY Invariance, <1>1, PTL
=============================================================================
