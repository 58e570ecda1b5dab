-------------------------- MODULE MultiPipelineProofs --------------------------
(***************************************************************************)
(* MultiPipeline for every number of storages and of blocks, every queue   *)
(* size and every combination of faults: how much a storage that failed    *)
(* unnoticed can be short of.                                              *)
(*                                                                         *)
(* The argument: the transmitter has sent every block up to the one it     *)
(* holds to each storage, that one to the storages before the target       *)
(* (Sent).  What was sent to a storage is taken, in the hands of its       *)
(* thread or in its queue; of a thread that failed, the block in its hands *)
(* is lost and those in its queue stay there, which are QueueSize at most  *)
(* (Way).  What of it can be read is in Kept.                              *)
(***************************************************************************)
EXTENDS MultiPipeline, SequenceTheorems, TLAPS

Live      == writer \notin {"failed", "killed"}
Offered   == IF reader = "putting" THEN 1 ELSE 0
InHand(s) == IF thread[s] = "writing" THEN 1 ELSE 0

\* The blocks n + 1, n + 2, ... in their order.
Follow(d, n) == \A i \in 1..Len(d) : d[i] = n + i

\* The last block that was put in the queue of s.
Sent(s) == IF writer = "writing" /\ s >= target THEN held[0] - 1 ELSE held[0]

\* The blocks between the engine and the transmitter.
Input ==
    Live =>
        /\ Follow(queue.data, held[0])
        /\ reader \notin {"failed", "killed"} => produced = held[0] + Len(queue.data) + Offered
        /\ writer = "writing" => held[0] >= 1
        /\ writer # "writing" => target = 1

Finishing ==
    /\ queue.finish => reader \in {"done", "killed"} /\ produced = Blocks
    /\ reader = "done" => queue.finish
    /\ writer \in {"deciding", "closing", "joining", "done"} => queue.finish
    /\ writer \in {"closing", "joining", "done"} => queue.data = <<>>

\* The blocks between the transmitter and the storage s.
Way(s) ==
    /\ Follow(taken[s], 0)
    /\ thread[s] \notin {"failed", "killed"} =>
           /\ thread[s] = "writing" => held[s] = Len(taken[s]) + 1
           /\ Follow(out[s].data, Len(taken[s]) + InHand(s))
           /\ Live => Sent(s) = Len(taken[s]) + InHand(s) + Len(out[s].data)
    /\ thread[s] = "failed" /\ Live => Sent(s) <= Len(taken[s]) + 1 + Len(out[s].data)

\* The end of the stream to s.
Closing(s) ==
    /\ thread[s] \in {"deciding", "closing", "done"} => out[s].finish
    /\ thread[s] \in {"closing", "done"} => out[s].data = <<>>
    /\ out[s].finish => writer \in {"joining", "done", "killed"}

\* What s is short of once its metadata is taken.
Short(s) ==
    meta[s] # {} =>
        /\ thread[s] \in Ended \cup {"killed"} /\ main # "running"
        /\ Blocks - Len(taken[s]) <= IF thread[s] = "done" THEN 0 ELSE QueueSize + 1

Phases ==
    /\ reader = "putting" => produced > 0
    /\ main \in {"starting", "running"} => \A s \in Storages : meta[s] = {}
    /\ main = "starting" => reader = "idle" /\ writer = "idle"
    /\ writer \in {"idle", "opening"} =>
           /\ held[0] = 0
           /\ \A s \in Storages : thread[s] = "idle" /\ taken[s] = <<>> /\ out[s] = NewQueue
    /\ \A s \in Storages : thread[s] = "idle" => writer \in {"idle", "opening"}
    /\ writer = "idle" => reader = "idle" /\ queue = NewQueue /\ produced = 0
    /\ main \in {"metadata", "done"} => reader = "done" /\ writer = "done"
    /\ main = "killed" <=> writer = "killed"
    /\ writer = "done" => \A s \in Storages : thread[s] \in Ended
    /\ \A s \in Storages : thread[s] = "killed" <=> writer = "killed"

IInv ==
    /\ TypeOK /\ Input /\ Finishing /\ Phases
    /\ \A s \in Storages : Way(s) /\ Closing(s) /\ Short(s)

-----------------------------------------------------------------------------
(* What a queue does to blocks that follow one another.                    *)

LEMMA FollowAppend ==
    ASSUME NEW d \in Seq(1..Blocks), NEW n \in Nat, NEW m \in 1..Blocks,
           Follow(d, n), m = n + Len(d) + 1
    PROVE  Follow(Append(d, m), n)
<1>1. SUFFICES ASSUME NEW i \in 1..Len(d) + 1 PROVE Append(d, m)[i] = n + i
      BY DEF Follow
<1>2. CASE i = Len(d) + 1
      BY <1>2
<1>3. CASE i \in 1..Len(d)
      BY <1>3 DEF Follow
<1> QED BY <1>2, <1>3

LEMMA FollowEmpty == Len(<<>>) = 0 /\ \A n \in Nat : Follow(<<>>, n)
<1>1. Len(<<>>) = 0
      OBVIOUS
<1> QED BY <1>1 DEF Follow

LEMMA TailFacts ==
    ASSUME NEW d \in Seq(1..Blocks), d # <<>>
    PROVE  /\ Tail(d) \in Seq(1..Blocks) /\ Len(d) = Len(Tail(d)) + 1 /\ Len(Tail(d)) \in Nat
           /\ Head(d) = d[1] /\ Head(d) \in 1..Blocks
           /\ \A i \in 1..Len(Tail(d)) : Tail(d)[i] = d[i + 1]
<1>1. /\ Head(d) \in 1..Blocks /\ Tail(d) \in Seq(1..Blocks)
      /\ \A i \in 1..Len(Tail(d)) : Tail(d)[i] = d[i + 1]
      BY HeadTailProperties
<1>2. Head(d) = d[1] /\ Len(d) = Len(Tail(d)) + 1 /\ Len(Tail(d)) \in Nat
      OBVIOUS
<1> QED BY <1>1, <1>2

LEMMA FollowTail ==
    ASSUME NEW d \in Seq(1..Blocks), NEW n \in Nat, Follow(d, n), d # <<>>
    PROVE  /\ Tail(d) \in Seq(1..Blocks) /\ Len(d) = Len(Tail(d)) + 1 /\ Len(Tail(d)) \in Nat
           /\ Head(d) = n + 1 /\ Head(d) \in 1..Blocks
           /\ Follow(Tail(d), n + 1)
<1>1. Head(d) = n + 1
      BY TailFacts DEF Follow
<1>2. Follow(Tail(d), n + 1)
      BY TailFacts DEF Follow
<1> QED BY <1>1, <1>2, TailFacts

LEMMA PutFacts ==
    ASSUME NEW q \in Queues(1..Blocks), NEW m \in 1..Blocks, ~IsFull(q)
    PROVE  /\ Put(q, m) \in Queues(1..Blocks)
           /\ Put(q, m).data = Append(q.data, m)
           /\ Put(q, m).finish = q.finish /\ Put(q, m).stop = q.stop
           /\ Len(q.data) \in Nat
           /\ Len(Put(q, m).data) = Len(q.data) + 1 /\ Len(q.data) + 1 <= QueueSize
<1> DEFINE new == [data |-> Append(q.data, m), finish |-> q.finish, stop |-> q.stop]
<1>1. q.data \in Seq(1..Blocks) /\ q.finish \in BOOLEAN /\ q.stop \in BOOLEAN
      BY DEF Queues
<1>2. Put(q, m) = new
      BY DEF Put, Queues
<1>3. /\ Append(q.data, m) \in Seq(1..Blocks) /\ Len(q.data) \in Nat
      /\ Len(Append(q.data, m)) = Len(q.data) + 1
      BY <1>1
<1>4. new \in Queues(1..Blocks)
      BY <1>1, <1>3 DEF Queues
<1>5. Len(q.data) + 1 <= QueueSize
      BY <1>3, QueueSizeAssumption DEF IsFull
<1> QED BY <1>2, <1>3, <1>4, <1>5

LEMMA TakeFacts ==
    ASSUME NEW q \in Queues(1..Blocks), q.data # <<>>
    PROVE  /\ QueueAfter("getting", q) \in Queues(1..Blocks)
           /\ QueueAfter("getting", q).data = Tail(q.data)
           /\ QueueAfter("getting", q).finish = q.finish /\ QueueAfter("getting", q).stop = q.stop
<1> DEFINE new == [data |-> Tail(q.data), finish |-> q.finish, stop |-> q.stop]
<1>1. q.data \in Seq(1..Blocks) /\ q.finish \in BOOLEAN /\ q.stop \in BOOLEAN
      BY DEF Queues
<1>2. QueueAfter("getting", q) = new
      BY DEF QueueAfter, Takes, Queues
<1>3. Tail(q.data) \in Seq(1..Blocks)
      BY <1>1, TailFacts
<1>4. new \in Queues(1..Blocks)
      BY <1>1, <1>3 DEF Queues
<1>5. new.data = Tail(q.data) /\ new.finish = q.finish /\ new.stop = q.stop
      OBVIOUS
<1> HIDE DEF new
<1> QED BY <1>2, <1>4, <1>5

\* Where a thread goes from one of the Polls.
LEMMA PollFacts ==
    ASSUME NEW pc \in Polls, NEW q \in Queues(1..Blocks)
    PROVE  \/ /\ pc = "getting" /\ q.data # <<>> /\ Takes(pc, q) /\ PcAfter(pc, q) = "writing"
           \/ /\ QueueAfter(pc, q) = q /\ ~Takes(pc, q)
              /\ \/ PcAfter(pc, q) \in {"failed", "getting", "polling"}
                 \/ PcAfter(pc, q) = "deciding" /\ q.finish
                 \/ PcAfter(pc, q) = "closing" /\ pc = "deciding" /\ q.data = <<>>
<1> USE DEF Polls, Takes, PcAfter, QueueAfter
<1>1. CASE pc = "polling"
      BY <1>1 DEF Queues
<1>2. CASE pc = "deciding"
      BY <1>2
<1>3. CASE pc = "getting"
      BY <1>3
<1> QED BY <1>1, <1>2, <1>3

LEMMA FlagFacts ==
    ASSUME NEW q \in Queues(1..Blocks)
    PROVE  /\ ForceStop(q) \in Queues(1..Blocks) /\ ForceStop(q).data = q.data
           /\ ForceStop(q).finish = q.finish
           /\ Finish(q) \in Queues(1..Blocks) /\ Finish(q).data = q.data /\ Finish(q).finish
BY DEF ForceStop, Finish, Queues

LEMMA StorageFacts ==
    ASSUME TypeOK, NEW s \in Storages
    PROVE  /\ s \in Nat /\ s # 0 /\ s \in 0..Last /\ 0 \in 0..Last
           /\ held[0] \in 0..Blocks /\ held[s] \in 0..Blocks
           /\ out[s] \in Queues(1..Blocks) /\ Len(out[s].data) \in Nat /\ Len(out[s].data) <= QueueSize
           /\ thread[s] \in Threads
           /\ taken[s] \in Seq(1..Blocks) /\ Len(taken[s]) \in Nat
           /\ meta[s] \in SUBSET Artifacts
           /\ queue \in Queues(1..Blocks) /\ queue.data \in Seq(1..Blocks) /\ Len(queue.data) \in Nat
           /\ produced \in Nat
<1>1. s \in Nat /\ s # 0 /\ s \in 0..Last /\ 0 \in 0..Last
      BY LastAssumption DEF Storages
<1>2. /\ out[s] \in Queues(1..Blocks) /\ queue \in Queues(1..Blocks)
      BY DEF TypeOK, EngineTypeOK
<1>3. out[s].data \in Seq(1..Blocks) /\ queue.data \in Seq(1..Blocks)
      BY <1>2 DEF Queues
<1>4. produced \in Nat
      BY BlocksAssumption DEF TypeOK, EngineTypeOK
<1>5. held[0] \in 0..Blocks /\ held[s] \in 0..Blocks
      BY <1>1 DEF TypeOK
<1>6. Len(out[s].data) <= QueueSize /\ thread[s] \in Threads /\ meta[s] \in SUBSET Artifacts
      BY DEF TypeOK
<1>7. taken[s] \in Seq(1..Blocks) /\ Len(taken[s]) \in Nat
      BY DEF TypeOK
<1> QED BY <1>1, <1>2, <1>3, <1>4, <1>5, <1>6, <1>7

LEMMA InitIInv == Init => IInv
<1> SUFFICES ASSUME Init PROVE IInv
    OBVIOUS
<1> USE BlocksAssumption, QueueSizeAssumption, LastAssumption
    DEF Init, EngineInit, NewQueue, Storages
<1>1. TypeOK
  <2>1. [data |-> <<>>, finish |-> FALSE, stop |-> FALSE] \in Queues(1..Blocks)
        BY DEF Queues
  <2> QED BY <2>1 DEF TypeOK, EngineTypeOK, Mains, Readers, Threads, Artifacts
<1>2. Input /\ Finishing /\ Phases
      BY DEF Input, Follow, Offered, Finishing, Phases, Ended
<1>3. \A s \in Storages : Way(s) /\ Closing(s) /\ Short(s)
      BY DEF Way, Follow, InHand, Sent, Closing, Short
<1> QED BY <1>1, <1>2, <1>3 DEF IInv

-----------------------------------------------------------------------------
(* The read_stream thread.                                                 *)

LEMMA ReaderStep == IInv /\ Reader /\ UNCHANGED multiVars => IInv'
<1> SUFFICES ASSUME IInv, Reader, UNCHANGED multiVars PROVE IInv'
    OBVIOUS
<1> USE BlocksAssumption, QueueSizeAssumption, LastAssumption
<1>1. /\ queue \in Queues(1..Blocks) /\ queue.data \in Seq(1..Blocks) /\ Len(queue.data) \in Nat
      /\ produced \in 0..Blocks /\ held[0] \in 0..Blocks /\ 1 \in Storages
      /\ reader \in Readers
      BY StorageFacts DEF IInv, TypeOK, EngineTypeOK, Storages
<1>2. UNCHANGED <<main, writer, held, target, out, thread, taken, written, meta>>
      BY DEF Reader, ReadBlock, PutBlock, PutIsStopped, ReadEnds, ReadFails, multiVars
<1>3. \A s \in Storages : (Way(s) /\ Closing(s) /\ Short(s))'
      BY <1>2 DEF IInv, Way, Closing, Short, Live, Sent, InHand
<1> SUFFICES TypeOK' /\ Input' /\ Finishing' /\ Phases'
    BY <1>3 DEF IInv
<1> HIDE <1>3
<1> USE DEF IInv, Phases
<1>4. CASE ReadBlock
  <2> USE <1>4 DEF ReadBlock
  <2>1. TypeOK'
        BY <1>1, <1>2 DEF TypeOK, EngineTypeOK, Readers
  <2>2. Input'
        BY <1>1, <1>2 DEF Input, Live, Offered
  <2>3. Finishing' /\ Phases'
        BY <1>1, <1>2 DEF Finishing
  <2> QED BY <2>1, <2>2, <2>3
<1>5. CASE PutBlock
  <2>1. /\ reader = "putting" /\ ~IsFull(queue) /\ queue' = Put(queue, produced)
        /\ reader' = "reading" /\ produced' = produced
        BY <1>5 DEF PutBlock
  <2>2. /\ Live => Follow(queue.data, held[0]) /\ produced = held[0] + Len(queue.data) + 1
        /\ Live' = Live /\ ~queue.finish
        BY <1>2, <2>1 DEF Input, Live, Offered, Finishing
  <2>3. produced \in 1..Blocks
        BY <1>1, <2>1
  <2>4. /\ queue' \in Queues(1..Blocks) /\ queue'.data = Append(queue.data, produced)
        /\ queue'.finish = queue.finish /\ queue'.stop = queue.stop
        /\ Len(queue'.data) = Len(queue.data) + 1 /\ Len(queue'.data) <= QueueSize
        BY <1>1, <2>1, <2>3, PutFacts
  <2>5. TypeOK'
        BY <1>2, <2>1, <2>4 DEF TypeOK, EngineTypeOK, Readers
  <2>6. Live => Follow(queue'.data, held[0])
        BY <1>1, <2>2, <2>3, <2>4, FollowAppend
  <2>7. Live => produced' = held[0] + Len(queue'.data)
        BY <1>1, <2>1, <2>2, <2>4
  <2>8. Input'
        BY <1>1, <1>2, <2>1, <2>2, <2>6, <2>7 DEF Input, Offered
  <2>9. Finishing' /\ Phases'
        BY <1>2, <2>1, <2>2, <2>4 DEF Finishing
  <2> QED BY <2>5, <2>8, <2>9
<1>6. CASE PutIsStopped
  <2> USE <1>6 DEF PutIsStopped
  <2>1. TypeOK'
        BY <1>2 DEF TypeOK, EngineTypeOK, Readers
  <2>2. Input' /\ Finishing' /\ Phases'
        BY <1>2 DEF Input, Live, Finishing
  <2> QED BY <2>1, <2>2
<1>7. CASE ReadEnds
  <2> USE <1>7 DEF ReadEnds
  <2>1. /\ queue' \in Queues(1..Blocks) /\ queue'.data = queue.data /\ queue'.finish
        BY <1>1, FlagFacts
  <2>2. TypeOK'
        BY <1>2, <2>1 DEF TypeOK, EngineTypeOK, Readers
  <2>3. Input'
        BY <1>1, <1>2, <2>1 DEF Input, Live, Offered
  <2>4. Finishing' /\ Phases'
        BY <1>2, <2>1 DEF Finishing
  <2> QED BY <2>2, <2>3, <2>4
<1>8. CASE ReadFails
  <2> USE <1>8 DEF ReadFails
  <2>1. /\ queue' \in Queues(1..Blocks) /\ queue'.data = queue.data /\ queue'.finish = queue.finish
        BY <1>1, FlagFacts
  <2>2. TypeOK'
        BY <1>2, <2>1 DEF TypeOK, EngineTypeOK, Readers
  <2>3. Input' /\ Finishing' /\ Phases'
        BY <1>2, <2>1 DEF Input, Live, Finishing
  <2> QED BY <2>2, <2>3
<1> QED BY <1>4, <1>5, <1>6, <1>7, <1>8 DEF Reader

-----------------------------------------------------------------------------
(* The thread of a storage.                                                *)

\* A step of the thread of t is no business of the other storages.
LEMMA OneThread ==
    ASSUME IInv, NEW t \in Storages, UNCHANGED <<engineVars, target, meta>>,
           thread[t] \in {"opening", "polling", "deciding", "getting", "writing", "closing"},
           NEW th \in Threads \ {"idle", "killed"}, thread' = [thread EXCEPT ![t] = th],
           NEW o \in Queues(1..Blocks), out' = [out EXCEPT ![t] = o], Len(o.data) <= QueueSize,
           NEW h \in 0..Blocks, held' = [held EXCEPT ![t] = h],
           NEW w \in Seq(1..Blocks), taken' = [taken EXCEPT ![t] = w],
           written' \in [Storages -> Seq(1..Blocks)],
           Way(t)', Closing(t)'
    PROVE  IInv'
<1>1. UNCHANGED <<main, reader, produced, queue, writer, target, meta>>
      BY DEF engineVars
<1>2. /\ t \in 0..Last /\ t # 0 /\ held'[0] = held[0]
      BY StorageFacts DEF IInv, TypeOK
<1>3. TypeOK'
      BY <1>1, <1>2 DEF IInv, TypeOK, EngineTypeOK
<1>4. /\ \A s \in Storages \ {t} : thread'[s] = thread[s] /\ out'[s] = out[s]
                                    /\ held'[s] = held[s] /\ taken'[s] = taken[s]
      /\ thread'[t] = th
  <2>1. \A s \in Storages : s \in 0..Last
        BY StorageFacts DEF IInv
  <2> QED BY <2>1 DEF IInv, TypeOK
<1>5. writer \notin {"idle", "opening", "done", "killed"}
      BY DEF IInv, Phases, Ended
<1>6. Input' /\ Finishing'
      BY <1>1, <1>2 DEF IInv, Input, Finishing, Live, Offered
<1>7. Phases'
      BY <1>1, <1>4, <1>5 DEF IInv, Phases
<1>8. main \notin {"metadata", "done"}
      BY <1>5 DEF IInv, Phases
<1>9. meta[t] = {}
      BY <1>5 DEF IInv, Short, Ended, Phases
<1>10. ASSUME NEW s \in Storages \ {t} PROVE Way(s)' /\ Closing(s)' /\ Short(s)'
  <2>1. UNCHANGED <<thread[s], out[s], held[s], held[0], taken[s], meta[s], writer, target, main>>
        BY <1>1, <1>2, <1>4
  <2>2. Way(s) /\ Closing(s) /\ Short(s)
        BY DEF IInv
  <2>3. Way(s)'
        BY <2>1, <2>2 DEF Way, Live, Sent, InHand
  <2>4. Closing(s)' /\ Short(s)'
        BY <2>1, <2>2 DEF Closing, Short
  <2> QED BY <2>3, <2>4
<1>11. Short(t)'
      BY <1>1, <1>9 DEF Short
<1> QED BY <1>3, <1>6, <1>7, <1>10, <1>11 DEF IInv

\* What a restore reads is what was taken, or part of it.
LEMMA WrittenType ==
    ASSUME IInv, NEW t \in Storages, Thread(t)
    PROVE  written' \in [Storages -> Seq(1..Blocks)]
<1>1. /\ written \in [Storages -> Seq(1..Blocks)] /\ taken \in [Storages -> Seq(1..Blocks)]
      /\ thread[t] = "writing" => held[t] \in 1..Blocks
  <2>1. held[t] \in 0..Blocks /\ Len(taken[t]) \in Nat
        BY StorageFacts DEF IInv
  <2>2. thread[t] = "writing" => held[t] = Len(taken[t]) + 1
        BY DEF IInv, Way
  <2> QED BY <2>1, <2>2, BlocksAssumption DEF IInv, TypeOK
<1>2. CASE ThreadWrite(t)
  <2>1. /\ thread[t] = "writing" /\ taken' = [taken EXCEPT ![t] = Append(@, held[t])]
        /\ written' = written \/ written' = [written EXCEPT ![t] = taken'[t]]
        BY <1>2 DEF ThreadWrite
  <2>2. taken'[t] = Append(taken[t], held[t])
    <3>1. DOMAIN taken = Storages
          BY <1>1
    <3> QED BY <2>1, <3>1
  <2>3. taken[t] \in Seq(1..Blocks) /\ held[t] \in 1..Blocks
    <3>1. taken[t] \in Seq(1..Blocks)
          BY <1>1, Zenon
    <3>2. held[t] \in 1..Blocks
          BY <1>1, <2>1, Zenon
    <3> QED BY <3>1, <3>2
  <2>4. taken'[t] \in Seq(1..Blocks)
        BY <2>2, <2>3, AppendProperties
  <2> QED BY <1>1, <2>1, <2>4
<1>3. CASE ThreadClose(t)
      BY <1>1, <1>3 DEF ThreadClose
<1>4. CASE ThreadOpen(t) \/ ThreadGet(t) \/ ThreadFails(t) \/ ThreadGivesUp(t)
      BY <1>1, <1>4 DEF ThreadOpen, ThreadGet, ThreadFails, ThreadGivesUp
<1> QED BY <1>2, <1>3, <1>4 DEF Thread

LEMMA ThreadStep == ASSUME IInv, NEW t \in Storages, Thread(t) PROVE IInv'
<1> DEFINE n == Len(taken[t])
           d == out[t].data
<1> USE BlocksAssumption, QueueSizeAssumption, LastAssumption
<1>1. /\ thread[t] \in Threads /\ out[t] \in Queues(1..Blocks) /\ Len(d) <= QueueSize
      /\ d \in Seq(1..Blocks) /\ Len(d) \in Nat
      /\ held[t] \in 0..Blocks /\ held[0] \in 0..Blocks /\ t # 0
      /\ taken[t] \in Seq(1..Blocks) /\ n \in Nat
      /\ DOMAIN thread = Storages /\ DOMAIN out = Storages
      /\ DOMAIN held = 0..Last /\ t \in 0..Last /\ DOMAIN taken = Storages
      BY StorageFacts DEF IInv, TypeOK, Queues
<1>2. /\ thread = [thread EXCEPT ![t] = thread[t]] /\ out = [out EXCEPT ![t] = out[t]]
      /\ held = [held EXCEPT ![t] = held[t]] /\ taken = [taken EXCEPT ![t] = taken[t]]
      BY <1>1 DEF IInv, TypeOK
<1>3. Way(t) /\ Closing(t)
      BY DEF IInv
<1>4. UNCHANGED <<engineVars, target, meta>> /\ writer' = writer /\ target' = target
      BY DEF Thread, ThreadOpen, ThreadGet, ThreadWrite, ThreadClose, ThreadFails, ThreadGivesUp, engineVars
<1>5. held'[0] = held[0]
  <2>1. CASE ThreadGet(t)
        BY <1>1, <2>1 DEF ThreadGet
  <2>2. CASE ~ThreadGet(t)
        BY <2>2 DEF Thread, ThreadOpen, ThreadWrite, ThreadClose, ThreadFails, ThreadGivesUp
  <2> QED BY <2>1, <2>2
<1>6. n \in Nat /\ Len(d) \in Nat
      BY <1>1
<1>a. written' \in [Storages -> Seq(1..Blocks)]
      BY WrittenType
<1>7. CASE ThreadOpen(t)
  <2>1. /\ thread[t] = "opening" /\ thread' = [thread EXCEPT ![t] = "polling"]
        /\ UNCHANGED <<out, held, taken>>
        BY <1>7 DEF ThreadOpen
  <2>2. thread'[t] = "polling"
        BY <1>1, <2>1
  <2>3. Way(t)' /\ Closing(t)'
        BY <1>3, <1>4, <2>1, <2>2 DEF Way, Closing, Live, Sent, InHand
  <2> QED BY <1>1, <1>2, <1>4, <2>1, <2>3, <1>a, OneThread DEF Threads, Polls
<1>8. CASE ThreadWrite(t)
  <2>1. /\ thread[t] = "writing" /\ thread' = [thread EXCEPT ![t] = "polling"]
        /\ taken' = [taken EXCEPT ![t] = Append(taken[t], held[t])]
        /\ UNCHANGED <<out, held>>
        BY <1>8 DEF ThreadWrite
  <2>2. thread'[t] = "polling" /\ taken'[t] = Append(taken[t], held[t])
        BY <1>1, <2>1
  <2>3. Follow(taken[t], 0) /\ held[t] = n + 1 /\ held[t] \in 1..Blocks
        BY <1>1, <1>3, <2>1 DEF Way
  <2>4. /\ Append(taken[t], held[t]) \in Seq(1..Blocks)
        /\ Len(Append(taken[t], held[t])) = n + 1
        BY <1>1, <2>3
  <2>5. Follow(Append(taken[t], held[t]), 0)
        BY <1>1, <2>3, FollowAppend
  <2>6. /\ Follow(d, n + 1)
        /\ Live => Sent(t) = n + 1 + Len(d)
        BY <1>3, <2>1 DEF Way, InHand
  <2>7. Len(taken'[t]) + InHand(t)' = n + 1
        BY <1>1, <2>2, <2>4 DEF InHand
  <2>8. (Live' => Live) /\ Sent(t)' = Sent(t)
        BY <1>4, <1>5 DEF Live, Sent
  <2>9. Way(t)'
        BY <2>1, <2>2, <2>5, <2>6, <2>7, <2>8 DEF Way
  <2>10. Closing(t)'
        BY <1>3, <1>4, <2>1, <2>2 DEF Closing
  <2> QED BY <1>1, <1>2, <1>4, <2>1, <2>4, <2>9, <2>10, <1>a, OneThread DEF Threads, Polls
<1>9. CASE ThreadClose(t)
  <2>1. /\ thread[t] = "closing" /\ thread' = [thread EXCEPT ![t] = "done"]
        /\ UNCHANGED <<out, held, taken>>
        BY <1>9 DEF ThreadClose
  <2>2. thread'[t] = "done"
        BY <1>1, <2>1
  <2>3. Way(t)' /\ Closing(t)'
        BY <1>3, <1>4, <2>1, <2>2 DEF Way, Closing, Live, Sent, InHand
  <2> QED BY <1>1, <1>2, <1>4, <2>1, <2>3, <1>a, OneThread DEF Threads, Ended
<1>10. CASE ThreadFails(t)
  <2>1. /\ thread[t] \in {"opening", "writing", "closing"}
        /\ thread' = [thread EXCEPT ![t] = "failed"]
        /\ out' = [out EXCEPT ![t] = ForceStop(out[t])]
        /\ UNCHANGED <<held, taken>>
        BY <1>10 DEF ThreadFails
  <2>2. thread'[t] = "failed" /\ out'[t] = ForceStop(out[t])
        BY <1>1, <2>1
  <2>3. /\ ForceStop(out[t]) \in Queues(1..Blocks) /\ ForceStop(out[t]).data = d
        /\ ForceStop(out[t]).finish = out[t].finish
        BY <1>1, FlagFacts
  <2>4. /\ Follow(taken[t], 0)
        /\ Live => Sent(t) = n + InHand(t) + Len(d)
        BY <1>3, <2>1 DEF Way
  <2>5. InHand(t) \in {0, 1}
        BY DEF InHand
  <2>6. (Live' => Live) /\ Sent(t)' = Sent(t)
        BY <1>4, <1>5 DEF Live, Sent
  <2>7. Live' => Sent(t)' <= Len(taken'[t]) + 1 + Len(out'[t].data)
    <3>1. /\ Len(taken'[t]) = n /\ Len(out'[t].data) = Len(d)
          BY <2>1, <2>2, <2>3
    <3>2. n + InHand(t) + Len(d) <= n + 1 + Len(d)
      <4> HIDE DEF n, d
      <4> QED BY <1>6, <2>5
    <3> QED BY <2>4, <2>6, <3>1, <3>2
  <2>8. Way(t)'
        BY <2>1, <2>2, <2>4, <2>7 DEF Way
  <2>9. Closing(t)'
        BY <1>3, <1>4, <2>1, <2>2, <2>3 DEF Closing
  <2> QED BY <1>1, <1>2, <1>4, <2>1, <2>3, <2>8, <2>9, <1>a, OneThread DEF Threads, Ended
<1>b. CASE ThreadGivesUp(t)
  <2>1. /\ thread[t] \in {"writing", "closing"}
        /\ thread' = [thread EXCEPT ![t] = "failed"] /\ UNCHANGED <<out, held, taken>>
        BY <1>b DEF ThreadGivesUp
  <2>2. thread'[t] = "failed"
        BY <1>1, <2>1
  <2>3. /\ Follow(taken[t], 0)
        /\ Live => Sent(t) = n + InHand(t) + Len(d)
        BY <1>3, <2>1 DEF Way
  <2>4. InHand(t) \in {0, 1}
        BY DEF InHand
  <2>5. (Live' => Live) /\ Sent(t)' = Sent(t)
        BY <1>4, <1>5 DEF Live, Sent
  <2>6. n + InHand(t) + Len(d) <= n + 1 + Len(d)
    <3> HIDE DEF n, d
    <3> QED BY <1>6, <2>4
  <2>7. Live' => Sent(t)' <= Len(taken'[t]) + 1 + Len(out'[t].data)
        BY <2>1, <2>3, <2>5, <2>6
  <2>8. Way(t)'
        BY <2>1, <2>2, <2>3, <2>7 DEF Way
  <2>9. Closing(t)'
        BY <1>3, <1>4, <2>1, <2>2 DEF Closing
  <2> QED BY <1>1, <1>2, <1>4, <2>1, <2>8, <2>9, <1>a, OneThread DEF Threads, Ended
<1>11. CASE ThreadGet(t) /\ thread[t] = "getting" /\ d # <<>>
  <2> DEFINE o == QueueAfter("getting", out[t])
  <2>1. /\ thread' = [thread EXCEPT ![t] = "writing"]
        /\ out' = [out EXCEPT ![t] = o]
        /\ held' = [held EXCEPT ![t] = Head(d)]
        /\ UNCHANGED taken
        BY <1>11 DEF ThreadGet, Takes, PcAfter
  <2>2. /\ o \in Queues(1..Blocks) /\ o.data = Tail(d) /\ o.finish = out[t].finish
        BY <1>1, <1>11, TakeFacts
  <2> HIDE DEF o
  <2>3. thread'[t] = "writing" /\ out'[t] = o /\ held'[t] = Head(d)
        BY <1>1, <2>1
  <2>4. /\ Follow(taken[t], 0) /\ Follow(d, n)
        /\ Live => Sent(t) = n + Len(d)
        BY <1>1, <1>3, <1>11 DEF Way, InHand
  <2>5. /\ Len(d) = Len(Tail(d)) + 1 /\ Len(Tail(d)) \in Nat
        /\ Head(d) = n + 1 /\ Head(d) \in 1..Blocks
        /\ Follow(Tail(d), n + 1)
        BY <1>1, <1>11, <2>4, FollowTail
  <2>6. (Live' => Live) /\ Sent(t)' = Sent(t)
        BY <1>4, <1>5 DEF Live, Sent
  <2>7. Len(taken'[t]) + InHand(t)' = n + 1
        BY <2>1, <2>3 DEF InHand
  <2>8. Live' => Sent(t)' = n + 1 + Len(out'[t].data)
    <3>1. n + 1 + Len(Tail(d)) = n + Len(d)
      <4> DEFINE k == Len(Tail(d))
      <4>1. k \in Nat /\ Len(d) = k + 1
            BY <2>5
      <4>2. n + 1 + k = n + Len(d)
        <5> HIDE DEF n, d, k
        <5> QED BY <1>6, <4>1
      <4> QED BY <4>2
    <3> QED BY <2>2, <2>3, <2>4, <2>6, <3>1
  <2>9. held'[t] = Len(taken'[t]) + 1 /\ Follow(taken'[t], 0)
        BY <2>1, <2>3, <2>4, <2>5
  <2>10. Way(t)'
        BY <2>2, <2>3, <2>5, <2>7, <2>8, <2>9 DEF Way
  <2>11. Closing(t)'
        BY <1>3, <1>4, <2>2, <2>3 DEF Closing
  <2>12. Len(o.data) <= QueueSize
        BY <1>1, <2>2, <2>5
  <2>13. Head(d) \in 0..Blocks
        BY <2>5
  <2>14. /\ thread[t] \in {"opening", "polling", "deciding", "getting", "writing", "closing"}
         /\ "writing" \in Threads \ {"idle", "killed"}
        BY <1>11 DEF Threads
  <2> QED BY <1>1, <1>2, <1>4, <2>1, <2>2, <2>10, <2>11, <2>12, <2>13, <2>14, <1>a, OneThread
<1>12. CASE ThreadGet(t) /\ ~(thread[t] = "getting" /\ d # <<>>)
  <2> DEFINE th == PcAfter(thread[t], out[t])
  <2>1. thread[t] \in Polls
        BY <1>12 DEF ThreadGet
  <2>2. /\ QueueAfter(thread[t], out[t]) = out[t] /\ ~Takes(thread[t], out[t])
        /\ \/ th \in {"failed", "getting", "polling"}
           \/ th = "deciding" /\ out[t].finish
           \/ th = "closing" /\ thread[t] = "deciding" /\ d = <<>>
        BY <1>1, <1>12, <2>1, PollFacts
  <2>3. /\ thread' = [thread EXCEPT ![t] = th]
        /\ UNCHANGED <<out, held, taken>>
        BY <1>2, <1>12, <2>2 DEF ThreadGet
  <2>4. /\ th \in Threads \ {"idle", "killed", "writing", "done"}
        /\ th \in {"deciding", "closing"} => out[t].finish
        /\ th = "closing" => d = <<>>
        BY <1>3, <2>2 DEF Threads, Polls, Ended, Closing
  <2> HIDE DEF th
  <2>5. thread'[t] = th
        BY <1>1, <2>3
  <2>6. (Live' => Live) /\ Sent(t)' = Sent(t) /\ InHand(t) = 0 /\ InHand(t)' = 0
        BY <1>4, <1>5, <2>1, <2>4, <2>5 DEF Live, Sent, InHand, Polls
  <2>7. /\ Follow(taken[t], 0) /\ Follow(d, n)
        /\ Live => Sent(t) = n + Len(d)
        BY <1>1, <1>3, <2>1, <2>6 DEF Way, Polls
  <2>8. /\ Len(taken'[t]) + InHand(t)' = n
        /\ Live' => Sent(t)' = n + Len(out'[t].data) /\ Sent(t)' <= n + 1 + Len(out'[t].data)
    <3>1. Len(taken'[t]) = n /\ out'[t].data = d
          BY <2>3
    <3>2. n + 0 = n /\ n + Len(d) <= n + 1 + Len(d)
          BY <1>1
    <3> QED BY <2>6, <2>7, <3>1, <3>2
  <2>9. Way(t)'
        BY <2>3, <2>4, <2>5, <2>7, <2>8 DEF Way
  <2>10. Closing(t)'
        BY <1>3, <1>4, <2>3, <2>4, <2>5 DEF Closing
  <2>11. thread[t] \in {"opening", "polling", "deciding", "getting", "writing", "closing"}
        BY <2>1 DEF Polls
  <2>12. th \in Threads \ {"idle", "killed"}
        BY <2>4
  <2> QED BY <1>1, <1>2, <1>4, <2>3, <2>9, <2>10, <2>11, <2>12, <1>a, OneThread
<1> QED BY <1>7, <1>8, <1>9, <1>10, <1>b, <1>11, <1>12 DEF Thread

-----------------------------------------------------------------------------
(* The write_stream thread: the transmitter.                               *)

LEMMA GetStep == IInv /\ GetMessages => IInv'
<1> SUFFICES ASSUME IInv, GetMessages PROVE IInv'
    OBVIOUS
<1> DEFINE d == queue.data
           n == held[0]
<1>1. /\ queue \in Queues(1..Blocks) /\ d \in Seq(1..Blocks) /\ Len(d) \in Nat
      /\ Len(d) <= QueueSize /\ n \in 0..Blocks /\ n \in Nat /\ QueueSize \in Nat
      /\ DOMAIN held = 0..Last /\ 0 \in 0..Last
  <2>1. TypeOK /\ 1 \in Storages
        BY LastAssumption DEF IInv, Storages
  <2>2. /\ queue \in Queues(1..Blocks) /\ d \in Seq(1..Blocks) /\ Len(d) \in Nat
        /\ n \in 0..Blocks /\ 0 \in 0..Last
        BY <2>1, StorageFacts
  <2>3. Len(d) <= QueueSize /\ DOMAIN held = 0..Last
        BY <2>1 DEF TypeOK, EngineTypeOK
  <2> QED BY <2>2, <2>3, BlocksAssumption, QueueSizeAssumption
<1>2. /\ writer \in Polls /\ Live /\ target = 1
      /\ UNCHANGED <<main, reader, produced, target, out, thread, taken, written, meta>>
      BY DEF GetMessages, Polls, Live, IInv, Input
<1>3. \A s \in Storages : s \in Nat /\ s >= 1 /\ s # 0 /\ s \in 0..Last
      BY LastAssumption DEF Storages
<1>4. main \notin {"starting", "metadata", "done", "killed"}
      BY <1>2 DEF IInv, Phases, Polls
<1>5. CASE writer = "getting" /\ d # <<>>
  <2> DEFINE q == QueueAfter("getting", queue)
             k == Len(Tail(d))
  <2>1. writer' = "writing" /\ queue' = q /\ held' = [held EXCEPT ![0] = Head(d)]
        BY <1>5 DEF GetMessages, Takes, PcAfter
  <2>2. /\ q \in Queues(1..Blocks) /\ q.data = Tail(d) /\ q.finish = queue.finish
        BY <1>1, <1>5, TakeFacts
  <2> HIDE DEF q
  <2>3. Follow(d, n)
        BY <1>2 DEF IInv, Input
  <2>4. /\ Len(d) = k + 1 /\ k \in Nat
        /\ Head(d) = n + 1 /\ Head(d) \in 1..Blocks
        /\ Follow(Tail(d), n + 1)
        BY <1>1, <1>5, <2>3, FollowTail
  <2>5. /\ held'[0] = n + 1 /\ \A s \in Storages : held'[s] = held[s]
        BY <1>1, <1>3, <2>1, <2>4
  <2>6. held' \in [0..Last -> 0..Blocks]
    <3>1. Head(d) \in 0..Blocks /\ held \in [0..Last -> 0..Blocks]
          BY <2>4 DEF IInv, TypeOK
    <3> QED BY <2>1, <3>1
  <2>7. k <= QueueSize
    <3> HIDE DEF d, k
    <3> QED BY <1>1, <2>4
  <2>8. TypeOK'
        BY <1>2, <2>1, <2>2, <2>6, <2>7 DEF IInv, TypeOK, EngineTypeOK, Threads
  <2>9. reader' \notin {"failed", "killed"} => produced' = n + 1 + k + Offered'
    <3>1. Offered' = Offered /\ Offered \in Nat
          BY <1>2 DEF Offered
    <3>2. reader \notin {"failed", "killed"} => produced = n + Len(d) + Offered
          BY <1>2 DEF IInv, Input
    <3>3. n + Len(d) + Offered = n + 1 + k + Offered
      <4> HIDE DEF d, k, n
      <4> QED BY <1>1, <2>4, <3>1
    <3> QED BY <1>2, <3>1, <3>2, <3>3
  <2>10. Input'
        BY <1>1, <2>1, <2>2, <2>4, <2>5, <2>9 DEF Input
  <2>11. Finishing' /\ Phases'
        BY <1>2, <1>4, <1>5, <2>1, <2>2, <2>5 DEF IInv, Finishing, Phases
  <2>12. ASSUME NEW s \in Storages PROVE Way(s)' /\ Closing(s)' /\ Short(s)'
    <3>1. Way(s) /\ Closing(s) /\ Short(s)
          BY DEF IInv
    <3>2. Sent(s)' = Sent(s) /\ InHand(s)' = InHand(s)
          BY <1>1, <1>2, <1>3, <1>5, <2>1, <2>5 DEF Sent, InHand
    <3>3. Way(s)'
          BY <1>2, <2>5, <3>1, <3>2 DEF Way
    <3>4. Closing(s)' /\ Short(s)'
          BY <1>2, <1>5, <2>1, <3>1 DEF Closing, Short, Polls
    <3> QED BY <3>3, <3>4
  <2> QED BY <2>8, <2>10, <2>11, <2>12 DEF IInv
<1>6. CASE ~(writer = "getting" /\ d # <<>>)
  <2>1. /\ QueueAfter(writer, queue) = queue /\ ~Takes(writer, queue)
        /\ \/ PcAfter(writer, queue) \in {"failed", "getting", "polling"}
           \/ PcAfter(writer, queue) = "deciding" /\ queue.finish
           \/ PcAfter(writer, queue) = "closing" /\ writer = "deciding" /\ d = <<>>
        BY <1>1, <1>2, <1>6, PollFacts
  <2>2. UNCHANGED <<queue, held>> /\ writer' = PcAfter(writer, queue)
        BY <2>1 DEF GetMessages
  <2>3. /\ writer' \in {"failed", "getting", "polling", "deciding", "closing"}
        /\ writer' \in {"deciding", "closing"} => queue.finish
        /\ writer' = "closing" => d = <<>>
        BY <2>1, <2>2 DEF IInv, Finishing
  <2>4. TypeOK'
        BY <1>2, <2>2, <2>3 DEF IInv, TypeOK, EngineTypeOK, Threads, Polls, Ended
  <2>5. Input' /\ Finishing' /\ Phases'
        BY <1>2, <1>4, <2>2, <2>3 DEF IInv, Input, Finishing, Phases, Live, Offered, Polls
  <2>6. ASSUME NEW s \in Storages PROVE Way(s)' /\ Closing(s)' /\ Short(s)'
    <3>1. Way(s) /\ Closing(s) /\ Short(s)
          BY DEF IInv
    <3>2. Sent(s)' = Sent(s) /\ InHand(s)' = InHand(s)
          BY <1>2, <2>2, <2>3 DEF Sent, InHand, Polls
    <3>3. Way(s)'
          BY <1>2, <2>2, <3>1, <3>2 DEF Way
    <3>4. Closing(s)' /\ Short(s)'
          BY <1>2, <2>2, <2>3, <3>1 DEF Closing, Short, Polls
    <3> QED BY <3>3, <3>4
  <2> QED BY <2>4, <2>5, <2>6 DEF IInv
<1> QED BY <1>5, <1>6

LEMMA SendStep == IInv /\ Send => IInv'
<1> SUFFICES ASSUME IInv, Send PROVE IInv'
    OBVIOUS
<1> DEFINE n == held[0]
           o == Put(out[target], n)
<1>1. /\ writer = "writing" /\ ~IsFull(out[target]) /\ out' = [out EXCEPT ![target] = o]
      /\ target' = IF target = Last THEN 1 ELSE target + 1
      /\ writer' = IF target = Last THEN "polling" ELSE writer
      /\ UNCHANGED <<main, reader, produced, queue, held, thread, taken, written, meta>>
      BY DEF Send
<1>2. /\ target \in Storages /\ target \in Nat /\ Last \in Nat /\ target <= Last /\ target >= 1
      /\ n \in Nat /\ n \in 1..Blocks /\ Live
      /\ out[target] \in Queues(1..Blocks)
      BY <1>1, LastAssumption, BlocksAssumption
      DEF IInv, TypeOK, EngineTypeOK, Storages, Input, Live
<1>3. /\ o \in Queues(1..Blocks) /\ o.data = Append(out[target].data, n)
      /\ o.finish = out[target].finish /\ Len(out[target].data) \in Nat
      /\ Len(o.data) = Len(out[target].data) + 1 /\ Len(o.data) <= QueueSize
      BY <1>1, <1>2, PutFacts
<1> HIDE DEF o
<1>4. /\ out'[target] = o /\ \A s \in Storages \ {target} : out'[s] = out[s]
      BY <1>1, <1>2 DEF IInv, TypeOK
<1>5. target' \in Storages /\ writer' \in {"polling", "writing"} /\ Live'
      BY <1>1, <1>2 DEF Storages, Live
<1>6. TypeOK'
      BY <1>1, <1>3, <1>4, <1>5 DEF IInv, TypeOK, EngineTypeOK, Threads, Polls
<1>7. Input'
      BY <1>1, <1>2, <1>5 DEF IInv, Input, Offered
<1>8. Finishing' /\ Phases'
      BY <1>1 DEF IInv, Finishing, Phases
<1>9. ASSUME NEW s \in Storages \ {target} PROVE Way(s)' /\ Closing(s)' /\ Short(s)'
  <2>1. Way(s) /\ Closing(s) /\ Short(s)
        BY DEF IInv
  <2>2. Sent(s)' = Sent(s) /\ InHand(s)' = InHand(s)
    <3>1. s \in Nat /\ s <= Last /\ s >= 1
          BY LastAssumption DEF Storages
    <3> QED BY <1>1, <1>2, <3>1 DEF Sent, InHand
  <2>3. Way(s)'
        BY <1>1, <1>2, <1>4, <2>1, <2>2 DEF Way
  <2>4. Closing(s)' /\ Short(s)'
        BY <1>1, <1>4, <2>1 DEF Closing, Short
  <2> QED BY <2>3, <2>4
<1>10. ASSUME NEW t \in Storages, t = target PROVE Way(t)'
  <2> DEFINE w == Len(taken[t])
             d == out[t].data
  <2>1. Way(t) /\ w \in Nat /\ d \in Seq(1..Blocks) /\ Len(d) \in Nat
        BY StorageFacts DEF IInv, Queues
  <2>2. Sent(t) = n - 1 /\ Sent(t)' = n
        BY <1>1, <1>2, <1>10 DEF Sent
  <2>3. InHand(t)' = InHand(t) /\ InHand(t) \in {0, 1}
        BY <1>1 DEF InHand
  <2>4. CASE thread[t] \notin {"failed", "killed"}
    <3>1. /\ n - 1 = w + InHand(t) + Len(d) /\ Follow(d, w + InHand(t))
          BY <1>2, <2>1, <2>2, <2>4 DEF Way
    <3> DEFINE m == w + InHand(t)
    <3>2. m \in Nat /\ n = m + Len(d) + 1 /\ Follow(d, m)
      <4>1. n - 1 = m + Len(d) /\ m \in Nat
            BY <2>1, <2>3, <3>1
      <4>2. Follow(d, m)
            BY <3>1
      <4> HIDE DEF m, n, d
      <4> QED BY <1>2, <2>1, <4>1, <4>2
    <3>3. Follow(o.data, m)
          BY <1>2, <1>3, <1>10, <2>1, <3>2, FollowAppend
    <3>4. n = m + Len(o.data)
      <4> HIDE DEF m, n
      <4> QED BY <1>3, <1>10, <2>1, <3>2
    <3>5. Len(taken'[t]) + InHand(t)' = m
          BY <1>1, <2>3
    <3> QED BY <1>1, <1>4, <1>10, <2>1, <2>2, <2>4, <3>3, <3>4, <3>5 DEF Way
  <2>5. CASE thread[t] = "failed"
    <3>1. n - 1 <= w + 1 + Len(d)
          BY <1>2, <2>1, <2>2, <2>5 DEF Way
    <3>2. n <= w + 1 + Len(o.data)
      <4>1. Len(o.data) = Len(d) + 1
            BY <1>3, <1>10
      <4> DEFINE k == Len(d)
                 l == Len(o.data)
      <4>2. n - 1 <= w + 1 + k /\ l = k + 1 /\ k \in Nat /\ w \in Nat /\ n \in Nat
            BY <1>2, <2>1, <3>1, <4>1
      <4>3. n <= w + 1 + l
        <5> HIDE DEF w, n, k, l
        <5> QED BY <4>2
      <4> QED BY <4>3
    <3> QED BY <1>1, <1>4, <1>10, <2>1, <2>2, <2>5, <3>2 DEF Way
  <2>6. thread[t] # "killed"
        BY <1>1 DEF IInv, Phases
  <2> QED BY <2>4, <2>5, <2>6
<1>11. ASSUME NEW t \in Storages, t = target PROVE Closing(t)' /\ Short(t)'
  <2>1. ~out[t].finish /\ Closing(t) /\ Short(t)
        BY <1>1, <1>11 DEF IInv, Closing
  <2>2. ~out'[t].finish
        BY <1>3, <1>4, <1>11, <2>1
  <2> QED BY <1>1, <2>1, <2>2 DEF Closing, Short
<1> QED BY <1>6, <1>7, <1>8, <1>9, <1>10, <1>11 DEF IInv

LEMMA WriterStep == IInv /\ Writer => IInv'
<1> SUFFICES ASSUME IInv, Writer PROVE IInv'
    OBVIOUS
<1> USE BlocksAssumption, QueueSizeAssumption, LastAssumption
<1>1. CASE StartThreads
  <2>1. /\ writer = "opening" /\ writer' = "polling"
        /\ thread' = [s \in Storages |-> "opening"]
        /\ UNCHANGED <<main, reader, produced, queue, held, target, out, taken, written, meta>>
        BY <1>1 DEF StartThreads
  <2>2. \A s \in Storages : /\ taken[s] = <<>> /\ out[s] = NewQueue
                            /\ thread[s] = "idle" /\ thread'[s] = "opening"
        BY <2>1 DEF IInv, Phases
  <2>3. held[0] = 0 /\ target = 1 /\ Live /\ Live' /\ main \notin {"metadata", "done", "killed"}
        BY <2>1 DEF IInv, Phases, Input, Live
  <2>4. TypeOK'
        BY <2>1 DEF IInv, TypeOK, EngineTypeOK, Threads, Polls
  <2>5. Input' /\ Finishing' /\ Phases'
        BY <2>1, <2>2, <2>3 DEF IInv, Input, Finishing, Phases, Offered
  <2>6. ASSUME NEW s \in Storages PROVE Way(s)' /\ Closing(s)' /\ Short(s)'
    <3>1. Sent(s)' = 0 /\ InHand(s)' = 0
          BY <2>1, <2>2, <2>3 DEF Sent, InHand
    <3>2. Way(s)'
      <4>1. /\ taken'[s] = <<>> /\ out'[s].data = <<>> /\ thread'[s] = "opening"
            BY <2>1, <2>2 DEF NewQueue
      <4> QED BY <3>1, <4>1, FollowEmpty DEF Way
    <3>3. Closing(s)'
          BY <2>1, <2>2 DEF Closing, NewQueue
    <3>4. meta[s] = {}
          BY <2>2 DEF IInv, Short, Ended
    <3>5. Short(s)'
          BY <2>1, <3>4 DEF Short
    <3> QED BY <3>2, <3>3, <3>5
  <2> QED BY <2>4, <2>5, <2>6 DEF IInv
<1>2. CASE OneFailsAllFail
  <2>1. /\ writer = "writing" /\ queue' = ForceStop(queue)
        /\ out' = [s \in Storages |-> ForceStop(out[s])] /\ writer' = "failed"
        /\ UNCHANGED <<main, reader, produced, held, target, thread, taken, written, meta>>
        BY <1>2 DEF OneFailsAllFail
  <2>2. /\ queue' \in Queues(1..Blocks) /\ queue'.data = queue.data /\ queue'.finish = queue.finish
        BY <2>1, FlagFacts DEF IInv, TypeOK, EngineTypeOK
  <2>3. \A s \in Storages :
           /\ out'[s] \in Queues(1..Blocks) /\ out'[s].data = out[s].data
           /\ out'[s].finish = out[s].finish
        BY <2>1, FlagFacts DEF IInv, TypeOK
  <2>4. out' \in [Storages -> Queues(1..Blocks)]
        BY <2>1, <2>3
  <2>5. TypeOK'
        BY <2>1, <2>2, <2>3, <2>4 DEF IInv, TypeOK, EngineTypeOK, Threads, Ended
  <2>6. Input' /\ Finishing' /\ Phases'
        BY <2>1, <2>2 DEF IInv, Input, Finishing, Phases, Live
  <2>7. ASSUME NEW s \in Storages PROVE Way(s)' /\ Closing(s)' /\ Short(s)'
        BY <2>1, <2>3 DEF IInv, Way, Closing, Short, Live, InHand
  <2> QED BY <2>5, <2>6, <2>7 DEF IInv
<1>3. CASE SendFinish
  <2>1. /\ writer = "closing" /\ writer' = "joining"
        /\ out' = [s \in Storages |-> Finish(out[s])]
        /\ UNCHANGED <<main, reader, produced, queue, held, target, thread, taken, written, meta>>
        BY <1>3 DEF SendFinish
  <2>2. \A s \in Storages :
           /\ out'[s] \in Queues(1..Blocks) /\ out'[s].data = out[s].data /\ out'[s].finish
        BY <2>1, FlagFacts DEF IInv, TypeOK
  <2>3. out' \in [Storages -> Queues(1..Blocks)]
        BY <2>1, <2>2
  <2>4. TypeOK'
        BY <2>1, <2>2, <2>3 DEF IInv, TypeOK, EngineTypeOK, Threads
  <2>5. Input' /\ Finishing' /\ Phases'
        BY <2>1 DEF IInv, Input, Finishing, Phases, Live, Offered
  <2>6. ASSUME NEW s \in Storages PROVE Way(s)' /\ Closing(s)' /\ Short(s)'
    <3>1. /\ Sent(s)' = Sent(s) /\ InHand(s)' = InHand(s) /\ Live
          BY <2>1 DEF Sent, InHand, Live
    <3>2. Way(s) /\ Closing(s) /\ Short(s)
          BY DEF IInv
    <3>3. Way(s)'
          BY <2>1, <2>2, <3>1, <3>2 DEF Way
    <3>4. Closing(s)' /\ Short(s)'
          BY <2>1, <2>2, <3>2 DEF Closing, Short
    <3> QED BY <3>3, <3>4
  <2> QED BY <2>4, <2>5, <2>6 DEF IInv
<1>4. CASE JoinThreads
  <2>1. /\ writer = "joining" /\ writer' = "done" /\ \A s \in Storages : thread[s] \in Ended
        /\ UNCHANGED <<main, reader, produced, queue, held, target, out, thread, taken, written, meta>>
        BY <1>4 DEF JoinThreads, multiVars
  <2>2. TypeOK'
        BY <2>1 DEF IInv, TypeOK, EngineTypeOK, Threads, Ended
  <2>3. Input' /\ Finishing' /\ Phases'
        BY <2>1 DEF IInv, Input, Finishing, Phases, Live, Offered
  <2>4. ASSUME NEW s \in Storages PROVE Way(s)' /\ Closing(s)' /\ Short(s)'
    <3>1. /\ Sent(s)' = Sent(s) /\ InHand(s)' = InHand(s) /\ Live
          BY <2>1 DEF Sent, InHand, Live
    <3>2. Way(s) /\ Closing(s) /\ Short(s)
          BY DEF IInv
    <3>3. Way(s)'
          BY <2>1, <3>1, <3>2 DEF Way
    <3>4. Closing(s)' /\ Short(s)'
          BY <2>1, <3>2 DEF Closing, Short
    <3> QED BY <3>3, <3>4
  <2> QED BY <2>2, <2>3, <2>4 DEF IInv
<1>5. CASE GetMessages
      BY <1>5, GetStep
<1>6. CASE Send
      BY <1>6, SendStep
<1> QED BY <1>1, <1>2, <1>3, <1>4, <1>5, <1>6 DEF Writer

-----------------------------------------------------------------------------
(* The main thread.                                                        *)

LEMMA PutMetadataStep == ASSUME IInv, NEW t \in Storages, PutMetadata(t) PROVE IInv'
<1>1. /\ main = "metadata" /\ main' \in {"metadata", "done"}
      /\ meta' = [meta EXCEPT ![t] = @ \cup {NextArtifact(meta[t])}] /\ meta[t] # Artifacts
      /\ UNCHANGED <<reader, produced, queue, writer, held, target, out, thread, taken, written>>
      BY DEF PutMetadata
<1>2. NextArtifact(meta[t]) \in Artifacts
      BY <1>1, StorageFacts DEF IInv, NextArtifact, Artifacts
<1>3. TypeOK'
      BY <1>1, <1>2 DEF IInv, TypeOK, EngineTypeOK, Mains
<1>4. Input' /\ Finishing' /\ Phases'
      BY <1>1 DEF IInv, Input, Finishing, Phases, Live, Offered
<1>5. \A s \in Storages : Way(s)' /\ Closing(s)'
      BY <1>1 DEF IInv, Way, Closing, Live, Sent, InHand
<1>6. \A s \in Storages \ {t} : Short(s)'
      BY <1>1 DEF IInv, Short, TypeOK
<1>7. Short(t)'
  <2> DEFINE w == Len(taken[t])
             l == Len(out[t].data)
  <2>1. reader = "done" /\ writer = "done" /\ thread[t] \in Ended
        BY <1>1 DEF IInv, Phases
  <2>2. queue.data = <<>> /\ produced = Blocks
        BY <2>1 DEF IInv, Finishing
  <2>3. Blocks = held[0]
        BY <2>1, <2>2, StorageFacts DEF IInv, Input, Live, Offered
  <2>4. Sent(t) = Blocks /\ Live /\ InHand(t) = 0
        BY <2>1, <2>3 DEF Sent, Live, InHand, Ended
  <2>5. w \in Nat /\ l \in Nat /\ l <= QueueSize /\ QueueSize \in Nat /\ Blocks \in Nat
        BY StorageFacts, BlocksAssumption, QueueSizeAssumption DEF IInv
  <2>6. thread[t] = "done" => Blocks = w + 0 + 0
        BY <2>4 DEF IInv, Way, Closing
  <2>7. thread[t] = "failed" => Blocks <= w + 1 + l
        BY <2>4 DEF IInv, Way
  <2>8. Blocks - w <= IF thread[t] = "done" THEN 0 ELSE QueueSize + 1
    <3> HIDE DEF w, l
    <3> QED BY <2>1, <2>5, <2>6, <2>7 DEF Ended
  <2> QED BY <1>1, <2>1, <2>8 DEF Short
<1> QED BY <1>3, <1>4, <1>5, <1>6, <1>7 DEF IInv

LEMMA MainStep == IInv /\ Main => IInv'
<1> SUFFICES ASSUME IInv, Main PROVE IInv'
    OBVIOUS
<1>1. CASE Start /\ UNCHANGED multiVars
  <2>1. /\ main = "starting" /\ main' = "running" /\ reader' = "reading" /\ writer' = "opening"
        /\ UNCHANGED <<produced, queue, held, target, out, thread, taken, written, meta>>
        BY <1>1 DEF Start, multiVars
  <2>2. /\ writer = "idle" /\ reader = "idle" /\ held[0] = 0 /\ target = 1 /\ queue = NewQueue /\ produced = 0
        /\ \A s \in Storages : /\ thread[s] = "idle" /\ taken[s] = <<>> /\ out[s] = NewQueue
                               /\ meta[s] = {}
        BY <2>1 DEF IInv, Phases, Input, Live
  <2>3. TypeOK'
        BY <2>1 DEF IInv, TypeOK, EngineTypeOK, Mains, Readers, Threads
  <2>4. Input' /\ Finishing' /\ Phases'
        BY <2>1, <2>2 DEF Input, Finishing, Phases, Live, Offered, Follow, NewQueue
  <2>5. \A s \in Storages : Way(s)' /\ Closing(s)' /\ Short(s)'
    <3> SUFFICES ASSUME NEW s \in Storages PROVE Way(s)' /\ Closing(s)' /\ Short(s)'
        OBVIOUS
    <3>1. /\ taken'[s] = <<>> /\ out'[s].data = <<>> /\ thread'[s] = "idle"
          /\ ~out'[s].finish /\ meta'[s] = {} /\ Sent(s)' = 0 /\ InHand(s)' = 0
          BY <2>1, <2>2 DEF NewQueue, Sent, InHand
    <3>2. Way(s)'
          BY <3>1, FollowEmpty DEF Way
    <3>3. Closing(s)' /\ Short(s)'
          BY <3>1 DEF Closing, Short
    <3> QED BY <3>2, <3>3
  <2> QED BY <2>3, <2>4, <2>5 DEF IInv
<1>2. CASE (StartFails \/ Join \/ MetadataFails) /\ UNCHANGED multiVars
  <2>1. /\ main' \in {"failed", "metadata"}
        /\ main' = "metadata" => reader = "done" /\ writer = "done"
        /\ main \in {"starting", "running", "metadata"}
        /\ UNCHANGED <<reader, produced, queue, writer, held, target, out, thread, taken, written, meta>>
        BY <1>2 DEF StartFails, Join, MetadataFails, multiVars, Ended
  <2>2. TypeOK'
        BY <2>1 DEF IInv, TypeOK, EngineTypeOK, Mains
  <2>3. Input' /\ Finishing' /\ Phases'
        BY <2>1 DEF IInv, Input, Finishing, Phases, Live, Offered
  <2>4. \A s \in Storages : Way(s)' /\ Closing(s)' /\ Short(s)'
        BY <2>1 DEF IInv, Way, Closing, Short, Live, Sent, InHand
  <2> QED BY <2>2, <2>3, <2>4 DEF IInv
<1>3. CASE \E s \in Storages : PutMetadata(s)
      BY <1>3, PutMetadataStep
<1> QED BY <1>1, <1>2, <1>3 DEF Main

LEMMA KilledStep == IInv /\ KilledAll => IInv'
<1> SUFFICES ASSUME IInv, KilledAll PROVE IInv'
    OBVIOUS
<1>1. /\ main \in {"starting", "running", "metadata"}
      /\ main' = "killed" /\ reader' = "killed" /\ writer' = "killed"
      /\ thread' = [s \in Storages |-> "killed"]
      /\ UNCHANGED <<produced, queue, held, target, out, taken, written, meta>>
      BY DEF KilledAll, Killed
<1>2. TypeOK'
      BY <1>1 DEF IInv, TypeOK, EngineTypeOK, Mains, Readers, Threads
<1>3. Input' /\ Finishing' /\ Phases'
      BY <1>1 DEF IInv, Input, Finishing, Phases, Live
<1>4. ASSUME NEW s \in Storages PROVE Way(s)' /\ Closing(s)' /\ Short(s)'
  <2>1. Way(s) /\ Closing(s) /\ Short(s) /\ thread'[s] = "killed"
        BY <1>1 DEF IInv
  <2>2. Way(s)' /\ Closing(s)'
        BY <1>1, <2>1 DEF Way, Closing
  <2>3. Short(s)'
    <3>1. Len(taken[s]) \in Nat
          BY StorageFacts DEF IInv
    <3> DEFINE missing == Blocks - Len(taken[s])
    <3>2. missing \in Int /\ QueueSize \in Nat
          BY <3>1, BlocksAssumption, QueueSizeAssumption
    <3>3. meta[s] # {} => missing <= QueueSize + 1
      <4>1. meta[s] # {} => missing <= IF thread[s] = "done" THEN 0 ELSE QueueSize + 1
            BY <2>1 DEF Short
      <4> HIDE DEF missing
      <4> QED BY <3>2, <4>1
    <3> QED BY <1>1, <2>1, <3>3 DEF Short
  <2> QED BY <2>2, <2>3
<1> QED BY <1>2, <1>3, <1>4 DEF IInv

LEMMA StutterStep == IInv /\ UNCHANGED vars => IInv'
<1> SUFFICES ASSUME IInv, UNCHANGED vars PROVE IInv'
    OBVIOUS
<1> USE DEF vars, engineVars, multiVars, IInv
<1>1. TypeOK'
      BY DEF TypeOK, EngineTypeOK
<1>2. Input' /\ Finishing' /\ Phases'
      BY DEF Input, Finishing, Phases, Live, Offered
<1>3. \A s \in Storages : Way(s)' /\ Closing(s)' /\ Short(s)'
      BY DEF Way, Closing, Short, Live, InHand, Sent
<1> QED BY <1>1, <1>2, <1>3

-----------------------------------------------------------------------------
LEMMA InvStep == IInv /\ [Next]_vars => IInv'
<1> SUFFICES ASSUME IInv, [Next]_vars PROVE IInv'
    OBVIOUS
<1>1. CASE Reader /\ UNCHANGED multiVars
      BY <1>1, ReaderStep
<1>2. CASE Writer
      BY <1>2, WriterStep
<1>3. CASE \E s \in Storages : Thread(s)
      BY <1>3, ThreadStep
<1>4. CASE Main
      BY <1>4, MainStep
<1>5. CASE KilledAll
      BY <1>5, KilledStep
<1>6. CASE UNCHANGED vars
      BY <1>6, StutterStep
<1> QED BY <1>1, <1>2, <1>3, <1>4, <1>5, <1>6 DEF Next

\* The inductive invariant, for any number of storages and blocks, any queue size and any
\* faults of the engine, of the storages, of the metadata and of the process.
THEOREM Invariance == Spec => []IInv
BY InitIInv, InvStep, PTL DEF Spec

-----------------------------------------------------------------------------
(* What can be read of what was taken.                                     *)

Kept(s) ==
    /\ written[s] = taken[s] \/ (s \in AtEnd /\ written[s] = <<>>)
    /\ thread[s] = "done" => written[s] = taken[s]
    /\ s \in AtEnd /\ thread[s] \notin {"done", "killed"} => written[s] = <<>>

LEMMA KeptInit == Init => \A s \in Storages : Kept(s)
BY DEF Init, Kept

LEMMA KeptStep ==
    ASSUME IInv, [Next]_vars, \A s \in Storages : Kept(s), NEW s \in Storages
    PROVE  Kept(s)'
<1>1. /\ taken \in [Storages -> Seq(1..Blocks)] /\ written \in [Storages -> Seq(1..Blocks)]
      /\ thread \in [Storages -> Threads] /\ Kept(s)
      BY DEF IInv, TypeOK
<1>2. ASSUME NEW t \in Storages, ThreadWrite(t) PROVE Kept(s)'
  <2>1. /\ thread[t] = "writing" /\ thread' = [thread EXCEPT ![t] = "polling"]
        /\ taken' = [taken EXCEPT ![t] = Append(@, held[t])]
        /\ t \in AtEnd => written' = written
        /\ t \notin AtEnd => written' = [written EXCEPT ![t] = taken'[t]]
        BY <1>2 DEF ThreadWrite
  <2>2. CASE s # t
    <3>1. taken'[s] = taken[s] /\ written'[s] = written[s] /\ thread'[s] = thread[s]
          BY <1>1, <2>1, <2>2
    <3> QED BY <1>1, <3>1 DEF Kept
  <2>3. CASE s = t /\ s \in AtEnd
    <3>1. written'[s] = <<>> /\ thread'[s] = "polling"
          BY <1>1, <2>1, <2>3 DEF Kept
    <3> QED BY <2>3, <3>1 DEF Kept
  <2>4. CASE s = t /\ s \notin AtEnd
    <3>1. written'[s] = taken'[s]
          BY <1>1, <2>1, <2>4
    <3> QED BY <2>4, <3>1 DEF Kept
  <2> QED BY <2>2, <2>3, <2>4
<1>3. ASSUME NEW t \in Storages, ThreadClose(t) PROVE Kept(s)'
  <2>1. /\ thread' = [thread EXCEPT ![t] = "done"] /\ taken' = taken
        /\ written' = [written EXCEPT ![t] = taken[t]]
        BY <1>3 DEF ThreadClose
  <2>2. CASE s # t
    <3>1. taken'[s] = taken[s] /\ written'[s] = written[s] /\ thread'[s] = thread[s]
          BY <1>1, <2>1, <2>2
    <3> QED BY <1>1, <3>1 DEF Kept
  <2>3. CASE s = t
    <3>1. written'[s] = taken'[s] /\ thread'[s] = "done"
          BY <1>1, <2>1, <2>3
    <3> QED BY <3>1 DEF Kept
  <2> QED BY <2>2, <2>3
\* The other steps of a thread, which is not done.
<1>4. ASSUME NEW t \in Storages, ThreadOpen(t) \/ ThreadGet(t) \/ ThreadFails(t) \/ ThreadGivesUp(t)
      PROVE  Kept(s)'
  <2>1. /\ thread[t] \notin {"done", "killed"} /\ UNCHANGED <<taken, written>>
        /\ \E pc : thread' = [thread EXCEPT ![t] = pc] /\ pc # "done"
    <3>1. CASE ThreadGet(t)
      <4>1. thread[t] \in Polls /\ out[t] \in Queues(1..Blocks)
            BY <3>1, StorageFacts DEF ThreadGet, IInv
      <4>2. PcAfter(thread[t], out[t]) # "done"
            BY <4>1, PollFacts
      <4> QED BY <3>1, <4>1, <4>2 DEF ThreadGet, Polls
    <3> QED BY <1>4, <3>1 DEF ThreadOpen, ThreadFails, ThreadGivesUp
  <2>2. thread'[s] # "done" \/ thread'[s] = thread[s]
        BY <1>1, <2>1
  <2>3. thread[s] \in {"done", "killed"} => thread'[s] = thread[s]
        BY <1>1, <2>1
  <2> QED BY <1>1, <2>1, <2>2, <2>3 DEF Kept
<1>5. ASSUME UNCHANGED <<taken, written>>,
             UNCHANGED thread \/ thread'[s] = "killed" \/ (thread[s] = "idle" /\ thread'[s] = "opening")
      PROVE  Kept(s)'
      BY <1>1, <1>5 DEF Kept
<1>6. CASE Reader /\ UNCHANGED multiVars
      BY <1>5, <1>6 DEF multiVars
<1>7. CASE Writer
  <2>1. CASE StartThreads
    <3>1. thread[s] = "idle"
          BY <2>1 DEF StartThreads, IInv, Phases
    <3> QED BY <1>5, <2>1, <3>1 DEF StartThreads
  <2>2. CASE GetMessages \/ Send \/ OneFailsAllFail \/ SendFinish \/ JoinThreads
        BY <1>5, <2>2 DEF GetMessages, Send, OneFailsAllFail, SendFinish, JoinThreads, multiVars
  <2> QED BY <1>7, <2>1, <2>2 DEF Writer
<1>8. CASE Main
      BY <1>5, <1>8 DEF Main, PutMetadata, multiVars
<1>9. CASE KilledAll
      BY <1>5, <1>9 DEF KilledAll
<1>10. CASE UNCHANGED vars
      BY <1>5, <1>10 DEF vars, multiVars
<1> QED BY <1>2, <1>3, <1>4, <1>6, <1>7, <1>8, <1>9, <1>10 DEF Next, Thread

\* For any number of storages of any kind, any queue size and any faults: a storage whose
\* thread ended well holds the whole backup once its metadata is there; a failure that nobody
\* notices came after all but QueueSize + 1 blocks were taken, of which a file is short, while
\* ftp, swift and s3 may hold nothing.
THEOREM LossIsBoundedAlways == Spec => []LossIsBounded
<1> DEFINE Inv == IInv /\ \A s \in Storages : Kept(s)
<1>1. Init => Inv
      BY InitIInv, KeptInit
<1>2. Inv /\ [Next]_vars => Inv'
      BY InvStep, KeptStep
<1>3. Inv => LossIsBounded
  <2> SUFFICES ASSUME Inv PROVE LossIsBounded
      OBVIOUS
  <2>1. ASSUME NEW s \in Storages PROVE \A i \in DOMAIN written[s] : written[s][i] = i
    <3>1. taken[s] \in Seq(1..Blocks) /\ Follow(taken[s], 0)
          BY StorageFacts DEF IInv, Way
    <3>2. Len(taken[s]) \in Nat /\ DOMAIN taken[s] = 1..Len(taken[s])
          BY <3>1, LenProperties
    <3>3. \A i \in DOMAIN taken[s] : taken[s][i] = i
          BY <3>1, <3>2 DEF Follow
    <3>4. written[s] = taken[s] \/ written[s] = <<>>
          BY DEF Kept
    <3> QED BY <3>3, <3>4
  <2>2. ASSUME NEW s \in Storages, meta[s] # {}
        PROVE  \/ Blocks - Len(written[s]) = 0
               \/ /\ thread[s] # "done" /\ Blocks - Len(taken[s]) <= QueueSize + 1
                  /\ s \in AtEnd \/ Blocks - Len(written[s]) <= QueueSize + 1
    <3>1. /\ Len(taken[s]) \in Nat /\ QueueSize \in Nat /\ Blocks \in Nat
          /\ taken[s] \in Seq(1..Blocks)
          BY StorageFacts, BlocksAssumption, QueueSizeAssumption DEF IInv
    <3>2. Blocks - Len(taken[s]) <= IF thread[s] = "done" THEN 0 ELSE QueueSize + 1
          BY <2>2 DEF IInv, Short
    <3>3. Len(taken[s]) <= Blocks
      <4> SUFFICES ASSUME Len(taken[s]) # 0 PROVE Len(taken[s]) <= Blocks
          BY <3>1
      <4>1. Len(taken[s]) \in 1..Len(taken[s])
            BY <3>1
      <4>2. taken[s][Len(taken[s])] = 0 + Len(taken[s])
            BY <4>1 DEF IInv, Way, Follow
      <4>3. taken[s][Len(taken[s])] \in 1..Blocks
            BY <3>1, <4>1, ElementOfSeq
      <4> QED BY <3>1, <4>2, <4>3
    <3>4. written[s] = taken[s] \/ (s \in AtEnd /\ written[s] = <<>> /\ thread[s] # "done")
          BY DEF Kept
    <3>5. CASE written[s] = taken[s]
      <4> DEFINE w == Len(taken[s])
      <4>1. w \in Nat /\ w <= Blocks /\ Len(written[s]) = w
            BY <3>1, <3>3, <3>5
      <4>2. Blocks - w <= IF thread[s] = "done" THEN 0 ELSE QueueSize + 1
            BY <3>2
      <4> HIDE DEF w
      <4>3. CASE thread[s] = "done"
            BY <3>1, <4>1, <4>2, <4>3
      <4>4. CASE thread[s] # "done"
            BY <4>1, <4>2, <4>4 DEF w
      <4> QED BY <4>3, <4>4
    <3>6. CASE s \in AtEnd /\ written[s] = <<>> /\ thread[s] # "done"
          BY <3>2, <3>6
    <3> QED BY <3>4, <3>5, <3>6
  <2> QED BY <2>1, <2>2 DEF IInv, LossIsBounded
<1> QED BY <1>1, <1>2, <1>3, PTL DEF Spec
=============================================================================
