--------------------------- MODULE PipelineProofs ---------------------------
(***************************************************************************)
(* BackupPipeline for every number of blocks, every queue size and every   *)
(* combination of faults: what a storage lists is complete, and the safety *)
(* part of Upload is implemented.                                          *)
(*                                                                         *)
(* The argument: the blocks on their way - the one the writer holds, those *)
(* in the queue, the one the reader has in hand - are exactly the blocks   *)
(* that follow the data file, up to the last one produced (InTransit).  So *)
(* once finish was seen and the queue was seen empty, in this order, the   *)
(* data file is the whole stream.                                          *)
(***************************************************************************)
EXTENDS BackupPipeline, TLAPS

ActiveWriter == {"opening", "polling", "deciding", "getting", "writing", "closing"}

InHand == IF writer = "writing" THEN 1 ELSE 0
Offered == IF reader = "putting" THEN 1 ELSE 0

\* While both threads are sound, the blocks on their way are consecutive.
InTransit ==
    writer \notin {"failed", "killed"} =>
        /\ writer = "writing" => held = Len(written) + 1
        /\ \A i \in 1..Len(queue.data) : queue.data[i] = Len(written) + InHand + i
        /\ reader \notin {"failed", "killed"} =>
             produced = Len(written) + InHand + Len(queue.data) + Offered

\* What the threads and the flags say of one another.
Phases ==
    /\ main = "starting" => reader = "idle" /\ writer = "idle" /\ meta = {}
    /\ main # "starting" /\ reader = "idle" => writer = "idle" /\ main = "failed" /\ meta = {}
    /\ writer = "idle" => reader \in {"idle", "killed"} /\ queue = NewQueue /\ written = <<>> /\ produced = 0
    /\ writer \in ActiveWriter => main = "running"
    /\ main = "running" => meta = {} /\ reader \notin {"idle", "killed"} /\ writer \notin {"idle", "killed"}
    /\ main \in {"metadata", "done"} => reader = "done" /\ writer = "done"
    /\ reader = "killed" <=> writer = "killed"
    /\ writer = "killed" => main = "killed"
    /\ main = "failed" => writer \notin ActiveWriter
    /\ writer # "joining"
    /\ reader = "putting" => produced > 0

Finishing ==
    /\ queue.finish => reader \in {"done", "killed"} /\ produced = Blocks
    /\ reader = "done" => queue.finish
    /\ writer \in {"deciding", "closing", "done"} => queue.finish
    /\ writer \in {"closing", "done"} => queue.data = <<>>

Listing ==
    /\ meta # {} => Len(written) = Blocks /\ "engine_metadata" \in meta
    /\ "metadata" \in meta => "listing" \in meta

IInv == TypeOK /\ StoredInOrder /\ InTransit /\ Phases /\ Finishing /\ Listing

-----------------------------------------------------------------------------
LEMMA QueueFacts ==
    ASSUME TypeOK
    PROVE  /\ queue.data \in Seq(1..Blocks) /\ queue.finish \in BOOLEAN /\ queue.stop \in BOOLEAN
           /\ Len(queue.data) \in Nat /\ Len(written) \in Nat
           /\ produced \in Nat /\ Blocks \in Nat /\ QueueSize \in Nat
BY BlocksAssumption, QueueSizeAssumption DEF TypeOK, EngineTypeOK, Queues

LEMMA InitIInv == Init => IInv
BY BlocksAssumption, QueueSizeAssumption
DEF Init, EngineInit, NewQueue, IInv, TypeOK, EngineTypeOK, Queues, Mains, Readers, Threads, Polls,
    Ended, Artifacts, StoredInOrder, InTransit, Phases, Finishing, Listing, ActiveWriter, InHand, Offered

LEMMA ReaderStep == IInv /\ Reader /\ UNCHANGED storageVars => IInv'
<1> SUFFICES ASSUME IInv, Reader, UNCHANGED storageVars PROVE IInv'
    OBVIOUS
<1> USE BlocksAssumption, QueueSizeAssumption, QueueFacts
<1> USE DEF IInv, TypeOK, EngineTypeOK, Queues, storageVars, StoredInOrder, InTransit, Phases,
        Finishing, Listing, ActiveWriter, InHand, Offered, Readers
<1>1. CASE ReadBlock
  <2> USE <1>1 DEF ReadBlock
  <2>1. TypeOK'
        OBVIOUS
  <2>2. InTransit'
        OBVIOUS
  <2> QED BY <2>1, <2>2
<1>2. CASE PutBlock
  <2> USE <1>2 DEF PutBlock, Put, IsFull
  <2>1. queue' = [data |-> Append(queue.data, produced), finish |-> queue.finish,
                  stop |-> queue.stop]
        OBVIOUS
  <2>2. /\ Append(queue.data, produced) \in Seq(1..Blocks)
        /\ Len(Append(queue.data, produced)) = Len(queue.data) + 1
        /\ \A i \in 1..Len(queue.data) + 1 : Append(queue.data, produced)[i] =
              IF i = Len(queue.data) + 1 THEN produced ELSE queue.data[i]
        OBVIOUS
  <2>3. /\ queue'.data = Append(queue.data, produced)
        /\ queue'.finish = queue.finish /\ queue'.stop = queue.stop
        BY <2>1
  <2>4. queue' \in [data : Seq(1..Blocks), finish : BOOLEAN, stop : BOOLEAN]
        BY <2>1, <2>2
  <2>5. TypeOK'
        BY <2>2, <2>3, <2>4
  <2>6. ASSUME writer \notin {"failed", "killed"}
        PROVE  InTransit'
    <3> DEFINE n == Len(written) + InHand
    <3>1. produced = n + Len(queue.data) + 1
          BY <2>6
    <3>2. \A i \in 1..Len(queue.data) : queue.data[i] = n + i
          BY <2>6
    <3>3. n \in Nat
          OBVIOUS
    <3> HIDE DEF n
    <3>4. \A i \in 1..Len(queue.data) + 1 : Append(queue.data, produced)[i] = n + i
      <4> SUFFICES ASSUME NEW i \in 1..Len(queue.data) + 1
                   PROVE  Append(queue.data, produced)[i] = n + i
          OBVIOUS
      <4>1. CASE i = Len(queue.data) + 1
            BY <2>2, <3>1, <3>3, <4>1
      <4>2. CASE i \in 1..Len(queue.data)
            BY <2>2, <3>2, <3>3, <4>2
      <4> QED BY <4>1, <4>2
    <3>5. \A i \in 1..Len(queue'.data) : queue'.data[i] = n + i
          BY <2>2, <2>3, <3>4
    <3>6. produced' = n + Len(queue'.data) + Offered'
          BY <2>2, <2>3, <3>1, <3>3
    <3>7. n = Len(written') + InHand'
          BY DEF n
    <3>8. writer' = "writing" => held' = Len(written') + 1
          BY <2>6
    <3> HIDE DEF InHand, Offered
    <3> QED BY <3>5, <3>6, <3>7, <3>8
  <2>7. InTransit'
        BY <2>6
  <2> QED BY <2>3, <2>5, <2>7 DEF NewQueue
<1>3. CASE PutIsStopped
      BY <1>3 DEF PutIsStopped
<1>4. CASE ReadEnds
      BY <1>4 DEF ReadEnds, Finish, NewQueue
<1>5. CASE ReadFails
      BY <1>5 DEF ReadFails, ForceStop, NewQueue
<1> QED BY <1>1, <1>2, <1>3, <1>4, <1>5 DEF Reader

LEMMA WriterStep == IInv /\ Writer => IInv'
<1> SUFFICES ASSUME IInv, Writer PROVE IInv'
    OBVIOUS
<1> USE BlocksAssumption, QueueSizeAssumption, QueueFacts
<1> USE DEF IInv, TypeOK, EngineTypeOK, Queues, storageVars, StoredInOrder, InTransit, Phases,
        Finishing, Listing, ActiveWriter, InHand, Offered, Threads, Polls, Ended
<1>1. CASE Open
      BY <1>1 DEF Open
<1>2. CASE GetMessages
  <2>1. CASE writer = "polling"
    <3>1. writer' \in {"failed", "getting", "deciding"} /\ (writer' = "deciding" => queue.finish)
          BY <1>2, <2>1 DEF GetMessages, PcAfter, Takes
    <3>2. UNCHANGED <<main, reader, produced, queue, held, written, meta>>
          BY <1>2, <2>1 DEF GetMessages, QueueAfter, Takes
    <3> QED BY <2>1, <3>1, <3>2
  <2>2. CASE writer = "deciding"
    <3>1. writer' = IF queue.data = <<>> THEN "closing" ELSE "getting"
          BY <1>2, <2>2 DEF GetMessages, PcAfter, Takes
    <3>2. UNCHANGED <<main, reader, produced, queue, held, written, meta>>
          BY <1>2, <2>2 DEF GetMessages, QueueAfter, Takes
    <3> QED BY <2>2, <3>1, <3>2
  <2>3. CASE writer = "getting" /\ queue.data = <<>>
    <3>1. writer' = "polling"
          BY <1>2, <2>3 DEF GetMessages, PcAfter, Takes
    <3>2. UNCHANGED <<main, reader, produced, queue, held, written, meta>>
          BY <1>2, <2>3 DEF GetMessages, QueueAfter, Takes
    <3> QED BY <2>3, <3>1, <3>2
  <2>4. CASE writer = "getting" /\ queue.data # <<>>
    <3>1. writer' = "writing" /\ held' = Head(queue.data)
          BY <1>2, <2>4 DEF GetMessages, PcAfter, Takes
    <3>2. queue' = [data |-> Tail(queue.data), finish |-> queue.finish, stop |-> queue.stop]
          BY <1>2, <2>4 DEF GetMessages, QueueAfter, Takes
    <3>3. UNCHANGED <<main, reader, produced, written, meta>>
          BY <1>2 DEF GetMessages
    <3>4. /\ Tail(queue.data) \in Seq(1..Blocks)
          /\ Len(queue.data) > 0 /\ Len(Tail(queue.data)) = Len(queue.data) - 1
          /\ \A i \in 1..Len(queue.data) - 1 : Tail(queue.data)[i] = queue.data[i + 1]
          /\ Head(queue.data) = queue.data[1]
          BY <2>4
    <3>5. TypeOK'
          BY <3>1, <3>2, <3>3, <3>4
    <3>6. held' = Len(written') + 1
          BY <2>4, <3>1, <3>3, <3>4
    <3>7. \A i \in 1..Len(queue'.data) : queue'.data[i] = Len(written') + 1 + i
          BY <2>4, <3>2, <3>3, <3>4
    <3>8. reader' \notin {"failed", "killed"} =>
            produced' = Len(written') + 1 + Len(queue'.data) + Offered'
          BY <2>4, <3>2, <3>3, <3>4
    <3>9. InTransit'
          BY <3>1, <3>6, <3>7, <3>8
    <3> QED BY <2>4, <3>1, <3>2, <3>3, <3>5, <3>9
  <2> QED BY <1>2, <2>1, <2>2, <2>3, <2>4 DEF GetMessages
<1>3. CASE Write
  <2>1. /\ writer = "writing" /\ writer' = "polling" /\ written' = Append(written, held)
        /\ UNCHANGED <<main, reader, produced, queue, held, meta>>
        BY <1>3 DEF Write
  <2>2. held = Len(written) + 1 /\ held \in 1..Blocks
        BY <2>1
  <2>3. /\ Append(written, held) \in Seq(1..Blocks)
        /\ Len(Append(written, held)) = Len(written) + 1
        /\ \A i \in 1..Len(written) + 1 : Append(written, held)[i] = i
        BY <2>2
  <2>4. TypeOK' /\ StoredInOrder'
        BY <2>1, <2>3
  <2>5. InTransit'
        BY <2>1, <2>3
  <2> QED BY <2>1, <2>4, <2>5
<1>4. CASE Close
      BY <1>4 DEF Close
<1>5. CASE WriteFails
      BY <1>5 DEF WriteFails, ForceStop, NewQueue
<1> QED BY <1>1, <1>2, <1>3, <1>4, <1>5 DEF Writer

LEMMA MainStep == IInv /\ (Main \/ (Killed /\ UNCHANGED storageVars)) => IInv'
<1> SUFFICES ASSUME IInv, Main \/ (Killed /\ UNCHANGED storageVars) PROVE IInv'
    OBVIOUS
<1> USE BlocksAssumption, QueueSizeAssumption, QueueFacts
<1> USE DEF IInv, TypeOK, EngineTypeOK, Queues, storageVars, StoredInOrder, InTransit, Phases,
        Finishing, Listing, ActiveWriter, InHand, Offered, Threads, Mains, Readers, Ended
<1>1. CASE Start /\ UNCHANGED storageVars
      BY <1>1 DEF Start, NewQueue
<1>2. CASE StartFails /\ UNCHANGED storageVars
      BY <1>2 DEF StartFails
<1>3. CASE Join /\ UNCHANGED storageVars
      BY <1>3 DEF Join
<1>4. CASE MetadataFails /\ UNCHANGED storageVars
      BY <1>4 DEF MetadataFails
<1>5. CASE PutMetadata
      BY <1>5 DEF PutMetadata, NextArtifact, Artifacts
<1>6. CASE Killed /\ UNCHANGED storageVars
      BY <1>6 DEF Killed
<1> QED BY <1>1, <1>2, <1>3, <1>4, <1>5, <1>6 DEF Main

LEMMA StutterStep == IInv /\ UNCHANGED vars => IInv'
BY DEF vars, engineVars, storageVars, IInv, TypeOK, EngineTypeOK, StoredInOrder, InTransit, Phases,
    Finishing, Listing, InHand, Offered

\* The inductive invariant, for any Blocks, QueueSize and Faults.
THEOREM Invariance == Spec => []IInv
<1>1. IInv /\ [Next]_vars => IInv'
  <2> SUFFICES ASSUME IInv, [Next]_vars PROVE IInv'
      OBVIOUS
  <2>1. CASE Reader /\ UNCHANGED storageVars
        BY <2>1, ReaderStep
  <2>2. CASE Writer
        BY <2>2, WriterStep
  <2>3. CASE Main
        BY <2>3, MainStep
  <2>4. CASE Killed /\ UNCHANGED storageVars
        BY <2>4, MainStep
  <2>5. CASE UNCHANGED vars
        BY <2>5, StutterStep
  <2> QED BY <2>1, <2>2, <2>3, <2>4, <2>5 DEF Next
<1> QED BY InitIInv, <1>1, PTL DEF Spec

\* Every variable keeps its type; the queue never exceeds QueueSize.
THEOREM TypeCorrect == Spec => []TypeOK
<1>1. IInv => TypeOK
      BY DEF IInv
<1> QED BY Invariance, <1>1, PTL

\* write_backup stores the blocks in the order the engine produced them.
THEOREM InOrder == Spec => []StoredInOrder
<1>1. IInv => StoredInOrder
      BY DEF IInv
<1> QED BY Invariance, <1>1, PTL

\* A backup that a storage lists is complete, whatever failed.
THEOREM Complete == Spec => []ListedIsComplete
<1>1. IInv => ListedIsComplete
  <2> SUFFICES ASSUME IInv, "listing" \in meta PROVE ListedIsComplete
      BY DEF ListedIsComplete
  <2> QED BY DEF IInv, Listing, ListedIsComplete
<1> QED BY Invariance, <1>1, PTL

-----------------------------------------------------------------------------
\* Every step of the pipeline is a step of Upload, or changes nothing there.
LEMMA RefinementStep == IInv /\ [Next]_vars => [Promise!Next]_Promise!vars
<1> SUFFICES ASSUME IInv, [Next]_vars PROVE [Promise!Next]_Promise!vars
    OBVIOUS
<1> USE DEF Promise!Next, Promise!vars, Promise!Store, Promise!List, Promise!Succeed, Promise!Fail
<1>1. CASE Reader /\ UNCHANGED storageVars
      BY <1>1 DEF Reader, ReadBlock, PutBlock, PutIsStopped, ReadEnds, ReadFails, storageVars, Outcome
<1>2. CASE Open \/ GetMessages \/ Close \/ WriteFails
      BY <1>2 DEF Open, GetMessages, Close, WriteFails, storageVars, Outcome
<1>3. CASE Write
  <2>1. /\ main = "running" /\ main' = main /\ meta = {} /\ meta' = meta
        /\ held = Len(written) + 1 /\ held \in 0..Blocks
        /\ written' = Append(written, held)
        BY <1>3 DEF Write, IInv, TypeOK, Phases, InTransit, ActiveWriter
  <2>2. Len(written) < Blocks
        BY <2>1, QueueFacts, BlocksAssumption DEF IInv
  <2> QED BY <2>1, <2>2 DEF Outcome
<1>4. CASE (Start \/ StartFails \/ Join \/ MetadataFails \/ Killed) /\ UNCHANGED storageVars
      BY <1>4 DEF Start, StartFails, Join, MetadataFails, Killed, storageVars, Outcome
<1>5. CASE PutMetadata
  <2>1. /\ main = "metadata" /\ written' = written
        /\ "listing" \in meta => Len(written) = Blocks
        BY <1>5 DEF PutMetadata, IInv, Listing
  <2>2. CASE "engine_metadata" \notin meta
        BY <1>5, <2>1, <2>2 DEF PutMetadata, NextArtifact, Outcome
  <2>3. CASE "engine_metadata" \in meta /\ "listing" \notin meta
    <3>1. Len(written) = Blocks
          BY <2>3 DEF IInv, Listing
    <3> QED BY <1>5, <2>1, <2>3, <3>1 DEF PutMetadata, NextArtifact, Outcome
  <2>4. CASE "engine_metadata" \in meta /\ "listing" \in meta
        BY <1>5, <2>1, <2>4 DEF PutMetadata, NextArtifact, Outcome
  <2> QED BY <2>2, <2>3, <2>4
<1>6. CASE UNCHANGED vars
      BY <1>6 DEF vars, engineVars, storageVars, Outcome
<1> QED BY <1>1, <1>2, <1>3, <1>4, <1>5, <1>6 DEF Next, Writer, Main

\* The safety part of the promise: the pipeline implements Upload.
THEOREM Refinement == Spec => Promise!SafeSpec
<1>1. Init => Promise!Init
      BY DEF Init, EngineInit, Promise!Init, Outcome
<1> QED BY Invariance, RefinementStep, <1>1, PTL DEF Spec, Promise!SafeSpec
=============================================================================
