----------------------------- MODULE RichQueue -----------------------------
(***************************************************************************)
(* freezer.utils.streaming.RichQueue: a bounded queue between two threads, *)
(* with two flags that any thread may read or set without a lock.  The     *)
(* one-second timeouts of put and get make their callers look at the       *)
(* flags; here a caller of a full or an empty queue may look at any time.  *)
(***************************************************************************)
EXTENDS Naturals, Sequences

CONSTANT QueueSize

ASSUME QueueSizeAssumption == QueueSize \in Nat \ {0}

Queues(M) == [data : Seq(M), finish : BOOLEAN, stop : BOOLEAN]
NewQueue  == [data |-> <<>>, finish |-> FALSE, stop |-> FALSE]

IsFull(q)      == Len(q.data) >= QueueSize
Put(q, m)      == [q EXCEPT !.data = Append(@, m)]
Finish(q)      == [q EXCEPT !.finish = TRUE]
ForceStop(q)   == [q EXCEPT !.stop = TRUE]

(* A thread that iterates get_messages: "polling" is the first half of     *)
(* has_more (check_stop, then the finish flag), "deciding" its second half *)
(* (is the queue empty), "getting" the get, "writing" the body of the loop.*)
Polls   == {"polling", "deciding", "getting"}
Ended   == {"done", "failed"}
Threads == Polls \cup Ended \cup {"idle", "opening", "writing", "closing", "joining", "killed"}

Takes(pc, q) == pc = "getting" /\ q.data # <<>>

\* Mutant of PcAfter: has_more looks at the queue before the finish flag.
PcAfterSwapped(pc, q) ==
    CASE pc = "polling" /\ q.stop                        -> "failed"
      [] pc = "polling" /\ ~q.stop /\ q.data # <<>>      -> "getting"
      [] pc = "polling" /\ ~q.stop /\ q.data = <<>>      -> "deciding"
      [] pc = "deciding" /\ q.finish                      -> "closing"
      [] pc = "deciding" /\ ~q.finish                     -> "getting"
      [] Takes(pc, q)                                     -> "writing"
      [] pc = "getting" /\ q.data = <<>>                  -> "polling"

PcAfter(pc, q) ==
    CASE pc = "polling" /\ q.stop                -> "failed"
      [] pc = "polling" /\ ~q.stop /\ ~q.finish  -> "getting"
      [] pc = "polling" /\ ~q.stop /\ q.finish   -> "deciding"
      [] pc = "deciding" /\ q.data = <<>>        -> "closing"
      [] pc = "deciding" /\ q.data # <<>>        -> "getting"
      [] Takes(pc, q)                            -> "writing"
      [] pc = "getting" /\ q.data = <<>>         -> "polling"

QueueAfter(pc, q) == IF Takes(pc, q) THEN [q EXCEPT !.data = Tail(@)] ELSE q
=============================================================================
