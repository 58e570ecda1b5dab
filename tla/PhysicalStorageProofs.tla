------------------------ MODULE PhysicalStorageProofs ------------------------
(***************************************************************************)
(* PhysicalStorage for any number of agents and admin jobs at once, every  *)
(* kind of storage, backups and chains of every size, and any number of    *)
(* connections that drop, calls that fail and jobs that are killed.        *)
(*                                                                         *)
(* The argument has four parts, each of which has its conjuncts in IInv.   *)
(*                                                                         *)
(*  - Basics: a job has a number of its own, two that are at work ran      *)
(*    together (Overlap), and a job keeps what it has chosen (Local).      *)
(*  - Readable: an agent has written what comes before the call that it    *)
(*    makes next (Written), and a job that removes has found all metadata  *)
(*    before it touches data (Unseen). So what is listed is whole, unless  *)
(*    the two ran together. On swift this is shown as long as no chain has *)
(*    more metadata than a listing shows (AllIsListed): rmtree removes the *)
(*    first page of the metadata and then the first page of the data.      *)
(*  - An agent adds a level on top of all that it saw, so that what it did *)
(*    not see was made meanwhile (Above, EntriesApart); and what it builds *)
(*    on has every level below (Grounded, EntriesGrounded), which stays    *)
(*    until the chain is removed (SucceededKept).                          *)
(*  - Clearing: what is left of a chain is among what the job that removes *)
(*    it has found, and once it is gone nobody builds on it.               *)
(*                                                                         *)
(* The steps of the model are many and the invariants are about what is    *)
(* stored. So the lemmas come in layers: what each action does to each     *)
(* field (...Facts), what any step adds and takes (Changes), and then one  *)
(* lemma for each part of the invariant (Step...).                         *)
(***************************************************************************)
EXTENDS PhysicalStorage, FiniteSetTheorems, WellFoundedInduction, TLAPS

\* An agent that makes a backup.
Writing == {"open", "blocks", "drain", "close", "engine", "top", "metadir", "meta"}

\* p has chosen what its backup builds on.
Chosen(p) == agent[p].pc \in {"base"} \cup Writing

\* The level of the backup that p makes.
Target(p) == IF agent[p].pc = "base" THEN agent[p].made.level + 1 ELSE agent[p].made.level

\* What makes that a backup is listed.
EntryPart == IF Hierarchical THEN "metadir" ELSE "meta"
IsEntry(x) == x[2] = EntryPart

BeingRemoved == {r.zero : r \in removed}

\* No other job ran at the same time as i.
Undisturbed(i) == \A pair \in together : i \notin pair

Active(p) == agent[p].pc \notin Resting

\* Jobs are numbered by the clock.
Numbers ==
    /\ \A x \in store : x[1].zero < clock /\ x[1].time < clock
    /\ \A r \in removed : r.zero < clock /\ r.by < clock
    /\ \A i \in cleaned : i < clock
    /\ \A p \in Processes : Active(p) =>
        /\ agent[p].id \in 1..clock - 1 /\ agent[p].id \notin cleaned
        /\ agent[p].made \in Backup
        /\ agent[p].made.zero < clock /\ agent[p].made.time < clock
        /\ \A z \in agent[p].todo : z < clock

\* Two jobs that are at work run at the same time.
Overlap ==
    \A p, q \in Processes : Active(p) /\ Active(q) /\ p # q =>
        agent[p].id # agent[q].id /\ {agent[p].id, agent[q].id} \in together

\* What p knows of its own job.
Local(p) ==
    LET a == agent[p] IN
    /\ a.pc \in {"zeros", "increments"} => a.made = Full(p)
    /\ a.pc = "increments" => \E z \in 1..MaxTime : a.todo = {z}
    /\ a.pc = "base" => a.made.level < MaxLevel
    /\ a.pc \in Writing => a.made.time = a.id /\ (a.made.level = 0 => a.made.zero = a.id)
    /\ a.pc = "blocks" => a.count < Blocks
    /\ a.pc = "close" => a.count = Blocks
    /\ a.pc = "drain" => conf.kind = "s3"
    /\ a.pc \in {"top", "metadir"} => Hierarchical
    /\ a.pc \in {"top", "metadir", "meta"} => conf.kind # "s3"
    /\ a.pc = "rm meta" => \A x \in a.left : x[1].zero = a.made.zero /\ x[2] \in MetaParts
    /\ a.pc = "rm data" => \A x \in a.left : x[1].zero = a.made.zero /\ x[2] \in DataParts
    /\ a.pc \in {"rm meta", "rm data"} =>
           \E r \in removed : r.zero = a.made.zero /\ r.by = a.id

\* The storage by itself.
Kept ==
    /\ IsFiniteSet(store)
    /\ \A x \in store : x[2] \in {"metadir", "meta"} /\ x[1].level = 0 => x[1].time = x[1].zero
    /\ ~Hierarchical => \A x \in store : x[2] \notin {"metadir", "top"}
    /\ \A x \in store : x[2] \in {"metadir", "meta"} => x = Part(x[1], x[2])

\* A job has one backup.
OneMeta ==
    ~Hierarchical =>
        /\ \A p \in Processes : Active(p) => \A x \in store : x[2] = "meta" => x[1].time # agent[p].id
        /\ \A x, y \in store : x[2] = "meta" /\ y[2] = "meta" /\ x[1].time = y[1].time => x = y

\* The data so far.
Written(p) ==
    LET a == agent[p] IN
    \/ a.pc \notin Writing
    \/ Disturbed(a.made)
    \/ /\ a.pc = "blocks" /\ conf.kind = "swift" => \A n \in 1..a.count : Block(a.made, n) \in store
       /\ a.pc = "blocks" /\ conf.kind \in {"ssh", "local"} => Block(a.made, a.count) \in store
       /\ a.pc = "close" /\ conf.kind = "swift" => \A n \in 1..Blocks : Block(a.made, n) \in store
       /\ a.pc = "close" /\ conf.kind \in {"ssh", "local"} => Block(a.made, Blocks) \in store
       /\ a.pc = "engine" /\ conf.kind # "s3" => Content(a.made) \subseteq store
       /\ a.pc \in {"top", "metadir", "meta"} => Whole(a.made)

\* What is listed is whole, unless it was disturbed.
EntriesWhole == \A x \in store : IsEntry(x) => Disturbed(x[1]) \/ Whole(x[1])

\* What a job that removes does not see is of jobs that run at the same time.
Unseen(p) ==
    LET a == agent[p] IN
    \A x \in store : IsEntry(x) /\ x[1].zero = a.made.zero =>
        /\ a.pc = "rm meta" /\ ~Hierarchical => x \in a.left \/ {a.id, x[1].time} \in together
        /\ a.pc = "rm data" => {a.id, x[1].time} \in together

\* What is listed at the level of p or above it was made while p ran.
Above(p) ==
    Chosen(p) /\ Target(p) > 0 =>
        \A x \in store : IsEntry(x) /\ x[1].zero = agent[p].made.zero /\ x[1].level >= Target(p) =>
            \/ {x[1].time, agent[p].id} \in together
            \/ agent[p].pc # "base" /\ x[1] = agent[p].made

\* So was one of two backups of one level.
EntriesApart ==
    \A x, y \in store :
        IsEntry(x) /\ IsEntry(y) /\ x[1].zero = y[1].zero /\ x[1].level = y[1].level =>
            x[1] = y[1] \/ {x[1].time, y[1].time} \in together

\* A backup of each level below n.
HasLevels(z, n) ==
    \A l \in 0..MaxLevel : l < n => \E x \in store : IsEntry(x) /\ x[1].zero = z /\ x[1].level = l

\* What p builds on is there, and the directory of its metadata.
Grounded(p) ==
    LET a == agent[p] IN
    Chosen(p) /\ a.made.zero \notin BeingRemoved =>
        /\ HasLevels(a.made.zero, Target(p))
        /\ a.pc \in {"metadir", "meta"} /\ Hierarchical => Top(a.made) \in store

\* So is what a listed backup builds on.
EntriesGrounded ==
    \A x \in store : IsEntry(x) /\ x[1].zero \notin BeingRemoved =>
        HasLevels(x[1].zero, x[1].level) /\ (Hierarchical => Top(x[1]) \in store)

\* A success has stored its metadata, and nobody has removed it.
SucceededKept ==
    \A b \in succeeded : b.zero \notin BeingRemoved =>
        Part(b, "meta") \in store /\ Part(b, EntryPart) \in store

\* A listing of the job of r did not show all there was.
IsShort(r) == \E s \in removed : s.zero = r.zero /\ s.by = r.by /\ s.short

\* Nothing is left of the chain z, but for what i did not list.
Cleared(z, i) ==
    \/ \A x \in store : x[1].zero # z
    \/ \E s \in removed : s.zero = z /\ s.by = i /\ s.short

\* p removes, and the removal r is its own: what is left of r is still to be found, or
\* found already.
AtWork(p, r) ==
    LET a == agent[p] IN
    \/ IsShort(r)
    \/ a.pc = "pick" /\ Cleared(r.zero, r.by)
    \/ a.pc \in {"rm meta", "rm data"} /\ a.made.zero # r.zero /\ Cleared(r.zero, r.by)
    \/ /\ a.pc = "rm meta" /\ a.made.zero = r.zero
       /\ Tree(r.zero, MetaParts) \subseteq a.left
    \/ /\ a.pc = "rm data" /\ a.made.zero = r.zero
       /\ Tree(r.zero, MetaParts) = {} /\ Tree(r.zero, DataParts) \subseteq a.left

\* Nothing is left, and no agent is about to add to it.
Done(r) ==
    \/ IsShort(r)
    \/ /\ \A x \in store : x[1].zero # r.zero
       /\ \A p \in Processes : agent[p].pc \in Working =>
              /\ agent[p].made.zero # r.zero
              /\ agent[p].pc = "increments" => r.zero \notin agent[p].todo

\* A removal by a job that is alone so far.
Clearing ==
    \A r \in removed : Undisturbed(r.by) =>
        /\ \A p \in Processes : Active(p) /\ agent[p].id = r.by => AtWork(p, r)
        /\ r.by \in cleaned => Done(r)

\* What each job knows of itself, and of its number.
Basics == TypeOK /\ Numbers /\ Overlap /\ (\A p \in Processes : Local(p)) /\ Kept

\* What is listed is whole.
Readable == OneMeta /\ (\A p \in Processes : Written(p) /\ Unseen(p)) /\ EntriesWhole

\* No chain on swift has more metadata than a listing shows.
AllIsListed ==
    conf.kind = "swift" => \A z \in 1..MaxTime : Cardinality(Tree(z, MetaParts)) <= Page

IInv ==
    /\ Basics
    /\ \A p \in Processes : Above(p) /\ Grounded(p)
    /\ EntriesApart /\ EntriesGrounded /\ SucceededKept
    /\ Clearing

-----------------------------------------------------------------------------
(* What the actions do to the state, field by field.                       *)

Others(p) == \A q \in Processes : q # p => agent'[q] = agent[q]

LEMMA BecomesFacts ==
    ASSUME TypeOK, NEW p \in Processes, NEW job \in Job, Becomes(p, job)
    PROVE  agent' \in [Processes -> Job] /\ Others(p) /\ agent'[p] = job
BY DEF TypeOK, Becomes, Others

\* All fields but those of the connection.
Alike(p, job) ==
    /\ agent'[p].pc = job.pc /\ agent'[p].id = job.id /\ agent'[p].made = job.made
    /\ agent'[p].count = job.count /\ agent'[p].todo = job.todo /\ agent'[p].left = job.left

LEMMA DoesFacts ==
    ASSUME TypeOK, NEW p \in Processes, NEW pc, NEW job \in Job, Does(p, pc, job)
    PROVE  /\ agent[p].pc = pc /\ Able(p)
           /\ agent' \in [Processes -> Job] /\ Others(p) /\ Alike(p, job)
<1>1. [job EXCEPT !.up = @ \/ Reconnects(p)] \in Job
      BY DEF Job
<1>2. /\ agent[p].pc = pc /\ Able(p)
      /\ Becomes(p, [job EXCEPT !.up = @ \/ Reconnects(p)])
      BY DEF Does
<1>3. /\ agent' \in [Processes -> Job] /\ Others(p)
      /\ agent'[p] = [job EXCEPT !.up = @ \/ Reconnects(p)]
      BY <1>1, <1>2, BecomesFacts
<1>4. Alike(p, job)
      BY <1>3 DEF Alike, Job
<1> QED BY <1>2, <1>3, <1>4

LEMMA Typed ==
    ASSUME TypeOK, NEW p \in Processes
    PROVE  /\ agent[p] \in Job /\ agent[p].id \in 0..MaxTime
           /\ agent[p].made \in Backup \cup {NoBackup} /\ agent[p].count \in 0..Blocks
           /\ agent[p].tries \in 0..Tries - 1 /\ agent[p].todo \subseteq 1..MaxTime
           /\ agent[p].left \subseteq Stored
           /\ agent[p].pc \in Working \cup Admin \cup Resting
BY DEF TypeOK, Job

LEMMA IdleFacts ==
    /\ Idle \in Job
    /\ Idle.pc = "idle" /\ Idle.count = 0 /\ Idle.tries = 0 /\ Idle.todo = {} /\ Idle.left = {}
<1>1. /\ 0 \in 0..MaxTime /\ 0 \in 0..Blocks /\ 0 \in 0..Tries - 1
      BY StorageConstants
<1>2. /\ FALSE \in BOOLEAN /\ {} \in SUBSET (1..MaxTime) /\ {} \in SUBSET Stored
      /\ "idle" \in Working \cup Admin \cup Resting
      BY DEF Resting
<1> QED BY <1>1, <1>2 DEF Job, Idle

LEMMA Restable == ASSUME NEW pc \in Resting PROVE pc \in Working \cup Admin \cup Resting
OBVIOUS

LEMMA EndFacts ==
    ASSUME TypeOK, NEW p \in Processes, NEW pc \in Resting, End(p, pc)
    PROVE  agent' \in [Processes -> Job] /\ Others(p) /\ agent'[p].pc = pc
<1> DEFINE job == [Idle EXCEPT !.pc = pc]
<1>1. job \in Job /\ job.pc = pc
  <2>1. ASSUME NEW i \in Job PROVE [i EXCEPT !.pc = pc] \in Job /\ [i EXCEPT !.pc = pc].pc = pc
        BY Restable DEF Job
  <2> QED BY <2>1, IdleFacts
<1> HIDE DEF job
<1>2. Becomes(p, job)
      BY DEF End, job
<1> QED BY <1>1, <1>2, BecomesFacts

LEMMA BeginFacts ==
    ASSUME TypeOK, NEW p \in Processes, NEW pc \in Working \cup Admin, Begin(p, pc)
    PROVE  /\ agent' \in [Processes -> Job] /\ Others(p) /\ agent[p].pc \in Resting
           /\ clock \in 1..MaxTime /\ clock' = clock + 1
           /\ agent'[p].pc = pc /\ agent'[p].id = clock
           /\ agent'[p].made = [zero |-> clock, level |-> 0, time |-> clock]
           /\ agent'[p].made \in Backup
           /\ agent'[p].todo = {} /\ agent'[p].left = {} /\ agent'[p].count = 0
           /\ together' = together \cup {{clock, agent[q].id} : q \in Running}
<1> DEFINE full == [zero |-> clock, level |-> 0, time |-> clock]
           job  == [Idle EXCEPT !.pc = pc, !.id = clock, !.up = TRUE, !.made = full]
<1>1. clock \in 1..MaxTime /\ clock' = clock + 1 /\ Becomes(p, job)
      /\ together' = together \cup {{clock, agent[q].id} : q \in Running}
      BY StorageConstants DEF Begin, TypeOK
<1>2. full \in Backup
      BY <1>1, StorageConstants DEF Backup
<1>3. /\ job \in Job /\ job.pc = pc /\ job.id = clock /\ job.made = full
      /\ job.todo = {} /\ job.left = {} /\ job.count = 0
  <2> HIDE DEF full
  <2>1. ASSUME NEW i \in Job
        PROVE  LET j == [i EXCEPT !.pc = pc, !.id = clock, !.up = TRUE, !.made = full]
               IN  /\ j \in Job /\ j.pc = pc /\ j.id = clock /\ j.made = full
                   /\ j.todo = i.todo /\ j.left = i.left /\ j.count = i.count
    <3>1. clock \in 0..MaxTime /\ pc \in Working \cup Admin \cup Resting /\ TRUE \in BOOLEAN
          /\ full \in Backup \cup {NoBackup}
          BY <1>1, <1>2, StorageConstants
    <3> QED BY <3>1 DEF Job
  <2> QED BY <2>1, IdleFacts
<1> HIDE DEF full, job
<1>4. agent' \in [Processes -> Job] /\ Others(p) /\ agent'[p] = job
      BY <1>1, <1>3, BecomesFacts
<1>5. agent[p].pc \in Resting
  <2>1. Processes \ Running # {}
        BY DEF Begin, Running
  <2>2. p \in Processes \ Running
        BY <2>1 DEF Begin
  <2> QED BY <2>2 DEF Running
<1> QED BY <1>1, <1>2, <1>3, <1>4, <1>5 DEF full

LEMMA LeastNatural ==
    ASSUME NEW T \in SUBSET Nat, T # {}
    PROVE  \E x \in T : \A y \in T : x <= y
<1> DEFINE R == StrictSubsetOrdering(Nat)
           F == FiniteSubsetsOf(Nat)
           I == {1..x : x \in T}
<1>1. IsWellFoundedOn(R, F)
      BY FS_StrictSubsetOrderingWellFounded
<1>2. I \subseteq F /\ I # {}
  <2>1. ASSUME NEW x \in T PROVE IsFiniteSet(1..x) /\ 1..x \subseteq Nat
    <3>1. x \in Int /\ 1 \in Int
          OBVIOUS
    <3>2. IsFiniteSet(1..x)
          BY <3>1, FS_Interval
    <3> QED BY <3>2
  <2> QED BY <2>1 DEF FiniteSubsetsOf
<1>3. \A x, y \in T : y < x => <<1..y, 1..x>> \in R
  <2> SUFFICES ASSUME NEW x \in T, NEW y \in T, y < x
               PROVE  1..y \subseteq 1..x /\ 1..y # 1..x
      BY DEF StrictSubsetOrdering
  <2>1. x \in 1..x /\ x \notin 1..y
        OBVIOUS
  <2> QED BY <2>1
<1> HIDE DEF R, F
<1>4. PICK i \in I : \A j \in I : ~(<<j, i>> \in R)
      BY <1>1, <1>2, WFMin
<1>5. PICK x \in T : i = 1..x
      BY <1>4
<1>6. \A y \in T : ~(y < x)
      BY <1>3, <1>4, <1>5
<1> QED BY <1>6

LEMMA MaxFacts ==
    ASSUME NEW S \in SUBSET Nat, S # {}, NEW n \in Nat, \A x \in S : x <= n
    PROVE  Max(S) \in S /\ \A x \in S : x <= Max(S)
<1> DEFINE T == {m \in Nat : \A x \in S : x <= m}
<1>1. PICK m \in T : \A y \in T : m <= y
      BY LeastNatural
<1>2. m \in S
  <2> SUFFICES ASSUME m \notin S PROVE FALSE
      OBVIOUS
  <2>1. \A x \in S : x <= m /\ x # m
        BY <1>1
  <2>2. m # 0 /\ m \in Nat
    <3>1. PICK x \in S : TRUE
          OBVIOUS
    <3> QED BY <1>1, <2>1, <3>1
  <2>3. \A x \in S : x <= m - 1
        BY <2>1, <2>2
  <2>4. m - 1 \in T
        BY <2>2, <2>3
  <2>5. m <= m - 1
        BY <1>1, <2>4
  <2> QED BY <2>2, <2>5
<1>3. \E x \in S : \A y \in S : x >= y
      BY <1>1, <1>2
<1>4. Max(S) \in S /\ \A y \in S : Max(S) >= y
      BY <1>3 DEF Max
<1> QED BY <1>4

LEMMA ZerosFacts ==
    ASSUME TypeOK
    PROVE  /\ Zeros \subseteq 1..MaxTime /\ \A z \in Zeros : \E x \in store : x[1].zero = z
           /\ Zeros # {} => Max(Zeros) \in Zeros
<1>1. Zeros \subseteq 1..MaxTime /\ \A z \in Zeros : \E x \in store : x[1].zero = z
  <2>1. \A x \in store : x[1].zero \in 1..MaxTime
        BY DEF TypeOK, Stored, Backup
  <2> QED BY <2>1 DEF Zeros
<1>2. Zeros # {} => Max(Zeros) \in Zeros
  <2>1. Zeros \in SUBSET Nat /\ \A z \in Zeros : z <= MaxTime
        BY <1>1, StorageConstants
  <2> HIDE DEF Zeros
  <2> QED BY <2>1, MaxFacts, StorageConstants
<1> QED BY <1>1, <1>2

LEMMA ListZerosFacts ==
    ASSUME TypeOK, NEW p \in Processes, ListZeros(p), agent[p].pc = "zeros" => agent[p].made = Full(p)
    PROVE  /\ agent[p].pc = "zeros" /\ Able(p) /\ UNCHANGED unwritten
           /\ agent' \in [Processes -> Job] /\ Others(p) /\ agent'[p].id = agent[p].id
           /\ agent'[p].left = agent[p].left /\ agent'[p].count = agent[p].count
           /\ agent'[p].made = agent[p].made
           /\ \/ agent'[p].pc = "open" /\ agent'[p].todo = agent[p].todo
              \/ agent'[p].pc = "increments" /\ \E z \in Zeros : agent'[p].todo = {z}
<1>1. agent[p].pc = "zeros"
      BY DEF ListZeros, Does
<1>2. CASE Zeros = {} \/ conf.relative
  <2> DEFINE job == [agent[p] EXCEPT !.pc = "open", !.made = Full(p)]
  <2>1. Does(p, "zeros", job)
        BY <1>2 DEF ListZeros
  <2>2. /\ job \in Job /\ job.pc = "open" /\ job.id = agent[p].id /\ job.made = agent[p].made
        /\ job.left = agent[p].left /\ job.count = agent[p].count /\ job.todo = agent[p].todo
        BY <1>1, Typed DEF Job, Working
  <2> HIDE DEF job
  <2> QED BY <2>1, <2>2, DoesFacts DEF Alike, ListZeros
<1>3. CASE ~(Zeros = {} \/ conf.relative)
  <2> DEFINE job == [agent[p] EXCEPT !.pc = "increments", !.todo = {Max(Zeros)}]
  <2>1. Does(p, "zeros", job)
        BY <1>3 DEF ListZeros
  <2>2. Max(Zeros) \in Zeros /\ {Max(Zeros)} \in SUBSET (1..MaxTime)
        BY <1>3, ZerosFacts
  <2>3. /\ job \in Job /\ job.pc = "increments" /\ job.id = agent[p].id /\ job.made = agent[p].made
        /\ job.left = agent[p].left /\ job.count = agent[p].count /\ job.todo = {Max(Zeros)}
        BY <2>2, Typed DEF Job, Working
  <2> HIDE DEF job
  <2> QED BY <2>1, <2>2, <2>3, DoesFacts DEF Alike, ListZeros
<1> QED BY <1>2, <1>3

\* All that Alike speaks of but the pc.
Stays(p) ==
    /\ agent'[p].id = agent[p].id /\ agent'[p].made = agent[p].made
    /\ agent'[p].count = agent[p].count /\ agent'[p].todo = agent[p].todo
    /\ agent'[p].left = agent[p].left

LEMMA MoveFacts ==
    ASSUME TypeOK, NEW p \in Processes, NEW from, NEW to \in Working \cup Admin,
           Does(p, from, [agent[p] EXCEPT !.pc = to])
    PROVE  /\ agent[p].pc = from /\ Able(p)
           /\ agent' \in [Processes -> Job] /\ Others(p) /\ agent'[p].pc = to /\ Stays(p)
<1> DEFINE job == [agent[p] EXCEPT !.pc = to]
<1>1. /\ job \in Job /\ job.pc = to /\ job.id = agent[p].id /\ job.made = agent[p].made
      /\ job.left = agent[p].left /\ job.count = agent[p].count /\ job.todo = agent[p].todo
      BY Typed DEF Job
<1>2. Does(p, from, job)
      OBVIOUS
<1> HIDE DEF job
<1> QED BY <1>1, <1>2, DoesFacts DEF Alike, Stays

LEMMA ListIncrementsFacts ==
    ASSUME TypeOK, Numbers, NEW p \in Processes, ListIncrements(p), Local(p)
    PROVE  /\ agent[p].pc = "increments" /\ Able(p) /\ UNCHANGED unwritten
           /\ agent' \in [Processes -> Job] /\ Others(p) /\ agent'[p].id = agent[p].id
           /\ agent'[p].left = agent[p].left /\ agent'[p].count = agent[p].count
           /\ agent'[p].todo = agent[p].todo
           /\ \/ agent'[p].pc = "open" /\ agent'[p].made = Full(p)
              \/ /\ agent'[p].pc = "base" /\ agent'[p].made \in Backup
                 /\ agent'[p].made.zero \in agent[p].todo
                 /\ agent'[p].made.level < MaxLevel
                 /\ \E x \in store : x[2] = EntryPart /\ x[1] = agent'[p].made
                 /\ \A x \in store : x[2] = EntryPart /\ x[1].zero = agent'[p].made.zero =>
                        x[1].level <= agent'[p].made.level
<1>1. /\ agent[p].pc = "increments" /\ Able(p) /\ UNCHANGED unwritten
      BY DEF ListIncrements
<1>2. PICK z \in 1..MaxTime : agent[p].todo = {z} /\ Max(agent[p].todo) = z
  <2>1. PICK z \in 1..MaxTime : agent[p].todo = {z}
        BY <1>1 DEF Local
  <2>2. {z} \in SUBSET Nat /\ {z} # {} /\ z \in Nat /\ \A x \in {z} : x <= z
        BY StorageConstants
  <2>3. Max({z}) \in {z}
        BY <2>2, MaxFacts
  <2> QED BY <2>1, <2>3
<1> DEFINE entries == Entries(z)
           levels  == {b.level : b \in entries}
           highest == Max(levels)
<1>3. /\ entries \subseteq Backup
      /\ \A b \in entries : b.zero = z /\ \E x \in store : x[2] = EntryPart /\ x[1] = b
      /\ \A x \in store : x[2] = EntryPart /\ x[1].zero = z => x[1] \in entries
  <2>1. store \subseteq Stored
        BY DEF TypeOK
  <2>2. \A x \in store : x[1] \in Backup
        BY <2>1 DEF Stored
  <2> QED BY <2>2 DEF Entries, EntryPart
<1>4. entries # {}
      BY <1>1, <1>2 DEF Able, Never
<1>5. highest \in levels /\ \A b \in entries : b.level <= highest
  <2>1. levels \in SUBSET Nat /\ levels # {} /\ \A l \in levels : l <= MaxLevel
        BY <1>3, <1>4, StorageConstants DEF Backup
  <2> HIDE DEF entries
  <2>2. highest \in levels /\ \A l \in levels : l <= highest
    <3> HIDE DEF levels
    <3> QED BY <2>1, MaxFacts, StorageConstants
  <2> QED BY <2>2
<1> HIDE DEF entries
<1>6. CASE MaxLevel <= highest
  <2> DEFINE job == [agent[p] EXCEPT !.pc = "open", !.made = Full(p)]
  <2>1. Does(p, "increments", job)
        BY <1>2, <1>6 DEF ListIncrements, entries
  <2>2. Full(p) \in Backup \cup {NoBackup} /\ "open" \in Working \cup Admin \cup Resting
    <3>1. agent[p].id \in 1..MaxTime
          BY <1>1, StorageConstants DEF Numbers, Active, Resting, TypeOK
    <3> QED BY <3>1, StorageConstants DEF Full, Backup, Working
  <2>3. /\ job \in Job /\ job.pc = "open" /\ job.id = agent[p].id /\ job.made = Full(p)
        /\ job.left = agent[p].left /\ job.count = agent[p].count /\ job.todo = agent[p].todo
        BY <2>2, Typed DEF Job
  <2> HIDE DEF job
  <2> QED BY <1>1, <2>1, <2>3, DoesFacts DEF Alike
<1>7. CASE ~(MaxLevel <= highest)
  <2>1. PICK prev \in entries :
            /\ prev.level = highest
            /\ Does(p, "increments", [agent[p] EXCEPT !.pc = "base", !.made = prev])
        BY <1>2, <1>7 DEF ListIncrements, entries
  <2> DEFINE job == [agent[p] EXCEPT !.pc = "base", !.made = prev]
  <2>2. prev \in Backup \cup {NoBackup} /\ "base" \in Working \cup Admin \cup Resting
        BY <1>3 DEF Working
  <2>3. /\ job \in Job /\ job.pc = "base" /\ job.id = agent[p].id /\ job.made = prev
        /\ job.left = agent[p].left /\ job.count = agent[p].count /\ job.todo = agent[p].todo
        BY <2>2, Typed DEF Job
  <2>4. Does(p, "increments", job)
        BY <2>1
  <2> HIDE DEF job
  <2>5. /\ agent' \in [Processes -> Job] /\ Others(p) /\ Alike(p, job)
        BY <2>3, <2>4, DoesFacts
  <2>6. prev.level \in Nat /\ prev.level < MaxLevel
        BY <1>3, <1>7, <2>1, StorageConstants DEF Backup
  <2>7. \A x \in store : x[2] = EntryPart /\ x[1].zero = z => x[1].level <= prev.level
        BY <1>3, <1>5, <2>1
  <2> QED BY <1>1, <1>2, <1>3, <2>3, <2>5, <2>6, <2>7 DEF Alike
<1> QED BY <1>6, <1>7

LEMMA GetBaseFacts ==
    ASSUME TypeOK, Numbers, NEW p \in Processes, GetBase(p), Local(p)
    PROVE  /\ agent[p].pc = "base" /\ Able(p) /\ UNCHANGED unwritten
           /\ agent' \in [Processes -> Job] /\ Others(p) /\ agent'[p].id = agent[p].id
           /\ agent'[p].left = agent[p].left /\ agent'[p].count = agent[p].count
           /\ agent'[p].todo = agent[p].todo
           /\ agent'[p].pc = "open" /\ agent'[p].made \in Backup
           /\ agent'[p].made.zero = agent[p].made.zero
           /\ agent'[p].made.level = agent[p].made.level + 1
           /\ agent'[p].made.time = agent[p].id
<1> DEFINE job == [agent[p] EXCEPT !.pc = "open",
               !.made = [zero |-> @.zero, level |-> @.level + 1, time |-> agent[p].id]]
           base == agent[p].made
           made == [zero |-> base.zero, level |-> base.level + 1, time |-> agent[p].id]
<1>1. agent[p].pc = "base" /\ Able(p) /\ UNCHANGED unwritten /\ Does(p, "base", job)
      BY DEF GetBase, Does
<1>2. base \in Backup /\ base.level < MaxLevel /\ agent[p].id \in 1..MaxTime
      BY <1>1, StorageConstants DEF Numbers, Active, Resting, TypeOK, Local
<1>3. made \in Backup /\ made.zero = base.zero /\ made.level = base.level + 1 /\ made.time = agent[p].id
      BY <1>2, StorageConstants DEF Backup
<1>5. job = [agent[p] EXCEPT !.pc = "open", !.made = made]
  <2>1. agent[p] \in Job
        BY Typed
  <2> QED BY <2>1 DEF Job
<1>6. /\ job \in Job /\ job.pc = "open" /\ job.id = agent[p].id /\ job.made = made
      /\ job.left = agent[p].left /\ job.count = agent[p].count /\ job.todo = agent[p].todo
  <2> HIDE DEF made, job
  <2>1. made \in Backup \cup {NoBackup} /\ "open" \in Working \cup Admin \cup Resting
        BY <1>3 DEF Working
  <2> QED BY <1>5, <2>1, Typed DEF Job
<1> HIDE DEF job, made
<1>7. /\ agent' \in [Processes -> Job] /\ Others(p) /\ Alike(p, job)
      BY <1>1, <1>6, DoesFacts
<1> QED BY <1>1, <1>3, <1>6, <1>7 DEF Alike

LEMMA OpenFacts ==
    ASSUME TypeOK, NEW p \in Processes, Open(p)
    PROVE  /\ agent[p].pc = "open" /\ Able(p) /\ Stores(p)
           /\ UNCHANGED <<kept, named, removed, cleaned, faults>>
           /\ agent' \in [Processes -> Job] /\ Others(p)
           /\ agent'[p].pc = "blocks" /\ agent'[p].count = 0 /\ agent'[p].id = agent[p].id
           /\ agent'[p].made = agent[p].made /\ agent'[p].left = agent[p].left
           /\ agent'[p].todo = agent[p].todo
<1> DEFINE job == [agent[p] EXCEPT !.pc = "blocks", !.count = 0]
<1>1. Does(p, "open", job)
      BY DEF Open
<1>2. /\ job \in Job /\ job.pc = "blocks" /\ job.id = agent[p].id /\ job.made = agent[p].made
      /\ job.left = agent[p].left /\ job.count = 0 /\ job.todo = agent[p].todo
  <2>1. 0 \in 0..Blocks /\ "blocks" \in Working \cup Admin \cup Resting
        BY StorageConstants DEF Working
  <2> QED BY <2>1, Typed DEF Job
<1> HIDE DEF job
<1> QED BY <1>1, <1>2, DoesFacts DEF Alike, Open

LEMMA WriteBlockFacts ==
    ASSUME TypeOK, NEW p \in Processes, WriteBlock(p), Local(p)
    PROVE  /\ agent[p].pc = "blocks" /\ Able(p) /\ Stores(p)
           /\ UNCHANGED <<kept, named, removed, cleaned, faults>>
           /\ agent' \in [Processes -> Job] /\ Others(p)
           /\ agent[p].count < Blocks
           /\ agent'[p].pc = IF agent[p].count + 1 < Blocks THEN "blocks" ELSE "close"
           /\ agent'[p].count = agent[p].count + 1 /\ agent'[p].id = agent[p].id
           /\ agent'[p].made = agent[p].made /\ agent'[p].left = agent[p].left
           /\ agent'[p].todo = agent[p].todo
<1> DEFINE pc  == IF agent[p].count + 1 < Blocks THEN "blocks" ELSE "close"
           job == [agent[p] EXCEPT !.pc = pc, !.count = @ + 1, !.tries = 0]
<1>1. Does(p, "blocks", job)
      BY DEF WriteBlock
<1>2. agent[p].pc = "blocks" /\ agent[p].count < Blocks
      BY <1>1 DEF Does, Local
<1>3. /\ job \in Job /\ job.pc = pc /\ job.id = agent[p].id /\ job.made = agent[p].made
      /\ job.left = agent[p].left /\ job.count = agent[p].count + 1 /\ job.todo = agent[p].todo
  <2>1. agent[p].count + 1 \in 0..Blocks /\ pc \in Working \cup Admin \cup Resting /\ 0 \in 0..Tries - 1
        BY <1>2, Typed, StorageConstants DEF Working
  <2> HIDE DEF pc
  <2> QED BY <2>1, Typed DEF Job
<1> HIDE DEF job, pc
<1>4. /\ agent' \in [Processes -> Job] /\ Others(p) /\ Alike(p, job) /\ Able(p)
      BY <1>1, <1>3, DoesFacts
<1> QED BY <1>2, <1>3, <1>4 DEF Alike, WriteBlock, pc

LEMMA PlainFacts ==
    ASSUME TypeOK, NEW p \in Processes,
           Close(p) \/ Drain(p) \/ PutEngineMetadata(p) \/ CreateTop(p) \/ CreateMetadir(p)
    PROVE  /\ agent' \in [Processes -> Job] /\ Others(p) /\ Stays(p) /\ Able(p)
           /\ UNCHANGED <<kept, removed, cleaned, faults>>
           /\ \/ agent[p].pc = "close" /\ agent'[p].pc = "engine" /\ Stores(p)
              \/ agent[p].pc = "drain" /\ agent'[p].pc = "engine" /\ UNCHANGED store
              \/ /\ agent[p].pc = "engine" /\ Stores(p)
                 /\ agent'[p].pc = IF Hierarchical THEN "top" ELSE "meta"
              \/ agent[p].pc = "top" /\ agent'[p].pc = "metadir" /\ Stores(p)
              \/ agent[p].pc = "metadir" /\ agent'[p].pc = "meta" /\ Stores(p)
<1> USE DEF Working
<1>1. CASE Close(p)
      BY <1>1, MoveFacts DEF Close
<1>2. CASE Drain(p)
      BY <1>2, MoveFacts DEF Drain, unwritten
<1>3. CASE PutEngineMetadata(p)
  <2> DEFINE to == IF Hierarchical THEN "top" ELSE "meta"
  <2>1. to \in Working \cup Admin
        OBVIOUS
  <2>2. Does(p, "engine", [agent[p] EXCEPT !.pc = to])
        BY <1>3 DEF PutEngineMetadata
  <2> HIDE DEF to
  <2>3. /\ agent[p].pc = "engine" /\ Able(p)
        /\ agent' \in [Processes -> Job] /\ Others(p) /\ agent'[p].pc = to /\ Stays(p)
        BY <2>1, <2>2, MoveFacts
  <2> QED BY <1>3, <2>3 DEF PutEngineMetadata, to
<1>4. CASE CreateTop(p)
      BY <1>4, MoveFacts DEF CreateTop
<1>5. CASE CreateMetadir(p)
      BY <1>5, MoveFacts DEF CreateMetadir
<1> QED BY <1>1, <1>2, <1>3, <1>4, <1>5

LEMMA PutMetadataFacts ==
    ASSUME TypeOK, NEW p \in Processes, PutMetadata(p)
    PROVE  /\ agent[p].pc = "meta" /\ Able(p) /\ Stores(p)
           /\ succeeded' = succeeded \cup {agent[p].made}
           /\ UNCHANGED <<conf, clock, together, named, removed, cleaned, faults>>
           /\ agent' \in [Processes -> Job] /\ Others(p) /\ agent'[p].pc = "idle"
BY EndFacts DEF PutMetadata, Resting

LEMMA ListOldFacts ==
    ASSUME TypeOK, NEW p \in Processes, ListOld(p)
    PROVE  /\ agent[p].pc = "admin zeros" /\ Able(p) /\ UNCHANGED unwritten
           /\ agent' \in [Processes -> Job] /\ Others(p)
           /\ agent'[p].pc = "pick" /\ agent'[p].id = agent[p].id
           /\ agent'[p].made = agent[p].made /\ agent'[p].left = agent[p].left
           /\ agent'[p].count = agent[p].count /\ agent'[p].todo \subseteq Zeros
<1>1. PICK date \in 1..clock :
          Does(p, "admin zeros", [agent[p] EXCEPT
              !.pc = "pick", !.todo = IF conf.relative THEN {} ELSE {z \in Zeros : z <= date}])
      BY DEF ListOld
<1> DEFINE todo == IF conf.relative THEN {} ELSE {z \in Zeros : z <= date}
           job  == [agent[p] EXCEPT !.pc = "pick", !.todo = todo]
<1>2. Does(p, "admin zeros", job)
      BY <1>1
<1>3. todo \subseteq Zeros /\ todo \subseteq 1..MaxTime
      BY ZerosFacts
<1> HIDE DEF todo
<1>4. /\ job \in Job /\ job.pc = "pick" /\ job.id = agent[p].id /\ job.made = agent[p].made
      /\ job.left = agent[p].left /\ job.count = agent[p].count /\ job.todo = todo
      BY <1>3, Typed DEF Job, Admin
<1> HIDE DEF job
<1>5. /\ agent' \in [Processes -> Job] /\ Others(p) /\ Alike(p, job) /\ Able(p)
      /\ agent[p].pc = "admin zeros"
      BY <1>2, <1>4, DoesFacts
<1> QED BY <1>3, <1>4, <1>5 DEF Alike, ListOld

LEMMA PickFacts ==
    ASSUME TypeOK, NEW p \in Processes, Pick(p)
    PROVE  /\ agent[p].pc = "pick" /\ UNCHANGED <<kept, store, named, faults>>
           /\ agent' \in [Processes -> Job] /\ Others(p)
           /\ \/ /\ agent'[p].pc = "idle" /\ agent[p].todo = {} /\ UNCHANGED removed
                 /\ cleaned' = cleaned \cup {agent[p].id}
              \/ /\ agent'[p].pc = "rm meta" /\ agent'[p].id = agent[p].id /\ UNCHANGED cleaned
                 /\ agent'[p].count = agent[p].count /\ agent'[p].todo \subseteq agent[p].todo
                 /\ \E z \in agent[p].todo :
                        /\ agent'[p].made = [zero |-> z, level |-> 0, time |-> z]
                        /\ agent'[p].made \in Backup
                        /\ agent'[p].left = Found(z, MetaParts)
                        /\ removed' = removed \cup {[zero |-> z, by |-> agent[p].id,
                                                     short |-> Short(z, MetaParts)]}
<1>1. CASE agent[p].todo = {}
      BY <1>1, EndFacts DEF Pick, Resting
<1>2. CASE agent[p].todo # {}
  <2>1. PICK z \in agent[p].todo :
            /\ removed' = removed \cup
                   {[zero |-> z, by |-> agent[p].id, short |-> Short(z, MetaParts)]}
            /\ Becomes(p, [agent[p] EXCEPT
                   !.pc = "rm meta", !.todo = @ \ {z}, !.left = Found(z, MetaParts),
                   !.made = [zero |-> z, level |-> 0, time |-> z]])
            /\ UNCHANGED cleaned
        BY <1>2 DEF Pick
  <2> DEFINE full == [zero |-> z, level |-> 0, time |-> z]
             job  == [agent[p] EXCEPT
                   !.pc = "rm meta", !.todo = @ \ {z}, !.left = Found(z, MetaParts),
                   !.made = full]
  <2>2. full \in Backup /\ Found(z, MetaParts) \subseteq Stored
    <3>1. z \in 1..MaxTime
          BY Typed
    <3> QED BY <3>1, StorageConstants DEF Backup, Found, Tree, TypeOK
  <2> HIDE DEF full
  <2>3. /\ job \in Job /\ job.pc = "rm meta" /\ job.id = agent[p].id /\ job.made = full
        /\ job.left = Found(z, MetaParts) /\ job.count = agent[p].count
        /\ job.todo = agent[p].todo \ {z}
    <3>1. full \in Backup \cup {NoBackup} /\ "rm meta" \in Working \cup Admin \cup Resting
          BY <2>2 DEF Admin
    <3> QED BY <2>2, <3>1, Typed DEF Job
  <2>4. Becomes(p, job)
        BY <2>1 DEF full
  <2> HIDE DEF job
  <2>5. agent' \in [Processes -> Job] /\ Others(p) /\ agent'[p] = job
        BY <2>3, <2>4, BecomesFacts
  <2> QED BY <2>1, <2>2, <2>3, <2>5 DEF Pick, full
<1> QED BY <1>1, <1>2

LEMMA RemoveMetadataFacts ==
    ASSUME TypeOK, NEW p \in Processes, RemoveMetadata(p)
    PROVE  /\ agent[p].pc = "rm meta" /\ UNCHANGED <<kept, named, removed, cleaned, faults>>
           /\ agent' \in [Processes -> Job] /\ Others(p)
           /\ agent'[p].pc = "rm meta" /\ agent'[p].id = agent[p].id
           /\ agent'[p].made = agent[p].made /\ agent'[p].count = agent[p].count
           /\ agent'[p].todo = agent[p].todo
           /\ \E x \in agent[p].left :
                  /\ store' = store \ {x}
                  /\ agent[p].left \subseteq agent'[p].left \cup {x}
                  /\ \A y \in agent'[p].left : y \in agent[p].left \/ y \in Tree(x[1].zero, MetaParts)
<1>1. PICK x \in agent[p].left : /\ store' = store \ {x}
        /\ \E seen \in {{}} \cup IF Hierarchical THEN {Tree(x[1].zero, MetaParts)} ELSE {} :
              Does(p, "rm meta", [agent[p] EXCEPT !.left = (@ \cup seen) \ {x}])
        /\ UNCHANGED <<kept, named, removed, cleaned, faults>>
      BY DEF RemoveMetadata
<1>2. PICK seen \in SUBSET Tree(x[1].zero, MetaParts) :
              Does(p, "rm meta", [agent[p] EXCEPT !.left = (@ \cup seen) \ {x}])
      BY <1>1
<1> DEFINE left == (agent[p].left \cup seen) \ {x}
           job  == [agent[p] EXCEPT !.left = left]
<1>3. Does(p, "rm meta", job)
      BY <1>2
<1>4. left \in SUBSET Stored /\ agent[p].left \subseteq left \cup {x}
      /\ \A y \in left : y \in agent[p].left \/ y \in Tree(x[1].zero, MetaParts)
  <2>1. Tree(x[1].zero, MetaParts) \subseteq Stored
        BY DEF Tree, TypeOK
  <2> QED BY <2>1, Typed
<1> HIDE DEF left
<1>5. /\ job \in Job /\ job.pc = agent[p].pc /\ job.id = agent[p].id /\ job.made = agent[p].made
      /\ job.left = left /\ job.count = agent[p].count /\ job.todo = agent[p].todo
      BY <1>4, Typed DEF Job
<1> HIDE DEF job
<1>6. /\ agent' \in [Processes -> Job] /\ Others(p) /\ Alike(p, job)
      /\ agent[p].pc = "rm meta"
      BY <1>3, <1>5, DoesFacts
<1> QED BY <1>1, <1>4, <1>5, <1>6 DEF Alike

LEMMA RemoveDataFacts ==
    ASSUME TypeOK, NEW p \in Processes, RemoveData(p), Local(p)
    PROVE  /\ agent[p].pc = "rm data" /\ UNCHANGED <<kept, named, removed, cleaned, faults>>
           /\ agent' \in [Processes -> Job] /\ Others(p)
           /\ agent'[p].pc = "rm data" /\ agent'[p].id = agent[p].id
           /\ agent'[p].made = agent[p].made /\ agent'[p].count = agent[p].count
           /\ agent'[p].todo = agent[p].todo
           /\ \E gone \in SUBSET Tree(agent[p].made.zero, DataParts) : store' = store \ gone
           /\ agent[p].left \cap store' \subseteq agent'[p].left
           /\ \A y \in agent'[p].left :
                  y \in agent[p].left \/ y \in Tree(agent[p].made.zero, DataParts)
<1>1. PICK b \in {x[1] : x \in agent[p].left} :
        LET listed == {x \in agent[p].left : x[1] = b}
            there  == Tree(b.zero, DataParts)
            gone   == IF Hierarchical THEN {x \in there : x[1] = b} ELSE listed
        IN  /\ store' = store \ gone
            /\ \E seen \in {{}} \cup IF Hierarchical THEN {there} ELSE {} :
                  Does(p, "rm data", [agent[p] EXCEPT !.left = (@ \cup seen) \ (gone \cup listed)])
            /\ UNCHANGED <<kept, named, removed, cleaned, faults>>
      BY DEF RemoveData
<1> DEFINE z      == agent[p].made.zero
           listed == {x \in agent[p].left : x[1] = b}
           there  == Tree(z, DataParts)
           gone   == IF Hierarchical THEN {x \in there : x[1] = b} ELSE listed
<1>2. agent[p].pc = "rm data"
      BY <1>1 DEF Does
<1>3. b.zero = z /\ \A x \in agent[p].left : x[1].zero = z /\ x[2] \in DataParts
      BY <1>1, <1>2 DEF Local
<1>4. PICK seen \in SUBSET there :
          Does(p, "rm data", [agent[p] EXCEPT !.left = (@ \cup seen) \ (gone \cup listed)])
      BY <1>1, <1>3
<1> DEFINE left == (agent[p].left \cup seen) \ (gone \cup listed)
           job  == [agent[p] EXCEPT !.left = left]
<1>5. Does(p, "rm data", job)
      BY <1>4
<1>6. store' = store \ gone /\ UNCHANGED <<kept, named, removed, cleaned, faults>>
      BY <1>1, <1>3
<1>7. there \subseteq Stored /\ there = {x \in store : x[1].zero = z /\ x[2] \in DataParts}
      BY DEF Tree, TypeOK
<1>8. /\ left \in SUBSET Stored
      /\ \A y \in left : y \in agent[p].left \/ y \in there
      /\ store' = store \ (gone \cap there)
      /\ agent[p].left \cap store' \subseteq left
  <2>1. agent[p].left \cap store \subseteq there
        BY <1>3, <1>7
  <2>2. gone \cap store \subseteq there
        BY <2>1
  <2>3. agent[p].left \cap store' \subseteq left
        BY <1>6, <2>1
  <2> QED BY <1>6, <1>7, <2>2, <2>3, Typed
<1>9. gone \cap there \in SUBSET there
      OBVIOUS
<1> HIDE DEF left, gone, listed
<1>10. /\ job \in Job /\ job.pc = agent[p].pc /\ job.id = agent[p].id /\ job.made = agent[p].made
       /\ job.left = left /\ job.count = agent[p].count /\ job.todo = agent[p].todo
      BY <1>8, Typed DEF Job
<1> HIDE DEF job
<1>11. /\ agent' \in [Processes -> Job] /\ Others(p) /\ Alike(p, job)
      BY <1>5, <1>10, DoesFacts
<1> QED BY <1>2, <1>6, <1>8, <1>9, <1>10, <1>11, <1>11 DEF Alike

LEMMA RemovedFacts ==
    ASSUME TypeOK, NEW p \in Processes, MetadataRemoved(p) \/ DataRemoved(p)
    PROVE  /\ UNCHANGED <<kept, store, named, cleaned, faults>>
           /\ agent[p].left = {} /\ agent' \in [Processes -> Job] /\ Others(p)
           /\ agent'[p].id = agent[p].id /\ agent'[p].made = agent[p].made
           /\ agent'[p].count = agent[p].count /\ agent'[p].todo = agent[p].todo
           /\ \/ /\ agent[p].pc = "rm meta" /\ agent'[p].pc = "rm data"
                 /\ Hierarchical => Tree(agent[p].made.zero, MetaParts) = {}
                 /\ agent'[p].left = Found(agent[p].made.zero, DataParts)
                 /\ removed' = IF Short(agent[p].made.zero, DataParts)
                               THEN removed \cup {[zero |-> agent[p].made.zero,
                                                   by |-> agent[p].id, short |-> TRUE]}
                               ELSE removed
              \/ /\ agent[p].pc = "rm data" /\ agent'[p].pc = "pick" /\ UNCHANGED removed
                 /\ agent'[p].left = agent[p].left
                 /\ Hierarchical => Tree(agent[p].made.zero, DataParts) = {}
<1>1. CASE DataRemoved(p)
      BY <1>1, MoveFacts DEF DataRemoved, Stays, Admin, unwritten
<1>2. CASE MetadataRemoved(p)
  <2> DEFINE left == Found(agent[p].made.zero, DataParts)
             job  == [agent[p] EXCEPT !.pc = "rm data", !.left = left]
  <2>1. Does(p, "rm meta", job)
        BY <1>2 DEF MetadataRemoved
  <2>2. left \in SUBSET Stored
        BY DEF Found, Tree, TypeOK
  <2> HIDE DEF left
  <2>3. /\ job \in Job /\ job.pc = "rm data" /\ job.id = agent[p].id /\ job.made = agent[p].made
        /\ job.left = left /\ job.count = agent[p].count /\ job.todo = agent[p].todo
        BY <2>2, Typed DEF Job, Admin
  <2> HIDE DEF job
  <2>4. /\ agent' \in [Processes -> Job] /\ Others(p) /\ Alike(p, job)
        /\ agent[p].pc = "rm meta"
        BY <2>1, <2>3, DoesFacts
  <2> QED BY <1>2, <2>3, <2>4 DEF Alike, MetadataRemoved, left
<1> QED BY <1>1, <1>2

LEMMA DropFacts ==
    ASSUME TypeOK, NEW p \in Processes, Drop(p)
    PROVE  /\ agent[p].pc \notin Resting /\ UNCHANGED <<kept, store, named, removed, cleaned>>
           /\ agent' \in [Processes -> Job] /\ Others(p)
           /\ agent'[p].pc = agent[p].pc /\ Stays(p) /\ faults' = faults + 1 /\ faults < MaxFaults
<1> DEFINE job == [agent[p] EXCEPT !.up = FALSE, !.struck = TRUE]
<1>1. Becomes(p, job)
      BY DEF Drop
<1>2. /\ job \in Job /\ job.pc = agent[p].pc /\ job.id = agent[p].id /\ job.made = agent[p].made
      /\ job.left = agent[p].left /\ job.count = agent[p].count /\ job.todo = agent[p].todo
  <2>1. FALSE \in BOOLEAN /\ TRUE \in BOOLEAN
        OBVIOUS
  <2> QED BY <2>1, Typed DEF Job
<1> HIDE DEF job
<1> QED BY <1>1, <1>2, BecomesFacts DEF Stays, Drop

LEMMA CallFailsFacts ==
    ASSUME TypeOK, NEW p \in Processes, CallFails(p), Local(p)
    PROVE  /\ agent[p].pc \in (Working \cup Admin) \ {"pick", "drain"}
           /\ UNCHANGED <<kept, named, removed, cleaned>>
           /\ faults' = faults + 1 /\ faults < MaxFaults /\ conf.kind \notin Sessions
           /\ UNCHANGED store \/ (conf.kind = "swift" /\ Able(p) /\ Stores(p))
           /\ agent' \in [Processes -> Job] /\ Others(p)
           /\ \/ agent'[p].pc = "failed"
              \/ /\ agent[p].pc = "zeros" /\ agent'[p].pc = "open" /\ Stays(p)
              \/ /\ agent[p].pc = "admin zeros" /\ agent'[p].pc = "pick" /\ agent'[p].todo = {}
                 /\ agent'[p].id = agent[p].id /\ agent'[p].made = agent[p].made
                 /\ agent'[p].count = agent[p].count /\ agent'[p].left = agent[p].left
              \/ /\ agent[p].pc = "blocks" /\ agent'[p].pc = "blocks" /\ Stays(p)
                 /\ conf.kind = "swift"
              \/ /\ agent[p].pc \in {"blocks", "close"} /\ agent'[p].pc = "drain" /\ Stays(p)
                 /\ conf.kind = "s3"
<1>1. /\ Becomes(p, AfterFault(p)) \/ Becomes(p, [Idle EXCEPT !.pc = "failed"])
      /\ agent[p].pc \in (Working \cup Admin) \ {"pick", "drain"}
      BY DEF CallFails, End
<1> DEFINE struck == [agent[p] EXCEPT !.struck = TRUE]
           result == IF Becomes(p, AfterFault(p)) THEN AfterFault(p)
                     ELSE [Idle EXCEPT !.pc = "failed"]
<1>2. /\ struck \in Job /\ struck.pc = agent[p].pc /\ struck.id = agent[p].id
      /\ struck.made = agent[p].made /\ struck.left = agent[p].left /\ struck.tries = agent[p].tries
      /\ struck.count = agent[p].count /\ struck.todo = agent[p].todo
  <2>1. TRUE \in BOOLEAN
        OBVIOUS
  <2> QED BY <2>1, Typed DEF Job
<1>3. \/ agent[p].pc = "zeros" /\ result = [struck EXCEPT !.pc = "open", !.made = Full(p)]
      \/ agent[p].pc = "admin zeros" /\ result = [struck EXCEPT !.pc = "pick", !.todo = {}]
      \/ /\ agent[p].pc = "blocks" /\ conf.kind = "swift" /\ agent[p].tries + 1 < Tries
         /\ result = [struck EXCEPT !.tries = @ + 1]
      \/ /\ agent[p].pc \in {"blocks", "close"} /\ conf.kind = "s3"
         /\ result = [struck EXCEPT !.pc = "drain"]
      \/ result = [Idle EXCEPT !.pc = "failed"]
      BY DEF AfterFault
<1>9. Becomes(p, result)
      BY <1>1
<1>10. /\ UNCHANGED <<kept, named, removed, cleaned>>
       /\ faults' = faults + 1 /\ faults < MaxFaults /\ conf.kind \notin Sessions
      BY DEF CallFails
<1>11. UNCHANGED store \/ (conf.kind = "swift" /\ Able(p) /\ Stores(p))
      BY DEF CallFails
<1> HIDE DEF struck, result
<1>4. CASE agent[p].pc = "zeros" /\ result = [struck EXCEPT !.pc = "open", !.made = Full(p)]
  <2>1. agent[p].made = Full(p)
        BY <1>4 DEF Local
  <2>2. "open" \in Working \cup Admin \cup Resting /\ Full(p) \in Backup \cup {NoBackup}
        BY <2>1, Typed DEF Working
  <2>3. result \in Job /\ result.pc = "open" /\ result.made = agent[p].made /\ result.id = agent[p].id
        /\ result.count = agent[p].count /\ result.todo = agent[p].todo /\ result.left = agent[p].left
        BY <1>2, <1>4, <2>1, <2>2 DEF Job
  <2> QED BY <1>1, <1>9, <1>10, <1>11, <1>4, <2>3, BecomesFacts DEF Stays
<1>5. CASE agent[p].pc = "admin zeros" /\ result = [struck EXCEPT !.pc = "pick", !.todo = {}]
  <2>1. result \in Job /\ result.pc = "pick" /\ result.made = agent[p].made /\ result.id = agent[p].id
        /\ result.count = agent[p].count /\ result.todo = {} /\ result.left = agent[p].left
        BY <1>2, <1>5 DEF Job, Admin
  <2> QED BY <1>1, <1>9, <1>10, <1>11, <1>5, <2>1, BecomesFacts
<1>6. CASE /\ agent[p].pc = "blocks" /\ conf.kind = "swift" /\ agent[p].tries + 1 < Tries
           /\ result = [struck EXCEPT !.tries = @ + 1]
  <2>0. agent[p].tries + 1 \in 0..Tries - 1
        BY <1>6, Typed, StorageConstants
  <2>1. result \in Job /\ result.pc = "blocks" /\ result.made = agent[p].made /\ result.id = agent[p].id
        /\ result.count = agent[p].count /\ result.todo = agent[p].todo /\ result.left = agent[p].left
        BY <1>2, <1>6, <2>0 DEF Job
  <2> QED BY <1>1, <1>9, <1>10, <1>11, <1>6, <2>1, BecomesFacts DEF Stays
<1>7. CASE /\ agent[p].pc \in {"blocks", "close"} /\ conf.kind = "s3"
           /\ result = [struck EXCEPT !.pc = "drain"]
  <2>1. result \in Job /\ result.pc = "drain" /\ result.made = agent[p].made /\ result.id = agent[p].id
        /\ result.count = agent[p].count /\ result.todo = agent[p].todo /\ result.left = agent[p].left
        BY <1>2, <1>7 DEF Job, Working
  <2> QED BY <1>1, <1>9, <1>10, <1>11, <1>7, <2>1, BecomesFacts DEF Stays
<1>8. CASE result = [Idle EXCEPT !.pc = "failed"]
  <2>1. End(p, "failed")
        BY <1>8, <1>9 DEF End
  <2> QED BY <1>1, <1>10, <1>11, <2>1, EndFacts DEF Resting
<1> QED BY <1>3, <1>4, <1>5, <1>6, <1>7, <1>8

\* A job ends, and no more.
LEMMA RestFacts ==
    ASSUME TypeOK, NEW p \in Processes,
           Breaks(p) \/ ReconnectFails(p) \/ RemoveFails(p) \/ Kill(p)
    PROVE  /\ agent' \in [Processes -> Job] /\ Others(p) /\ agent'[p].pc \in Resting
           /\ UNCHANGED <<kept, store, named, removed, cleaned>>
           /\ faults' = faults \/ (faults' = faults + 1 /\ faults < MaxFaults)
<1>1. CASE Kill(p)
      BY <1>1, EndFacts DEF Kill, Resting
<1>2. CASE Breaks(p) \/ ReconnectFails(p) \/ RemoveFails(p)
  <2>1. End(p, "failed") /\ UNCHANGED unwritten
    <3>1. CASE Breaks(p)
          BY <3>1 DEF Breaks
    <3>2. CASE ReconnectFails(p)
          BY <3>2 DEF ReconnectFails
    <3>3. CASE RemoveFails(p)
          BY <3>3 DEF RemoveFails
    <3> QED BY <1>2, <3>1, <3>2, <3>3
  <2> QED BY <2>1, EndFacts DEF Resting, unwritten
<1> QED BY <1>1, <1>2

-----------------------------------------------------------------------------
(* A step in general: what it stores, what it removes, what it leaves.     *)

Step(p) ==
    \/ BeginIncremental(p) \/ BeginFull(p) \/ BeginRemoval(p) \/ Agent(p)
    \/ Drop(p) \/ CallFails(p) \/ Kill(p)

Plain(p) == Close(p) \/ Drain(p) \/ PutEngineMetadata(p) \/ CreateTop(p) \/ CreateMetadir(p)
Rest(p)  == Breaks(p) \/ ReconnectFails(p) \/ RemoveFails(p) \/ Kill(p)
Begins(p) == \E pc \in {"zeros", "open", "admin zeros"} : Begin(p, pc)

LEMMA StepCases ==
    ASSUME NEW p \in Processes, Step(p)
    PROVE  \/ Begins(p) \/ ListZeros(p) \/ ListIncrements(p) \/ GetBase(p) \/ Open(p)
           \/ WriteBlock(p) \/ Plain(p) \/ PutMetadata(p) \/ ListOld(p) \/ Pick(p)
           \/ RemoveMetadata(p) \/ RemoveData(p) \/ MetadataRemoved(p) \/ DataRemoved(p)
           \/ Rest(p) \/ Drop(p) \/ CallFails(p)
<1>1. CASE BeginIncremental(p) \/ BeginFull(p) \/ BeginRemoval(p)
      BY <1>1 DEF BeginIncremental, BeginFull, BeginRemoval, Begins
<1>2. CASE Agent(p)
      BY <1>2 DEF Agent, Plain, Rest
<1> QED BY <1>1, <1>2 DEF Step, Rest

LEMMA BackupFacts ==
    ASSUME NEW b \in Backup
    PROVE  /\ b.zero \in 1..MaxTime /\ b.level \in 0..MaxLevel /\ b.time \in 1..MaxTime
           /\ b.zero \in Nat /\ b.level \in Nat /\ b.time \in Nat
           /\ \A part \in DataParts \cup MetaParts : Part(b, part) \in Stored
           /\ \A n \in 0..Blocks : Block(b, n) \in Stored
           /\ Top(b) \in Stored
<1>1. b.zero \in 1..MaxTime /\ b.level \in 0..MaxLevel /\ b.time \in 1..MaxTime
      BY DEF Backup
<1>2. 0 \in 0..MaxLevel /\ 0 \in 0..Blocks
      BY StorageConstants
<1>3. [zero |-> b.zero, level |-> 0, time |-> b.zero] \in Backup
      BY <1>1, <1>2 DEF Backup
<1>4. "block" \in DataParts /\ "top" \in MetaParts
      BY DEF DataParts, MetaParts
<1> QED BY <1>1, <1>2, <1>3, <1>4, StorageConstants DEF Part, Block, Top, Stored

LEMMA FinitePair == ASSUME NEW x, NEW y PROVE IsFiniteSet({x}) /\ IsFiniteSet({x, y})
<1>1. IsFiniteSet({x}) /\ IsFiniteSet({y})
      BY FS_Singleton
<1>2. {x, y} = {x} \cup {y}
      OBVIOUS
<1> QED BY <1>1, <1>2, FS_Union

LEMMA PutsFacts ==
    ASSUME TypeOK, Numbers, NEW p \in Processes, Active(p), Local(p)
    PROVE  /\ Puts(p) \subseteq Stored /\ IsFiniteSet(Puts(p))
           /\ Puts(p) # {} => agent[p].pc \in Writing
           /\ \A x \in Puts(p) :
                  /\ x[1].zero = agent[p].made.zero
                  /\ \/ agent[p].pc = "top" /\ x = Top(agent[p].made)
                     \/ /\ agent[p].pc = "metadir" /\ x[1] = agent[p].made /\ x[2] = "metadir"
                        /\ x = Part(agent[p].made, "metadir")
                     \/ /\ agent[p].pc = "meta" /\ x[1] = agent[p].made /\ x[2] = "meta"
                        /\ x = Part(agent[p].made, "meta")
                     \/ /\ agent[p].pc \in {"open", "blocks", "close", "engine"}
                        /\ x[1] = agent[p].made /\ x[2] \in DataParts
           /\ agent[p].pc = "top" => Top(agent[p].made) \in Puts(p)
           /\ agent[p].pc = "metadir" => Part(agent[p].made, "metadir") \in Puts(p)
           /\ agent[p].pc = "meta" => Part(agent[p].made, "meta") \in Puts(p)
           /\ agent[p].pc = "engine" => Part(agent[p].made, "engine") \in Puts(p)
<1> DEFINE b == agent[p].made
<1>1. b \in Backup
      BY DEF Numbers
<1>2. agent[p].count \in 0..Blocks /\ (agent[p].pc = "blocks" => agent[p].count + 1 \in 0..Blocks)
  <2>1. agent[p].count \in 0..Blocks
        BY Typed
  <2>2. agent[p].pc = "blocks" => agent[p].count < Blocks
        BY DEF Local
  <2> QED BY <2>1, <2>2, StorageConstants
<1>3. /\ Top(b) \in Stored /\ Part(b, "datadir") \in Stored /\ Part(b, "manifest") \in Stored
      /\ Part(b, "engine") \in Stored /\ Part(b, "metadir") \in Stored /\ Part(b, "meta") \in Stored
      /\ Block(b, Blocks) \in Stored /\ Block(b, 0) \in Stored
      /\ agent[p].pc = "blocks" => Block(b, agent[p].count + 1) \in Stored
      BY <1>1, <1>2, BackupFacts, StorageConstants DEF DataParts, MetaParts
<1>4. /\ Top(b)[1].zero = b.zero
      /\ \A part : Part(b, part)[1] = b /\ Part(b, part)[2] = part
      /\ \A n : Block(b, n)[1] = b /\ Block(b, n)[2] = "block"
      BY DEF Top, Part, Block
<1> HIDE DEF b
<1>5. CASE agent[p].pc = "open"
  <2>1. Puts(p) \subseteq {Part(b, "datadir"), Block(b, 0)}
        BY <1>5 DEF Puts, b
  <2>2. IsFiniteSet({Part(b, "datadir"), Block(b, 0)})
        BY FinitePair
  <2>3. IsFiniteSet(Puts(p))
        BY <2>1, <2>2, FS_Subset
  <2> QED BY <1>3, <1>4, <1>5, <2>1, <2>3 DEF Writing, DataParts, b
<1>6. CASE agent[p].pc = "blocks"
  <2>1. Puts(p) \subseteq {Block(b, agent[p].count + 1)}
        BY <1>6 DEF Puts, b
  <2>2. IsFiniteSet({Block(b, agent[p].count + 1)})
        BY FinitePair
  <2>3. IsFiniteSet(Puts(p))
        BY <2>1, <2>2, FS_Subset
  <2> QED BY <1>3, <1>4, <1>6, <2>1, <2>3 DEF Writing, DataParts, b
<1>7. CASE agent[p].pc = "close"
  <2>1. Puts(p) \subseteq {Part(b, "manifest"), Block(b, Blocks)}
        BY <1>7 DEF Puts, b
  <2>2. IsFiniteSet({Part(b, "manifest"), Block(b, Blocks)})
        BY FinitePair
  <2>3. IsFiniteSet(Puts(p))
        BY <2>1, <2>2, FS_Subset
  <2> QED BY <1>3, <1>4, <1>7, <2>1, <2>3 DEF Writing, DataParts, b
<1>8. CASE agent[p].pc = "engine"
  <2>1. Puts(p) = {Part(b, "engine")}
        BY <1>8 DEF Puts, b
  <2>2. IsFiniteSet({Part(b, "engine")})
        BY FinitePair
  <2> QED BY <1>3, <1>4, <1>8, <2>1, <2>2 DEF Writing, DataParts, b
<1>9. CASE agent[p].pc = "top"
  <2>1. Puts(p) = {Top(b)}
        BY <1>9 DEF Puts, b
  <2>2. IsFiniteSet({Top(b)})
        BY FinitePair
  <2> QED BY <1>3, <1>4, <1>9, <2>1, <2>2 DEF Writing, b
<1>10. CASE agent[p].pc = "metadir"
  <2>1. Puts(p) = {Part(b, "metadir")}
        BY <1>10 DEF Puts, b
  <2>2. IsFiniteSet({Part(b, "metadir")})
        BY FinitePair
  <2> QED BY <1>3, <1>4, <1>10, <2>1, <2>2 DEF Writing, b
<1>11. CASE agent[p].pc = "meta"
  <2>1. Puts(p) = {Part(b, "meta")}
        BY <1>11 DEF Puts, b
  <2>2. IsFiniteSet({Part(b, "meta")})
        BY FinitePair
  <2> QED BY <1>3, <1>4, <1>11, <2>1, <2>2 DEF Writing, b
<1>12. CASE agent[p].pc \notin {"open", "blocks", "close", "engine", "top", "metadir", "meta"}
  <2>1. Puts(p) = {}
        BY <1>12 DEF Puts
  <2> QED BY <1>12, <2>1, FS_EmptySet
<1> QED BY <1>5, <1>6, <1>7, <1>8, <1>9, <1>10, <1>11, <1>12

\* What p adds to the storage and what it takes.
Adds(p) == \A x \in store' : x \in store \/ (Active(p) /\ Able(p) /\ x \in Puts(p))

Takes(p) ==
    \A x \in store : x \in store' \/
        /\ Active(p)
        /\ \/ x \in Outgrown(p)
           \/ agent[p].pc = "rm meta" /\ x[1].zero = agent[p].made.zero /\ x[2] \in MetaParts
           \/ agent[p].pc = "rm data" /\ x[1].zero = agent[p].made.zero /\ x[2] \in DataParts

LEMMA ActiveFacts ==
    ASSUME NEW p \in Processes, agent[p].pc \in Working \cup Admin
    PROVE  Active(p)
BY DEF Active, Working, Admin, Resting

LEMMA BeginsFacts ==
    ASSUME TypeOK, NEW p \in Processes, Begins(p)
    PROVE  /\ agent' \in [Processes -> Job] /\ Others(p) /\ agent[p].pc \in Resting
           /\ clock \in 1..MaxTime /\ clock' = clock + 1
           /\ agent'[p].pc \in {"zeros", "open", "admin zeros"} /\ agent'[p].id = clock
           /\ agent'[p].made = [zero |-> clock, level |-> 0, time |-> clock]
           /\ agent'[p].made \in Backup
           /\ agent'[p].todo = {} /\ agent'[p].left = {} /\ agent'[p].count = 0
           /\ together' = together \cup {{clock, agent[q].id} : q \in Running}
           /\ UNCHANGED <<conf, store, named, succeeded, removed, cleaned, faults>>
<1>1. PICK pc \in {"zeros", "open", "admin zeros"} : Begin(p, pc)
      BY DEF Begins
<1>2. pc \in Working \cup Admin
      BY DEF Working, Admin
<1>3. UNCHANGED <<conf, store, named, succeeded, removed, cleaned, faults>>
      BY <1>1 DEF Begin
<1> QED BY <1>1, <1>2, <1>3, BeginFacts

LEMMA Changes ==
    ASSUME TypeOK, Numbers, NEW p \in Processes, Step(p), Local(p)
    PROVE  /\ agent' \in [Processes -> Job] /\ Others(p) /\ conf' = conf
           /\ together \subseteq together' /\ removed \subseteq removed' /\ clock' >= clock
           /\ Adds(p) /\ Takes(p)
<1> USE DEF kept, unwritten
<1>0. clock \in Nat /\ clock >= clock /\ clock + 1 >= clock
      BY DEF TypeOK
<1>a. ASSUME Able(p), Stores(p), agent[p].pc \in Working \cup Admin PROVE Adds(p) /\ Takes(p)
      BY <1>a, ActiveFacts DEF Stores, Adds, Takes
<1>b. ASSUME store' = store PROVE Adds(p) /\ Takes(p)
      BY <1>b DEF Adds, Takes
<1>1. CASE Begins(p)
      BY <1>0, <1>1, <1>b, BeginsFacts
<1>2. CASE ListZeros(p)
  <2>1. agent[p].pc = "zeros" => agent[p].made = Full(p)
        BY DEF Local
  <2> QED BY <1>0, <1>2, <1>b, <2>1, ListZerosFacts
<1>3. CASE ListIncrements(p)
      BY <1>0, <1>3, <1>b, ListIncrementsFacts
<1>4. CASE GetBase(p)
      BY <1>0, <1>4, <1>b, GetBaseFacts
<1>5. CASE Open(p)
      BY <1>0, <1>5, <1>a, OpenFacts DEF Working
<1>6. CASE WriteBlock(p)
      BY <1>0, <1>6, <1>a, WriteBlockFacts DEF Working
<1>7. CASE Plain(p)
      BY <1>0, <1>7, <1>a, <1>b, PlainFacts DEF Plain, Working
<1>8. CASE PutMetadata(p)
      BY <1>0, <1>8, <1>a, PutMetadataFacts DEF Working
<1>9. CASE ListOld(p)
      BY <1>0, <1>9, <1>b, ListOldFacts
<1>10. CASE Pick(p)
      BY <1>0, <1>10, <1>b, PickFacts
<1>11. CASE RemoveMetadata(p)
  <2>1. /\ agent[p].pc = "rm meta" /\ UNCHANGED <<kept, named, removed, cleaned, faults>>
        /\ agent' \in [Processes -> Job] /\ Others(p)
        BY <1>11, RemoveMetadataFacts
  <2>2. PICK x \in agent[p].left : store' = store \ {x}
        BY <1>11, RemoveMetadataFacts
  <2>3. x[1].zero = agent[p].made.zero /\ x[2] \in MetaParts
        BY <2>1, <2>2 DEF Local
  <2>4. Adds(p) /\ Takes(p)
        BY <2>1, <2>2, <2>3, ActiveFacts DEF Adds, Takes, Admin
  <2> QED BY <1>0, <2>1, <2>4
<1>12. CASE RemoveData(p)
  <2>1. /\ agent[p].pc = "rm data" /\ UNCHANGED <<kept, named, removed, cleaned, faults>>
        /\ agent' \in [Processes -> Job] /\ Others(p)
        BY <1>12, RemoveDataFacts
  <2>2. PICK gone \in SUBSET Tree(agent[p].made.zero, DataParts) : store' = store \ gone
        BY <1>12, RemoveDataFacts
  <2>3. Adds(p) /\ Takes(p)
        BY <2>1, <2>2, ActiveFacts DEF Adds, Takes, Tree, Admin
  <2> QED BY <1>0, <2>1, <2>3
<1>13. CASE MetadataRemoved(p) \/ DataRemoved(p)
      BY <1>0, <1>13, <1>b, RemovedFacts
<1>14. CASE Rest(p)
      BY <1>0, <1>14, <1>b, RestFacts DEF Rest
<1>15. CASE Drop(p)
      BY <1>0, <1>15, <1>b, DropFacts
<1>16. CASE CallFails(p)
      BY <1>0, <1>16, <1>a, <1>b, CallFailsFacts
<1> QED BY StepCases, <1>1, <1>2, <1>3, <1>4, <1>5, <1>6, <1>7, <1>8, <1>9, <1>10, <1>11,
           <1>12, <1>13, <1>14, <1>15, <1>16

\* Whose job it is.
LEMMA SameJob ==
    ASSUME TypeOK, Numbers, NEW p \in Processes, Step(p), Local(p)
    PROVE  \/ Begins(p)
           \/ /\ together' = together /\ clock' = clock
              /\ agent'[p].pc \in Resting \/ (Active(p) /\ agent'[p].id = agent[p].id)
<1> USE DEF kept, unwritten
<1>2. CASE ListZeros(p)
  <2>1. agent[p].pc = "zeros" => agent[p].made = Full(p)
        BY DEF Local
  <2> QED BY <1>2, <2>1, ListZerosFacts DEF Active, Resting
<1>3. CASE ListIncrements(p)
      BY <1>3, ListIncrementsFacts DEF Active, Resting
<1>4. CASE GetBase(p)
      BY <1>4, GetBaseFacts DEF Active, Resting
<1>5. CASE Open(p)
      BY <1>5, OpenFacts DEF Active, Resting
<1>6. CASE WriteBlock(p)
      BY <1>6, WriteBlockFacts DEF Active, Resting
<1>7. CASE Plain(p)
      BY <1>7, PlainFacts DEF Plain, Active, Resting, Stays
<1>8. CASE PutMetadata(p)
      BY <1>8, PutMetadataFacts DEF Resting
<1>9. CASE ListOld(p)
      BY <1>9, ListOldFacts DEF Active, Resting
<1>10. CASE Pick(p)
      BY <1>10, PickFacts DEF Active, Resting
<1>11. CASE RemoveMetadata(p)
      BY <1>11, RemoveMetadataFacts DEF Active, Resting
<1>12. CASE RemoveData(p)
      BY <1>12, RemoveDataFacts DEF Active, Resting
<1>13. CASE MetadataRemoved(p) \/ DataRemoved(p)
      BY <1>13, RemovedFacts DEF Active, Resting
<1>14. CASE Rest(p)
      BY <1>14, RestFacts DEF Rest
<1>15. CASE Drop(p)
      BY <1>15, DropFacts DEF Active, Stays
<1>16. CASE CallFails(p)
  <2>1. Active(p)
        BY <1>16, CallFailsFacts, ActiveFacts
  <2> QED BY <1>16, <2>1, CallFailsFacts DEF Resting, Stays
<1> QED BY StepCases, <1>2, <1>3, <1>4, <1>5, <1>6, <1>7, <1>8, <1>9, <1>10, <1>11,
           <1>12, <1>13, <1>14, <1>15, <1>16

\* The sets that only grow.
LEMMA Records ==
    ASSUME TypeOK, Numbers, NEW p \in Processes, Step(p), Local(p)
    PROVE  /\ \/ removed' = removed
              \/ /\ Active(p) /\ agent[p].pc \in {"pick", "rm meta"}
                 /\ \E r \in [zero : 1..MaxTime, by : 1..MaxTime, short : BOOLEAN] :
                        /\ removed' = removed \cup {r} /\ r.by = agent[p].id
                        /\ r.zero = agent'[p].made.zero /\ r.zero < clock
                        /\ agent[p].pc = "rm meta" =>
                               r.zero = agent[p].made.zero /\ r.short
           /\ \/ succeeded' = succeeded
              \/ /\ agent[p].pc = "meta" /\ Active(p) /\ Able(p) /\ Stores(p)
                 /\ succeeded' = succeeded \cup {agent[p].made}
           /\ \/ cleaned' = cleaned
              \/ /\ agent[p].pc = "pick" /\ Active(p) /\ agent'[p].pc = "idle"
                 /\ removed' = removed /\ store' = store
                 /\ cleaned' = cleaned \cup {agent[p].id}
           /\ named' \in BOOLEAN
           /\ faults' = faults \/ (faults' = faults + 1 /\ faults < MaxFaults)
<1> USE DEF kept, unwritten
<1>0. named \in BOOLEAN
      BY DEF TypeOK
<1>1. CASE Begins(p)
      BY <1>0, <1>1, BeginsFacts
<1>2. CASE ListZeros(p)
  <2>1. agent[p].pc = "zeros" => agent[p].made = Full(p)
        BY DEF Local
  <2> QED BY <1>0, <1>2, <2>1, ListZerosFacts
<1>3. CASE ListIncrements(p)
      BY <1>0, <1>3, ListIncrementsFacts
<1>4. CASE GetBase(p)
      BY <1>0, <1>4, GetBaseFacts
<1>5. CASE Open(p)
      BY <1>0, <1>5, OpenFacts
<1>6. CASE WriteBlock(p)
      BY <1>0, <1>6, WriteBlockFacts
<1>7. CASE Plain(p)
  <2>1. named' \in BOOLEAN
        BY <1>0, <1>7 DEF Plain, Close, Drain, PutEngineMetadata, CreateTop, CreateMetadir
  <2> QED BY <1>7, <2>1, PlainFacts DEF Plain
<1>8. CASE PutMetadata(p)
      BY <1>0, <1>8, PutMetadataFacts DEF Active, Resting
<1>9. CASE ListOld(p)
      BY <1>0, <1>9, ListOldFacts
<1>10. CASE Pick(p)
  <2>1. Active(p)
        BY <1>10, PickFacts DEF Active, Resting
  <2>2. agent[p].id \in 1..MaxTime /\ \A z \in agent[p].todo : z \in 1..MaxTime /\ z < clock
        BY <2>1, Typed, StorageConstants DEF Numbers, TypeOK
  <2>3. CASE removed' = removed
        BY <1>0, <1>10, <2>1, <2>3, PickFacts
  <2>4. CASE removed' # removed
    <3>1. PICK z \in agent[p].todo :
              /\ agent'[p].made = [zero |-> z, level |-> 0, time |-> z]
              /\ removed' = removed \cup {[zero |-> z, by |-> agent[p].id,
                                           short |-> Short(z, MetaParts)]}
          BY <1>10, <2>4, PickFacts
    <3>2. Short(z, MetaParts) \in BOOLEAN
          BY DEF Short
    <3> DEFINE r == [zero |-> z, by |-> agent[p].id, short |-> Short(z, MetaParts)]
    <3>3. /\ r \in [zero : 1..MaxTime, by : 1..MaxTime, short : BOOLEAN]
          /\ r.by = agent[p].id /\ r.zero = agent'[p].made.zero /\ r.zero < clock
          BY <2>2, <3>1, <3>2
    <3>4. removed' = removed \cup {r} /\ agent[p].pc = "pick"
          /\ UNCHANGED <<kept, named, faults, cleaned>>
          BY <1>10, <2>4, <3>1, PickFacts
    <3> HIDE DEF r
    <3> QED BY <1>0, <2>1, <3>3, <3>4
  <2> QED BY <2>3, <2>4
<1>11. CASE RemoveMetadata(p)
      BY <1>0, <1>11, RemoveMetadataFacts
<1>12. CASE RemoveData(p)
      BY <1>0, <1>12, RemoveDataFacts
<1>13. CASE MetadataRemoved(p) \/ DataRemoved(p)
  <2>1. Active(p) /\ agent[p].pc \in {"rm meta", "rm data"}
        BY <1>13, RemovedFacts DEF Active, Resting
  <2>2. /\ agent[p].id \in 1..MaxTime /\ agent[p].made.zero \in 1..MaxTime
        /\ agent[p].made.zero < clock
    <3>1. agent[p].made \in Backup /\ agent[p].made.zero < clock /\ agent[p].id \in 1..clock - 1
          BY <2>1 DEF Numbers
    <3>2. agent[p].id \in 0..MaxTime /\ clock \in 1..MaxTime + 1
          BY Typed DEF TypeOK
    <3> QED BY <3>1, <3>2, BackupFacts, StorageConstants
  <2>3. CASE removed' = removed
        BY <1>0, <1>13, <2>3, RemovedFacts
  <2>4. CASE removed' # removed
    <3> DEFINE r == [zero |-> agent[p].made.zero, by |-> agent[p].id, short |-> TRUE]
    <3>1. /\ removed' = removed \cup {r} /\ agent[p].pc = "rm meta"
          /\ UNCHANGED <<kept, named, faults, cleaned>> /\ agent'[p].made = agent[p].made
          BY <1>13, <2>4, RemovedFacts
    <3>2. TRUE \in BOOLEAN
          OBVIOUS
    <3>3. /\ r \in [zero : 1..MaxTime, by : 1..MaxTime, short : BOOLEAN]
          /\ r.by = agent[p].id /\ r.zero = agent[p].made.zero /\ r.zero < clock /\ r.short
          BY <2>2, <3>2
    <3> HIDE DEF r
    <3> QED BY <1>0, <2>1, <3>1, <3>3
  <2> QED BY <2>3, <2>4
<1>14. CASE Rest(p)
      BY <1>0, <1>14, RestFacts DEF Rest
<1>15. CASE Drop(p)
      BY <1>0, <1>15, DropFacts
<1>16. CASE CallFails(p)
      BY <1>0, <1>16, CallFailsFacts
<1> QED BY StepCases, <1>1, <1>2, <1>3, <1>4, <1>5, <1>6, <1>7, <1>8, <1>9, <1>10, <1>11,
           <1>12, <1>13, <1>14, <1>15, <1>16

-----------------------------------------------------------------------------
(* Types, numbers, and what each job knows of itself.                      *)

LEMMA ActiveNumbers ==
    ASSUME TypeOK, Numbers, NEW p \in Processes, Active(p)
    PROVE  /\ agent[p].id \in 1..clock - 1 /\ agent[p].id \in 1..MaxTime /\ agent[p].id \in Nat
           /\ agent[p].id < clock /\ agent[p].id \notin cleaned
           /\ agent[p].made \in Backup
           /\ agent[p].made.zero < clock /\ agent[p].made.time < clock
           /\ \A z \in agent[p].todo : z < clock /\ z \in 1..MaxTime
           /\ clock \in Nat
<1>1. clock \in Nat /\ clock \in 1..MaxTime + 1 /\ MaxTime \in Nat
      BY StorageConstants DEF TypeOK
<1>2. /\ agent[p].id \in 1..clock - 1 /\ agent[p].id \notin cleaned
      /\ agent[p].made \in Backup
      /\ agent[p].made.zero < clock /\ agent[p].made.time < clock
      /\ \A z \in agent[p].todo : z < clock
      BY DEF Numbers
<1> QED BY <1>1, <1>2, Typed

LEMMA StepTypeOK ==
    ASSUME TypeOK, Numbers, NEW p \in Processes, Step(p), Local(p)
    PROVE  TypeOK'
<1>1. agent' \in [Processes -> Job] /\ conf' = conf
      BY Changes
<1>2. clock' \in 1..MaxTime + 1 /\ together' \subseteq SUBSET (1..MaxTime)
  <2>1. CASE clock' = clock /\ together' = together
        BY <2>1 DEF TypeOK
  <2>2. CASE Begins(p)
    <3>1. clock' \in 1..MaxTime + 1
      <4>1. clock \in 1..MaxTime /\ clock' = clock + 1
            BY <2>2, BeginsFacts
      <4> QED BY <4>1, StorageConstants
    <3>2. ASSUME NEW q \in Running PROVE {clock, agent[q].id} \in SUBSET (1..MaxTime)
      <4>1. clock \in 1..MaxTime
            BY <2>2, BeginsFacts
      <4>2. q \in Processes /\ Active(q)
            BY DEF Running, Active
      <4>3. agent[q].id \in 1..MaxTime
            BY <4>2, ActiveNumbers
      <4> QED BY <4>1, <4>3
    <3>3. together' = together \cup {{clock, agent[q].id} : q \in Running}
          BY <2>2, BeginsFacts
    <3>4. together \subseteq SUBSET (1..MaxTime)
          BY DEF TypeOK
    <3>5. together' \subseteq SUBSET (1..MaxTime)
      <4> DEFINE new == {{clock, agent[q].id} : q \in Running}
      <4>1. new \subseteq SUBSET (1..MaxTime)
            BY <3>2
      <4>2. together' = together \cup new
            BY <3>3
      <4> HIDE DEF new
      <4> QED BY <3>4, <4>1, <4>2
    <3> QED BY <3>1, <3>5
  <2> QED BY <2>1, <2>2, SameJob
<1>3. store' \subseteq Stored
  <2>1. ASSUME Active(p) PROVE Puts(p) \subseteq Stored
        BY <2>1, PutsFacts
  <2> QED BY <2>1, Changes DEF Adds, TypeOK
<1>4. removed' \subseteq [zero : 1..MaxTime, by : 1..MaxTime, short : BOOLEAN]
      BY Records DEF TypeOK
<1>5. succeeded' \subseteq Backup
  <2>1. Active(p) => agent[p].made \in Backup
        BY ActiveNumbers
  <2>2. succeeded \subseteq Backup
        BY DEF TypeOK
  <2> QED BY <2>1, <2>2, Records
<1>6. cleaned' \subseteq 1..MaxTime
  <2>1. Active(p) => agent[p].id \in 1..MaxTime
        BY ActiveNumbers
  <2>2. cleaned \subseteq 1..MaxTime
        BY DEF TypeOK
  <2> QED BY <2>1, <2>2, Records
<1>7. named' \in BOOLEAN /\ faults' \in 0..MaxFaults
  <2>1. faults \in 0..MaxFaults /\ MaxFaults \in Nat
        BY StorageConstants DEF TypeOK
  <2>2. /\ faults' = faults \/ (faults' = faults + 1 /\ faults < MaxFaults)
        /\ named' \in BOOLEAN
        BY Records
  <2>3. faults' \in 0..MaxFaults
        BY <2>1, <2>2
  <2> QED BY <2>2, <2>3
<1>8. conf' \in Options
      BY <1>1 DEF TypeOK
<1> QED BY <1>1, <1>2, <1>3, <1>4, <1>5, <1>6, <1>7, <1>8 DEF TypeOK

\* What Numbers says of one job.
Numbered(p) ==
    Active(p) =>
        /\ agent[p].id \in 1..clock - 1 /\ agent[p].id \notin cleaned
        /\ agent[p].made \in Backup
        /\ agent[p].made.zero < clock /\ agent[p].made.time < clock
        /\ \A z \in agent[p].todo : z < clock

LEMMA FullFacts ==
    ASSUME TypeOK, Numbers, NEW p \in Processes, Active(p)
    PROVE  /\ Full(p) \in Backup /\ Full(p).zero = agent[p].id /\ Full(p).level = 0
           /\ Full(p).time = agent[p].id
<1>1. agent[p].id \in 1..MaxTime /\ 0 \in 0..MaxLevel
      BY ActiveNumbers, StorageConstants
<1> QED BY <1>1 DEF Full, Backup

\* A step that leaves the clock, the job and what it makes alone.
LEMMA SameNumbered ==
    ASSUME TypeOK, Numbers, NEW p \in Processes, Active(p), clock' = clock, cleaned' = cleaned,
           agent'[p].id = agent[p].id, agent'[p].made \in Backup,
           agent'[p].made.zero < clock, agent'[p].made.time < clock,
           \A z \in agent'[p].todo : z < clock
    PROVE  Numbered(p)'
BY ActiveNumbers DEF Numbered

LEMMA SameLocal ==
    ASSUME NEW p \in Processes, Local(p), conf' = conf, removed \subseteq removed',
           agent'[p].pc = agent[p].pc, agent'[p].id = agent[p].id,
           agent'[p].made = agent[p].made, agent'[p].count = agent[p].count,
           agent'[p].todo = agent[p].todo, agent'[p].left = agent[p].left
    PROVE  Local(p)'
<1>1. Full(p)' = Full(p) /\ Hierarchical' = Hierarchical
      BY DEF Full, Hierarchical
<1>2. /\ agent'[p].pc \in {"zeros", "increments"} => agent'[p].made = Full(p)'
      /\ agent'[p].pc = "base" => agent'[p].made.level < MaxLevel
      /\ agent'[p].pc \in Writing =>
             agent'[p].made.time = agent'[p].id
             /\ (agent'[p].made.level = 0 => agent'[p].made.zero = agent'[p].id)
      /\ agent'[p].pc = "blocks" => agent'[p].count < Blocks
      /\ agent'[p].pc = "close" => agent'[p].count = Blocks
      /\ agent'[p].pc = "drain" => conf'.kind = "s3"
      /\ agent'[p].pc \in {"top", "metadir"} => Hierarchical'
      /\ agent'[p].pc \in {"top", "metadir", "meta"} => conf'.kind # "s3"
      BY <1>1 DEF Local
<1>3. agent'[p].pc = "increments" => \E z \in 1..MaxTime : agent'[p].todo = {z}
      BY DEF Local
<1>4. /\ agent'[p].pc = "rm meta" =>
             \A x \in agent'[p].left : x[1].zero = agent'[p].made.zero /\ x[2] \in MetaParts
      /\ agent'[p].pc = "rm data" =>
             \A x \in agent'[p].left : x[1].zero = agent'[p].made.zero /\ x[2] \in DataParts
      BY DEF Local
<1>5. agent'[p].pc \in {"rm meta", "rm data"} =>
          \E r \in removed' : r.zero = agent'[p].made.zero /\ r.by = agent'[p].id
      BY DEF Local
<1> QED BY <1>2, <1>3, <1>4, <1>5 DEF Local

LEMMA StepOwn ==
    ASSUME TypeOK, Numbers, NEW p \in Processes, Step(p), Local(p)
    PROVE  Numbered(p)' /\ Local(p)'
<1> USE DEF kept, unwritten
<1>0. Active(p) => /\ agent[p].made \in Backup
                   /\ agent[p].made.zero < clock /\ agent[p].made.time < clock
                   /\ \A z \in agent[p].todo : z < clock
      BY ActiveNumbers
<1>a. conf' = conf
      BY Changes
<1>b. ASSUME agent'[p].pc \in Resting PROVE Numbered(p)' /\ Local(p)'
      BY <1>b DEF Numbered, Active, Local, Resting, Writing
<1>c. \A x \in store : x[1] \in Backup /\ x[1].zero < clock /\ x[1].time < clock
      BY DEF Numbers, TypeOK, Stored
<1>1. CASE Begins(p)
  <2>1. /\ agent'[p].pc \in {"zeros", "open", "admin zeros"} /\ agent'[p].id = clock
        /\ agent'[p].made = [zero |-> clock, level |-> 0, time |-> clock]
        /\ agent'[p].made \in Backup /\ agent'[p].todo = {}
        /\ clock \in 1..MaxTime /\ clock' = clock + 1 /\ cleaned' = cleaned
        BY <1>1, BeginsFacts
  <2>2. clock \in 1..clock' - 1 /\ clock < clock' /\ clock \notin cleaned
    <3>1. \A i \in cleaned : i < clock
          BY DEF Numbers
    <3>2. clock \in Nat /\ clock > 0 /\ clock' = clock + 1
      <4>1. clock \in 1..MaxTime /\ clock' = clock + 1
            BY <2>1
      <4> QED BY <4>1, StorageConstants
    <3>3. clock \notin cleaned
          BY <3>1, <3>2
    <3>4. clock \in 1..clock' - 1 /\ clock < clock'
          BY <3>2
    <3> QED BY <3>3, <3>4
  <2>3. agent'[p].made.zero = clock /\ agent'[p].made.time = clock
    <3>1. agent'[p].made = [zero |-> clock, level |-> 0, time |-> clock]
          BY <1>1, BeginsFacts
    <3> QED BY <3>1
  <2>4. Numbered(p)'
    <3>1. /\ agent'[p].id = clock /\ cleaned' = cleaned /\ agent'[p].made \in Backup
          /\ agent'[p].made.zero < clock' /\ agent'[p].made.time < clock'
          /\ \A z \in agent'[p].todo : z < clock'
          BY <2>1, <2>2, <2>3
    <3> QED BY <2>2, <3>1 DEF Numbered
  <2>5. Full(p)' = agent'[p].made
        BY <2>1 DEF Full
  <2>6. Local(p)'
        BY <2>1, <2>3, <2>5 DEF Local, Writing
  <2> QED BY <2>4, <2>6
<1>2. CASE ListZeros(p)
  <2>0. agent[p].pc = "zeros" => agent[p].made = Full(p)
        BY DEF Local
  <2>1. Active(p)
        BY <1>2, <2>0, ListZerosFacts DEF Active, Resting
  <2>2. \A z \in agent'[p].todo : z < clock
    <3>1. \A z \in Zeros : z < clock
          BY ZerosFacts DEF Numbers
    <3> QED BY <1>0, <1>2, <2>0, <2>1, <3>1, ListZerosFacts
  <2>3. Numbered(p)'
        BY <1>0, <1>2, <2>0, <2>1, <2>2, ListZerosFacts, SameNumbered
  <2>4. Local(p)'
    <3>1. agent'[p].id = agent[p].id /\ agent'[p].made = Full(p)
          BY <1>2, <2>0, ListZerosFacts
    <3>2. agent'[p].pc = "open" \/ (agent'[p].pc = "increments" /\ \E z \in 1..MaxTime : agent'[p].todo = {z})
          BY <1>2, <2>0, ListZerosFacts, ZerosFacts
    <3>3. Full(p).zero = agent[p].id /\ Full(p).time = agent[p].id
          BY DEF Full
    <3>4. Full(p)' = Full(p)
          BY <3>1 DEF Full
    <3> QED BY <3>1, <3>2, <3>3, <3>4 DEF Local, Writing
  <2> QED BY <2>3, <2>4
<1>3. CASE ListIncrements(p)
  <2>1. Active(p)
        BY <1>3, ListIncrementsFacts DEF Active, Resting
  <2>2. /\ Full(p) \in Backup /\ Full(p).zero = agent[p].id /\ Full(p).level = 0
        /\ Full(p).time = agent[p].id /\ agent[p].id < clock
        BY <2>1, FullFacts, ActiveNumbers
  <2>3. Numbered(p)'
        BY <1>0, <1>3, <1>c, <2>1, <2>2, ListIncrementsFacts, SameNumbered
  <2>4. Local(p)'
        BY <1>3, <2>2, ListIncrementsFacts DEF Local, Writing
  <2> QED BY <2>3, <2>4
<1>4. CASE GetBase(p)
  <2>1. Active(p)
        BY <1>4, GetBaseFacts DEF Active, Resting
  <2>2. Numbered(p)'
        BY <1>0, <1>4, <2>1, GetBaseFacts, SameNumbered, ActiveNumbers
  <2>3. agent'[p].made.level # 0
    <3>1. agent[p].made.level \in Nat
          BY <1>0, <2>1, BackupFacts
    <3> QED BY <1>4, <3>1, GetBaseFacts
  <2>4. Local(p)'
        BY <1>4, <2>3, GetBaseFacts DEF Local, Writing
  <2> QED BY <2>2, <2>4
<1>5. CASE Open(p)
  <2>1. Active(p)
        BY <1>5, OpenFacts DEF Active, Resting
  <2>2. Numbered(p)'
        BY <1>0, <1>5, <2>1, OpenFacts, SameNumbered
  <2>3. Local(p)'
    <3>1. /\ agent[p].pc = "open" /\ agent'[p].pc = "blocks" /\ agent'[p].count < Blocks
          /\ agent'[p].made = agent[p].made /\ agent'[p].id = agent[p].id
          BY <1>5, OpenFacts, StorageConstants
    <3> QED BY <3>1 DEF Local, Writing
  <2> QED BY <2>2, <2>3
<1>6. CASE WriteBlock(p)
  <2>1. Active(p)
        BY <1>6, WriteBlockFacts DEF Active, Resting
  <2>2. Numbered(p)'
        BY <1>0, <1>6, <2>1, WriteBlockFacts, SameNumbered
  <2>3. Local(p)'
    <3>1. /\ agent'[p].pc = "blocks" => agent'[p].count < Blocks
          /\ agent'[p].pc = "close" => agent'[p].count = Blocks
          BY <1>6, WriteBlockFacts, Typed, StorageConstants
    <3>2. agent'[p].pc \in {"blocks", "close"} /\ agent[p].pc = "blocks"
          /\ agent'[p].made = agent[p].made /\ agent'[p].id = agent[p].id
          BY <1>6, WriteBlockFacts
    <3> QED BY <3>1, <3>2 DEF Local, Writing
  <2> QED BY <2>2, <2>3
<1>7. CASE Plain(p)
  <2>1. Active(p)
        BY <1>7, PlainFacts DEF Active, Resting, Plain
  <2>2. Numbered(p)'
        BY <1>0, <1>7, <2>1, PlainFacts, SameNumbered DEF Plain, Stays
  <2>3. Local(p)'
    <3>1. agent'[p].made = agent[p].made /\ agent'[p].id = agent[p].id
          BY <1>7, PlainFacts DEF Plain, Stays
    <3>2. agent[p].pc = "engine" => conf.kind # "s3"
      <4>1. Able(p)
            BY <1>7, PlainFacts DEF Plain
      <4> QED BY <4>1 DEF Able, Never
    <3>3. \/ agent[p].pc \in {"close", "drain"} /\ agent'[p].pc = "engine"
          \/ agent[p].pc = "engine" /\ agent'[p].pc = IF Hierarchical THEN "top" ELSE "meta"
          \/ agent[p].pc = "top" /\ agent'[p].pc = "metadir"
          \/ agent[p].pc = "metadir" /\ agent'[p].pc = "meta"
          BY <1>7, PlainFacts DEF Plain
    <3> QED BY <1>a, <3>1, <3>2, <3>3 DEF Local, Writing, Hierarchical
  <2> QED BY <2>2, <2>3
<1>8. CASE PutMetadata(p)
      BY <1>8, <1>b, PutMetadataFacts DEF Resting
<1>9. CASE ListOld(p)
  <2>1. Active(p)
        BY <1>9, ListOldFacts DEF Active, Resting
  <2>2. \A z \in agent'[p].todo : z < clock
    <3>1. \A z \in Zeros : z < clock
          BY ZerosFacts DEF Numbers
    <3> QED BY <1>9, <3>1, ListOldFacts
  <2>3. Numbered(p)'
        BY <1>0, <1>9, <2>1, <2>2, ListOldFacts, SameNumbered
  <2>4. Local(p)'
        BY <1>9, ListOldFacts DEF Local, Writing
  <2> QED BY <2>3, <2>4
<1>10. CASE Pick(p)
  <2>1. Active(p)
        BY <1>10, PickFacts DEF Active, Resting
  <2>2. CASE agent'[p].pc = "idle"
        BY <1>b, <2>2 DEF Resting
  <2>3. CASE agent'[p].pc # "idle"
    <3>1. /\ agent'[p].pc = "rm meta" /\ agent'[p].id = agent[p].id /\ UNCHANGED <<kept, cleaned>>
          /\ agent'[p].todo \subseteq agent[p].todo
          BY <1>10, <2>3, PickFacts
    <3>2. PICK z \in agent[p].todo :
              /\ agent'[p].made = [zero |-> z, level |-> 0, time |-> z]
              /\ agent'[p].made \in Backup
              /\ agent'[p].left = Found(z, MetaParts)
              /\ removed' = removed \cup {[zero |-> z, by |-> agent[p].id,
                                           short |-> Short(z, MetaParts)]}
          BY <1>10, <2>3, PickFacts
    <3>7. agent'[p].made.zero = z /\ agent'[p].made.time = z
          BY <3>2
    <3>3. Numbered(p)'
          BY <1>0, <2>1, <3>1, <3>2, <3>7, SameNumbered
    <3>4. \A x \in agent'[p].left : x[1].zero = z /\ x[2] \in MetaParts
          BY <3>2 DEF Found, Tree
    <3>5. \E r \in removed' : r.zero = z /\ r.by = agent[p].id
      <4> DEFINE r == [zero |-> z, by |-> agent[p].id, short |-> Short(z, MetaParts)]
      <4>1. r.zero = z /\ r.by = agent[p].id /\ r \in removed'
            BY <3>2
      <4> QED BY <4>1
    <3>6. Local(p)'
          BY <3>1, <3>4, <3>5, <3>7 DEF Local, Writing
    <3> QED BY <3>3, <3>6
  <2> QED BY <2>2, <2>3
<1>11. CASE RemoveMetadata(p)
  <2>1. Active(p)
        BY <1>11, RemoveMetadataFacts DEF Active, Resting
  <2>2. Numbered(p)'
        BY <1>0, <1>11, <2>1, RemoveMetadataFacts, SameNumbered
  <2>3. PICK x \in agent[p].left :
            \A y \in agent'[p].left : y \in agent[p].left \/ y \in Tree(x[1].zero, MetaParts)
        BY <1>11, RemoveMetadataFacts
  <2>4. /\ agent[p].pc = "rm meta" /\ agent'[p].pc = "rm meta" /\ agent'[p].made = agent[p].made
        /\ agent'[p].id = agent[p].id /\ removed' = removed
        BY <1>11, RemoveMetadataFacts
  <2>5. \A y \in agent[p].left : y[1].zero = agent[p].made.zero /\ y[2] \in MetaParts
        BY <2>4 DEF Local
  <2>6. \A y \in agent'[p].left : y[1].zero = agent[p].made.zero /\ y[2] \in MetaParts
        BY <2>3, <2>5 DEF Tree
  <2>7. Local(p)'
        BY <2>4, <2>6 DEF Local, Writing
  <2> QED BY <2>2, <2>7
<1>12. CASE RemoveData(p)
  <2>1. Active(p)
        BY <1>12, RemoveDataFacts DEF Active, Resting
  <2>2. Numbered(p)'
        BY <1>0, <1>12, <2>1, RemoveDataFacts, SameNumbered
  <2>3. /\ agent[p].pc = "rm data" /\ agent'[p].pc = "rm data" /\ agent'[p].made = agent[p].made
        /\ agent'[p].id = agent[p].id /\ removed' = removed
        /\ \A y \in agent'[p].left :
                  y \in agent[p].left \/ y \in Tree(agent[p].made.zero, DataParts)
        BY <1>12, RemoveDataFacts
  <2>4. \A y \in agent'[p].left : y[1].zero = agent[p].made.zero /\ y[2] \in DataParts
        BY <2>3 DEF Local, Tree
  <2>5. Local(p)'
        BY <2>3, <2>4 DEF Local, Writing
  <2> QED BY <2>2, <2>5
<1>13. CASE MetadataRemoved(p) \/ DataRemoved(p)
  <2>1. Active(p)
        BY <1>13, RemovedFacts DEF Active, Resting
  <2>2. Numbered(p)'
        BY <1>0, <1>13, <2>1, RemovedFacts, SameNumbered
  <2>3. CASE agent[p].pc = "rm data"
    <3>1. agent'[p].pc = "pick"
          BY <1>13, <2>3, RemovedFacts
    <3>2. Local(p)'
          BY <3>1 DEF Local, Writing
    <3> QED BY <2>2, <3>2
  <2>4. CASE agent[p].pc = "rm meta"
    <3>1. /\ agent'[p].pc = "rm data" /\ agent'[p].made = agent[p].made /\ agent'[p].id = agent[p].id
          /\ agent'[p].left = Found(agent[p].made.zero, DataParts) /\ removed \subseteq removed'
          BY <1>13, <2>4, RemovedFacts, Changes
    <3>2. \A x \in agent'[p].left : x[1].zero = agent[p].made.zero /\ x[2] \in DataParts
          BY <3>1 DEF Found, Tree
    <3> QED BY <2>2, <2>4, <3>1, <3>2 DEF Local, Writing
  <2> QED BY <1>13, <2>2, <2>3, <2>4, RemovedFacts
<1>14. CASE Rest(p)
      BY <1>14, <1>b, RestFacts DEF Rest
<1>15. CASE Drop(p)
  <2>1. Active(p) /\ agent'[p].pc = agent[p].pc /\ Stays(p) /\ UNCHANGED <<kept, removed, cleaned>>
        BY <1>15, DropFacts DEF Active
  <2>2. Numbered(p)'
        BY <1>0, <2>1, SameNumbered DEF Stays
  <2>3. Local(p)'
    <3>1. /\ agent'[p].pc = agent[p].pc /\ agent'[p].id = agent[p].id
          /\ agent'[p].made = agent[p].made /\ agent'[p].count = agent[p].count
          /\ agent'[p].todo = agent[p].todo /\ agent'[p].left = agent[p].left
          BY <2>1 DEF Stays
    <3> QED BY <1>a, <2>1, <3>1, SameLocal
  <2> QED BY <2>2, <2>3
<1>16. CASE CallFails(p)
  <2>1. CASE agent'[p].pc = "failed"
        BY <1>b, <2>1 DEF Resting
  <2>2. CASE agent'[p].pc # "failed"
    <3>1. Active(p) /\ UNCHANGED <<kept, cleaned, removed>>
          BY <1>16, CallFailsFacts, ActiveFacts
    <3>2. /\ agent'[p].id = agent[p].id /\ agent'[p].made = agent[p].made
          /\ agent'[p].left = agent[p].left /\ agent'[p].count = agent[p].count
          /\ agent'[p].todo \subseteq agent[p].todo
          BY <1>16, <2>2, CallFailsFacts DEF Stays
    <3>3. Numbered(p)'
          BY <1>0, <3>1, <3>2, SameNumbered
    <3>4. \/ agent[p].pc = "zeros" /\ agent'[p].pc = "open"
          \/ agent'[p].pc = "pick"
          \/ agent[p].pc = "blocks" /\ agent'[p].pc = "blocks"
          \/ agent[p].pc \in {"blocks", "close"} /\ agent'[p].pc = "drain" /\ conf.kind = "s3"
          BY <1>16, <2>2, CallFailsFacts
    <3>5. agent[p].pc = "zeros" => agent[p].made.time = agent[p].id /\ agent[p].made.zero = agent[p].id
          BY DEF Local, Full
    <3>6. Local(p)'
          BY <1>a, <3>2, <3>4, <3>5 DEF Local, Writing
    <3> QED BY <3>3, <3>6
  <2> QED BY <2>1, <2>2
<1> QED BY StepCases, <1>1, <1>2, <1>3, <1>4, <1>5, <1>6, <1>7, <1>8, <1>9, <1>10, <1>11,
           <1>12, <1>13, <1>14, <1>15, <1>16

LEMMA StepOverlap ==
    ASSUME TypeOK, Numbers, Overlap, NEW p \in Processes, Step(p), Local(p)
    PROVE  Overlap'
<1> SUFFICES ASSUME NEW q \in Processes, q # p, Active(p)', Active(q)'
             PROVE  agent'[p].id # agent'[q].id /\ {agent'[p].id, agent'[q].id} \in together'
  <2>1. \A a, b : {a, b} = {b, a}
        OBVIOUS
  <2>2. ASSUME NEW q \in Processes, NEW r \in Processes, q # r, Active(q)', Active(r)'
        PROVE  agent'[q].id # agent'[r].id /\ {agent'[q].id, agent'[r].id} \in together'
    <3>1. CASE q = p
          BY <2>2, <3>1
    <3>2. CASE r = p
          BY <2>1, <2>2, <3>2
    <3>3. CASE q # p /\ r # p
      <4>1. agent'[q] = agent[q] /\ agent'[r] = agent[r] /\ together \subseteq together'
            BY <3>3, Changes DEF Others
      <4>2. Active(q) /\ Active(r)
            BY <2>2, <4>1 DEF Active
      <4> QED BY <2>2, <4>1, <4>2 DEF Overlap
    <3> QED BY <3>1, <3>2, <3>3
  <2> QED BY <2>2 DEF Overlap
<1>1. agent'[q] = agent[q] /\ together \subseteq together'
      BY Changes DEF Others
<1>2. Active(q)
      BY <1>1 DEF Active
<1>3. CASE Begins(p)
  <2>1. agent'[p].id = clock /\ together' = together \cup {{clock, agent[r].id} : r \in Running}
        BY <1>3, BeginsFacts
  <2>2. q \in Running
        BY <1>2 DEF Active, Running
  <2>3. agent[q].id < clock /\ agent[q].id \in Nat
        BY <1>2, ActiveNumbers
  <2> QED BY <1>1, <2>1, <2>2, <2>3
<1>4. CASE Active(p) /\ agent'[p].id = agent[p].id
      BY <1>1, <1>2, <1>4 DEF Overlap
<1> QED BY <1>3, <1>4, SameJob DEF Active

LEMMA StepNumbers ==
    ASSUME TypeOK, Numbers, Overlap, NEW p \in Processes, Step(p), Local(p)
    PROVE  Numbers'
<1>1. clock \in Nat /\ clock' \in Nat /\ clock' >= clock
      BY Changes, StepTypeOK, StorageConstants DEF TypeOK
<1>2. \A x \in store' : x[1].zero < clock' /\ x[1].time < clock'
  <2> SUFFICES ASSUME NEW x \in store' PROVE x[1].zero < clock' /\ x[1].time < clock'
      OBVIOUS
  <2>1. x[1] \in Backup /\ x[1].zero \in Nat /\ x[1].time \in Nat
    <3>1. x \in Stored
          BY StepTypeOK DEF TypeOK
    <3> QED BY <3>1, BackupFacts DEF Stored
  <2>2. CASE x \in store
        BY <1>1, <2>1, <2>2 DEF Numbers
  <2>3. CASE x \notin store
    <3>1. Active(p) /\ x \in Puts(p)
          BY <2>3, Changes DEF Adds
    <3>2. agent[p].made.zero < clock /\ agent[p].made.time < clock
          BY <3>1, ActiveNumbers
    <3>3. x[1].zero = agent[p].made.zero
          BY <3>1, PutsFacts
    <3>4. x[1] = agent[p].made \/ x = Top(agent[p].made)
          BY <3>1, PutsFacts
    <3>5. x[1].time < clock
          BY <3>2, <3>4 DEF Top, Part
    <3> QED BY <1>1, <2>1, <3>2, <3>3, <3>5
  <2> QED BY <2>2, <2>3
<1>3. \A r \in removed' : r.zero < clock' /\ r.by < clock'
  <2> SUFFICES ASSUME NEW r \in removed' PROVE r.zero < clock' /\ r.by < clock'
      OBVIOUS
  <2>1. r.zero \in Nat /\ r.by \in Nat
        BY StepTypeOK, StorageConstants DEF TypeOK
  <2>2. CASE r \in removed
        BY <1>1, <2>1, <2>2 DEF Numbers
  <2>3. CASE r \notin removed
    <3>1. Active(p) /\ r.by = agent[p].id /\ r.zero < clock
          BY <2>3, Records
    <3>2. agent[p].id < clock
          BY <3>1, ActiveNumbers
    <3> QED BY <1>1, <2>1, <3>1, <3>2
  <2> QED BY <2>2, <2>3
<1>4. \A i \in cleaned' : i < clock'
  <2> SUFFICES ASSUME NEW i \in cleaned' PROVE i < clock'
      OBVIOUS
  <2>1. i \in Nat
        BY StepTypeOK, StorageConstants DEF TypeOK
  <2>2. CASE i \in cleaned
        BY <1>1, <2>1, <2>2 DEF Numbers
  <2>3. CASE i \notin cleaned
    <3>1. Active(p) /\ i = agent[p].id
          BY <2>3, Records
    <3>2. agent[p].id < clock
          BY <3>1, ActiveNumbers
    <3> QED BY <1>1, <2>1, <3>1, <3>2
  <2> QED BY <2>2, <2>3
<1>5. ASSUME NEW q \in Processes, q # p PROVE Numbered(q)'
  <2> SUFFICES ASSUME Active(q)' PROVE Numbered(q)'
      BY DEF Numbered
  <2>1. agent'[q] = agent[q]
        BY <1>5, Changes DEF Others
  <2>2. Active(q)
        BY <2>1 DEF Active
  <2>3. /\ agent[q].id \in 1..clock - 1 /\ agent[q].id \in Nat /\ agent[q].id < clock
        /\ agent[q].id \notin cleaned
        /\ agent[q].made \in Backup
        /\ agent[q].made.zero < clock /\ agent[q].made.time < clock
        /\ \A z \in agent[q].todo : z < clock /\ z \in 1..MaxTime
        BY <2>2, ActiveNumbers
  <2>4. agent[q].made.zero \in Nat /\ agent[q].made.time \in Nat
        BY <2>3, BackupFacts
  <2>5. agent[q].id \notin cleaned'
    <3>1. cleaned' = cleaned \/ (Active(p) /\ cleaned' = cleaned \cup {agent[p].id})
          BY Records
    <3>2. Active(p) => agent[p].id # agent[q].id
          BY <1>5, <2>2 DEF Overlap
    <3> QED BY <2>3, <3>1, <3>2
  <2>6. agent[q].id \in 1..clock' - 1
        BY <1>1, <2>3
  <2>7. agent[q].made.zero < clock' /\ agent[q].made.time < clock'
        BY <1>1, <2>3, <2>4
  <2>8. \A z \in agent[q].todo : z < clock'
        BY <1>1, <2>3, StorageConstants
  <2> QED BY <2>1, <2>3, <2>5, <2>6, <2>7, <2>8 DEF Numbered
<1>6. Numbered(p)'
      BY StepOwn
<1>7. \A q \in Processes : Numbered(q)'
      BY <1>5, <1>6
<1> QED BY <1>2, <1>3, <1>4, <1>7 DEF Numbers, Numbered

LEMMA StepKept ==
    ASSUME TypeOK, Numbers, Kept, NEW p \in Processes, Step(p), Local(p)
    PROVE  Kept'
<1>1. conf' = conf /\ Hierarchical' = Hierarchical
      BY Changes DEF Hierarchical
<1>2. IsFiniteSet(store')
  <2>1. CASE Active(p)
    <3>1. IsFiniteSet(store \cup Puts(p))
          BY <2>1, PutsFacts, FS_Union DEF Kept
    <3>2. store' \subseteq store \cup Puts(p)
          BY Changes DEF Adds
    <3> QED BY <3>1, <3>2, FS_Subset
  <2>2. CASE ~Active(p)
    <3>1. store' \subseteq store
          BY <2>2, Changes DEF Adds
    <3> QED BY <3>1, FS_Subset DEF Kept
  <2> QED BY <2>1, <2>2
<1>3. ASSUME NEW x \in store'
      PROVE  /\ x[2] \in {"metadir", "meta"} => x = Part(x[1], x[2])
             /\ x[2] \in {"metadir", "meta"} /\ x[1].level = 0 => x[1].time = x[1].zero
             /\ ~Hierarchical => x[2] \notin {"metadir", "top"}
  <2>1. CASE x \in store
        BY <2>1 DEF Kept
  <2>2. CASE x \notin store
    <3>1. Active(p) /\ x \in Puts(p)
          BY <2>2, Changes DEF Adds
    <3>2. Top(agent[p].made)[2] = "top"
          BY DEF Top, Part
    <3>3. /\ agent[p].pc \in {"metadir", "meta"} =>
                 agent[p].made.time = agent[p].id
                 /\ (agent[p].made.level = 0 => agent[p].made.zero = agent[p].id)
          /\ agent[p].pc \in {"top", "metadir"} => Hierarchical
          BY DEF Local, Writing
    <3> QED BY <3>1, <3>2, <3>3, PutsFacts DEF DataParts
  <2> QED BY <2>1, <2>2
<1> QED BY <1>1, <1>2, <1>3 DEF Kept

LEMMA StepBasics ==
    ASSUME Basics, NEW p \in Processes, Step(p)
    PROVE  Basics'
<1>1. TypeOK' /\ Numbers' /\ Overlap' /\ Kept' /\ Local(p)'
      BY StepTypeOK, StepNumbers, StepOverlap, StepKept, StepOwn DEF Basics
<1>2. ASSUME NEW q \in Processes, q # p PROVE Local(q)'
  <2>1. agent'[q] = agent[q] /\ conf' = conf /\ removed \subseteq removed'
        BY <1>2, Changes DEF Others, Basics
  <2> QED BY <2>1, SameLocal DEF Basics
<1> QED BY <1>1, <1>2 DEF Basics

-----------------------------------------------------------------------------
(* What is listed is whole.                                                *)

LEMMA BeforeFacts == ASSUME TypeOK, NEW x \in store PROVE ~Before(x, x)
<1>1. x[1] \in Backup /\ x[3] \in 0..Blocks
      BY DEF TypeOK, Stored
<1>2. x[1].level \in Nat /\ x[1].time \in Nat /\ x[3] \in Nat
      BY <1>1, BackupFacts, StorageConstants
<1> DEFINE k == CASE x[2] = "manifest" -> 0 [] x[2] = "block" -> 2 [] OTHER -> 1
           rank == <<x[1].level, x[1].time, k, x[3]>>
<1>3. k \in Nat
      OBVIOUS
<1> HIDE DEF k
<1>4. \A i \in 1..4 : rank[i] \in Nat
      BY <1>2, <1>3
<1> HIDE DEF rank
<1>5. \A i \in 1..4 : ~(rank[i] < rank[i])
      BY <1>4
<1> QED BY <1>5 DEF Before, rank, k

LEMMA FoundAll ==
    ASSUME Basics, AllIsListed, NEW z \in 1..MaxTime
    PROVE  Found(z, MetaParts) = Tree(z, MetaParts)
<1>1. CASE conf.kind # "swift"
      BY <1>1 DEF Found
<1>2. CASE conf.kind = "swift"
  <2> DEFINE tree == Tree(z, MetaParts)
  <2>1. tree \subseteq store /\ IsFiniteSet(store) /\ TypeOK
        BY DEF Tree, Basics, Kept
  <2>2. Cardinality(tree) <= Page
        BY <1>2 DEF AllIsListed
  <2> HIDE DEF tree
  <2>3. IsFiniteSet(tree) /\ Cardinality(tree) \in Nat
        BY <2>1, FS_Subset, FS_CardinalityType
  <2>4. ASSUME NEW x \in tree PROVE Cardinality({y \in tree : Before(y, x)}) < Page
    <3> DEFINE S == {y \in tree : Before(y, x)}
    <3>1. S \in SUBSET (tree \ {x})
          BY <2>1, BeforeFacts
    <3> HIDE DEF S
    <3>2. IsFiniteSet(tree \ {x}) /\ Cardinality(tree \ {x}) = Cardinality(tree) - 1
          BY <2>3, FS_RemoveElement
    <3>3. Cardinality(S) <= Cardinality(tree \ {x}) /\ Cardinality(S) \in Nat
          BY <3>1, <3>2, FS_Subset, FS_CardinalityType
    <3>4. Cardinality(S) < Page
          BY <2>2, <2>3, <3>2, <3>3, StorageConstants
    <3> QED BY <3>4 DEF S
  <2> QED BY <1>2, <2>4 DEF Found, tree
<1> QED BY <1>1, <1>2

\* A backup that is written to stays as disturbed as it was.
LEMMA DisturbedStays ==
    ASSUME Basics, NEW p \in Processes, Step(p), NEW b, Disturbed(b)
    PROVE  Disturbed(b)'
BY Changes DEF Disturbed, Basics

\* Another job takes nothing of a backup, unless it disturbs it.
LEMMA DataStays ==
    ASSUME Basics, NEW p \in Processes, Step(p),
           NEW q \in Processes, q # p, agent[q].pc \in Writing, ~Disturbed(agent[q].made),
           NEW x \in store, x[1] = agent[q].made, x[2] \in DataParts
    PROVE  x \in store'
<1> SUFFICES ASSUME x \notin store' PROVE FALSE
    OBVIOUS
<1>1. Active(q) /\ agent[q].made.time = agent[q].id
      BY DEF Active, Resting, Writing, Basics, Local
<1>2. Active(p) /\ agent[p].id # agent[q].id /\ {agent[p].id, agent[q].id} \in together
      BY <1>1, Changes DEF Takes, Basics, Overlap
<1>3. CASE x \in Outgrown(p)
  <2>1. agent[p].pc = "blocks" /\ x[1] = agent[p].made
        BY <1>3 DEF Outgrown, Block
  <2>2. agent[p].made.time = agent[p].id
        BY <2>1 DEF Basics, Local, Writing
  <2> QED BY <1>1, <1>2, <2>1, <2>2
<1>4. CASE agent[p].pc = "rm data" /\ x[1].zero = agent[p].made.zero
  <2>1. PICK r \in removed : r.zero = agent[p].made.zero /\ r.by = agent[p].id
        BY <1>4 DEF Basics, Local
  <2> QED BY <1>1, <1>2, <1>4, <2>1 DEF Disturbed
<1>5. CASE x[2] \in MetaParts
      BY <1>5 DEF DataParts, MetaParts
<1> QED BY <1>3, <1>4, <1>5, Changes DEF Takes, Basics

LEMMA OtherWritten ==
    ASSUME Basics, NEW p \in Processes, Step(p), NEW q \in Processes, q # p, Written(q)
    PROVE  Written(q)'
<1>1. agent'[q] = agent[q] /\ conf' = conf
      BY Changes DEF Others, Basics
<1>2. CASE agent[q].pc \notin Writing
      BY <1>1, <1>2 DEF Written
<1>3. CASE Disturbed(agent[q].made)
  <2>1. Disturbed(agent[q].made)'
        BY <1>1, <1>3, DisturbedStays DEF Disturbed
  <2> QED BY <1>1, <2>1 DEF Written
<1>4. CASE agent[q].pc \in Writing /\ ~Disturbed(agent[q].made)
  <2>1. \A x \in store : x[1] = agent[q].made /\ x[2] \in DataParts => x \in store'
        BY <1>4, DataStays
  <2>2. /\ \A n : Block(agent[q].made, n) \in store => Block(agent[q].made, n) \in store'
        /\ Part(agent[q].made, "engine") \in store => Part(agent[q].made, "engine") \in store'
        /\ Part(agent[q].made, "manifest") \in store => Part(agent[q].made, "manifest") \in store'
        BY <2>1 DEF Block, Part, DataParts
  <2>3. Content(agent[q].made) \subseteq store => Content(agent[q].made) \subseteq store'
        BY <2>2 DEF Content
  <2>4. Whole(agent[q].made) => Whole(agent[q].made)'
        BY <1>1, <2>2, <2>3 DEF Whole, Content
  <2>5. Content(agent[q].made)' = Content(agent[q].made)
        BY <1>1 DEF Content
  <2> QED BY <1>1, <1>4, <2>2, <2>3, <2>4, <2>5 DEF Written
<1> QED BY <1>2, <1>3, <1>4

\* What a job at work has stored is there after its step, but the file that has grown.
LEMMA OwnStays ==
    ASSUME Basics, NEW p \in Processes, Step(p), agent[p].pc \in Writing
    PROVE  /\ \A x \in store : x \in store' \/ x \in Outgrown(p)
           /\ (agent[p].pc # "blocks" \/ conf.kind = "swift") => store \subseteq store'
<1>1. \A x \in store : x \in store' \/ x \in Outgrown(p)
      BY Changes DEF Takes, Writing, Basics
<1>2. (agent[p].pc # "blocks" \/ conf.kind = "swift") => Outgrown(p) = {}
      BY DEF Outgrown
<1> QED BY <1>1, <1>2

LEMMA OwnWritten ==
    ASSUME Basics, NEW p \in Processes, Step(p), Written(p)
    PROVE  Written(p)'
<1> DEFINE b == agent[p].made
<1> USE DEF kept, unwritten
<1>0. TypeOK /\ Numbers /\ Local(p) /\ conf' = conf
      BY Changes DEF Basics
<1>a. ASSUME agent'[p].pc \notin Writing \/ agent'[p].pc \in {"open", "drain"} PROVE Written(p)'
      BY <1>a DEF Written, Writing
<1>b. ASSUME agent'[p].made = b, Disturbed(b) PROVE Written(p)'
  <2>1. Disturbed(b)'
        BY <1>b, DisturbedStays DEF Disturbed
  <2> QED BY <1>b, <2>1 DEF Written
<1>c. \A c : (Content(c) \subseteq store <=>
                 IF conf.kind = "swift"
                 THEN Part(c, "manifest") \in store /\ \A n \in 1..Blocks : Block(c, n) \in store
                 ELSE Block(c, Blocks) \in store)
      BY DEF Content
<1>d. \A c : (Whole(c) <=> Content(c) \subseteq store /\ Part(c, "engine") \in store)
      BY DEF Whole
<1>e. (Content(b) \subseteq store)' <=>
          IF conf'.kind = "swift"
          THEN Part(b', "manifest") \in store' /\ \A n \in 1..Blocks : Block(b', n) \in store'
          ELSE Block(b', Blocks) \in store'
      BY DEF Content
<1>f. Whole(b)' <=> (Content(b) \subseteq store)' /\ Part(b', "engine") \in store'
      BY DEF Whole
<1>1. CASE Begins(p)
      BY <1>0, <1>1, <1>a, BeginsFacts DEF Writing
<1>2. CASE ListZeros(p)
  <2>1. agent[p].pc = "zeros" => agent[p].made = Full(p)
        BY <1>0 DEF Local
  <2> QED BY <1>0, <1>2, <1>a, <2>1, ListZerosFacts DEF Writing
<1>3. CASE ListIncrements(p)
      BY <1>0, <1>3, <1>a, ListIncrementsFacts DEF Writing
<1>4. CASE GetBase(p)
      BY <1>0, <1>4, <1>a, GetBaseFacts
<1>5. CASE Open(p)
  <2>1. /\ agent[p].pc = "open" /\ agent'[p].pc = "blocks" /\ agent'[p].count = 0
        /\ agent'[p].made = b /\ Stores(p)
        BY <1>0, <1>5, OpenFacts
  <2>2. conf.kind \in {"ssh", "local"} => Block(b, 0) \in Puts(p)
        BY <2>1 DEF Puts, Hierarchical, Dirs
  <2>3. conf.kind \in {"ssh", "local"} => Block(b, 0) \in store'
        BY <2>1, <2>2 DEF Stores
  <2> QED BY <1>0, <2>1, <2>3 DEF Written
<1>6. CASE WriteBlock(p)
  <2>1. /\ agent[p].pc = "blocks" /\ agent[p].count < Blocks /\ agent'[p].count = agent[p].count + 1
        /\ agent'[p].pc = IF agent[p].count + 1 < Blocks THEN "blocks" ELSE "close"
        /\ agent'[p].made = b /\ Stores(p)
        BY <1>0, <1>6, WriteBlockFacts
  <2>2. CASE Disturbed(b)
        BY <1>b, <2>1, <2>2
  <2>3. CASE ~Disturbed(b)
    <3>0. agent[p].count \in Nat /\ Blocks \in Nat
          BY <1>0, Typed, StorageConstants
    <3>1. conf.kind = "swift" => \A n \in 1..agent[p].count + 1 : Block(b, n) \in store'
      <4> SUFFICES ASSUME conf.kind = "swift", NEW n \in 1..agent[p].count + 1
                   PROVE  Block(b, n) \in store'
          OBVIOUS
      <4>1. \A k \in 1..agent[p].count : Block(b, k) \in store
            BY <2>1, <2>3 DEF Written, Writing
      <4>2. Block(b, agent[p].count + 1) \in Puts(p)
            BY <2>1 DEF Puts
      <4>3. Outgrown(p) = {}
            BY DEF Outgrown
      <4>4. n \in 1..agent[p].count \/ n = agent[p].count + 1
            BY <3>0
      <4> QED BY <2>1, <4>1, <4>2, <4>3, <4>4 DEF Stores
    <3>2. conf.kind \in {"ssh", "local"} => Block(b, agent[p].count + 1) \in store'
      <4> SUFFICES ASSUME conf.kind \in {"ssh", "local"} PROVE Block(b, agent[p].count + 1) \in store'
          OBVIOUS
      <4>1. Block(b, agent[p].count) \in store
            BY <2>1, <2>3 DEF Written, Writing
      <4>2. agent[p].count + 1 - 1 = agent[p].count
            BY <3>0
      <4>3. Block(b, agent[p].count + 1) \in Puts(p)
        <5>1. Block(b, agent[p].count + 1 - 1) \in store
              BY <4>1, <4>2
        <5>2. agent[p].pc = "blocks"
              BY <2>1
        <5>3. Puts(p) = IF conf.kind = "swift" \/ Block(b, agent[p].count + 1 - 1) \in store
                        THEN {Block(b, agent[p].count + 1)} ELSE {}
              BY <3>0, <5>2 DEF Puts
        <5> QED BY <5>1, <5>3
      <4> QED BY <2>1, <4>3 DEF Stores
    <3>3. agent'[p].pc = "close" => agent[p].count + 1 = Blocks
          BY <2>1, <3>0
    <3>4. agent'[p].pc \in {"blocks", "close"}
          BY <2>1
    <3> QED BY <1>0, <2>1, <3>1, <3>2, <3>3, <3>4 DEF Written
  <2> QED BY <2>2, <2>3
<1>7. CASE Plain(p)
  <2>0. /\ agent'[p].made = b /\ agent[p].pc \in Writing
        /\ \/ agent[p].pc = "close" /\ agent'[p].pc = "engine" /\ Stores(p)
           \/ agent[p].pc = "drain" /\ agent'[p].pc = "engine"
           \/ agent[p].pc = "engine" /\ agent'[p].pc \in {"top", "meta"} /\ Stores(p)
           \/ agent[p].pc = "top" /\ agent'[p].pc = "metadir"
           \/ agent[p].pc = "metadir" /\ agent'[p].pc = "meta"
        BY <1>0, <1>7, PlainFacts DEF Plain, Stays, Writing
  <2>1. CASE Disturbed(b)
        BY <1>b, <2>0, <2>1
  <2>2. CASE ~Disturbed(b)
    <3>0. agent[p].pc \in {"close", "drain", "engine", "top", "metadir"} => store \subseteq store'
          BY <2>0, OwnStays
    <3>1. CASE agent[p].pc = "close"
      <4>1. /\ conf.kind = "swift" => Part(b, "manifest") \in Puts(p)
            /\ conf.kind = "ftp" => Block(b, Blocks) \in Puts(p)
            BY <3>1 DEF Puts
      <4>2. /\ conf.kind = "swift" => \A n \in 1..Blocks : Block(b, n) \in store
            /\ conf.kind \in {"ssh", "local"} => Block(b, Blocks) \in store
            BY <2>2, <3>1 DEF Written, Writing
      <4>3. conf.kind \in AllKinds
            BY <1>0, StorageConstants DEF TypeOK, Options
      <4>4. conf.kind # "s3" => (Content(b) \subseteq store)'
            BY <1>0, <1>e, <2>0, <3>0, <3>1, <4>1, <4>2, <4>3 DEF Stores, AllKinds
      <4> QED BY <1>0, <2>0, <3>1, <4>4 DEF Written
    <3>2. CASE agent[p].pc = "drain"
      <4>1. conf.kind = "s3"
            BY <1>0, <3>2 DEF Local
      <4> QED BY <1>0, <2>0, <3>2, <4>1 DEF Written
    <3>3. CASE agent[p].pc = "engine"
      <4>1. conf.kind # "s3"
        <5>1. Able(p)
              BY <1>0, <1>7, PlainFacts DEF Plain
        <5> QED BY <3>3, <5>1 DEF Able, Never
      <4>2. Content(b) \subseteq store
            BY <2>2, <3>3, <4>1 DEF Written, Writing
      <4>3. Part(b, "engine") \in store'
            BY <2>0, <3>3 DEF Stores, Puts
      <4>4. Whole(b)'
            BY <1>0, <1>c, <1>e, <1>f, <2>0, <3>0, <3>3, <4>2, <4>3
      <4> QED BY <1>0, <2>0, <3>3, <4>4 DEF Written
    <3>4. CASE agent[p].pc \in {"top", "metadir"}
      <4>1. Whole(b)
            BY <2>2, <3>4 DEF Written, Writing
      <4>2. Whole(b)'
            BY <1>0, <1>c, <1>d, <1>e, <1>f, <2>0, <3>0, <3>4, <4>1
      <4> QED BY <1>0, <2>0, <3>4, <4>2 DEF Written
    <3> QED BY <2>0, <3>1, <3>2, <3>3, <3>4
  <2> QED BY <2>1, <2>2
<1>8. CASE PutMetadata(p)
      BY <1>0, <1>8, <1>a, PutMetadataFacts DEF Writing
<1>9. CASE ListOld(p)
      BY <1>0, <1>9, <1>a, ListOldFacts DEF Writing
<1>10. CASE Pick(p)
      BY <1>0, <1>10, <1>a, PickFacts DEF Writing
<1>11. CASE RemoveMetadata(p)
      BY <1>0, <1>11, <1>a, RemoveMetadataFacts DEF Writing
<1>12. CASE RemoveData(p)
      BY <1>0, <1>12, <1>a, RemoveDataFacts DEF Writing
<1>13. CASE MetadataRemoved(p) \/ DataRemoved(p)
      BY <1>0, <1>13, <1>a, RemovedFacts DEF Writing
<1>14. CASE Rest(p)
      BY <1>0, <1>14, <1>a, RestFacts DEF Rest, Writing, Resting
<1>15. CASE Drop(p)
  <2>1. /\ agent'[p].pc = agent[p].pc /\ agent'[p].made = b /\ agent'[p].count = agent[p].count
        /\ store' = store /\ conf' = conf /\ removed' = removed /\ together' = together
        BY <1>0, <1>15, DropFacts DEF Stays
  <2>2. CASE Disturbed(b)
        BY <1>b, <2>1, <2>2
  <2>3. CASE ~Disturbed(b)
    <3>1. (Content(b) \subseteq store)' <=> Content(b) \subseteq store
          BY <1>c, <1>e, <2>1
    <3>2. Whole(b)' <=> Whole(b)
          BY <1>d, <1>f, <2>1, <3>1
    <3> QED BY <2>1, <2>3, <3>1, <3>2 DEF Written
  <2> QED BY <2>2, <2>3
<1>16. CASE CallFails(p)
  <2>1. CASE agent'[p].pc # "blocks"
        BY <1>0, <1>16, <1>a, <2>1, CallFailsFacts DEF Writing
  <2>2. CASE agent'[p].pc = "blocks"
    <3>1. /\ agent[p].pc = "blocks" /\ agent'[p].made = b /\ agent'[p].count = agent[p].count
          /\ conf.kind = "swift"
          BY <1>0, <1>16, <2>2, CallFailsFacts DEF Stays
    <3>2. store \subseteq store'
          BY <3>1, OwnStays DEF Writing
    <3>3. CASE Disturbed(b)
          BY <1>b, <3>1, <3>3
    <3>4. CASE ~Disturbed(b)
          BY <1>0, <2>2, <3>1, <3>2, <3>4 DEF Written, Writing
    <3> QED BY <3>3, <3>4
  <2> QED BY <2>1, <2>2
<1> QED BY StepCases, <1>1, <1>2, <1>3, <1>4, <1>5, <1>6, <1>7, <1>8, <1>9, <1>10, <1>11,
           <1>12, <1>13, <1>14, <1>15, <1>16

\* An entry that is new is that of the backup which p makes.
LEMMA NewEntry ==
    ASSUME Basics, NEW p \in Processes, Step(p), NEW x \in store', x \notin store,
           x[2] \in {"metadir", "meta"}
    PROVE  /\ Active(p) /\ Able(p) /\ x[1] = agent[p].made /\ agent[p].pc \in {"metadir", "meta"}
           /\ agent[p].pc = x[2] /\ x = Part(agent[p].made, x[2]) /\ x \in Puts(p)
           /\ agent[p].made.time = agent[p].id
<1>1. Active(p) /\ Able(p) /\ x \in Puts(p)
      BY Changes DEF Adds, Basics
<1>2. Top(agent[p].made)[2] = "top"
      BY DEF Top, Part
<1>3. /\ x[1] = agent[p].made /\ agent[p].pc \in {"metadir", "meta"}
      /\ agent[p].pc = x[2] /\ x = Part(agent[p].made, x[2])
      BY <1>1, <1>2, PutsFacts DEF DataParts, Basics
<1>4. agent[p].made.time = agent[p].id
      BY <1>3 DEF Basics, Local, Writing
<1> QED BY <1>1, <1>3, <1>4

\* It ends with its metadata.
LEMMA MetaEnds ==
    ASSUME Basics, NEW p \in Processes, Step(p), agent[p].pc = "meta"
    PROVE  store' = store \/ agent'[p].pc \in Resting
<1> USE DEF kept, unwritten
<1>0. TypeOK /\ Numbers /\ Local(p) /\ (agent[p].pc = "zeros" => agent[p].made = Full(p))
      BY DEF Basics, Local
<1>1. CASE Begins(p)
      BY <1>0, <1>1, BeginsFacts
<1>2. CASE PutMetadata(p)
      BY <1>0, <1>2, PutMetadataFacts DEF Resting
<1>3. CASE CallFails(p)
      BY <1>0, <1>3, CallFailsFacts DEF Resting
<1>4. CASE Rest(p)
      BY <1>0, <1>4, RestFacts DEF Rest
<1>5. CASE Drop(p)
      BY <1>0, <1>5, DropFacts
<1>6. CASE Plain(p)
      BY <1>0, <1>6, PlainFacts DEF Plain
<1>7. CASE Open(p) \/ WriteBlock(p)
      BY <1>0, <1>7, OpenFacts, WriteBlockFacts
<1>8. CASE ListZeros(p) \/ ListIncrements(p) \/ GetBase(p) \/ ListOld(p)
      BY <1>0, <1>8, ListZerosFacts, ListIncrementsFacts, GetBaseFacts, ListOldFacts
<1>9. CASE Pick(p) \/ RemoveMetadata(p) \/ RemoveData(p) \/ MetadataRemoved(p) \/ DataRemoved(p)
      BY <1>0, <1>9, PickFacts, RemoveMetadataFacts, RemoveDataFacts, RemovedFacts
<1> QED BY StepCases, <1>1, <1>2, <1>3, <1>4, <1>5, <1>6, <1>7, <1>8, <1>9

LEMMA StepOneMeta ==
    ASSUME Basics, OneMeta, NEW p \in Processes, Step(p)
    PROVE  OneMeta'
<1> SUFFICES ASSUME ~Hierarchical PROVE OneMeta'
  <2>1. Hierarchical' = Hierarchical
        BY Changes DEF Hierarchical, Basics
  <2> QED BY <2>1 DEF OneMeta
<1>1. \A q \in Processes : Active(q) => \A x \in store : x[2] = "meta" => x[1].time # agent[q].id
      BY DEF OneMeta
<1>2. ASSUME NEW x \in store', x[2] = "meta", x \notin store
      PROVE  /\ x = Part(agent[p].made, "meta") /\ x[1].time = agent[p].id /\ Active(p)
             /\ agent'[p].pc \in Resting
      BY <1>2, NewEntry, MetaEnds
<1>3. ASSUME NEW q \in Processes, Active(q)', NEW x \in store', x[2] = "meta"
      PROVE  x[1].time # agent'[q].id
  <2>1. CASE q # p
    <3>1. agent'[q] = agent[q] /\ Active(q)
          BY <1>3, <2>1, Changes DEF Others, Basics, Active
    <3>2. CASE x \in store
          BY <1>1, <1>3, <3>1, <3>2
    <3>3. CASE x \notin store
          BY <1>2, <1>3, <2>1, <3>1, <3>3 DEF Basics, Overlap
    <3> QED BY <3>2, <3>3
  <2>2. CASE q = p
    <3>1. x \in store
          BY <1>2, <1>3, <2>2 DEF Active
    <3>2. CASE Begins(p)
      <4>1. agent'[p].id = clock /\ clock \in 1..MaxTime
            BY <3>2, BeginsFacts DEF Basics
      <4>2. x[1].time < clock /\ x[1].time \in Nat
        <5>1. x[1] \in Backup
              BY <3>1 DEF Basics, TypeOK, Stored
        <5> QED BY <3>1, <5>1, BackupFacts DEF Basics, Numbers
      <4> QED BY <2>2, <4>1, <4>2, StorageConstants
    <3>3. CASE Active(p) /\ agent'[p].id = agent[p].id
          BY <1>1, <1>3, <2>2, <3>1, <3>3
    <3> QED BY <1>3, <2>2, <3>2, <3>3, SameJob DEF Basics, Active
  <2> QED BY <2>1, <2>2
<1>4. ASSUME NEW x \in store', NEW y \in store', x[2] = "meta", y[2] = "meta",
             x[1].time = y[1].time
      PROVE  x = y
  <2>1. CASE x \in store /\ y \in store
        BY <1>4, <2>1 DEF OneMeta
  <2>2. CASE x \notin store /\ y \notin store
        BY <1>2, <1>4, <2>2
  <2>3. CASE x \in store /\ y \notin store
        BY <1>1, <1>2, <1>4, <2>3
  <2>4. CASE x \notin store /\ y \in store
        BY <1>1, <1>2, <1>4, <2>4
  <2> QED BY <2>1, <2>2, <2>3, <2>4
<1> QED BY <1>3, <1>4 DEF OneMeta

LEMMA OtherUnseen ==
    ASSUME Basics, NEW p \in Processes, Step(p), NEW q \in Processes, q # p, Unseen(q)
    PROVE  Unseen(q)'
<1>1. /\ agent'[q] = agent[q] /\ together \subseteq together'
      /\ EntryPart' = EntryPart /\ Hierarchical' = Hierarchical
      BY Changes DEF Others, Basics, EntryPart, Hierarchical
<1> SUFFICES ASSUME NEW x \in store', x[2] = EntryPart, x[1].zero = agent[q].made.zero,
                    agent[q].pc \in {"rm meta", "rm data"}
             PROVE  /\ agent[q].pc = "rm meta" /\ ~Hierarchical =>
                           x \in agent[q].left \/ {agent[q].id, x[1].time} \in together'
                    /\ agent[q].pc = "rm data" => {agent[q].id, x[1].time} \in together'
    BY <1>1 DEF Unseen, IsEntry
<1>2. CASE x \in store
      BY <1>1, <1>2 DEF Unseen, IsEntry
<1>3. CASE x \notin store
  <2>1. Active(p) /\ x[1].time = agent[p].id
        BY <1>3, NewEntry DEF EntryPart
  <2>2. Active(q)
        BY DEF Active, Resting
  <2>3. {agent[q].id, agent[p].id} \in together
        BY <2>1, <2>2 DEF Basics, Overlap
  <2> QED BY <1>1, <2>1, <2>3
<1> QED BY <1>2, <1>3

LEMMA OwnUnseen ==
    ASSUME Basics, AllIsListed, NEW p \in Processes, Step(p), Unseen(p)
    PROVE  Unseen(p)'
<1> USE DEF kept, unwritten
<1>0. /\ TypeOK /\ Numbers /\ Local(p) /\ EntryPart' = EntryPart /\ Hierarchical' = Hierarchical
      /\ (agent[p].pc = "zeros" => agent[p].made = Full(p)) /\ together \subseteq together'
      BY Changes DEF Basics, EntryPart, Hierarchical, Local
<1>a. ASSUME agent'[p].pc \notin {"rm meta", "rm data"} PROVE Unseen(p)'
      BY <1>a DEF Unseen
<1>b. EntryPart \in MetaParts /\ (~Hierarchical => EntryPart = "meta")
      BY DEF EntryPart, MetaParts
<1>1. CASE Begins(p)
      BY <1>0, <1>1, <1>a, BeginsFacts
<1>2. CASE ListZeros(p) \/ ListIncrements(p) \/ GetBase(p) \/ Open(p) \/ WriteBlock(p)
      BY <1>0, <1>2, <1>a, ListZerosFacts, ListIncrementsFacts, GetBaseFacts, OpenFacts,
         WriteBlockFacts
<1>3. CASE Plain(p) \/ PutMetadata(p) \/ ListOld(p)
  <2>1. CASE Plain(p)
        BY <1>0, <1>a, <2>1, PlainFacts DEF Plain
  <2> QED BY <1>0, <1>3, <1>a, <2>1, PutMetadataFacts, ListOldFacts
<1>4. CASE Rest(p)
      BY <1>0, <1>4, <1>a, RestFacts DEF Rest, Resting
<1>5. CASE CallFails(p)
  <2>1. agent'[p].pc \notin {"rm meta", "rm data"}
        BY <1>0, <1>5, CallFailsFacts
  <2> QED BY <1>a, <2>1
<1>6. CASE Drop(p)
      BY <1>0, <1>6, DropFacts DEF Stays, Unseen, IsEntry
<1>7. CASE Pick(p)
  <2>1. CASE agent'[p].pc = "idle"
        BY <1>a, <2>1
  <2>2. CASE agent'[p].pc # "idle"
    <3>1. PICK z \in agent[p].todo :
              /\ agent'[p].made = [zero |-> z, level |-> 0, time |-> z]
              /\ agent'[p].left = Found(z, MetaParts)
          BY <1>0, <1>7, <2>2, PickFacts
    <3>2. agent'[p].left = Tree(z, MetaParts) /\ agent'[p].made.zero = z
      <4>1. z \in 1..MaxTime
            BY <1>0, Typed
      <4> QED BY <3>1, <4>1, FoundAll
    <3>3. agent'[p].pc = "rm meta" /\ store' = store
          BY <1>0, <1>7, <2>2, PickFacts
    <3> QED BY <1>0, <1>b, <3>2, <3>3 DEF Unseen, IsEntry, Tree
  <2> QED BY <2>1, <2>2
<1>8. CASE RemoveMetadata(p)
  <2>1. /\ agent[p].pc = "rm meta" /\ agent'[p].pc = "rm meta" /\ agent'[p].id = agent[p].id
        /\ agent'[p].made = agent[p].made
        BY <1>0, <1>8, RemoveMetadataFacts
  <2>2. PICK x \in agent[p].left :
            store' = store \ {x} /\ agent[p].left \subseteq agent'[p].left \cup {x}
        BY <1>0, <1>8, RemoveMetadataFacts
  <2> QED BY <1>0, <2>1, <2>2 DEF Unseen, IsEntry
<1>9. CASE RemoveData(p)
  <2>1. /\ agent[p].pc = "rm data" /\ agent'[p].pc = "rm data" /\ agent'[p].id = agent[p].id
        /\ agent'[p].made = agent[p].made /\ store' \subseteq store
        BY <1>0, <1>9, RemoveDataFacts
  <2> QED BY <1>0, <2>1 DEF Unseen, IsEntry
<1>10. CASE MetadataRemoved(p) \/ DataRemoved(p)
  <2>1. /\ agent[p].left = {} /\ agent'[p].id = agent[p].id /\ agent'[p].made = agent[p].made
        /\ store' = store
        BY <1>0, <1>10, RemovedFacts
  <2>2. CASE agent[p].pc = "rm data"
        BY <1>0, <1>10, <1>a, <2>2, RemovedFacts
  <2>3. CASE agent[p].pc = "rm meta"
    <3>1. agent'[p].pc = "rm data" /\ (Hierarchical => Tree(agent[p].made.zero, MetaParts) = {})
          BY <1>0, <1>10, <2>3, RemovedFacts
    <3>2. CASE Hierarchical
          BY <1>0, <1>b, <2>1, <3>1, <3>2 DEF Unseen, IsEntry, Tree
    <3>3. CASE ~Hierarchical
          BY <1>0, <2>1, <2>3, <3>1, <3>3 DEF Unseen, IsEntry
    <3> QED BY <3>2, <3>3
  <2> QED BY <1>0, <1>10, <2>2, <2>3, RemovedFacts
<1> QED BY StepCases, <1>1, <1>2, <1>3, <1>4, <1>5, <1>6, <1>7, <1>8, <1>9, <1>10


\* What makes a backup whole.
Needed(b) == Content(b) \cup {Part(b, "engine")}

LEMMA NeededFacts ==
    ASSUME NEW b
    PROVE  /\ Whole(b) <=> Needed(b) \subseteq store
           /\ \A y \in Needed(b) :
                  /\ y[1] = b /\ y[2] \in {"engine", "block", "manifest"}
                  /\ y[2] = "block" /\ conf.kind # "swift" => y[3] = Blocks
<1>1. \A n : Block(b, n)[1] = b /\ Block(b, n)[2] = "block" /\ Block(b, n)[3] = n
      BY DEF Block
<1>2. \A part : Part(b, part)[1] = b /\ Part(b, part)[2] = part
      BY DEF Part
<1> QED BY <1>1, <1>2 DEF Whole, Needed, Content

LEMMA WholeStays ==
    ASSUME NEW b, Whole(b), conf' = conf, \A y \in Needed(b) : y \in store'
    PROVE  Whole(b)'
<1>1. Needed(b)' = Needed(b)
  <2>1. Content(b)' = Content(b)
        BY DEF Content
  <2> QED BY <2>1 DEF Needed
<1> QED BY <1>1 DEF Whole, Needed

LEMMA StepEntriesWhole ==
    ASSUME Basics, Readable, NEW p \in Processes, Step(p)
    PROVE  EntriesWhole'
<1>0. /\ EntryPart' = EntryPart /\ conf' = conf /\ Local(p) /\ TypeOK
      /\ EntryPart \in {"metadir", "meta"}
      BY Changes DEF Basics, EntryPart, Hierarchical
<1> SUFFICES ASSUME NEW x \in store', x[2] = EntryPart
             PROVE  Disturbed(x[1])' \/ Whole(x[1])'
    BY <1>0 DEF EntriesWhole, IsEntry
<1>1. CASE x \in store
  <2>1. CASE Disturbed(x[1])
    <3> DEFINE b == x[1]
    <3>1. PICK r \in removed : r.zero = b.zero /\ {r.by, b.time} \in together
          BY <2>1 DEF Disturbed
    <3>2. removed \subseteq removed' /\ together \subseteq together'
          BY Changes DEF Basics
    <3> QED BY <3>1, <3>2 DEF Disturbed
  <2>2. CASE ~Disturbed(x[1])
    <3>1. Whole(x[1])
          BY <1>1, <2>2 DEF Readable, EntriesWhole, IsEntry
    <3>2. ASSUME NEW y \in Needed(x[1]) PROVE y \in store'
      <4>1. /\ y \in store /\ y[1] = x[1] /\ y[2] \in {"engine", "block", "manifest"}
            /\ y[2] = "block" /\ conf.kind # "swift" => y[3] = Blocks
            BY <3>1, <3>2, NeededFacts
      <4>2. y \notin Outgrown(p)
        <5> SUFFICES ASSUME agent[p].pc = "blocks", conf.kind # "swift",
                            y = Block(agent[p].made, agent[p].count)
                     PROVE  FALSE
            BY DEF Outgrown
        <5>1. y[2] = "block" /\ y[3] = agent[p].count
              BY DEF Block
        <5>2. agent[p].count < Blocks /\ agent[p].count \in 0..Blocks
              BY <1>0, Typed DEF Local
        <5> QED BY <4>1, <5>1, <5>2, StorageConstants
      <4>3. ~(agent[p].pc = "rm data" /\ y[1].zero = agent[p].made.zero)
        <5> SUFFICES ASSUME agent[p].pc = "rm data", x[1].zero = agent[p].made.zero PROVE FALSE
            BY <4>1
        <5>1. {agent[p].id, x[1].time} \in together
              BY <1>1 DEF Readable, Unseen, IsEntry
        <5>2. \E r \in removed : r.zero = agent[p].made.zero /\ r.by = agent[p].id
              BY <1>0 DEF Local
        <5> QED BY <2>2, <5>1, <5>2 DEF Disturbed
      <4>4. y[2] \notin MetaParts
            BY <4>1 DEF MetaParts
      <4> QED BY <4>1, <4>2, <4>3, <4>4, Changes DEF Takes, Basics
    <3> QED BY <1>0, <3>1, <3>2, WholeStays
  <2> QED BY <2>1, <2>2
<1>2. CASE x \notin store
  <2>1. x[1] = agent[p].made /\ agent[p].pc \in {"metadir", "meta"}
        BY <1>0, <1>2, NewEntry
  <2>2. store \subseteq store'
        BY <2>1, OwnStays DEF Writing
  <2>3. CASE Disturbed(x[1])
    <3> DEFINE b == x[1]
    <3>1. PICK r \in removed : r.zero = b.zero /\ {r.by, b.time} \in together
          BY <2>3 DEF Disturbed
    <3>2. removed \subseteq removed' /\ together \subseteq together'
          BY Changes DEF Basics
    <3> QED BY <3>1, <3>2 DEF Disturbed
  <2>4. CASE ~Disturbed(x[1])
    <3>1. Whole(x[1])
          BY <2>1, <2>4 DEF Readable, Written, Writing
    <3>2. \A y \in Needed(x[1]) : y \in store'
          BY <2>2, <3>1, NeededFacts
    <3> QED BY <1>0, <3>1, <3>2, WholeStays
  <2> QED BY <2>3, <2>4
<1> QED BY <1>1, <1>2

LEMMA StepReadable ==
    ASSUME Basics, Readable, AllIsListed, NEW p \in Processes, Step(p)
    PROVE  Readable'
<1>1. OneMeta' /\ EntriesWhole'
      BY StepOneMeta, StepEntriesWhole DEF Readable
<1>2. ASSUME NEW q \in Processes PROVE Written(q)' /\ Unseen(q)'
  <2>1. CASE q = p
        BY <2>1, OwnWritten, OwnUnseen DEF Readable
  <2>2. CASE q # p
        BY <2>2, OtherWritten, OtherUnseen DEF Readable
  <2> QED BY <2>1, <2>2
<1> QED BY <1>1, <1>2 DEF Readable

-----------------------------------------------------------------------------
(* Only agents that ran at the same time make two backups of one level.    *)

\* How a job has come to what its backup builds on.
ChosenBefore(p) ==
    \/ /\ agent[p].pc \in Writing /\ agent'[p].pc \in Writing
       /\ agent'[p].made = agent[p].made /\ agent'[p].id = agent[p].id
       /\ agent[p].pc \in {"metadir", "meta"} => agent'[p].pc \in {"metadir", "meta"}
       /\ agent'[p].pc \in {"metadir", "meta"} =>
              \/ agent[p].pc \in {"metadir", "meta"}
              \/ agent[p].pc = "top" /\ Stores(p)
              \/ ~Hierarchical
    \/ /\ agent[p].pc = "base" /\ agent'[p].pc = "base"
       /\ agent'[p].made = agent[p].made /\ agent'[p].id = agent[p].id
    \/ /\ agent[p].pc = "base" /\ agent'[p].pc = "open" /\ agent'[p].id = agent[p].id
       /\ agent'[p].made.zero = agent[p].made.zero
       /\ agent'[p].made.level = agent[p].made.level + 1

ChosenNow(p) ==
    \/ /\ agent[p].pc = "increments" /\ agent'[p].pc = "base" /\ agent'[p].made \in Backup
       /\ store' = store
       /\ \E x \in store : x[2] = EntryPart /\ x[1] = agent'[p].made
       /\ \A x \in store : x[2] = EntryPart /\ x[1].zero = agent'[p].made.zero =>
              x[1].level <= agent'[p].made.level
    \/ /\ agent[p].pc \in {"idle", "failed", "zeros", "increments"} /\ store' = store
       /\ agent'[p].pc = "open" /\ agent'[p].made.level = 0

LEMMA ChosenFacts ==
    ASSUME Basics, NEW p \in Processes, Step(p), Chosen(p)'
    PROVE  ChosenBefore(p) \/ ChosenNow(p)
<1> USE DEF kept, unwritten
<1>0. /\ TypeOK /\ Numbers /\ Local(p)
      /\ (agent[p].pc = "zeros" => agent[p].made = Full(p))
      /\ Full(p).level = 0 /\ agent'[p].pc \in {"base"} \cup Writing
      BY DEF Basics, Local, Full, Chosen
<1>1. CASE Begins(p)
  <2>1. /\ agent'[p].pc \in {"zeros", "open", "admin zeros"} /\ agent[p].pc \in Resting
        /\ agent'[p].made = [zero |-> clock, level |-> 0, time |-> clock] /\ store' = store
        BY <1>0, <1>1, BeginsFacts
  <2>2. agent'[p].made.level = 0
    <3>1. agent'[p].made = [zero |-> clock, level |-> 0, time |-> clock]
          BY <2>1
    <3> QED BY <3>1
  <2> QED BY <1>0, <2>1, <2>2 DEF ChosenNow, Writing, Resting
<1>2. CASE ListZeros(p)
      BY <1>0, <1>2, ListZerosFacts DEF ChosenNow, Writing
<1>3. CASE ListIncrements(p)
      BY <1>0, <1>3, ListIncrementsFacts DEF ChosenNow, Writing
<1>4. CASE GetBase(p)
      BY <1>0, <1>4, GetBaseFacts DEF ChosenBefore
<1>5. CASE Open(p) \/ WriteBlock(p)
      BY <1>0, <1>5, OpenFacts, WriteBlockFacts DEF ChosenBefore, Writing
<1>6. CASE Plain(p)
  <2>1. /\ agent'[p].made = agent[p].made /\ agent'[p].id = agent[p].id
        /\ \/ agent[p].pc \in {"close", "drain"} /\ agent'[p].pc = "engine"
           \/ agent[p].pc = "engine" /\ agent'[p].pc = IF Hierarchical THEN "top" ELSE "meta"
           \/ agent[p].pc = "top" /\ agent'[p].pc = "metadir" /\ Stores(p)
           \/ agent[p].pc = "metadir" /\ agent'[p].pc = "meta"
        BY <1>0, <1>6, PlainFacts DEF Plain, Stays
  <2> QED BY <2>1 DEF ChosenBefore, Writing
<1>7. CASE PutMetadata(p) \/ ListOld(p)
      BY <1>0, <1>7, PutMetadataFacts, ListOldFacts DEF Writing
<1>8. CASE Pick(p) \/ RemoveMetadata(p) \/ RemoveData(p) \/ MetadataRemoved(p) \/ DataRemoved(p)
      BY <1>0, <1>8, PickFacts, RemoveMetadataFacts, RemoveDataFacts, RemovedFacts DEF Writing
<1>9. CASE Rest(p)
      BY <1>0, <1>9, RestFacts DEF Rest, Resting, Writing
<1>10. CASE Drop(p)
      BY <1>0, <1>10, DropFacts DEF Stays, ChosenBefore
<1>11. CASE CallFails(p)
  <2>1. \/ agent[p].pc = "zeros" /\ agent'[p].pc = "open" /\ Stays(p)
        \/ /\ agent[p].pc \in {"blocks", "close"} /\ agent'[p].pc \in {"blocks", "drain"}
           /\ Stays(p)
        BY <1>0, <1>11, CallFailsFacts DEF Writing
  <2>2. CASE agent[p].pc = "zeros" /\ agent'[p].pc = "open" /\ Stays(p)
    <3>1. Puts(p) = {} /\ Outgrown(p) = {}
          BY <2>2 DEF Puts, Outgrown
    <3>2. store' = store
          BY <1>0, <1>11, <3>1, CallFailsFacts DEF Stores
    <3> QED BY <1>0, <2>2, <3>2 DEF ChosenNow, Stays
  <2>3. CASE /\ agent[p].pc \in {"blocks", "close"} /\ agent'[p].pc \in {"blocks", "drain"}
             /\ Stays(p)
        BY <2>3 DEF ChosenBefore, Stays, Writing
  <2> QED BY <2>1, <2>2, <2>3
<1> QED BY StepCases, <1>1, <1>2, <1>3, <1>4, <1>5, <1>6, <1>7, <1>8, <1>9, <1>10, <1>11

LEMMA StepAbove ==
    ASSUME Basics, NEW p \in Processes, Step(p), NEW q \in Processes, Above(q)
    PROVE  Above(q)'
<1>0. EntryPart' = EntryPart /\ together \subseteq together' /\ EntryPart \in {"metadir", "meta"}
      BY Changes DEF Basics, EntryPart, Hierarchical
<1> SUFFICES ASSUME Chosen(q)', Target(q)' > 0, NEW x \in store', x[2] = EntryPart,
                    x[1].zero = agent'[q].made.zero, x[1].level >= Target(q)'
             PROVE  \/ {x[1].time, agent'[q].id} \in together'
                    \/ agent'[q].pc # "base" /\ x[1] = agent'[q].made
    BY <1>0 DEF Above, IsEntry
<1>1. CASE q # p
  <2>1. agent'[q] = agent[q] /\ Active(q)
        BY <1>1, Changes DEF Basics, Others, Active, Chosen, Resting, Writing
  <2>2. CASE x \in store
        BY <1>0, <2>1, <2>2 DEF Above, IsEntry, Chosen, Target
  <2>3. CASE x \notin store
    <3>1. Active(p) /\ x[1].time = agent[p].id
          BY <1>0, <2>3, NewEntry
    <3> QED BY <1>0, <1>1, <2>1, <3>1 DEF Basics, Overlap
  <2> QED BY <2>2, <2>3
<1>2. CASE q = p
  <2>1. CASE x \notin store
    <3>1. x[1] = agent[p].made /\ agent[p].pc \in {"metadir", "meta"}
          BY <1>0, <2>1, NewEntry
    <3>2. agent'[p].made = agent[p].made /\ agent'[p].pc \in Writing
          BY <1>2, <3>1, ChosenFacts DEF ChosenBefore, ChosenNow
    <3> QED BY <1>2, <3>1, <3>2 DEF Writing
  <2>2. CASE x \in store
    <3>1. CASE ChosenBefore(p)
      <4>1. /\ Chosen(p) /\ agent'[p].id = agent[p].id /\ agent'[p].made.zero = agent[p].made.zero
            /\ Target(p)' = Target(p)
            /\ agent[p].pc # "base" => agent'[p].made = agent[p].made /\ agent'[p].pc # "base"
            BY <3>1 DEF ChosenBefore, Chosen, Target, Writing
      <4> QED BY <1>0, <1>2, <2>2, <4>1 DEF Above, IsEntry
    <3>2. CASE ChosenNow(p)
      <4>1. CASE agent'[p].pc = "open"
            BY <1>2, <3>2, <4>1 DEF ChosenNow, Target
      <4>2. CASE agent'[p].pc = "base"
        <5>1. x[1].level <= agent'[p].made.level /\ agent'[p].made.level \in Nat
              BY <1>2, <2>2, <3>2, <4>2, BackupFacts DEF ChosenNow
        <5>2. x[1].level \in Nat
          <6>1. x[1] \in Backup
                BY <2>2 DEF Basics, TypeOK, Stored
          <6> QED BY <6>1, BackupFacts
        <5>3. x[1].level >= agent'[p].made.level + 1
              BY <1>2, <4>2 DEF Target
        <5> QED BY <5>1, <5>2, <5>3
      <4> QED BY <3>2, <4>1, <4>2 DEF ChosenNow
    <3> QED BY <1>2, <3>1, <3>2, ChosenFacts
  <2> QED BY <2>1, <2>2
<1> QED BY <1>1, <1>2

LEMMA StepEntriesApart ==
    ASSUME Basics, EntriesApart, NEW p \in Processes, Step(p), Above(p)
    PROVE  EntriesApart'
<1>0. EntryPart' = EntryPart /\ together \subseteq together' /\ EntryPart \in {"metadir", "meta"}
      BY Changes DEF Basics, EntryPart, Hierarchical
<1>1. ASSUME NEW x \in store', NEW y \in store, x \notin store, x[2] = EntryPart, y[2] = EntryPart,
             x[1].zero = y[1].zero, x[1].level = y[1].level
      PROVE  x[1] = y[1] \/ {y[1].time, x[1].time} \in together
  <2>1. /\ Active(p) /\ x[1] = agent[p].made /\ agent[p].pc \in {"metadir", "meta"}
        /\ agent[p].made.time = agent[p].id
        BY <1>0, <1>1, NewEntry
  <2>2. agent[p].made \in Backup /\ y[1] \in Backup
        BY <2>1, ActiveNumbers DEF Basics, TypeOK, Stored
  <2>3. CASE y[1].level = 0
    <3>1. y[1].time = y[1].zero
          BY <1>0, <1>1, <2>3 DEF Basics, Kept
    <3>2. agent[p].made.zero = agent[p].id
          BY <1>1, <2>1, <2>3 DEF Basics, Local, Writing
    <3>3. y[1] = agent[p].made
          BY <1>1, <2>1, <2>2, <3>1, <3>2 DEF Backup
    <3> QED BY <2>1, <3>3
  <2>4. CASE y[1].level # 0
    <3>1. y[1].level \in Nat
          BY <2>2, BackupFacts
    <3>2. Chosen(p) /\ Target(p) = y[1].level
          BY <1>1, <2>1 DEF Chosen, Writing, Target
    <3>3. {y[1].time, agent[p].id} \in together \/ y[1] = agent[p].made
          BY <1>1, <2>1, <2>4, <3>1, <3>2 DEF Above, IsEntry
    <3> QED BY <2>1, <3>3
  <2> QED BY <2>3, <2>4
<1> SUFFICES ASSUME NEW x \in store', NEW y \in store', x[2] = EntryPart, y[2] = EntryPart,
                    x[1].zero = y[1].zero, x[1].level = y[1].level
             PROVE  x[1] = y[1] \/ {x[1].time, y[1].time} \in together'
    BY <1>0 DEF EntriesApart, IsEntry
<1>2. CASE x \in store /\ y \in store
      BY <1>0, <1>2 DEF EntriesApart, IsEntry
<1>3. CASE x \notin store /\ y \notin store
      BY <1>0, <1>3, NewEntry
<1>4. CASE x \notin store /\ y \in store
  <2>1. {y[1].time, x[1].time} = {x[1].time, y[1].time}
        OBVIOUS
  <2> QED BY <1>0, <1>1, <1>4, <2>1
<1>5. CASE x \in store /\ y \notin store
      BY <1>0, <1>1, <1>5
<1> QED BY <1>2, <1>3, <1>4, <1>5

-----------------------------------------------------------------------------
(* What was reported as made stays until it is removed.                    *)

LEMMA MetadataStays ==
    ASSUME Basics, NEW p \in Processes, Step(p),
           NEW x \in store, x[2] \in MetaParts, x[1].zero \notin BeingRemoved
    PROVE  x \in store'
<1> SUFFICES ASSUME x \notin store' PROVE FALSE
    OBVIOUS
<1>1. CASE x \in Outgrown(p)
      BY <1>1 DEF Outgrown, Block, MetaParts
<1>2. CASE agent[p].pc = "rm meta" /\ x[1].zero = agent[p].made.zero
      BY <1>2 DEF Basics, Local, BeingRemoved
<1>3. CASE x[2] \in DataParts
      BY <1>3 DEF DataParts, MetaParts
<1> QED BY <1>1, <1>2, <1>3, Changes DEF Takes, Basics

LEMMA LevelsStay ==
    ASSUME Basics, NEW p \in Processes, Step(p),
           NEW z, z \notin BeingRemoved, NEW n, HasLevels(z, n)
    PROVE  HasLevels(z, n)'
<1>0. EntryPart' = EntryPart /\ EntryPart \in MetaParts
      BY Changes DEF Basics, EntryPart, Hierarchical, MetaParts
<1> SUFFICES ASSUME NEW l \in 0..MaxLevel, l < n
             PROVE  \E x \in store' : x[2] = EntryPart /\ x[1].zero = z /\ x[1].level = l
    BY <1>0 DEF HasLevels, IsEntry
<1>1. PICK x \in store : x[2] = EntryPart /\ x[1].zero = z /\ x[1].level = l
      BY DEF HasLevels, IsEntry
<1>2. x \in store'
      BY <1>0, <1>1, MetadataStays
<1> QED BY <1>1, <1>2

LEMMA TopFacts ==
    ASSUME NEW b
    PROVE  Top(b)[1].zero = b.zero /\ Top(b)[2] = "top" /\ Top(b)[2] \in MetaParts
BY DEF Top, Part, MetaParts

\* What Grounded says of a job that has chosen.
GroundedNow(p) ==
    /\ HasLevels(agent[p].made.zero, Target(p))
    /\ agent[p].pc \in {"metadir", "meta"} /\ Hierarchical => Top(agent[p].made) \in store

LEMMA StepGrounded ==
    ASSUME Basics, EntriesGrounded, NEW p \in Processes, Step(p),
           NEW q \in Processes, Grounded(q)
    PROVE  Grounded(q)'
<1>0. EntryPart' = EntryPart /\ Hierarchical' = Hierarchical /\ BeingRemoved \subseteq BeingRemoved'
      BY Changes DEF Basics, EntryPart, Hierarchical, BeingRemoved
<1> SUFFICES ASSUME NEW z, NEW n, NEW b, b = agent'[q].made, z = b.zero, n = Target(q)',
                    Chosen(q)', z \notin BeingRemoved
             PROVE  /\ HasLevels(z, n)'
                    /\ agent'[q].pc \in {"metadir", "meta"} /\ Hierarchical => Top(b) \in store'
    BY <1>0 DEF Grounded, HasLevels
<1>1. CASE q # p
  <2>1. agent'[q] = agent[q]
        BY <1>1, Changes DEF Basics, Others
  <2>2. GroundedNow(q) /\ Target(q) = n
        BY <2>1 DEF Grounded, GroundedNow, Chosen, Target
  <2>3. HasLevels(z, n)'
        BY <2>1, <2>2, LevelsStay DEF GroundedNow
  <2>4. Top(b) \in store => Top(b) \in store'
        BY TopFacts, MetadataStays
  <2> QED BY <2>1, <2>2, <2>3, <2>4 DEF GroundedNow
<1>2. CASE q = p
  <2>1. CASE ChosenBefore(p)
    <3>1. /\ Chosen(p) /\ agent[p].made.zero = z /\ Target(p) = n
          BY <1>2, <2>1 DEF ChosenBefore, Chosen, Target, Writing
    <3>2. GroundedNow(p)
          BY <1>2, <3>1 DEF Grounded, GroundedNow
    <3>3. HasLevels(z, n)'
          BY <3>1, <3>2, LevelsStay DEF GroundedNow
    <3>4. ASSUME agent'[p].pc \in {"metadir", "meta"}, Hierarchical
          PROVE  Top(b) \in store'
      <4>1. agent[p].made = b
            BY <1>2, <2>1, <3>4 DEF ChosenBefore
      <4>2. CASE agent[p].pc \in {"metadir", "meta"}
        <5>1. Top(b) \in store
              BY <3>2, <3>4, <4>1, <4>2 DEF GroundedNow
        <5> QED BY <5>1, TopFacts, MetadataStays
      <4>3. CASE agent[p].pc = "top" /\ Stores(p)
            BY <4>1, <4>3 DEF Puts, Stores
      <4> QED BY <2>1, <3>4, <4>2, <4>3 DEF ChosenBefore
    <3> QED BY <1>2, <3>3, <3>4
  <2>2. CASE ChosenNow(p)
    <3>0. agent'[p].pc \in {"base", "open"}
          BY <2>2 DEF ChosenNow
    <3>1. CASE agent'[p].pc = "open"
      <4>1. n = 0
            BY <1>2, <2>2, <3>1 DEF ChosenNow, Target
      <4>2. \A l \in 0..MaxLevel : ~(l < 0)
            BY StorageConstants
      <4> QED BY <1>2, <3>1, <4>1, <4>2 DEF HasLevels
    <3>2. CASE agent'[p].pc = "base"
      <4>1. PICK x \in store : x[2] = EntryPart /\ x[1] = b
            BY <1>2, <2>2, <3>2 DEF ChosenNow
      <4>2. HasLevels(z, b.level)
            BY <4>1 DEF EntriesGrounded, IsEntry
      <4>3. b.level \in Nat
            BY <1>2, <2>2, <3>2, BackupFacts DEF ChosenNow
      <4>4. HasLevels(z, b.level + 1)
        <5> SUFFICES ASSUME NEW l \in 0..MaxLevel, l < b.level + 1
                     PROVE  \E y \in store : IsEntry(y) /\ y[1].zero = z /\ y[1].level = l
            BY DEF HasLevels
        <5>1. l < b.level \/ l = b.level
              BY <4>3
        <5> QED BY <4>1, <4>2, <5>1 DEF HasLevels, IsEntry
      <4>5. n = b.level + 1
            BY <1>2, <3>2 DEF Target
      <4>6. HasLevels(z, n)'
            BY <4>4, <4>5, LevelsStay
      <4> QED BY <1>2, <3>2, <4>6
    <3> QED BY <3>0, <3>1, <3>2
  <2> QED BY <1>2, <2>1, <2>2, ChosenFacts
<1> QED BY <1>1, <1>2

LEMMA StepEntriesGrounded ==
    ASSUME Basics, EntriesGrounded, NEW p \in Processes, Step(p), Grounded(p)
    PROVE  EntriesGrounded'
<1>0. /\ EntryPart' = EntryPart /\ Hierarchical' = Hierarchical
      /\ BeingRemoved \subseteq BeingRemoved' /\ EntryPart \in {"metadir", "meta"}
      BY Changes DEF Basics, EntryPart, Hierarchical, BeingRemoved
<1> SUFFICES ASSUME NEW x \in store', x[2] = EntryPart, x[1].zero \notin BeingRemoved
             PROVE  HasLevels(x[1].zero, x[1].level)' /\ (Hierarchical => Top(x[1]) \in store')
    BY <1>0 DEF EntriesGrounded, IsEntry
<1>1. HasLevels(x[1].zero, x[1].level) /\ (Hierarchical => Top(x[1]) \in store)
  <2>1. CASE x \in store
        BY <2>1 DEF EntriesGrounded, IsEntry
  <2>2. CASE x \notin store
    <3>1. x[1] = agent[p].made /\ agent[p].pc \in {"metadir", "meta"}
          BY <1>0, <2>2, NewEntry
    <3>2. Chosen(p) /\ Target(p) = x[1].level
          BY <3>1 DEF Chosen, Target, Writing
    <3> QED BY <3>1, <3>2 DEF Grounded
  <2> QED BY <2>1, <2>2
<1>2. HasLevels(x[1].zero, x[1].level)'
      BY <1>1, LevelsStay
<1>3. Top(x[1]) \in store => Top(x[1]) \in store'
      BY TopFacts, MetadataStays
<1> QED BY <1>1, <1>2, <1>3

LEMMA StepSucceededKept ==
    ASSUME Basics, SucceededKept, NEW p \in Processes, Step(p)
    PROVE  SucceededKept'
<1>0. /\ EntryPart' = EntryPart /\ EntryPart \in MetaParts /\ "meta" \in MetaParts
      /\ BeingRemoved \subseteq BeingRemoved'
      BY Changes DEF Basics, EntryPart, Hierarchical, BeingRemoved, MetaParts
<1> SUFFICES ASSUME NEW b \in succeeded', b.zero \notin BeingRemoved
             PROVE  Part(b, "meta") \in store' /\ Part(b, EntryPart) \in store'
    BY <1>0 DEF SucceededKept
<1>1. \A part : Part(b, part)[1] = b /\ Part(b, part)[2] = part
      BY DEF Part
<1>2. CASE b \in succeeded
  <2>1. Part(b, "meta") \in store /\ Part(b, EntryPart) \in store
        BY <1>2 DEF SucceededKept
  <2> QED BY <1>0, <1>1, <2>1, MetadataStays
<1>3. CASE b \notin succeeded
  <2>0. TypeOK /\ Numbers /\ Local(p)
        BY DEF Basics
  <2>a. \/ succeeded' = succeeded
        \/ /\ agent[p].pc = "meta" /\ Active(p) /\ Able(p) /\ Stores(p)
           /\ succeeded' = succeeded \cup {agent[p].made}
        BY <2>0, Records
  <2>1. agent[p].pc = "meta" /\ Able(p) /\ Stores(p) /\ b = agent[p].made
        BY <1>3, <2>a
  <2>2. Part(b, "meta") \in store'
        BY <2>1 DEF Puts, Stores
  <2>3. CASE Hierarchical
    <3>1. Needs(p) = {Part(b, "metadir")}
          BY <2>1, <2>3 DEF Needs
    <3>2. Part(b, "metadir") \in store
          BY <2>1, <3>1 DEF Able
    <3> QED BY <1>0, <1>1, <2>2, <2>3, <3>2, MetadataStays DEF EntryPart
  <2>4. CASE ~Hierarchical
        BY <2>2, <2>4 DEF EntryPart
  <2> QED BY <2>2, <2>3, <2>4
<1> QED BY <1>2, <1>3

-----------------------------------------------------------------------------
(* A removal by a job that is alone is complete.                           *)

LEMMA FoundOrShort ==
    ASSUME Basics, NEW z, NEW parts, ~Short(z, parts)
    PROVE  Found(z, parts) = Tree(z, parts)
<1>1. CASE conf.kind # "swift"
      BY <1>1 DEF Found
<1>2. CASE conf.kind = "swift"
  <2> DEFINE tree == Tree(z, parts)
  <2>1. IsFiniteSet(tree)
        BY FS_Subset DEF Tree, Basics, Kept
  <2>2. Cardinality(tree) \in Nat /\ Cardinality(tree) <= Page
        BY <1>2, <2>1, FS_CardinalityType, StorageConstants DEF Short
  <2>3. \A x \in tree : ~Before(x, x)
        BY BeforeFacts DEF Tree, Basics
  <2> HIDE DEF tree
  <2>4. ASSUME NEW x \in tree PROVE Cardinality({y \in tree : Before(y, x)}) < Page
    <3> DEFINE S == {y \in tree : Before(y, x)}
    <3>1. S \subseteq tree \ {x}
          BY <2>3
    <3> HIDE DEF S
    <3>2. IsFiniteSet(tree \ {x}) /\ Cardinality(tree \ {x}) = Cardinality(tree) - 1
          BY <2>1, FS_RemoveElement
    <3>3. IsFiniteSet(S) /\ Cardinality(S) <= Cardinality(tree \ {x})
          BY <3>1, <3>2, FS_Subset
    <3>4. Cardinality(S) \in Nat
          BY <3>3, FS_CardinalityType
    <3>5. Cardinality(S) < Page
          BY <2>2, <3>2, <3>3, <3>4, StorageConstants
    <3> QED BY <3>5 DEF S
  <2> QED BY <1>2, <2>4 DEF Found, tree
<1> QED BY <1>1, <1>2

\* Which backup a job of an agent is about.
LEMMA WorkingFacts ==
    ASSUME Basics, NEW p \in Processes, Step(p), agent'[p].pc \in Working
    PROVE  \/ Begins(p)
           \/ /\ agent[p].pc \in Working
              /\ \/ agent'[p].made.zero = agent[p].made.zero
                 \/ agent[p].pc = "increments" /\ agent'[p].made.zero \in agent[p].todo
              /\ agent'[p].pc = "increments" =>
                     \/ agent[p].pc = "increments" /\ agent'[p].todo = agent[p].todo
                     \/ \E z \in Zeros : agent'[p].todo = {z}
<1> USE DEF kept, unwritten
<1>0. /\ TypeOK /\ Numbers /\ Local(p)
      /\ (agent[p].pc \in {"zeros", "increments"} => agent[p].made = Full(p))
      /\ (agent[p].pc = "zeros" => agent[p].made = Full(p))
      BY DEF Basics, Local
<1>1. CASE ListZeros(p)
      BY <1>0, <1>1, ListZerosFacts DEF Working
<1>2. CASE ListIncrements(p)
  <2>1. /\ agent[p].pc = "increments"
        /\ \/ agent'[p].pc = "open" /\ agent'[p].made = Full(p)
           \/ agent'[p].pc = "base" /\ agent'[p].made.zero \in agent[p].todo
        BY <1>0, <1>2, ListIncrementsFacts
  <2> QED BY <1>0, <2>1 DEF Working
<1>3. CASE GetBase(p) \/ Open(p) \/ WriteBlock(p)
      BY <1>0, <1>3, GetBaseFacts, OpenFacts, WriteBlockFacts DEF Working
<1>4. CASE Plain(p)
  <2>1. /\ agent[p].pc \in {"close", "drain", "engine", "top", "metadir"}
        /\ agent'[p].pc # "increments" /\ agent'[p].made = agent[p].made
        BY <1>0, <1>4, PlainFacts DEF Plain, Stays
  <2> QED BY <2>1 DEF Working
<1>5. CASE PutMetadata(p) \/ ListOld(p)
      BY <1>0, <1>5, PutMetadataFacts, ListOldFacts DEF Working
<1>6. CASE Pick(p) \/ RemoveMetadata(p) \/ RemoveData(p) \/ MetadataRemoved(p) \/ DataRemoved(p)
      BY <1>0, <1>6, PickFacts, RemoveMetadataFacts, RemoveDataFacts, RemovedFacts DEF Working
<1>7. CASE Rest(p)
      BY <1>0, <1>7, RestFacts DEF Rest, Resting, Working
<1>8. CASE Drop(p)
      BY <1>0, <1>8, DropFacts DEF Stays
<1>9. CASE CallFails(p)
  <2>1. /\ agent[p].pc \in {"zeros", "blocks", "close"} /\ Stays(p)
        /\ agent'[p].pc \in {"open", "blocks", "drain"}
        BY <1>0, <1>9, CallFailsFacts DEF Working
  <2> QED BY <2>1 DEF Stays, Working
<1> QED BY StepCases, <1>1, <1>2, <1>3, <1>4, <1>5, <1>6, <1>7, <1>8, <1>9

LEMMA RemoverSteps ==
    ASSUME Basics, NEW p \in Processes, Step(p), agent[p].pc \in {"pick", "rm meta", "rm data"},
           Active(p)'
    PROVE  Pick(p) \/ RemoveMetadata(p) \/ RemoveData(p) \/ MetadataRemoved(p) \/ DataRemoved(p)
           \/ Drop(p)
<1>0. /\ TypeOK /\ Numbers /\ Local(p) /\ agent'[p].pc \notin Resting
      /\ (agent[p].pc = "zeros" => agent[p].made = Full(p))
      BY DEF Basics, Local, Active
<1>1. ~Begins(p) /\ ~Rest(p)
      BY <1>0, BeginsFacts, RestFacts DEF Rest, Resting
<1>2. ~ListZeros(p) /\ ~ListIncrements(p) /\ ~GetBase(p) /\ ~Open(p) /\ ~WriteBlock(p)
      BY <1>0, ListZerosFacts, ListIncrementsFacts, GetBaseFacts, OpenFacts, WriteBlockFacts
<1>3. ~Plain(p) /\ ~PutMetadata(p) /\ ~ListOld(p)
  <2>1. ~Plain(p)
        BY <1>0, PlainFacts DEF Plain
  <2> QED BY <1>0, <2>1, PutMetadataFacts, ListOldFacts
<1>4. ~CallFails(p)
      BY <1>0, CallFailsFacts DEF Resting
<1> QED BY StepCases, <1>1, <1>2, <1>3, <1>4

LEMMA TreeFacts ==
    ASSUME TypeOK, NEW z
    PROVE  /\ Tree(z, MetaParts) = {} /\ Tree(z, DataParts) = {} => \A x \in store : x[1].zero # z
           /\ (\A x \in store : x[1].zero # z) =>
                  Tree(z, MetaParts) = {} /\ Tree(z, DataParts) = {}
<1>1. \A x \in store : x[2] \in DataParts \cup MetaParts
      BY DEF TypeOK, Stored
<1> QED BY <1>1 DEF Tree

LEMMA AtWorkStays ==
    ASSUME Basics, NEW p \in Processes, Step(p), NEW r \in removed, Active(p), Active(p)',
           agent[p].id = r.by, AtWork(p, r)
    PROVE  AtWork(p, r)'
<1> USE DEF kept, unwritten
<1>0. TypeOK /\ Numbers /\ Local(p) /\ removed \subseteq removed'
      BY Changes DEF Basics
<1>a. CASE IsShort(r)
      BY <1>0, <1>a DEF AtWork, IsShort
<1> SUFFICES ASSUME ~IsShort(r) PROVE AtWork(p, r)'
    BY <1>a
<1> DEFINE z == r.zero
<1>b. \/ agent[p].pc = "pick" /\ \A x \in store : x[1].zero # z
      \/ /\ agent[p].pc \in {"rm meta", "rm data"} /\ agent[p].made.zero # z
         /\ \A x \in store : x[1].zero # z
      \/ /\ agent[p].pc = "rm meta" /\ agent[p].made.zero = z
         /\ Tree(z, MetaParts) \subseteq agent[p].left
      \/ /\ agent[p].pc = "rm data" /\ agent[p].made.zero = z
         /\ Tree(z, MetaParts) = {} /\ Tree(z, DataParts) \subseteq agent[p].left
      BY DEF AtWork, Cleared, IsShort
<1>c. ASSUME store' \subseteq store
      PROVE  /\ (\A x \in store : x[1].zero # z) => Cleared(r.zero, r.by)'
             /\ Tree(z, MetaParts)' \subseteq Tree(z, MetaParts)
             /\ Tree(z, DataParts)' \subseteq Tree(z, DataParts)
      BY <1>c DEF Cleared, Tree
<1>1. CASE Pick(p)
  <2>1. CASE agent'[p].pc = "idle"
        BY <2>1 DEF Active, Resting
  <2>2. CASE agent'[p].pc # "idle"
    <3>1. agent'[p].pc = "rm meta" /\ store' = store /\ agent[p].pc = "pick"
          BY <1>0, <1>1, <2>2, PickFacts
    <3>2. \A x \in store : x[1].zero # z
          BY <1>b, <3>1
    <3>3. Cleared(r.zero, r.by)' /\ Tree(z, MetaParts)' = {}
          BY <1>0, <1>c, <3>1, <3>2, TreeFacts
    <3> QED BY <3>1, <3>3 DEF AtWork
  <2> QED BY <2>1, <2>2
<1>2. CASE RemoveMetadata(p)
  <2>1. /\ agent[p].pc = "rm meta" /\ agent'[p].pc = "rm meta" /\ agent'[p].made = agent[p].made
        BY <1>0, <1>2, RemoveMetadataFacts
  <2>2. PICK x \in agent[p].left :
            store' = store \ {x} /\ agent[p].left \subseteq agent'[p].left \cup {x}
        BY <1>0, <1>2, RemoveMetadataFacts
  <2>3. CASE agent[p].made.zero # z
        BY <1>b, <1>c, <2>1, <2>2, <2>3 DEF AtWork
  <2>4. CASE agent[p].made.zero = z
    <3>1. Tree(z, MetaParts) \subseteq agent[p].left
          BY <1>b, <2>1, <2>4
    <3>2. Tree(z, MetaParts)' \subseteq Tree(z, MetaParts) /\ x \notin Tree(z, MetaParts)'
          BY <1>c, <2>2 DEF Tree
    <3>3. Tree(z, MetaParts)' \subseteq agent'[p].left
          BY <2>2, <3>1, <3>2
    <3> QED BY <2>1, <2>4, <3>3 DEF AtWork
  <2> QED BY <2>3, <2>4
<1>3. CASE RemoveData(p)
  <2>1. /\ agent[p].pc = "rm data" /\ agent'[p].pc = "rm data" /\ agent'[p].made = agent[p].made
        /\ agent[p].left \cap store' \subseteq agent'[p].left /\ store' \subseteq store
        BY <1>0, <1>3, RemoveDataFacts
  <2>2. CASE agent[p].made.zero # z
        BY <1>b, <1>c, <2>1, <2>2 DEF AtWork
  <2>3. CASE agent[p].made.zero = z
    <3>1. Tree(z, MetaParts) = {} /\ Tree(z, DataParts) \subseteq agent[p].left
          BY <1>b, <2>1, <2>3
    <3>2. Tree(z, DataParts)' \subseteq store'
          BY DEF Tree
    <3>3. Tree(z, MetaParts)' = {} /\ Tree(z, DataParts)' \subseteq agent'[p].left
          BY <1>c, <2>1, <3>1, <3>2
    <3> QED BY <2>1, <2>3, <3>3 DEF AtWork
  <2> QED BY <2>2, <2>3
<1>4. CASE MetadataRemoved(p) \/ DataRemoved(p)
  <2>1. /\ agent[p].left = {} /\ agent'[p].made = agent[p].made /\ store' = store
        /\ agent[p].pc \in {"rm meta", "rm data"}
        BY <1>0, <1>4, RemovedFacts
  <2>2. CASE agent[p].made.zero # z
    <3>1. agent'[p].pc \in {"pick", "rm data"}
          BY <1>0, <1>4, RemovedFacts
    <3>2. \A x \in store : x[1].zero # z
          BY <1>b, <2>1, <2>2
    <3>3. Cleared(r.zero, r.by)'
          BY <1>c, <2>1, <3>2
    <3> QED BY <2>1, <2>2, <3>1, <3>3 DEF AtWork
  <2>3. CASE agent[p].made.zero = z /\ agent[p].pc = "rm data"
    <3>1. Tree(z, MetaParts) = {} /\ Tree(z, DataParts) = {}
          BY <1>b, <2>1, <2>3
    <3>2. agent'[p].pc = "pick" /\ \A x \in store : x[1].zero # z
      <4>1. agent'[p].pc = "pick"
            BY <1>0, <1>4, <2>3, RemovedFacts
      <4>2. \A x \in store : x[1].zero # z
            BY <1>0, <3>1, TreeFacts
      <4> QED BY <4>1, <4>2
    <3> QED BY <1>c, <2>1, <3>2 DEF AtWork
  <2>4. CASE agent[p].made.zero = z /\ agent[p].pc = "rm meta"
    <3>1. Tree(z, MetaParts) = {}
          BY <1>b, <2>1, <2>4
    <3>2. /\ agent'[p].pc = "rm data" /\ agent'[p].left = Found(z, DataParts)
          /\ removed' = IF Short(z, DataParts)
                        THEN removed \cup {[zero |-> z, by |-> agent[p].id, short |-> TRUE]}
                        ELSE removed
          BY <1>0, <1>4, <2>4, RemovedFacts
    <3>3. CASE Short(z, DataParts)
      <4> DEFINE s == [zero |-> z, by |-> agent[p].id, short |-> TRUE]
      <4>1. s \in removed' /\ s.zero = r.zero /\ s.by = r.by /\ s.short
            BY <3>2, <3>3
      <4> HIDE DEF s
      <4> QED BY <4>1 DEF AtWork, IsShort
    <3>4. CASE ~Short(z, DataParts)
      <4>1. agent'[p].left = Tree(z, DataParts)
            BY <3>2, <3>4, FoundOrShort
      <4> QED BY <1>c, <2>1, <2>4, <3>1, <3>2, <4>1 DEF AtWork
    <3> QED BY <3>3, <3>4
  <2> QED BY <2>1, <2>2, <2>3, <2>4
<1>5. CASE Drop(p)
  <2>1. /\ agent'[p].pc = agent[p].pc /\ agent'[p].made = agent[p].made
        /\ agent'[p].left = agent[p].left /\ store' = store
        BY <1>0, <1>5, DropFacts DEF Stays
  <2> QED BY <1>b, <1>c, <2>1 DEF AtWork
<1> QED BY <1>b, <1>1, <1>2, <1>3, <1>4, <1>5, RemoverSteps

LEMMA DoneStays ==
    ASSUME Basics, NEW p \in Processes, Step(p), NEW r \in removed, Done(r)
    PROVE  Done(r)'
<1>0. TypeOK /\ Numbers /\ Local(p) /\ removed \subseteq removed'
      BY Changes DEF Basics
<1>1. CASE IsShort(r)
      BY <1>0, <1>1 DEF Done, IsShort
<1>2. CASE ~IsShort(r)
  <2>1. /\ \A x \in store : x[1].zero # r.zero
        /\ \A q \in Processes : agent[q].pc \in Working =>
               /\ agent[q].made.zero # r.zero
               /\ agent[q].pc = "increments" => r.zero \notin agent[q].todo
        BY <1>2 DEF Done
  <2>2. ASSUME NEW x \in store' PROVE x[1].zero # r.zero
    <3>1. CASE x \in store
          BY <2>1, <3>1
    <3>2. CASE x \notin store
      <4>1. Active(p) /\ x \in Puts(p)
            BY <1>0, <3>2, Changes DEF Adds
      <4>2. agent[p].pc \in Working /\ x[1].zero = agent[p].made.zero
            BY <1>0, <4>1, PutsFacts DEF Writing, Working
      <4> QED BY <2>1, <4>2
    <3> QED BY <3>1, <3>2
  <2>3. ASSUME NEW q \in Processes, agent'[q].pc \in Working
        PROVE  /\ agent'[q].made.zero # r.zero
               /\ agent'[q].pc = "increments" => r.zero \notin agent'[q].todo
    <3>1. CASE q # p
      <4>1. agent'[q] = agent[q]
            BY <1>0, <3>1, Changes DEF Others
      <4> QED BY <2>1, <2>3, <4>1
    <3>2. CASE q = p /\ Begins(p)
      <4>1. /\ agent'[p].made = [zero |-> clock, level |-> 0, time |-> clock]
            /\ agent'[p].todo = {}
            BY <1>0, <3>2, BeginsFacts
      <4>2. agent'[p].made.zero = clock
            BY <4>1
      <4>3. clock # r.zero
        <5>1. r.zero < clock /\ r.zero \in Nat
              BY <1>0, StorageConstants DEF Numbers, TypeOK
        <5> QED BY <5>1
      <4> QED BY <3>2, <4>1, <4>2, <4>3
    <3>3. CASE q = p /\ ~Begins(p)
      <4>1. \A y \in Zeros : y # r.zero
            BY <1>0, <2>1, ZerosFacts
      <4>2. /\ agent[p].pc \in Working
            /\ \/ agent'[p].made.zero = agent[p].made.zero
               \/ agent[p].pc = "increments" /\ agent'[p].made.zero \in agent[p].todo
            /\ agent'[p].pc = "increments" =>
                   \/ agent[p].pc = "increments" /\ agent'[p].todo = agent[p].todo
                   \/ \E y \in Zeros : agent'[p].todo = {y}
            BY <2>3, <3>3, WorkingFacts
      <4> QED BY <2>1, <3>3, <4>1, <4>2
    <3> QED BY <3>1, <3>2, <3>3
  <2> QED BY <2>2, <2>3 DEF Done
<1> QED BY <1>1, <1>2

\* A removal that begins.
LEMMA AtWorkNow ==
    ASSUME Basics, NEW p \in Processes, Step(p), NEW r \in removed', r \notin removed,
           Active(p)'
    PROVE  AtWork(p, r)'
<1>0. TypeOK /\ Numbers /\ Local(p)
      BY DEF Basics
<1>1. /\ agent[p].pc \in {"pick", "rm meta"} /\ r.zero = agent'[p].made.zero
      /\ agent[p].pc = "rm meta" => r.short
      BY <1>0, Records
<1>2. CASE r.short
      BY <1>2 DEF AtWork, IsShort
<1>3. CASE ~r.short
  <2>1. agent[p].pc = "pick"
        BY <1>1, <1>3
  <2>2. Pick(p)
    <3>1. ~RemoveMetadata(p) /\ ~RemoveData(p)
          BY <1>0, <2>1, RemoveMetadataFacts, RemoveDataFacts
    <3>2. ~MetadataRemoved(p) /\ ~DataRemoved(p)
          BY <1>0, <2>1, RemovedFacts
    <3>3. ~Drop(p)
          BY <1>0, DropFacts
    <3> QED BY <2>1, <3>1, <3>2, <3>3, RemoverSteps
  <2>3. /\ agent'[p].pc = "rm meta" /\ store' = store
        /\ \E z \in agent[p].todo :
               /\ agent'[p].made = [zero |-> z, level |-> 0, time |-> z]
               /\ agent'[p].left = Found(z, MetaParts)
               /\ removed' = removed \cup {[zero |-> z, by |-> agent[p].id,
                                            short |-> Short(z, MetaParts)]}
        BY <1>0, <2>2, PickFacts DEF kept
  <2>4. PICK z \in agent[p].todo :
               /\ agent'[p].left = Found(z, MetaParts)
               /\ removed' = removed \cup {[zero |-> z, by |-> agent[p].id,
                                            short |-> Short(z, MetaParts)]}
        BY <2>3
  <2>5. r.zero = z /\ r.short = Short(z, MetaParts)
        BY <2>4
  <2>6. agent'[p].left = Tree(z, MetaParts)
        BY <1>3, <2>4, <2>5, FoundOrShort
  <2>7. Tree(r.zero, MetaParts)' = Tree(r.zero, MetaParts)
        BY <2>3 DEF Tree
  <2> QED BY <1>1, <2>3, <2>5, <2>6, <2>7 DEF AtWork
<1> QED BY <1>2, <1>3

LEMMA StepClearing ==
    ASSUME Basics, Clearing, NEW p \in Processes, Step(p)
    PROVE  Clearing'
<1>0. /\ TypeOK /\ Numbers /\ Local(p) /\ Overlap
      /\ removed \subseteq removed' /\ together \subseteq together'
      BY Changes DEF Basics
<1> SUFFICES ASSUME NEW r \in removed', Undisturbed(r.by)'
             PROVE  /\ \A q \in Processes : Active(q)' /\ agent'[q].id = r.by => AtWork(q, r)'
                    /\ r.by \in cleaned' => Done(r)'
    BY DEF Clearing, AtWork, Done, IsShort, Cleared
<1>1. Undisturbed(r.by)
      BY <1>0 DEF Undisturbed
<1>2. \A q, s \in Processes : Active(q) /\ Active(s) /\ agent[q].id = r.by => q = s
      BY <1>0, <1>1 DEF Overlap, Undisturbed
<1>3. ASSUME r \in removed
      PROVE  /\ \A q \in Processes : Active(q) /\ agent[q].id = r.by => AtWork(q, r)
             /\ r.by \in cleaned => Done(r)
      BY <1>1, <1>3 DEF Clearing
<1>4. ASSUME NEW q \in Processes, Active(q)', agent'[q].id = r.by
      PROVE  AtWork(q, r)'
  <2>1. CASE q # p
    <3>1. agent'[q] = agent[q]
          BY <1>0, <2>1, Changes DEF Others
    <3>2. Active(q)
          BY <1>4, <3>1 DEF Active
    <3>3. ~Active(p)
          BY <1>2, <1>4, <2>1, <3>1, <3>2
    <3>4. store' = store /\ removed' = removed
      <4>1. store' = store
            BY <1>0, <3>3, Changes DEF Adds, Takes
      <4>2. removed' = removed
            BY <1>0, <3>3, Records
      <4> QED BY <4>1, <4>2
    <3>5. AtWork(q, r)
          BY <1>3, <1>4, <3>1, <3>2, <3>4
    <3> QED BY <3>1, <3>4, <3>5 DEF AtWork, IsShort, Cleared, Tree
  <2>2. CASE q = p /\ Begins(p)
    <3>1. agent'[p].id = clock /\ removed' = removed
          BY <1>0, <2>2, BeginsFacts
    <3>2. r.by < clock /\ r.by \in Nat
          BY <1>0, <3>1, StorageConstants DEF Numbers, TypeOK
    <3> QED BY <1>4, <2>2, <3>1, <3>2
  <2>3. CASE q = p /\ ~Begins(p)
    <3>1. Active(p) /\ agent'[p].id = agent[p].id
          BY <1>0, <1>4, <2>3, SameJob DEF Active
    <3>2. CASE r \in removed
          BY <1>3, <1>4, <2>3, <3>1, <3>2, AtWorkStays
    <3>3. CASE r \notin removed
          BY <1>4, <2>3, <3>3, AtWorkNow
    <3> QED BY <3>2, <3>3
  <2> QED BY <2>1, <2>2, <2>3
<1>5. ASSUME r.by \in cleaned' PROVE Done(r)'
  <2>1. CASE r.by \in cleaned
    <3>1. r \in removed
      <4>1. CASE removed' = removed
            BY <4>1
      <4>2. CASE removed' # removed
        <5>1. PICK s : removed' = removed \cup {s} /\ s.by = agent[p].id /\ Active(p)
              BY <1>0, <4>2, Records
        <5>2. agent[p].id \notin cleaned
              BY <1>0, <5>1, ActiveNumbers
        <5> QED BY <2>1, <5>1, <5>2
      <4> QED BY <4>1, <4>2
    <3> QED BY <1>3, <2>1, <3>1, DoneStays
  <2>2. CASE r.by \notin cleaned
    <3>1. /\ agent[p].pc = "pick" /\ Active(p) /\ agent'[p].pc = "idle"
          /\ removed' = removed /\ store' = store /\ r.by = agent[p].id
      <4>1. \/ cleaned' = cleaned
            \/ /\ agent[p].pc = "pick" /\ Active(p) /\ agent'[p].pc = "idle"
               /\ removed' = removed /\ store' = store
               /\ cleaned' = cleaned \cup {agent[p].id}
            BY <1>0, Records
      <4> QED BY <1>5, <2>2, <4>1
    <3>2. AtWork(p, r)
          BY <1>3, <3>1
    <3>3. CASE IsShort(r)
          BY <1>0, <3>3 DEF Done, IsShort
    <3>4. CASE ~IsShort(r)
      <4>1. \A x \in store : x[1].zero # r.zero
            BY <3>1, <3>2, <3>4 DEF AtWork, Cleared, IsShort
      <4>2. ASSUME NEW q \in Processes PROVE agent'[q].pc \notin Working
        <5>1. CASE q = p
              BY <3>1, <5>1 DEF Working
        <5>2. CASE q # p
          <6>1. agent'[q] = agent[q]
                BY <1>0, <5>2, Changes DEF Others
          <6>2. ~Active(q)
                BY <1>2, <3>1, <5>2
          <6> QED BY <6>1, <6>2, ActiveFacts
        <5> QED BY <5>1, <5>2
      <4> QED BY <3>1, <4>1, <4>2 DEF Done
    <3> QED BY <3>3, <3>4
  <2> QED BY <2>1, <2>2
<1> QED BY <1>4, <1>5

-----------------------------------------------------------------------------
LEMMA InitIInv == Init => IInv
<1> SUFFICES ASSUME Init PROVE IInv
    OBVIOUS
<1>1. /\ store = {} /\ removed = {} /\ cleaned = {} /\ succeeded = {} /\ together = {}
      /\ \A p \in Processes : agent[p] = Idle /\ agent[p].pc = "idle"
  <2>1. \A p \in Processes : agent[p] = Idle
        BY DEF Init
  <2> QED BY <2>1, IdleFacts DEF Init
<1>2. TypeOK
  <2>1. agent \in [Processes -> Job]
        BY IdleFacts DEF Init
  <2>2. clock \in 1..MaxTime + 1 /\ faults \in 0..MaxFaults
        BY StorageConstants DEF Init
  <2> QED BY <1>1, <2>1, <2>2 DEF Init, TypeOK
<1>3. \A p \in Processes : ~Active(p) /\ agent[p].pc \notin Working \cup Admin
      BY <1>1 DEF Active, Resting, Working, Admin
<1>4. Numbers /\ Overlap
      BY <1>1, <1>3 DEF Numbers, Overlap
<1>5. \A p \in Processes : Local(p)
      BY <1>1 DEF Local, Writing
<1>6. Kept
      BY <1>1, FS_EmptySet DEF Kept
<1>7. EntriesApart /\ EntriesGrounded /\ SucceededKept /\ Clearing
      BY <1>1 DEF EntriesApart, EntriesGrounded, SucceededKept, Clearing
<1>8. \A p \in Processes : Above(p) /\ Grounded(p)
      BY <1>1 DEF Above, Grounded, Chosen, Writing
<1> QED BY <1>2, <1>4, <1>5, <1>6, <1>7, <1>8 DEF IInv, Basics

LEMMA NextIInv == IInv /\ [Next]_vars => IInv'
<1> SUFFICES ASSUME IInv, [Next]_vars PROVE IInv'
    OBVIOUS
<1>1. CASE Next
  <2>1. PICK p \in Processes : Step(p)
        BY <1>1 DEF Next, Step
  <2>2. Basics' /\ EntriesApart' /\ EntriesGrounded' /\ SucceededKept' /\ Clearing'
        BY <2>1, StepBasics, StepEntriesApart, StepEntriesGrounded, StepSucceededKept,
           StepClearing DEF IInv
  <2>4. \A q \in Processes : Above(q)' /\ Grounded(q)'
        BY <2>1, StepAbove, StepGrounded DEF IInv
  <2> QED BY <2>2, <2>4 DEF IInv
<1>2. CASE UNCHANGED vars
  <2>1. /\ conf' = conf /\ clock' = clock /\ store' = store /\ named' = named /\ agent' = agent
        /\ succeeded' = succeeded /\ removed' = removed /\ cleaned' = cleaned
        /\ together' = together /\ faults' = faults
        BY <1>2 DEF vars
  <2>2. /\ Hierarchical' = Hierarchical /\ EntryPart' = EntryPart /\ BeingRemoved' = BeingRemoved
        /\ \A b : Disturbed(b)' = Disturbed(b) /\ Whole(b)' = Whole(b) /\ Content(b)' = Content(b)
        BY <2>1 DEF Hierarchical, EntryPart, BeingRemoved, Disturbed, Whole, Content
  <2>3. Basics'
    <3>1. TypeOK' /\ Numbers' /\ Overlap' /\ Kept'
          BY <2>1, <2>2 DEF IInv, Basics, TypeOK, Numbers, Active, Overlap, Kept
    <3>2. \A p \in Processes : Local(p)'
          BY <2>1, SameLocal DEF IInv, Basics
    <3> QED BY <3>1, <3>2 DEF Basics
  <2>5. \A p \in Processes : Above(p)' /\ Grounded(p)'
    <3>1. \A p \in Processes : Above(p)' = Above(p)
          BY <2>1, <2>2 DEF Above, IsEntry, Chosen, Target
    <3>2. \A p \in Processes : Grounded(p)' = Grounded(p)
          BY <2>1, <2>2 DEF Grounded, IsEntry, Chosen, Target, HasLevels
    <3> QED BY <3>1, <3>2 DEF IInv
  <2>6. EntriesApart' /\ EntriesGrounded' /\ SucceededKept'
        BY <2>1, <2>2 DEF IInv, EntriesApart, EntriesGrounded, SucceededKept, IsEntry, HasLevels
  <2>7. Clearing'
    <3>1. Clearing
          BY DEF IInv
    <3>2. /\ \A z, i : Cleared(z, i)' <=> Cleared(z, i)
          /\ \A i : Undisturbed(i)' <=> Undisturbed(i)
          /\ \A z, parts : Tree(z, parts)' = Tree(z, parts)
          BY <2>1 DEF Cleared, Undisturbed, Tree
    <3>a. \A r : IsShort(r)' <=> IsShort(r)
          BY <2>1 DEF IsShort
    <3>3. ASSUME NEW p \in Processes, NEW r \in removed PROVE AtWork(p, r)' <=> AtWork(p, r)
      <4>1. agent'[p] = agent[p]
            BY <2>1
      <4> QED BY <3>2, <3>a, <4>1 DEF AtWork
    <3>4. \A r \in removed : Done(r)' <=> Done(r)
          BY <2>1 DEF Done, IsShort
    <3>5. ASSUME NEW r \in removed', Undisturbed(r.by)'
          PROVE  /\ \A q \in Processes : Active(q)' /\ agent'[q].id = r.by => AtWork(q, r)'
                 /\ r.by \in cleaned' => Done(r)'
          BY <2>1, <3>1, <3>2, <3>3, <3>4, <3>5 DEF Active, Clearing
    <3> QED BY <3>5 DEF Clearing
  <2> QED BY <2>3, <2>5, <2>6, <2>7 DEF IInv
<1> QED BY <1>1, <1>2

\* In every state what each job knows is true, what is listed is whole and stands on what is
\* below it, and what an admin job has yet to remove is among what it has found.
THEOREM Invariance == Spec => []IInv
BY InitIInv, NextIInv, PTL DEF Spec

\* What is listed is whole as long as all metadata is listed.
LEMMA ReadableAlways == Spec /\ []AllIsListed => []Readable
<1>1. Init => Readable
  <2> SUFFICES ASSUME Init PROVE Readable
      OBVIOUS
  <2>1. store = {} /\ \A p \in Processes : agent[p].pc = "idle"
        BY IdleFacts DEF Init
  <2> QED BY <2>1 DEF Readable, OneMeta, EntriesWhole, Written, Unseen, Writing
<1>2. IInv /\ Readable /\ AllIsListed /\ [Next]_vars => Readable'
  <2> SUFFICES ASSUME IInv, Readable, AllIsListed, [Next]_vars PROVE Readable'
      OBVIOUS
  <2>1. CASE Next
    <3>1. PICK p \in Processes : Step(p)
          BY <2>1 DEF Next, Step
    <3> QED BY <3>1, StepReadable DEF IInv
  <2>2. CASE UNCHANGED vars
    <3>1. conf' = conf /\ store' = store /\ agent' = agent /\ together' = together
          /\ removed' = removed
          BY <2>2 DEF vars
    <3>2. /\ Hierarchical' = Hierarchical /\ EntryPart' = EntryPart
          /\ \A b : Disturbed(b)' = Disturbed(b) /\ Whole(b)' = Whole(b) /\ Content(b)' = Content(b)
          BY <3>1 DEF Hierarchical, EntryPart, Disturbed, Whole, Content
    <3>3. OneMeta' /\ EntriesWhole'
          BY <3>1, <3>2 DEF Readable, OneMeta, EntriesWhole, Active, IsEntry
    <3>4. \A p \in Processes : Written(p)' = Written(p)
          BY <3>1, <3>2 DEF Written
    <3>5. \A p \in Processes : Unseen(p)' = Unseen(p)
          BY <3>1, <3>2 DEF Unseen, IsEntry
    <3> QED BY <3>3, <3>4, <3>5 DEF Readable
  <2> QED BY <2>1, <2>2
<1> QED BY <1>1, <1>2, Invariance, PTL DEF Spec

\* What is listed is an entry of the storage.
LEMMA ListedFacts ==
    ASSUME Basics
    PROVE  /\ \A b \in Listed : b \in Backup /\ \E x \in store : IsEntry(x) /\ x[1] = b
           /\ \A x \in store : IsEntry(x) /\ (Hierarchical => Top(x[1]) \in store) => x[1] \in Listed
<1>1. \A x \in store : x[1] \in Backup
      BY DEF Basics, TypeOK, Stored
<1>2. \A z : \A b \in Entries(z) : \E x \in store : x[2] = EntryPart /\ x[1] = b
      BY DEF Entries, EntryPart
<1>3. ASSUME NEW x \in store, x[2] = EntryPart, Hierarchical => Top(x[1]) \in store
      PROVE  x[1] \in Listed
  <2>1. x[1] \in Entries(x[1].zero)
        BY <1>3 DEF Entries, EntryPart
  <2>2. x[1].zero \in Zeros
    <3>1. CASE Hierarchical
          BY <1>3, <3>1, TopFacts DEF Zeros
    <3>2. CASE ~Hierarchical
          BY <1>3, <3>2 DEF Zeros, EntryPart
    <3> QED BY <3>1, <3>2
  <2> QED BY <2>1, <2>2 DEF Listed
<1> QED BY <1>1, <1>2, <1>3 DEF Listed, IsEntry

\* The data and the engine's metadata of every backup that is listed are there, unless an
\* admin job removed its chain while it was made, and only agents that ran at the same time
\* make two of one level, whatever call fails and whoever is killed.
THEOREM WhatIsListed == Spec /\ []AllIsListed => []ChainsAreSound
<1>1. IInv /\ Readable => ChainsAreSound
  <2> SUFFICES ASSUME IInv, Readable PROVE ChainsAreSound
      OBVIOUS
  <2>1. ListedIsWhole
        BY ListedFacts DEF IInv, Readable, EntriesWhole, ListedIsWhole
  <2>2. OneOfEachLevel
        BY ListedFacts DEF IInv, EntriesApart, OneOfEachLevel
  <2> QED BY <2>1, <2>2 DEF IInv, Basics, ChainsAreSound
<1> QED BY <1>1, Invariance, ReadableAlways, PTL

\* A backup that its agent reported as made can be restored until its chain is removed: the
\* levels up to it are listed and whole.
THEOREM WhatSucceeded == Spec /\ []AllIsListed => []SuccessIsRestorable
<1>1. IInv /\ Readable => SuccessIsRestorable
  <2> SUFFICES ASSUME IInv, Readable, NEW b \in succeeded, b.zero \notin BeingRemoved,
                      NEW l \in 0..b.level
               PROVE  \E c \in Listed :
                          /\ c.zero = b.zero /\ c.level = l /\ Whole(c)
                          /\ Part(c, "meta") \in store \/ (Hierarchical /\ c \notin succeeded)
      BY DEF SuccessIsRestorable, BeingRemoved
  <2>0. /\ Basics /\ Part(b, "meta") \in store /\ Part(b, EntryPart) \in store
        /\ b \in Backup
        BY DEF IInv, SucceededKept, Basics, TypeOK
  <2>1. Part(b, EntryPart)[1] = b /\ Part(b, EntryPart)[2] = EntryPart
        BY DEF Part
  <2>2. PICK x \in store : IsEntry(x) /\ x[1].zero = b.zero /\ x[1].level = l
    <3>1. b.level \in 0..MaxLevel /\ b.level \in Nat
          BY <2>0, BackupFacts
    <3>2. CASE l = b.level
          BY <2>0, <2>1, <3>2 DEF IsEntry
    <3>3. CASE l # b.level
      <4>1. l \in 0..MaxLevel /\ l < b.level
            BY <3>1, <3>3, StorageConstants
      <4>2. HasLevels(b.zero, b.level)
            BY <2>0, <2>1 DEF IInv, EntriesGrounded, IsEntry
      <4> QED BY <4>1, <4>2 DEF HasLevels
    <3> QED BY <3>2, <3>3
  <2> DEFINE c == x[1]
  <2>3. c \in Listed
        BY <2>0, <2>2, ListedFacts DEF IInv, EntriesGrounded
  <2>4. Whole(c)
    <3>1. ~Disturbed(c)
          BY <2>2 DEF Disturbed, BeingRemoved
    <3> QED BY <2>2, <3>1 DEF IInv, Readable, EntriesWhole
  <2>5. Part(c, "meta") \in store \/ (Hierarchical /\ c \notin succeeded)
    <3>1. CASE c \in succeeded
          BY <2>2, <3>1 DEF IInv, SucceededKept
    <3>2. CASE ~Hierarchical
      <4>1. x[2] = "meta"
            BY <2>2, <3>2 DEF IsEntry, EntryPart
      <4> QED BY <2>0, <4>1 DEF Basics, Kept
    <3> QED BY <3>1, <3>2
  <2> QED BY <2>2, <2>3, <2>4, <2>5
<1> QED BY <1>1, Invariance, ReadableAlways, PTL

\* An admin job that was alone and reports success has left nothing of what it removed, but
\* for what swift did not list.
THEOREM WhatWasRemoved == Spec => []RemovalIsComplete
<1>1. IInv => RemovalIsComplete
      BY DEF IInv, Clearing, Done, IsShort, RemovalIsComplete, Undisturbed
<1> QED BY <1>1, Invariance, PTL
==============================================================================
