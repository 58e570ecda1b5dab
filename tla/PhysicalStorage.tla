-------------------------- MODULE PhysicalStorage --------------------------
(***************************************************************************)
(* freezer.storage, one storage of each kind below its interface: the      *)
(* files, directories or objects of the backups of one name, written by    *)
(* write_backup and put_metadata, listed by get_level_zero and             *)
(* get_increments, removed by Backup.remove, while connections drop and    *)
(* calls fail.  Agents and admin jobs run at the same time and may be      *)
(* killed. What a listing means for the chains is in BackupChain, reading  *)
(* in Restore.                                                             *)
(***************************************************************************)
EXTENDS Naturals, FiniteSets, FiniteSetsExt

CONSTANTS
    Processes,   \* agents that run at the same time
    Kinds,       \* the kinds of storage
    FullToo,     \* those on which jobs are run with --no-incremental, too
    Blocks,      \* blocks of a backup
    QueueSize,   \* of the queue between reader and writer
    Tries,       \* upload_chunk gives up after so many (10 in the code)
    Page,        \* objects in one listing of a container (10,000 in swift)
    MaxTime,     \* bound: jobs that are begun
    Alone,       \* bound: jobs at first that run one after the other
    MaxLevel,    \* bound: increments on a full backup
    MaxFaults    \* bound: connections that drop, calls that fail, agents that are killed

AllKinds == {"swift", "s3", "ssh", "ftp", "local"}

ASSUME StorageConstants ==
    /\ IsFiniteSet(Processes) /\ Kinds \subseteq AllKinds
    /\ Blocks \in Nat \ {0} /\ QueueSize \in Nat \ {0} /\ Tries \in Nat \ {0}
    /\ Page \in Nat \ {0} /\ MaxTime \in Nat /\ MaxLevel \in Nat /\ Alone \in Nat
    /\ MaxFaults \in Nat

Dirs     == {"ssh", "ftp", "local"}   \* kinds with directories
Sessions == {"ssh", "ftp"}            \* kinds with a connection

VARIABLES
    conf,        \* kind of storage, and whether --container is a relative path
    clock,       \* jobs begun: the time of the next
    store,       \* <<backup, part, n>>: what is stored; n counts blocks, or is 0
    named,       \* the directory of the metadata of this name was created
    agent,       \* of each process, its job
    succeeded,   \* backups whose agents ended without an error
    removed,     \* [zero, by, short]: full backups whose removal has begun, the job, and
                 \* whether a listing did not show all there was
    cleaned,     \* jobs that removed and ended without an error
    together,    \* {i, j}: jobs i and j ran at the same time
    faults

vars == <<conf, clock, store, named, agent, succeeded, removed, cleaned, together, faults>>
kept == <<conf, clock, succeeded, together>>
unwritten == <<kept, store, named, removed, cleaned, faults>>


Options == {c \in [kind : Kinds, relative : BOOLEAN] : c.relative => c.kind \in Sessions}

Backup     == [zero : 1..MaxTime, level : 0..MaxLevel, time : 1..MaxTime]
NoBackup   == [zero |-> 0, level |-> 0, time |-> 0]
DataParts  == {"datadir", "block", "manifest", "engine"}
MetaParts  == {"top", "metadir", "meta"}
Stored     == Backup \X (DataParts \cup MetaParts) \X (0..Blocks)

Working == {"zeros", "increments", "base", "open", "blocks", "drain", "close", "engine",
            "top", "metadir", "meta"}
Admin   == {"admin zeros", "pick", "rm meta", "rm data"}
Resting == {"idle", "failed"}

Idle == [pc |-> "idle", id |-> 0, made |-> NoBackup, count |-> 0, tries |-> 0,
         up |-> FALSE, struck |-> FALSE, todo |-> {}, left |-> {}]

Job == [pc : Working \cup Admin \cup Resting, id : 0..MaxTime, made : Backup \cup {NoBackup},
        count : 0..Blocks, tries : 0..Tries - 1, up : BOOLEAN, struck : BOOLEAN,
        todo : SUBSET (1..MaxTime), left : SUBSET Stored]

TypeOK ==
    /\ conf \in Options /\ clock \in 1..MaxTime + 1
    /\ store \subseteq Stored
    /\ named \in BOOLEAN
    /\ succeeded \subseteq Backup /\ cleaned \subseteq 1..MaxTime
    /\ removed \subseteq [zero : 1..MaxTime, by : 1..MaxTime, short : BOOLEAN]
    /\ agent \in [Processes -> Job]
    /\ together \subseteq SUBSET (1..MaxTime) /\ faults \in 0..MaxFaults

Init ==
    /\ conf \in Options /\ clock = 1 /\ store = {} /\ named = FALSE
    /\ agent = [p \in Processes |-> Idle]
    /\ succeeded = {} /\ removed = {} /\ cleaned = {}
    /\ together = {} /\ faults = 0

-----------------------------------------------------------------------------
(* What the storage holds and what it shows.                               *)

Hierarchical == conf.kind \in Dirs

\* listdir of the name: directories of full backups; of objects, what they are prefixes of.
Zeros ==
    {x[1].zero : x \in {y \in store : y[2] = IF Hierarchical THEN "top" ELSE "meta"}}

\* listdir of one of them: what is there of an increment is its directory.
Entries(zero) ==
    {x[1] : x \in {y \in store : y[1].zero = zero /\
                                 y[2] = IF Hierarchical THEN "metadir" ELSE "meta"}}

Tree(zero, parts) == {x \in store : x[1].zero = zero /\ x[2] \in parts}

\* The directory of a chain's metadata is that of its full backup.
Part(b, part) == <<b, part, 0>>
Block(b, n)   == <<b, "block", n>>
Top(b) == Part([zero |-> b.zero, level |-> 0, time |-> b.zero], "top")

\* The parts that make the data of a backup.  Segments of swift are objects of their own;
\* elsewhere block n is the one file or object, with n blocks in it.
Content(b) ==
    IF conf.kind = "swift"
    THEN {Block(b, n) : n \in 1..Blocks} \cup {Part(b, "manifest")}
    ELSE {Block(b, Blocks)}

Whole(b) == Content(b) \cup {Part(b, "engine")} \subseteq store

-----------------------------------------------------------------------------
Becomes(p, job) == agent' = [agent EXCEPT ![p] = job]
End(p, pc)      == Becomes(p, [Idle EXCEPT !.pc = pc])

\* get_file of ssh looks whether its connection is alive.  That and put_file of ftp do,
\* too, but fail then: the tuple of exceptions that they name has a tuple in it.
Reconnects(p) == conf.kind = "ssh" /\ agent[p].pc = "base"

\* What has to be there for the call that p makes next.
Needs(p) ==
    LET b == agent[p].made
    IN  CASE agent[p].pc = "base" -> {Part(b, "engine")}
          [] agent[p].pc = "engine" -> IF Hierarchical THEN {Part(b, "datadir")} ELSE {}
          [] agent[p].pc = "close" -> IF conf.kind = "ftp" THEN {Part(b, "datadir")} ELSE {}
          [] agent[p].pc = "metadir" -> IF Hierarchical THEN {Top(b)} ELSE {}
          [] agent[p].pc = "meta" -> IF Hierarchical THEN {Part(b, "metadir")} ELSE {}
          [] OTHER -> {}

\* create_dirs goes into the directories it makes: after prepare, a relative path leads
\* from there to directories within directories, which nothing is found in.
Astray(p) ==
    conf.relative /\ agent[p].pc = IF conf.kind = "ssh" THEN "open" ELSE "close"

\* Three calls fail whenever they are made.  put_file of s3 asks for the length of a file
\* object.  listdir of ftp, refused because there is no such directory, subscripts the
\* exception.  previous_backup takes the maximum of the levels of an empty directory.
Never(p) ==
    \/ conf.kind = "s3" /\ agent[p].pc = "engine"
    \/ conf.kind = "ftp" /\ agent[p].pc \in {"zeros", "admin zeros"} /\ (~named \/ conf.relative)
    \/ agent[p].pc = "increments" /\ Entries(Max(agent[p].todo)) = {}

\* The blocks of ftp go to a file of the host first; Backup.remove makes no call in between.
Connected(p) ==
    \/ conf.kind \notin Sessions \/ agent[p].up \/ Reconnects(p)
    \/ agent[p].pc \in {"pick", "drain"} \/ (conf.kind = "ftp" /\ agent[p].pc = "blocks")

Able(p) == Needs(p) \subseteq store /\ ~Astray(p) /\ ~Never(p) /\ Connected(p)

\* A call that succeeds; if the connection was made again, it is up.
Does(p, pc, job) ==
    /\ agent[p].pc = pc /\ Able(p)
    /\ Becomes(p, [job EXCEPT !.up = @ \/ Reconnects(p)])

\* Any other exception ends the job.
Breaks(p) ==
    /\ agent[p].pc \in Working \cup Admin /\ ~Able(p)
    /\ End(p, "failed")
    /\ UNCHANGED unwritten

-----------------------------------------------------------------------------
(* A backup.                                                               *)

Full(p) == [zero |-> agent[p].id, level |-> 0, time |-> agent[p].id]

Running == {q \in Processes : agent[q].pc \notin Resting}

\* A process has its own storage object: it is connected, and the storage prepared.  Which
\* process it is makes no difference.
Begin(p, pc) ==
    /\ clock <= MaxTime /\ Running # Processes
    /\ p = CHOOSE q \in Processes \ Running : TRUE
    /\ clock <= Alone + 1 => Running = {}
    /\ Becomes(p, [Idle EXCEPT !.pc = pc, !.id = clock, !.up = TRUE,
                               !.made = [zero |-> clock, level |-> 0, time |-> clock]])
    /\ clock' = clock + 1
    /\ together' = together \cup
           {{clock, agent[q].id} : q \in Running}
    /\ UNCHANGED <<conf, store, named, succeeded, removed, cleaned, faults>>

BeginIncremental(p) == Begin(p, "zeros")
BeginFull(p)        == conf.kind \in FullToo /\ Begin(p, "open")

\* get_level_zero.
ListZeros(p) ==
    /\ IF Zeros = {} \/ conf.relative
       THEN Does(p, "zeros", [agent[p] EXCEPT !.pc = "open", !.made = Full(p)])
       ELSE Does(p, "zeros", [agent[p] EXCEPT !.pc = "increments", !.todo = {Max(Zeros)}])
    /\ UNCHANGED unwritten

\* get_increments of the latest, and what the rest of previous_backup makes of it.
ListIncrements(p) ==
    /\ agent[p].pc = "increments" /\ Able(p)
    /\ LET entries == Entries(Max(agent[p].todo))
           highest == Max({b.level : b \in entries})
       IN  IF MaxLevel <= highest
           THEN Does(p, "increments", [agent[p] EXCEPT !.pc = "open", !.made = Full(p)])
           ELSE \E prev \in entries :
                    /\ prev.level = highest
                    /\ Does(p, "increments", [agent[p] EXCEPT !.pc = "base", !.made = prev])
    /\ UNCHANGED unwritten

\* get_file of its engine metadata.
GetBase(p) ==
    /\ Does(p, "base", [agent[p] EXCEPT
           !.pc = "open", !.made = [zero |-> @.zero, level |-> @.level + 1, time |-> agent[p].id]])
    /\ UNCHANGED unwritten

\* What the call that p makes next stores: segments of swift one by one, one file that
\* grows, or all at once when the upload of s3 is completed, or ftp's file sent.
Puts(p) ==
    LET b    == agent[p].made
        next == agent[p].count + 1
        kind == conf.kind
        at(pc) == agent[p].pc = pc
    IN  CASE at("open")    -> IF ~Hierarchical THEN {}
                              ELSE {Part(b, "datadir")} \cup
                                   IF kind = "ftp" THEN {} ELSE {Block(b, 0)}
          [] at("blocks")  -> IF kind = "swift" \/ Block(b, next - 1) \in store
                              THEN {Block(b, next)} ELSE {}
          [] at("close")   -> IF kind = "swift" THEN {Part(b, "manifest")}
                              ELSE IF kind \in {"s3", "ftp"} THEN {Block(b, Blocks)} ELSE {}
          [] at("engine")  -> {Part(b, "engine")}
          [] at("top")     -> {Top(b)}
          [] at("metadir") -> {Part(b, "metadir")}
          [] at("meta")    -> {Part(b, "meta")}
          [] OTHER         -> {}

\* The file of one block less is the file that has grown.
Outgrown(p) ==
    IF agent[p].pc = "blocks" /\ conf.kind # "swift"
    THEN {Block(agent[p].made, agent[p].count)} ELSE {}

Stores(p) == store' = (store \ Outgrown(p)) \cup Puts(p)

\* Mutant of Open: create_dirs is not called.
OpenOnly(p) ==
    /\ Does(p, "open", [agent[p] EXCEPT !.pc = "blocks", !.count = 0])
    /\ store' = store \cup (Puts(p) \ {Part(agent[p].made, "datadir")})
    /\ UNCHANGED <<kept, named, removed, cleaned, faults>>

\* create_dirs of the data and the opening of the file.
Open(p) ==
    /\ Does(p, "open", [agent[p] EXCEPT !.pc = "blocks", !.count = 0])
    /\ Stores(p)
    /\ UNCHANGED <<kept, named, removed, cleaned, faults>>

\* One block; upload_chunk counts the failures of each block from 0.
WriteBlock(p) ==
    /\ Does(p, "blocks", [agent[p] EXCEPT
           !.pc = IF agent[p].count + 1 < Blocks THEN "blocks" ELSE "close",
           !.count = @ + 1, !.tries = 0])
    /\ Stores(p)
    /\ UNCHANGED <<kept, named, removed, cleaned, faults>>

\* upload_manifest, complete_multipart_upload, put_file of ftp.
Close(p) ==
    /\ Does(p, "close", [agent[p] EXCEPT !.pc = "engine"])
    /\ Stores(p)
    /\ UNCHANGED <<kept, named, removed, cleaned, faults>>

\* upload_stream swallowed an exception.  The reader goes on as long as the queue,
\* which nobody empties any more, is not full.
Drain(p) ==
    /\ Blocks <= agent[p].count + 1 + QueueSize
    /\ Does(p, "drain", [agent[p] EXCEPT !.pc = "engine"])
    /\ UNCHANGED unwritten

\* put_metadata: the engine's metadata, next to the data.
PutEngineMetadata(p) ==
    /\ Does(p, "engine", [agent[p] EXCEPT !.pc = IF Hierarchical THEN "top" ELSE "meta"])
    /\ Stores(p)
    /\ UNCHANGED <<kept, named, removed, cleaned, faults>>

\* create_dirs makes one directory after the other.
CreateTop(p) ==
    /\ Does(p, "top", [agent[p] EXCEPT !.pc = "metadir"])
    /\ Stores(p)
    /\ named' = TRUE
    /\ UNCHANGED <<kept, removed, cleaned, faults>>

CreateMetadir(p) ==
    /\ Does(p, "metadir", [agent[p] EXCEPT !.pc = "meta"])
    /\ Stores(p)
    /\ UNCHANGED <<kept, named, removed, cleaned, faults>>

PutMetadata(p) ==
    /\ agent[p].pc = "meta" /\ Able(p)
    /\ End(p, "idle")
    /\ Stores(p)
    /\ succeeded' = succeeded \cup {agent[p].made}
    /\ UNCHANGED <<conf, clock, together, named, removed, cleaned, faults>>

-----------------------------------------------------------------------------
(* remove_older_than.                                                      *)

BeginRemoval(p) == Begin(p, "admin zeros")

\* The full backups up to a date.
ListOld(p) ==
    /\ \E date \in 1..clock :
          Does(p, "admin zeros", [agent[p] EXCEPT
              !.pc = "pick", !.todo = IF conf.relative THEN {} ELSE {z \in Zeros : z <= date}])
    /\ UNCHANGED unwritten

\* The order of the names of objects: <level>_<time>/data, engine_metadata, segments.
Before(x, y) ==
    LET rank(z) == <<z[1].level, z[1].time,
                     CASE z[2] = "manifest" -> 0 [] z[2] = "block" -> 2 [] OTHER -> 1, z[3]>>
    IN  \E i \in 1..4 : /\ rank(x)[i] < rank(y)[i]
                        /\ \A j \in 1..i - 1 : rank(x)[j] = rank(y)[j]

\* What rmtree finds.  Swift lists only so many objects of a container at once.
Found(zero, parts) ==
    LET tree == Tree(zero, parts)
    IN  IF conf.kind = "swift" THEN {x \in tree : Cardinality({y \in tree : Before(y, x)}) < Page}
        ELSE tree

Short(zero, parts) == conf.kind = "swift" /\ Cardinality(Tree(zero, parts)) > Page

\* Mutant of Pick: only the data is removed.
PickData(p) ==
    /\ agent[p].pc = "pick"
    /\ IF agent[p].todo = {}
       THEN End(p, "idle") /\ cleaned' = cleaned \cup {agent[p].id}
       ELSE \E z \in agent[p].todo :
                /\ Becomes(p, [agent[p] EXCEPT
                       !.pc = "rm data", !.todo = @ \ {z}, !.left = Found(z, DataParts),
                       !.made = [zero |-> z, level |-> 0, time |-> z]])
                /\ UNCHANGED cleaned
    /\ UNCHANGED <<kept, store, named, removed, faults>>

\* Backup.remove of the next.
Pick(p) ==
    /\ agent[p].pc = "pick"
    /\ IF agent[p].todo = {}
       THEN End(p, "idle") /\ cleaned' = cleaned \cup {agent[p].id} /\ UNCHANGED removed
       ELSE \E z \in agent[p].todo :
                /\ removed' = removed \cup
                       {[zero |-> z, by |-> agent[p].id, short |-> Short(z, MetaParts)]}
                /\ Becomes(p, [agent[p] EXCEPT
                       !.pc = "rm meta", !.todo = @ \ {z}, !.left = Found(z, MetaParts),
                       !.made = [zero |-> z, level |-> 0, time |-> z]])
                /\ UNCHANGED cleaned
    /\ UNCHANGED <<kept, store, named, faults>>

\* What is in a directory.
Within(x) ==
    CASE x[2] = "metadir" -> {Part(x[1], "meta")}
      [] x[2] = "top"     -> Tree(x[1].zero, {"metadir", "meta"})
      [] OTHER            -> {}

\* rmtree of the metadata: files, directories once they are empty, in the order of the
\* listing.  A directory that is listed later shows what was written meanwhile.
RemoveMetadata(p) ==
    \E x \in agent[p].left :
        /\ IF Hierarchical THEN Within(x) \cap agent[p].left = {}
           ELSE \A y \in agent[p].left : ~Before(y, x)
        /\ x \in store \/ conf.kind = "s3"
        /\ Hierarchical => Within(x) \cap store = {}
        /\ store' = store \ {x}
        /\ \E seen \in {{}} \cup IF Hierarchical THEN {Tree(x[1].zero, MetaParts)} ELSE {} :
              Does(p, "rm meta", [agent[p] EXCEPT !.left = (@ \cup seen) \ {x}])
        /\ UNCHANGED <<kept, named, removed, cleaned, faults>>

\* rmtree of the data, here one backup of the chain at a time.
RemoveData(p) ==
    \E b \in {x[1] : x \in agent[p].left} :
        LET listed == {x \in agent[p].left : x[1] = b}
            there  == Tree(b.zero, DataParts)
            gone   == IF Hierarchical THEN {x \in there : x[1] = b} ELSE listed
        IN  /\ gone # {} /\ (gone \subseteq store \/ conf.kind = "s3")
            /\ store' = store \ gone
            /\ \E seen \in {{}} \cup IF Hierarchical THEN {there} ELSE {} :
                  Does(p, "rm data", [agent[p] EXCEPT !.left = (@ \cup seen) \ (gone \cup listed)])
            /\ UNCHANGED <<kept, named, removed, cleaned, faults>>

\* What was to be removed is not there any more, or a directory is not empty.
RemoveFails(p) ==
    /\ \/ /\ agent[p].pc = "rm meta"
          /\ \E x \in agent[p].left :
                \/ x \notin store /\ conf.kind # "s3"
                \/ Hierarchical /\ Within(x) \cap agent[p].left = {} /\ Within(x) \cap store # {}
       \/ /\ agent[p].pc = "rm data" /\ conf.kind # "s3"
          /\ \E b \in {x[1] : x \in agent[p].left} :
                IF Hierarchical THEN {x \in store : x[1] = b /\ x[2] \in DataParts} = {}
                ELSE ~({x \in agent[p].left : x[1] = b} \subseteq store)
       \/ /\ agent[p].left = {} /\ Hierarchical
          /\ \/ agent[p].pc = "rm meta" /\ Tree(agent[p].made.zero, MetaParts) # {}
             \/ agent[p].pc = "rm data" /\ Tree(agent[p].made.zero, DataParts) # {}
    /\ End(p, "failed")
    /\ UNCHANGED unwritten

\* Mutant of MetadataRemoved: the data stays.
MetadataRemovedOnly(p) ==
    /\ agent[p].left = {}
    /\ Hierarchical => Tree(agent[p].made.zero, MetaParts) = {}
    /\ Does(p, "rm meta", [agent[p] EXCEPT !.pc = "pick"])
    /\ UNCHANGED unwritten

\* Backup.remove: the metadata first.
MetadataRemoved(p) ==
    /\ agent[p].left = {}
    /\ Hierarchical => Tree(agent[p].made.zero, MetaParts) = {}
    /\ Does(p, "rm meta", [agent[p] EXCEPT
           !.pc = "rm data", !.left = Found(agent[p].made.zero, DataParts)])
    /\ removed' = IF Short(agent[p].made.zero, DataParts)
                  THEN removed \cup {[zero |-> agent[p].made.zero, by |-> agent[p].id,
                                      short |-> TRUE]}
                  ELSE removed
    /\ UNCHANGED <<kept, store, named, cleaned, faults>>

DataRemoved(p) ==
    /\ agent[p].left = {}
    /\ Hierarchical => Tree(agent[p].made.zero, DataParts) = {}
    /\ Does(p, "rm data", [agent[p] EXCEPT !.pc = "pick"])
    /\ UNCHANGED unwritten

-----------------------------------------------------------------------------
(* What goes wrong.                                                        *)

\* The connection of p is lost: a timeout, a restart of the server.
Drop(p) ==
    /\ conf.kind \in Sessions /\ faults < MaxFaults
    /\ agent[p].pc \notin Resting /\ agent[p].up
    /\ Becomes(p, [agent[p] EXCEPT !.up = FALSE, !.struck = TRUE])
    /\ faults' = faults + 1
    /\ UNCHANGED <<kept, store, named, removed, cleaned>>

\* It cannot be made again.
ReconnectFails(p) ==
    /\ conf.kind \in Sessions /\ Reconnects(p) /\ ~agent[p].up
    /\ End(p, "failed")
    /\ UNCHANGED unwritten

\* Mutant of AfterFault: upload_chunk does not raise when it gives up.
AfterFaultNextBlock(p) ==
    IF agent[p].pc = "blocks" /\ conf.kind = "swift"
    THEN [agent[p] EXCEPT !.pc = IF agent[p].count + 1 < Blocks THEN "blocks" ELSE "close",
                          !.count = @ + 1, !.struck = TRUE]
    ELSE [Idle EXCEPT !.pc = "failed"]

\* Where p goes when its call raises: a listing that fails is empty, upload_chunk tries
\* again, upload_stream of s3 aborts the upload and returns.
AfterFault(p) ==
    LET struck == [agent[p] EXCEPT !.struck = TRUE] IN
    CASE agent[p].pc = "zeros" -> [struck EXCEPT !.pc = "open", !.made = Full(p)]
      [] agent[p].pc = "admin zeros" -> [struck EXCEPT !.pc = "pick", !.todo = {}]
      [] agent[p].pc = "blocks" /\ conf.kind = "swift" /\ agent[p].tries + 1 < Tries ->
             [struck EXCEPT !.tries = @ + 1]
      [] agent[p].pc \in {"blocks", "close"} /\ conf.kind = "s3" -> [struck EXCEPT !.pc = "drain"]
      [] OTHER -> [Idle EXCEPT !.pc = "failed"]

\* abort_multipart_upload may raise as well.
UploadFails(p) == conf.kind = "s3" /\ agent[p].pc \in {"blocks", "close"}

\* A call to a service or of the system fails; swift may have stored what it was sent.
CallFails(p) ==
    /\ conf.kind \notin Sessions /\ faults < MaxFaults
    /\ agent[p].pc \in (Working \cup Admin) \ {"pick", "drain"}
    /\ \/ Becomes(p, AfterFault(p))
       \/ UploadFails(p) /\ End(p, "failed")
    /\ faults' = faults + 1
    /\ store' = store \/ (conf.kind = "swift" /\ Able(p) /\ Stores(p))
    /\ UNCHANGED <<kept, named, removed, cleaned>>

Kill(p) ==
    /\ agent[p].pc \notin Resting /\ faults < MaxFaults
    /\ faults' = faults + 1
    /\ End(p, "idle")
    /\ UNCHANGED <<kept, store, named, removed, cleaned>>

-----------------------------------------------------------------------------
Agent(p) ==
    \/ ListZeros(p) \/ ListIncrements(p) \/ GetBase(p)
    \/ Open(p) \/ WriteBlock(p) \/ Close(p) \/ Drain(p)
    \/ PutEngineMetadata(p) \/ CreateTop(p) \/ CreateMetadir(p) \/ PutMetadata(p)
    \/ ListOld(p) \/ Pick(p) \/ RemoveMetadata(p) \/ RemoveData(p) \/ RemoveFails(p)
    \/ MetadataRemoved(p) \/ DataRemoved(p)
    \/ Breaks(p) \/ ReconnectFails(p)

Next ==
    \E p \in Processes :
        BeginIncremental(p) \/ BeginFull(p) \/ BeginRemoval(p) \/ Agent(p) \/ Drop(p) \/ CallFails(p) \/ Kill(p)

Spec == Init /\ [][Next]_vars

\* A job that has begun goes on.
LiveSpec == Spec /\ \A p \in Processes : WF_vars(Agent(p))

-----------------------------------------------------------------------------
Listed == UNION {Entries(z) : z \in Zeros}

\* The backup's chain was being removed while the agent that made it ran.
Disturbed(b) == \E r \in removed : r.zero = b.zero /\ {r.by, b.time} \in together

\* The data and the engine's metadata of a backup that is listed are there, whatever
\* failed and whoever was killed: they are written before the metadata is and removed
\* after it.
ListedIsWhole == \A b \in Listed : Disturbed(b) \/ Whole(b)

\* A backup that was reported as made can be restored until it is removed: the levels
\* up to it are listed and whole, and each has its metadata, but for those of agents that
\* were stopped between create_dirs and put_file, which are listed without.
SuccessIsRestorable ==
    \A b \in succeeded : b.zero \in {r.zero : r \in removed} \/
        \A l \in 0..b.level : \E c \in Listed :
            /\ c.zero = b.zero /\ c.level = l /\ Whole(c)
            /\ Part(c, "meta") \in store \/ (Hierarchical /\ c \notin succeeded)

\* Only agents that ran at the same time make two backups of one level of a chain.
OneOfEachLevel ==
    \A b, c \in Listed :
        b # c /\ b.zero = c.zero /\ b.level = c.level => {b.time, c.time} \in together

\* What is listed makes chains: whole backups, one of each level.
ChainsAreSound == TypeOK /\ ListedIsWhole /\ OneOfEachLevel

\* An admin job that was alone and reports success has left nothing of what it removed,
\* unless swift did not list it all.
RemovalIsComplete ==
    \A r \in removed :
        r.by \in cleaned /\ (\A pair \in together : r.by \notin pair) =>
            \/ \A x \in store : x[1].zero # r.zero
            \/ \E s \in removed : s.zero = r.zero /\ s.by = r.by /\ s.short

\* A job does not fail where no call has failed, it was alone and nobody was killed
\* before, except: on s3, with a relative path, with ftp the first increment, and where a
\* removal disturbed by an agent has left a directory without backups, or a backup that
\* is listed without its data.
FailureHasReason ==
    [][\A p \in Processes :
          agent[p].pc \notin Resting /\ agent'[p].pc = "failed" =>
              \/ agent[p].struck \/ faults' > faults
              \/ conf.kind = "s3" \/ conf.relative
              \/ conf.kind = "ftp" /\ ~named
              \/ \E pair \in together : agent[p].id \in pair
              \/ /\ agent[p].pc = "increments"
                 /\ faults > 0 \/ Max(agent[p].todo) \in {r.zero : r \in removed}
              \/ agent[p].pc = "base" /\ Disturbed(agent[p].made)]_vars

Hung(p) == conf.kind = "s3" /\ agent[p].struck /\ agent[p].pc = "drain"

\* A job ends, except that of a reader whose writer has swallowed the error.
JobEnds ==
    \A p \in Processes : agent[p].pc \notin Resting ~> (agent[p].pc \in Resting \/ Hung(p))

\* Jobs end, and end well unless something went wrong.
JobsEndWell == FailureHasReason /\ JobEnds
=============================================================================
