---------------------------- MODULE BackupChain ----------------------------
(***************************************************************************)
(* freezer.storage: the backups of one name on one storage or several, as  *)
(* chains of a full backup (level 0) and the increments on top of it.      *)
(* Storage.previous_backup decides what the next backup builds on,         *)
(* put_metadata lists it, remove_older_than (the admin action) removes     *)
(* chains, and get_latest_level_zero_increments says what a restore reads. *)
(*                                                                         *)
(* One agent or admin job works on the backups at a time.  Time is counted in ticks,    *)
(* and no two backups start in the same tick.  The data of a backup is     *)
(* abstracted to the backup it was made from.  All jobs of a behaviour use *)
(* one configuration of the options about levels.                          *)
(***************************************************************************)
EXTENDS Naturals, FiniteSets, FiniteSetsExt

CONSTANTS
    Last,           \* the storages are 1..Last, in the order of the configuration
    Sorted,         \* the storages whose listdir sorts (ssh, ftp)
    Incremental,    \* values of --incremental that the jobs use
    Configurations, \* --max-level, --always-level and --restart-always-level
                    \* (0: not set), with the faults that occur,
                    \* a subset of FaultKinds
    Removals,       \* admin jobs run
    MaxTime         \* bound: the clock

\* The data or the metadata of a backup does not arrive, a listing is empty,
\* a removal ends in the middle.
FaultKinds == {"fail", "put", "list", "remove"}

ASSUME ChainAssumption ==
    /\ Last \in Nat \ {0} /\ Sorted \subseteq 1..Last
    /\ Incremental \subseteq BOOLEAN /\ Removals \in BOOLEAN /\ MaxTime \in Nat
    /\ Configurations \subseteq
           [max : Nat, always : Nat, restart : Nat, faults : SUBSET FaultKinds]

Storages == 1..Last

\* zero: when the full backup of its chain was made; base: when the backup was
\* made whose engine metadata this one started from, 0 for a full backup.
Backup   == [zero : Nat, level : Nat, time : Nat, base : Nat]
NoBackup == [zero |-> 0, level |-> 0, time |-> 0, base |-> 0]

VARIABLES
    conf,     \* the configuration
    clock,
    listed,   \* the backups whose metadata each storage has
    job,      \* the backup being made, or NoBackup
    putting,  \* the storage that gets its metadata next
    doomed,   \* what an admin job has yet to remove: storages, and full backups there
    torn      \* the full backups whose chains are listed, but not all that was

vars == <<conf, clock, listed, job, putting, doomed, torn>>

TypeOK ==
    /\ conf \in Configurations
    /\ clock \in Nat
    /\ listed \in [Storages -> SUBSET Backup]
    /\ job \in Backup
    /\ putting \in Storages
    /\ doomed \subseteq Storages \X Nat /\ torn \subseteq Nat

Init ==
    /\ conf \in Configurations
    /\ clock = 1
    /\ listed = [s \in Storages |-> {}]
    /\ job = NoBackup
    /\ putting = 1
    /\ doomed = {} /\ torn = {}

-----------------------------------------------------------------------------
(* What the storages show.                                                 *)

Zeros(s) == {b.zero : b \in listed[s]}

\* Mutant of ZerosUpTo: the date itself is left out.
ZerosBefore(shown, date) == {z \in UNION {Zeros(s) : s \in shown} : z < date}

\* get_level_zero of the storages in shown, up to date.
ZerosUpTo(shown, date) == {z \in UNION {Zeros(s) : s \in shown} : z <= date}

\* get_increments: the dictionary keeps, of each level, the entry that listdir
\* returned last.
Increments(s, z) ==
    LET chain  == {b \in listed[s] : b.zero = z}
        levels == {b.level : b \in chain}
    IN  {f \in [levels -> chain] :
            \A l \in levels :
                /\ f[l].level = l
                /\ s \in Sorted =>
                    \A b \in chain : b.level = l => b.time <= f[l].time}

\* get_latest_level_zero_increments, all it may return: of the latest full
\* backup, on the first storage that has it.
LatestIncrements(shown, date) ==
    LET z == Max(ZerosUpTo(shown, date))
        s == Min({t \in shown : z \in Zeros(t)})
    IN  IF ZerosUpTo(shown, date) = {} THEN {}
        ELSE {[l \in {k \in DOMAIN f : f[k].time <= date} |-> f[l]] : f \in Increments(s, z)}

\* Mutant of Previous: --max-level is compared with the level that is there,
\* and --always-level only stops at the level above it.
PreviousTooHigh(f, now) ==
    LET highest == Max(DOMAIN f)
        restart == \/ conf.max > 0 /\ conf.max < highest
                   \/ conf.always > 0 /\ highest > conf.always
    IN  IF restart THEN NoBackup ELSE f[highest]

\* previous_backup, given those increments: is the next backup a full one?
Restarts(f, now) ==
    LET highest == Max(DOMAIN f)
    IN  \/ conf.max > 0 /\ conf.max <= highest
        \/ conf.always > 0 /\ highest > conf.always
        \/ conf.restart > 0 /\ now > f[highest].time + conf.restart

\* If not, the level that it is made on top of.
BuiltOn(f) ==
    LET highest == Max(DOMAIN f)
    IN  IF conf.always > 0 /\ highest = conf.always THEN highest - 1 ELSE highest

\* NoBackup: make a full backup.
Previous(f, now) == IF Restarts(f, now) THEN NoBackup ELSE f[BuiltOn(f)]

\* Mutant of OnTopOf: every increment starts from the metadata of level 0.
OnTopOfZero(prev, now) ==
    IF prev = NoBackup
    THEN [zero |-> now, level |-> 0, time |-> now, base |-> 0]
    ELSE [zero |-> prev.zero, level |-> prev.level + 1, time |-> now, base |-> prev.zero]

\* BackupEngine.backup: the backup made on top of prev.
OnTopOf(prev, now) ==
    IF prev = NoBackup
    THEN [zero |-> now, level |-> 0, time |-> now, base |-> 0]
    ELSE [zero |-> prev.zero, level |-> prev.level + 1, time |-> now, base |-> prev.time]

\* listdir of swift and s3 returns nothing when the service fails.
Shown == IF "list" \in conf.faults THEN SUBSET Storages ELSE {Storages}

-----------------------------------------------------------------------------
Tick ==
    /\ clock < MaxTime
    /\ clock' = clock + 1
    /\ UNCHANGED <<conf, listed, job, putting, doomed, torn>>

\* A level that is not there is a KeyError, which ends the agent.
Begin(incremental) ==
    /\ job = NoBackup /\ doomed = {} /\ clock < MaxTime
    /\ \E shown \in Shown :
        LET found == LatestIncrements(shown, clock)
        IN  IF ~incremental \/ found = {}
            THEN job' = OnTopOf(NoBackup, clock)
            ELSE \E f \in {f \in found : Restarts(f, clock) \/ BuiltOn(f) \in DOMAIN f} :
                     job' = OnTopOf(Previous(f, clock), clock)
    /\ clock' = clock + 1
    /\ UNCHANGED <<conf, listed, putting, doomed, torn>>

\* put_metadata of one storage after the other, once the data is there.
PutMetadata ==
    /\ job # NoBackup
    /\ listed' = [listed EXCEPT ![putting] = @ \cup {job}]
    /\ IF putting = Last
       THEN job' = NoBackup /\ putting' = 1
       ELSE putting' = putting + 1 /\ UNCHANGED job
    /\ UNCHANGED <<conf, clock, doomed, torn>>

\* The data did not arrive ("fail"), or one of the put_metadata raised ("put").
BackupFails ==
    /\ job # NoBackup
    /\ (putting = 1 /\ "fail" \in conf.faults) \/ (putting > 1 /\ "put" \in conf.faults)
    /\ job' = NoBackup /\ putting' = 1
    /\ UNCHANGED <<conf, clock, listed, doomed, torn>>

\* remove_older_than: the chains of the full backups of that date or before.
RemoveOlderThan(date) ==
    /\ Removals /\ job = NoBackup /\ doomed = {}
    /\ \E shown \in Shown :
        doomed' = UNION {{<<s, z>> : z \in {z \in Zeros(s) : z <= date}} : s \in shown}
    /\ UNCHANGED <<conf, clock, listed, job, putting, torn>>

\* One storage after the other, in the order in which each was listed.
RemovedNext(s, z) ==
    /\ <<s, z>> \in doomed
    /\ \A d \in doomed : s < d[1] \/ (s = d[1] /\ (s \in Sorted => z <= d[2]))

\* left: what is still listed of it on s.
Remains(s, z, left) ==
    LET chain == {b \in listed[s] : b.zero = z}
    IN  /\ listed' = [listed EXCEPT ![s] = (@ \ chain) \cup left]
        /\ torn' = {t \in IF left = chain THEN torn ELSE torn \cup {z} :
                       \E u \in Storages : \E b \in listed'[u] : b.zero = t}

\* Backup.remove
RemoveChain(s, z) ==
    /\ RemovedNext(s, z)
    /\ Remains(s, z, {})
    /\ doomed' = doomed \ {<<s, z>>}
    /\ UNCHANGED <<conf, clock, job, putting>>

\* rmtree raises, or the process is killed: a part of the metadata may be gone,
\* and nothing after it is removed.
RemovalFails(s, z) ==
    /\ "remove" \in conf.faults /\ RemovedNext(s, z)
    /\ \E left \in SUBSET {b \in listed[s] : b.zero = z} : Remains(s, z, left)
    /\ doomed' = {}
    /\ UNCHANGED <<conf, clock, job, putting>>

Next ==
    \/ Tick
    \/ \E incremental \in Incremental : Begin(incremental)
    \/ PutMetadata
    \/ BackupFails
    \/ \E date \in 1..clock : RemoveOlderThan(date)
    \/ \E d \in doomed : RemoveChain(d[1], d[2]) \/ RemovalFails(d[1], d[2])

Spec == Init /\ [][Next]_vars

-----------------------------------------------------------------------------
Dates == 1..clock

\* Storages need not hold the same backups, and a listing need not see all of them: then a
\* backup can be made on top of one that has an increment already, elsewhere, and the chain forks.
Forks == {"put", "list"} \subseteq conf.faults

\* No removal has taken anything of the chain that a restore of that date reads.
Intact(date) == Max(ZerosUpTo(Storages, date)) \notin torn

\* What a restore reads, of any date: a full backup and then increments, each
\* made from the backup that was read just before it; unless the chain may have forked
\* or a removal has taken a part of it.  That is left only by one that a failed listing
\* or an rmtree that raised cut short.
RestoreIsChain ==
    /\ ~Forks => \A date \in Dates : \A f \in LatestIncrements(Storages, date) :
           Intact(date) =>
               /\ DOMAIN f = 0..Max(DOMAIN f)
               /\ \A l \in DOMAIN f : f[l].base = IF l = 0 THEN 0 ELSE f[l - 1].time
    /\ torn # {} => doomed # {} \/ "list" \in conf.faults \/ "remove" \in conf.faults

\* A restore of a date ends with the most recent backup made up to that date, on whichever
\* storage, where a chain has each level once: no --always-level, no forks, and no removal
\* that has taken a part of it.
RestoreIsRecent ==
    conf.always = 0 /\ ~Forks =>
        \A date \in Dates : \A f \in LatestIncrements(Storages, date) :
            Intact(date) =>
                \A s \in Storages : \A b \in listed[s] :
                    b.time <= date => b.time <= f[Max(DOMAIN f)].time

\* No chain grows beyond --max-level, or beyond --always-level.
LevelsAreBounded ==
    /\ TypeOK
    /\ \A s \in Storages : \A b \in listed[s] :
           /\ conf.max > 0 => b.level <= conf.max
           /\ conf.always > 0 => b.level <= conf.always
=============================================================================
