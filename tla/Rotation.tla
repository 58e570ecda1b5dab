----------------------------- MODULE Rotation ------------------------------
(***************************************************************************)
(* Native backups of one volume in Cinder: agents that create them         *)
(* (BackupOs.backup_cinder) while an admin job removes the full ones       *)
(* beyond the newest --fullbackup-rotation (freezer.openstack.admin).      *)
(*                                                                         *)
(* Cinder is external: an incremental backup rests on the newest available *)
(* one, and a backup on which another rests, or which is being created, is *)
(* not deleted.  The two agents are processes of their own.                *)
(***************************************************************************)
EXTENDS Integers, Sequences, SequencesExt, FiniteSets

CONSTANTS
    MaxBackups,  \* bound: of the volume, those that are gone included
    Keep         \* fullbackup_rotation, of which the least value is 1

ASSUME RotationConstants == MaxBackups \in Nat /\ Keep \in Nat \ {0}

VARIABLES
    backups,     \* in the order of their creation
    wants,       \* what the backup agent is about to create
    step,        \* where the admin job is
    goals,       \* the full backups that the admin job removes
    fulls,       \* those of them it has not begun with
    queue        \* what it deletes for the one it works on

rotationVars == <<backups, wants, step, goals, fulls, queue>>

Ids   == 1..Len(backups)
Is(i, status) == backups[i].status = status
Full(i)       == backups[i].rests = i
Gone(i)       == Is(i, "gone")
Available     == {i \in Ids : Is(i, "available")}

\* The members of S, each once, from the newest or from the oldest on.
Row(S) == [1..Cardinality(S) -> S]
NewestFirst(S) == CHOOSE s \in Row(S) : \A m, n \in DOMAIN s : m < n => s[m] > s[n]
OldestFirst(S) == CHOOSE s \in Row(S) : \A m, n \in DOMAIN s : m < n => s[m] < s[n]

Settling == {"creating", "available", "error", "deleting", "error_deleting", "gone"}

RotationTypeOK ==
    /\ \A i \in Ids : backups[i].rests \in 1..i /\ backups[i].root \in 1..i
                      /\ Full(backups[i].root) /\ backups[i].status \in Settling
    /\ wants \in {"nothing", "full", "incremental"}
    /\ step \in {"idle", "next", "delete", "wait", "returned", "refused", "failed"}
    /\ goals \subseteq Ids /\ Range(fulls) \subseteq goals /\ Range(queue) \subseteq Ids
    /\ step \in {"delete", "wait"} => queue # <<>>

RotationInit ==
    /\ backups = <<>> /\ wants = "nothing"
    /\ step = "idle" /\ goals = {} /\ fulls = <<>> /\ queue = <<>>

-----------------------------------------------------------------------------
(* The backup agent.                                                       *)

adminVars == <<step, goals, fulls, queue>>

\* With --incremental, a full backup where none is available.
BackupCinder ==
    /\ wants = "nothing"
    /\ wants' = "full" \/ wants' = IF Available = {} THEN "full" ELSE "incremental"
    /\ UNCHANGED <<backups, adminVars>>

\* The base is chosen when cinder gets the call, and may be gone by then.
CreateBackup ==
    /\ wants # "nothing" /\ Len(backups) < MaxBackups
    /\ LET new   == Len(backups) + 1
           bases == IF wants = "full" THEN {} ELSE Available
           base  == CHOOSE i \in bases : \A j \in bases : i >= j
       IN  backups' =
             IF wants = "full"
             THEN Append(backups, [rests |-> new, root |-> new, status |-> "creating"])
             ELSE IF bases = {} THEN backups
             ELSE Append(backups, [rests |-> base, root |-> backups[base].root,
                                   status |-> "creating"])
    /\ wants' = "nothing"
    /\ UNCHANGED adminVars

Becomes(i, status) == backups' = [backups EXCEPT ![i].status = status]

Settles(i) ==
    /\ \/ Is(i, "creating") /\ (Becomes(i, "available") \/ Becomes(i, "error"))
       \/ Is(i, "deleting") /\ (Becomes(i, "gone") \/ Becomes(i, "error_deleting"))
    /\ UNCHANGED <<wants, adminVars>>

-----------------------------------------------------------------------------
(* The admin job.                                                          *)

\* Mutant of DelOffLimit: one full backup less is kept.
DelOffLimitOneMore ==
    /\ step = "idle"
    /\ LET found == OldestFirst({i \in Available : Full(i)})
       IN  fulls' = SubSeq(found, 1, Len(found) - Keep + 1)
    /\ goals' = Range(fulls') /\ step' = "next"
    /\ UNCHANGED <<backups, wants, queue>>

\* del_off_limit_fullbackup: the slice [:-keep] of the available full backups.
DelOffLimit ==
    /\ step = "idle"
    /\ LET found == OldestFirst({i \in Available : Full(i)})
       IN  fulls' = SubSeq(found, 1, Len(found) - Keep)
    /\ goals' = Range(fulls') /\ step' = "next"
    /\ UNCHANGED <<backups, wants, queue>>

Listed == {i \in Ids : ~Gone(i)}

\* The incremental backups between this full backup and the next, whatever its status.
Dependents(f) ==
    {i \in Listed : i > f /\ \A j \in Listed : j \in (f + 1)..i => ~Full(j)}

NextFull ==
    /\ step = "next" /\ fulls # <<>>
    /\ queue' = Append(NewestFirst(Dependents(Head(fulls))), Head(fulls))
    /\ fulls' = Tail(fulls) /\ step' = "delete"
    /\ UNCHANGED <<backups, wants, goals>>

RotationEnds ==
    /\ step = "next" /\ fulls = <<>>
    /\ step' = "returned"
    /\ UNCHANGED <<backups, wants, goals, fulls, queue>>

Deletable(i) ==
    /\ backups[i].status \in {"available", "error"}
    /\ \A j \in Listed : j # i => backups[j].rests # i

\* What is gone already is no error: the connection ignores that it is missing.
DeleteBackup ==
    /\ step = "delete"
    /\ LET i == Head(queue)
       IN  \/ Deletable(i) /\ Becomes(i, "deleting") /\ step' = "wait"
           \/ Gone(i) /\ UNCHANGED backups /\ step' = "wait"
           \/ ~Deletable(i) /\ ~Gone(i) /\ UNCHANGED backups /\ step' = "refused"
    /\ UNCHANGED <<wants, goals, fulls, queue>>

\* Until it is gone, in error, or 'deleting' for more than two minutes.
WaitDelBackup ==
    /\ step = "wait"
    /\ LET i == Head(queue)
       IN  \/ /\ Gone(i) /\ queue' = Tail(queue)
              /\ step' = IF queue' = <<>> THEN "next" ELSE "delete"
           \/ backups[i].status \in {"deleting", "error_deleting"} /\ step' = "failed" /\ UNCHANGED queue
    /\ UNCHANGED <<backups, wants, goals, fulls>>

\* The scheduler starts the job again.
NextRotation ==
    /\ step \in {"returned", "refused", "failed"}
    /\ step' = "idle" /\ goals' = {} /\ fulls' = <<>> /\ queue' = <<>>
    /\ UNCHANGED <<backups, wants>>

AdminStep == DelOffLimit \/ NextFull \/ RotationEnds \/ DeleteBackup \/ WaitDelBackup

RotationNext ==
    \/ BackupCinder \/ CreateBackup \/ \E i \in Ids : Settles(i)
    \/ AdminStep \/ NextRotation

-----------------------------------------------------------------------------
\* Whatever is removed rests on a full backup that is older than the Keep newest
\* available ones: rotation, beside creations, failed ones included, never removes a backup
\* that is to be kept or one that such a backup needs.
RotationKeeps ==
    \A i \in Ids : backups[i].status \in {"deleting", "error_deleting", "gone"} =>
        Cardinality({j \in Available : Full(j) /\ j > backups[i].root}) >= Keep

\* When the job ends without an error, the full backups that were too many are gone, and
\* so are all that rested on them.
RotationRemoves ==
    step = "returned" =>
        \A i \in Ids : backups[i].root \in goals => Gone(i)

\* Cinder refuses a deletion only when a backup has not settled or could not be deleted, or
\* when an incremental backup comes after a full one that it does not rest on (which was
\* still being created, or has failed): otherwise the job deletes in an order that is
\* accepted, whatever the deletions do that an earlier job gave up waiting for.
RefusalHasReason ==
    step = "delete" /\ step' = "refused" =>
        \E j \in Listed :
            \/ backups[j].status \in {"creating", "error_deleting", "deleting"}
            \/ \E k \in Listed : Full(k) /\ backups[j].root < k /\ k < j
==============================================================================
