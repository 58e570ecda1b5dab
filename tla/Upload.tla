------------------------------- MODULE Upload -------------------------------
(***************************************************************************)
(* What BackupEngine.backup promises of one storage: the blocks arrive     *)
(* whole and in order, the backup appears in the listing of the storage    *)
(* only when all of them are there, backup() returns normally only after   *)
(* that, and it does not hang.                                             *)
(***************************************************************************)
EXTENDS Naturals, Sequences

CONSTANT Blocks

VARIABLES
    stored,   \* the blocks in the data file of the storage
    listed,   \* the storage lists the backup
    outcome   \* "pending", "ok" or "failed"

vars == <<stored, listed, outcome>>

Init == stored = <<>> /\ listed = FALSE /\ outcome = "pending"

Store ==
    /\ outcome = "pending" /\ ~listed /\ Len(stored) < Blocks
    /\ stored' = Append(stored, Len(stored) + 1)
    /\ UNCHANGED <<listed, outcome>>

List ==
    /\ outcome = "pending" /\ Len(stored) = Blocks
    /\ listed' = TRUE
    /\ UNCHANGED <<stored, outcome>>

Succeed ==
    /\ outcome = "pending" /\ listed
    /\ outcome' = "ok"
    /\ UNCHANGED <<stored, listed>>

Fail ==
    /\ outcome = "pending"
    /\ outcome' = "failed"
    /\ UNCHANGED <<stored, listed>>

Next == Store \/ List \/ Succeed \/ Fail

SafeSpec == Init /\ [][Next]_vars
Spec     == SafeSpec /\ <>(outcome # "pending")
=============================================================================
