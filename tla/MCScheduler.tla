---------------------------- MODULE MCScheduler ----------------------------
(* Values of the constants of Scheduler for TLC.                           *)
EXTENDS Scheduler

Draft(s, e) == [status |-> s, event |-> e, pid |-> FALSE]

\* What a user creates: no event (Job.create starts it), or an explicit start.
FreshDrafts   == {Draft("", ""), Draft("", "start")}
\* Also a job created stopped.
AllDrafts     == FreshDrafts \cup {Draft("stop", "")}
StartDrafts   == {Draft("", "start")}
=============================================================================
