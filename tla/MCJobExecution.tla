--------------------------- MODULE MCJobExecution ---------------------------
(* Values of the constants of JobExecution for TLC.                        *)
EXTENDS JobExecution

\* A brief job has one action, tried once; others have two, of which the first may
\* be tried again and the second may be mandatory.
BoundedPlans ==
    [j \in Jobs |->
        {p \in [1..(IF j \in Brief THEN 1 ELSE 2) -> Action] :
            ~p[1].mandatory /\ p[Len(p)].retries = 0}]

BriefOrNone == {{}, Brief}
=============================================================================
