----------------------------- MODULE SerialJobs -----------------------------
(***************************************************************************)
(* What the operations manager promises its users: a job that is submitted *)
(* runs at most once, and never while another job runs.                    *)
(***************************************************************************)
CONSTANT Jobs

VARIABLES pending, active, done

jobVars == <<pending, active, done>>

Init ==
    /\ pending = {}
    /\ active = {}
    /\ done = {}

Submit(j) ==
    /\ j \notin pending \cup active \cup done
    /\ pending' = pending \cup {j}
    /\ UNCHANGED <<active, done>>

Start(j) ==
    /\ active = {}
    /\ j \in pending
    /\ pending' = pending \ {j}
    /\ active' = {j}
    /\ UNCHANGED done

End(j) ==
    /\ j \in active
    /\ active' = active \ {j}
    /\ done' = done \cup {j}
    /\ UNCHANGED pending

Next == \E j \in Jobs : Submit(j) \/ Start(j) \/ End(j)

Spec == Init /\ [][Next]_jobVars
=============================================================================
