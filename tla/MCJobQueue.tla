---------------------------- MODULE MCJobQueue ----------------------------
(* Instances of JobQueue for TLC.                                          *)
EXTENDS JobQueue, TLC

\* Every lane has a workerId of its own, as runService names them.
OwnName == CHOOSE f \in [Lanes -> Owners] : \A k, l \in Lanes : f[k] = f[l] => k = l

\* Lanes of two processes started with the same MENDPOINT_WORKER_ID.
SharedName == [l \in Lanes |-> CHOOSE o \in Owners : TRUE]

OneTenant == [j \in Jobs |-> CHOOSE t \in Tenants : TRUE]

AllTenants == [l \in Lanes |-> Tenants]

LaneSymmetry == Permutations(Lanes)
=============================================================================
