---------------------- MODULE MCDependencyOutageQueue ----------------------
(* Instances of DependencyOutageQueue for TLC.                             *)
EXTENDS DependencyOutageQueue, TLC

\* Every call comes from one process and passes the same workerId.
SharedOwner == [w \in Workers |-> CHOOSE o \in Owners : TRUE]

Symmetry == Permutations(Workers) \cup Permutations(Digests)

(* The versions of the credential are interchangeable: every behaviour is  *)
(* one of these up to their names.                                         *)
InitFromOneVersion == Init /\ authority = CHOOSE a \in Authorities : TRUE

FairSpecFromOneVersion == InitFromOneVersion /\ [][Next]_vars /\ Fairness
=============================================================================
