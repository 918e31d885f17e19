------------------------ MODULE MCCandidateDelivery ------------------------
(* Instances of CandidateDelivery for TLC.  The deliveries are             *)
(* interchangeable, so what must happen to one of them stands for all.     *)
EXTENDS CandidateDelivery

OneDelivery == CHOOSE d \in Deliveries : TRUE

(* The fence around a draft in doubt is lifted, unless its delivery was    *)
(* refused or cancelled (recovery and retry past the attempts).            *)
FenceLiftsOnce == FenceLifts(OneDelivery)

(* A merge completes its task though the webhook came while the task was   *)
(* fenced (the sweep of merged outcomes).                                  *)
MergedTaskCompletesOnce == MergedTaskCompletes(OneDelivery)
=============================================================================
