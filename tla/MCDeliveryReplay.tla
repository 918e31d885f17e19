-------------------------- MODULE MCDeliveryReplay --------------------------
(* Instances of DeliveryReplay for TLC.                                    *)
EXTENDS DeliveryReplay, TLC
=============================================================================
