---------------------------- MODULE FencedLease ----------------------------
(***************************************************************************)
(* What a leased piece of work promises, whatever table keeps it: it is    *)
(* open, held under a numbered lease, or done.  A grant takes a new        *)
(* number, and takes the work away from a holder only once the holder's    *)
(* lease has lapsed; only the holder of a live lease gives the work back   *)
(* or finishes it; done work stays done.  Unfenced is TRUE where finished  *)
(* work is recorded whoever finished it.                                   *)
(***************************************************************************)
EXTENDS Integers

CONSTANT Unfenced

VARIABLES clock, phase, number, lease

leaseVars == <<clock, phase, number, lease>>

LeaseInit == phase = "open" /\ number = 0

Live == phase = "held" /\ lease > clock

Advance == clock' > clock /\ UNCHANGED <<phase, number, lease>>

Grant ==
  /\ phase # "done" /\ ~Live
  /\ phase' = "held"
  /\ number' = number + 1
  /\ UNCHANGED clock

GiveBack ==
  /\ Live
  /\ phase' = "open"
  /\ UNCHANGED <<clock, number>>

Finish ==
  /\ Live \/ Unfenced
  /\ phase # "done"
  /\ phase' = "done"
  /\ UNCHANGED <<clock, number>>

LeaseNext == Advance \/ Grant \/ GiveBack \/ Finish

LeaseSpec == LeaseInit /\ [][LeaseNext]_leaseVars
=============================================================================
