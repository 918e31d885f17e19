---------------------------- MODULE QuotaAccount ----------------------------
(***************************************************************************)
(* What the usage ledger of a tenant promises, without its entries: every  *)
(* entitlement is an account with a quota, an amount on hold and an amount *)
(* consumed, and no operation takes an account past its quota.             *)
(***************************************************************************)
EXTENDS Integers

CONSTANTS
  Plans,   \* the entitlements a tenant can be granted
  Sums     \* the amounts an operation can move, natural numbers

VARIABLES
  quota,     \* granted to an entitlement, 0 before it is granted
  reserved,  \* on hold for work that was admitted
  consumed   \* charged, corrections included

vars == <<quota, reserved, consumed>>

Accounts == [Plans -> Nat]

Init == quota = [p \in Plans |-> 0] /\ reserved = quota /\ consumed = quota

Fits(p, held, used) == held + used <= quota[p]

Grant(p, q) ==
  /\ quota[p] = 0
  /\ quota' = [quota EXCEPT ![p] = q]
  /\ UNCHANGED <<reserved, consumed>>

Hold(p, n) ==
  /\ Fits(p, reserved[p] + n, consumed[p])
  /\ reserved' = [reserved EXCEPT ![p] = @ + n]
  /\ UNCHANGED <<quota, consumed>>

\* A hold of n is closed, and at most n of it is charged.
Close(p, n, charge) ==
  /\ n <= reserved[p]
  /\ charge <= n
  /\ reserved' = [reserved EXCEPT ![p] = @ - n]
  /\ consumed' = [consumed EXCEPT ![p] = @ + charge]
  /\ UNCHANGED quota

ChargeMore(p, n) ==
  /\ Fits(p, reserved[p], consumed[p] + n)
  /\ consumed' = [consumed EXCEPT ![p] = @ + n]
  /\ UNCHANGED <<quota, reserved>>

\* A credit may be spread over several accounts.
CreditBack(credit) ==
  /\ \A p \in Plans : credit[p] <= consumed[p]
  /\ consumed' = [p \in Plans |-> consumed[p] - credit[p]]
  /\ UNCHANGED <<quota, reserved>>

Next ==
  \/ \E p \in Plans, n \in Sums :
       Grant(p, n) \/ Hold(p, n) \/ ChargeMore(p, n) \/ \E charge \in Sums : Close(p, n, charge)
  \/ \E credit \in [Plans -> Sums] : CreditBack(credit)

Spec == Init /\ [][Next]_vars

TypeOK == quota \in Accounts /\ reserved \in Accounts /\ consumed \in Accounts

\* No account holds and charges more than its quota.
NeverOverdrawn == \A p \in Plans : Fits(p, reserved[p], consumed[p])
=============================================================================
