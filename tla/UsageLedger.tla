---------------------------- MODULE UsageLedger ----------------------------
(***************************************************************************)
(* The usage ledger of one tenant (packages/db/src/usage.ts).  Nothing is  *)
(* ever updated but the mark that a finance authorization was spent: every *)
(* balance, hold and invoice line is a sum over the entries.  Each         *)
(* operation is one BEGIN IMMEDIATE transaction, and so one action.        *)
(*                                                                         *)
(* An entry is known by its place in the sequence, which stands for its id *)
(* and its entry_sequence.  An entitlement has one price version, so       *)
(* an invoice line is named by the entitlement alone.  Digests, hashes,    *)
(* actors, reasons and the provenance of a measurement are left out; a     *)
(* call the code refuses is not enabled, and so is one that only returns   *)
(* what an earlier call with its idempotency key wrote.                    *)
(***************************************************************************)
EXTENDS SequencesExt

CONSTANTS
  Clients,    \* idempotency keys that clients choose for reservations
  Finance,    \* idempotency keys that finance chooses for corrections
  Invoices,   \* invoice references
  Amounts,    \* amounts a client reserves
  Deltas,     \* amounts of a correction: an adjustment adds, a credit takes
  Quotas,     \* quotas an entitlement can be created with
  MaxPlans,   \* bound on the entitlements of the tenant
  MaxEntries  \* bound on the entries of the ledger

\* An entry without an idempotency key has none that a client or finance sends.
ASSUME KeysAssumption == "none" \notin Clients \cup Finance

ASSUME AmountsAssumption ==
  /\ Amounts \subseteq Nat \ {0}
  /\ Deltas \subseteq Int \ {0}
  /\ Quotas \subseteq Nat
  /\ MaxPlans \in Nat
  /\ MaxEntries \in Nat

VARIABLES
  plans,    \* usage_entitlements: version to quota and phase of its period
  entries,  \* usage_ledger_entries
  auths     \* usage_finance_authorizations, by the key of the entry they allow

ledger == <<plans, entries, auths>>

None == "none"

Phases == {"current", "past"}

Keys == Clients \cup Finance

UpToOneOf(S) == UNION {0..n : n \in S}

Kinds == {"reservation", "settlement", "release", "adjustment", "credit"}

\* hold is reservation_id, 0 when there is none; key is "none" when no later
\* call can meet it.
Entry(kind, plan, key, hold, reserved, consumed, invoice, auth) ==
  [kind |-> kind, plan |-> plan, key |-> key, hold |-> hold, reserved |-> reserved,
   consumed |-> consumed, invoice |-> invoice, auth |-> auth]

\* root is consumed_entry_id, 0 before the authorization is spent.
NoAuthorization == [invoice |-> None, delta |-> 0, target |-> 0, root |-> 0]

Init ==
  /\ plans = <<>>
  /\ entries = <<>>
  /\ auths = [k \in Finance |-> NoAuthorization]

-----------------------------------------------------------------------------
SumReserved(S) == SumFunctionOnSet([i \in DOMAIN entries |-> entries[i].reserved], S)

SumConsumed(S) == SumFunctionOnSet([i \in DOMAIN entries |-> entries[i].consumed], S)

OfPlan(p) == {i \in DOMAIN entries : entries[i].plan = p}

Reserved(p) == SumReserved(OfPlan(p))

Consumed(p) == SumConsumed(OfPlan(p))

RoomOfCharges(p) == plans[p].quota - Consumed(p)

Room(p) == plans[p].quota - Reserved(p) - Consumed(p)

Keyed(k) == \E i \in DOMAIN entries : entries[i].key = k

\* The latest version whose period covers the instant of the call, else 0.
ActivePlan == Max({0} \cup {p \in DOMAIN plans : plans[p].phase = "current"})

\* A client settles and releases the reservations it made, under its own keys.
ClientHolds == {i \in DOMAIN entries : entries[i].kind = "reservation" /\ entries[i].key # None}

OfHold(h) == {i \in DOMAIN entries : i = h \/ entries[i].hold = h}

Outstanding(h) == SumReserved(OfHold(h))

InvoiceLineToDate(inv, p, before) ==
  {i \in DOMAIN entries : entries[i].invoice = inv /\ entries[i].plan = p}

InvoiceLine(inv, p, before) ==
  {i \in DOMAIN entries : i < before /\ entries[i].invoice = inv /\ entries[i].plan = p}

Allocated(inv, p, before) == SumConsumed(InvoiceLine(inv, p, before))

\* The entitlements an invoice charges, and the entry that first named each.
Charged(inv, before) == {p \in DOMAIN plans : Allocated(inv, p, before) > 0}

FirstNamed(inv, before) == [p \in Charged(inv, before) |-> Min(InvoiceLine(inv, p, before))]

InOrderOf(S, first) ==
  CHOOSE s \in SetToSeqs(S) : \A i, j \in DOMAIN s : i < j => first[s[i]] < first[s[j]]

InvoiceAllocations(inv, before) == InOrderOf(Charged(inv, before), FirstNamed(inv, before))

Smaller(a, b) == IF a < b THEN a ELSE b

\* A credit is spread over allocations in their order: each gives what it has
\* until the credit is used up.  Empty when they have less than the credit.
Spread(allocations, allocated, credit) ==
  LET UpTo(n) == SumFunctionOnSet([i \in DOMAIN allocations |-> allocated[allocations[i]]], 1..n)
      Portion(i) == [plan |-> allocations[i],
                     amount |-> Smaller(allocated[allocations[i]], credit - UpTo(i - 1))]
      enough == {n \in DOMAIN allocations : UpTo(n) >= credit}
  IN  IF enough = {} THEN <<>> ELSE [i \in 1..Min(enough) |-> Portion(i)]

CreditPortions(inv, credit, before) ==
  Spread(InvoiceAllocations(inv, before),
         [p \in Charged(inv, before) |-> Allocated(inv, p, before)], credit)

-----------------------------------------------------------------------------
\* createUsageEntitlement under a fresh id: a renewal, or a change of plan
\* whose period overlaps the one before.  It is taken when its period begins,
\* which nothing reads earlier.
CreateUsageEntitlement(q) ==
  /\ Len(plans) < MaxPlans
  /\ plans' = Append(plans, [quota |-> q, phase |-> "current"])
  /\ UNCHANGED <<entries, auths>>

\* Time passes the end of an entitlement's period; a later version does not
\* end before an earlier one.
PeriodEnds(p) ==
  /\ plans[p].phase = "current"
  /\ \A older \in 1..(p - 1) : plans[older].phase = "past"
  /\ plans' = [plans EXCEPT ![p].phase = "past"]
  /\ UNCHANGED <<entries, auths>>

Record(new) ==
  /\ Len(entries) + Len(new) <= MaxEntries
  /\ entries' = entries \o new

\* insertEntry of reserveUsage, after its quota check.
Reserve(key, n) ==
  /\ ActivePlan # 0
  /\ n <= Room(ActivePlan)
  /\ Record(<<Entry("reservation", ActivePlan, key, 0, n, 0, None, None)>>)

ReserveUsage(k, n) ==
  /\ ~ Keyed(k)
  /\ Reserve(k, n)
  /\ UNCHANGED <<plans, auths>>

\* settleUsageReservation and releaseUsageReservation close the whole hold.
Close(kind, h, charge, invoice) ==
  /\ Outstanding(h) > 0
  /\ Record(<<Entry(kind, entries[h].plan, None, h, - Outstanding(h), charge, invoice, None)>>)

Settle(h, n, invoice) == n <= Outstanding(h) /\ Close("settlement", h, n, invoice)

Release(h) == Close("release", h, 0, None)

SettleUsageReservation(h, n, invoice) ==
  /\ Settle(h, n, invoice)
  /\ UNCHANGED <<plans, auths>>

ReleaseUsageReservation(h) ==
  /\ Release(h)
  /\ UNCHANGED <<plans, auths>>

Now == Len(entries) + 1

\* createUsageFinanceAuthorization: an adjustment names the invoice line it
\* raises, which the invoice must carry; a credit names none.
Authorize(k, inv, delta, target) ==
  /\ auths[k] = NoAuthorization
  /\ target \in (IF delta < 0 THEN {0} ELSE Charged(inv, Now))
  /\ auths' = [auths EXCEPT ![k] = [invoice |-> inv, delta |-> delta, target |-> target, root |-> 0]]
  /\ UNCHANGED <<plans, entries>>

\* What signedUsageChange requires of both kinds; the call comes inside the
\* window of the authorization.
MaySpend(k) == auths[k].root = 0 /\ ~ Keyed(k)

Spend(k) == auths' = [auths EXCEPT ![k].root = Now]

AdjustUsage(k) ==
  LET a == auths[k] IN
  /\ a.delta > 0 /\ MaySpend(k)
  /\ a.target \in Charged(a.invoice, Now)
  /\ a.delta <= Room(a.target)
  /\ Record(<<Entry("adjustment", a.target, k, 0, 0, a.delta, a.invoice, k)>>)
  /\ Spend(k)
  /\ UNCHANGED plans

\* The first portion carries the key of the request, the others a derived one.
CreditEntries(k, portions) ==
  [i \in DOMAIN portions |->
     Entry("credit", portions[i].plan, IF i = 1 THEN k ELSE None, 0, 0, - portions[i].amount,
           auths[k].invoice, k)]

CreditUsage(k) ==
  LET portions == CreditPortions(auths[k].invoice, - auths[k].delta, Now) IN
  /\ auths[k].delta < 0 /\ MaySpend(k)
  /\ portions # <<>>
  /\ \A i \in DOMAIN portions : portions[i].amount <= Consumed(portions[i].plan)
  /\ Record(CreditEntries(k, portions))
  /\ Spend(k)
  /\ UNCHANGED plans

LedgerNext ==
  \/ \E q \in Quotas : CreateUsageEntitlement(q)
  \/ \E p \in DOMAIN plans : PeriodEnds(p)
  \/ \E k \in Clients, n \in Amounts : ReserveUsage(k, n)
  \/ \E h \in ClientHolds :
       \/ \E n \in UpToOneOf(Amounts) \ {0}, inv \in Invoices : SettleUsageReservation(h, n, inv)
       \/ ReleaseUsageReservation(h)
  \/ \E k \in Finance :
       \/ \E inv \in Invoices, delta \in Deltas, p \in 0..Len(plans) : Authorize(k, inv, delta, p)
       \/ AdjustUsage(k) \/ CreditUsage(k)

-----------------------------------------------------------------------------
Records == [kind : Kinds, plan : 1..MaxPlans, key : Keys \cup {None}, hold : 0..MaxEntries,
            reserved : Int, consumed : Int, invoice : Invoices \cup {None},
            auth : Keys \cup {None}]

LedgerTypeOK ==
  /\ Len(plans) <= MaxPlans
  /\ plans \in Seq([quota : Quotas, phase : Phases])
  /\ Len(entries) <= MaxEntries
  /\ entries \in Seq(Records)
  /\ auths \in [Finance -> [invoice : Invoices \cup {None}, delta : Deltas \cup {0},
                         target : 0..MaxPlans, root : 0..MaxEntries]]

\* What reconcileUsageLedger requires of the entries an authorization paid
\* for, recomputing the split of a credit from the entries before it.
AuthorizationMatches(k) ==
  LET a == auths[k]
      own == {i \in DOMAIN entries : entries[i].auth = k}
      portions == CreditPortions(a.invoice, - a.delta, a.root)
  IN  /\ a.root = 0 => own = {}
      /\ a.root # 0 /\ a.delta > 0 => own = {a.root} /\ entries[a.root].consumed = a.delta
      /\ a.root # 0 /\ ~(a.delta > 0) =>
           /\ own = a.root..(a.root + Len(portions) - 1)
           /\ \A i \in DOMAIN portions :
                LET e == entries[a.root + i - 1]
                IN  e.plan = portions[i].plan /\ e.consumed = - portions[i].amount

\* The verifier accepts the ledger after every operation: each authorization
\* was spent by exactly the entries it still explains, whatever was entered
\* since, and no hold and no invoice went below zero (invoices are refused
\* and the usage page shows the ledger as invalid otherwise).
LedgerReconciles ==
  /\ \A k \in Finance : AuthorizationMatches(k)
  /\ \A i \in DOMAIN entries : entries[i].kind = "reservation" => Outstanding(i) >= 0
  /\ \A inv \in Invoices : SumConsumed({i \in DOMAIN entries : entries[i].invoice = inv}) >= 0
=============================================================================
