------------------------- MODULE FanoutUsageProofs -------------------------
(***************************************************************************)
(* The usage ledger keeps its accounts, its verifier accepts it and runs   *)
(* are charged exactly when they are done, for every set of keys, invoices *)
(* and runs, all amounts and every bound.                                  *)
(***************************************************************************)
EXTENDS FanoutUsage, FiniteSums, SequenceTheorems, TLAPS

(***************************************************************************)
(* Sets of natural numbers, and sequences of records.                      *)
(***************************************************************************)
LEMMA MinIsLeast ==
  ASSUME NEW T \in SUBSET Nat, T # {}
  PROVE  Min(T) \in T /\ \A m \in T : Min(T) <= m
<1>1. PICK n \in T : \A m \in T : n <= m
  BY LeastExists
<1> QED
  BY <1>1 DEF Min

LEMMA MaxIsGreatest ==
  ASSUME NEW T \in SUBSET Nat, T # {}, NEW b \in Nat, \A m \in T : m <= b
  PROVE  Max(T) \in T /\ \A m \in T : m <= Max(T)
<1> DEFINE U == {n \in Nat : \A m \in T : m <= n}
<1>1. U \in SUBSET Nat /\ b \in U
  OBVIOUS
<1>2. PICK u \in U : \A v \in U : u <= v
  BY <1>1, LeastExists
<1>3. u \in T
  <2> SUFFICES ASSUME u \notin T PROVE FALSE
    OBVIOUS
  <2>1. PICK t \in T : TRUE
    OBVIOUS
  <2>2. u # 0 /\ u - 1 \in Nat
    BY <2>1
  <2>3. u - 1 \in U
    BY <2>2
  <2> QED
    BY <1>2, <2>2, <2>3
<1> QED
  BY <1>3 DEF Max

\* Sums over a column of a table of entries, for any table.
ReservedIn(e, S) == SumFunctionOnSet([i \in DOMAIN e |-> e[i].reserved], S)

ConsumedIn(e, S) == SumFunctionOnSet([i \in DOMAIN e |-> e[i].consumed], S)

Table(e) ==
  /\ IsFiniteSet(DOMAIN e)
  /\ \A i \in DOMAIN e : e[i].reserved \in Int /\ e[i].consumed \in Int

\* The table more has the entries of the table less, unchanged.
Extends(less, more) ==
  /\ DOMAIN less \subseteq DOMAIN more
  /\ \A i \in DOMAIN less : more[i] = less[i]

LEMMA SumsTyped ==
  ASSUME NEW e, Table(e), NEW S \in SUBSET DOMAIN e
  PROVE  ReservedIn(e, S) \in Int /\ ConsumedIn(e, S) \in Int
<1>1. IsFiniteSet(S)
  BY FS_Subset DEF Table
<1> DEFINE f == [i \in DOMAIN e |-> e[i].reserved]
           g == [i \in DOMAIN e |-> e[i].consumed]
<1>2. \A i \in S : f[i] \in Int /\ g[i] \in Int
  BY DEF Table
<1> HIDE DEF f, g
<1>3. SumFunctionOnSet(f, S) \in Int /\ SumFunctionOnSet(g, S) \in Int
  BY <1>1, <1>2, SumInt
<1> QED
  BY <1>3 DEF ReservedIn, ConsumedIn, f, g

LEMMA SumsKept ==
  ASSUME NEW less, NEW more, Table(more), Extends(less, more), NEW S \in SUBSET DOMAIN less
  PROVE  ReservedIn(more, S) = ReservedIn(less, S) /\ ConsumedIn(more, S) = ConsumedIn(less, S)
<1>1. IsFiniteSet(S)
  <2>1. S \in SUBSET DOMAIN more
    BY DEF Extends
  <2> QED
    BY <2>1, FS_Subset DEF Table
<1> DEFINE fl == [i \in DOMAIN less |-> less[i].reserved]
           fm == [i \in DOMAIN more |-> more[i].reserved]
           gl == [i \in DOMAIN less |-> less[i].consumed]
           gm == [i \in DOMAIN more |-> more[i].consumed]
<1>2. \A i \in S : fm[i] = fl[i] /\ gm[i] = gl[i]
  BY DEF Extends
<1> HIDE DEF fl, fm, gl, gm
<1>3. SumFunctionOnSet(fm, S) = SumFunctionOnSet(fl, S)
      /\ SumFunctionOnSet(gm, S) = SumFunctionOnSet(gl, S)
  BY <1>1, <1>2, SumSame
<1> QED
  BY <1>3 DEF ReservedIn, ConsumedIn, fl, fm, gl, gm

LEMMA SumsGrow ==
  ASSUME NEW less, NEW more, Table(more), Extends(less, more), NEW S \in SUBSET DOMAIN less,
         NEW x \in DOMAIN more, x \notin DOMAIN less, NEW U, U = S \cup {x}
  PROVE  /\ ReservedIn(more, U) = ReservedIn(less, S) + more[x].reserved
         /\ ConsumedIn(more, U) = ConsumedIn(less, S) + more[x].consumed
<1>1. S \in SUBSET DOMAIN more /\ x \notin S
  BY DEF Extends
<1>2. IsFiniteSet(S)
  BY <1>1, FS_Subset DEF Table
<1> DEFINE f == [i \in DOMAIN more |-> more[i].reserved]
           g == [i \in DOMAIN more |-> more[i].consumed]
<1>3. \A i \in S \cup {x} : f[i] \in Int /\ g[i] \in Int
  BY <1>1 DEF Table
<1>4. f[x] = more[x].reserved /\ g[x] = more[x].consumed
  OBVIOUS
<1> HIDE DEF f, g
<1>5. SumFunctionOnSet(f, S \cup {x}) = f[x] + SumFunctionOnSet(f, S)
      /\ SumFunctionOnSet(g, S \cup {x}) = g[x] + SumFunctionOnSet(g, S)
  BY <1>1, <1>2, <1>3, SumMore
<1>6. SumFunctionOnSet(f, S) \in Int /\ SumFunctionOnSet(g, S) \in Int
  BY <1>2, <1>3, SumInt
<1>7. f[x] \in Int /\ g[x] \in Int
  BY <1>3
<1>8. SumFunctionOnSet(f, S \cup {x}) = SumFunctionOnSet(f, S) + f[x]
      /\ SumFunctionOnSet(g, S \cup {x}) = SumFunctionOnSet(g, S) + g[x]
  BY <1>5, <1>6, <1>7
<1>9. ReservedIn(more, S \cup {x}) = ReservedIn(more, S) + more[x].reserved
      /\ ConsumedIn(more, S \cup {x}) = ConsumedIn(more, S) + more[x].consumed
  BY <1>4, <1>8 DEF ReservedIn, ConsumedIn, f, g
<1> QED
  BY <1>9, SumsKept

LEMMA SumsLess ==
  ASSUME NEW e, Table(e), NEW S \in SUBSET DOMAIN e, NEW x \in S
  PROVE  ReservedIn(e, S \ {x}) = ReservedIn(e, S) - e[x].reserved
<1>1. IsFiniteSet(S)
  BY FS_Subset DEF Table
<1> DEFINE f == [i \in DOMAIN e |-> e[i].reserved]
<1>2. \A i \in S : f[i] \in Int
  BY DEF Table
<1>3. f[x] = e[x].reserved
  OBVIOUS
<1> HIDE DEF f
<1>4. SumFunctionOnSet(f, S) = f[x] + SumFunctionOnSet(f, S \ {x})
  BY <1>1, <1>2, SumRestInt
<1>5. IsFiniteSet(S \ {x}) /\ \A i \in S \ {x} : f[i] \in Int
  BY <1>1, <1>2, FS_Subset
<1>6. f[x] \in Int /\ SumFunctionOnSet(f, S \ {x}) \in Int
  BY <1>2, <1>5, SumInt
<1>7. SumFunctionOnSet(f, S \ {x}) = SumFunctionOnSet(f, S) - f[x]
  BY <1>4, <1>6
<1> QED
  BY <1>3, <1>7 DEF ReservedIn, f

LEMMA SumsOfNone == \A e : ReservedIn(e, {}) = 0 /\ ConsumedIn(e, {}) = 0
  BY SumEmpty DEF ReservedIn, ConsumedIn

(***************************************************************************)
(* How a credit is spread.                                                 *)
(***************************************************************************)
Ordered(s, first) == \A i, j \in DOMAIN s : i < j => first[s[i]] < first[s[j]]

LEMMA OrderExists ==
  ASSUME NEW S, IsFiniteSet(S), NEW first, \A p \in S : first[p] \in Nat,
         \A p, q \in S : first[p] = first[q] => p = q
  PROVE  \E s \in SetToSeqs(S) : Ordered(s, first)
<1> DEFINE G == {T \in SUBSET S : \E s \in SetToSeqs(T) : Ordered(s, first)}
<1>1. {} \in G
  <2>1. Cardinality({}) = 0
    BY FS_EmptySet
  <2>2. <<>> \in SetToSeqs({}) /\ Ordered(<<>>, first)
    BY <2>1 DEF SetToSeqs, Ordered
  <2> QED
    BY <2>2
<1>2. ASSUME NEW T \in SUBSET S, T # {}, \A x \in T : T \ {x} \in G
      PROVE  T \in G
  <2> DEFINE places == {first[p] : p \in T}
  <2>1. places \in SUBSET Nat /\ places # {}
    BY <1>2
  <2>2. PICK n \in places : \A m \in places : n <= m
    BY <2>1, LeastExists
  <2>3. PICK x \in T : n = first[x]
    BY <2>2
  <2>4. \A p \in T \ {x} : first[x] < first[p]
    <3> SUFFICES ASSUME NEW p \in T \ {x} PROVE first[x] < first[p]
      OBVIOUS
    <3>1. first[x] <= first[p] /\ first[x] # first[p]
      BY <2>2, <2>3
    <3> QED
      BY <3>1
  <2> DEFINE R == T \ {x}
             k == Cardinality(R)
  <2>5. PICK s \in SetToSeqs(R) : Ordered(s, first)
    BY <1>2
  <2>6. IsFiniteSet(T) /\ IsFiniteSet(R) /\ k \in Nat /\ Cardinality(T) = k + 1
    <3>1. IsFiniteSet(T) /\ IsFiniteSet(R)
      BY FS_Subset
    <3>2. Cardinality(R) = Cardinality(T) - 1 /\ Cardinality(R) \in Nat /\ Cardinality(T) \in Nat
      BY <3>1, FS_RemoveElement, FS_CardinalityType
    <3> QED
      BY <3>1, <3>2
  <2> HIDE DEF k
  <2>7. s \in [1..k -> R] /\ \A i, j \in 1..k : i # j => s[i] # s[j]
    BY <2>5 DEF SetToSeqs, k
  <2> DEFINE t == [i \in 1..(k + 1) |-> IF i = 1 THEN x ELSE s[i - 1]]
  <2>8. \A i \in 1..(k + 1) : i # 1 => i - 1 \in 1..k
    BY <2>6
  <2>9. t \in [1..(k + 1) -> T]
    BY <2>7, <2>8
  <2>10. \A i, j \in 1..(k + 1) : i # j => t[i] # t[j]
    <3> SUFFICES ASSUME NEW i \in 1..(k + 1), NEW j \in 1..(k + 1), i # j PROVE t[i] # t[j]
      OBVIOUS
    <3>1. CASE i = 1 \/ j = 1
      BY <2>7, <2>8, <3>1
    <3>2. CASE i # 1 /\ j # 1
      <4>1. i - 1 \in 1..k /\ j - 1 \in 1..k /\ i - 1 # j - 1
        BY <2>8, <3>2
      <4> QED
        BY <2>7, <3>2, <4>1
    <3> QED
      BY <3>1, <3>2
  <2>11. Ordered(t, first)
    <3> SUFFICES ASSUME NEW i \in 1..(k + 1), NEW j \in 1..(k + 1), i < j
                 PROVE  first[t[i]] < first[t[j]]
      BY DEF Ordered
    <3>1. j # 1 /\ j - 1 \in 1..k /\ t[j] = s[j - 1]
      BY <2>6, <2>8
    <3>2. CASE i = 1
      BY <2>4, <2>7, <3>1, <3>2
    <3>3. CASE i # 1
      <4>1. i - 1 \in 1..k /\ t[i] = s[i - 1] /\ i - 1 < j - 1
        BY <2>8, <3>3
      <4>2. DOMAIN s = 1..k
        BY <2>7
      <4> QED
        BY <2>5, <3>1, <4>1, <4>2 DEF Ordered
    <3> QED
      BY <3>2, <3>3
  <2> HIDE DEF t
  <2>12. t \in SetToSeqs(T)
    BY <2>6, <2>9, <2>10 DEF SetToSeqs
  <2> QED
    BY <2>11, <2>12
<1>3. S \in G
  <2> HIDE DEF G
  <2> QED
    BY <1>1, <1>2, SubsetInduction
<1> QED
  BY <1>3

LEMMA OrderOf ==
  ASSUME NEW S, IsFiniteSet(S), NEW first, \A p \in S : first[p] \in Nat,
         \A p, q \in S : first[p] = first[q] => p = q
  PROVE  \E n \in Nat : /\ InOrderOf(S, first) \in [1..n -> S]
                        /\ \A i, j \in 1..n : i # j => InOrderOf(S, first)[i] # InOrderOf(S, first)[j]
<1>1. \E s \in SetToSeqs(S) : \A i, j \in DOMAIN s : i < j => first[s[i]] < first[s[j]]
  BY OrderExists DEF Ordered
<1>2. InOrderOf(S, first) \in SetToSeqs(S)
  BY <1>1 DEF InOrderOf
<1>3. Cardinality(S) \in Nat
  BY FS_CardinalityType
<1> QED
  BY <1>2, <1>3 DEF SetToSeqs

\* What the portions of a credit promise, whatever the allocations are.
Portions(P, S, allocated) ==
  \E n \in Nat :
    /\ P \in [1..n -> [plan : S, amount : Nat]]
    /\ \A i \in 1..n : P[i].amount <= allocated[P[i].plan]
    /\ \A i, j \in 1..n : P[i].plan = P[j].plan => i = j

LEMMA PortionsSeq ==
  ASSUME NEW P, NEW S, NEW allocated, Portions(P, S, allocated)
  PROVE  /\ P \in Seq([plan : S, amount : Nat])
         /\ Len(P) \in Nat /\ DOMAIN P = 1..Len(P)
         /\ \A i \in DOMAIN P : P[i].plan \in S /\ P[i].amount \in Nat
                               /\ P[i].amount <= allocated[P[i].plan]
         /\ \A i, j \in DOMAIN P : P[i].plan = P[j].plan => i = j
<1>1. PICK n \in Nat : /\ P \in [1..n -> [plan : S, amount : Nat]]
                       /\ \A i \in 1..n : P[i].amount <= allocated[P[i].plan]
                       /\ \A i, j \in 1..n : P[i].plan = P[j].plan => i = j
  BY DEF Portions
<1>2. P \in Seq([plan : S, amount : Nat])
  <2> DEFINE R == [plan : S, amount : Nat]
  <2>1. P \in [1..n -> R]
    BY <1>1
  <2> HIDE DEF R
  <2>2. P \in Seq(R)
    BY <2>1
  <2> QED
    BY <2>2 DEF R
<1>3. Len(P) \in Nat /\ DOMAIN P = 1..Len(P) /\ DOMAIN P = 1..n
  BY <1>1, <1>2, LenProperties
<1> QED
  BY <1>1, <1>2, <1>3

LEMMA SpreadPortions ==
  ASSUME NEW S, NEW n \in Nat, NEW s \in [1..n -> S], \A i, j \in 1..n : i # j => s[i] # s[j],
         NEW allocated, \A p \in S : allocated[p] \in Nat, NEW credit \in Nat
  PROVE  Portions(Spread(s, allocated, credit), S, allocated)
<1> DEFINE UpTo(m) == SumFunctionOnSet([i \in DOMAIN s |-> allocated[s[i]]], 1..m)
           amount(i) == Smaller(allocated[s[i]], credit - UpTo(i - 1))
           enough == {m \in DOMAIN s : UpTo(m) >= credit}
           P == Spread(s, allocated, credit)
<1>1. P = IF enough = {} THEN <<>>
          ELSE [i \in 1..Min(enough) |-> [plan |-> s[i], amount |-> amount(i)]]
  BY DEF Spread
<1>2. CASE enough = {}
  <2>1. P = <<>>
    BY <1>1, <1>2
  <2>2. P \in [1..0 -> [plan : S, amount : Nat]]
    BY <2>1
  <2> HIDE DEF P
  <2>3. /\ \A i \in 1..0 : P[i].amount <= allocated[P[i].plan]
        /\ \A i, j \in 1..0 : P[i].plan = P[j].plan => i = j
    OBVIOUS
  <2> QED
    BY <2>2, <2>3 DEF Portions, P
<1>3. CASE enough # {}
  <2>1. enough \in SUBSET Nat
    OBVIOUS
  <2> DEFINE m == Min(enough)
  <2>2. m \in enough /\ \A i \in enough : m <= i
    BY <1>3, <2>1, MinIsLeast
  <2>3. m \in 1..n
    BY <2>2
  <2>4. \A i \in 0..n : UpTo(i) \in Nat
    <3> SUFFICES ASSUME NEW i \in 0..n PROVE UpTo(i) \in Nat
      OBVIOUS
    <3> DEFINE f == [j \in DOMAIN s |-> allocated[s[j]]]
    <3>1. \A j \in 1..i : f[j] \in Nat
      OBVIOUS
    <3>2. IsFiniteSet(1..i)
      BY FS_Interval
    <3> HIDE DEF f
    <3>3. SumFunctionOnSet(f, 1..i) \in Nat
      BY <3>1, <3>2, SumNat
    <3> QED
      BY <3>3 DEF f
  <2>5. UpTo(0) = 0
    <3>1. 1..0 = {}
      OBVIOUS
    <3> QED
      BY <3>1, SumEmpty
  <2> HIDE DEF UpTo
  <2>6. ASSUME NEW i \in 1..m
        PROVE  amount(i) \in Nat /\ amount(i) <= allocated[s[i]]
    <3>1. i - 1 \in 0..n /\ i \in 1..n /\ i - 1 < m
      BY <2>3
    <3>2. UpTo(i - 1) <= credit
      <4>1. CASE i = 1
        BY <2>5, <4>1
      <4>2. CASE i # 1
        <5>1. i - 1 \in DOMAIN s
          BY <3>1, <4>2
        <5>2. i - 1 \notin enough
          BY <2>2, <2>3, <3>1
        <5>3. UpTo(i - 1) \in Nat
          BY <2>4, <3>1
        <5> QED
          BY <5>1, <5>2, <5>3
      <4> QED
        BY <4>1, <4>2
    <3>3. allocated[s[i]] \in Nat /\ UpTo(i - 1) \in Nat
      BY <2>4, <3>1
    <3> QED
      BY <3>2, <3>3 DEF Smaller
  <2>7. P = [i \in 1..m |-> [plan |-> s[i], amount |-> amount(i)]]
    BY <1>1, <1>3
  <2> HIDE DEF P, amount, m, enough
  <2>8. \A i \in 1..m : /\ P[i] = [plan |-> s[i], amount |-> amount(i)]
                        /\ P[i].plan = s[i] /\ P[i].amount = amount(i) /\ s[i] \in S
    BY <2>3, <2>7
  <2>9. P \in [1..m -> [plan : S, amount : Nat]]
    BY <2>6, <2>7, <2>8
  <2>10. \A i \in 1..m : P[i].amount <= allocated[P[i].plan]
    <3> SUFFICES ASSUME NEW i \in 1..m PROVE P[i].amount <= allocated[P[i].plan]
      OBVIOUS
    <3> QED
      BY <2>6, <2>8
  <2>11. \A i, j \in 1..m : P[i].plan = P[j].plan => i = j
    <3> SUFFICES ASSUME NEW i \in 1..m, NEW j \in 1..m, P[i].plan = P[j].plan PROVE i = j
      OBVIOUS
    <3>1. i \in 1..n /\ j \in 1..n
      BY <2>3
    <3>2. P[i].plan = s[i]
      BY <2>8
    <3>3. P[j].plan = s[j]
      BY <2>8
    <3> QED
      BY <3>1, <3>2, <3>3
  <2>12. m \in Nat
    BY <2>3
  <2> QED
    BY <2>9, <2>10, <2>11, <2>12 DEF Portions, P
<1> QED
  BY <1>2, <1>3

(***************************************************************************)
(* The inductive invariant.                                                *)
(***************************************************************************)
\* The entries that close a hold; a reservation is open until there is one.
Closers(h) == {i \in DOMAIN entries : entries[i].hold = h}

IsReservation(i) == entries[i].kind = "reservation"

OpenOf(p) == {i \in OfPlan(p) : IsReservation(i) /\ Closers(i) = {}}

\* What an entry says of itself and of the reservation it closes.
ReservationSound(e) ==
  e.kind = "reservation" =>
    /\ e.hold = 0 /\ e.auth = None /\ e.reserved \in Nat \ {0} /\ e.consumed = 0

CloserSound(e, table) ==
  e.hold # 0 =>
    /\ e.hold \in DOMAIN table /\ table[e.hold].kind = "reservation"
    /\ e.plan = table[e.hold].plan
    /\ e.reserved = - table[e.hold].reserved
    /\ e.auth = None /\ e.consumed \in Nat

OthersSound(e) ==
  e.kind \in {"adjustment", "credit"} => e.hold = 0 /\ e.reserved = 0

EntrySound(e, table, versions) ==
  /\ e.plan \in DOMAIN versions
  /\ ReservationSound(e) /\ CloserSound(e, table) /\ OthersSound(e)
  /\ e.kind \in {"settlement", "release"} <=> e.hold # 0

EntriesSound == \A i \in DOMAIN entries : EntrySound(entries[i], entries, plans)

ClosedOnce ==
  \A i, j \in DOMAIN entries : entries[i].hold = entries[j].hold /\ entries[i].hold # 0 => i = j

\* What a plan holds is what its open reservations hold.
HoldsAccounted == \A p \in DOMAIN plans : Reserved(p) = SumReserved(OpenOf(p))

WithinQuota ==
  \A p \in DOMAIN plans : Consumed(p) >= 0 /\ Reserved(p) + Consumed(p) <= plans[p].quota

InvoiceOf(inv) == {i \in DOMAIN entries : entries[i].invoice = inv}

LineOf(inv, p) == InvoiceOf(inv) \cap OfPlan(p)

LinesCovered ==
  \A inv \in Invoices, p \in DOMAIN plans : SumConsumed(LineOf(inv, p)) >= 0

AuthsMatched == \A k \in Finance : AuthorizationMatches(k)

AuthsSound ==
  \A k \in Finance :
    /\ auths[k].root <= Len(entries)
    /\ auths[k].delta = 0 => auths[k].root = 0

\* The reservation of a run is its own: no client and no other run closes it.
RunsSound ==
  \A r \in Runs :
    /\ jobs[r].hold = 0 <=> jobs[r].status = "none"
    /\ jobs[r].status = "pending" => jobs[r].attempts < MaxAttempts
    /\ jobs[r].status \in {"none", "admitted"} => jobs[r].attempts = 0
    /\ jobs[r].hold # 0 =>
         /\ jobs[r].hold \in DOMAIN entries /\ IsReservation(jobs[r].hold)
         /\ entries[jobs[r].hold].key = None
         /\ \A s \in Runs : jobs[s].hold = jobs[r].hold => s = r
         /\ Charges(r) # {} <=> jobs[r].status = "done"

LedgerInv ==
  /\ LedgerTypeOK /\ EntriesSound /\ ClosedOnce /\ HoldsAccounted /\ WithinQuota
  /\ LinesCovered /\ AuthsSound /\ AuthsMatched

\* A release is owed only for a run that was admitted.
OwedSound == \A o \in owed : jobs[o.run].status # "none"

IInv == LedgerInv /\ TypeOK /\ RunsSound /\ OwedSound

(***************************************************************************)
(* Reading the ledger.                                                     *)
(***************************************************************************)
LEMMA EntriesTable ==
  ASSUME LedgerTypeOK
  PROVE  /\ Len(entries) \in Nat /\ DOMAIN entries = 1..Len(entries)
         /\ \A i \in DOMAIN entries : entries[i] \in Records
         /\ Table(entries)
         /\ Len(plans) \in Nat /\ DOMAIN plans = 1..Len(plans) /\ DOMAIN plans \subseteq Versions
         /\ \A p \in DOMAIN plans : plans[p].quota \in Quotas /\ plans[p].quota \in Nat
<1>1. entries \in Seq(Records) /\ plans \in Seq([quota : Quotas, phase : Phases]) /\ Len(plans) <= MaxPlans
  BY DEF LedgerTypeOK
<1>2. Len(entries) \in Nat /\ DOMAIN entries = 1..Len(entries)
      /\ \A i \in DOMAIN entries : entries[i] \in Records
  BY <1>1
<1>3. Len(plans) \in Nat /\ DOMAIN plans = 1..Len(plans)
      /\ \A p \in DOMAIN plans : plans[p] \in [quota : Quotas, phase : Phases]
  BY <1>1, LenProperties, ElementOfSeq
<1>4. MaxPlans \in Nat /\ Quotas \subseteq Nat
  BY AmountsAssumption
<1>5. DOMAIN plans \subseteq Versions
  BY <1>1, <1>3, <1>4 DEF Versions
<1>6. IsFiniteSet(1..Len(entries))
  BY <1>2, FS_Interval
<1>7. Table(entries)
  BY <1>2, <1>6 DEF Table, Records
<1> QED
  BY <1>2, <1>3, <1>4, <1>5, <1>7

LEMMA SumsRead ==
  /\ \A S : SumReserved(S) = ReservedIn(entries, S) /\ SumConsumed(S) = ConsumedIn(entries, S)
  BY DEF SumReserved, SumConsumed, ReservedIn, ConsumedIn

LEMMA BalancesTyped ==
  ASSUME LedgerTypeOK, NEW p
  PROVE  Reserved(p) \in Int /\ Consumed(p) \in Int
<1>1. OfPlan(p) \in SUBSET DOMAIN entries
  BY DEF OfPlan
<1> QED
  BY <1>1, EntriesTable, SumsTyped, SumsRead DEF Reserved, Consumed

\* Whatever is open on a plan is at least as much as any one open hold.
LEMMA OpenHolds ==
  ASSUME LedgerTypeOK, EntriesSound, NEW p
  PROVE  /\ SumReserved(OpenOf(p)) \in Nat
         /\ \A h \in OpenOf(p) : entries[h].reserved \in Nat \ {0}
                                 /\ entries[h].reserved <= SumReserved(OpenOf(p))
<1>1. OpenOf(p) \in SUBSET DOMAIN entries
  BY DEF OpenOf, OfPlan
<1>2. \A h \in OpenOf(p) : entries[h].reserved \in Nat \ {0}
  BY <1>1 DEF OpenOf, IsReservation, EntriesSound, EntrySound, ReservationSound
<1>3. IsFiniteSet(OpenOf(p))
  BY <1>1, EntriesTable, FS_Subset DEF Table
<1> DEFINE f == [i \in DOMAIN entries |-> entries[i].reserved]
<1>4. \A h \in OpenOf(p) : f[h] \in Nat /\ f[h] = entries[h].reserved
  BY <1>1, <1>2
<1>5. SumReserved(OpenOf(p)) = SumFunctionOnSet(f, OpenOf(p))
  BY DEF SumReserved
<1> HIDE DEF f
<1>6. SumFunctionOnSet(f, OpenOf(p)) \in Nat
  BY <1>3, <1>4, SumNat
<1>7. ASSUME NEW h \in OpenOf(p)
      PROVE  f[h] <= SumFunctionOnSet(f, OpenOf(p))
  <2>1. SumFunctionOnSet(f, OpenOf(p)) = f[h] + SumFunctionOnSet(f, OpenOf(p) \ {h})
    BY <1>3, <1>4, SumRest
  <2>2. IsFiniteSet(OpenOf(p) \ {h})
    BY <1>3, FS_Subset
  <2>3. SumFunctionOnSet(f, OpenOf(p) \ {h}) \in Nat
    BY <1>4, <2>2, SumNat
  <2> QED
    BY <1>4, <2>1, <2>3
<1> QED
  BY <1>2, <1>4, <1>5, <1>6, <1>7

\* A hold is closed as a whole, once.
LEMMA OutstandingOf ==
  ASSUME LedgerTypeOK, EntriesSound, ClosedOnce, NEW h \in DOMAIN entries, IsReservation(h)
  PROVE  Outstanding(h) = IF Closers(h) = {} THEN entries[h].reserved ELSE 0
<1>1. Table(entries) /\ h \in Nat \ {0} /\ entries[h].reserved \in Int
  BY EntriesTable DEF Table
<1>2. entries[h].hold = 0
  BY DEF EntriesSound, EntrySound, ReservationSound, IsReservation
<1>3. OfHold(h) = {h} \cup Closers(h)
  BY DEF OfHold, Closers
<1>4. ReservedIn(entries, {h}) = entries[h].reserved
  <2>1. {h} \in SUBSET DOMAIN entries /\ {h} \ {h} = {}
    OBVIOUS
  <2>2. ReservedIn(entries, {h} \ {h}) = ReservedIn(entries, {h}) - entries[h].reserved
    BY <1>1, <2>1, SumsLess
  <2>3. ReservedIn(entries, {h}) \in Int
    BY <1>1, <2>1, SumsTyped
  <2> QED
    BY <1>1, <2>1, <2>2, <2>3, SumsOfNone
<1>5. CASE Closers(h) = {}
  BY <1>3, <1>4, <1>5, SumsRead DEF Outstanding
<1>6. CASE Closers(h) # {}
  <2>1. PICK c \in Closers(h) : TRUE
    BY <1>6
  <2>2. Closers(h) = {c}
    BY <1>1, <2>1 DEF Closers, ClosedOnce
  <2>3. c \in DOMAIN entries /\ c # h /\ entries[c].reserved = - entries[h].reserved
    BY <1>1, <1>2, <2>1 DEF Closers, EntriesSound, EntrySound, CloserSound
  <2>4. {h, c} \in SUBSET DOMAIN entries /\ {h, c} \ {c} = {h} /\ OfHold(h) = {h, c}
    BY <1>3, <2>2, <2>3
  <2>5. ReservedIn(entries, {h, c} \ {c}) = ReservedIn(entries, {h, c}) - entries[c].reserved
    BY <1>1, <2>4, SumsLess
  <2>6. ReservedIn(entries, {h, c}) \in Int
    BY <1>1, <2>4, SumsTyped
  <2>7. ReservedIn(entries, {h, c}) = 0
    BY <1>1, <1>4, <2>3, <2>4, <2>5, <2>6
  <2> QED
    BY <1>6, <2>4, <2>7, SumsRead DEF Outstanding
<1> QED
  BY <1>5, <1>6

\* The allocations of an invoice, and hence the portions of a credit.
LEMMA AllocationsTyped ==
  ASSUME LedgerTypeOK, NEW inv, NEW before
  PROVE  /\ IsFiniteSet(Charged(inv, before))
         /\ \A p \in Charged(inv, before) :
              /\ Allocated(inv, p, before) \in Nat
              /\ FirstNamed(inv, before)[p] \in InvoiceLine(inv, p, before)
              /\ FirstNamed(inv, before)[p] \in Nat
<1>1. IsFiniteSet(Charged(inv, before))
  <2>1. IsFiniteSet(1..Len(plans))
    BY EntriesTable, FS_Interval
  <2>2. Charged(inv, before) \subseteq 1..Len(plans)
    BY EntriesTable DEF Charged
  <2> QED
    BY <2>1, <2>2, FS_Subset
<1>2. ASSUME NEW p \in Charged(inv, before)
      PROVE  /\ Allocated(inv, p, before) \in Nat
             /\ FirstNamed(inv, before)[p] \in InvoiceLine(inv, p, before)
             /\ FirstNamed(inv, before)[p] \in Nat
  <2> DEFINE line == InvoiceLine(inv, p, before)
  <2>1. line \in SUBSET DOMAIN entries /\ line \in SUBSET Nat
    BY EntriesTable DEF InvoiceLine
  <2>2. Allocated(inv, p, before) = ConsumedIn(entries, line)
    BY SumsRead DEF Allocated
  <2>3. Allocated(inv, p, before) \in Int /\ Allocated(inv, p, before) > 0
    BY <2>1, <2>2, EntriesTable, SumsTyped DEF Charged
  <2>4. line # {}
    BY <2>2, <2>3, SumsOfNone
  <2>5. Min(line) \in line
    BY <2>1, <2>4, MinIsLeast
  <2>6. FirstNamed(inv, before)[p] = Min(line)
    BY DEF FirstNamed
  <2> QED
    BY <2>1, <2>3, <2>5, <2>6
<1> QED
  BY <1>1, <1>2

LEMMA CreditPortionsOf ==
  ASSUME LedgerTypeOK, NEW inv, NEW before, NEW credit \in Nat
  PROVE  Portions(CreditPortions(inv, credit, before), Charged(inv, before),
                  [p \in Charged(inv, before) |-> Allocated(inv, p, before)])
<1> DEFINE S == Charged(inv, before)
           first == FirstNamed(inv, before)
           allocated == [p \in S |-> Allocated(inv, p, before)]
<1>1. \A p, q \in S : first[p] = first[q] => p = q
  BY AllocationsTyped DEF InvoiceLine
<1>2. PICK n \in Nat : /\ InOrderOf(S, first) \in [1..n -> S]
                       /\ \A i, j \in 1..n : i # j => InOrderOf(S, first)[i] # InOrderOf(S, first)[j]
  <2> HIDE DEF S, first
  <2>1. IsFiniteSet(S) /\ \A p \in S : first[p] \in Nat
    BY AllocationsTyped DEF S, first
  <2> QED
    BY <1>1, <2>1, OrderOf
<1>3. \A p \in S : allocated[p] \in Nat
  BY AllocationsTyped
<1>4. CreditPortions(inv, credit, before) = Spread(InOrderOf(S, first), allocated, credit)
  BY DEF CreditPortions, InvoiceAllocations
<1> HIDE DEF S, first, allocated
<1>5. Portions(Spread(InOrderOf(S, first), allocated, credit), S, allocated)
  BY <1>2, <1>3, SpreadPortions
<1> QED
  BY <1>4, <1>5 DEF S, allocated

(***************************************************************************)
(* Writing the ledger: entries are only ever appended.                     *)
(***************************************************************************)
PlansDiffer(new) == \A i, j \in DOMAIN new : new[i].plan = new[j].plan => i = j

At(j) == Len(entries) + j

\* What appending new does to the table of entries.
Adds(new) ==
  /\ Extends(entries, entries') /\ Table(entries') /\ entries' \in Seq(Records)
  /\ Len(entries') = Len(entries) + Len(new) /\ Len(new) \in Nat /\ DOMAIN new = 1..Len(new)
  /\ DOMAIN entries' = DOMAIN entries \cup {At(j) : j \in DOMAIN new}
  /\ \A j \in DOMAIN new : At(j) \notin DOMAIN entries /\ entries'[At(j)] = new[j]
  /\ \A i, j \in DOMAIN new : At(i) = At(j) => i = j

LEMMA Appended ==
  ASSUME LedgerTypeOK, NEW new \in Seq(Records), entries' = entries \o new
  PROVE  Adds(new)
<1>1. entries \in Seq(Records)
  BY DEF LedgerTypeOK
<1>2. /\ entries' \in Seq(Records)
      /\ Len(entries') = Len(entries) + Len(new) /\ Len(new) \in Nat /\ Len(entries) \in Nat
      /\ DOMAIN new = 1..Len(new) /\ DOMAIN entries = 1..Len(entries)
      /\ DOMAIN entries' = 1..(Len(entries) + Len(new))
      /\ \A i \in 1..(Len(entries) + Len(new)) :
           entries'[i] = IF i <= Len(entries) THEN entries[i] ELSE new[i - Len(entries)]
  BY <1>1, ConcatProperties, LenProperties
<1>3. Extends(entries, entries')
  BY <1>2 DEF Extends
<1>4. Table(entries')
  <2>1. IsFiniteSet(DOMAIN entries')
    BY <1>2, FS_Interval
  <2>2. \A i \in DOMAIN entries' : entries'[i] \in Records
    BY <1>2, ElementOfSeq
  <2> QED
    BY <2>1, <2>2 DEF Table, Records
<1>5. DOMAIN entries' = DOMAIN entries \cup {At(j) : j \in DOMAIN new}
  <2>1. ASSUME NEW i \in DOMAIN entries', i \notin DOMAIN entries
        PROVE  i - Len(entries) \in DOMAIN new /\ i = At(i - Len(entries))
    BY <1>2, <2>1 DEF At
  <2>2. \A j \in DOMAIN new : At(j) \in DOMAIN entries'
    BY <1>2 DEF At
  <2>3. DOMAIN entries \subseteq DOMAIN entries'
    BY <1>2
  <2> QED
    BY <2>1, <2>2, <2>3
<1>6. ASSUME NEW j \in DOMAIN new
      PROVE  At(j) \notin DOMAIN entries /\ entries'[At(j)] = new[j]
  BY <1>2 DEF At
<1>7. \A i, j \in DOMAIN new : At(i) = At(j) => i = j
  BY <1>2 DEF At
<1> QED
  BY <1>2, <1>3, <1>4, <1>5, <1>6, <1>7 DEF Adds

\* The balances and invoice lines of a plan change by what is entered for it.
LEMMA PlanUntouched ==
  ASSUME LedgerTypeOK, NEW new, Adds(new), NEW p, \A j \in DOMAIN new : new[j].plan # p
  PROVE  /\ OfPlan(p)' = OfPlan(p) /\ Reserved(p)' = Reserved(p) /\ Consumed(p)' = Consumed(p)
         /\ \A inv : SumConsumed(LineOf(inv, p))' = SumConsumed(LineOf(inv, p))
<1>1. /\ Extends(entries, entries') /\ Table(entries')
      /\ DOMAIN entries' = DOMAIN entries \cup {At(j) : j \in DOMAIN new}
      /\ \A j \in DOMAIN new : entries'[At(j)] = new[j]
  BY DEF Adds
<1>2. OfPlan(p)' = OfPlan(p) /\ OfPlan(p) \in SUBSET DOMAIN entries
  BY <1>1 DEF OfPlan, Extends
<1>3. Reserved(p)' = ReservedIn(entries', OfPlan(p)') /\ Consumed(p)' = ConsumedIn(entries', OfPlan(p)')
  BY DEF Reserved, Consumed, SumReserved, SumConsumed, ReservedIn, ConsumedIn
<1>4. Reserved(p)' = Reserved(p) /\ Consumed(p)' = Consumed(p)
  BY <1>1, <1>2, <1>3, SumsKept, SumsRead DEF Reserved, Consumed
<1>5. ASSUME NEW inv
      PROVE  SumConsumed(LineOf(inv, p))' = SumConsumed(LineOf(inv, p))
  <2>1. LineOf(inv, p)' = LineOf(inv, p) /\ LineOf(inv, p) \in SUBSET DOMAIN entries
    BY <1>1, <1>2 DEF LineOf, InvoiceOf, OfPlan, Extends
  <2>2. SumConsumed(LineOf(inv, p))' = ConsumedIn(entries', LineOf(inv, p)')
    BY DEF SumConsumed, ConsumedIn
  <2> QED
    BY <1>1, <2>1, <2>2, SumsKept, SumsRead
<1> QED
  BY <1>2, <1>4, <1>5

LEMMA PlanEntered ==
  ASSUME LedgerTypeOK, NEW new, Adds(new), PlansDiffer(new), NEW j \in DOMAIN new
  PROVE  LET p == new[j].plan IN
         /\ OfPlan(p)' = OfPlan(p) \cup {At(j)}
         /\ Reserved(p)' = Reserved(p) + new[j].reserved
         /\ Consumed(p)' = Consumed(p) + new[j].consumed
         /\ \A inv : SumConsumed(LineOf(inv, p))'
                       = SumConsumed(LineOf(inv, p)) + (IF new[j].invoice = inv THEN new[j].consumed ELSE 0)
<1> DEFINE p == new[j].plan
<1>1. /\ Extends(entries, entries') /\ Table(entries')
      /\ DOMAIN entries' = DOMAIN entries \cup {At(i) : i \in DOMAIN new}
      /\ \A i \in DOMAIN new : At(i) \notin DOMAIN entries /\ entries'[At(i)] = new[i]
  BY DEF Adds
<1>2. OfPlan(p)' = OfPlan(p) \cup {At(j)} /\ OfPlan(p) \in SUBSET DOMAIN entries
  BY <1>1 DEF OfPlan, Extends, PlansDiffer
<1>3. At(j) \in DOMAIN entries' /\ At(j) \notin DOMAIN entries /\ entries'[At(j)] = new[j]
  BY <1>1
<1>4. Reserved(p)' = ReservedIn(entries', OfPlan(p)') /\ Consumed(p)' = ConsumedIn(entries', OfPlan(p)')
  BY DEF Reserved, Consumed, SumReserved, SumConsumed, ReservedIn, ConsumedIn
<1>5. Reserved(p)' = Reserved(p) + new[j].reserved /\ Consumed(p)' = Consumed(p) + new[j].consumed
  <2> DEFINE S == OfPlan(p)
             x == At(j)
  <2>1. S \in SUBSET DOMAIN entries /\ x \in DOMAIN entries' /\ x \notin DOMAIN entries
    BY <1>2, <1>3
  <2> HIDE DEF S, x
  <2>2. /\ ReservedIn(entries', S \cup {x}) = ReservedIn(entries, S) + entries'[x].reserved
        /\ ConsumedIn(entries', S \cup {x}) = ConsumedIn(entries, S) + entries'[x].consumed
    <3> DEFINE U == S \cup {x}
    <3>1. Extends(entries, entries') /\ Table(entries') /\ U = S \cup {x}
      BY <1>1
    <3> HIDE DEF U
    <3>2. /\ ReservedIn(entries', U) = ReservedIn(entries, S) + entries'[x].reserved
          /\ ConsumedIn(entries', U) = ConsumedIn(entries, S) + entries'[x].consumed
      BY <2>1, <3>1, SumsGrow
    <3> QED
      BY <3>2 DEF U
  <2> QED
    BY <1>2, <1>3, <1>4, <2>2, SumsRead DEF Reserved, Consumed, S, x
<1>6. ASSUME NEW inv
      PROVE  SumConsumed(LineOf(inv, p))'
               = SumConsumed(LineOf(inv, p)) + (IF new[j].invoice = inv THEN new[j].consumed ELSE 0)
  <2>1. LineOf(inv, p) \in SUBSET DOMAIN entries
    BY <1>2 DEF LineOf
  <2>2. SumConsumed(LineOf(inv, p))' = ConsumedIn(entries', LineOf(inv, p)')
    BY DEF SumConsumed, ConsumedIn
  <2>3. LineOf(inv, p)' = LineOf(inv, p) \cup (IF new[j].invoice = inv THEN {At(j)} ELSE {})
    BY <1>1, <1>2, <1>3 DEF LineOf, InvoiceOf, OfPlan, Extends
  <2>4. CASE new[j].invoice = inv
    <3> DEFINE S == LineOf(inv, p)
               x == At(j)
    <3>1. S \in SUBSET DOMAIN entries /\ x \in DOMAIN entries' /\ x \notin DOMAIN entries
      BY <1>3, <2>1
    <3> HIDE DEF S, x
    <3>2. ConsumedIn(entries', S \cup {x}) = ConsumedIn(entries, S) + entries'[x].consumed
      <4> DEFINE U == S \cup {x}
      <4>1. Extends(entries, entries') /\ Table(entries') /\ U = S \cup {x}
        BY <1>1
      <4> HIDE DEF U
      <4>2. ConsumedIn(entries', U) = ConsumedIn(entries, S) + entries'[x].consumed
        BY <3>1, <4>1, SumsGrow
      <4> QED
        BY <4>2 DEF U
    <3> QED
      BY <1>3, <2>2, <2>3, <2>4, <3>2, SumsRead DEF S, x
  <2>5. CASE new[j].invoice # inv
    <3>1. SumConsumed(LineOf(inv, p))' = SumConsumed(LineOf(inv, p))
      BY <1>1, <2>1, <2>2, <2>3, <2>5, SumsKept, SumsRead
    <3>2. SumConsumed(LineOf(inv, p)) \in Int
      BY <2>1, EntriesTable, SumsTyped, SumsRead
    <3> QED
      BY <2>5, <3>1, <3>2
  <2> QED
    BY <2>4, <2>5
<1> QED
  BY <1>2, <1>5, <1>6

\* What is entered later leaves the split of a credit as it was.
LEMMA PortionsKept ==
  ASSUME LedgerTypeOK, EntriesSound, Extends(entries, entries'), Table(entries'),
         DOMAIN plans \subseteq DOMAIN plans', NEW inv, NEW credit, NEW before,
         \A i \in DOMAIN entries' : i < before => i \in DOMAIN entries
  PROVE  CreditPortions(inv, credit, before)' = CreditPortions(inv, credit, before)
<1>1. \A p : /\ InvoiceLine(inv, p, before)' = InvoiceLine(inv, p, before)
             /\ InvoiceLine(inv, p, before) \in SUBSET DOMAIN entries
  BY DEF InvoiceLine, Extends
<1>2. ASSUME NEW p
      PROVE  Allocated(inv, p, before)' = Allocated(inv, p, before)
  <2>1. /\ Allocated(inv, p, before) = ConsumedIn(entries, InvoiceLine(inv, p, before))
        /\ Allocated(inv, p, before)' = ConsumedIn(entries', InvoiceLine(inv, p, before)')
    BY DEF Allocated, SumConsumed, ConsumedIn
  <2> QED
    BY <1>1, <2>1, SumsKept
<1>3. Charged(inv, before)' = Charged(inv, before)
  <2>1. ASSUME NEW p, p \notin DOMAIN plans
        PROVE  Allocated(inv, p, before) = 0
    <3>1. InvoiceLine(inv, p, before) = {}
      BY <2>1 DEF InvoiceLine, EntriesSound, EntrySound
    <3> QED
      BY <3>1, SumsOfNone, SumsRead DEF Allocated
  <2>2. Charged(inv, before)' = {p \in DOMAIN plans' : Allocated(inv, p, before)' > 0}
    BY DEF Charged
  <2>3. Charged(inv, before)' = {p \in DOMAIN plans' : Allocated(inv, p, before) > 0}
    BY <1>2, <2>2
  <2>4. ~(0 > 0)
    OBVIOUS
  <2> QED
    BY <2>1, <2>3, <2>4 DEF Charged
<1>4. FirstNamed(inv, before)' = FirstNamed(inv, before)
  <2>1. FirstNamed(inv, before)'
          = [p \in Charged(inv, before)' |-> Min(InvoiceLine(inv, p, before)')]
    BY DEF FirstNamed
  <2> QED
    BY <1>1, <1>3, <2>1 DEF FirstNamed
<1>5. CreditPortions(inv, credit, before)'
        = Spread(InOrderOf(Charged(inv, before)', FirstNamed(inv, before)'),
                 [p \in Charged(inv, before)' |-> Allocated(inv, p, before)'], credit)
  BY DEF CreditPortions, InvoiceAllocations
<1>6. [p \in Charged(inv, before)' |-> Allocated(inv, p, before)']
        = [p \in Charged(inv, before) |-> Allocated(inv, p, before)]
  BY <1>2, <1>3
<1> QED
  BY <1>3, <1>4, <1>5, <1>6 DEF CreditPortions, InvoiceAllocations

\* An authorization whose own entries are not added to is matched as before.
LEMMA MatchKept ==
  ASSUME LedgerTypeOK, EntriesSound, Extends(entries, entries'), Table(entries'),
         DOMAIN plans \subseteq DOMAIN plans', NEW k \in Finance,
         DOMAIN entries' \subseteq Nat,
         \A i \in DOMAIN entries' : i <= Len(entries) => i \in DOMAIN entries,
         \A i \in DOMAIN entries' : i \notin DOMAIN entries => entries'[i].auth # k,
         auths'[k].root = auths[k].root, auths'[k].delta = auths[k].delta,
         auths'[k].invoice = auths[k].invoice, auths[k].root <= Len(entries),
         auths[k].root \in Nat, auths[k].delta \in Int,
         AuthorizationMatches(k)
  PROVE  AuthorizationMatches(k)'
<1> DEFINE a == auths[k]
           own == {i \in DOMAIN entries : entries[i].auth = k}
           portions == CreditPortions(a.invoice, - a.delta, a.root)
<1>1. own' = own
  BY DEF Extends
<1>2. portions' = portions
  <2>1. CreditPortions(a.invoice, - a.delta, a.root)' = CreditPortions(auths[k].invoice, - auths[k].delta, auths[k].root)'
    OBVIOUS
  <2>2. ASSUME NEW i \in DOMAIN entries', i < auths[k].root
        PROVE  i \in DOMAIN entries
    <3>1. i \in Nat /\ Len(entries) \in Nat
      BY EntriesTable
    <3>2. i <= Len(entries)
      BY <2>2, <3>1
    <3> QED
      BY <3>2
  <2>3. \A inv, credit, before :
          (\A i \in DOMAIN entries' : i < before => i \in DOMAIN entries) =>
            CreditPortions(inv, credit, before)' = CreditPortions(inv, credit, before)
    BY PortionsKept
  <2> QED
    BY <2>2, <2>3
<1>3. \A i \in own : entries'[i] = entries[i]
  BY DEF Extends
<1>4. CASE a.root = 0
  <2>1. own = {}
    BY <1>4 DEF AuthorizationMatches
  <2> QED
    BY <1>1, <1>4, <2>1 DEF AuthorizationMatches
<1>5. CASE a.root # 0 /\ a.delta > 0
  <2>1. own = {a.root} /\ entries[a.root].consumed = a.delta
    BY <1>5 DEF AuthorizationMatches
  <2> QED
    BY <1>1, <1>3, <1>5, <2>1 DEF AuthorizationMatches
<1>6. CASE a.root # 0 /\ ~(a.delta > 0)
  <2>1. Portions(portions, Charged(a.invoice, a.root),
                 [p \in Charged(a.invoice, a.root) |-> Allocated(a.invoice, p, a.root)])
    <3>1. - a.delta \in Nat
      BY <1>6
    <3> QED
      BY <3>1, CreditPortionsOf
  <2>2. Len(portions) \in Nat /\ DOMAIN portions = 1..Len(portions)
    BY <2>1, PortionsSeq
  <2>3. /\ own = a.root..(a.root + Len(portions) - 1)
        /\ \A i \in DOMAIN portions : entries[a.root + i - 1].plan = portions[i].plan
                                      /\ entries[a.root + i - 1].consumed = - portions[i].amount
    BY <1>6 DEF AuthorizationMatches
  <2>4. ASSUME NEW i \in DOMAIN portions PROVE a.root + i - 1 \in own
    <3>1. i \in Nat /\ 1 <= i /\ i <= Len(portions)
      BY <2>2
    <3> HIDE DEF portions
    <3>2. a.root + i - 1 \in a.root..(a.root + Len(portions) - 1)
      BY <2>2, <3>1
    <3> QED
      BY <2>3, <3>2
  <2>5. \A i \in DOMAIN portions : entries'[a.root + i - 1].plan = portions[i].plan
                                   /\ entries'[a.root + i - 1].consumed = - portions[i].amount
    BY <1>3, <2>3, <2>4
  <2> HIDE DEF portions
  <2>6. /\ own' = a.root..(a.root + Len(portions') - 1)
        /\ \A i \in DOMAIN portions' : entries'[a.root + i - 1].plan = portions'[i].plan
                                      /\ entries'[a.root + i - 1].consumed = - portions'[i].amount
    BY <1>1, <1>2, <2>3, <2>5
  <2> QED
    BY <1>6, <2>6 DEF AuthorizationMatches, portions
<1> QED
  BY <1>4, <1>5, <1>6

(***************************************************************************)
(* One entry.                                                              *)
(***************************************************************************)
\* What appending the one entry e does to the table of entries.
Enters(e) ==
  /\ Extends(entries, entries') /\ Table(entries') /\ entries' \in Seq(Records)
  /\ Len(entries') = Now
  /\ DOMAIN entries' = DOMAIN entries \cup {Now}
  /\ Now \notin DOMAIN entries /\ Now \in Nat \ {0} /\ entries'[Now] = e

LEMMA OneAppended ==
  ASSUME LedgerTypeOK, NEW e \in Records, entries' = entries \o <<e>>
  PROVE  Adds(<<e>>) /\ Enters(e)
<1>1. <<e>> \in Seq(Records)
  OBVIOUS
<1> DEFINE new == <<e>>
<1>2. Len(new) = 1 /\ new[1] = e /\ DOMAIN new = {1}
  OBVIOUS
<1>3. Adds(new)
  BY <1>1, Appended
<1> HIDE DEF new
<1>4. At(1) = Now
  BY DEF At, Now
<1>5. Len(entries) \in Nat
  BY EntriesTable
<1>6. {At(j) : j \in DOMAIN new} = {Now}
  BY <1>2, <1>4
<1>7. Enters(e)
  <2>1. /\ Extends(entries, entries') /\ Table(entries') /\ entries' \in Seq(Records)
        /\ Len(entries') = Len(entries) + Len(new)
        /\ DOMAIN entries' = DOMAIN entries \cup {At(j) : j \in DOMAIN new}
        /\ At(1) \notin DOMAIN entries /\ entries'[At(1)] = new[1]
    BY <1>2, <1>3 DEF Adds
  <2>2. Len(entries') = Now /\ Now \in Nat \ {0}
    BY <1>2, <1>5, <2>1 DEF Now
  <2> QED
    BY <1>2, <1>4, <1>6, <2>1, <2>2 DEF Enters
<1> QED
  BY <1>3, <1>7 DEF new

\* What the entry changes for its plan, and that it changes nothing for another.
LEMMA OneEntered ==
  ASSUME LedgerTypeOK, NEW e, Adds(<<e>>)
  PROVE  /\ OfPlan(e.plan)' = OfPlan(e.plan) \cup {Now}
         /\ Reserved(e.plan)' = Reserved(e.plan) + e.reserved
         /\ Consumed(e.plan)' = Consumed(e.plan) + e.consumed
         /\ \A inv : SumConsumed(LineOf(inv, e.plan))'
                       = SumConsumed(LineOf(inv, e.plan)) + (IF e.invoice = inv THEN e.consumed ELSE 0)
         /\ \A p : p # e.plan =>
              /\ OfPlan(p)' = OfPlan(p) /\ Reserved(p)' = Reserved(p) /\ Consumed(p)' = Consumed(p)
              /\ \A inv : SumConsumed(LineOf(inv, p))' = SumConsumed(LineOf(inv, p))
<1> DEFINE new == <<e>>
<1>1. new[1] = e /\ DOMAIN new = {1} /\ 1 \in DOMAIN new
  OBVIOUS
<1>2. Adds(new)
  OBVIOUS
<1> HIDE DEF new
<1>3. PlansDiffer(new)
  BY <1>1 DEF PlansDiffer
<1>4. At(1) = Now
  BY DEF At, Now
<1>5. /\ OfPlan(e.plan)' = OfPlan(e.plan) \cup {Now}
      /\ Reserved(e.plan)' = Reserved(e.plan) + e.reserved
      /\ Consumed(e.plan)' = Consumed(e.plan) + e.consumed
      /\ \A inv : SumConsumed(LineOf(inv, e.plan))'
                    = SumConsumed(LineOf(inv, e.plan)) + (IF e.invoice = inv THEN e.consumed ELSE 0)
  BY <1>1, <1>2, <1>3, <1>4, PlanEntered
<1>6. ASSUME NEW p, p # e.plan
      PROVE  /\ OfPlan(p)' = OfPlan(p) /\ Reserved(p)' = Reserved(p) /\ Consumed(p)' = Consumed(p)
             /\ \A inv : SumConsumed(LineOf(inv, p))' = SumConsumed(LineOf(inv, p))
  <2>1. \A j \in DOMAIN new : new[j].plan # p
    BY <1>1, <1>6
  <2> QED
    BY <1>2, <2>1, PlanUntouched
<1> QED
  BY <1>5, <1>6

LEMMA OneAccount ==
  ASSUME LedgerTypeOK, NEW e, Adds(<<e>>), e.plan \in DOMAIN plans, UNCHANGED plans
  PROVE  /\ Granted' = Granted
         /\ OnHold' = [OnHold EXCEPT ![e.plan] = @ + e.reserved]
         /\ Used' = [Used EXCEPT ![e.plan] = @ + e.consumed]
<1>1. Granted' = Granted
  BY DEF Granted, Versions
<1>2. /\ OnHold' = [p \in Versions |-> Reserved(p)']
      /\ Used' = [p \in Versions |-> Consumed(p)']
  BY DEF OnHold, Used, Versions
<1>3. e.plan \in Versions
  BY EntriesTable
<1>4. /\ Reserved(e.plan)' = Reserved(e.plan) + e.reserved
      /\ Consumed(e.plan)' = Consumed(e.plan) + e.consumed
      /\ \A p : p # e.plan => Reserved(p)' = Reserved(p) /\ Consumed(p)' = Consumed(p)
  BY OneEntered
<1>5. OnHold' = [OnHold EXCEPT ![e.plan] = @ + e.reserved]
  BY <1>2, <1>3, <1>4 DEF OnHold
<1>6. Used' = [Used EXCEPT ![e.plan] = @ + e.consumed]
  BY <1>2, <1>3, <1>4 DEF Used
<1> QED
  BY <1>1, <1>5, <1>6

\* An entry that fits its quota, and takes no more from an invoice line than the line has.
LEMMA OneWithin ==
  ASSUME LedgerTypeOK, EntriesSound, WithinQuota, LinesCovered, NEW e, Adds(<<e>>),
         e.plan \in DOMAIN plans, UNCHANGED plans, e.consumed \in Int,
         Consumed(e.plan) + e.consumed >= 0,
         (Reserved(e.plan) + e.reserved) + (Consumed(e.plan) + e.consumed) <= plans[e.plan].quota,
         e.invoice \in Invoices => SumConsumed(LineOf(e.invoice, e.plan)) + e.consumed >= 0
  PROVE  WithinQuota' /\ LinesCovered'
<1>1. WithinQuota' = (\A p \in DOMAIN plans : Consumed(p)' >= 0 /\ Reserved(p)' + Consumed(p)' <= plans[p].quota)
  BY DEF WithinQuota
<1>2. LinesCovered' = (\A inv \in Invoices, p \in DOMAIN plans : SumConsumed(LineOf(inv, p))' >= 0)
  BY DEF LinesCovered
<1>3. ASSUME NEW p \in DOMAIN plans
      PROVE  /\ Consumed(p)' >= 0 /\ Reserved(p)' + Consumed(p)' <= plans[p].quota
             /\ \A inv \in Invoices : SumConsumed(LineOf(inv, p))' >= 0
  <2>1. CASE p # e.plan
    <3>1. Reserved(p)' = Reserved(p) /\ Consumed(p)' = Consumed(p)
          /\ \A inv : SumConsumed(LineOf(inv, p))' = SumConsumed(LineOf(inv, p))
      BY <2>1, OneEntered
    <3> QED
      BY <3>1 DEF WithinQuota, LinesCovered
  <2>2. CASE p = e.plan
    <3>1. /\ Reserved(p)' = Reserved(p) + e.reserved
          /\ Consumed(p)' = Consumed(p) + e.consumed
          /\ \A inv : SumConsumed(LineOf(inv, p))'
                       = SumConsumed(LineOf(inv, p)) + (IF e.invoice = inv THEN e.consumed ELSE 0)
      BY <2>2, OneEntered
    <3>2. Consumed(p)' >= 0 /\ Reserved(p)' + Consumed(p)' <= plans[p].quota
      BY <2>2, <3>1
    <3>3. ASSUME NEW inv \in Invoices PROVE SumConsumed(LineOf(inv, p))' >= 0
      <4>1. CASE e.invoice = inv
        BY <2>2, <3>1, <4>1
      <4>2. CASE e.invoice # inv
        <5>1. LineOf(inv, p) \in SUBSET DOMAIN entries
          BY DEF LineOf, OfPlan
        <5>2. SumConsumed(LineOf(inv, p)) \in Int
          BY <5>1, EntriesTable, SumsTyped, SumsRead
        <5>3. SumConsumed(LineOf(inv, p)) >= 0
          BY DEF LinesCovered
        <5>4. SumConsumed(LineOf(inv, p))' = SumConsumed(LineOf(inv, p)) + 0
          BY <3>1, <4>2
        <5> QED
          BY <5>2, <5>3, <5>4
      <4> QED
        BY <4>1, <4>2
    <3> QED
      BY <3>2, <3>3
  <2> QED
    BY <2>1, <2>2
<1> QED
  BY <1>1, <1>2, <1>3

(***************************************************************************)
(* Every operation that writes entries keeps what is sound.                *)
(***************************************************************************)
LEMMA SoundGrows ==
  ASSUME LedgerTypeOK, EntriesSound, NEW new, Adds(new), UNCHANGED plans,
         \A j \in DOMAIN new : EntrySound(new[j], entries', plans)
  PROVE  EntriesSound'
<1>1. /\ DOMAIN entries' = DOMAIN entries \cup {At(j) : j \in DOMAIN new}
      /\ \A j \in DOMAIN new : entries'[At(j)] = new[j]
      /\ \A i \in DOMAIN entries : i \in DOMAIN entries' /\ entries'[i] = entries[i]
  BY DEF Adds, Extends
<1>2. ASSUME NEW i \in DOMAIN entries
      PROVE  EntrySound(entries[i], entries', plans)
  <2>1. EntrySound(entries[i], entries, plans)
    BY DEF EntriesSound
  <2>2. CloserSound(entries[i], entries')
    BY <1>1, <2>1 DEF EntrySound, CloserSound
  <2> QED
    BY <2>1, <2>2 DEF EntrySound
<1>3. \A i \in DOMAIN entries' : EntrySound(entries'[i], entries', plans)
  BY <1>1, <1>2
<1> QED
  BY <1>3 DEF EntriesSound

LEMMA ClosedOnceGrows ==
  ASSUME LedgerTypeOK, ClosedOnce, NEW new, Adds(new),
         \A j \in DOMAIN new : new[j].hold # 0 =>
           /\ Closers(new[j].hold) = {}
           /\ \A i \in DOMAIN new : new[i].hold # 0 => i = j
  PROVE  ClosedOnce'
<1>1. /\ DOMAIN entries' = DOMAIN entries \cup {At(j) : j \in DOMAIN new}
      /\ \A j \in DOMAIN new : entries'[At(j)] = new[j]
      /\ \A i \in DOMAIN entries : entries'[i] = entries[i]
  BY DEF Adds, Extends
<1>2. SUFFICES ASSUME NEW i \in DOMAIN entries', NEW j \in DOMAIN entries',
                      entries'[i].hold = entries'[j].hold, entries'[i].hold # 0
               PROVE  i = j
  BY DEF ClosedOnce
<1>3. CASE i \in DOMAIN entries /\ j \in DOMAIN entries
  BY <1>1, <1>2, <1>3 DEF ClosedOnce
<1>4. CASE i \in DOMAIN entries /\ j \notin DOMAIN entries
  <2>1. PICK n \in DOMAIN new : j = At(n)
    BY <1>1, <1>4
  <2>2. new[n].hold # 0 /\ i \in Closers(new[n].hold)
    BY <1>1, <1>2, <1>4, <2>1 DEF Closers
  <2> QED
    BY <2>2
<1>5. CASE i \notin DOMAIN entries /\ j \in DOMAIN entries
  <2>1. PICK n \in DOMAIN new : i = At(n)
    BY <1>1, <1>5
  <2>2. new[n].hold # 0 /\ j \in Closers(new[n].hold)
    BY <1>1, <1>2, <1>5, <2>1 DEF Closers
  <2> QED
    BY <2>2
<1>6. CASE i \notin DOMAIN entries /\ j \notin DOMAIN entries
  <2>1. PICK n \in DOMAIN new : i = At(n)
    BY <1>1, <1>6
  <2>2. PICK m \in DOMAIN new : j = At(m)
    BY <1>1, <1>6
  <2>3. new[n].hold # 0 /\ new[m].hold # 0
    BY <1>1, <1>2, <2>1, <2>2
  <2> QED
    BY <2>1, <2>2, <2>3
<1> QED
  BY <1>3, <1>4, <1>5, <1>6

\* No entry of another plan closes a hold of this one.
LEMMA OpenUntouched ==
  ASSUME LedgerTypeOK, NEW new, Adds(new), EntriesSound', NEW p, \A j \in DOMAIN new : new[j].plan # p
  PROVE  OpenOf(p)' = OpenOf(p) /\ SumReserved(OpenOf(p))' = SumReserved(OpenOf(p))
<1>1. /\ DOMAIN entries' = DOMAIN entries \cup {At(j) : j \in DOMAIN new}
      /\ \A j \in DOMAIN new : entries'[At(j)] = new[j]
      /\ \A i \in DOMAIN entries : entries'[i] = entries[i]
  BY DEF Adds, Extends
<1>2. OfPlan(p)' = OfPlan(p)
  BY PlanUntouched
<1>3. ASSUME NEW i \in OfPlan(p)
      PROVE  Closers(i)' = Closers(i)
  <2>1. i \in DOMAIN entries /\ i # 0 /\ entries'[i].plan = p
    BY <1>1, EntriesTable DEF OfPlan
  <2>2. \A j \in DOMAIN new : new[j].hold # i
    <3> SUFFICES ASSUME NEW j \in DOMAIN new, new[j].hold = i PROVE FALSE
      OBVIOUS
    <3>1. EntrySound(entries'[At(j)], entries', plans')
      BY <1>1 DEF EntriesSound
    <3>2. new[j].plan = entries'[i].plan
      BY <1>1, <2>1, <3>1 DEF EntrySound, CloserSound
    <3> QED
      BY <2>1, <3>2
  <2>3. Closers(i)' = {c \in DOMAIN entries' : entries'[c].hold = i}
    BY DEF Closers
  <2> QED
    BY <1>1, <2>2, <2>3 DEF Closers
<1>4. OpenOf(p)' = {i \in OfPlan(p)' : entries'[i].kind = "reservation" /\ Closers(i)' = {}}
  BY DEF OpenOf, IsReservation
<1>5. OpenOf(p)' = OpenOf(p)
  BY <1>1, <1>2, <1>3, <1>4 DEF OpenOf, IsReservation, OfPlan
<1>6. OpenOf(p) \in SUBSET DOMAIN entries
  BY DEF OpenOf, OfPlan
<1>7. SumReserved(OpenOf(p))' = ReservedIn(entries', OpenOf(p)')
  BY DEF SumReserved, ReservedIn
<1> QED
  BY <1>5, <1>6, <1>7, SumsKept, SumsRead DEF Adds

\* Corrections neither hold nor close anything.
LEMMA CorrectionsKeepHolds ==
  ASSUME LedgerTypeOK, EntriesSound, HoldsAccounted, NEW new, Adds(new), PlansDiffer(new),
         UNCHANGED plans,
         \A j \in DOMAIN new : new[j].kind # "reservation" /\ new[j].hold = 0 /\ new[j].reserved = 0
  PROVE  HoldsAccounted'
<1>1. /\ DOMAIN entries' = DOMAIN entries \cup {At(j) : j \in DOMAIN new}
      /\ \A j \in DOMAIN new : entries'[At(j)] = new[j]
      /\ \A i \in DOMAIN entries : entries'[i] = entries[i]
  BY DEF Adds, Extends
<1>2. ASSUME NEW p PROVE OpenOf(p)' = OpenOf(p)
  <2>1. ASSUME NEW i \in DOMAIN entries PROVE Closers(i)' = Closers(i)
    <3>1. i # 0
      BY EntriesTable
    <3>2. Closers(i)' = {c \in DOMAIN entries' : entries'[c].hold = i}
      BY DEF Closers
    <3> QED
      BY <1>1, <3>1, <3>2 DEF Closers
  <2>2. OpenOf(p)' = {i \in DOMAIN entries' : /\ entries'[i].plan = p
                                              /\ entries'[i].kind = "reservation" /\ Closers(i)' = {}}
    BY DEF OpenOf, IsReservation, OfPlan
  <2> QED
    BY <1>1, <2>1, <2>2 DEF OpenOf, IsReservation, OfPlan
<1>3. ASSUME NEW p PROVE SumReserved(OpenOf(p))' = SumReserved(OpenOf(p))
  <2>1. OpenOf(p) \in SUBSET DOMAIN entries
    BY DEF OpenOf, OfPlan
  <2>2. SumReserved(OpenOf(p))' = ReservedIn(entries', OpenOf(p)')
    BY DEF SumReserved, ReservedIn
  <2> QED
    BY <1>2, <2>1, <2>2, SumsKept, SumsRead DEF Adds
<1>4. ASSUME NEW p PROVE Reserved(p)' = Reserved(p)
  <2>1. CASE \A j \in DOMAIN new : new[j].plan # p
    BY <2>1, PlanUntouched
  <2>2. CASE ~(\A j \in DOMAIN new : new[j].plan # p)
    <3>1. PICK j \in DOMAIN new : new[j].plan = p
      BY <2>2
    <3>2. Reserved(p)' = Reserved(p) + new[j].reserved
      BY <3>1, PlanEntered
    <3>3. new[j].reserved = 0 /\ Reserved(p) \in Int
      BY BalancesTyped
    <3> QED
      BY <3>2, <3>3
  <2> QED
    BY <2>1, <2>2
<1>5. HoldsAccounted' = (\A p \in DOMAIN plans : Reserved(p)' = SumReserved(OpenOf(p))')
  BY DEF HoldsAccounted
<1> QED
  BY <1>3, <1>4, <1>5 DEF HoldsAccounted

LEMMA OneHoldAccounted ==
  ASSUME LedgerTypeOK, HoldsAccounted, NEW e, Adds(<<e>>), EntriesSound', UNCHANGED plans,
         e.plan \in DOMAIN plans, e.reserved \in Int,
         SumReserved(OpenOf(e.plan))' = SumReserved(OpenOf(e.plan)) + e.reserved
  PROVE  HoldsAccounted'
<1>1. Reserved(e.plan)' = Reserved(e.plan) + e.reserved
      /\ \A p : p # e.plan => Reserved(p)' = Reserved(p)
  BY OneEntered
<1>2. ASSUME NEW p, p # e.plan
      PROVE  SumReserved(OpenOf(p))' = SumReserved(OpenOf(p))
  <2> DEFINE new == <<e>>
  <2>1. DOMAIN new = {1} /\ new[1] = e /\ Adds(new)
    OBVIOUS
  <2> HIDE DEF new
  <2>2. \A j \in DOMAIN new : new[j].plan # p
    BY <1>2, <2>1
  <2> QED
    BY <2>1, <2>2, OpenUntouched
<1>3. HoldsAccounted' = (\A p \in DOMAIN plans : Reserved(p)' = SumReserved(OpenOf(p))')
  BY DEF HoldsAccounted
<1>4. ASSUME NEW p \in DOMAIN plans
      PROVE  Reserved(p)' = SumReserved(OpenOf(p))'
  <2>1. Reserved(p) = SumReserved(OpenOf(p))
    BY DEF HoldsAccounted
  <2> QED
    BY <1>1, <1>2, <2>1
<1> QED
  BY <1>3, <1>4

LEMMA OpenedHold ==
  ASSUME LedgerTypeOK, EntriesSound, NEW e, Enters(e), OfPlan(e.plan)' = OfPlan(e.plan) \cup {Now},
         e.kind = "reservation", e.hold = 0, e.reserved \in Int
  PROVE  SumReserved(OpenOf(e.plan))' = SumReserved(OpenOf(e.plan)) + e.reserved
<1> DEFINE p == e.plan
<1>1. /\ DOMAIN entries' = DOMAIN entries \cup {Now} /\ entries'[Now] = e
      /\ Now \notin DOMAIN entries /\ Now # 0
      /\ \A i \in DOMAIN entries : entries'[i] = entries[i]
  BY DEF Enters, Extends
<1>2. \A i : Closers(i)' = {c \in DOMAIN entries' : entries'[c].hold = i}
  BY DEF Closers
<1>3. \A i \in DOMAIN entries : Closers(i)' = Closers(i)
  BY <1>1, <1>2, EntriesTable DEF Closers
<1>0. PICK n : n = Now
  OBVIOUS
<1>4. Closers(n)' = {}
  <2>1. \A c \in DOMAIN entries : entries[c].hold # n
    BY <1>1, <1>0 DEF EntriesSound, EntrySound, CloserSound
  <2> QED
    BY <1>1, <1>2, <1>0, <2>1
<1>5. OpenOf(p)' = {i \in OfPlan(p)' : entries'[i].kind = "reservation" /\ Closers(i)' = {}}
  BY DEF OpenOf, IsReservation
<1>6. OpenOf(p)' = OpenOf(p) \cup {Now} /\ OpenOf(p) \in SUBSET DOMAIN entries
  <2>1. OfPlan(p)' = OfPlan(p) \cup {n} /\ OfPlan(p) \in SUBSET DOMAIN entries
    BY <1>0 DEF OfPlan
  <2>2. \A i \in OfPlan(p) : entries'[i] = entries[i] /\ Closers(i)' = Closers(i)
    BY <1>1, <1>3, <2>1
  <2>3. entries'[n].kind = "reservation"
    BY <1>1, <1>0
  <2> QED
    BY <1>4, <1>5, <1>0, <2>1, <2>2, <2>3 DEF OpenOf, IsReservation
<1>7. SumReserved(OpenOf(p))' = ReservedIn(entries', OpenOf(p)')
  BY DEF SumReserved, ReservedIn
<1> DEFINE U == OpenOf(p)'
           S == OpenOf(p)
<1>8. U = S \cup {Now} /\ S \in SUBSET DOMAIN entries /\ Now \in DOMAIN entries'
  BY <1>1, <1>6
<1> HIDE DEF U, S
<1>9. ReservedIn(entries', U) = ReservedIn(entries, S) + entries'[Now].reserved
  BY <1>1, <1>8, SumsGrow DEF Enters
<1> QED
  BY <1>1, <1>7, <1>9, SumsRead DEF U, S

LEMMA ClosedHold ==
  ASSUME LedgerTypeOK, EntriesSound, NEW e, Enters(e), OfPlan(e.plan)' = OfPlan(e.plan) \cup {Now},
         e.hold \in OpenOf(e.plan), e.kind # "reservation", e.reserved = - entries[e.hold].reserved
  PROVE  SumReserved(OpenOf(e.plan))' = SumReserved(OpenOf(e.plan)) + e.reserved
<1> DEFINE p == e.plan
           h == e.hold
<1>1. /\ DOMAIN entries' = DOMAIN entries \cup {Now} /\ entries'[Now] = e
      /\ Now \notin DOMAIN entries /\ Now # 0
      /\ \A i \in DOMAIN entries : entries'[i] = entries[i]
  BY DEF Enters, Extends
<1>2. \A i : Closers(i)' = {c \in DOMAIN entries' : entries'[c].hold = i}
  BY DEF Closers
<1>3. \A i \in DOMAIN entries : i # h => Closers(i)' = Closers(i)
  BY <1>1, <1>2 DEF Closers
<1>4. Now \in Closers(h)'
  BY <1>1, <1>2
<1>5. OpenOf(p)' = {i \in OfPlan(p)' : entries'[i].kind = "reservation" /\ Closers(i)' = {}}
  BY DEF OpenOf, IsReservation
<1>6. OpenOf(p)' = OpenOf(p) \ {h} /\ OpenOf(p) \in SUBSET DOMAIN entries
  BY <1>1, <1>3, <1>4, <1>5 DEF OpenOf, IsReservation, OfPlan
<1>7. SumReserved(OpenOf(p))' = ReservedIn(entries', OpenOf(p)')
  BY DEF SumReserved, ReservedIn
<1> DEFINE S == OpenOf(p)
<1>8. S \in SUBSET DOMAIN entries /\ h \in S /\ OpenOf(p)' = S \ {h}
  BY <1>6
<1> HIDE DEF S
<1>9. ReservedIn(entries', S \ {h}) = ReservedIn(entries, S \ {h})
  <2>1. S \ {h} \in SUBSET DOMAIN entries
    BY <1>8
  <2> QED
    BY <2>1, SumsKept DEF Enters
<1>10. ReservedIn(entries, S \ {h}) = ReservedIn(entries, S) - entries[h].reserved
  BY <1>8, EntriesTable, SumsLess
<1>11. ReservedIn(entries, S) \in Int /\ entries[h].reserved \in Int
  BY <1>8, EntriesTable, SumsTyped DEF Table
<1>12. ReservedIn(entries, S) - entries[h].reserved = ReservedIn(entries, S) + (- entries[h].reserved)
  BY <1>11
<1>13. SumReserved(OpenOf(p))' = SumReserved(S) + e.reserved
  BY <1>7, <1>8, <1>9, <1>10, <1>12, SumsRead
<1> QED
  BY <1>13 DEF S

LEMMA AuthsTyped ==
  ASSUME LedgerTypeOK, NEW k \in Finance
  PROVE  auths[k].root \in Nat /\ auths[k].delta \in Int /\ auths[k].target \in Nat
<1>1. auths[k] \in [invoice : Invoices \cup {None}, delta : Deltas \cup {0},
                   target : 0..MaxPlans, root : 0..MaxEntries]
  BY DEF LedgerTypeOK
<1>2. auths[k].root \in 0..MaxEntries /\ auths[k].delta \in Deltas \cup {0} /\ auths[k].target \in 0..MaxPlans
  BY <1>1
<1>3. Deltas \subseteq Int
  BY AmountsAssumption
<1>4. auths[k].root \in Nat
  BY <1>2
<1>5. auths[k].delta \in Int
  <2>1. CASE auths[k].delta = 0
    BY <2>1
  <2>2. CASE auths[k].delta \in Deltas
    BY <1>3, <2>2, Zenon
  <2> QED
    BY <1>2, <2>1, <2>2, Zenon
<1>6. auths[k].target \in Nat
  BY <1>2
<1> QED
  BY <1>4, <1>5, <1>6

\* An authorization that is not being spent stays matched.
LEMMA OthersMatched ==
  ASSUME LedgerTypeOK, EntriesSound, AuthsMatched, AuthsSound, NEW new, Adds(new),
         UNCHANGED plans, NEW k \in Finance, \A j \in DOMAIN new : new[j].auth # k,
         auths'[k] = auths[k]
  PROVE  AuthorizationMatches(k)'
<1>1. /\ DOMAIN entries' = DOMAIN entries \cup {At(j) : j \in DOMAIN new}
      /\ \A j \in DOMAIN new : entries'[At(j)] = new[j]
      /\ Extends(entries, entries') /\ Table(entries') /\ entries' \in Seq(Records)
  BY DEF Adds
<1>2. DOMAIN entries' \subseteq Nat
  <2>1. DOMAIN entries' = 1..Len(entries')
    BY <1>1, LenProperties
  <2> QED
    BY <2>1
<1>3. ASSUME NEW i \in DOMAIN entries', i <= Len(entries)
      PROVE  i \in DOMAIN entries
  <2>1. DOMAIN entries' = 1..Len(entries') /\ DOMAIN entries = 1..Len(entries) /\ Len(entries) \in Nat
    BY <1>1, EntriesTable, LenProperties
  <2> QED
    BY <1>3, <2>1
<1>4. \A i \in DOMAIN entries' : i \notin DOMAIN entries => entries'[i].auth # k
  BY <1>1
<1>5. auths[k].root \in Nat /\ auths[k].delta \in Int
  BY AuthsTyped
<1>6. auths[k].root <= Len(entries) /\ AuthorizationMatches(k)
  BY DEF AuthsSound, AuthsMatched
<1> QED
  BY <1>1, <1>2, <1>3, <1>4, <1>5, <1>6, MatchKept

LEMMA AuthsKept ==
  ASSUME LedgerTypeOK, EntriesSound, AuthsMatched, AuthsSound, NEW new, Adds(new),
         UNCHANGED <<plans, auths>>, \A j \in DOMAIN new : new[j].auth = None
  PROVE  AuthsMatched' /\ AuthsSound'
<1>1. \A k \in Finance : \A j \in DOMAIN new : new[j].auth # k
  BY KeysAssumption DEF None
<1>2. ASSUME NEW k \in Finance PROVE AuthorizationMatches(k)'
  <2>1. \A j \in DOMAIN new : new[j].auth # k
    BY <1>1
  <2>2. UNCHANGED plans /\ auths'[k] = auths[k]
    OBVIOUS
  <2> QED
    BY <2>1, <2>2, OthersMatched
<1>3. AuthsMatched'
  BY <1>2 DEF AuthsMatched
<1>4. Len(entries) <= Len(entries') /\ Len(entries) \in Nat /\ Len(entries') \in Nat
  BY EntriesTable DEF Adds
<1>5. \A k \in Finance : auths[k].root \in Nat
  BY DEF LedgerTypeOK
<1>6. AuthsSound'
  <2>1. AuthsSound' = (\A k \in Finance : auths[k].root <= Len(entries') /\ (auths[k].delta = 0 => auths[k].root = 0))
    BY DEF AuthsSound
  <2> QED
    BY <1>4, <1>5, <2>1 DEF AuthsSound
<1> QED
  BY <1>3, <1>6

LEMMA TypeKept ==
  ASSUME LedgerTypeOK, NEW new, Adds(new), Len(entries) + Len(new) <= MaxEntries, UNCHANGED <<plans, auths>>
  PROVE  LedgerTypeOK'
  BY DEF LedgerTypeOK, Adds

(***************************************************************************)
(* The accounts.                                                           *)
(***************************************************************************)
LEMMA Balances ==
  ASSUME LedgerInv, NEW p \in DOMAIN plans
  PROVE  /\ Reserved(p) \in Nat /\ Consumed(p) \in Nat /\ plans[p].quota \in Nat
         /\ Reserved(p) + Consumed(p) <= plans[p].quota
         /\ p \in Versions /\ Granted[p] = plans[p].quota
         /\ OnHold[p] = Reserved(p) /\ Used[p] = Consumed(p)
<1>1. p \in Versions /\ plans[p].quota \in Nat
  BY EntriesTable DEF LedgerInv
<1>2. Reserved(p) = SumReserved(OpenOf(p)) /\ SumReserved(OpenOf(p)) \in Nat
  BY OpenHolds DEF LedgerInv, HoldsAccounted
<1>3. Consumed(p) \in Int
  BY BalancesTyped DEF LedgerInv
<1>4. Consumed(p) >= 0 /\ Reserved(p) + Consumed(p) <= plans[p].quota
  BY DEF LedgerInv, WithinQuota
<1> QED
  BY <1>1, <1>2, <1>3, <1>4 DEF Granted, OnHold, Used

LEMMA SumsUpToAQuota ==
  ASSUME LedgerTypeOK, NEW p \in DOMAIN plans, NEW n \in Nat, n <= plans[p].quota
  PROVE  n \in UpToOneOf(Quotas)
<1>1. plans[p].quota \in Quotas /\ plans[p].quota \in Nat
  BY EntriesTable
<1>2. n \in 0..plans[p].quota
  BY <1>1
<1> QED
  BY <1>1, <1>2 DEF UpToOneOf

AccountStep == Account!Next \/ UNCHANGED <<Granted, OnHold, Used>>

LEMMA HoldStep ==
  ASSUME LedgerInv, NEW p \in DOMAIN plans, NEW n \in Nat, n <= Room(p), Granted' = Granted,
         OnHold' = [OnHold EXCEPT ![p] = @ + n], Used' = [Used EXCEPT ![p] = @ + 0]
  PROVE  AccountStep
<1>1. /\ Reserved(p) \in Nat /\ Consumed(p) \in Nat /\ plans[p].quota \in Nat
      /\ p \in Versions /\ Granted[p] = plans[p].quota
      /\ OnHold[p] = Reserved(p) /\ Used[p] = Consumed(p)
  BY Balances
<1>2. n + Reserved(p) + Consumed(p) <= plans[p].quota
  BY <1>1 DEF Room
<1>3. n <= plans[p].quota
  BY <1>1, <1>2
<1>4. n \in UpToOneOf(Quotas)
  BY <1>3, SumsUpToAQuota DEF LedgerInv
<1>5. Used' = Used
  <2>1. Used[p] + 0 = Used[p]
    BY <1>1
  <2> QED
    BY <2>1 DEF Used
<1>6. Account!Hold(p, n)
  BY <1>1, <1>2, <1>5 DEF Account!Hold, Account!Fits
<1> QED
  BY <1>1, <1>4, <1>6 DEF AccountStep, Account!Next

LEMMA ChargeStep ==
  ASSUME LedgerInv, NEW p \in DOMAIN plans, NEW n \in Nat, n <= Room(p), Granted' = Granted,
         OnHold' = [OnHold EXCEPT ![p] = @ + 0], Used' = [Used EXCEPT ![p] = @ + n]
  PROVE  AccountStep
<1>1. /\ Reserved(p) \in Nat /\ Consumed(p) \in Nat /\ plans[p].quota \in Nat
      /\ p \in Versions /\ Granted[p] = plans[p].quota
      /\ OnHold[p] = Reserved(p) /\ Used[p] = Consumed(p)
  BY Balances
<1>2. n + Reserved(p) + Consumed(p) <= plans[p].quota
  BY <1>1 DEF Room
<1>3. n <= plans[p].quota
  BY <1>1, <1>2
<1>4. n \in UpToOneOf(Quotas)
  BY <1>3, SumsUpToAQuota DEF LedgerInv
<1>5. OnHold' = OnHold
  <2>1. OnHold[p] + 0 = OnHold[p]
    BY <1>1
  <2> QED
    BY <2>1 DEF OnHold
<1>6. Account!ChargeMore(p, n)
  BY <1>1, <1>2, <1>5 DEF Account!ChargeMore, Account!Fits
<1> QED
  BY <1>1, <1>4, <1>6 DEF AccountStep, Account!Next

LEMMA CloseStep ==
  ASSUME LedgerInv, NEW p \in DOMAIN plans, NEW n \in Nat, NEW charge \in Nat, charge <= n,
         n <= Reserved(p), Granted' = Granted,
         OnHold' = [OnHold EXCEPT ![p] = @ + (- n)], Used' = [Used EXCEPT ![p] = @ + charge]
  PROVE  AccountStep
<1>1. /\ Reserved(p) \in Nat /\ Consumed(p) \in Nat /\ plans[p].quota \in Nat
      /\ Reserved(p) + Consumed(p) <= plans[p].quota
      /\ p \in Versions /\ Granted[p] = plans[p].quota
      /\ OnHold[p] = Reserved(p) /\ Used[p] = Consumed(p)
  BY Balances
<1>2. n <= plans[p].quota /\ charge <= plans[p].quota
  BY <1>1
<1>3. n \in UpToOneOf(Quotas) /\ charge \in UpToOneOf(Quotas)
  BY <1>2, SumsUpToAQuota DEF LedgerInv
<1>4. OnHold[p] + (- n) = OnHold[p] - n
  BY <1>1
<1>5. OnHold' = [OnHold EXCEPT ![p] = @ - n]
  BY <1>4
<1>6. Account!Close(p, n, charge)
  BY <1>1, <1>5 DEF Account!Close
<1> QED
  BY <1>1, <1>3, <1>6 DEF AccountStep, Account!Next

(***************************************************************************)
(* The operations, one by one.                                             *)
(***************************************************************************)
\* An entry no authorization pays for.
LEMMA OneKeeps ==
  ASSUME LedgerInv, NEW e \in Records, Adds(<<e>>), Now <= MaxEntries, UNCHANGED <<plans, auths>>,
         e.auth = None, EntrySound(e, entries', plans), e.hold # 0 => Closers(e.hold) = {},
         EntriesSound' => SumReserved(OpenOf(e.plan))' = SumReserved(OpenOf(e.plan)) + e.reserved,
         Consumed(e.plan) + e.consumed >= 0,
         (Reserved(e.plan) + e.reserved) + (Consumed(e.plan) + e.consumed) <= plans[e.plan].quota,
         e.invoice \in Invoices => SumConsumed(LineOf(e.invoice, e.plan)) + e.consumed >= 0
  PROVE  LedgerInv'
<1> DEFINE new == <<e>>
<1>1. Len(new) = 1 /\ new[1] = e /\ DOMAIN new = {1} /\ Adds(new)
  OBVIOUS
<1>2. UNCHANGED plans /\ e.plan \in DOMAIN plans /\ e.reserved \in Int /\ e.consumed \in Int
  BY DEF EntrySound, Records
<1>3. /\ LedgerTypeOK /\ EntriesSound /\ ClosedOnce /\ HoldsAccounted /\ WithinQuota
      /\ LinesCovered /\ AuthsSound /\ AuthsMatched
  BY DEF LedgerInv
<1> HIDE DEF new
<1>4. EntriesSound'
  <2>1. \A j \in DOMAIN new : EntrySound(new[j], entries', plans)
    BY <1>1
  <2> QED
    BY <1>1, <1>2, <1>3, <2>1, SoundGrows
<1>5. ClosedOnce'
  <2>1. \A j \in DOMAIN new : new[j].hold # 0 =>
           /\ Closers(new[j].hold) = {}
           /\ \A i \in DOMAIN new : new[i].hold # 0 => i = j
    BY <1>1
  <2> QED
    BY <1>1, <1>3, <2>1, ClosedOnceGrows
<1>6. HoldsAccounted'
  BY <1>2, <1>3, <1>4, OneHoldAccounted
<1>7. WithinQuota' /\ LinesCovered'
  BY <1>2, <1>3, OneWithin
<1>8. AuthsMatched' /\ AuthsSound'
  <2>1. \A j \in DOMAIN new : new[j].auth = None
    BY <1>1
  <2> QED
    BY <1>1, <1>3, <2>1, AuthsKept
<1>9. LedgerTypeOK'
  <2>1. Len(entries) + Len(new) <= MaxEntries
    BY <1>1 DEF Now
  <2> QED
    BY <1>1, <1>3, <2>1, TypeKept
<1> QED
  BY <1>4, <1>5, <1>6, <1>7, <1>8, <1>9 DEF LedgerInv

LEMMA ActivePlanIn ==
  ASSUME LedgerTypeOK, ActivePlan # 0
  PROVE  ActivePlan \in DOMAIN plans
<1> DEFINE T == {0} \cup {p \in DOMAIN plans : plans[p].phase = "current"}
<1>1. Len(plans) \in Nat /\ DOMAIN plans = 1..Len(plans)
  BY EntriesTable
<1>2. T \in SUBSET Nat /\ T # {} /\ \A m \in T : m <= Len(plans)
  BY <1>1
<1>3. ActivePlan = Max(T)
  BY DEF ActivePlan
<1> HIDE DEF T
<1>4. Max(T) \in T
  BY <1>1, <1>2, MaxIsGreatest
<1> QED
  BY <1>3, <1>4 DEF T

LEMMA ReserveKeeps ==
  ASSUME LedgerInv, NEW key \in Clients \cup {None}, NEW n \in Nat \ {0}, Reserve(key, n),
         UNCHANGED <<plans, auths>>
  PROVE  /\ LedgerInv' /\ AccountStep
         /\ \E e : Enters(e) /\ e.kind = "reservation" /\ e.key = key /\ e.hold = 0
<1>0. LedgerTypeOK /\ EntriesSound
  BY DEF LedgerInv
<1>1. PICK p \in DOMAIN plans : p = ActivePlan
  BY <1>0, ActivePlanIn DEF Reserve
<1> DEFINE e == Entry("reservation", p, key, 0, n, 0, None, None)
<1>2. /\ e.kind = "reservation" /\ e.plan = p /\ e.key = key /\ e.hold = 0 /\ e.reserved = n
      /\ e.consumed = 0 /\ e.invoice = None /\ e.auth = None
  BY DEF Entry
<1>3. e \in Records
  <2>1. p \in 1..MaxPlans
    BY <1>0, EntriesTable DEF Versions
  <2> QED
    BY <2>1, AmountsAssumption DEF Entry, Records, Kinds, Keys
<1>4. n <= Room(p) /\ Now <= MaxEntries /\ entries' = entries \o <<e>>
  <2> DEFINE new == <<e>>
  <2>1. Record(new) /\ n <= Room(p)
    BY <1>1 DEF Reserve
  <2>2. Len(new) = 1
    OBVIOUS
  <2> HIDE DEF new
  <2>3. Len(entries) + Len(new) <= MaxEntries /\ entries' = entries \o new
    BY <2>1 DEF Record
  <2> QED
    BY <2>1, <2>2, <2>3 DEF Now, new
<1> HIDE DEF e
<1>5. Adds(<<e>>) /\ Enters(e)
  BY <1>0, <1>3, <1>4, OneAppended
<1>6. EntrySound(e, entries', plans)
  BY <1>2 DEF EntrySound, ReservationSound, CloserSound, OthersSound, None
<1>7. OfPlan(e.plan)' = OfPlan(e.plan) \cup {Now}
  BY <1>0, <1>5, OneEntered
<1>8. SumReserved(OpenOf(e.plan))' = SumReserved(OpenOf(e.plan)) + e.reserved
  BY <1>0, <1>2, <1>5, <1>7, OpenedHold
<1>9. /\ Reserved(p) \in Nat /\ Consumed(p) \in Nat /\ plans[p].quota \in Nat
  BY Balances
<1>10. Consumed(p) + 0 >= 0 /\ (Reserved(p) + n) + (Consumed(p) + 0) <= plans[p].quota
  BY <1>4, <1>9 DEF Room
<1>11. e.invoice \in Invoices => SumConsumed(LineOf(e.invoice, e.plan)) + e.consumed >= 0
  <2>1. LineOf(e.invoice, e.plan) \in SUBSET DOMAIN entries
    BY DEF LineOf, OfPlan
  <2>2. SumConsumed(LineOf(e.invoice, e.plan)) \in Int
    BY <1>0, <2>1, EntriesTable, SumsTyped, SumsRead
  <2>3. e.invoice \in Invoices => SumConsumed(LineOf(e.invoice, e.plan)) >= 0
    BY <1>2 DEF LedgerInv, LinesCovered
  <2> QED
    BY <1>2, <2>2, <2>3
<1>12. LedgerInv'
  BY <1>2, <1>3, <1>4, <1>5, <1>6, <1>8, <1>10, <1>11, OneKeeps
<1>13. AccountStep
  <2>1. /\ Granted' = Granted
        /\ OnHold' = [OnHold EXCEPT ![p] = @ + n]
        /\ Used' = [Used EXCEPT ![p] = @ + 0]
    BY <1>0, <1>2, <1>5, OneAccount
  <2> QED
    BY <1>4, <2>1, HoldStep
<1> QED
  BY <1>2, <1>5, <1>12, <1>13

LEMMA CloseKeeps ==
  ASSUME LedgerInv, NEW kind \in {"settlement", "release"}, NEW h \in DOMAIN entries,
         IsReservation(h), NEW charge \in Nat, charge <= Outstanding(h),
         NEW invoice \in Invoices \cup {None}, Close(kind, h, charge, invoice),
         UNCHANGED <<plans, auths>>
  PROVE  /\ LedgerInv' /\ AccountStep /\ Closers(h) = {}
         /\ \E e : Enters(e) /\ e.kind = kind /\ e.key = None /\ e.hold = h
<1>0. LedgerTypeOK /\ EntriesSound /\ ClosedOnce
  BY DEF LedgerInv
<1>1. Outstanding(h) = IF Closers(h) = {} THEN entries[h].reserved ELSE 0
  BY <1>0, OutstandingOf
<1>2. EntrySound(entries[h], entries, plans) /\ h \in Nat \ {0} /\ entries[h] \in Records
  BY <1>0, EntriesTable DEF EntriesSound
<1>3. entries[h].reserved \in Nat \ {0} /\ entries[h].plan \in DOMAIN plans
  BY <1>2 DEF EntrySound, ReservationSound, IsReservation
<1>4. Outstanding(h) > 0
  BY DEF Close
<1>5. Closers(h) = {} /\ Outstanding(h) = entries[h].reserved
  BY <1>1, <1>4
<1>6. PICK p \in DOMAIN plans : p = entries[h].plan
  BY <1>3
<1>7. PICK n \in Nat : n = entries[h].reserved
  BY <1>3
<1> DEFINE e == Entry(kind, p, None, h, - n, charge, invoice, None)
<1>8. /\ e.kind = kind /\ e.plan = p /\ e.key = None /\ e.hold = h /\ e.reserved = - n
      /\ e.consumed = charge /\ e.invoice = invoice /\ e.auth = None
  BY DEF Entry
<1>9. e \in Records
  <2>1. p \in 1..MaxPlans
    BY <1>0, EntriesTable DEF Versions
  <2>2. h \in 0..MaxEntries
    BY <1>0, <1>2, EntriesTable, AmountsAssumption DEF LedgerTypeOK
  <2>3. - n \in Int /\ charge \in Int
    OBVIOUS
  <2> QED
    BY <2>1, <2>2, <2>3 DEF Entry, Records, Kinds
<1>10. Now <= MaxEntries /\ entries' = entries \o <<e>>
  <2> DEFINE new == <<e>>
  <2>1. Record(new)
    BY <1>5, <1>6, <1>7 DEF Close
  <2>2. Len(new) = 1
    OBVIOUS
  <2> HIDE DEF new
  <2>3. Len(entries) + Len(new) <= MaxEntries /\ entries' = entries \o new
    BY <2>1 DEF Record
  <2> QED
    BY <2>2, <2>3 DEF Now, new
<1> HIDE DEF e
<1>11. Adds(<<e>>) /\ Enters(e)
  BY <1>0, <1>9, <1>10, OneAppended
<1>12. EntrySound(e, entries', plans)
  <2>1. h \in DOMAIN entries' /\ entries'[h] = entries[h]
    BY <1>11 DEF Enters, Extends
  <2> QED
    BY <1>2, <1>6, <1>7, <1>8, <2>1
    DEF EntrySound, ReservationSound, CloserSound, OthersSound, IsReservation
<1>13. h \in OpenOf(p)
  BY <1>5, <1>6 DEF OpenOf, OfPlan
<1>14. SumReserved(OpenOf(e.plan))' = SumReserved(OpenOf(e.plan)) + e.reserved
  <2>1. OfPlan(e.plan)' = OfPlan(e.plan) \cup {Now}
    BY <1>0, <1>11, OneEntered
  <2>2. e.hold \in OpenOf(e.plan) /\ e.kind # "reservation" /\ e.reserved = - entries[e.hold].reserved
    BY <1>7, <1>8, <1>13
  <2> QED
    BY <1>0, <1>11, <2>1, <2>2, ClosedHold
<1>15. n <= Reserved(p) /\ charge <= n
  <2>1. entries[h].reserved <= SumReserved(OpenOf(p))
    BY <1>0, <1>13, OpenHolds
  <2> QED
    BY <1>5, <1>7, <2>1 DEF LedgerInv, HoldsAccounted
<1>16. /\ Reserved(p) \in Nat /\ Consumed(p) \in Nat /\ plans[p].quota \in Nat
       /\ Reserved(p) + Consumed(p) <= plans[p].quota
  BY Balances
<1>17. Consumed(p) + charge >= 0 /\ (Reserved(p) + (- n)) + (Consumed(p) + charge) <= plans[p].quota
  BY <1>15, <1>16
<1>18. e.invoice \in Invoices => SumConsumed(LineOf(e.invoice, e.plan)) + e.consumed >= 0
  <2>1. LineOf(e.invoice, e.plan) \in SUBSET DOMAIN entries
    BY DEF LineOf, OfPlan
  <2>2. SumConsumed(LineOf(e.invoice, e.plan)) \in Int
    BY <1>0, <2>1, EntriesTable, SumsTyped, SumsRead
  <2>3. e.invoice \in Invoices => SumConsumed(LineOf(e.invoice, e.plan)) >= 0
    BY <1>8 DEF LedgerInv, LinesCovered
  <2> QED
    BY <1>8, <2>2, <2>3
<1>19. LedgerInv'
  BY <1>5, <1>8, <1>9, <1>10, <1>11, <1>12, <1>14, <1>17, <1>18, OneKeeps
<1>20. AccountStep
  <2>1. /\ Granted' = Granted
        /\ OnHold' = [OnHold EXCEPT ![p] = @ + (- n)]
        /\ Used' = [Used EXCEPT ![p] = @ + charge]
    BY <1>0, <1>8, <1>11, OneAccount
  <2> QED
    BY <1>15, <2>1, CloseStep
<1> QED
  BY <1>5, <1>8, <1>11, <1>19, <1>20

\* An invoice may be charged more for a plan as long as the plan has room.
LEMMA AdjustKeeps ==
  ASSUME LedgerInv, NEW k \in Finance, AdjustUsage(k)
  PROVE  /\ LedgerInv' /\ AccountStep
         /\ \E e : Enters(e) /\ e.kind = "adjustment" /\ e.hold = 0
<1>0. LedgerTypeOK /\ EntriesSound /\ ClosedOnce /\ HoldsAccounted /\ WithinQuota /\ LinesCovered
      /\ AuthsSound /\ AuthsMatched
  BY DEF LedgerInv
<1> DEFINE a == auths[k]
<1>1. /\ a.delta > 0 /\ a.root = 0 /\ a.target \in DOMAIN plans /\ a.delta <= Room(a.target)
      /\ UNCHANGED plans /\ auths' = [auths EXCEPT ![k].root = Now]
  BY DEF AdjustUsage, MaySpend, Spend, Charged
<1>2. a.delta \in Int
  BY <1>0, AuthsTyped
<1>3. PICK p \in DOMAIN plans : p = a.target
  BY <1>1
<1>4. PICK n \in Nat : n = a.delta /\ n # 0
  BY <1>1, <1>2
<1>5. PICK inv : inv = a.invoice
  OBVIOUS
<1> DEFINE e == Entry("adjustment", p, k, 0, 0, n, inv, k)
<1>6. /\ e.kind = "adjustment" /\ e.plan = p /\ e.key = k /\ e.hold = 0 /\ e.reserved = 0
      /\ e.consumed = n /\ e.invoice = inv /\ e.auth = k
  BY DEF Entry
<1>7. e \in Records
  <2>1. p \in 1..MaxPlans
    BY <1>0, EntriesTable DEF Versions
  <2>2. inv \in Invoices \cup {None}
    BY <1>0, <1>5 DEF LedgerTypeOK
  <2>3. n \in Int /\ 0 \in 0..MaxEntries
    BY AmountsAssumption
  <2> QED
    BY <2>1, <2>2, <2>3 DEF Entry, Records, Kinds, Keys
<1>8. n <= Room(p) /\ Now <= MaxEntries /\ entries' = entries \o <<e>>
  <2> DEFINE new == <<e>>
  <2>1. Record(new)
    BY <1>3, <1>4, <1>5 DEF AdjustUsage
  <2>2. Len(new) = 1
    OBVIOUS
  <2> HIDE DEF new
  <2>3. Len(entries) + Len(new) <= MaxEntries /\ entries' = entries \o new
    BY <2>1 DEF Record
  <2> QED
    BY <1>1, <1>3, <1>4, <2>2, <2>3 DEF Now, new
<1> HIDE DEF e
<1>9. Adds(<<e>>) /\ Enters(e)
  BY <1>0, <1>7, <1>8, OneAppended
<1>10. EntrySound(e, entries', plans)
  BY <1>6 DEF EntrySound, ReservationSound, CloserSound, OthersSound
<1>11. /\ Reserved(p) \in Nat /\ Consumed(p) \in Nat /\ plans[p].quota \in Nat
       /\ Reserved(p) + Consumed(p) <= plans[p].quota
  BY Balances
<1> DEFINE new == <<e>>
<1>12. Len(new) = 1 /\ new[1] = e /\ DOMAIN new = {1} /\ Adds(new)
  BY <1>9
<1> HIDE DEF new
<1>13. \A j \in DOMAIN new : new[j] = e
  BY <1>12
<1>14. EntriesSound'
  BY <1>0, <1>1, <1>10, <1>12, <1>13, SoundGrows
<1>15. ClosedOnce'
  BY <1>0, <1>6, <1>12, <1>13, ClosedOnceGrows
<1>16. HoldsAccounted'
  <2>1. PlansDiffer(new)
    BY <1>12 DEF PlansDiffer
  <2>2. \A j \in DOMAIN new : new[j].kind # "reservation" /\ new[j].hold = 0 /\ new[j].reserved = 0
    BY <1>6, <1>13
  <2> QED
    BY <1>0, <1>1, <1>12, <2>1, <2>2, CorrectionsKeepHolds
<1>17. WithinQuota' /\ LinesCovered'
  <2>1. Consumed(p) + n >= 0 /\ (Reserved(p) + 0) + (Consumed(p) + n) <= plans[p].quota
    BY <1>8, <1>11 DEF Room
  <2>2. inv \in Invoices => SumConsumed(LineOf(inv, p)) + n >= 0
    <3>1. LineOf(inv, p) \in SUBSET DOMAIN entries
      BY DEF LineOf, OfPlan
    <3>2. SumConsumed(LineOf(inv, p)) \in Int
      BY <1>0, <3>1, EntriesTable, SumsTyped, SumsRead
    <3>3. inv \in Invoices => SumConsumed(LineOf(inv, p)) >= 0
      BY <1>0 DEF LinesCovered
    <3> QED
      BY <3>2, <3>3
  <2>3. e.consumed \in Int
    BY <1>6
  <2> QED
    BY <1>0, <1>1, <1>6, <1>9, <2>1, <2>2, <2>3, OneWithin
<1>18. Len(entries') = Now /\ Now \in Nat \ {0} /\ Len(entries) \in Nat /\ Now = Len(entries) + 1
  BY <1>0, <1>9, EntriesTable DEF Enters, Now
<1>19. auths' \in [Finance -> [invoice : Invoices \cup {None}, delta : Deltas \cup {0},
                         target : 0..MaxPlans, root : 0..MaxEntries]]
  <2>1. Now \in 0..MaxEntries
    BY <1>8, <1>18, AmountsAssumption
  <2> QED
    BY <1>0, <1>1, <2>1 DEF LedgerTypeOK
<1>20. /\ auths'[k].root = Now /\ auths'[k].delta = n /\ auths'[k].invoice = inv
       /\ \A l \in Finance : l # k => auths'[l] = auths[l]
  BY <1>0, <1>1, <1>4, <1>5 DEF LedgerTypeOK
<1>21. AuthsSound'
  <2>1. AuthsSound' = (\A l \in Finance : auths'[l].root <= Len(entries') /\ (auths'[l].delta = 0 => auths'[l].root = 0))
    BY DEF AuthsSound
  <2>2. ASSUME NEW l \in Finance
        PROVE  auths'[l].root <= Len(entries') /\ (auths'[l].delta = 0 => auths'[l].root = 0)
    <3>1. CASE l = k
      BY <1>4, <1>18, <1>20, <3>1
    <3>2. CASE l # k
      <4>1. auths[l].root \in Nat
        BY <1>0, AuthsTyped
      <4> QED
        BY <1>0, <1>18, <1>20, <3>2, <4>1 DEF AuthsSound
    <3> QED
      BY <3>1, <3>2
  <2> QED
    BY <2>1, <2>2
<1>22. AuthsMatched'
  <2>1. ASSUME NEW l \in Finance, l # k PROVE AuthorizationMatches(l)'
    <3>1. \A j \in DOMAIN new : new[j].auth # l
      BY <1>6, <1>13, <2>1
    <3> QED
      BY <1>0, <1>1, <1>12, <1>20, <2>1, <3>1, OthersMatched
  <2>2. AuthorizationMatches(k)'
    <3>1. {i \in DOMAIN entries : entries[i].auth = k} = {}
      BY <1>0, <1>1 DEF AuthsMatched, AuthorizationMatches
    <3>2. {i \in DOMAIN entries' : entries'[i].auth = k} = {Now}
      BY <1>6, <1>9, <3>1 DEF Enters, Extends
    <3>3. entries'[Now].consumed = n
      BY <1>6, <1>9 DEF Enters
    <3> QED
      BY <1>4, <1>18, <1>20, <3>2, <3>3 DEF AuthorizationMatches
  <2> QED
    BY <2>1, <2>2 DEF AuthsMatched
<1>23. LedgerTypeOK'
  <2>1. entries' \in Seq(Records) /\ Len(entries') <= MaxEntries
    BY <1>8, <1>9, <1>18 DEF Enters
  <2> QED
    BY <1>0, <1>1, <1>19, <2>1 DEF LedgerTypeOK
<1>24. AccountStep
  <2>1. /\ Granted' = Granted
        /\ OnHold' = [OnHold EXCEPT ![p] = @ + 0]
        /\ Used' = [Used EXCEPT ![p] = @ + n]
    BY <1>0, <1>1, <1>6, <1>9, OneAccount
  <2> QED
    BY <1>8, <2>1, ChargeStep
<1>25. LedgerInv'
  BY <1>14, <1>15, <1>16, <1>17, <1>21, <1>22, <1>23 DEF LedgerInv
<1> QED
  BY <1>6, <1>9, <1>24, <1>25

(***************************************************************************)
(* Operations that write no entry.                                         *)
(***************************************************************************)
LEMMA SameEntries ==
  ASSUME entries' = entries
  PROVE  /\ \A p : /\ OfPlan(p)' = OfPlan(p) /\ Reserved(p)' = Reserved(p) /\ Consumed(p)' = Consumed(p)
                   /\ SumReserved(OpenOf(p))' = SumReserved(OpenOf(p))
                   /\ \A inv : SumConsumed(LineOf(inv, p))' = SumConsumed(LineOf(inv, p))
         /\ OnHold' = OnHold /\ Used' = Used /\ ClosedOnce' = ClosedOnce
<1>1. ASSUME NEW p
      PROVE  /\ OfPlan(p)' = OfPlan(p) /\ Reserved(p)' = Reserved(p) /\ Consumed(p)' = Consumed(p)
             /\ SumReserved(OpenOf(p))' = SumReserved(OpenOf(p))
  BY DEF OfPlan, Reserved, Consumed, SumReserved, SumConsumed, OpenOf, IsReservation, Closers
<1>2. ASSUME NEW p, NEW inv
      PROVE  SumConsumed(LineOf(inv, p))' = SumConsumed(LineOf(inv, p))
  BY DEF SumConsumed, LineOf, InvoiceOf, OfPlan
<1>3. OnHold' = OnHold /\ Used' = Used
  BY <1>1 DEF OnHold, Used, Versions
<1>4. ClosedOnce' = ClosedOnce
  BY DEF ClosedOnce
<1> QED
  BY <1>1, <1>2, <1>3, <1>4

LEMMA SameMatch ==
  ASSUME LedgerInv, entries' = entries, DOMAIN plans \subseteq DOMAIN plans', NEW k \in Finance,
         auths'[k] = auths[k]
  PROVE  AuthorizationMatches(k)'
<1>0. LedgerTypeOK /\ EntriesSound
  BY DEF LedgerInv
<1>1. Table(entries) /\ DOMAIN entries = 1..Len(entries) /\ Len(entries) \in Nat
  BY <1>0, EntriesTable
<1>2. Extends(entries, entries') /\ Table(entries')
  BY <1>1 DEF Extends
<1>3. DOMAIN entries' \subseteq Nat
  BY <1>1
<1>4. auths[k].root \in Nat /\ auths[k].delta \in Int
  BY <1>0, AuthsTyped
<1>5. auths[k].root <= Len(entries) /\ AuthorizationMatches(k)
  BY DEF LedgerInv, AuthsSound, AuthsMatched
<1> QED
  BY <1>0, <1>2, <1>3, <1>4, <1>5, MatchKept

LEMMA PlansKeep ==
  ASSUME LedgerInv, UNCHANGED <<entries, auths>>,
         plans' \in Seq([quota : Quotas, phase : Phases]), Len(plans') <= MaxPlans,
         DOMAIN plans \subseteq DOMAIN plans',
         \A p \in DOMAIN plans : plans'[p].quota = plans[p].quota
  PROVE  LedgerInv'
<1>0. LedgerTypeOK /\ EntriesSound /\ ClosedOnce /\ HoldsAccounted /\ WithinQuota /\ LinesCovered
      /\ AuthsSound /\ AuthsMatched
  BY DEF LedgerInv
<1>1. LedgerTypeOK'
  BY <1>0 DEF LedgerTypeOK
<1>2. EntriesSound'
  BY <1>0 DEF EntriesSound, EntrySound
<1>3. ClosedOnce'
  BY <1>0, SameEntries
<1>4. ASSUME NEW p \in DOMAIN plans', p \notin DOMAIN plans
      PROVE  /\ Reserved(p) = 0 /\ Consumed(p) = 0 /\ SumReserved(OpenOf(p)) = 0
             /\ \A inv : SumConsumed(LineOf(inv, p)) = 0
  <2>1. OfPlan(p) = {}
    BY <1>0, <1>4 DEF OfPlan, EntriesSound, EntrySound
  <2>2. OpenOf(p) = {} /\ \A inv : LineOf(inv, p) = {}
    BY <2>1 DEF OpenOf, LineOf
  <2> QED
    BY <2>1, <2>2, SumsRead, SumsOfNone DEF Reserved, Consumed
<1>5. HoldsAccounted'
  <2>1. HoldsAccounted' = (\A p \in DOMAIN plans' : Reserved(p)' = SumReserved(OpenOf(p))')
    BY DEF HoldsAccounted
  <2> QED
    BY <1>0, <1>4, <2>1, SameEntries DEF HoldsAccounted
<1>6. ASSUME NEW p \in DOMAIN plans' PROVE plans'[p].quota \in Nat
  <2>1. plans'[p] \in [quota : Quotas, phase : Phases]
    BY ElementOfSeq, LenProperties
  <2> QED
    BY <2>1, AmountsAssumption
<1>7. WithinQuota'
  <2>1. WithinQuota' = (\A p \in DOMAIN plans' : Consumed(p)' >= 0 /\ Reserved(p)' + Consumed(p)' <= plans'[p].quota)
    BY DEF WithinQuota
  <2>2. ASSUME NEW p \in DOMAIN plans'
        PROVE  Consumed(p) >= 0 /\ Reserved(p) + Consumed(p) <= plans'[p].quota
    <3>1. CASE p \in DOMAIN plans
      BY <1>0, <3>1 DEF WithinQuota
    <3>2. CASE p \notin DOMAIN plans
      <4>1. Reserved(p) = 0 /\ Consumed(p) = 0 /\ plans'[p].quota \in Nat
        BY <1>4, <1>6, <3>2
      <4> QED
        BY <4>1
    <3> QED
      BY <3>1, <3>2
  <2> QED
    BY <2>1, <2>2, SameEntries
<1>8. LinesCovered'
  <2>1. LinesCovered' = (\A inv \in Invoices, p \in DOMAIN plans' : SumConsumed(LineOf(inv, p))' >= 0)
    BY DEF LinesCovered
  <2>2. ASSUME NEW inv \in Invoices, NEW p \in DOMAIN plans'
        PROVE  SumConsumed(LineOf(inv, p)) >= 0
    <3>1. CASE p \in DOMAIN plans
      BY <1>0, <3>1 DEF LinesCovered
    <3>2. CASE p \notin DOMAIN plans
      BY <1>4, <3>2
    <3> QED
      BY <3>1, <3>2
  <2> QED
    BY <2>1, <2>2, SameEntries
<1>9. AuthsSound'
  BY <1>0 DEF AuthsSound
<1>10. AuthsMatched'
  <2>1. ASSUME NEW k \in Finance PROVE AuthorizationMatches(k)'
    BY SameMatch
  <2> QED
    BY <2>1 DEF AuthsMatched
<1> QED
  BY <1>1, <1>2, <1>3, <1>5, <1>7, <1>8, <1>9, <1>10 DEF LedgerInv

LEMMA SameLedger ==
  ASSUME LedgerInv, UNCHANGED ledger
  PROVE  LedgerInv' /\ AccountStep
<1>1. UNCHANGED <<plans, entries, auths>>
  BY DEF ledger
<1>2. plans \in Seq([quota : Quotas, phase : Phases]) /\ Len(plans) <= MaxPlans
  BY DEF LedgerInv, LedgerTypeOK
<1>3. LedgerInv'
  BY <1>1, <1>2, PlansKeep
<1>4. Granted' = Granted
  BY <1>1 DEF Granted, Versions
<1> QED
  BY <1>1, <1>3, <1>4, SameEntries DEF AccountStep

LEMMA CreateKeeps ==
  ASSUME LedgerInv, NEW q \in Quotas, CreateUsageEntitlement(q)
  PROVE  LedgerInv' /\ AccountStep
<1>0. LedgerTypeOK
  BY DEF LedgerInv
<1>1. /\ UNCHANGED <<entries, auths>>
      /\ plans' = Append(plans, [quota |-> q, phase |-> "current"]) /\ Len(plans) < MaxPlans
  BY DEF CreateUsageEntitlement
<1>2. plans \in Seq([quota : Quotas, phase : Phases]) /\ Len(plans) \in Nat /\ DOMAIN plans = 1..Len(plans)
  BY <1>0, EntriesTable DEF LedgerTypeOK
<1> DEFINE n == Len(plans) + 1
<1>3. /\ plans' \in Seq([quota : Quotas, phase : Phases]) /\ Len(plans') = n
      /\ DOMAIN plans' = 1..n /\ plans'[n] = [quota |-> q, phase |-> "current"]
      /\ \A p \in 1..Len(plans) : plans'[p] = plans[p]
  <2> DEFINE R == [quota : Quotas, phase : Phases]
             x == [quota |-> q, phase |-> "current"]
  <2>1. plans \in Seq(R) /\ x \in R /\ plans' = Append(plans, x)
    BY <1>1, <1>2 DEF Phases
  <2> HIDE DEF R, x
  <2>2. /\ plans' \in Seq(R) /\ Len(plans') = n /\ plans'[n] = x
        /\ \A p \in 1..Len(plans) : plans'[p] = plans[p]
    BY <2>1, AppendProperties
  <2>3. DOMAIN plans' = 1..n
    BY <2>2, LenProperties
  <2> QED
    BY <2>2, <2>3 DEF R, x
<1>4. MaxPlans \in Nat /\ n \in Versions /\ n \notin DOMAIN plans /\ DOMAIN plans' = DOMAIN plans \cup {n}
  BY <1>1, <1>2, <1>3, AmountsAssumption DEF Versions
<1>5. Len(plans') <= MaxPlans
  BY <1>1, <1>2, <1>3, <1>4
<1> HIDE DEF n
<1>6. LedgerInv'
  <2>1. \A p \in DOMAIN plans : plans'[p].quota = plans[p].quota
    BY <1>2, <1>3
  <2>2. DOMAIN plans \subseteq DOMAIN plans'
    BY <1>4
  <2> QED
    BY <1>1, <1>3, <1>5, <2>1, <2>2, PlansKeep
<1>7. Granted' = [Granted EXCEPT ![n] = q] /\ Granted[n] = 0
  <2>1. Granted' = [p \in Versions |-> IF p \in DOMAIN plans' THEN plans'[p].quota ELSE 0]
    BY DEF Granted, Versions
  <2>2. plans'[n].quota = q /\ \A p \in DOMAIN plans : plans'[p] = plans[p]
    BY <1>2, <1>3
  <2> QED
    BY <1>4, <2>1, <2>2 DEF Granted
<1>8. UNCHANGED <<OnHold, Used>>
  BY <1>1, SameEntries
<1>9. q \in UpToOneOf(Quotas)
  BY AmountsAssumption DEF UpToOneOf
<1>10. Account!Grant(n, q)
  BY <1>7, <1>8 DEF Account!Grant
<1> QED
  BY <1>4, <1>6, <1>9, <1>10 DEF AccountStep, Account!Next

LEMMA PeriodKeeps ==
  ASSUME LedgerInv, NEW p \in DOMAIN plans, PeriodEnds(p)
  PROVE  LedgerInv' /\ AccountStep
<1>0. LedgerTypeOK
  BY DEF LedgerInv
<1>1. UNCHANGED <<entries, auths>> /\ plans' = [plans EXCEPT ![p].phase = "past"]
  BY DEF PeriodEnds
<1>2. plans \in Seq([quota : Quotas, phase : Phases]) /\ Len(plans) \in Nat /\ DOMAIN plans = 1..Len(plans)
      /\ Len(plans) <= MaxPlans
  BY <1>0, EntriesTable DEF LedgerTypeOK
<1>3. plans \in [1..Len(plans) -> [quota : Quotas, phase : Phases]]
  <2> DEFINE R == [quota : Quotas, phase : Phases]
  <2>1. plans \in Seq(R)
    BY <1>2
  <2> HIDE DEF R
  <2>2. plans \in [1..Len(plans) -> R]
    BY <2>1, LenProperties
  <2> QED
    BY <2>2 DEF R
<1>4. plans' \in [1..Len(plans) -> [quota : Quotas, phase : Phases]]
  BY <1>1, <1>3 DEF Phases
<1>5. \A o \in DOMAIN plans : plans'[o].quota = plans[o].quota
  BY <1>1, <1>3
<1>6. plans' \in Seq([quota : Quotas, phase : Phases]) /\ DOMAIN plans' = DOMAIN plans
      /\ Len(plans') = Len(plans)
  <2> DEFINE R == [quota : Quotas, phase : Phases]
             m == Len(plans)
  <2>1. plans' \in [1..m -> R] /\ m \in Nat
    BY <1>2, <1>4
  <2> HIDE DEF R, m
  <2>2. plans' \in Seq(R) /\ DOMAIN plans' = 1..m
    BY <2>1
  <2>3. Len(plans') = m
    BY <2>1, <2>2, LenProperties
  <2> QED
    BY <1>2, <2>2, <2>3 DEF R, m
<1>7. LedgerInv'
  BY <1>1, <1>2, <1>5, <1>6, PlansKeep
<1>8. Granted' = Granted
  BY <1>5, <1>6 DEF Granted, Versions
<1> QED
  BY <1>1, <1>7, <1>8, SameEntries DEF AccountStep

LEMMA AuthorizeKeeps ==
  ASSUME LedgerInv, NEW k \in Finance, NEW inv \in Invoices, NEW delta \in Deltas,
         NEW target \in 0..Len(plans), Authorize(k, inv, delta, target)
  PROVE  LedgerInv' /\ AccountStep
<1>0. LedgerTypeOK /\ EntriesSound /\ ClosedOnce /\ HoldsAccounted /\ WithinQuota /\ LinesCovered
      /\ AuthsSound /\ AuthsMatched
  BY DEF LedgerInv
<1> DEFINE a == [invoice |-> inv, delta |-> delta, target |-> target, root |-> 0]
<1>1. auths[k].root = 0 /\ auths' = [auths EXCEPT ![k] = a] /\ UNCHANGED <<plans, entries>>
  BY DEF Authorize, NoAuthorization
<1>2. target \in 0..MaxPlans /\ 0 \in 0..MaxEntries
  <2>1. Len(plans) \in Nat /\ Len(plans) <= MaxPlans /\ MaxPlans \in Nat /\ MaxEntries \in Nat
    BY <1>0, EntriesTable, AmountsAssumption DEF LedgerTypeOK
  <2> QED
    BY <2>1
<1>3. auths' \in [Finance -> [invoice : Invoices \cup {None}, delta : Deltas \cup {0},
                         target : 0..MaxPlans, root : 0..MaxEntries]]
  BY <1>0, <1>1, <1>2 DEF LedgerTypeOK
<1>4. auths'[k] = a /\ \A l \in Finance : l # k => auths'[l] = auths[l]
  BY <1>0, <1>1 DEF LedgerTypeOK
<1>5. LedgerTypeOK'
  BY <1>0, <1>1, <1>3 DEF LedgerTypeOK
<1>6. Len(entries) \in Nat
  BY <1>0, EntriesTable
<1>7. AuthsSound'
  BY <1>0, <1>1, <1>4, <1>6 DEF AuthsSound
<1>8. AuthsMatched'
  <2>1. ASSUME NEW l \in Finance, l # k PROVE AuthorizationMatches(l)'
    BY <1>1, <1>4, <2>1, SameMatch
  <2>2. AuthorizationMatches(k)'
    <3>1. {i \in DOMAIN entries : entries[i].auth = k} = {}
      BY <1>0, <1>1 DEF AuthsMatched, AuthorizationMatches
    <3> QED
      BY <1>1, <1>4, <3>1 DEF AuthorizationMatches
  <2> QED
    BY <2>1, <2>2 DEF AuthsMatched
<1>9. HoldsAccounted' /\ WithinQuota' /\ LinesCovered' /\ ClosedOnce'
  <2>1. /\ HoldsAccounted' = (\A p \in DOMAIN plans' : Reserved(p)' = SumReserved(OpenOf(p))')
        /\ WithinQuota' = (\A p \in DOMAIN plans' : Consumed(p)' >= 0 /\ Reserved(p)' + Consumed(p)' <= plans'[p].quota)
        /\ LinesCovered' = (\A i \in Invoices, p \in DOMAIN plans' : SumConsumed(LineOf(i, p))' >= 0)
    BY DEF HoldsAccounted, WithinQuota, LinesCovered
  <2> QED
    BY <1>0, <1>1, <2>1, SameEntries DEF HoldsAccounted, WithinQuota, LinesCovered
<1>10. EntriesSound'
  BY <1>0, <1>1 DEF EntriesSound
<1>11. LedgerInv'
  BY <1>5, <1>7, <1>8, <1>9, <1>10 DEF LedgerInv
<1>12. Granted' = Granted
  BY <1>1 DEF Granted, Versions
<1> QED
  BY <1>1, <1>11, <1>12, SameEntries DEF AccountStep

(***************************************************************************)
(* A credit, which enters one entry for each of its portions.              *)
(***************************************************************************)
\* A credit is spent on what its invoice charged for plans of the ledger.
LEMMA PortionsOfInvoice ==
  ASSUME LedgerInv, NEW inv, NEW c \in Nat, NEW P, P = CreditPortions(inv, c, Now)
  PROVE  /\ Len(P) \in Nat /\ DOMAIN P = 1..Len(P) /\ (P # <<>> => Len(P) # 0)
         /\ \A i \in DOMAIN P : /\ P[i].plan \in DOMAIN plans /\ P[i].amount \in Nat
                               /\ P[i].amount <= SumConsumed(LineOf(inv, P[i].plan))
         /\ \A i, j \in DOMAIN P : P[i].plan = P[j].plan => i = j
<1>0. LedgerTypeOK
  BY DEF LedgerInv
<1> DEFINE S == Charged(inv, Now)
           allocated == [p \in S |-> Allocated(inv, p, Now)]
<1>1. Portions(P, S, allocated)
  BY <1>0, CreditPortionsOf
<1>2. S \subseteq DOMAIN plans
  BY DEF Charged
<1>3. ASSUME NEW p \in S PROVE allocated[p] = SumConsumed(LineOf(inv, p))
  <2>1. \A i \in DOMAIN entries : i < Now
    BY <1>0, EntriesTable DEF Now
  <2>2. InvoiceLine(inv, p, Now) = LineOf(inv, p)
    BY <2>1 DEF InvoiceLine, LineOf, InvoiceOf, OfPlan
  <2> QED
    BY <2>2 DEF Allocated
<1> HIDE DEF S, allocated
<1>4. /\ P \in Seq([plan : S, amount : Nat])
      /\ Len(P) \in Nat /\ DOMAIN P = 1..Len(P)
      /\ \A i \in DOMAIN P : P[i].plan \in S /\ P[i].amount \in Nat
                            /\ P[i].amount <= allocated[P[i].plan]
      /\ \A i, j \in DOMAIN P : P[i].plan = P[j].plan => i = j
  BY <1>1, PortionsSeq
<1>5. P # <<>> => Len(P) # 0
  BY <1>4, EmptySeq
<1> QED
  BY <1>2, <1>3, <1>4, <1>5

LEMMA CreditWithin ==
  ASSUME LedgerInv, NEW inv, NEW new, Adds(new), PlansDiffer(new), UNCHANGED plans,
         \A j \in DOMAIN new :
           /\ new[j].reserved = 0 /\ new[j].consumed \in Int /\ new[j].invoice = inv
           /\ new[j].consumed <= 0
           /\ 0 <= Consumed(new[j].plan) + new[j].consumed
           /\ 0 <= SumConsumed(LineOf(inv, new[j].plan)) + new[j].consumed
  PROVE  WithinQuota' /\ LinesCovered'
<1>0. LedgerTypeOK
  BY DEF LedgerInv
<1>1. WithinQuota' = (\A p \in DOMAIN plans : Consumed(p)' >= 0 /\ Reserved(p)' + Consumed(p)' <= plans[p].quota)
  BY DEF WithinQuota
<1>2. LinesCovered' = (\A i \in Invoices, p \in DOMAIN plans : SumConsumed(LineOf(i, p))' >= 0)
  BY DEF LinesCovered
<1>3. ASSUME NEW p \in DOMAIN plans
      PROVE  /\ Consumed(p)' >= 0 /\ Reserved(p)' + Consumed(p)' <= plans[p].quota
             /\ \A i \in Invoices : SumConsumed(LineOf(i, p))' >= 0
  <2>1. CASE \A j \in DOMAIN new : new[j].plan # p
    <3>1. Reserved(p)' = Reserved(p) /\ Consumed(p)' = Consumed(p)
          /\ \A i : SumConsumed(LineOf(i, p))' = SumConsumed(LineOf(i, p))
      BY <1>0, <2>1, PlanUntouched
    <3> QED
      BY <3>1 DEF LedgerInv, WithinQuota, LinesCovered
  <2>2. CASE ~(\A j \in DOMAIN new : new[j].plan # p)
    <3>1. PICK j \in DOMAIN new : new[j].plan = p
      BY <2>2
    <3>2. PICK x \in Int : x = new[j].consumed /\ x <= 0
      OBVIOUS
    <3>3. /\ new[j].reserved = 0 /\ new[j].invoice = inv
          /\ 0 <= Consumed(p) + x /\ 0 <= SumConsumed(LineOf(inv, p)) + x
      BY <3>1, <3>2
    <3>4. /\ Reserved(p)' = Reserved(p) + 0 /\ Consumed(p)' = Consumed(p) + x
          /\ \A i : SumConsumed(LineOf(i, p))' = SumConsumed(LineOf(i, p)) + (IF inv = i THEN x ELSE 0)
      BY <1>0, <3>1, <3>2, <3>3, PlanEntered
    <3>5. Reserved(p) \in Nat /\ Consumed(p) \in Nat /\ plans[p].quota \in Nat
          /\ Reserved(p) + Consumed(p) <= plans[p].quota
      BY Balances
    <3>6. Consumed(p)' >= 0 /\ Reserved(p)' + Consumed(p)' <= plans[p].quota
      BY <3>2, <3>3, <3>4, <3>5
    <3>7. ASSUME NEW i \in Invoices PROVE SumConsumed(LineOf(i, p))' >= 0
      <4>1. CASE i = inv
        <5>1. SumConsumed(LineOf(i, p))' = SumConsumed(LineOf(i, p)) + x
          BY <3>4, <4>1
        <5>2. LineOf(i, p) \in SUBSET DOMAIN entries
          BY DEF LineOf, OfPlan
        <5>3. SumConsumed(LineOf(i, p)) \in Int
          BY <1>0, <5>2, EntriesTable, SumsTyped, SumsRead
        <5> QED
          BY <3>2, <3>3, <4>1, <5>1, <5>3
      <4>2. CASE i # inv
        <5>1. SumConsumed(LineOf(i, p))' = SumConsumed(LineOf(i, p)) + 0
          BY <3>4, <4>2
        <5>2. LineOf(i, p) \in SUBSET DOMAIN entries
          BY DEF LineOf, OfPlan
        <5>3. SumConsumed(LineOf(i, p)) \in Int
          BY <1>0, <5>2, EntriesTable, SumsTyped, SumsRead
        <5>4. SumConsumed(LineOf(i, p)) >= 0
          BY DEF LedgerInv, LinesCovered
        <5> QED
          BY <5>1, <5>3, <5>4
      <4> QED
        BY <4>1, <4>2
    <3> QED
      BY <3>6, <3>7
  <2> QED
    BY <2>1, <2>2
<1> QED
  BY <1>1, <1>2, <1>3

\* What the portions take from each account, at once.
LEMMA CreditStep ==
  ASSUME LedgerInv, NEW n \in Nat \ {0}, NEW new, Adds(new), PlansDiffer(new), UNCHANGED plans,
         DOMAIN new = 1..n, NEW amount \in [1..n -> Nat],
         \A j \in 1..n : /\ new[j].plan \in DOMAIN plans /\ new[j].reserved = 0
                         /\ new[j].consumed = - amount[j] /\ amount[j] <= Consumed(new[j].plan)
  PROVE  AccountStep
<1>0. LedgerTypeOK /\ EntriesSound
  BY DEF LedgerInv
<1> DEFINE credit == [p \in Versions |->
                        IF \E j \in 1..n : new[j].plan = p
                          THEN amount[CHOOSE j \in 1..n : new[j].plan = p] ELSE 0]
<1>1. ASSUME NEW p \in Versions, \A j \in 1..n : new[j].plan # p
      PROVE  /\ credit[p] = 0 /\ OnHold'[p] = OnHold[p] /\ Used'[p] = Used[p] - credit[p]
             /\ credit[p] <= Used[p] /\ credit[p] \in UpToOneOf(Quotas)
  <2>1. credit[p] = 0
    BY <1>1
  <2>2. Reserved(p)' = Reserved(p) /\ Consumed(p)' = Consumed(p)
    BY <1>0, <1>1, PlanUntouched
  <2>3. OnHold'[p] = Reserved(p)' /\ Used'[p] = Consumed(p)' /\ OnHold[p] = Reserved(p) /\ Used[p] = Consumed(p)
    BY DEF OnHold, Used, Versions
  <2>4. Consumed(p) \in Nat
    <3>1. CASE p \in DOMAIN plans
      BY <3>1, Balances
    <3>2. CASE p \notin DOMAIN plans
      <4>1. OfPlan(p) = {}
        BY <1>0, <3>2 DEF OfPlan, EntriesSound, EntrySound
      <4> QED
        BY <4>1, SumsRead, SumsOfNone DEF Consumed
    <3> QED
      BY <3>1, <3>2
  <2>5. 0 \in UpToOneOf(Quotas)
    <3>1. 1 \in 1..n
      OBVIOUS
    <3>2. new[1].plan \in DOMAIN plans
      BY <3>1
    <3>3. plans[new[1].plan].quota \in Nat
      BY <3>2, Balances
    <3>4. 0 <= plans[new[1].plan].quota
      BY <3>3
    <3> QED
      BY <1>0, <3>2, <3>4, SumsUpToAQuota
  <2> HIDE DEF credit
  <2> QED
    BY <2>1, <2>2, <2>3, <2>4, <2>5
<1>2. ASSUME NEW p \in Versions, NEW i \in 1..n, new[i].plan = p
      PROVE  /\ OnHold'[p] = OnHold[p] /\ Used'[p] = Used[p] - credit[p]
             /\ credit[p] <= Used[p] /\ credit[p] \in UpToOneOf(Quotas)
  <2>1. PICK j \in 1..n : new[j].plan = p /\ credit[p] = amount[j]
    BY <1>2
  <2> HIDE DEF credit
  <2>2. /\ p \in DOMAIN plans /\ new[j].reserved = 0
        /\ new[j].consumed = - amount[j] /\ amount[j] <= Consumed(p)
    BY <2>1
  <2>3. PICK x \in Nat : x = amount[j]
    OBVIOUS
  <2>4. Reserved(p)' = Reserved(p) + 0 /\ Consumed(p)' = Consumed(p) + (- x)
    BY <1>0, <2>1, <2>2, <2>3, PlanEntered
  <2>5. Reserved(p) \in Nat /\ Consumed(p) \in Nat /\ plans[p].quota \in Nat
        /\ Reserved(p) + Consumed(p) <= plans[p].quota
    BY <2>2, Balances
  <2>6. OnHold'[p] = Reserved(p)' /\ Used'[p] = Consumed(p)' /\ OnHold[p] = Reserved(p) /\ Used[p] = Consumed(p)
    BY DEF OnHold, Used, Versions
  <2>7. x <= plans[p].quota /\ x <= Consumed(p)
    BY <2>2, <2>3, <2>5
  <2>8. x \in UpToOneOf(Quotas)
    BY <1>0, <2>2, <2>7, SumsUpToAQuota
  <2>9. credit[p] = x
    BY <2>1, <2>3
  <2>10. Reserved(p) + 0 = Reserved(p) /\ Consumed(p) + (- x) = Consumed(p) - x
    BY <2>5
  <2> QED
    BY <2>4, <2>6, <2>7, <2>8, <2>9, <2>10
<1>3. \A p \in Versions :
        /\ OnHold'[p] = OnHold[p] /\ Used'[p] = Used[p] - credit[p]
        /\ credit[p] <= Used[p] /\ credit[p] \in UpToOneOf(Quotas)
  <2> HIDE DEF credit
  <2> QED
    BY <1>1, <1>2
<1>4. credit \in [Versions -> UpToOneOf(Quotas)]
  <2>1. credit = [p \in Versions |-> credit[p]]
    OBVIOUS
  <2> HIDE DEF credit
  <2> QED
    BY <1>3, <2>1
<1> HIDE DEF credit
<1>5. OnHold' = OnHold
  <2>1. OnHold' = [p \in Versions |-> OnHold'[p]] /\ OnHold = [p \in Versions |-> OnHold[p]]
    BY DEF OnHold, Versions
  <2> QED
    BY <1>3, <2>1
<1>6. Used' = [p \in Versions |-> Used[p] - credit[p]]
  <2>1. Used' = [p \in Versions |-> Used'[p]]
    BY DEF Used, Versions
  <2> QED
    BY <1>3, <2>1
<1>7. Granted' = Granted
  BY DEF Granted, Versions
<1>8. Account!CreditBack(credit)
  BY <1>3, <1>5, <1>6, <1>7 DEF Account!CreditBack
<1> QED
  BY <1>4, <1>8 DEF AccountStep, Account!Next

LEMMA CreditKeeps ==
  ASSUME LedgerInv, NEW k \in Finance, CreditUsage(k)
  PROVE  /\ LedgerInv' /\ AccountStep /\ Extends(entries, entries')
         /\ \A i \in DOMAIN entries' : i \notin DOMAIN entries => entries'[i].kind = "credit"
<1>0. LedgerTypeOK /\ EntriesSound /\ ClosedOnce /\ HoldsAccounted /\ WithinQuota /\ LinesCovered
      /\ AuthsSound /\ AuthsMatched
  BY DEF LedgerInv
<1>1. PICK N : N = Now
  OBVIOUS
<1>2. PICK inv : inv = auths[k].invoice
  OBVIOUS
<1>3. /\ auths[k].delta < 0 /\ auths[k].root = 0 /\ UNCHANGED plans
      /\ auths' = [auths EXCEPT ![k].root = N]
  BY <1>1 DEF CreditUsage, MaySpend, Spend
<1>4. auths[k].delta \in Int
  BY <1>0, AuthsTyped
<1>5. PICK c \in Nat : c = - auths[k].delta
  BY <1>3, <1>4
<1>6. PICK P : P = CreditPortions(inv, c, N)
  OBVIOUS
<1>7. /\ P # <<>> /\ \A i \in DOMAIN P : P[i].amount <= Consumed(P[i].plan)
      /\ Record(CreditEntries(k, P))
  BY <1>1, <1>2, <1>5, <1>6 DEF CreditUsage
<1>8. /\ Len(P) \in Nat /\ DOMAIN P = 1..Len(P) /\ Len(P) # 0
      /\ \A i \in DOMAIN P : /\ P[i].plan \in DOMAIN plans /\ P[i].amount \in Nat
                             /\ P[i].amount <= SumConsumed(LineOf(inv, P[i].plan))
      /\ \A i, j \in DOMAIN P : P[i].plan = P[j].plan => i = j
  BY <1>1, <1>6, <1>7, PortionsOfInvoice
<1>9. PICK n \in Nat \ {0} : n = Len(P)
  BY <1>8
<1>10. PICK new : new = CreditEntries(k, P)
  OBVIOUS
<1>11. new = [i \in 1..n |-> Entry("credit", P[i].plan, IF i = 1 THEN k ELSE None, 0, 0,
                                   - P[i].amount, inv, k)]
  BY <1>2, <1>8, <1>9, <1>10 DEF CreditEntries
<1>12. \A i \in 1..n :
         /\ new[i].kind = "credit" /\ new[i].plan = P[i].plan /\ new[i].hold = 0 /\ new[i].reserved = 0
         /\ new[i].consumed = - P[i].amount /\ new[i].invoice = inv /\ new[i].auth = k
  BY <1>11 DEF Entry
<1>13. \A i \in 1..n : new[i] \in Records
  <2> SUFFICES ASSUME NEW i \in 1..n PROVE new[i] \in Records
    OBVIOUS
  <2>1. P[i].plan \in 1..MaxPlans
    BY <1>0, <1>8, <1>9, EntriesTable DEF Versions
  <2>2. inv \in Invoices \cup {None}
    BY <1>0, <1>2 DEF LedgerTypeOK
  <2>3. - P[i].amount \in Int /\ 0 \in 0..MaxEntries
    BY <1>8, <1>9, AmountsAssumption
  <2>4. (IF i = 1 THEN k ELSE None) \in Keys \cup {None}
    BY DEF Keys
  <2>5. new[i] = Entry("credit", P[i].plan, IF i = 1 THEN k ELSE None, 0, 0, - P[i].amount, inv, k)
    BY <1>11
  <2> QED
    BY <2>1, <2>2, <2>3, <2>4, <2>5 DEF Entry, Records, Kinds, Keys
<1>14. new \in Seq(Records) /\ DOMAIN new = 1..n /\ Len(new) = n
  <2>1. new \in [1..n -> Records]
    BY <1>11, <1>13
  <2> DEFINE R == Records
  <2>2. new \in [1..n -> R] /\ n \in Nat
    BY <2>1
  <2> HIDE DEF R
  <2>3. new \in Seq(R) /\ DOMAIN new = 1..n
    BY <2>2
  <2>4. Len(new) = n
    BY <2>3, LenProperties
  <2> QED
    BY <2>3, <2>4 DEF R
<1>15. entries' = entries \o new /\ Len(entries) + n <= MaxEntries
  BY <1>7, <1>10, <1>14 DEF Record
<1>16. Adds(new)
  BY <1>0, <1>14, <1>15, Appended
<1>17. PlansDiffer(new)
  BY <1>8, <1>9, <1>12, <1>14 DEF PlansDiffer
<1>18. EntriesSound'
  <2>1. \A j \in DOMAIN new : EntrySound(new[j], entries', plans)
    BY <1>8, <1>9, <1>12, <1>14 DEF EntrySound, ReservationSound, CloserSound, OthersSound
  <2> QED
    BY <1>0, <1>3, <1>16, <2>1, SoundGrows
<1>19. ClosedOnce'
  <2>1. \A j \in DOMAIN new : new[j].hold = 0
    BY <1>12, <1>14
  <2> QED
    BY <1>0, <1>16, <2>1, ClosedOnceGrows
<1>20. HoldsAccounted'
  <2>1. \A j \in DOMAIN new : new[j].kind # "reservation" /\ new[j].hold = 0 /\ new[j].reserved = 0
    BY <1>12, <1>14
  <2> QED
    BY <1>0, <1>3, <1>16, <1>17, <2>1, CorrectionsKeepHolds
<1> DEFINE amount == [i \in 1..n |-> P[i].amount]
<1>21. amount \in [1..n -> Nat]
  BY <1>8, <1>9
<1>22. \A j \in 1..n :
         /\ new[j].plan \in DOMAIN plans /\ new[j].reserved = 0 /\ new[j].invoice = inv
         /\ new[j].consumed = - amount[j] /\ amount[j] <= Consumed(new[j].plan)
         /\ amount[j] <= SumConsumed(LineOf(inv, new[j].plan)) /\ amount[j] \in Nat
  BY <1>7, <1>8, <1>9, <1>12
<1> HIDE DEF amount
<1>23. WithinQuota' /\ LinesCovered'
  <2>1. ASSUME NEW j \in 1..n
        PROVE  /\ new[j].reserved = 0 /\ new[j].consumed \in Int /\ new[j].invoice = inv
               /\ new[j].consumed <= 0
               /\ 0 <= Consumed(new[j].plan) + new[j].consumed
               /\ 0 <= SumConsumed(LineOf(inv, new[j].plan)) + new[j].consumed
    <3>1. PICK p \in DOMAIN plans : p = new[j].plan
      BY <1>22
    <3>2. PICK x \in Nat : x = amount[j]
      BY <1>22
    <3>3. new[j].consumed = - x /\ x <= Consumed(p) /\ x <= SumConsumed(LineOf(inv, p))
      BY <1>22, <3>1, <3>2
    <3>4. LineOf(inv, p) \in SUBSET DOMAIN entries
      BY DEF LineOf, OfPlan
    <3>5. SumConsumed(LineOf(inv, p)) \in Int /\ Consumed(p) \in Int
      BY <1>0, <3>4, EntriesTable, SumsTyped, SumsRead, BalancesTyped
    <3> QED
      BY <1>22, <3>1, <3>3, <3>5
  <2> QED
    BY <1>3, <1>14, <1>16, <1>17, <2>1, CreditWithin
<1>24. AccountStep
  BY <1>3, <1>14, <1>16, <1>17, <1>21, <1>22, CreditStep
<1>25. /\ N = Len(entries) + 1 /\ Len(entries) \in Nat /\ Len(entries') = Len(entries) + n
       /\ N \in Nat /\ N <= Len(entries')
  <2>1. Len(entries) \in Nat /\ Len(entries') = Len(entries) + n /\ N = Len(entries) + 1
    BY <1>0, <1>1, <1>14, <1>16, EntriesTable DEF Adds, Now
  <2> QED
    BY <2>1
<1>26. /\ auths'[k].root = N /\ auths'[k].delta = auths[k].delta /\ auths'[k].invoice = inv
       /\ \A l \in Finance : l # k => auths'[l] = auths[l]
  BY <1>0, <1>2, <1>3 DEF LedgerTypeOK
<1>27. LedgerTypeOK'
  <2>1. N \in 0..MaxEntries
    BY <1>9, <1>15, <1>25, AmountsAssumption
  <2>2. auths' \in [Finance -> [invoice : Invoices \cup {None}, delta : Deltas \cup {0},
                         target : 0..MaxPlans, root : 0..MaxEntries]]
    BY <1>0, <1>3, <2>1 DEF LedgerTypeOK
  <2>3. entries' \in Seq(Records) /\ Len(entries') <= MaxEntries
    BY <1>15, <1>16, <1>25 DEF Adds
  <2> QED
    BY <1>0, <1>3, <2>2, <2>3 DEF LedgerTypeOK
<1>28. AuthsSound'
  <2>1. AuthsSound' = (\A l \in Finance : auths'[l].root <= Len(entries') /\ (auths'[l].delta = 0 => auths'[l].root = 0))
    BY DEF AuthsSound
  <2>2. ASSUME NEW l \in Finance
        PROVE  auths'[l].root <= Len(entries') /\ (auths'[l].delta = 0 => auths'[l].root = 0)
    <3>1. CASE l = k
      BY <1>3, <1>25, <1>26, <3>1
    <3>2. CASE l # k
      <4>1. auths[l].root \in Nat /\ auths[l].root <= Len(entries)
        BY <1>0, AuthsTyped DEF AuthsSound
      <4> QED
        BY <1>0, <1>25, <1>26, <3>2, <4>1 DEF AuthsSound
    <3> QED
      BY <3>1, <3>2
  <2> QED
    BY <2>1, <2>2
<1>29. AuthsMatched'
  <2>1. ASSUME NEW l \in Finance, l # k PROVE AuthorizationMatches(l)'
    <3>1. \A j \in DOMAIN new : new[j].auth # l
      BY <1>12, <1>14, <2>1
    <3> QED
      BY <1>0, <1>3, <1>16, <1>26, <2>1, <3>1, OthersMatched
  <2>2. CreditPortions(inv, c, N)' = P
    <3>1. \A i \in DOMAIN entries' : i < N => i \in DOMAIN entries
      <4>1. DOMAIN entries' = 1..Len(entries') /\ DOMAIN entries = 1..Len(entries)
        BY <1>0, <1>16, EntriesTable, LenProperties DEF Adds
      <4> QED
        BY <1>25, <4>1
    <3> QED
      BY <1>0, <1>3, <1>6, <1>16, <3>1, PortionsKept DEF Adds
  <2>3. {i \in DOMAIN entries : entries[i].auth = k} = {}
    BY <1>0, <1>3 DEF AuthsMatched, AuthorizationMatches
  <2>4. {i \in DOMAIN entries' : entries'[i].auth = k} = {At(j) : j \in 1..n}
    <3>1. /\ DOMAIN entries' = DOMAIN entries \cup {At(j) : j \in 1..n}
          /\ \A j \in 1..n : entries'[At(j)] = new[j]
          /\ \A i \in DOMAIN entries : entries'[i] = entries[i]
      BY <1>14, <1>16 DEF Adds, Extends
    <3>2. \A j \in 1..n : entries'[At(j)].auth = k
      BY <1>12, <3>1
    <3>3. \A i \in DOMAIN entries : entries'[i].auth # k
      BY <2>3, <3>1
    <3> QED
      BY <3>1, <3>2, <3>3
  <2>5. {At(j) : j \in 1..n} = N..(N + n - 1)
    <3>1. ASSUME NEW i \in N..(N + n - 1) PROVE i - Len(entries) \in 1..n /\ i = At(i - Len(entries))
      BY <1>25, <3>1 DEF At
    <3>2. ASSUME NEW j \in 1..n PROVE At(j) \in N..(N + n - 1)
      BY <1>25 DEF At
    <3> QED
      BY <3>1, <3>2
  <2>6. \A j \in 1..n : entries'[N + j - 1].plan = P[j].plan /\ entries'[N + j - 1].consumed = - P[j].amount
    <3> SUFFICES ASSUME NEW j \in 1..n
                 PROVE  entries'[N + j - 1].plan = P[j].plan /\ entries'[N + j - 1].consumed = - P[j].amount
      OBVIOUS
    <3>1. N + j - 1 = At(j)
      BY <1>25 DEF At
    <3>2. entries'[At(j)] = new[j]
      BY <1>14, <1>16 DEF Adds
    <3> QED
      BY <1>12, <3>1, <3>2
  <2>7. AuthorizationMatches(k)'
    <3>1. CreditPortions(auths[k].invoice, - auths[k].delta, auths[k].root)' = P
      <4>1. auths'[k].invoice = inv /\ - auths'[k].delta = c /\ auths'[k].root = N
        BY <1>5, <1>26
      <4> QED
        BY <2>2, <4>1
    <3>2. /\ {i \in DOMAIN entries' : entries'[i].auth = k} = N..(N + Len(P) - 1)
          /\ \A j \in DOMAIN P : entries'[N + j - 1].plan = P[j].plan
                                 /\ entries'[N + j - 1].consumed = - P[j].amount
      BY <1>8, <1>9, <2>4, <2>5, <2>6
    <3>3. N # 0 /\ ~(auths'[k].delta > 0)
      BY <1>3, <1>4, <1>25, <1>26
    <3> QED
      BY <1>26, <3>1, <3>2, <3>3 DEF AuthorizationMatches
  <2> QED
    BY <2>1, <2>7 DEF AuthsMatched
<1>30. Extends(entries, entries')
       /\ \A i \in DOMAIN entries' : i \notin DOMAIN entries => entries'[i].kind = "credit"
  BY <1>12, <1>14, <1>16 DEF Adds
<1>31. LedgerInv'
  BY <1>18, <1>19, <1>20, <1>23, <1>27, <1>28, <1>29 DEF LedgerInv
<1> QED
  BY <1>24, <1>30, <1>31

(***************************************************************************)
(* The runs.                                                               *)
(***************************************************************************)
JobType == [status : Statuses, hold : 0..MaxEntries, attempts : 0..MaxAttempts, retries : 0..MaxRetries]

RunsTyped == jobs \in [Runs -> JobType] /\ owed \subseteq [run : Runs, by : {"api", "worker"}]

LEMMA TypeIs == TypeOK <=> LedgerTypeOK /\ RunsTyped
  BY DEF TypeOK, RunsTyped, JobType

\* The ledger grows without a charge for any run, and no job changes.
LEMMA RunsUncharged ==
  ASSUME RunsSound, Extends(entries, entries'), jobs' = jobs,
         \A i \in DOMAIN entries' : i \notin DOMAIN entries =>
           entries'[i].kind # "settlement" \/ \A r \in Runs : jobs[r].hold # entries'[i].hold
  PROVE  RunsSound'
<1>1. DOMAIN entries \subseteq DOMAIN entries' /\ \A i \in DOMAIN entries : entries'[i] = entries[i]
  BY DEF Extends
<1>2. ASSUME NEW r \in Runs PROVE Charges(r)' = Charges(r)
  <2>1. Charges(r)' = {i \in DOMAIN entries' : entries'[i].kind = "settlement" /\ entries'[i].hold = jobs[r].hold}
    BY DEF Charges
  <2> QED
    BY <1>1, <2>1 DEF Charges
<1> QED
  BY <1>1, <1>2 DEF RunsSound, IsReservation

\* A step of a job that neither charges nor moves its hold.
LEMMA StatusKeeps ==
  ASSUME RunsSound, entries' = entries,
         \A r \in Runs :
           /\ jobs'[r].hold = jobs[r].hold
           /\ jobs'[r].status = "none" <=> jobs[r].status = "none"
           /\ jobs'[r].status = "done" <=> jobs[r].status = "done"
           /\ jobs'[r].status = "pending" => jobs'[r].attempts < MaxAttempts
           /\ jobs'[r].status \in {"none", "admitted"} => jobs'[r].attempts = 0
  PROVE  RunsSound'
<1>1. ASSUME NEW r \in Runs PROVE Charges(r)' = Charges(r)
  <2>1. Charges(r)' = {i \in DOMAIN entries' : entries'[i].kind = "settlement" /\ entries'[i].hold = jobs'[r].hold}
    BY DEF Charges
  <2> QED
    BY <2>1 DEF Charges
<1> QED
  BY <1>1 DEF RunsSound, IsReservation

\* An admitted run gets a hold of its own.
LEMMA AdmittedSound ==
  ASSUME EntriesSound, RunsSound, NEW r \in Runs, NEW e, Enters(e), e.kind = "reservation",
         e.key = None, e.hold = 0, NEW job, jobs' = [jobs EXCEPT ![r] = job],
         jobs \in [Runs -> JobType], jobs[r].status = "none",
         job.status = "admitted", job.hold = Now, job.attempts = jobs[r].attempts,
         jobs[r].attempts = 0
  PROVE  RunsSound'
<1>1. /\ DOMAIN entries' = DOMAIN entries \cup {Now} /\ entries'[Now] = e /\ Now # 0
      /\ Now \notin DOMAIN entries
      /\ \A i \in DOMAIN entries : entries'[i] = entries[i]
  BY DEF Enters, Extends
<1>2. jobs'[r] = job /\ \A s \in Runs : s # r => jobs'[s] = jobs[s]
  OBVIOUS
<1>3. \A s \in Runs : Charges(s)' = {i \in DOMAIN entries' : entries'[i].kind = "settlement"
                                                            /\ entries'[i].hold = jobs'[s].hold}
  BY DEF Charges
<1>4. \A s \in Runs : s # r => Charges(s)' = Charges(s)
  BY <1>1, <1>2, <1>3 DEF Charges
<1>5. Charges(r)' = {}
  <2>1. \A i \in DOMAIN entries : entries[i].hold # Now
    BY <1>1 DEF EntriesSound, EntrySound, CloserSound
  <2> QED
    BY <1>1, <1>2, <1>3, <2>1
<1>6. \A s \in Runs : s # r => jobs[s].hold # Now
  BY <1>1 DEF RunsSound
<1>7. ASSUME NEW s \in Runs
      PROVE  /\ jobs'[s].hold = 0 <=> jobs'[s].status = "none"
             /\ jobs'[s].status = "pending" => jobs'[s].attempts < MaxAttempts
             /\ jobs'[s].status \in {"none", "admitted"} => jobs'[s].attempts = 0
             /\ jobs'[s].hold # 0 =>
                  /\ jobs'[s].hold \in DOMAIN entries' /\ entries'[jobs'[s].hold].kind = "reservation"
                  /\ entries'[jobs'[s].hold].key = None
                  /\ \A t \in Runs : jobs'[t].hold = jobs'[s].hold => t = s
                  /\ Charges(s)' # {} <=> jobs'[s].status = "done"
  <2>1. CASE s = r
    BY <1>1, <1>2, <1>5, <1>6, <2>1
  <2>2. CASE s # r
    BY <1>1, <1>2, <1>4, <1>6, <2>2 DEF RunsSound, IsReservation
  <2> QED
    BY <2>1, <2>2
<1> QED
  BY <1>7 DEF RunsSound, IsReservation

\* A run that completes is charged to its hold, which no other run has.
LEMMA CompletedSound ==
  ASSUME RunsSound, NEW r \in Runs, NEW e, Enters(e), e.kind = "settlement", e.hold = jobs[r].hold,
         jobs \in [Runs -> JobType], jobs' = [jobs EXCEPT ![r].status = "done"],
         jobs[r].status = "running"
  PROVE  RunsSound'
<1>1. /\ DOMAIN entries' = DOMAIN entries \cup {Now} /\ entries'[Now] = e /\ Now # 0
      /\ Now \notin DOMAIN entries
      /\ \A i \in DOMAIN entries : entries'[i] = entries[i]
  BY DEF Enters, Extends
<1>2. /\ jobs'[r].status = "done" /\ jobs'[r].hold = jobs[r].hold
      /\ \A s \in Runs : s # r => jobs'[s] = jobs[s]
  BY DEF JobType
<1>3. \A s \in Runs : Charges(s)' = {i \in DOMAIN entries' : entries'[i].kind = "settlement"
                                                            /\ entries'[i].hold = jobs'[s].hold}
  BY DEF Charges
<1>4. jobs[r].hold # 0 /\ \A s \in Runs : jobs[s].hold = jobs[r].hold => s = r
  BY DEF RunsSound
<1>5. \A s \in Runs : s # r => Charges(s)' = Charges(s)
  BY <1>1, <1>2, <1>3, <1>4 DEF Charges
<1>6. Charges(r)' # {}
  BY <1>1, <1>2, <1>3
<1>7. ASSUME NEW s \in Runs
      PROVE  /\ jobs'[s].hold = 0 <=> jobs'[s].status = "none"
             /\ jobs'[s].status = "pending" => jobs'[s].attempts < MaxAttempts
             /\ jobs'[s].status \in {"none", "admitted"} => jobs'[s].attempts = 0
             /\ jobs'[s].hold # 0 =>
                  /\ jobs'[s].hold \in DOMAIN entries' /\ entries'[jobs'[s].hold].kind = "reservation"
                  /\ entries'[jobs'[s].hold].key = None
                  /\ \A t \in Runs : jobs'[t].hold = jobs'[s].hold => t = s
                  /\ Charges(s)' # {} <=> jobs'[s].status = "done"
  <2>1. CASE s = r
    BY <1>1, <1>2, <1>4, <1>6, <2>1 DEF RunsSound, IsReservation
  <2>2. CASE s # r
    BY <1>1, <1>2, <1>4, <1>5, <2>2 DEF RunsSound, IsReservation
  <2> QED
    BY <2>1, <2>2
<1> QED
  BY <1>7 DEF RunsSound, IsReservation

\* Whatever a client, finance or time does to the ledger charges no run.
LEMMA LedgerStep ==
  ASSUME IInv, LedgerNext, UNCHANGED runs
  PROVE  IInv' /\ AccountStep
<1>0. /\ LedgerInv /\ RunsSound /\ RunsTyped /\ LedgerTypeOK /\ DOMAIN entries \subseteq DOMAIN entries
      /\ jobs' = jobs /\ owed' = owed
  BY TypeIs DEF IInv, LedgerInv, runs
<1>1. RunsTyped'
  BY <1>0 DEF RunsTyped
<1>2. ASSUME LedgerInv', AccountStep, RunsSound' PROVE IInv' /\ AccountStep
  <2>1. LedgerTypeOK'
    BY <1>2 DEF LedgerInv
  <2>2. TypeOK'
    BY <1>1, <2>1 DEF TypeOK, RunsTyped, JobType
  <2>3. OwedSound'
    BY <1>0 DEF IInv, OwedSound
  <2> QED
    BY <1>2, <2>2, <2>3 DEF IInv
<1>3. ASSUME entries' = entries PROVE RunsSound'
  <2>1. Extends(entries, entries')
    BY <1>3 DEF Extends
  <2> QED
    BY <1>0, <1>3, <2>1, RunsUncharged
<1>4. ASSUME NEW e, Enters(e), e.kind # "settlement" \/ \A r \in Runs : jobs[r].hold # e.hold
      PROVE  RunsSound'
  <2>1. Extends(entries, entries') /\ \A i \in DOMAIN entries' : i \notin DOMAIN entries => entries'[i] = e
    BY <1>4 DEF Enters
  <2> QED
    BY <1>0, <1>4, <2>1, RunsUncharged
<1>5. ASSUME NEW q \in Quotas, CreateUsageEntitlement(q) PROVE IInv' /\ AccountStep
  <2>1. entries' = entries
    BY <1>5 DEF CreateUsageEntitlement
  <2> QED
    BY <1>0, <1>2, <1>3, <1>5, <2>1, CreateKeeps
<1>6. ASSUME NEW p \in DOMAIN plans, PeriodEnds(p) PROVE IInv' /\ AccountStep
  <2>1. entries' = entries
    BY <1>6 DEF PeriodEnds
  <2> QED
    BY <1>0, <1>2, <1>3, <1>6, <2>1, PeriodKeeps
<1>7. ASSUME NEW k \in Clients, NEW n \in Amounts, ReserveUsage(k, n) PROVE IInv' /\ AccountStep
  <2>1. n \in Nat \ {0} /\ k \in Clients \cup {None}
    BY AmountsAssumption
  <2>2. Reserve(k, n) /\ UNCHANGED <<plans, auths>>
    BY <1>7 DEF ReserveUsage
  <2>3. LedgerInv' /\ AccountStep /\ \E e : Enters(e) /\ e.kind = "reservation"
    BY <1>0, <2>1, <2>2, ReserveKeeps
  <2> QED
    BY <1>2, <1>4, <2>3
<1>8. ASSUME NEW h \in ClientHolds PROVE /\ h \in DOMAIN entries /\ IsReservation(h)
                                        /\ \A r \in Runs : jobs[r].hold # h
  <2>1. h \in DOMAIN entries /\ IsReservation(h) /\ entries[h].key # None /\ h # 0
    BY <1>0, EntriesTable DEF ClientHolds, IsReservation
  <2> QED
    BY <1>0, <2>1 DEF RunsSound
<1>9. ASSUME NEW h \in ClientHolds, NEW n \in UpToOneOf(Amounts) \ {0}, NEW inv \in Invoices,
             SettleUsageReservation(h, n, inv)
      PROVE  IInv' /\ AccountStep
  <2>1. n \in Nat
    BY AmountsAssumption DEF UpToOneOf
  <2>2. /\ n <= Outstanding(h) /\ Close("settlement", h, n, inv) /\ UNCHANGED <<plans, auths>>
    BY <1>9 DEF SettleUsageReservation, Settle
  <2>3. LedgerInv' /\ AccountStep /\ \E e : Enters(e) /\ e.hold = h
    BY <1>0, <1>8, <2>1, <2>2, CloseKeeps
  <2> QED
    BY <1>2, <1>4, <1>8, <2>3
<1>10. ASSUME NEW h \in ClientHolds, ReleaseUsageReservation(h) PROVE IInv' /\ AccountStep
  <2>1. Close("release", h, 0, None) /\ UNCHANGED <<plans, auths>> /\ 0 <= Outstanding(h)
    <3>1. Close("release", h, 0, None) /\ UNCHANGED <<plans, auths>>
      BY <1>10 DEF ReleaseUsageReservation, Release
    <3>2. OfHold(h) \in SUBSET DOMAIN entries
      BY DEF OfHold
    <3>3. Outstanding(h) \in Int /\ Outstanding(h) > 0
      BY <1>0, <3>1, <3>2, EntriesTable, SumsTyped, SumsRead DEF Outstanding, Close
    <3> QED
      BY <3>1, <3>3
  <2>2. LedgerInv' /\ AccountStep /\ \E e : Enters(e) /\ e.kind = "release"
    BY <1>0, <1>8, <2>1, CloseKeeps
  <2> QED
    BY <1>2, <1>4, <2>2
<1>11. ASSUME NEW k \in Finance, NEW inv \in Invoices, NEW delta \in Deltas, NEW p \in 0..Len(plans),
              Authorize(k, inv, delta, p)
       PROVE  IInv' /\ AccountStep
  <2>1. entries' = entries
    BY <1>11 DEF Authorize
  <2> QED
    BY <1>0, <1>2, <1>3, <1>11, <2>1, AuthorizeKeeps
<1>12. ASSUME NEW k \in Finance, AdjustUsage(k) PROVE IInv' /\ AccountStep
  <2>1. LedgerInv' /\ AccountStep /\ \E e : Enters(e) /\ e.kind = "adjustment"
    BY <1>0, <1>12, AdjustKeeps
  <2> QED
    BY <1>2, <1>4, <2>1
<1>13. ASSUME NEW k \in Finance, CreditUsage(k) PROVE IInv' /\ AccountStep
  <2>1. /\ LedgerInv' /\ AccountStep /\ Extends(entries, entries')
        /\ \A i \in DOMAIN entries' : i \notin DOMAIN entries => entries'[i].kind = "credit"
    BY <1>0, <1>13, CreditKeeps
  <2>2. RunsSound'
    BY <1>0, <2>1, RunsUncharged
  <2> QED
    BY <1>2, <2>1, <2>2
<1> QED
  BY <1>5, <1>6, <1>7, <1>9, <1>10, <1>11, <1>12, <1>13 DEF LedgerNext

LEMMA JobStep ==
  ASSUME IInv, UNCHANGED ledger, jobs' \in [Runs -> JobType], RunsSound',
         owed' \subseteq [run : Runs, by : {"api", "worker"}],
         \A r \in Runs : jobs[r].status # "none" => jobs'[r].status # "none",
         \A o \in owed' : o \in owed \/ jobs[o.run].status # "none"
  PROVE  IInv' /\ AccountStep
<1>1. LedgerInv' /\ AccountStep
  BY SameLedger DEF IInv
<1>2. TypeOK'
  BY <1>1 DEF LedgerInv, TypeOK, JobType
<1>3. OwedSound'
  BY DEF IInv, OwedSound
<1> QED
  BY <1>1, <1>2, <1>3 DEF IInv

LEMMA SetStatusSound ==
  ASSUME IInv, NEW r \in Runs, NEW s \in Statuses \ {"none", "admitted", "done"},
         jobs[r].status \notin {"none", "done"}, s = "pending" => jobs[r].attempts < MaxAttempts,
         SetStatus(r, s), entries' = entries
  PROVE  /\ jobs' \in [Runs -> JobType] /\ RunsSound'
         /\ \A t \in Runs : jobs[t].status # "none" => jobs'[t].status # "none"
<1>1. jobs \in [Runs -> JobType] /\ RunsSound
  BY TypeIs DEF IInv, RunsTyped
<1>2. jobs' = [jobs EXCEPT ![r].status = s]
  BY DEF SetStatus
<1>3. jobs' \in [Runs -> JobType]
  BY <1>1, <1>2 DEF JobType
<1>4. /\ jobs'[r].status = s /\ jobs'[r].hold = jobs[r].hold /\ jobs'[r].attempts = jobs[r].attempts
      /\ \A t \in Runs : t # r => jobs'[t] = jobs[t]
  BY <1>1, <1>2 DEF JobType
<1>5. \A t \in Runs :
        /\ jobs[t].status = "pending" => jobs[t].attempts < MaxAttempts
        /\ jobs[t].status \in {"none", "admitted"} => jobs[t].attempts = 0
  BY <1>1 DEF RunsSound
<1>6. \A t \in Runs :
        /\ jobs'[t].hold = jobs[t].hold
        /\ jobs'[t].status = "none" <=> jobs[t].status = "none"
        /\ jobs'[t].status = "done" <=> jobs[t].status = "done"
        /\ jobs'[t].status = "pending" => jobs'[t].attempts < MaxAttempts
        /\ jobs'[t].status \in {"none", "admitted"} => jobs'[t].attempts = 0
  BY <1>4, <1>5
<1>7. RunsSound'
  BY <1>1, <1>6, StatusKeeps
<1> QED
  BY <1>3, <1>4, <1>7

\* The lane, the operator and recovery move a job without touching the ledger.
LEMMA MoveKeeps ==
  ASSUME IInv, NEW r \in Runs,
         EnqueueJob(r) \/ ClaimNextJob(r) \/ FailRun(r) \/ RecoverExpiredJob(r) \/ CancelJob(r)
         \/ RetryJob(r)
  PROVE  IInv' /\ AccountStep
<1> DEFINE Stays == \A t \in Runs : jobs[t].status # "none" => jobs'[t].status # "none"
<1>1. jobs \in [Runs -> JobType] /\ RunsSound /\ owed \subseteq [run : Runs, by : {"api", "worker"}]
  BY TypeIs DEF IInv, RunsTyped
<1>2. MaxAttempts \in Nat \ {0} /\ MaxRetries \in Nat
  BY RunsAssumption
<1>3. /\ jobs[r].status = "pending" => jobs[r].attempts < MaxAttempts
      /\ jobs[r].status \in {"none", "admitted"} => jobs[r].attempts = 0
  BY <1>1 DEF RunsSound
<1>4. ASSUME NEW by \in {"api", "worker"}, ReleaseOwed(r, by)
      PROVE  /\ owed' \subseteq [run : Runs, by : {"api", "worker"}]
             /\ \A o \in owed' : o \in owed \/ o.run = r
  BY <1>1, <1>4 DEF ReleaseOwed
<1>5. CASE EnqueueJob(r)
  <2>1. jobs[r].status = "admitted" /\ SetStatus(r, "pending") /\ UNCHANGED ledger /\ owed' = owed
    BY <1>5 DEF EnqueueJob
  <2>2. entries' = entries /\ jobs[r].attempts < MaxAttempts /\ "pending" \in Statuses \ {"none", "admitted", "done"}
    BY <1>2, <1>3, <2>1 DEF ledger, Statuses
  <2>3. jobs' \in [Runs -> JobType] /\ RunsSound' /\ Stays
    BY <2>1, <2>2, SetStatusSound
  <2> QED
    BY <1>1, <2>1, <2>3, JobStep
<1>6. CASE ClaimNextJob(r)
  <2>1. /\ jobs[r].status = "pending" /\ UNCHANGED ledger /\ owed' = owed /\ entries' = entries
        /\ jobs' = [jobs EXCEPT ![r].status = "running", ![r].attempts = @ + 1]
    BY <1>6 DEF ClaimNextJob, ledger
  <2>2. jobs[r].attempts + 1 \in 0..MaxAttempts
    BY <1>1, <1>2, <1>3, <2>1 DEF JobType
  <2>3. jobs' \in [Runs -> JobType]
    BY <1>1, <2>1, <2>2 DEF JobType, Statuses
  <2>4. /\ jobs'[r].status = "running" /\ jobs'[r].hold = jobs[r].hold
        /\ \A t \in Runs : t # r => jobs'[t] = jobs[t]
    BY <1>1, <2>1 DEF JobType
  <2>5. RunsSound'
    <3>1. \A t \in Runs :
            /\ jobs[t].status = "pending" => jobs[t].attempts < MaxAttempts
            /\ jobs[t].status \in {"none", "admitted"} => jobs[t].attempts = 0
      BY <1>1 DEF RunsSound
    <3>2. \A t \in Runs :
            /\ jobs'[t].hold = jobs[t].hold
            /\ jobs'[t].status = "none" <=> jobs[t].status = "none"
            /\ jobs'[t].status = "done" <=> jobs[t].status = "done"
            /\ jobs'[t].status = "pending" => jobs'[t].attempts < MaxAttempts
            /\ jobs'[t].status \in {"none", "admitted"} => jobs'[t].attempts = 0
      BY <2>1, <2>4, <3>1
    <3> QED
      BY <1>1, <2>1, <3>2, StatusKeeps
  <2> QED
    BY <1>1, <2>1, <2>3, <2>5, JobStep
<1>7. CASE FailRun(r)
  <2>1. jobs[r].status = "running" /\ UNCHANGED ledger /\ entries' = entries
    BY <1>7 DEF FailRun, ledger
  <2>2. CASE jobs[r].attempts < MaxAttempts /\ Requeued(r)
    <3>1. SetStatus(r, "pending") /\ owed' = owed
      BY <2>2 DEF Requeued
    <3>2. jobs' \in [Runs -> JobType] /\ RunsSound' /\ Stays
      BY <2>1, <2>2, <3>1, SetStatusSound DEF Statuses
    <3> QED
      BY <1>1, <2>1, <3>1, <3>2, JobStep
  <2>3. CASE SetStatus(r, "dead_letter") /\ ReleaseOwed(r, "worker")
    <3>1. jobs' \in [Runs -> JobType] /\ RunsSound' /\ Stays
      BY <2>1, <2>3, SetStatusSound DEF Statuses
    <3> QED
      BY <1>4, <2>1, <2>3, <3>1, JobStep
  <2> QED
    BY <1>7, <2>2, <2>3 DEF FailRun
<1>8. CASE RecoverExpiredJob(r)
  <2>1. jobs[r].status = "running" /\ UNCHANGED ledger /\ entries' = entries /\ owed' = owed
    BY <1>8 DEF RecoverExpiredJob, ledger
  <2>2. CASE jobs[r].attempts < MaxAttempts
    <3>1. SetStatus(r, "pending")
      BY <1>8, <2>2 DEF RecoverExpiredJob
    <3>2. jobs' \in [Runs -> JobType] /\ RunsSound' /\ Stays
      BY <2>1, <2>2, <3>1, SetStatusSound DEF Statuses
    <3> QED
      BY <1>1, <2>1, <3>2, JobStep
  <2>3. CASE ~(jobs[r].attempts < MaxAttempts)
    <3>1. SetStatus(r, "dead_letter")
      BY <1>8, <2>3 DEF RecoverExpiredJob
    <3>2. jobs' \in [Runs -> JobType] /\ RunsSound' /\ Stays
      BY <2>1, <3>1, SetStatusSound DEF Statuses
    <3> QED
      BY <1>1, <2>1, <3>2, JobStep
  <2> QED
    BY <2>2, <2>3
<1>9. CASE CancelJob(r)
  <2>1. /\ jobs[r].status \in {"pending", "dead_letter"} /\ UNCHANGED ledger /\ entries' = entries
        /\ SetStatus(r, "cancelled") /\ ReleaseOwed(r, "api")
    BY <1>9 DEF CancelJob, ledger
  <2>2. jobs' \in [Runs -> JobType] /\ RunsSound' /\ Stays
    BY <2>1, SetStatusSound DEF Statuses
  <2> QED
    BY <1>4, <2>1, <2>2, JobStep
<1>10. CASE RetryJob(r)
  <2>1. /\ jobs[r].status \in {"dead_letter", "cancelled"} /\ jobs[r].retries < MaxRetries
        /\ UNCHANGED ledger /\ owed' = owed /\ entries' = entries
        /\ jobs' = [jobs EXCEPT ![r].status = "pending", ![r].attempts = 0, ![r].retries = @ + 1]
    BY <1>10 DEF RetryJob, ledger
  <2>2. jobs[r].retries + 1 \in 0..MaxRetries /\ 0 \in 0..MaxAttempts
    BY <1>1, <1>2, <2>1 DEF JobType
  <2>3. jobs' \in [Runs -> JobType]
    BY <1>1, <2>1, <2>2 DEF JobType, Statuses
  <2>4. /\ jobs'[r].status = "pending" /\ jobs'[r].hold = jobs[r].hold /\ jobs'[r].attempts = 0
        /\ \A t \in Runs : t # r => jobs'[t] = jobs[t]
    BY <1>1, <2>1 DEF JobType
  <2>5. RunsSound'
    <3>1. \A t \in Runs :
            /\ jobs[t].status = "pending" => jobs[t].attempts < MaxAttempts
            /\ jobs[t].status \in {"none", "admitted"} => jobs[t].attempts = 0
      BY <1>1 DEF RunsSound
    <3>2. \A t \in Runs :
            /\ jobs'[t].hold = jobs[t].hold
            /\ jobs'[t].status = "none" <=> jobs[t].status = "none"
            /\ jobs'[t].status = "done" <=> jobs[t].status = "done"
            /\ jobs'[t].status = "pending" => jobs'[t].attempts < MaxAttempts
            /\ jobs'[t].status \in {"none", "admitted"} => jobs'[t].attempts = 0
      <4>1. jobs[r].status \notin {"none", "done"} /\ 0 < MaxAttempts
        BY <1>2, <2>1
      <4> QED
        BY <2>4, <3>1, <4>1
    <3> QED
      BY <1>1, <2>1, <3>2, StatusKeeps
  <2> QED
    BY <1>1, <2>1, <2>3, <2>5, JobStep
<1> QED
  BY <1>5, <1>6, <1>7, <1>8, <1>9, <1>10

LEMMA CrashKeeps ==
  ASSUME IInv, ApiCrash \/ WorkerCrash
  PROVE  IInv' /\ AccountStep
<1>1. jobs \in [Runs -> JobType] /\ RunsSound /\ owed \subseteq [run : Runs, by : {"api", "worker"}]
  BY TypeIs DEF IInv, RunsTyped
<1>2. UNCHANGED ledger /\ entries' = entries /\ owed' \subseteq owed
  BY DEF ApiCrash, WorkerCrash, ledger
<1>3. jobs' \in [Runs -> JobType] /\ \A t \in Runs :
        /\ jobs'[t].hold = jobs[t].hold /\ jobs'[t].attempts = jobs[t].attempts
        /\ jobs'[t].status = jobs[t].status \/ (jobs'[t].status = "lost" /\ jobs[t].status = "admitted")
  BY <1>1 DEF ApiCrash, WorkerCrash, JobType, Statuses
<1>4. RunsSound'
  <2>1. \A t \in Runs :
          /\ jobs[t].status = "pending" => jobs[t].attempts < MaxAttempts
          /\ jobs[t].status \in {"none", "admitted"} => jobs[t].attempts = 0
    BY <1>1 DEF RunsSound
  <2>2. \A t \in Runs :
          /\ jobs'[t].hold = jobs[t].hold
          /\ jobs'[t].status = "none" <=> jobs[t].status = "none"
          /\ jobs'[t].status = "done" <=> jobs[t].status = "done"
          /\ jobs'[t].status = "pending" => jobs'[t].attempts < MaxAttempts
          /\ jobs'[t].status \in {"none", "admitted"} => jobs'[t].attempts = 0
    BY <1>3, <2>1
  <2> QED
    BY <1>1, <1>2, <2>2, StatusKeeps
<1> QED
  BY <1>1, <1>2, <1>3, <1>4, JobStep

LEMMA UsageKeeps ==
  ASSUME IInv, LedgerInv', AccountStep, jobs' \in [Runs -> JobType], RunsSound', owed' \subseteq owed,
         \A t \in Runs : jobs[t].status # "none" => jobs'[t].status # "none"
  PROVE  IInv' /\ AccountStep
<1>1. owed \subseteq [run : Runs, by : {"api", "worker"}]
  BY TypeIs DEF IInv, RunsTyped
<1>2. TypeOK'
  BY <1>1 DEF LedgerInv, TypeOK, JobType
<1>3. OwedSound'
  BY <1>1 DEF IInv, OwedSound
<1> QED
  BY <1>2, <1>3 DEF IInv

LEMMA AdmitKeeps ==
  ASSUME IInv, NEW r \in Runs, NEW n \in Estimates, AdmitRunUsage(r, n)
  PROVE  IInv' /\ AccountStep
<1>1. jobs \in [Runs -> JobType] /\ RunsSound /\ LedgerInv /\ EntriesSound
  BY TypeIs DEF IInv, RunsTyped, LedgerInv
<1>2. n \in Nat \ {0} /\ None \in Clients \cup {None}
  BY RunsAssumption
<1>3. /\ jobs[r].status = "none" /\ Reserve(None, n) /\ UNCHANGED <<plans, auths>> /\ owed' = owed
      /\ jobs' = [jobs EXCEPT ![r] = [@ EXCEPT !.status = "admitted", !.hold = Now]]
  BY DEF AdmitRunUsage
<1>4. LedgerInv' /\ AccountStep
  BY <1>1, <1>2, <1>3, ReserveKeeps
<1>5. PICK e : Enters(e) /\ e.kind = "reservation" /\ e.key = None /\ e.hold = 0
  BY <1>1, <1>2, <1>3, ReserveKeeps
<1>6. Now \in 0..MaxEntries
  <2>1. Len(entries') = Now /\ Now \in Nat \ {0} /\ Len(entries') <= MaxEntries /\ MaxEntries \in Nat
    BY <1>4, <1>5, AmountsAssumption DEF Enters, LedgerInv, LedgerTypeOK
  <2> QED
    BY <2>1
<1>7. PICK job : job = [jobs[r] EXCEPT !.status = "admitted", !.hold = Now]
  OBVIOUS
<1>8. /\ job \in JobType /\ job.status = "admitted" /\ job.hold = Now /\ job.attempts = jobs[r].attempts
      /\ jobs' = [jobs EXCEPT ![r] = job]
  BY <1>1, <1>3, <1>6, <1>7 DEF JobType, Statuses
<1>9. jobs[r].attempts = 0
  BY <1>1, <1>3 DEF RunsSound
<1>10. RunsSound'
  BY <1>1, <1>3, <1>5, <1>8, <1>9, AdmittedSound
<1>11. /\ jobs' \in [Runs -> JobType]
       /\ \A t \in Runs : jobs[t].status # "none" => jobs'[t].status # "none"
  BY <1>1, <1>8
<1> QED
  BY <1>3, <1>4, <1>10, <1>11, UsageKeeps

LEMMA CompleteKeeps ==
  ASSUME IInv, NEW r \in Runs, NEW n \in UpToOneOf(Estimates), CompleteRun(r, n)
  PROVE  IInv' /\ AccountStep
<1>1. jobs \in [Runs -> JobType] /\ RunsSound /\ LedgerInv
  BY TypeIs DEF IInv, RunsTyped
<1>2. n \in Nat
  BY RunsAssumption DEF UpToOneOf
<1>3. /\ jobs[r].status = "running" /\ n <= Outstanding(jobs[r].hold)
      /\ Close("settlement", jobs[r].hold, n, None)
      /\ UNCHANGED <<plans, auths>> /\ owed' = owed /\ jobs' = [jobs EXCEPT ![r].status = "done"]
  BY DEF CompleteRun, Settle, SetStatus
<1>4. PICK h : h = jobs[r].hold
  OBVIOUS
<1>5. h \in DOMAIN entries /\ IsReservation(h)
  BY <1>1, <1>3, <1>4 DEF RunsSound
<1>6. LedgerInv' /\ AccountStep /\ \E e : Enters(e) /\ e.kind = "settlement" /\ e.hold = h
  BY <1>1, <1>2, <1>3, <1>4, <1>5, CloseKeeps
<1>7. PICK e : Enters(e) /\ e.kind = "settlement" /\ e.hold = jobs[r].hold
  BY <1>4, <1>6
<1>8. RunsSound'
  BY <1>1, <1>3, <1>7, CompletedSound
<1>9. /\ jobs' \in [Runs -> JobType]
      /\ \A t \in Runs : jobs[t].status # "none" => jobs'[t].status # "none"
  BY <1>1, <1>3 DEF JobType, Statuses
<1> QED
  BY <1>3, <1>6, <1>8, <1>9, UsageKeeps

LEMMA ReleaseKeeps ==
  ASSUME IInv, NEW o \in owed, ReleaseRunUsage(o)
  PROVE  IInv' /\ AccountStep
<1>1. jobs \in [Runs -> JobType] /\ RunsSound /\ LedgerInv /\ OwedSound /\ o.run \in Runs
      /\ owed \subseteq [run : Runs, by : {"api", "worker"}]
  BY TypeIs DEF IInv, RunsTyped
<1>2. UNCHANGED <<plans, auths, jobs>> /\ owed' \subseteq owed
  BY DEF ReleaseRunUsage
<1>3. PICK h : h = jobs[o.run].hold
  OBVIOUS
<1>4. h \in DOMAIN entries /\ IsReservation(h) /\ LedgerTypeOK
  BY <1>1, <1>3 DEF RunsSound, OwedSound, LedgerInv
<1>5. CASE Release(h)
  <2>1. Close("release", h, 0, None)
    BY <1>5 DEF Release
  <2>2. 0 <= Outstanding(h)
    <3>1. OfHold(h) \in SUBSET DOMAIN entries
      BY DEF OfHold
    <3>2. Outstanding(h) \in Int /\ Outstanding(h) > 0
      BY <1>4, <2>1, <3>1, EntriesTable, SumsTyped, SumsRead DEF Outstanding, Close
    <3> QED
      BY <3>2
  <2>3. LedgerInv' /\ AccountStep /\ \E e : Enters(e) /\ e.kind = "release"
    BY <1>1, <1>2, <1>4, <2>1, <2>2, CloseKeeps
  <2>4. PICK e : Enters(e) /\ e.kind = "release"
    BY <2>3
  <2>5. Extends(entries, entries') /\ \A i \in DOMAIN entries' : i \notin DOMAIN entries => entries'[i] = e
    BY <2>4 DEF Enters
  <2>6. RunsSound'
    BY <1>1, <1>2, <2>4, <2>5, RunsUncharged
  <2> QED
    BY <1>1, <1>2, <2>3, <2>6, UsageKeeps
<1>6. CASE entries' = entries
  <2>1. UNCHANGED ledger
    BY <1>2, <1>6 DEF ledger
  <2>2. LedgerInv' /\ AccountStep
    BY <1>1, <2>1, SameLedger
  <2>3. Extends(entries, entries')
    BY <1>6 DEF Extends
  <2>4. RunsSound'
    BY <1>1, <1>2, <1>6, <2>3, RunsUncharged
  <2> QED
    BY <1>1, <1>2, <2>2, <2>4, UsageKeeps
<1> QED
  BY <1>3, <1>5, <1>6 DEF ReleaseRunUsage

(***************************************************************************)
(* The theorems.                                                           *)
(***************************************************************************)
LEMMA InitHolds ==
  ASSUME FanoutInit
  PROVE  IInv /\ Account!Init
<1>1. plans = <<>> /\ entries = <<>> /\ auths = [k \in Finance |-> NoAuthorization]
      /\ jobs = [r \in Runs |-> NoJob] /\ owed = {}
  BY DEF FanoutInit, Init
<1>2. DOMAIN entries = {} /\ DOMAIN plans = {} /\ Len(entries) = 0 /\ Len(plans) = 0
  BY <1>1
<1>3. LedgerTypeOK
  <2>1. plans \in Seq([quota : Quotas, phase : Phases]) /\ entries \in Seq(Records)
    BY <1>1
  <2>2. NoAuthorization \in [invoice : Invoices \cup {None}, delta : Deltas \cup {0},
                         target : 0..MaxPlans, root : 0..MaxEntries]
    BY AmountsAssumption DEF NoAuthorization
  <2>3. MaxPlans \in Nat /\ MaxEntries \in Nat
    BY AmountsAssumption
  <2> QED
    BY <1>1, <1>2, <2>1, <2>2, <2>3 DEF LedgerTypeOK
<1>4. EntriesSound /\ ClosedOnce /\ HoldsAccounted /\ WithinQuota /\ LinesCovered
  BY <1>2 DEF EntriesSound, ClosedOnce, HoldsAccounted, WithinQuota, LinesCovered
<1>5. AuthsSound
  BY <1>1, <1>2 DEF AuthsSound, NoAuthorization
<1>6. AuthsMatched
  BY <1>1, <1>2 DEF AuthsMatched, AuthorizationMatches, NoAuthorization
<1>7. RunsTyped
  BY <1>1, AmountsAssumption, RunsAssumption DEF RunsTyped, JobType, NoJob, Statuses
<1>8. RunsSound
  <2>1. \A r \in Runs : jobs[r].status = "none" /\ jobs[r].hold = 0 /\ jobs[r].attempts = 0
    BY <1>1 DEF NoJob
  <2> QED
    BY <2>1 DEF RunsSound
<1>9. OwedSound
  BY <1>1 DEF OwedSound
<1>10. IInv
  BY <1>3, <1>4, <1>5, <1>6, <1>7, <1>8, <1>9, TypeIs DEF IInv, LedgerInv
<1>11. \A p : Reserved(p) = 0 /\ Consumed(p) = 0
  <2>1. \A p : OfPlan(p) = {}
    BY <1>2 DEF OfPlan
  <2> QED
    BY <2>1, SumsRead, SumsOfNone DEF Reserved, Consumed
<1>12. Account!Init
  BY <1>2, <1>11 DEF Account!Init, Granted, OnHold, Used
<1> QED
  BY <1>10, <1>12

LEMMA StepHolds ==
  ASSUME IInv, [Next]_vars
  PROVE  IInv' /\ AccountStep
<1>1. ASSUME NEW r \in Runs,
             EnqueueJob(r) \/ ClaimNextJob(r) \/ FailRun(r) \/ RecoverExpiredJob(r) \/ CancelJob(r)
             \/ RetryJob(r)
      PROVE  IInv' /\ AccountStep
  BY <1>1, MoveKeeps
<1>2. ASSUME NEW r \in Runs, NEW n \in Estimates, AdmitRunUsage(r, n)
      PROVE  IInv' /\ AccountStep
  BY <1>2, AdmitKeeps
<1>3. ASSUME NEW r \in Runs, NEW n \in UpToOneOf(Estimates), CompleteRun(r, n)
      PROVE  IInv' /\ AccountStep
  BY <1>3, CompleteKeeps
<1>4. ASSUME NEW o \in owed, ReleaseRunUsage(o)
      PROVE  IInv' /\ AccountStep
  BY <1>4, ReleaseKeeps
<1>5. CASE ApiCrash \/ WorkerCrash
  BY <1>5, CrashKeeps
<1>6. CASE LedgerNext /\ UNCHANGED runs
  BY <1>6, LedgerStep
<1>7. CASE UNCHANGED vars
  <2>1. UNCHANGED ledger /\ jobs' = jobs /\ owed' = owed /\ entries' = entries
    BY <1>7 DEF vars, ledger
  <2>2. RunsTyped /\ RunsSound
    BY TypeIs DEF IInv
  <2>3. RunsSound'
    <3>1. Extends(entries, entries')
      BY <2>1 DEF Extends
    <3> QED
      BY <2>1, <2>2, <3>1, RunsUncharged
  <2> QED
    BY <2>1, <2>2, <2>3, JobStep DEF RunsTyped
<1> QED
  BY <1>1, <1>2, <1>3, <1>4, <1>5, <1>6, <1>7 DEF Next, RunNext

LEMMA Inductive == Spec => []IInv
<1>1. IInv /\ [Next]_vars => IInv'
  BY StepHolds
<1> QED
  BY InitHolds, <1>1, PTL DEF Spec

\* The ledger of a tenant and the jobs of its runs stay well-formed: every
\* entry, hold, authorization and attempt counter within its bounds.
THEOREM Typing == Spec => []TypeOK
  BY Inductive, PTL DEF IInv

\* Every operation on the ledger, at any interleaving with the runs, is one
\* operation on the accounts it keeps, or none.
THEOREM Refinement == Spec => ImplementsAccount
<1>1. IInv /\ [Next]_vars => [Account!Next]_(Account!vars)
  BY StepHolds DEF AccountStep, Account!vars
<1>2. FanoutInit => Account!Init
  BY InitHolds
<1> QED
  BY Inductive, <1>1, <1>2, PTL DEF Spec, ImplementsAccount, Account!Spec

(***************************************************************************)
(* What the accounts promise.                                              *)
(***************************************************************************)
AccountInv == Account!TypeOK /\ Account!NeverOverdrawn

LEMMA SumsAreNat == UpToOneOf(Quotas) \subseteq Nat
  BY AmountsAssumption DEF UpToOneOf

LEMMA AccountInit == Account!Init => AccountInv
  BY DEF Account!Init, AccountInv, Account!TypeOK, Account!NeverOverdrawn, Account!Fits, Account!Accounts

\* A hold or a further charge is refused unless it fits.
LEMMA MoreStaysWithin ==
  ASSUME AccountInv, NEW p \in Versions, NEW n \in UpToOneOf(Quotas),
         Account!Hold(p, n) \/ Account!ChargeMore(p, n)
  PROVE  AccountInv'
<1>1. n \in Nat
  BY SumsAreNat
<1>2. CASE Account!Hold(p, n)
  <2>1. OnHold' \in Account!Accounts
    BY <1>1, <1>2 DEF Account!Hold, AccountInv, Account!TypeOK, Account!Accounts
  <2> QED
    BY <1>1, <1>2, <2>1
    DEF Account!Hold, AccountInv, Account!TypeOK, Account!Accounts, Account!NeverOverdrawn, Account!Fits
<1>3. CASE Account!ChargeMore(p, n)
  <2>1. Used' \in Account!Accounts
    BY <1>1, <1>3 DEF Account!ChargeMore, AccountInv, Account!TypeOK, Account!Accounts
  <2> QED
    BY <1>1, <1>3, <2>1
    DEF Account!ChargeMore, AccountInv, Account!TypeOK, Account!Accounts, Account!NeverOverdrawn, Account!Fits
<1> QED
  BY <1>2, <1>3

\* A closed hold leaves the account at most as full as it was.
LEMMA CloseStaysWithin ==
  ASSUME AccountInv, NEW p \in Versions, NEW n \in UpToOneOf(Quotas), NEW charge \in UpToOneOf(Quotas),
         Account!Close(p, n, charge)
  PROVE  AccountInv'
<1>1. n \in Nat /\ charge \in Nat
  BY SumsAreNat
<1>2. OnHold' \in Account!Accounts /\ Used' \in Account!Accounts
  BY <1>1 DEF Account!Close, AccountInv, Account!TypeOK, Account!Accounts
<1> QED
  BY <1>1, <1>2
  DEF Account!Close, AccountInv, Account!TypeOK, Account!Accounts, Account!NeverOverdrawn, Account!Fits

\* A credit takes from each account no more than it charged.
LEMMA CreditStaysWithin ==
  ASSUME AccountInv, NEW credit \in [Versions -> UpToOneOf(Quotas)], Account!CreditBack(credit)
  PROVE  AccountInv'
<1>1. \A p \in Versions : credit[p] \in Nat
  BY SumsAreNat
<1>2. Used' \in Account!Accounts
  BY <1>1 DEF Account!CreditBack, AccountInv, Account!TypeOK, Account!Accounts
<1> QED
  BY <1>1, <1>2
  DEF Account!CreditBack, AccountInv, Account!TypeOK, Account!Accounts, Account!NeverOverdrawn, Account!Fits

LEMMA GrantStaysWithin ==
  ASSUME AccountInv, NEW p \in Versions, NEW n \in UpToOneOf(Quotas), Account!Grant(p, n)
  PROVE  AccountInv'
<1>1. n \in Nat
  BY SumsAreNat
<1>2. Granted' \in Account!Accounts
  BY <1>1 DEF Account!Grant, AccountInv, Account!TypeOK, Account!Accounts
<1> QED
  BY <1>1, <1>2
  DEF Account!Grant, AccountInv, Account!TypeOK, Account!Accounts, Account!NeverOverdrawn, Account!Fits

\* No operation on the accounts takes one past its quota: what the ledger
\* promises its tenant, shown of the promise alone.
THEOREM AccountsStayWithin == Account!Spec => [](Account!TypeOK /\ Account!NeverOverdrawn)
<1>1. AccountInv /\ [Account!Next]_(Account!vars) => AccountInv'
  <2> SUFFICES ASSUME AccountInv, [Account!Next]_(Account!vars)
               PROVE  AccountInv'
    OBVIOUS
  <2>1. CASE UNCHANGED Account!vars
    BY <2>1 DEF Account!vars, AccountInv, Account!TypeOK, Account!NeverOverdrawn, Account!Fits, Account!Accounts
  <2>2. ASSUME NEW p \in Versions, NEW n \in UpToOneOf(Quotas), Account!Grant(p, n)
        PROVE  AccountInv'
    BY <2>2, GrantStaysWithin
  <2>3. ASSUME NEW p \in Versions, NEW n \in UpToOneOf(Quotas), Account!Hold(p, n) \/ Account!ChargeMore(p, n)
        PROVE  AccountInv'
    BY <2>3, MoreStaysWithin
  <2>4. ASSUME NEW p \in Versions, NEW n \in UpToOneOf(Quotas), NEW charge \in UpToOneOf(Quotas),
               Account!Close(p, n, charge)
        PROVE  AccountInv'
    BY <2>4, CloseStaysWithin
  <2>5. ASSUME NEW credit \in [Versions -> UpToOneOf(Quotas)], Account!CreditBack(credit)
        PROVE  AccountInv'
    BY <2>5, CreditStaysWithin
  <2> QED
    BY <2>1, <2>2, <2>3, <2>4, <2>5 DEF Account!Next
<1> QED
  BY AccountInit, <1>1, PTL DEF Account!Spec, AccountInv

\* No interleaving of runs, clients, finance and renewals takes an entitlement
\* past its quota or a balance below zero.
THEOREM NeverPastQuota == Spec => [](Account!TypeOK /\ Account!NeverOverdrawn)
  BY Refinement, AccountsStayWithin, PTL DEF ImplementsAccount

(***************************************************************************)
(* What the verifier of the ledger and a run's tenant see.                 *)
(***************************************************************************)
LEMMA InvoicesCovered ==
  ASSUME LedgerInv, NEW inv \in Invoices
  PROVE  SumConsumed(InvoiceOf(inv)) >= 0
<1>0. LedgerTypeOK /\ EntriesSound /\ LinesCovered
  BY DEF LedgerInv
<1> DEFINE Of(T) == {i \in InvoiceOf(inv) : entries[i].plan \in T}
           G == {T \in SUBSET DOMAIN plans : SumConsumed(Of(T)) >= 0}
<1>1. {} \in G
  <2>1. Of({}) = {}
    OBVIOUS
  <2>2. SumConsumed(Of({})) = 0
    BY <2>1, SumsRead, SumsOfNone
  <2> QED
    BY <2>2
<1>2. ASSUME NEW T \in SUBSET DOMAIN plans, T # {}, \A p \in T : T \ {p} \in G
      PROVE  T \in G
  <2>1. PICK p \in T : TRUE
    BY <1>2
  <2> DEFINE S == Of(T \ {p})
             U == LineOf(inv, p)
             W == Of(T)
  <2>2. W = S \cup U /\ S \cap U = {} /\ S \in SUBSET DOMAIN entries /\ U \in SUBSET DOMAIN entries
    BY <2>1 DEF LineOf, InvoiceOf, OfPlan
  <2>3. SumConsumed(S) >= 0 /\ SumConsumed(U) >= 0
    BY <1>0, <1>2, <2>1 DEF LinesCovered
  <2> HIDE DEF S, U, W
  <2>4. IsFiniteSet(S) /\ IsFiniteSet(U) /\ SumConsumed(S) \in Int /\ SumConsumed(U) \in Int
    BY <1>0, <2>2, EntriesTable, FS_Subset, SumsTyped, SumsRead DEF Table
  <2>5. SumConsumed(W) = SumConsumed(S) + SumConsumed(U)
    <3> DEFINE f == [i \in DOMAIN entries |-> entries[i].consumed]
    <3>1. \A i \in S \cup U : f[i] \in Int
      BY <1>0, <2>2, EntriesTable DEF Table
    <3>2. /\ SumConsumed(W) = SumFunctionOnSet(f, W) /\ SumConsumed(S) = SumFunctionOnSet(f, S)
          /\ SumConsumed(U) = SumFunctionOnSet(f, U)
      BY DEF SumConsumed
    <3> HIDE DEF f
    <3> QED
      BY <2>2, <2>4, <3>1, <3>2, SumOfBoth
  <2>6. SumConsumed(W) >= 0
    BY <2>3, <2>4, <2>5
  <2> QED
    BY <2>6 DEF W
<1>3. IsFiniteSet(DOMAIN plans)
  BY <1>0, EntriesTable, FS_Interval
<1>4. DOMAIN plans \in G
  <2> HIDE DEF G
  <2> QED
    BY <1>1, <1>2, <1>3, SubsetInduction
<1>5. Of(DOMAIN plans) = InvoiceOf(inv)
  BY <1>0 DEF InvoiceOf, EntriesSound, EntrySound
<1> QED
  BY <1>4, <1>5

LEMMA InvReconciles == IInv => LedgerReconciles
<1> SUFFICES ASSUME IInv PROVE LedgerReconciles
  OBVIOUS
<1>0. LedgerInv /\ LedgerTypeOK /\ EntriesSound /\ ClosedOnce /\ AuthsMatched
  BY DEF IInv, LedgerInv
<1>1. ASSUME NEW i \in DOMAIN entries, entries[i].kind = "reservation"
      PROVE  Outstanding(i) >= 0
  <2>1. Outstanding(i) = IF Closers(i) = {} THEN entries[i].reserved ELSE 0
    BY <1>0, <1>1, OutstandingOf DEF IsReservation
  <2>2. entries[i].reserved \in Nat
    BY <1>0, <1>1 DEF EntriesSound, EntrySound, ReservationSound
  <2> QED
    BY <2>1, <2>2
<1>2. \A inv \in Invoices : SumConsumed({i \in DOMAIN entries : entries[i].invoice = inv}) >= 0
  BY <1>0, InvoicesCovered DEF InvoiceOf
<1> QED
  BY <1>0, <1>1, <1>2 DEF LedgerReconciles, AuthsMatched

\* The verifier accepts the ledger after every operation: each correction is
\* still matched by the authorization that paid for it, and no hold and no
\* invoice is below zero.
THEOREM Reconciliation == Spec => []LedgerReconciles
  BY Inductive, InvReconciles, PTL

LEMMA InvCharged == IInv => ChargedIffDone
<1> SUFFICES ASSUME IInv, NEW r \in Runs, jobs[r].hold # 0
             PROVE  Cardinality(Charges(r)) = (IF jobs[r].status = "done" THEN 1 ELSE 0)
  BY DEF ChargedIffDone
<1>1. RunsSound /\ ClosedOnce
  BY DEF IInv, LedgerInv
<1>2. Charges(r) # {} <=> jobs[r].status = "done"
  BY <1>1 DEF RunsSound
<1>3. CASE jobs[r].status = "done"
  <2>1. PICK i \in Charges(r) : TRUE
    BY <1>2, <1>3
  <2>2. Charges(r) = {i}
    BY <1>1, <2>1 DEF Charges, ClosedOnce
  <2> QED
    BY <1>3, <2>2, FS_Singleton
<1>4. CASE jobs[r].status # "done"
  BY <1>2, <1>4, FS_EmptySet
<1> QED
  BY <1>3, <1>4

\* A run is charged exactly once if it completed and never otherwise, whoever
\* crashed between the job row and the ledger.
THEOREM Charging == Spec => []ChargedIffDone
  BY Inductive, InvCharged, PTL
=============================================================================
