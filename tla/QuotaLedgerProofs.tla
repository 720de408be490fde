------------------------- MODULE QuotaLedgerProofs -------------------------
(***************************************************************************)
(* Proofs about QuotaLedger, for any finite set of requests and any set of *)
(* keys, amounts and limits.                                               *)
(*                                                                         *)
(* A step does one of five things to the money: it admits a reservation,   *)
(* charges one, gives one back, resets counters, or moves none.  What each *)
(* of them does to the three sums is a lemma of its own; the invariants    *)
(* then follow by arithmetic.                                              *)
(***************************************************************************)
EXTENDS QuotaLedger, FiniteSetTheorems, TLAPS

-----------------------------------------------------------------------------
(* What Total computes: 0 on the empty set, f[x] more with each x added, f[x] *)
(* less with each x removed, and monotone in f.                               *)

\* One element contributes as many units as its number.
LEMMA UnitsOfOne ==
    ASSUME NEW x, NEW n \in Nat
    PROVE  /\ IsFiniteSet({x} \X (1 .. n))
           /\ Cardinality({x} \X (1 .. n)) = n
<1>1. IsFiniteSet(1 .. n) /\ Cardinality(1 .. n) = n
  BY FS_Interval
<1>2. IsFiniteSet({x}) /\ Cardinality({x}) = 1
  BY FS_Singleton
<1>3. /\ IsFiniteSet({x} \X (1 .. n))
      /\ Cardinality({x} \X (1 .. n)) = Cardinality({x}) * Cardinality(1 .. n)
  BY <1>1, <1>2, FS_Product, Zenon
<1> QED
  BY <1>1, <1>2, <1>3

\* Finitely many elements have finitely many units.
LEMMA UnitsFinite ==
    ASSUME NEW S, IsFiniteSet(S), NEW f, \A x \in S : f[x] \in Nat
    PROVE  IsFiniteSet(Units(S, f))
<1> DEFINE part == [x \in S |-> {x} \X (1 .. f[x])]
           T == {{x} \X (1 .. f[x]) : x \in S}
<1>1. part \in Surjection(S, T)
  BY ZenonT(30) DEF Surjection
<1>2. IsFiniteSet(T)
  <2> HIDE DEF part, T
  <2> QED BY <1>1, FS_Surjection
<1>3. \A U \in T : IsFiniteSet(U)
  <2> SUFFICES ASSUME NEW U \in T PROVE IsFiniteSet(U)
    OBVIOUS
  <2> PICK x \in S : U = {x} \X (1 .. f[x])
    OBVIOUS
  <2> QED BY UnitsOfOne, ZenonT(30)
<1>4. IsFiniteSet(UNION T)
  <2> HIDE DEF T
  <2> QED BY <1>2, <1>3, FS_UNION
<1> QED
  BY <1>4 DEF Units

\* A total is a natural number.
LEMMA TotalNat ==
    ASSUME NEW S, IsFiniteSet(S), NEW f, \A x \in S : f[x] \in Nat
    PROVE  Total(S, f) \in Nat
BY UnitsFinite, FS_CardinalityType DEF Total

\* Nothing adds up to zero.
LEMMA TotalEmpty ==
    ASSUME NEW f
    PROVE  Total({}, f) = 0
<1>1. Units({}, f) = {}
  BY DEF Units
<1> QED
  BY <1>1, FS_EmptySet DEF Total

\* A new element adds its number.
LEMMA TotalAdd ==
    ASSUME NEW S, IsFiniteSet(S), NEW x, x \notin S,
           NEW f, \A y \in S \cup {x} : f[y] \in Nat
    PROVE  Total(S \cup {x}, f) = Total(S, f) + f[x]
<1> DEFINE A == Units(S, f)
           B == {x} \X (1 .. f[x])
<1>1. Units(S \cup {x}, f) = A \cup B
  BY Zenon DEF Units
<1>2. A \cap B = {}
  BY DEF Units
<1>3. IsFiniteSet(A)
  BY UnitsFinite
<1>4. IsFiniteSet(B) /\ Cardinality(B) = f[x]
  BY UnitsOfOne, ZenonT(30)
<1>5. Cardinality(A \cap B) = 0
  BY <1>2, FS_EmptySet
<1>6. Cardinality(A) \in Nat
  BY <1>3, FS_CardinalityType
<1>7. Cardinality(A \cup B) = Cardinality(A) + Cardinality(B) - Cardinality(A \cap B)
  <2> HIDE DEF A, B
  <2> QED BY <1>3, <1>4, FS_Union
<1> HIDE DEF A, B
<1>8. Cardinality(A \cup B) = Cardinality(A) + f[x]
  BY <1>4, <1>5, <1>6, <1>7
<1> QED
  BY <1>1, <1>8, ZenonT(30) DEF Total, A

\* Removing an element takes its number away.
LEMMA TotalRemove ==
    ASSUME NEW S, IsFiniteSet(S), NEW x \in S,
           NEW f, \A y \in S : f[y] \in Nat
    PROVE  /\ f[x] <= Total(S, f)
           /\ Total(S \ {x}, f) = Total(S, f) - f[x]
<1> DEFINE R == S \ {x}
<1>1. IsFiniteSet(R)
  BY FS_RemoveElement
<1>2. S = R \cup {x} /\ x \notin R
  OBVIOUS
<1>3. Total(R, f) \in Nat
  BY <1>1, TotalNat
<1>4. Total(S, f) = Total(R, f) + f[x]
  <2> HIDE DEF R
  <2>1. \A y \in R \cup {x} : f[y] \in Nat
    BY <1>2
  <2>2. Total(R \cup {x}, f) = Total(R, f) + f[x]
    BY <1>1, <1>2, <2>1, TotalAdd, ZenonT(30)
  <2> QED BY <1>2, <2>2
<1>5. f[x] \in Nat
  OBVIOUS
<1> HIDE DEF R
<1>6. Total(R, f) = Total(S, f) - f[x] /\ f[x] <= Total(S, f)
  BY <1>3, <1>4, <1>5
<1> QED
  BY <1>6 DEF R

\* A total depends on f only through its values on S.
LEMMA TotalSame ==
    ASSUME NEW S, NEW f, NEW g, \A x \in S : f[x] = g[x]
    PROVE  Total(S, f) = Total(S, g)
<1>1. Units(S, f) = Units(S, g)
  BY DEF Units
<1> QED
  BY <1>1 DEF Total

\* Smaller numbers have a smaller total.
LEMMA TotalMonotone ==
    ASSUME NEW S, IsFiniteSet(S), NEW f, NEW g,
           \A x \in S : f[x] \in Nat /\ g[x] \in Nat /\ f[x] <= g[x]
    PROVE  Total(S, f) <= Total(S, g)
<1>1. Units(S, f) \subseteq Units(S, g)
  <2> SUFFICES ASSUME NEW u \in Units(S, f) PROVE u \in Units(S, g)
    OBVIOUS
  <2> PICK x \in S : u \in {x} \X (1 .. f[x])
    BY DEF Units
  <2>1. u \in {x} \X (1 .. g[x])
    OBVIOUS
  <2> QED BY <2>1 DEF Units
<1>2. IsFiniteSet(Units(S, g))
  BY UnitsFinite
<1> QED
  BY <1>1, <1>2, FS_Subset DEF Total

-----------------------------------------------------------------------------
(* The sums and the shape of the rows *)

PendingSum(k, d) == Total(PendingOf(k), Held(d))

ChargedSum(k, d) == Total(ChargedOf(k), Actual(d))

CountedSum(k, d) == Total(ChargedOf(k), Counted(d))

\* Which rows exist together.
RowShape ==
    \A r \in Request :
        /\ resv[r].status = "finalized" => ledger[r].status # "none"
        /\ ledger[r].status # "none" => resv[r].status # "none"
        /\ r \in cleared => resv[r].status = "finalized"
        /\ ledger[r].hold => ledger[r].status # "none"
        /\ ledger[r].needsRec => ledger[r].status # "none" /\ ~resv[r].fenced

Min2(m, n) == IF m < n THEN m ELSE n

-----------------------------------------------------------------------------
(* The five effects *)

Admitted(r, a) ==
    /\ resv[r].status = "none"
    /\ WithinLimits(KeyOf[r], a)
    /\ fence[KeyOf[r]].state = "none"
    /\ \E b \in BOOLEAN : /\ b => PendingOf(KeyOf[r]) = {}
                          /\ Admit(r, a, b)
    /\ UNCHANGED <<limit, used, ledger, drift, cleared>>

Charged(r, a) ==
    /\ Charge(r, a)
    /\ ledger'[r].actual = a
    /\ \A x \in Request \ {r} : ledger'[x] = ledger[x]
    /\ UNCHANGED <<limit, drift, cleared, ceiling>>

GivenBack(r) ==
    /\ \E s \in {"released", "expired"} : GiveBack(r, s)
    /\ \A x \in Request \ {r} : ledger'[x] = ledger[x]
    /\ UNCHANGED <<limit, drift, cleared, ceiling>>

\* Only the operator's own transaction changes a limit.
Relimited == \E k \in Key, l \in Limits : UpdateLimits(k, l)

Unmoved ==
    /\ limit' = limit \/ Relimited
    /\ UNCHANGED <<used, reserved, resv, drift, cleared, ceiling>>
    /\ \A x \in Request : resv[x].status = "finalized" =>
                             ledger'[x].actual = ledger[x].actual

-----------------------------------------------------------------------------
(* Sums *)

\* The sums over the rows of a key are naturals; what counts is part of what was charged.
LEMMA SumsAreNat ==
    ASSUME TypeOK, NEW k \in Key, NEW d \in Dim
    PROVE  /\ PendingSum(k, d) \in Nat
           /\ ChargedSum(k, d) \in Nat
           /\ CountedSum(k, d) \in Nat
           /\ CountedSum(k, d) <= ChargedSum(k, d)
<1>1. IsFiniteSet(PendingOf(k)) /\ IsFiniteSet(ChargedOf(k))
  BY RequestsFinite, FS_Subset DEF PendingOf, ChargedOf
<1>2. \A r \in Request : Held(d)[r] \in Nat /\ Actual(d)[r] \in Nat
                         /\ Counted(d)[r] \in Nat /\ Counted(d)[r] <= Actual(d)[r]
  BY DEF TypeOK, Counters, LedgerRows, Reservations, Held, Actual, Counted
<1>3. PendingOf(k) \subseteq Request /\ ChargedOf(k) \subseteq Request
  BY DEF PendingOf, ChargedOf
<1>4. \A r \in PendingOf(k) : Held(d)[r] \in Nat
  BY <1>2, <1>3
<1>5. \A r \in ChargedOf(k) : Actual(d)[r] \in Nat /\ Counted(d)[r] \in Nat
                              /\ Counted(d)[r] <= Actual(d)[r]
  BY <1>2, <1>3
<1> QED
  BY <1>1, <1>4, <1>5, TotalNat, TotalMonotone, Zenon
     DEF PendingSum, ChargedSum, CountedSum

\* A transaction that moves no row moves no sum.
LEMMA UnmovedSums ==
    ASSUME TypeOK, Unmoved, NEW k \in Key, NEW d \in Dim
    PROVE  /\ PendingSum(k, d)' = PendingSum(k, d)
           /\ ChargedSum(k, d)' = ChargedSum(k, d)
           /\ CountedSum(k, d)' = CountedSum(k, d)
<1>1. PendingOf(k)' = PendingOf(k) /\ ChargedOf(k)' = ChargedOf(k)
  BY DEF Unmoved, PendingOf, ChargedOf
<1>2. Held(d)' = Held(d)
  BY DEF Unmoved, Held
<1>3. \A r \in ChargedOf(k) : Actual(d)'[r] = Actual(d)[r]
                              /\ Counted(d)'[r] = Counted(d)[r]
  BY DEF Unmoved, ChargedOf, Actual, Counted
<1>same. /\ Total(ChargedOf(k), Actual(d)') = Total(ChargedOf(k), Actual(d))
      /\ Total(ChargedOf(k), Counted(d)') = Total(ChargedOf(k), Counted(d))
  BY <1>3, TotalSame, Zenon
<1> QED
  BY <1>1, <1>2, <1>same DEF PendingSum, ChargedSum, CountedSum

\* An admission adds its amount to what is pending on its key.
LEMMA AdmittedSums ==
    ASSUME TypeOK, NEW r \in Request, NEW a \in Counters, Admitted(r, a),
           NEW k \in Key, NEW d \in Dim
    PROVE  /\ k = KeyOf[r] => PendingSum(k, d)' = PendingSum(k, d) + a[d]
           /\ k # KeyOf[r] => PendingSum(k, d)' = PendingSum(k, d)
           /\ ChargedSum(k, d)' = ChargedSum(k, d)
           /\ CountedSum(k, d)' = CountedSum(k, d)
<1> USE KeyOfType
<1>1. /\ r \notin PendingOf(k)
      /\ k = KeyOf[r] => PendingOf(k)' = PendingOf(k) \cup {r}
      /\ k # KeyOf[r] => PendingOf(k)' = PendingOf(k)
      /\ ChargedOf(k)' = ChargedOf(k)
  BY DEF Admitted, Admit, PendingOf, ChargedOf, TypeOK, Counters,
         LedgerRows, Reservations
<1>2. /\ \A x \in PendingOf(k) : Held(d)'[x] = Held(d)[x]
      /\ Held(d)'[r] = a[d]
      /\ \A x \in PendingOf(k) : Held(d)[x] \in Nat
  BY DEF Admitted, Admit, PendingOf, Held, TypeOK, Counters, LedgerRows,
         Reservations
<1>3. \A x \in ChargedOf(k) : Actual(d)'[x] = Actual(d)[x]
                              /\ Counted(d)'[x] = Counted(d)[x]
  BY DEF Admitted, Admit, ChargedOf, Actual, Counted, TypeOK, Counters,
         LedgerRows, Reservations
<1>4. IsFiniteSet(PendingOf(k))
  BY RequestsFinite, FS_Subset DEF PendingOf
<1>5. Total(PendingOf(k), Held(d)') = Total(PendingOf(k), Held(d))
  BY <1>2, TotalSame, Zenon
<1>6. \A x \in PendingOf(k) \cup {r} : Held(d)'[x] \in Nat
  BY <1>2 DEF Counters
<1>7. Total(PendingOf(k) \cup {r}, Held(d)')
        = Total(PendingOf(k), Held(d)') + Held(d)'[r]
  BY <1>1, <1>4, <1>6, TotalAdd, Zenon
<1>8. /\ k = KeyOf[r] => PendingSum(k, d)' = PendingSum(k, d) + a[d]
      /\ k # KeyOf[r] => PendingSum(k, d)' = PendingSum(k, d)
  BY <1>1, <1>2, <1>5, <1>7, ZenonT(30) DEF PendingSum
<1>same. /\ Total(ChargedOf(k), Actual(d)') = Total(ChargedOf(k), Actual(d))
      /\ Total(ChargedOf(k), Counted(d)') = Total(ChargedOf(k), Counted(d))
  BY <1>3, TotalSame, Zenon
<1> QED
  BY <1>1, <1>8, <1>same DEF ChargedSum, CountedSum

\* A pending reservation that settles gives its amount back to its key.
LEMMA SettledPending ==
    ASSUME TypeOK, NEW r \in Request, resv[r].status = "pending",
           NEW s \in {"finalized", "released", "expired"},
           resv' = [resv EXCEPT ![r].status = s],
           NEW k \in Key, NEW d \in Dim
    PROVE  /\ k = KeyOf[r] =>
                 /\ resv[r].amount[d] <= PendingSum(k, d)
                 /\ PendingSum(k, d)' = PendingSum(k, d) - resv[r].amount[d]
           /\ k # KeyOf[r] => PendingSum(k, d)' = PendingSum(k, d)
<1> USE KeyOfType
<1>1. /\ k = KeyOf[r] => r \in PendingOf(k) /\ PendingOf(k)' = PendingOf(k) \ {r}
      /\ k # KeyOf[r] => PendingOf(k)' = PendingOf(k)
  BY DEF PendingOf, TypeOK, Counters, LedgerRows, Reservations
<1>2. Held(d)' = Held(d) /\ Held(d)[r] = resv[r].amount[d]
  BY DEF Held, TypeOK, Counters, LedgerRows, Reservations
<1>3. \A x \in PendingOf(k) : Held(d)[x] \in Nat
  BY DEF Held, PendingOf, TypeOK, Counters, LedgerRows, Reservations
<1>4. IsFiniteSet(PendingOf(k))
  BY RequestsFinite, FS_Subset DEF PendingOf
<1>5. r \in PendingOf(k) =>
         /\ Held(d)[r] <= Total(PendingOf(k), Held(d))
         /\ Total(PendingOf(k) \ {r}, Held(d))
              = Total(PendingOf(k), Held(d)) - Held(d)[r]
  BY <1>3, <1>4, TotalRemove, Zenon
<1> QED
  BY <1>1, <1>2, <1>5 DEF PendingSum

\* A charge adds the actual amount to its key, and counts at most what was reserved.
LEMMA ChargedSums ==
    ASSUME TypeOK, RowShape, NEW r \in Request, NEW a \in Counters,
           Charged(r, a), NEW k \in Key, NEW d \in Dim
    PROVE  /\ k = KeyOf[r] =>
                 /\ ChargedSum(k, d)' = ChargedSum(k, d) + a[d]
                 /\ CountedSum(k, d)' = CountedSum(k, d)
                                          + Min2(a[d], resv[r].amount[d])
           /\ k # KeyOf[r] => /\ ChargedSum(k, d)' = ChargedSum(k, d)
                              /\ CountedSum(k, d)' = CountedSum(k, d)
<1> USE KeyOfType
<1>1. /\ r \notin ChargedOf(k)
      /\ k = KeyOf[r] => ChargedOf(k)' = ChargedOf(k) \cup {r}
      /\ k # KeyOf[r] => ChargedOf(k)' = ChargedOf(k)
  BY DEF Charged, Charge, CanSettle, ChargedOf, TypeOK, Counters,
         LedgerRows, Reservations, RowShape
<1>2. /\ \A x \in ChargedOf(k) : Actual(d)'[x] = Actual(d)[x]
      /\ \A x \in ChargedOf(k) : Actual(d)[x] \in Nat
      /\ Actual(d)'[r] = a[d]
  <2>1. ChargedOf(k) \subseteq Request \ {r}
    BY <1>1 DEF ChargedOf
  <2>2. \A x \in Request \ {r} : Actual(d)'[x] = Actual(d)[x] /\ Actual(d)[x] \in Nat
    BY DEF Charged, Actual, TypeOK, Counters, LedgerRows, Reservations
  <2>3. Actual(d)'[r] = a[d]
    BY DEF Charged, Actual
  <2> QED BY <2>1, <2>2, <2>3
<1>3. /\ \A x \in ChargedOf(k) : Counted(d)'[x] = Counted(d)[x]
      /\ \A x \in ChargedOf(k) : Counted(d)[x] \in Nat
      /\ Counted(d)'[r] = Min2(a[d], resv[r].amount[d])
      /\ Counted(d)'[r] \in Nat
  BY <1>1, SMTT(30) DEF Charged, Charge, ChargedOf, Counted, TypeOK, Counters,
              LedgerRows, Reservations, Min2
<1>4. IsFiniteSet(ChargedOf(k))
  BY RequestsFinite, FS_Subset DEF ChargedOf
<1>5. /\ Total(ChargedOf(k), Actual(d)') = Total(ChargedOf(k), Actual(d))
      /\ Total(ChargedOf(k), Counted(d)') = Total(ChargedOf(k), Counted(d))
  BY <1>2, <1>3, TotalSame, Zenon
<1>6. /\ \A x \in ChargedOf(k) \cup {r} : Actual(d)'[x] \in Nat
      /\ \A x \in ChargedOf(k) \cup {r} : Counted(d)'[x] \in Nat
  BY <1>2, <1>3 DEF Counters
<1>7. /\ Total(ChargedOf(k) \cup {r}, Actual(d)')
           = Total(ChargedOf(k), Actual(d)') + Actual(d)'[r]
      /\ Total(ChargedOf(k) \cup {r}, Counted(d)')
           = Total(ChargedOf(k), Counted(d)') + Counted(d)'[r]
  BY <1>1, <1>4, <1>6, TotalAdd, Zenon
<1> QED
  BY <1>1, <1>2, <1>3, <1>5, <1>7, ZenonT(30) DEF ChargedSum, CountedSum

\* Giving a reservation back charges nothing.
LEMMA GivenBackSums ==
    ASSUME TypeOK, NEW r \in Request, GivenBack(r), NEW k \in Key, NEW d \in Dim
    PROVE  /\ ChargedSum(k, d)' = ChargedSum(k, d)
           /\ CountedSum(k, d)' = CountedSum(k, d)
<1>1. ChargedOf(k)' = ChargedOf(k) /\ r \notin ChargedOf(k)
  BY DEF GivenBack, GiveBack, CanSettle, ChargedOf, TypeOK, Counters,
         LedgerRows, Reservations
<1>2. \A x \in ChargedOf(k) : Actual(d)'[x] = Actual(d)[x]
                              /\ Counted(d)'[x] = Counted(d)[x]
  BY <1>1 DEF GivenBack, GiveBack, ChargedOf, Actual, Counted, TypeOK,
              Counters, LedgerRows, Reservations
<1>same. /\ Total(ChargedOf(k), Actual(d)') = Total(ChargedOf(k), Actual(d))
      /\ Total(ChargedOf(k), Counted(d)') = Total(ChargedOf(k), Counted(d))
  BY <1>2, TotalSame, Zenon
<1> QED
  BY <1>1, <1>same DEF ChargedSum, CountedSum

\* A reset of used counters starts the charged sums of its key afresh.
LEMMA ResetSums ==
    ASSUME TypeOK, NEW c \in Key, NEW u \in BOOLEAN, NEW v \in BOOLEAN,
           ResetUsage(c, u, v), NEW k \in Key, NEW d \in Dim
    PROVE  /\ PendingSum(k, d)' = PendingSum(k, d)
           /\ k = c /\ u => ChargedSum(k, d)' = 0 /\ CountedSum(k, d)' = 0
           /\ ~(k = c /\ u) => /\ ChargedSum(k, d)' = ChargedSum(k, d)
                               /\ CountedSum(k, d)' = CountedSum(k, d)
<1>1. /\ PendingOf(k)' = PendingOf(k)
      /\ k = c /\ u => ChargedOf(k)' = {}
      /\ ~(k = c /\ u) => ChargedOf(k)' = ChargedOf(k)
  BY DEF ResetUsage, PendingOf, ChargedOf
<1>2. /\ Held(d)' = Held(d)
      /\ Actual(d)' = Actual(d)
      /\ Counted(d)' = Counted(d)
  BY DEF ResetUsage, Held, Actual, Counted
<1> QED
  BY <1>1, <1>2, TotalEmpty, Zenon DEF PendingSum, ChargedSum, CountedSum

-----------------------------------------------------------------------------
(* Types *)

\* An amount is a vector of naturals.
LEMMA AmountCounters ==
    ASSUME NEW a \in Amount
    PROVE  a \in Counters
BY AmountType DEF Counters

\* So is nothing.
LEMMA ZeroCounters == Zero \in Counters
BY DEF Zero, Counters

\* An admission keeps the types of the rows and counters it writes.
LEMMA AdmitType ==
    ASSUME TypeOK, NEW r \in Request, NEW a \in Counters, NEW b \in BOOLEAN,
           Admit(r, a, b)
    PROVE  /\ resv' \in [Request -> Reservations]
           /\ reserved' \in [Key -> Counters]
           /\ ceiling' \in [Key -> LimitColumns]
<1> USE KeyOfType
<1>1. Plus(reserved[KeyOf[r]], a) \in Counters
  BY DEF TypeOK, Plus, Counters
<1> QED
  BY <1>1, ZenonT(30) DEF TypeOK, Admit, Reservations

\* A reservation that can be settled leaves no counter negative.
LEMMA SettleType ==
    ASSUME TypeOK, NEW r \in Request, CanSettle(r)
    PROVE  /\ Minus(reserved[KeyOf[r]], resv[r].amount) \in Counters
           /\ \A s \in {"finalized", "released", "expired"} :
                 [resv EXCEPT ![r].status = s] \in [Request -> Reservations]
<1> USE KeyOfType
<1>1. Minus(reserved[KeyOf[r]], resv[r].amount) \in Counters
  BY DEF TypeOK, CanSettle, CanDecrement, Minus, Counters, Reservations
<1>2. \A s \in {"finalized", "released", "expired"} :
         [resv EXCEPT ![r].status = s] \in [Request -> Reservations]
  BY DEF TypeOK, Reservations
<1> QED
  BY <1>1, <1>2

\* A charge keeps the types of what it writes.
LEMMA ChargeType ==
    ASSUME TypeOK, NEW r \in Request, NEW a \in Counters, Charge(r, a)
    PROVE  /\ resv' \in [Request -> Reservations]
           /\ reserved' \in [Key -> Counters]
           /\ used' \in [Key -> Counters]
<1> USE KeyOfType
<1>1. Plus(used[KeyOf[r]], a) \in Counters
  BY DEF TypeOK, Plus, Counters
<1>2. CanSettle(r)
  BY DEF Charge
<1> QED
  BY <1>1, <1>2, SettleType, ZenonT(30) DEF TypeOK, Charge

\* Giving back keeps the types of what it writes.
LEMMA GiveBackType ==
    ASSUME TypeOK, NEW r \in Request, NEW s \in {"released", "expired"},
           GiveBack(r, s)
    PROVE  /\ resv' \in [Request -> Reservations]
           /\ reserved' \in [Key -> Counters]
           /\ used' \in [Key -> Counters]
<1> USE KeyOfType
<1>1. CanSettle(r)
  BY DEF GiveBack
<1> QED
  BY <1>1, SettleType, ZenonT(30) DEF TypeOK, GiveBack

\* The ledger rows the transactions write.
LEMMA RowType ==
    ASSUME NEW a \in Counters,
           NEW s \in {"pending", "finalized", "failed", "estimated",
                      "interrupted"}
    PROVE  /\ LedgerRow(s, a) \in LedgerRows
           /\ [LedgerRow(s, a) EXCEPT !.hold = TRUE] \in LedgerRows
           /\ LedgerRow(s, a).status = s
           /\ LedgerRow(s, a).actual = a
           /\ ~LedgerRow(s, a).hold
           /\ ~LedgerRow(s, a).needsRec
           /\ [LedgerRow(s, a) EXCEPT !.hold = TRUE].status = s
           /\ [LedgerRow(s, a) EXCEPT !.hold = TRUE].hold
           /\ ~[LedgerRow(s, a) EXCEPT !.hold = TRUE].needsRec
BY ZeroCounters, ZenonT(30) DEF LedgerRow, NoLedger, LedgerRows

\* A fence reserves what remains of the limits, which fits them.
LEMMA RemainingFits ==
    ASSUME TypeOK, NEW r \in Request, AcquireFence(r)
    PROVE  /\ Remaining(KeyOf[r]) \in Counters
           /\ WithinLimits(KeyOf[r], Remaining(KeyOf[r]))
<1> USE KeyOfType
<1> DEFINE k == KeyOf[r]
<1>1. /\ k \in Key
      /\ \A d \in Dim : /\ limit[k][d] \in Nat
                        /\ used[k][d] \in Nat
                        /\ reserved[k][d] \in Nat
                        /\ limit[k][d] - used[k][d] - reserved[k][d] >= 1
  BY DEF TypeOK, AcquireFence, LimitColumns, Counters
<1> HIDE DEF k
<1>2. Remaining(k) \in Counters
  BY <1>1 DEF Remaining, Counters
<1>3. WithinLimits(k, Remaining(k))
  BY <1>1 DEF Remaining, WithinLimits
<1> QED
  BY <1>2, <1>3 DEF k

-----------------------------------------------------------------------------
(* One step *)

\* Every transaction keeps every row and counter in the domain of its column.
LEMMA TypeOKStep ==
    ASSUME TypeOK, Next
    PROVE  TypeOK'
<1>1. ASSUME NEW r \in Request, NEW a \in Amount, Reserve(r, a)
      PROVE  TypeOK'
  BY <1>1, AmountCounters, AdmitType, ZenonT(30) DEF Reserve, TypeOK
<1>2. ASSUME NEW r \in Request, NEW a \in Amount, FinalizeSuccess(r, a)
      PROVE  TypeOK'
  BY <1>2, AmountCounters, RowType, ChargeType, ZenonT(30) DEF FinalizeSuccess,
     InsertLedger, TypeOK
<1>3. ASSUME NEW r \in Request, NEW a \in Amount, RecordCompleted(r, a)
      PROVE  TypeOK'
  BY <1>3, AmountCounters, RowType, ZenonT(30) DEF RecordCompleted, InsertLedger, TypeOK
<1>4. ASSUME NEW r \in Request, NEW a \in Amount, InterruptWithEstimate(r, a)
      PROVE  TypeOK'
  BY <1>4, AmountCounters, RowType, ChargeType, ZenonT(30) DEF InterruptWithEstimate,
     InsertLedger, TypeOK
<1>5. ASSUME NEW r \in Request, NEW a \in Amount, FinalizeFenced(r, a)
      PROVE  TypeOK'
  BY <1>5, AmountCounters, RowType, ChargeType, ZenonT(30) DEF FinalizeFenced,
     InsertLedger, ResolveFence, NoFence, Fences, TypeOK
<1>6. ASSUME NEW r \in Request, FinalizeCompleted(r)
      PROVE  TypeOK'
  <2>1. ledger[r].actual \in Counters
    BY <1>6 DEF TypeOK, LedgerRows
  <2>2. ledger' \in [Request -> LedgerRows]
    BY <1>6, ZenonT(30) DEF FinalizeCompleted, TypeOK, LedgerRows
  <2> QED BY <1>6, <2>1, <2>2, ChargeType DEF FinalizeCompleted, TypeOK
<1>7. ASSUME NEW r \in Request, MarkFinalizationFailed(r)
      PROVE  TypeOK'
  BY <1>7, ZenonT(30) DEF MarkFinalizationFailed, TypeOK, LedgerRows
<1>8. ASSUME NEW r \in Request, FailAndRelease(r)
      PROVE  TypeOK'
  <2>1. ledger' \in [Request -> LedgerRows]
    BY <1>8, ZeroCounters, RowType, ZenonT(30) DEF FailAndRelease, InsertLedger, TypeOK
  <2>2. CASE GiveBack(r, "released")
    BY <1>8, <2>1, <2>2, GiveBackType DEF FailAndRelease, TypeOK
  <2>3. CASE UNCHANGED <<used, reserved, resv>>
    BY <1>8, <2>1, <2>3 DEF FailAndRelease, TypeOK
  <2> QED BY <1>8, <2>2, <2>3 DEF FailAndRelease
<1>9. ASSUME NEW r \in Request, AcquireFence(r)
      PROVE  TypeOK'
  <2>1. fence' \in [Key -> Fences]
    BY <1>9, KeyOfType, Zenon DEF AcquireFence, TypeOK, Fences
  <2> QED BY <1>9, <2>1, RemainingFits, AdmitType, ZenonT(30) DEF AcquireFence, TypeOK
<1>10. ASSUME NEW r \in Request, FailFenced(r)
      PROVE  TypeOK'
  BY <1>10, ZeroCounters, RowType, GiveBackType, ZenonT(30) DEF FailFenced,
     InsertLedger, ResolveFence, NoFence, Fences, TypeOK
<1>11. ASSUME NEW r \in Request, NEW s \in {"estimated", "interrupted"},
             PlaceHold(r, s)
      PROVE  TypeOK'
  <2>1. fence' \in [Key -> Fences]
    BY <1>11, KeyOfType DEF PlaceHold, TypeOK, Fences
  <2>2. ledger' \in [Request -> LedgerRows]
    BY <1>11, ZeroCounters, RowType, ZenonT(30) DEF PlaceHold, InsertLedger, TypeOK
  <2> QED BY <1>11, <2>1, <2>2 DEF PlaceHold, TypeOK
<1>12. ASSUME NEW r \in Request, PassExpiry(r)
      PROVE  TypeOK'
  BY <1>12 DEF PassExpiry, TypeOK
<1>13. ASSUME NEW r \in Request, ExpireReservation(r)
      PROVE  TypeOK'
  <2>1. ledger' \in [Request -> LedgerRows]
    BY <1>13, ZeroCounters, RowType, ZenonT(30) DEF ExpireReservation, TypeOK
  <2> QED BY <1>13, <2>1, GiveBackType DEF ExpireReservation, TypeOK
<1>14. ASSUME NEW r \in Request, ReconcileCompleted(r)
      PROVE  TypeOK'
  <2>1. ledger[r].actual \in Counters
    BY <1>14 DEF TypeOK, LedgerRows
  <2>2. ledger' \in [Request -> LedgerRows]
    BY <1>14, ZenonT(30) DEF ReconcileCompleted, TypeOK, LedgerRows
  <2> QED BY <1>14, <2>1, <2>2, ChargeType DEF ReconcileCompleted, TypeOK
<1>15. ASSUME NEW r \in Request, NEW a \in Amount, ReconcileHoldActual(r, a)
      PROVE  TypeOK'
  BY <1>15, AmountCounters, RowType, ChargeType, ZenonT(30) DEF ReconcileHoldActual,
     ResolveFence, NoFence, Fences, TypeOK
<1>16. ASSUME NEW r \in Request, ReconcileHoldNoCharge(r)
      PROVE  TypeOK'
  BY <1>16, ZeroCounters, RowType, GiveBackType, ZenonT(30) DEF ReconcileHoldNoCharge,
     ResolveFence, NoFence, Fences, TypeOK
<1>17. ASSUME NEW k \in Key, SuspendKey(k)
      PROVE  TypeOK'
  BY <1>17 DEF SuspendKey, SetStatus, TypeOK, KeyRows
<1>18. ASSUME NEW k \in Key, ActivateKey(k)
      PROVE  TypeOK'
  BY <1>18 DEF ActivateKey, SetStatus, TypeOK, KeyRows
<1>19. ASSUME NEW k \in Key, RevokeKey(k)
      PROVE  TypeOK'
  BY <1>19 DEF RevokeKey, SetStatus, TypeOK, KeyRows
<1>20. ASSUME NEW k \in Key, ChangeWindow(k)
      PROVE  TypeOK'
  BY <1>20, ZenonT(30) DEF ChangeWindow, TypeOK, KeyRows
<1>21. ASSUME NEW k \in Key, NEW l \in Limits, UpdateLimits(k, l)
      PROVE  TypeOK'
  BY <1>21, LimitsType DEF UpdateLimits, TypeOK, LimitColumns
<1>22. ASSUME NEW k \in Key, NEW u \in BOOLEAN, NEW v \in BOOLEAN,
             ResetUsage(k, u, v)
      PROVE  TypeOK'
  BY <1>22, ZeroCounters DEF ResetUsage, TypeOK, ChargedOf
<1> QED
  BY <1>1, <1>2, <1>3, <1>4, <1>5, <1>6, <1>7, <1>8, <1>9, <1>10, <1>11,
     <1>12, <1>13, <1>14, <1>15, <1>16, <1>17, <1>18, <1>19, <1>20, <1>21,
     <1>22 DEF Next, RequestStep, RepairStep, OperatorStep

\* Every transaction does one of the five things to the money.
Moves ==
    \/ \E r \in Request, a \in Counters : Admitted(r, a)
    \/ \E r \in Request, a \in Counters : Charged(r, a)
    \/ \E r \in Request : GivenBack(r)
    \/ \E k \in Key, u, v \in BOOLEAN : ResetUsage(k, u, v)
    \/ Unmoved

\* Every transaction has one of the effects on rows and counters.
LEMMA StepMoves ==
    ASSUME TypeOK, RowShape, Next
    PROVE  Moves
<1>1. ASSUME NEW r \in Request, NEW a \in Amount, Reserve(r, a)
      PROVE  Moves
  <2>1. Admitted(r, a)
    BY <1>1, ZenonT(30) DEF Reserve, Admitted
  <2> QED BY AmountCounters, <2>1 DEF Moves
<1>2. ASSUME NEW r \in Request, NEW a \in Amount, FinalizeSuccess(r, a)
      PROVE  Moves
  <2>1. Charged(r, a)
    BY <1>2 DEF FinalizeSuccess, Charged, InsertLedger, LedgerRow, NoLedger,
       TypeOK, LedgerRows
  <2> QED BY AmountCounters, <2>1 DEF Moves
<1>3. ASSUME NEW r \in Request, NEW a \in Amount, RecordCompleted(r, a)
      PROVE  Moves
  <2>1. Unmoved
    BY <1>3 DEF RecordCompleted, InsertLedger, Unmoved, RowShape, TypeOK,
       LedgerRows
  <2> QED BY <2>1 DEF Moves
<1>4. ASSUME NEW r \in Request, NEW a \in Amount, InterruptWithEstimate(r, a)
      PROVE  Moves
  <2>1. Charged(r, a)
    BY <1>4 DEF InterruptWithEstimate, Charged, InsertLedger, LedgerRow,
       NoLedger, TypeOK, LedgerRows
  <2> QED BY AmountCounters, <2>1 DEF Moves
<1>5. ASSUME NEW r \in Request, NEW a \in Amount, FinalizeFenced(r, a)
      PROVE  Moves
  <2>1. Charged(r, a)
    BY <1>5 DEF FinalizeFenced, Charged, InsertLedger, LedgerRow, NoLedger,
       TypeOK, LedgerRows
  <2> QED BY AmountCounters, <2>1 DEF Moves
<1>6. ASSUME NEW r \in Request, FinalizeCompleted(r)
      PROVE  Moves
  <2>1. ledger[r].actual \in Counters
    BY <1>6 DEF TypeOK, LedgerRows
  <2>2. Charged(r, ledger[r].actual)
    BY <1>6 DEF FinalizeCompleted, Charged, TypeOK, LedgerRows
  <2> QED BY <2>1, <2>2 DEF Moves
<1>7. ASSUME NEW r \in Request, MarkFinalizationFailed(r)
      PROVE  Moves
  <2>1. Unmoved
    BY <1>7 DEF MarkFinalizationFailed, Unmoved, TypeOK, LedgerRows
  <2> QED BY <2>1 DEF Moves
<1>8. ASSUME NEW r \in Request, FailAndRelease(r)
      PROVE  Moves
  <2>1. CASE GiveBack(r, "released")
    <3>1. GivenBack(r)
      BY <1>8, <2>1 DEF FailAndRelease, InsertLedger, GivenBack, TypeOK
    <3> QED BY <3>1 DEF Moves
  <2>2. CASE UNCHANGED <<used, reserved, resv>>
    <3>1. Unmoved
      BY <1>8, <2>2 DEF FailAndRelease, InsertLedger, Unmoved, RowShape, TypeOK
    <3> QED BY <3>1 DEF Moves
  <2> QED BY <1>8, <2>1, <2>2 DEF FailAndRelease
<1>9. ASSUME NEW r \in Request, AcquireFence(r)
      PROVE  Moves
  <2>1. Admitted(r, Remaining(KeyOf[r]))
    BY <1>9, RemainingFits, ZenonT(30) DEF AcquireFence, Admitted
  <2> QED BY <1>9, <2>1, RemainingFits DEF Moves 
<1>10. ASSUME NEW r \in Request, FailFenced(r)
      PROVE  Moves
  <2>1. GivenBack(r)
    BY <1>10 DEF FailFenced, InsertLedger, GivenBack, TypeOK, LedgerRows
  <2> QED BY <2>1 DEF Moves
<1>11. ASSUME NEW r \in Request, NEW s \in {"estimated", "interrupted"},
             PlaceHold(r, s)
      PROVE  Moves
  <2>1. Unmoved
    BY <1>11 DEF PlaceHold, InsertLedger, Unmoved, RowShape, TypeOK, LedgerRows
  <2> QED BY <2>1 DEF Moves
<1>12. ASSUME NEW r \in Request, PassExpiry(r)
      PROVE  Moves
  <2>1. Unmoved
    BY <1>12 DEF PassExpiry, Unmoved
  <2> QED BY <2>1 DEF Moves
<1>13. ASSUME NEW r \in Request, ExpireReservation(r)
      PROVE  Moves
  <2>1. GivenBack(r)
    BY <1>13 DEF ExpireReservation, GivenBack, TypeOK, LedgerRows
  <2> QED BY <2>1 DEF Moves
<1>14. ASSUME NEW r \in Request, ReconcileCompleted(r)
      PROVE  Moves
  <2>1. ledger[r].actual \in Counters
    BY <1>14 DEF TypeOK, LedgerRows
  <2>2. Charged(r, ledger[r].actual)
    BY <1>14 DEF ReconcileCompleted, Charged, TypeOK, LedgerRows
  <2> QED BY <2>1, <2>2 DEF Moves
<1>15. ASSUME NEW r \in Request, NEW a \in Amount, ReconcileHoldActual(r, a)
      PROVE  Moves
  <2>1. Charged(r, a)
    BY <1>15 DEF ReconcileHoldActual, Charged, LedgerRow, NoLedger, TypeOK,
       LedgerRows
  <2> QED BY AmountCounters, <2>1 DEF Moves
<1>16. ASSUME NEW r \in Request, ReconcileHoldNoCharge(r)
      PROVE  Moves
  <2>1. GivenBack(r)
    BY <1>16 DEF ReconcileHoldNoCharge, GivenBack, TypeOK, LedgerRows
  <2> QED BY <2>1 DEF Moves
<1>17. ASSUME NEW k \in Key, SuspendKey(k)
      PROVE  Moves
  <2>1. Unmoved
    BY <1>17 DEF SuspendKey, SetStatus, Unmoved
  <2> QED BY <2>1 DEF Moves
<1>18. ASSUME NEW k \in Key, ActivateKey(k)
      PROVE  Moves
  <2>1. Unmoved
    BY <1>18 DEF ActivateKey, SetStatus, Unmoved
  <2> QED BY <2>1 DEF Moves
<1>19. ASSUME NEW k \in Key, RevokeKey(k)
      PROVE  Moves
  <2>1. Unmoved
    BY <1>19 DEF RevokeKey, SetStatus, Unmoved
  <2> QED BY <2>1 DEF Moves
<1>20. ASSUME NEW k \in Key, ChangeWindow(k)
      PROVE  Moves
  <2>1. Unmoved
    BY <1>20 DEF ChangeWindow, Unmoved
  <2> QED BY <2>1 DEF Moves
<1>21. ASSUME NEW k \in Key, NEW l \in Limits, UpdateLimits(k, l)
      PROVE  Moves
  <2>1. Unmoved
    BY <1>21 DEF UpdateLimits, Unmoved, Relimited
  <2> QED BY <2>1 DEF Moves
<1>22. ASSUME NEW k \in Key, NEW u \in BOOLEAN, NEW v \in BOOLEAN,
             ResetUsage(k, u, v)
      PROVE  Moves
  BY <1>22 DEF Moves
<1> QED
  BY <1>1, <1>2, <1>3, <1>4, <1>5, <1>6, <1>7, <1>8, <1>9, <1>10, <1>11,
     <1>12, <1>13, <1>14, <1>15, <1>16, <1>17, <1>18, <1>19, <1>20, <1>21,
     <1>22 DEF Next, RequestStep, RepairStep, OperatorStep

\* Every transaction keeps the rows together.
LEMMA RowShapeStep ==
    ASSUME TypeOK, RowShape, FenceExclusive, Next
    PROVE  RowShape'
<1>1. ASSUME NEW r \in Request, NEW a \in Amount, Reserve(r, a)
      PROVE  RowShape'
  BY <1>1, Zenon DEF Reserve, Admit, RowShape, TypeOK, Reservations, LedgerRows
<1>2. ASSUME NEW r \in Request, NEW a \in Amount, FinalizeSuccess(r, a)
      PROVE  RowShape'
  BY <1>2 DEF LedgerRow, NoLedger, FinalizeSuccess, Charge, CanSettle,
     InsertLedger, RowShape, TypeOK, Reservations, LedgerRows
<1>3. ASSUME NEW r \in Request, NEW a \in Amount, RecordCompleted(r, a)
      PROVE  RowShape'
  BY <1>3 DEF LedgerRow, NoLedger, RecordCompleted, InsertLedger, RowShape,
     TypeOK, Reservations, LedgerRows
<1>4. ASSUME NEW r \in Request, NEW a \in Amount, InterruptWithEstimate(r, a)
      PROVE  RowShape'
  BY <1>4 DEF LedgerRow, NoLedger, InterruptWithEstimate, Charge, CanSettle,
     InsertLedger, RowShape, TypeOK, Reservations, LedgerRows
<1>5. ASSUME NEW r \in Request, NEW a \in Amount, FinalizeFenced(r, a)
      PROVE  RowShape'
  BY <1>5 DEF LedgerRow, NoLedger, FinalizeFenced, Charge, CanSettle,
     InsertLedger, RowShape, TypeOK, Reservations, LedgerRows
<1>6. ASSUME NEW r \in Request, FinalizeCompleted(r)
      PROVE  RowShape'
  BY <1>6 DEF FinalizeCompleted, Charge, CanSettle, RowShape, TypeOK,
     Reservations, LedgerRows
<1>7. ASSUME NEW r \in Request, MarkFinalizationFailed(r)
      PROVE  RowShape'
  BY <1>7 DEF MarkFinalizationFailed, RowShape, TypeOK, Reservations,
     LedgerRows
<1>8. ASSUME NEW r \in Request, FailAndRelease(r)
      PROVE  RowShape'
  BY <1>8 DEF LedgerRow, NoLedger, FailAndRelease, GiveBack, CanSettle,
     InsertLedger, RowShape, TypeOK, Reservations, LedgerRows
<1>9. ASSUME NEW r \in Request, AcquireFence(r)
      PROVE  RowShape'
  <2>1. /\ resv[r].status = "none" /\ resv'[r].status = "pending"
        /\ \A x \in Request \ {r} : resv'[x] = resv[x]
        /\ ledger' = ledger /\ cleared' = cleared
    BY <1>9, Zenon DEF AcquireFence, Admit, TypeOK
  <2> QED BY <2>1, Zenon DEF RowShape
<1>10. ASSUME NEW r \in Request, FailFenced(r)
      PROVE  RowShape'
  BY <1>10 DEF LedgerRow, NoLedger, FailFenced, GiveBack, CanSettle,
     InsertLedger, RowShape, TypeOK, Reservations, LedgerRows
<1>11. ASSUME NEW r \in Request, NEW s \in {"estimated", "interrupted"},
             PlaceHold(r, s)
      PROVE  RowShape'
  BY <1>11 DEF LedgerRow, NoLedger, PlaceHold, InsertLedger, RowShape,
     TypeOK, Reservations, LedgerRows
<1>12. ASSUME NEW r \in Request, PassExpiry(r)
      PROVE  RowShape'
  BY <1>12, Zenon DEF PassExpiry, RowShape
<1>13. ASSUME NEW r \in Request, ExpireReservation(r)
      PROVE  RowShape'
  BY <1>13 DEF LedgerRow, NoLedger, ExpireReservation, GiveBack, CanSettle,
     RowShape, TypeOK, Reservations, LedgerRows
<1>14. ASSUME NEW r \in Request, ReconcileCompleted(r)
      PROVE  RowShape'
  BY <1>14 DEF ReconcileCompleted, Charge, CanSettle, RowShape, TypeOK,
     Reservations, LedgerRows
<1>15. ASSUME NEW r \in Request, NEW a \in Amount, ReconcileHoldActual(r, a)
      PROVE  RowShape'
  BY <1>15 DEF LedgerRow, NoLedger, ReconcileHoldActual, Charge, CanSettle,
     RowShape, TypeOK, Reservations, LedgerRows
<1>16. ASSUME NEW r \in Request, ReconcileHoldNoCharge(r)
      PROVE  RowShape'
  BY <1>16 DEF LedgerRow, NoLedger, ReconcileHoldNoCharge, GiveBack,
     CanSettle, RowShape, TypeOK, Reservations, LedgerRows
<1>17. ASSUME NEW k \in Key, SuspendKey(k)
      PROVE  RowShape'
  BY <1>17 DEF SuspendKey, SetStatus, RowShape
<1>18. ASSUME NEW k \in Key, ActivateKey(k)
      PROVE  RowShape'
  BY <1>18 DEF ActivateKey, SetStatus, RowShape
<1>19. ASSUME NEW k \in Key, RevokeKey(k)
      PROVE  RowShape'
  BY <1>19 DEF RevokeKey, SetStatus, RowShape
<1>20. ASSUME NEW k \in Key, ChangeWindow(k)
      PROVE  RowShape'
  BY <1>20 DEF ChangeWindow, RowShape
<1>21. ASSUME NEW k \in Key, NEW l \in Limits, UpdateLimits(k, l)
      PROVE  RowShape'
  BY <1>21 DEF UpdateLimits, RowShape
<1>22. ASSUME NEW k \in Key, NEW u \in BOOLEAN, NEW v \in BOOLEAN,
             ResetUsage(k, u, v)
      PROVE  RowShape'
  BY <1>22, Zenon DEF ResetUsage, ChargedOf, RowShape
<1> QED
  BY <1>1, <1>2, <1>3, <1>4, <1>5, <1>6, <1>7, <1>8, <1>9, <1>10, <1>11,
     <1>12, <1>13, <1>14, <1>15, <1>16, <1>17, <1>18, <1>19, <1>20, <1>21,
     <1>22 DEF Next, RequestStep, RepairStep, OperatorStep

\* What the three invariants say of one counter of one key.
SumsAt(k, d) ==
    /\ reserved[k][d] <= PendingSum(k, d)
    /\ k \notin drift => reserved[k][d] = PendingSum(k, d)
    /\ used[k][d] = ChargedSum(k, d)
    /\ k \notin drift /\ ceiling[k][d] # NoLimit =>
          PendingSum(k, d) + CountedSum(k, d) <= ceiling[k][d]

\* The three sums are kept by whatever a transaction does to the money.
LEMMA SumsStep ==
    ASSUME TypeOK, RowShape, ReservedIsPending, UsedIsLedger, NoOverspend, Moves
    PROVE  ReservedIsPending' /\ UsedIsLedger' /\ NoOverspend'
<1> USE KeyOfType
<1> SUFFICES ASSUME NEW k \in Key, NEW d \in Dim
             PROVE  SumsAt(k, d)'
  BY Zenon DEF ReservedIsPending, UsedIsLedger, NoOverspend, SumsAt, PendingSum,
         ChargedSum, CountedSum
<1>1. /\ reserved[k][d] <= PendingSum(k, d)
      /\ k \notin drift => reserved[k][d] = PendingSum(k, d)
      /\ used[k][d] = ChargedSum(k, d)
      /\ k \notin drift /\ ceiling[k][d] # NoLimit =>
            PendingSum(k, d) + CountedSum(k, d) <= ceiling[k][d]
  BY Zenon DEF ReservedIsPending, UsedIsLedger, NoOverspend, PendingSum, ChargedSum,
         CountedSum
<1>2. /\ PendingSum(k, d) \in Nat
      /\ ChargedSum(k, d) \in Nat
      /\ CountedSum(k, d) \in Nat
      /\ CountedSum(k, d) <= ChargedSum(k, d)
  BY SumsAreNat
<1>3. /\ reserved[k][d] \in Nat
      /\ used[k][d] \in Nat
      /\ limit[k][d] \in Nat \cup {NoLimit}
      /\ ceiling[k][d] \in Nat \cup {NoLimit}
  BY DEF TypeOK, Counters, LimitColumns
<1>4. ASSUME NEW r \in Request, NEW a \in Counters, Admitted(r, a)
      PROVE  SumsAt(k, d)'
  <2>1. /\ k = KeyOf[r] => PendingSum(k, d)' = PendingSum(k, d) + a[d]
        /\ k # KeyOf[r] => PendingSum(k, d)' = PendingSum(k, d)
        /\ ChargedSum(k, d)' = ChargedSum(k, d)
        /\ CountedSum(k, d)' = CountedSum(k, d)
    BY <1>4, AdmittedSums
  <2>2. used' = used /\ drift' = drift /\ a[d] \in Nat
    BY <1>4 DEF Admitted, Counters
  <2>3. CASE k = KeyOf[r]
    <3>1. reserved'[k][d] = reserved[k][d] + a[d] /\ ceiling'[k][d] = limit[k][d]
      BY <1>4, <2>3 DEF Admitted, Admit, Plus, TypeOK
    <3>2. limit[k][d] # NoLimit =>
             used[k][d] + reserved[k][d] + a[d] <= limit[k][d]
      BY <1>4, <2>3, Zenon DEF Admitted, WithinLimits
    <3> QED BY <1>1, <1>2, <1>3, <2>1, <2>2, <2>3, <3>1, <3>2, SMTT(30) DEF SumsAt
  <2>4. CASE k # KeyOf[r]
    <3>1. reserved'[k] = reserved[k] /\ ceiling'[k] = ceiling[k]
      BY <1>4, <2>4 DEF Admitted, Admit, TypeOK
    <3> QED BY <1>1, <2>1, <2>2, <2>4, <3>1, Zenon DEF SumsAt
  <2> QED BY <2>3, <2>4
<1>5. ASSUME NEW r \in Request, NEW a \in Counters, Charged(r, a)
      PROVE  SumsAt(k, d)'
  <2>1. /\ k = KeyOf[r] => PendingSum(k, d)' = PendingSum(k, d) - resv[r].amount[d]
        /\ k # KeyOf[r] => PendingSum(k, d)' = PendingSum(k, d)
    BY <1>5, SettledPending, ZenonT(30) DEF Charged, Charge, CanSettle
  <2>2. /\ k = KeyOf[r] =>
              /\ ChargedSum(k, d)' = ChargedSum(k, d) + a[d]
              /\ CountedSum(k, d)' = CountedSum(k, d)
                                       + Min2(a[d], resv[r].amount[d])
        /\ k # KeyOf[r] => /\ ChargedSum(k, d)' = ChargedSum(k, d)
                           /\ CountedSum(k, d)' = CountedSum(k, d)
    BY <1>5, ChargedSums, Zenon
  <2>3. /\ drift' = drift /\ ceiling' = ceiling
        /\ a[d] \in Nat /\ resv[r].amount[d] \in Nat
    BY <1>5, Zenon DEF Charged, Counters, TypeOK, Reservations
  <2>4. CASE k = KeyOf[r]
    <3>1. /\ reserved'[k][d] = reserved[k][d] - resv[r].amount[d]
          /\ used'[k][d] = used[k][d] + a[d]
      BY <1>5, <2>4 DEF Charged, Charge, Plus, Minus, TypeOK
    <3>2. Min2(a[d], resv[r].amount[d]) \in Nat
          /\ Min2(a[d], resv[r].amount[d]) <= resv[r].amount[d]
      BY <2>3, SMTT(30) DEF Min2
    <3>3. /\ reserved'[k][d] <= PendingSum(k, d)'
          /\ k \notin drift' => reserved'[k][d] = PendingSum(k, d)'
      BY <1>1, <1>2, <1>3, <2>1, <2>3, <2>4, <3>1, SMTT(30)
    <3>4. used'[k][d] = ChargedSum(k, d)'
      BY <1>1, <2>2, <2>4, <3>1
    <3>5. k \notin drift' /\ ceiling'[k][d] # NoLimit =>
             PendingSum(k, d)' + CountedSum(k, d)' <= ceiling'[k][d]
      BY <1>1, <1>2, <1>3, <2>1, <2>2, <2>3, <2>4, <3>2, SMTT(30)
    <3> QED BY <3>3, <3>4, <3>5 DEF SumsAt
  <2>5. CASE k # KeyOf[r]
    <3>1. reserved'[k] = reserved[k] /\ used'[k] = used[k]
      BY <1>5, <2>5 DEF Charged, Charge, TypeOK
    <3> QED BY <1>1, <2>1, <2>2, <2>3, <2>5, <3>1, Zenon DEF SumsAt
  <2> QED BY <2>4, <2>5
<1>6. ASSUME NEW r \in Request, GivenBack(r)
      PROVE  SumsAt(k, d)'
  <2>1. /\ k = KeyOf[r] => PendingSum(k, d)' = PendingSum(k, d) - resv[r].amount[d]
        /\ k # KeyOf[r] => PendingSum(k, d)' = PendingSum(k, d)
    BY <1>6, SettledPending, ZenonT(30) DEF GivenBack, GiveBack, CanSettle
  <2>2. /\ ChargedSum(k, d)' = ChargedSum(k, d)
        /\ CountedSum(k, d)' = CountedSum(k, d)
    BY <1>6, GivenBackSums
  <2>3. /\ drift' = drift /\ ceiling' = ceiling /\ used' = used
        /\ resv[r].amount[d] \in Nat
    BY <1>6 DEF GivenBack, GiveBack, Counters, TypeOK, Reservations
  <2>4. /\ k = KeyOf[r] => reserved'[k][d] = reserved[k][d] - resv[r].amount[d]
        /\ k # KeyOf[r] => reserved'[k] = reserved[k]
    BY <1>6 DEF GivenBack, GiveBack, Minus, TypeOK
  <2> QED BY <1>1, <1>2, <1>3, <2>1, <2>2, <2>3, <2>4, SMTT(30) DEF SumsAt
<1>7. ASSUME NEW c \in Key, NEW u \in BOOLEAN, NEW v \in BOOLEAN,
             ResetUsage(c, u, v)
      PROVE  SumsAt(k, d)'
  <2>1. /\ PendingSum(k, d)' = PendingSum(k, d)
        /\ k = c /\ u => ChargedSum(k, d)' = 0 /\ CountedSum(k, d)' = 0
        /\ ~(k = c /\ u) => /\ ChargedSum(k, d)' = ChargedSum(k, d)
                            /\ CountedSum(k, d)' = CountedSum(k, d)
    BY <1>7, ResetSums
  <2>2. /\ k = c /\ u => used'[k][d] = 0
        /\ ~(k = c /\ u) => used'[k] = used[k]
        /\ k = c /\ v => reserved'[k][d] = 0
        /\ ~(k = c /\ v) => reserved'[k] = reserved[k]
        /\ ceiling' = ceiling
        /\ drift \subseteq drift'
        /\ k = c /\ v /\ k \notin drift' => PendingOf(k) = {}
    BY <1>7 DEF ResetUsage, Zero, TypeOK
  <2>3. PendingOf(k) = {} => PendingSum(k, d) = 0
    BY TotalEmpty DEF PendingSum
  <2>4. k \notin drift' => k \notin drift
    BY <2>2
  <2>5. /\ reserved'[k][d] <= PendingSum(k, d)'
        /\ k \notin drift' => reserved'[k][d] = PendingSum(k, d)'
    BY <1>1, <1>2, <2>1, <2>2, <2>3, <2>4, SMTT(30)
  <2>6. used'[k][d] = ChargedSum(k, d)'
    BY <1>1, <2>1, <2>2, Zenon
  <2>7. k \notin drift' /\ ceiling'[k][d] # NoLimit =>
           PendingSum(k, d)' + CountedSum(k, d)' <= ceiling'[k][d]
    BY <1>1, <1>2, <1>3, <2>1, <2>2, <2>4, SMTT(30)
  <2> QED BY <2>5, <2>6, <2>7 DEF SumsAt
<1>8. ASSUME Unmoved
      PROVE  SumsAt(k, d)'
  <2>1. /\ PendingSum(k, d)' = PendingSum(k, d)
        /\ ChargedSum(k, d)' = ChargedSum(k, d)
        /\ CountedSum(k, d)' = CountedSum(k, d)
    BY <1>8, UnmovedSums
  <2> QED BY <1>1, <1>8, <2>1, Zenon DEF SumsAt, Unmoved
<1> QED
  BY <1>4, <1>5, <1>6, <1>7, <1>8 DEF Moves

-----------------------------------------------------------------------------
(* The fence *)

\* What FenceExclusive says of one key.
FenceRow(k) ==
    LET f == fence[k].request IN
    IF fence[k].state = "none"
    THEN f = NoRequest
    ELSE /\ f \in Request
         /\ KeyOf[f] = k
         /\ PendingOf(k) = {f}
         /\ resv[f].fenced
         /\ reserved[k] = resv[f].amount
         /\ fence[k].state = "held" <=> ledger[f].hold

\* The request of a fence is one of the fenced key.
LEMMA FenceOwner ==
    ASSUME FenceExclusive, NEW k \in Key, fence[k].state # "none"
    PROVE  /\ fence[k].request \in Request
           /\ KeyOf[fence[k].request] = k
           /\ PendingOf(k) = {fence[k].request}
BY DEF FenceExclusive

\* Settling a reservation that is not fenced leaves every fence in order.
LEMMA UnfencedSettle ==
    ASSUME TypeOK, FenceExclusive, NEW r \in Request, ~resv[r].fenced,
           resv[r].status = "pending",
           NEW s \in {"finalized", "released", "expired"},
           resv' = [resv EXCEPT ![r].status = s],
           \A k \in Key \ {KeyOf[r]} : reserved'[k] = reserved[k],
           \A x \in Request \ {r} : ledger'[x] = ledger[x],
           fence' = fence
    PROVE  FenceExclusive'
<1>1. ASSUME NEW k \in Key, fence[k].state # "none"
      PROVE  /\ fence[k].request # r
             /\ KeyOf[r] # k
             /\ PendingOf(k)' = PendingOf(k)
  BY <1>1 DEF FenceExclusive, PendingOf, TypeOK, Reservations
<1>2. \A x \in Request : /\ resv'[x].fenced = resv[x].fenced
                         /\ resv'[x].amount = resv[x].amount
                         /\ resv'[x].status = "pending" => resv[x].status = "pending"
  BY DEF TypeOK, Reservations
<1> QED
  BY <1>1, <1>2 DEF FenceExclusive

\* Settling the fenced reservation lifts its fence.
LEMMA FencedSettle ==
    ASSUME TypeOK, FenceExclusive, NEW r \in Request,
           resv[r].status = "pending",
           NEW s \in {"finalized", "released", "expired"},
           resv' = [resv EXCEPT ![r].status = s],
           \A k \in Key \ {KeyOf[r]} : reserved'[k] = reserved[k],
           \A x \in Request \ {r} : ledger'[x] = ledger[x],
           fence[KeyOf[r]].request = r,
           fence' = [fence EXCEPT ![KeyOf[r]] = NoFence]
    PROVE  FenceExclusive'
<1> USE KeyOfType
<1>1. ASSUME NEW k \in Key, k # KeyOf[r]
      PROVE  /\ PendingOf(k)' = PendingOf(k)
             /\ fence'[k] = fence[k]
             /\ reserved'[k] = reserved[k]
             /\ KeyOf[fence[k].request] = k => fence[k].request # r
  BY <1>1 DEF PendingOf, TypeOK
<1>2. \A x \in Request : /\ resv'[x].fenced = resv[x].fenced
                         /\ resv'[x].amount = resv[x].amount
                         /\ resv'[x].status = "pending" =>
                               resv[x].status = "pending" /\ x # r
  BY DEF TypeOK, Reservations
<1>3. fence'[KeyOf[r]] = NoFence
  BY ZenonT(30) DEF TypeOK
<1> QED
  BY <1>1, <1>2, <1>3, SMTT(30) DEF FenceExclusive, NoFence

\* A step that writes at most the usage row of a request without a fence.
LEMMA UnfencedRow ==
    ASSUME TypeOK, FenceExclusive, NEW r \in Request, ~resv[r].fenced,
           \A x \in Request \ {r} : ledger'[x] = ledger[x],
           UNCHANGED <<resv, reserved, fence>>
    PROVE  FenceExclusive'
<1>1. \A k \in Key : PendingOf(k)' = PendingOf(k)
  BY Zenon DEF PendingOf
<1> QED
  BY <1>1, SMTT(30) DEF FenceExclusive

\* A step that writes no reservation, usage row or fence, and no reserved
\* counter of a fenced key.
LEMMA FenceFrame ==
    ASSUME FenceExclusive, resv' = resv, ledger' = ledger, fence' = fence,
           \A k \in Key : fence[k].state # "none" => reserved'[k] = reserved[k]
    PROVE  FenceExclusive'
<1>1. ASSUME NEW k \in Key
      PROVE  FenceRow(k)'
  <2>1. FenceRow(k)
    BY DEF FenceExclusive, FenceRow
  <2>2. PendingOf(k)' = PendingOf(k)
    BY DEF PendingOf
  <2> QED BY <2>1, <2>2, Zenon DEF FenceRow
<1>2. ASSUME NEW x \in Request, resv'[x].fenced, resv'[x].status = "pending"
      PROVE  fence'[KeyOf[x]].request = x
  BY <1>2 DEF FenceExclusive
<1> QED
  BY <1>1, <1>2, Zenon DEF FenceExclusive, FenceRow

\* No transaction lets a second reservation in beside a fenced one.
LEMMA FenceExclusiveStep ==
    ASSUME TypeOK, RowShape, FenceExclusive, Next
    PROVE  FenceExclusive'
<1>1. ASSUME NEW r \in Request, NEW a \in Amount, Reserve(r, a)
      PROVE  FenceExclusive'
  <2>1. \A j \in Key : fence[j].state # "none" =>
           /\ j # KeyOf[r]
           /\ reserved'[j] = reserved[j]
           /\ PendingOf(j)' = PendingOf(j)
    BY <1>1, KeyOfType, Zenon DEF Reserve, Admit, PendingOf, TypeOK
  <2>2. /\ resv'[r].fenced = FALSE
        /\ \A x \in Request \ {r} : resv'[x] = resv[x]
        /\ fence' = fence /\ ledger' = ledger
    BY <1>1 DEF Reserve, Admit, TypeOK
  <2>3. ASSUME NEW j \in Key
        PROVE  FenceRow(j)'
    <3>1. FenceRow(j)
      BY Zenon DEF FenceExclusive, FenceRow
    <3>2. CASE fence[j].state = "none"
      BY <2>2, <3>1, <3>2, Zenon DEF FenceRow
    <3>3. CASE fence[j].state # "none"
      <4>1. fence[j].request # r
        BY <2>1, <3>1, <3>3 DEF FenceRow
      <4> QED BY <2>1, <2>2, <3>1, <3>3, <4>1, Zenon DEF FenceRow
    <3> QED BY <3>2, <3>3
  <2>4. ASSUME NEW x \in Request, resv'[x].fenced, resv'[x].status = "pending"
        PROVE  fence'[KeyOf[x]].request = x
    BY <2>2, <2>4, Zenon DEF FenceExclusive
  <2> QED BY <2>3, <2>4, Zenon DEF FenceExclusive, FenceRow
<1>2. ASSUME NEW r \in Request, NEW a \in Amount, FinalizeSuccess(r, a)
      PROVE  FenceExclusive'
  <2>1. /\ \A x \in Request \ {r} : ledger'[x] = ledger[x]
        /\ \A k \in Key \ {KeyOf[r]} : reserved'[k] = reserved[k]
    BY <1>2 DEF FinalizeSuccess, Charge, InsertLedger, TypeOK
  <2> QED BY <1>2, <2>1, UnfencedSettle, ZenonT(30) DEF FinalizeSuccess, Charge, CanSettle
<1>3. ASSUME NEW r \in Request, NEW a \in Amount, RecordCompleted(r, a)
      PROVE  FenceExclusive'
  <2>1. \A x \in Request \ {r} : ledger'[x] = ledger[x]
    BY <1>3 DEF RecordCompleted, InsertLedger, TypeOK
  <2> QED BY <1>3, <2>1, UnfencedRow DEF RecordCompleted
<1>4. ASSUME NEW r \in Request, NEW a \in Amount, InterruptWithEstimate(r, a)
      PROVE  FenceExclusive'
  <2>1. /\ \A x \in Request \ {r} : ledger'[x] = ledger[x]
        /\ \A k \in Key \ {KeyOf[r]} : reserved'[k] = reserved[k]
    BY <1>4 DEF InterruptWithEstimate, Charge, InsertLedger, TypeOK
  <2> QED BY <1>4, <2>1, UnfencedSettle, ZenonT(30) DEF InterruptWithEstimate, Charge, CanSettle
<1>5. ASSUME NEW r \in Request, NEW a \in Amount, FinalizeFenced(r, a)
      PROVE  FenceExclusive'
  <2>1. /\ \A x \in Request \ {r} : ledger'[x] = ledger[x]
        /\ \A k \in Key \ {KeyOf[r]} : reserved'[k] = reserved[k]
    BY <1>5 DEF FinalizeFenced, Charge, InsertLedger, TypeOK
  <2>2. fence[KeyOf[r]].request = r /\ fence' = [fence EXCEPT ![KeyOf[r]] = NoFence]
    BY <1>5, SMTT(30) DEF FinalizeFenced, ResolveFence
  <2> QED BY <1>5, <2>1, <2>2, FencedSettle, ZenonT(30) DEF FinalizeFenced, Charge, CanSettle
<1>6. ASSUME NEW r \in Request, FinalizeCompleted(r)
      PROVE  FenceExclusive'
  <2>1. /\ \A x \in Request \ {r} : ledger'[x] = ledger[x]
        /\ \A k \in Key \ {KeyOf[r]} : reserved'[k] = reserved[k]
    BY <1>6 DEF FinalizeCompleted, Charge, TypeOK
  <2> QED BY <1>6, <2>1, UnfencedSettle, ZenonT(30) DEF FinalizeCompleted, Charge, CanSettle
<1>7. ASSUME NEW r \in Request, MarkFinalizationFailed(r)
      PROVE  FenceExclusive'
  <2>1. \A x \in Request \ {r} : ledger'[x] = ledger[x]
    BY <1>7 DEF MarkFinalizationFailed, TypeOK
  <2> QED BY <1>7, <2>1, UnfencedRow, ZenonT(30) DEF MarkFinalizationFailed
<1>8. ASSUME NEW r \in Request, FailAndRelease(r)
      PROVE  FenceExclusive'
  <2>1. \A x \in Request \ {r} : ledger'[x] = ledger[x]
    BY <1>8 DEF FailAndRelease, InsertLedger, TypeOK
  <2>2. CASE GiveBack(r, "released")
    <3>1. \A k \in Key \ {KeyOf[r]} : reserved'[k] = reserved[k]
      BY <1>8, <2>2 DEF GiveBack, TypeOK
    <3> QED BY <1>8, <2>1, <2>2, <3>1, UnfencedSettle, ZenonT(30)
            DEF FailAndRelease, GiveBack, CanSettle
  <2>3. CASE UNCHANGED <<used, reserved, resv>>
    BY <1>8, <2>1, <2>3, UnfencedRow, Zenon DEF FailAndRelease
  <2> QED BY <1>8, <2>2, <2>3, Zenon DEF FailAndRelease
<1>9. ASSUME NEW r \in Request, AcquireFence(r)
      PROVE  FenceExclusive'
  <2>1. /\ PendingOf(KeyOf[r])' = {r}
        /\ \A j \in Key \ {KeyOf[r]} : PendingOf(j)' = PendingOf(j)
    BY <1>9, KeyOfType, ZenonT(30) DEF AcquireFence, Admit, PendingOf, TypeOK
  <2>2. /\ resv'[r].fenced /\ resv'[r].amount = Remaining(KeyOf[r])
        /\ \A x \in Request \ {r} : resv'[x] = resv[x]
        /\ \A j \in Key \ {KeyOf[r]} : reserved'[j] = reserved[j] /\ fence'[j] = fence[j]
        /\ fence'[KeyOf[r]].state = "active" /\ fence'[KeyOf[r]].request = r
    BY <1>9, KeyOfType, ZenonT(30) DEF AcquireFence, Admit, TypeOK
  <2>3. reserved'[KeyOf[r]] = Remaining(KeyOf[r])
    <3>1. Remaining(KeyOf[r]) \in Counters
      BY <1>9, RemainingFits
    <3>2. \A a \in Counters : Plus(Zero, a) = a
      BY <1>9 DEF Plus, Zero, Counters
    <3> QED BY <1>9, <3>1, <3>2, KeyOfType, ZenonT(30) DEF AcquireFence, Admit, TypeOK
  <2>4. ~ledger'[r].hold
    BY <1>9, Zenon DEF AcquireFence, RowShape
  <2>5. \A j \in Key \ {KeyOf[r]} : fence[j].state # "none" => fence[j].request # r
    BY FenceOwner
  <2>6. \A x \in Request \ {r} : resv[x].fenced /\ resv[x].status = "pending" =>
                                  KeyOf[x] # KeyOf[r]
    BY <1>9, Zenon DEF AcquireFence, PendingOf
  <2>7. ASSUME NEW j \in Key
        PROVE  FenceRow(j)'
    <3>1. CASE j = KeyOf[r]
      BY <2>1, <2>2, <2>3, <2>4, <3>1, Zenon DEF FenceRow
    <3>2. CASE j # KeyOf[r]
      <4>1. FenceRow(j)
        BY Zenon DEF FenceExclusive, FenceRow
      <4>2. /\ PendingOf(j)' = PendingOf(j)
            /\ reserved'[j] = reserved[j]
            /\ fence'[j] = fence[j]
            /\ fence[j].state # "none" => fence[j].request # r
        BY <2>1, <2>2, <2>5, <3>2
      <4>3. ledger' = ledger
        BY <1>9, Zenon DEF AcquireFence
      <4> QED BY <2>2, <4>1, <4>2, <4>3, SMTT(30) DEF FenceRow
    <3> QED BY <3>1, <3>2
  <2>8. ASSUME NEW x \in Request, resv'[x].fenced, resv'[x].status = "pending"
        PROVE  fence'[KeyOf[x]].request = x
    <3>1. CASE x = r
      BY <2>2, <3>1
    <3>2. CASE x # r
      <4>1. resv[x].fenced /\ resv[x].status = "pending"
        BY <2>2, <2>8, <3>2
      <4>2. KeyOf[x] \in Key \ {KeyOf[r]}
        BY <2>6, <3>2, <4>1, KeyOfType
      <4> QED BY <2>2, <4>1, <4>2, SMTT(30) DEF FenceExclusive
    <3> QED BY <3>1, <3>2
  <2> QED BY <2>7, <2>8, Zenon DEF FenceExclusive, FenceRow
<1>10. ASSUME NEW r \in Request, FailFenced(r)
      PROVE  FenceExclusive'
  <2>1. /\ \A x \in Request \ {r} : ledger'[x] = ledger[x]
        /\ \A k \in Key \ {KeyOf[r]} : reserved'[k] = reserved[k]
    BY <1>10 DEF FailFenced, GiveBack, InsertLedger, TypeOK
  <2>2. fence[KeyOf[r]].request = r /\ fence' = [fence EXCEPT ![KeyOf[r]] = NoFence]
    BY <1>10, SMTT(30) DEF FailFenced, ResolveFence
  <2> QED BY <1>10, <2>1, <2>2, FencedSettle, ZenonT(30) DEF FailFenced, GiveBack, CanSettle
<1>11. ASSUME NEW r \in Request, NEW s \in {"estimated", "interrupted"},
             PlaceHold(r, s)
      PROVE  FenceExclusive'
  <2>1. /\ \A x \in Request \ {r} : ledger'[x] = ledger[x]
        /\ ledger'[r].hold
    BY <1>11, ZeroCounters, RowType DEF PlaceHold, InsertLedger, TypeOK
  <2>2. /\ \A j \in Key \ {KeyOf[r]} : fence'[j] = fence[j]
        /\ fence'[KeyOf[r]].state = "held" /\ fence'[KeyOf[r]].request = r
    BY <1>11, KeyOfType DEF PlaceHold, TypeOK, Fences
  <2>3. \A j \in Key : PendingOf(j)' = PendingOf(j)
    BY <1>11 DEF PlaceHold, PendingOf
  <2>4. \A j \in Key \ {KeyOf[r]} : fence[j].state # "none" => fence[j].request # r
    BY <1>11, SMTT(30) DEF FenceExclusive
  <2> QED BY <1>11, <2>1, <2>2, <2>3, <2>4, KeyOfType, SMTT(30) DEF PlaceHold, FenceExclusive
<1>12. ASSUME NEW r \in Request, PassExpiry(r)
      PROVE  FenceExclusive'
  BY <1>12, FenceFrame DEF PassExpiry
<1>13. ASSUME NEW r \in Request, ExpireReservation(r)
      PROVE  FenceExclusive'
  <2>1. /\ \A x \in Request \ {r} : ledger'[x] = ledger[x]
        /\ \A k \in Key \ {KeyOf[r]} : reserved'[k] = reserved[k]
    BY <1>13 DEF ExpireReservation, GiveBack, TypeOK
  <2> QED BY <1>13, <2>1, UnfencedSettle, ZenonT(30) DEF ExpireReservation, GiveBack, CanSettle
<1>14. ASSUME NEW r \in Request, ReconcileCompleted(r)
      PROVE  FenceExclusive'
  <2>1. /\ \A x \in Request \ {r} : ledger'[x] = ledger[x]
        /\ \A k \in Key \ {KeyOf[r]} : reserved'[k] = reserved[k]
    BY <1>14 DEF ReconcileCompleted, Charge, TypeOK
  <2>2. ~resv[r].fenced
    BY <1>14 DEF ReconcileCompleted, Repairable, RowShape
  <2> QED BY <1>14, <2>1, <2>2, UnfencedSettle, ZenonT(30) DEF ReconcileCompleted, Charge, CanSettle
<1>15. ASSUME NEW r \in Request, NEW a \in Amount, ReconcileHoldActual(r, a)
      PROVE  FenceExclusive'
  <2>1. /\ \A x \in Request \ {r} : ledger'[x] = ledger[x]
        /\ \A k \in Key \ {KeyOf[r]} : reserved'[k] = reserved[k]
    BY <1>15 DEF ReconcileHoldActual, Charge, InsertLedger, TypeOK
  <2>2. fence[KeyOf[r]].request = r /\ fence' = [fence EXCEPT ![KeyOf[r]] = NoFence]
    BY <1>15, SMTT(30) DEF ReconcileHoldActual, ResolveFence
  <2> QED BY <1>15, <2>1, <2>2, FencedSettle, ZenonT(30) DEF ReconcileHoldActual, Charge, CanSettle
<1>16. ASSUME NEW r \in Request, ReconcileHoldNoCharge(r)
      PROVE  FenceExclusive'
  <2>1. /\ \A x \in Request \ {r} : ledger'[x] = ledger[x]
        /\ \A k \in Key \ {KeyOf[r]} : reserved'[k] = reserved[k]
    BY <1>16 DEF ReconcileHoldNoCharge, GiveBack, InsertLedger, TypeOK
  <2>2. fence[KeyOf[r]].request = r /\ fence' = [fence EXCEPT ![KeyOf[r]] = NoFence]
    BY <1>16, SMTT(30) DEF ReconcileHoldNoCharge, ResolveFence
  <2> QED BY <1>16, <2>1, <2>2, FencedSettle, ZenonT(30) DEF ReconcileHoldNoCharge, GiveBack, CanSettle
<1>17. ASSUME NEW k \in Key, SuspendKey(k)
      PROVE  FenceExclusive'
  BY <1>17, FenceFrame DEF SuspendKey, SetStatus
<1>18. ASSUME NEW k \in Key, ActivateKey(k)
      PROVE  FenceExclusive'
  BY <1>18, FenceFrame DEF ActivateKey, SetStatus
<1>19. ASSUME NEW k \in Key, RevokeKey(k)
      PROVE  FenceExclusive'
  BY <1>19, FenceFrame DEF RevokeKey, SetStatus
<1>20. ASSUME NEW k \in Key, ChangeWindow(k)
      PROVE  FenceExclusive'
  BY <1>20, FenceFrame DEF ChangeWindow
<1>21. ASSUME NEW k \in Key, NEW l \in Limits, UpdateLimits(k, l)
      PROVE  FenceExclusive'
  BY <1>21, FenceFrame DEF UpdateLimits
<1>22. ASSUME NEW k \in Key, NEW u \in BOOLEAN, NEW v \in BOOLEAN,
             ResetUsage(k, u, v)
      PROVE  FenceExclusive'
  <2>1. \A j \in Key : fence[j].state # "none" => reserved'[j] = reserved[j]
    BY <1>22 DEF ResetUsage, TypeOK
  <2> QED BY <1>22, <2>1, FenceFrame, Zenon DEF ResetUsage
<1> QED
  BY <1>1, <1>2, <1>3, <1>4, <1>5, <1>6, <1>7, <1>8, <1>9, <1>10, <1>11,
     <1>12, <1>13, <1>14, <1>15, <1>16, <1>17, <1>18, <1>19, <1>20, <1>21,
     <1>22 DEF Next, RequestStep, RepairStep, OperatorStep

-----------------------------------------------------------------------------
(* Frames, for the modules that run handlers against the ledger *)

\* A transaction for one request leaves the rows of the others alone.
LEMMA LedgerFrame ==
    ASSUME TypeOK, NEW r \in Request,
           RequestStep(r) \/ RepairStep(r) \/ UNCHANGED vars
    PROVE  \A x \in Request \ {r} : resv'[x] = resv[x] /\ ledger'[x] = ledger[x]
<1> DEFINE Goal == \A x \in Request \ {r} :
                      resv'[x] = resv[x] /\ ledger'[x] = ledger[x]
<1> SUFFICES Goal
  OBVIOUS
<1>1. ASSUME NEW a \in Amount, Reserve(r, a) PROVE Goal
  BY <1>1 DEF Reserve, Admit, TypeOK
<1>2. ASSUME NEW a \in Amount,
             \/ FinalizeSuccess(r, a)
             \/ InterruptWithEstimate(r, a)
             \/ FinalizeFenced(r, a)
      PROVE  Goal
  BY <1>2, Zenon DEF FinalizeSuccess, InterruptWithEstimate, FinalizeFenced, Charge,
              InsertLedger, TypeOK
<1>3. ASSUME NEW a \in Amount, RecordCompleted(r, a) PROVE Goal
  BY <1>3 DEF RecordCompleted, InsertLedger, TypeOK
<1>4. CASE FinalizeCompleted(r) \/ ReconcileCompleted(r)
  BY <1>4 DEF FinalizeCompleted, ReconcileCompleted, Charge, TypeOK
<1>5. CASE MarkFinalizationFailed(r) \/ PassExpiry(r)
  BY <1>5 DEF MarkFinalizationFailed, PassExpiry, TypeOK
<1>6. CASE FailAndRelease(r) \/ FailFenced(r)
  BY <1>6 DEF FailAndRelease, FailFenced, GiveBack, InsertLedger, TypeOK
<1>7. CASE AcquireFence(r)
  BY <1>7, ZenonT(30) DEF AcquireFence, Admit, TypeOK
<1>8. ASSUME NEW s \in {"estimated", "interrupted"}, PlaceHold(r, s) PROVE Goal
  BY <1>8, Zenon DEF PlaceHold, InsertLedger, TypeOK
<1>9. CASE ExpireReservation(r)
  BY <1>9 DEF ExpireReservation, GiveBack, TypeOK
<1>10. ASSUME NEW a \in Amount, ReconcileHoldActual(r, a) PROVE Goal
  BY <1>10 DEF ReconcileHoldActual, Charge, TypeOK
<1>11. CASE ReconcileHoldNoCharge(r)
  BY <1>11 DEF ReconcileHoldNoCharge, GiveBack, TypeOK
<1>12. CASE UNCHANGED vars
  BY <1>12 DEF vars
<1> HIDE DEF Goal
<1> QED
  BY <1>1, <1>2, <1>3, <1>4, <1>5, <1>6, <1>7, <1>8, <1>9, <1>10, <1>11, <1>12
     DEF RequestStep, RepairStep

-----------------------------------------------------------------------------
(* The theorems *)

\* What every transaction preserves: the invariants need each other and the
\* shape of the rows.
IInv ==
    /\ TypeOK
    /\ RowShape
    /\ FenceExclusive
    /\ ReservedIsPending
    /\ UsedIsLedger
    /\ NoOverspend

\* The invariant holds of an empty ledger.
LEMMA InitIInv == Init => IInv
<1> SUFFICES ASSUME Init PROVE IInv
  OBVIOUS
<1>1. TypeOK
  BY ZeroCounters, LimitsType, Zenon
     DEF Init, TypeOK, KeyRows, LimitColumns, Fences, NoFence, Reservations,
         NoReservation, LedgerRows, NoLedger
<1>2. RowShape
  BY Zenon DEF Init, RowShape, NoReservation, NoLedger
<1>3. \A k \in Key : PendingOf(k) = {} /\ ChargedOf(k) = {}
  BY DEF Init, PendingOf, ChargedOf, NoReservation
<1>4. FenceExclusive
  BY Zenon DEF Init, FenceExclusive, NoFence, NoReservation
<1>5. ASSUME NEW k \in Key, NEW d \in Dim
      PROVE  /\ Total(PendingOf(k), Held(d)) = 0
             /\ Total(ChargedOf(k), Actual(d)) = 0
             /\ Total(ChargedOf(k), Counted(d)) = 0
             /\ reserved[k][d] = 0
             /\ used[k][d] = 0
             /\ ceiling[k][d] # NoLimit => ceiling[k][d] \in Nat
  <2>1. reserved[k][d] = 0 /\ used[k][d] = 0
    BY DEF Init, Zero
  <2>2. ceiling[k][d] # NoLimit => ceiling[k][d] \in Nat
    BY <1>1 DEF TypeOK, LimitColumns
  <2> QED BY <1>3, <2>1, <2>2, TotalEmpty, Zenon
<1>6. ReservedIsPending /\ UsedIsLedger
  BY <1>5, SMTT(30) DEF ReservedIsPending, UsedIsLedger
<1>7. NoOverspend
  BY <1>5 DEF NoOverspend
<1> QED
  BY <1>1, <1>2, <1>4, <1>6, <1>7 DEF IInv

\* Every step of QuotaLedger preserves IInv.
LEMMA NextIInv == IInv /\ [Next]_vars => IInv'
<1> SUFFICES ASSUME IInv, [Next]_vars PROVE IInv'
  OBVIOUS
<1>1. CASE Next
  <2>1. Moves
    BY <1>1, StepMoves DEF IInv
  <2> QED BY <1>1, <2>1, TypeOKStep, RowShapeStep, FenceExclusiveStep, SumsStep
             DEF IInv
<1>2. CASE UNCHANGED vars
  <2>1. Moves
    BY <1>2, Zenon DEF Moves, Unmoved, vars
  <2>2. TypeOK' /\ RowShape'
    BY <1>2, Zenon DEF vars, IInv, TypeOK, RowShape
  <2>3. FenceExclusive'
    BY <1>2, FenceFrame DEF vars, IInv
  <2> QED BY <2>1, <2>2, <2>3, SumsStep DEF IInv
<1> QED
  BY <1>1, <1>2

\* All the invariants hold, whatever the gateways, the workers and the
\* operators do.
THEOREM Invariance == Spec => []IInv
BY InitIInv, NextIInv, PTL DEF Spec

\* No transaction ever takes a row or a counter out of its domain; no counter
\* of gateway_keys becomes negative.
THEOREM TypeCorrect == Spec => []TypeOK
<1>1. IInv => TypeOK
  BY DEF IInv
<1> QED
  BY <1>1, Invariance, PTL

\* The reserved counters of a key are what its pending reservations hold, and
\* the used ones what the ledger says was charged: QuotaService,
\* AccountingService and the reconcilers agree on both.
THEOREM CountersCorrect == Spec => []CountersAgree
<1>1. IInv => CountersAgree
  BY DEF IInv, CountersAgree
<1> QED
  BY <1>1, Invariance, PTL

\* Concurrent requests never overspend a key.
THEOREM NeverOverspent == Spec => []NoOverspend
<1>1. IInv => NoOverspend
  BY DEF IInv
<1> QED
  BY <1>1, Invariance, PTL

\* An external-tool fence excludes every other exposure of its key.
THEOREM FenceCorrect == Spec => []FenceExclusive
<1>1. IInv => FenceExclusive
  BY DEF IInv
<1> QED
  BY <1>1, Invariance, PTL

\* No transaction settles a reservation twice or changes what it holds.
THEOREM SettlementIsFinal == Spec => SettledOnce
<1> DEFINE Once ==
      \A r \in Request :
          /\ resv[r].status \in {"finalized", "released", "expired"} =>
                 resv'[r] = resv[r]
          /\ resv[r].status = "pending" => resv'[r].amount = resv[r].amount
<1>1. ASSUME IInv, Next PROVE Once
  <2>1. TypeOK /\ Moves
    BY <1>1, StepMoves DEF IInv
  <2>2. ASSUME NEW r \in Request, NEW a \in Counters, Admitted(r, a) PROVE Once
    BY <2>1, <2>2, Zenon DEF Admitted, Admit, TypeOK, Reservations
  <2>3. ASSUME NEW r \in Request, NEW s, resv[r].status = "pending",
               resv' = [resv EXCEPT ![r].status = s]
        PROVE  Once
    BY <2>1, <2>3 DEF TypeOK, Reservations
  <2>4. ASSUME resv' = resv PROVE Once
    BY <2>4
  <2> HIDE DEF Once
  <2>5. ASSUME NEW r \in Request, NEW a \in Counters, Charged(r, a) PROVE Once
    BY <2>3, <2>5, ZenonT(30) DEF Charged, Charge, CanSettle
  <2>6. ASSUME NEW r \in Request, GivenBack(r) PROVE Once
    BY <2>3, <2>6, ZenonT(30) DEF GivenBack, GiveBack, CanSettle
  <2>7. ASSUME NEW k \in Key, NEW u \in BOOLEAN, NEW v \in BOOLEAN,
               ResetUsage(k, u, v)
        PROVE  Once
    BY <2>4, <2>7, Zenon DEF ResetUsage
  <2>8. ASSUME Unmoved PROVE Once
    BY <2>4, <2>8, Zenon DEF Unmoved
  <2> QED BY <2>1, <2>2, <2>5, <2>6, <2>7, <2>8 DEF Moves
<1>2. IInv /\ [Next]_vars => [Once]_vars
  BY <1>1, Zenon
<1> QED
  BY <1>2, Invariance, PTL DEF Spec, SettledOnce

=============================================================================
