---------------------------- MODULE PolicyProofs ----------------------------
(* Theorems about the spend gate, for every set of plugins and budgets.     *)
EXTENDS Policy, FiniteSetTheorems, TLAPS

-----------------------------------------------------------------------------
(* Sums. *)

(* The unit amounts of a function with a finite domain can be counted. *)
LEMMA TotalIsNat ==
    ASSUME NEW f, IsFiniteSet(DOMAIN f)
    PROVE  IsFiniteSet(Units(f)) /\ Total(f) \in Nat
<1>1. IsFiniteSet(1..MaxAmount)
  BY FS_Interval, AmountAssumption
<1>2. IsFiniteSet((DOMAIN f) \X (1..MaxAmount))
  BY <1>1, FS_Product
<1>3. IsFiniteSet(Units(f))
  BY <1>2, FS_Subset DEF Units
<1> QED
  BY <1>3, FS_CardinalityType DEF Total

(* Extending a function by one argument adds that argument's value. *)
LEMMA TotalExtend ==
    ASSUME NEW D, IsFiniteSet(D), NEW f, DOMAIN f = D,
           NEW x, x \notin D, NEW n \in 0..MaxAmount
    PROVE  Total([y \in D \cup {x} |-> IF y = x THEN n ELSE f[y]]) = Total(f) + n
<1> DEFINE g == [y \in D \cup {x} |-> IF y = x THEN n ELSE f[y]]
           T == {x} \X (1..n)
<1>0. n \in Int /\ n >= 0 /\ MaxAmount \in Int /\ n <= MaxAmount
  BY AmountAssumption
<1>1. Units(g) = Units(f) \cup T
  BY <1>0 DEF Units
<1>2. Units(f) \cap T = {}
  BY DEF Units
<1>3. IsFiniteSet(Units(f))
  BY TotalIsNat
<1>4. IsFiniteSet(1..n) /\ Cardinality(1..n) = n
  BY <1>0, FS_Interval
<1>5. IsFiniteSet({x}) /\ Cardinality({x}) = 1
  BY FS_Singleton
<1>6. IsFiniteSet(T) /\ Cardinality(T) = n
  <2>1. IsFiniteSet(T) /\ Cardinality(T) = Cardinality({x}) * Cardinality(1..n)
    BY <1>4, <1>5, FS_Product
  <2> QED
    BY <1>0, <1>4, <1>5, <2>1
<1>7. Cardinality(Units(f) \cup T) = Cardinality(Units(f)) + Cardinality(T)
  <2>1. Cardinality(Units(f) \cap T) = 0
    BY <1>2, FS_EmptySet
  <2>2. Cardinality(Units(f)) \in Nat /\ Cardinality(T) \in Nat
    BY <1>3, <1>6, FS_CardinalityType
  <2> QED
    BY <1>3, <1>6, <2>1, <2>2, FS_Union
<1> QED
  BY <1>1, <1>6, <1>7 DEF Total

(* One more reservation adds its maximum to exactly the periods it pins. *)
LEMMA ReservedInsert ==
    ASSUME NEW R, IsFiniteSet(R), NEW r \in Reservation, r \notin R,
           NEW p, NEW w, NEW s
    PROVE  Reserved(R \cup {r}, p, w, s) =
              Reserved(R, p, w, s)
                + (IF r.plugin = p /\ r.start[w] = s THEN r.maximum ELSE 0)
<1> DEFINE D == Pinned(R, p, w, s)
           f == [q \in D |-> q.maximum]
<1>1. IsFiniteSet(D)
  BY FS_Subset DEF Pinned
<1>2. Total(f) \in Nat
  BY <1>1, TotalIsNat
<1>3. CASE r.plugin = p /\ r.start[w] = s
  <2>1. Pinned(R \cup {r}, p, w, s) = D \cup {r} /\ r \notin D
    BY <1>3 DEF Pinned
  <2>2. r.maximum \in 0..MaxAmount
    BY DEF Reservation
  <2>3. [q \in D \cup {r} |-> q.maximum] =
            [q \in D \cup {r} |-> IF q = r THEN r.maximum ELSE f[q]]
    OBVIOUS
  <2>4. Total([q \in D \cup {r} |-> q.maximum]) = Total(f) + r.maximum
    <3>1. DOMAIN f = D
      OBVIOUS
    <3>2. Total([q \in D \cup {r} |-> IF q = r THEN r.maximum ELSE f[q]])
             = Total(f) + r.maximum
      <4> HIDE DEF D, f
      <4> QED BY <1>1, <2>1, <2>2, <3>1, TotalExtend
    <3> QED
      BY <2>3, <3>2
  <2> QED
    BY <1>3, <2>1, <2>4 DEF Reserved
<1>4. CASE ~(r.plugin = p /\ r.start[w] = s)
  <2>1. Pinned(R \cup {r}, p, w, s) = D
    BY <1>4 DEF Pinned
  <2>2. Reserved(R \cup {r}, p, w, s) = Reserved(R, p, w, s)
    BY <2>1 DEF Reserved
  <2> QED
    BY <1>2, <1>4, <2>2 DEF Reserved
<1> QED
  BY <1>3, <1>4

(* Taking a reservation away gives its maximum back to those periods. *)
LEMMA ReservedRemove ==
    ASSUME NEW R, IsFiniteSet(R), NEW r \in Reservation, r \in R,
           NEW p, NEW w, NEW s
    PROVE  Reserved(R, p, w, s) =
              Reserved(R \ {r}, p, w, s)
                + (IF r.plugin = p /\ r.start[w] = s THEN r.maximum ELSE 0)
<1>1. IsFiniteSet(R \ {r}) /\ r \notin R \ {r} /\ (R \ {r}) \cup {r} = R
  BY FS_RemoveElement
<1> QED
  BY <1>1, ReservedInsert

(* What a table of reservations holds is an amount. *)
LEMMA ReservedIsNat ==
    ASSUME NEW R, IsFiniteSet(R), NEW p, NEW w, NEW s
    PROVE  Reserved(R, p, w, s) \in Nat
<1>1. IsFiniteSet(Pinned(R, p, w, s))
  BY FS_Subset DEF Pinned
<1> QED
  BY <1>1, TotalIsNat DEF Reserved

-----------------------------------------------------------------------------
(* Type correctness. *)

(* A disable changes the count of one plugin's events at most. *)
LEMMA PublishType ==
    ASSUME TypeOK, NEW p \in Plugins, NEW K \in SUBSET Keys,
           NEW pub \in Published
    PROVE  /\ PublishDisable(pub, p) \in Published
           /\ PublishExceeded(pub, K) \in Published
BY DEF PublishDisable, PublishExceeded, Published

(* The periods a reservation pins, and those its charge crossed, are keys. *)
LEMMA ReservationKeys ==
    ASSUME TypeOK, NEW r \in reservations
    PROVE  /\ r \in Reservation
           /\ KeysOf(r) \subseteq Keys
           /\ CrossedBySettle(r) \subseteq Keys
<1>1. r \in Reservation
  BY DEF TypeOK
<1>2. \A w \in AllWindows : <<r.plugin, w, r.start[w]>> \in Keys
  BY <1>1 DEF Reservation, Keys
<1> QED
  BY <1>1, <1>2 DEF KeysOf, CrossedBySettle, Finite

(* A settlement leaves well-typed tables. *)
LEMMA SettleType ==
    ASSUME TypeOK, NEW r \in reservations, NEW actual \in 0..MaxAmount,
           SettleSpendTx(r, actual)
    PROVE  TypeOK'
<1>1. r \in Reservation /\ KeysOf(r) \subseteq Keys /\ CrossedBySettle(r) \subseteq Keys
  BY ReservationKeys
<1>2. r.plugin \in Plugins /\ r.maximum \in 0..MaxAmount
  BY <1>1 DEF Reservation
<1>3. actual \in Int /\ actual >= 0 /\ r.maximum \in Int
  BY <1>2, AmountAssumption
<1>4. reservations' \subseteq Reservation
  BY DEF SettleSpendTx, SettleWithin, SettleOverrun, Charge, TypeOK
<1>5. committed' \in [Keys -> Nat]
  BY <1>3 DEF SettleSpendTx, SettleWithin, SettleOverrun, Charge, TypeOK
<1>6. /\ DOMAIN ledger' \subseteq ReservationIds
      /\ ledger' \in [DOMAIN ledger' -> LedgerEntry]
  <2>1. ledger' = [ledger EXCEPT ![r.id].bill = actual]
    BY DEF SettleSpendTx, SettleWithin, SettleOverrun, Charge
  <2>2. DOMAIN ledger' = DOMAIN ledger
    BY <2>1 DEF TypeOK
  <2>3. \A id \in DOMAIN ledger : [ledger[id] EXCEPT !.bill = actual] \in LedgerEntry
    BY DEF TypeOK, LedgerEntry
  <2> QED
    BY <2>1, <2>2, <2>3 DEF TypeOK
<1>7. CASE SettleWithin(r, actual)
  BY <1>4, <1>5, <1>6, <1>7 DEF SettleSpendTx, SettleWithin, stateVars, TypeOK
<1>8. CASE SettleOverrun(r, actual)
  <2>1. overrun' \in [Keys -> Nat]
    BY <1>3, <1>8 DEF SettleOverrun, TypeOK
  <2>2. published' \in Published
    BY <1>1, <1>2, <1>8, PublishType DEF SettleOverrun, TypeOK
  <2>3. enabled' \subseteq registered' /\ automated' \subseteq registered'
    BY <1>8 DEF SettleOverrun, EnabledAfterDisable, TypeOK
  <2> QED
    BY <1>1, <1>2, <1>4, <1>5, <1>6, <1>8, <2>1, <2>2, <2>3 DEF SettleOverrun, SettleSpendTx, TypeOK
<1> QED
  BY <1>7, <1>8 DEF SettleSpendTx

(* Every step leaves well-typed tables. *)
LEMMA TypeStep == TypeOK /\ [Next]_vars => TypeOK'
<1> SUFFICES ASSUME TypeOK, [Next]_vars PROVE TypeOK'
  OBVIOUS
<1>a. Amounts \subseteq 0..MaxAmount
  BY AmountAssumption
<1>b. published \in Published
  BY DEF TypeOK
<1>1. ASSUME NEW p \in Plugins, NEW auto \in BOOLEAN, Register(p, auto)
      PROVE  TypeOK'
  <2>1. PublishDisable(published, p) \in Published
    BY <1>b, PublishType
  <2>2. published' \in Published
    BY <1>1, <1>b, <2>1 DEF Register, RegisterNew, RegisterAgain
  <2> QED
    BY <1>1, <2>2 DEF Register, RegisterNew, RegisterAgain, EnabledAfterDisable,
                      historyVars, TypeOK
<1>2. ASSUME NEW p \in Plugins, Enable(p) PROVE TypeOK'
  BY <1>2 DEF Enable, historyVars, TypeOK, Published
<1>3. ASSUME NEW p \in Plugins, Disable(p) PROVE TypeOK'
  BY <1>3, <1>b, PublishType DEF Disable, EnabledAfterDisable, historyVars, TypeOK
<1>4. ASSUME NEW p \in Plugins, NEW b \in Budgets, SetBudget(p, b) PROVE TypeOK'
  BY <1>4, BudgetAssumption DEF SetBudget, historyVars, TypeOK
<1>5. ASSUME NEW p \in Plugins, NEW m \in Amounts, ReserveAdmitted(p, m)
      PROVE  TypeOK'
  <2>1. PICK id \in ReservationIds \ DOMAIN ledger :
          /\ reservations' = reservations \cup
                {[id |-> id, plugin |-> p, maximum |-> m, start |-> period]}
          /\ ledger' = [i \in DOMAIN ledger \cup {id} |->
                IF i = id THEN [plugin |-> p, start |-> period, bill |-> 0]
                ELSE ledger[i]]
    BY <1>5 DEF ReserveAdmitted
  <2>2. [id |-> id, plugin |-> p, maximum |-> m, start |-> period] \in Reservation
    BY <1>a DEF Reservation, TypeOK
  <2>3. 0 \in 0..MaxAmount
    BY AmountAssumption
  <2>4. [plugin |-> p, start |-> period, bill |-> 0] \in LedgerEntry
    BY <2>3 DEF TypeOK, LedgerEntry
  <2>5. /\ DOMAIN ledger' \subseteq ReservationIds
        /\ ledger' \in [DOMAIN ledger' -> LedgerEntry]
    BY <2>1, <2>4 DEF TypeOK
  <2> QED
    BY <1>5, <2>1, <2>2, <2>5 DEF ReserveAdmitted, stateVars, TypeOK
<1>6. ASSUME NEW p \in Plugins, NEW m \in Amounts, ReserveRejected(p, m)
      PROVE  TypeOK'
  <2> DEFINE w == FirstCrossed(p, m)
             key == <<p, w, period[w]>>
             pub == PublishExceeded(published, {key})
  <2>1. w \in AllWindows
    BY DEF FirstCrossed, AllWindows
  <2>2. key \in Keys
    BY <2>1 DEF TypeOK, Keys
  <2>3. pub \in Published
    <3> HIDE DEF key
    <3> QED BY <1>b, <2>2, PublishType
  <2>4. PublishDisable(pub, p) \in Published
    <3> HIDE DEF pub
    <3> QED BY <2>3, PublishType
  <2> HIDE DEF key, pub
  <2>5. /\ budgetEvents' = budgetEvents \cup {key}
        /\ enabled' \subseteq enabled
        /\ published' \in {pub, PublishDisable(pub, p)}
    BY <1>6 DEF ReserveRejected, EnabledAfterDisable, key, pub
  <2> QED
    BY <1>6, <2>2, <2>3, <2>4, <2>5 DEF ReserveRejected, historyVars, TypeOK
<1>7. ASSUME NEW r \in reservations, NEW actual \in Amounts, Settle(r, actual)
      PROVE  TypeOK'
  BY <1>a, <1>7, SettleType DEF Settle
<1>8. ASSUME NEW r \in reservations, ReleaseSpendTx(r) PROVE TypeOK'
  BY <1>8 DEF ReleaseSpendTx, stateVars, historyVars, TypeOK
<1>9. ASSUME NEW r \in reservations, SettleOrphan(r) PROVE TypeOK'
  <2>1. r.maximum \in 0..MaxAmount
    BY DEF TypeOK, Reservation
  <2> QED
    BY <1>9, <2>1, SettleType DEF SettleOrphan
<1>10. CASE Crash
  BY <1>10 DEF Crash, stateVars, historyVars, TypeOK
<1>11. CASE Serve
  BY <1>11 DEF Serve, stateVars, historyVars, TypeOK
<1>12. CASE Tick
  <2>1. period' \in [AllWindows -> Periods]
    BY <1>12, BoundAssumption DEF Tick, TypeOK, Periods
  <2> QED
    BY <1>12, <2>1 DEF Tick, stateVars, historyVars, TypeOK
<1>13. CASE UNCHANGED vars
  BY <1>13 DEF vars, stateVars, historyVars, TypeOK
<1> QED
  BY <1>1, <1>2, <1>3, <1>4, <1>5, <1>6, <1>7, <1>8, <1>9, <1>10, <1>11, <1>12, <1>13
     DEF Next, ReserveSpendTx

(* The tables are empty and well-typed in a fresh database. *)
LEMMA TypeInit == Init => TypeOK
<1> SUFFICES ASSUME Init PROVE TypeOK
  OBVIOUS
<1>1. 0 \in Periods
  BY BoundAssumption DEF Periods
<1>2. NoBudget \in Budget
  BY DEF NoBudget, Budget, ExceedActions
<1> QED
  BY <1>1, <1>2 DEF Init, TypeOK, Reservation, Published

(* Type correctness of the spend gate: the policy store's tables keep their *)
(* shape under every operation, a crash included.                           *)
THEOREM PolicyTypeCorrect == Spec => []TypeOK
<1> QED
  BY TypeInit, TypeStep, PTL DEF Spec

-----------------------------------------------------------------------------
(* The budget. *)

(* What WithinBudget rests on: outstanding reservations are finitely many,  *)
(* each was admitted under an id that is not issued again, and nothing is   *)
(* reserved or committed in a period that has not begun.                    *)
Accounting ==
    /\ IsFiniteSet(reservations)
    /\ \A r \in reservations : r.id \in DOMAIN ledger
    /\ \A r \in reservations, w \in AllWindows : r.start[w] <= period[w]
    /\ \A p \in Plugins, w \in AllWindows, s \in Periods :
          s > period[w] => committed[<<p, w, s>>] = 0

BudgetInv == TypeOK /\ Accounting /\ WithinBudget

(* A period nothing pins holds nothing. *)
LEMMA ReservedNone ==
    ASSUME NEW R, NEW p, NEW w, NEW s, Pinned(R, p, w, s) = {}
    PROVE  Reserved(R, p, w, s) = 0
<1> DEFINE f == [r \in Pinned(R, p, w, s) |-> r.maximum]
<1>1. DOMAIN f = {}
  OBVIOUS
<1>2. Units(f) = {}
  <2> HIDE DEF f
  <2> QED BY <1>1 DEF Units
<1> QED
  BY <1>2, FS_EmptySet DEF Reserved, Total

(* A period is one of the keys of a reservation exactly when it pins it. *)
LEMMA PinnedKey ==
    ASSUME NEW r \in Reservation, NEW p, NEW w \in AllWindows, NEW s
    PROVE  <<p, w, s>> \in KeysOf(r) <=> (r.plugin = p /\ r.start[w] = s)
BY DEF KeysOf

(* Settling moves at most the overrun into any one period. *)
LEMMA SettleBudget ==
    ASSUME BudgetInv, NEW r \in reservations, NEW actual \in 0..MaxAmount,
           SettleSpendTx(r, actual)
    PROVE  (Accounting /\ WithinBudget)'
<1> USE DEF BudgetInv
<1>1. r \in Reservation /\ r.maximum \in Nat /\ actual \in Nat
  <2>1. r \in Reservation /\ r.maximum \in 0..MaxAmount
    BY DEF TypeOK, Reservation
  <2> QED
    BY <2>1, AmountAssumption
<1>2. /\ reservations' = reservations \ {r}
      /\ committed' = [k \in Keys |->
            IF k \in KeysOf(r) THEN committed[k] + actual ELSE committed[k]]
      /\ DOMAIN ledger' = DOMAIN ledger
      /\ UNCHANGED <<period, budget>>
  BY DEF SettleSpendTx, SettleWithin, SettleOverrun, Charge, stateVars, TypeOK
<1>3. \A k \in Keys :
         overrun'[k] >= overrun[k] + (IF k \in KeysOf(r) THEN actual - r.maximum ELSE 0)
  BY <1>1 DEF SettleSpendTx, SettleWithin, SettleOverrun, TypeOK
<1>4. IsFiniteSet(reservations')
  BY <1>2, FS_RemoveElement DEF Accounting
<1>5. Accounting'
  <2>1. \A p \in Plugins, w \in AllWindows, s \in Periods :
           s > period[w] => committed'[<<p, w, s>>] = 0
    <3> TAKE p \in Plugins, w \in AllWindows, s \in Periods
    <3> HAVE s > period[w]
    <3>1. <<p, w, s>> \in Keys /\ committed[<<p, w, s>>] = 0
      BY DEF Keys, Accounting
    <3>2. r.start[w] <= period[w] /\ period[w] \in Int /\ s \in Int
      BY BoundAssumption DEF Accounting, TypeOK, Periods
    <3>3. r.start[w] \in Int
      BY <1>1, BoundAssumption DEF Reservation, Periods
    <3>4. <<p, w, s>> \notin KeysOf(r)
      BY <1>1, <3>2, <3>3, PinnedKey
    <3> QED
      BY <1>2, <3>1, <3>4
  <2> QED
    BY <1>2, <1>4, <2>1 DEF Accounting
<1>6. WithinBudget'
  <2> SUFFICES ASSUME NEW p \in Plugins, NEW w \in AllWindows, LimitFor(p, w) # 0
               PROVE  Usage(p, w)' <= LimitFor(p, w) + overrun'[<<p, w, period[w]>>]
    BY <1>2 DEF WithinBudget, LimitFor
  <2> DEFINE s == period[w]
             k == <<p, w, s>>
             old == Reserved(reservations, p, w, s)
             new == Reserved(reservations \ {r}, p, w, s)
  <2>1. k \in Keys
    BY DEF Keys, TypeOK
  <2>2. Usage(p, w) <= LimitFor(p, w) + overrun[k] /\ Usage(p, w) = old + committed[k]
    BY DEF WithinBudget, Usage, WindowUsage
  <2>3. Usage(p, w)' = new + committed'[k]
    BY <1>2 DEF Usage, WindowUsage
  <2>4. old = new + (IF r.plugin = p /\ r.start[w] = s THEN r.maximum ELSE 0)
    BY <1>1, ReservedRemove DEF Accounting
  <2>5. old \in Nat /\ new \in Nat
    BY <1>2, <1>4, ReservedIsNat DEF Accounting
  <2>6. k \in KeysOf(r) <=> (r.plugin = p /\ r.start[w] = s)
    BY <1>1, PinnedKey
  <2>7. committed[k] \in Nat /\ overrun[k] \in Nat /\ LimitFor(p, w) \in Nat
    BY <2>1 DEF TypeOK, LimitFor, Budget
  <2>8. overrun'[k] \in Int
    <3>1. TypeOK'
      BY SettleType
    <3> QED
      BY <2>1, <3>1 DEF TypeOK
  <2>9. committed'[k] = IF k \in KeysOf(r) THEN committed[k] + actual ELSE committed[k]
    BY <1>2, <2>1
  <2>10. overrun'[k] >= overrun[k] + (IF k \in KeysOf(r) THEN actual - r.maximum ELSE 0)
    BY <1>3, <2>1
  <2> HIDE DEF s, k, old, new
  <2> QED
    BY <1>1, <2>2, <2>3, <2>4, <2>5, <2>6, <2>7, <2>8, <2>9, <2>10 DEF k, s
<1> QED
  BY <1>5, <1>6

(* A step that leaves the ledger, the clock and the limits alone preserves  *)
(* the budget.                                                              *)
LEMMA BudgetFrame ==
    ASSUME BudgetInv, UNCHANGED <<period, reservations, committed, ledger, overrun, budget>>
    PROVE  (Accounting /\ WithinBudget)'
BY DEF BudgetInv, Accounting, WithinBudget, Usage, WindowUsage, LimitFor

(* Every step preserves the budget. *)
LEMMA BudgetStep == BudgetInv /\ [Next]_vars => BudgetInv'
<1> SUFFICES ASSUME BudgetInv, [Next]_vars PROVE BudgetInv'
  OBVIOUS
<1>0. TypeOK' /\ TypeOK
  BY TypeStep DEF BudgetInv
<1>a. Amounts \subseteq 0..MaxAmount
  BY AmountAssumption
<1> SUFFICES (Accounting /\ WithinBudget)'
  BY <1>0 DEF BudgetInv
<1>1. ASSUME NEW p \in Plugins, NEW auto \in BOOLEAN, Register(p, auto)
      PROVE  (Accounting /\ WithinBudget)'
  BY <1>1, BudgetFrame DEF Register, RegisterNew, RegisterAgain, historyVars
<1>2. ASSUME NEW p \in Plugins, Enable(p) \/ Disable(p)
      PROVE  (Accounting /\ WithinBudget)'
  BY <1>2, BudgetFrame DEF Enable, Disable, historyVars
<1>3. ASSUME NEW p \in Plugins, NEW b \in Budgets, SetBudget(p, b)
      PROVE  (Accounting /\ WithinBudget)'
  <2>1. Accounting'
    BY <1>3 DEF SetBudget, historyVars, Accounting, BudgetInv
  <2>2. WithinBudget'
    <3> SUFFICES ASSUME NEW q \in Plugins, NEW w \in AllWindows, LimitFor(q, w)' # 0
                 PROVE  Usage(q, w)' <= LimitFor(q, w)' + overrun'[<<q, w, period'[w]>>]
      BY DEF WithinBudget
    <3>1. Usage(q, w)' = Usage(q, w) /\ UNCHANGED <<period, overrun>>
      BY <1>3 DEF SetBudget, historyVars, Usage, WindowUsage
    <3>2. overrun[<<q, w, period[w]>>] \in Nat
      BY <1>0 DEF TypeOK, Keys
    <3>3. CASE q = p
      <4>1. LimitFor(q, w)' = b.limit[w]
        BY <1>0, <1>3, <3>3 DEF SetBudget, LimitFor, TypeOK
      <4>2. b.limit[w] \in Nat
        BY BudgetAssumption DEF Budget
      <4>3. Usage(q, w) <= b.limit[w]
        BY <1>3, <3>3, <4>1 DEF SetBudget
      <4>4. Usage(q, w) \in Int
        BY <1>0, ReservedIsNat DEF Usage, WindowUsage, TypeOK, Keys, Accounting, BudgetInv
      <4> QED
        BY <3>1, <3>2, <4>1, <4>2, <4>3, <4>4
    <3>4. CASE q # p
      <4>1. LimitFor(q, w)' = LimitFor(q, w)
        BY <1>0, <1>3, <3>4 DEF SetBudget, LimitFor, TypeOK
      <4> QED
        BY <3>1, <4>1 DEF WithinBudget, BudgetInv
    <3> QED
      BY <3>3, <3>4
  <2> QED
    BY <2>1, <2>2
<1>4. ASSUME NEW p \in Plugins, NEW m \in Amounts, ReserveAdmitted(p, m)
      PROVE  (Accounting /\ WithinBudget)'
  <2>1. PICK id \in ReservationIds \ DOMAIN ledger :
          /\ reservations' = reservations \cup
                {[id |-> id, plugin |-> p, maximum |-> m, start |-> period]}
          /\ ledger' = [i \in DOMAIN ledger \cup {id} |->
                IF i = id THEN [plugin |-> p, start |-> period, bill |-> 0]
                ELSE ledger[i]]
    BY <1>4 DEF ReserveAdmitted
  <2> DEFINE r == [id |-> id, plugin |-> p, maximum |-> m, start |-> period]
  <2>2. r \in Reservation /\ r \notin reservations
    BY <1>0, <1>a DEF Reservation, TypeOK, Accounting, BudgetInv
  <2>3. UNCHANGED <<period, committed, overrun, budget>>
    BY <1>4 DEF ReserveAdmitted, stateVars
  <2>4. m \in Nat
    BY <1>a, AmountAssumption
  <2>5. Accounting'
    <3>1. IsFiniteSet(reservations')
      BY <2>1, FS_AddElement DEF Accounting, BudgetInv
    <3>2. \A q \in reservations' : q.id \in DOMAIN ledger'
      BY <2>1 DEF Accounting, BudgetInv
    <3>3. \A q \in reservations', w \in AllWindows : q.start[w] <= period'[w]
      <4>1. \A w \in AllWindows : period[w] \in Int
        BY <1>0, BoundAssumption DEF TypeOK, Periods
      <4> QED
        BY <2>1, <2>3, <4>1 DEF Accounting, BudgetInv
    <3> QED
      BY <2>3, <3>1, <3>2, <3>3 DEF Accounting, BudgetInv
  <2>6. WithinBudget'
    <3> SUFFICES ASSUME NEW q \in Plugins, NEW w \in AllWindows, LimitFor(q, w) # 0
                 PROVE  Usage(q, w)' <= LimitFor(q, w) + overrun[<<q, w, period[w]>>]
      BY <2>3 DEF WithinBudget, LimitFor
    <3> DEFINE k == <<q, w, period[w]>>
               old == Reserved(reservations, q, w, period[w])
    <3>1. Reserved(reservations \cup {r}, q, w, period[w])
             = old + (IF r.plugin = q /\ r.start[w] = period[w] THEN r.maximum ELSE 0)
      <4> HIDE DEF r
      <4> QED BY <2>2, ReservedInsert DEF Accounting, BudgetInv
    <3>2. Usage(q, w)' = old + (IF p = q THEN m ELSE 0) + committed[k]
      BY <2>1, <2>3, <3>1 DEF Usage, WindowUsage
    <3>3. Usage(q, w) = old + committed[k]
      BY DEF Usage, WindowUsage
    <3>4. old \in Nat
      BY ReservedIsNat DEF Accounting, BudgetInv
    <3>5. committed[k] \in Nat /\ overrun[k] \in Nat /\ LimitFor(q, w) \in Nat
      BY <1>0 DEF TypeOK, LimitFor, Budget, Keys
    <3>6. Usage(q, w) <= LimitFor(q, w) + overrun[k]
      BY DEF WithinBudget, BudgetInv
    <3>7. p = q => ~ (Usage(q, w) + m > LimitFor(q, w))
      BY <1>4 DEF ReserveAdmitted, Crossed, Finite
    <3> HIDE DEF k, old
    <3>8. CASE p = q
      BY <2>4, <3>2, <3>3, <3>4, <3>5, <3>7, <3>8 DEF k
    <3>9. CASE p # q
      BY <2>4, <3>2, <3>3, <3>4, <3>5, <3>6, <3>9 DEF k
    <3> QED
      BY <3>8, <3>9
  <2> QED
    BY <2>5, <2>6
<1>5. ASSUME NEW p \in Plugins, NEW m \in Amounts, ReserveRejected(p, m)
      PROVE  (Accounting /\ WithinBudget)'
  BY <1>5, BudgetFrame DEF ReserveRejected, historyVars
<1>6. ASSUME NEW r \in reservations, NEW actual \in Amounts, Settle(r, actual)
      PROVE  (Accounting /\ WithinBudget)'
  BY <1>a, <1>6, SettleBudget DEF Settle
<1>7. ASSUME NEW r \in reservations, SettleOrphan(r)
      PROVE  (Accounting /\ WithinBudget)'
  <2>1. r.maximum \in 0..MaxAmount
    BY <1>0 DEF TypeOK, Reservation
  <2> QED
    BY <1>7, <2>1, SettleBudget DEF SettleOrphan
<1>8. ASSUME NEW r \in reservations, ReleaseSpendTx(r)
      PROVE  (Accounting /\ WithinBudget)'
  <2>1. /\ reservations' = reservations \ {r} /\ r \in Reservation
        /\ UNCHANGED <<period, committed, ledger, overrun, budget>>
    BY <1>0, <1>8 DEF ReleaseSpendTx, stateVars, historyVars, TypeOK
  <2>2. IsFiniteSet(reservations')
    BY <2>1, FS_RemoveElement DEF Accounting, BudgetInv
  <2>3. Accounting'
    BY <2>1, <2>2 DEF Accounting, BudgetInv
  <2>4. WithinBudget'
    <3> SUFFICES ASSUME NEW p \in Plugins, NEW w \in AllWindows, LimitFor(p, w) # 0
                 PROVE  Usage(p, w)' <= LimitFor(p, w) + overrun[<<p, w, period[w]>>]
      BY <2>1 DEF WithinBudget, LimitFor
    <3> DEFINE old == Reserved(reservations, p, w, period[w])
               new == Reserved(reservations \ {r}, p, w, period[w])
               k == <<p, w, period[w]>>
    <3>1. old \in Nat /\ new \in Nat
      BY <2>1, <2>2, ReservedIsNat DEF Accounting, BudgetInv
    <3>2. old = new + (IF r.plugin = p /\ r.start[w] = period[w] THEN r.maximum ELSE 0)
      <4>1. IsFiniteSet(reservations) /\ r \in Reservation
        BY <2>1 DEF Accounting, BudgetInv
      <4> QED
        BY <4>1, ReservedRemove
    <3>3. r.maximum \in Nat
      BY <2>1, AmountAssumption DEF Reservation
    <3>4. committed[k] \in Nat /\ overrun[k] \in Nat /\ LimitFor(p, w) \in Nat
      BY <1>0 DEF TypeOK, LimitFor, Budget, Keys
    <3>5. Usage(p, w)' = new + committed[k] /\ Usage(p, w) = old + committed[k]
      BY <2>1 DEF Usage, WindowUsage
    <3>6. Usage(p, w) <= LimitFor(p, w) + overrun[k]
      BY DEF WithinBudget, BudgetInv
    <3> HIDE DEF old, new, k
    <3> QED
      BY <3>1, <3>2, <3>3, <3>4, <3>5, <3>6 DEF k
  <2> QED
    BY <2>3, <2>4
<1>9. CASE Crash \/ Serve
  BY <1>9, BudgetFrame DEF Crash, Serve, stateVars, historyVars
<1>10. CASE Tick
  <2>1. UNCHANGED <<reservations, committed, ledger, overrun, budget>>
    BY <1>10 DEF Tick, stateVars, historyVars
  <2>2. \A w \in AllWindows : period[w] \in Int /\ period'[w] \in {period[w], period[w] + 1}
    BY <1>0, <1>10, BoundAssumption DEF Tick, TypeOK, Periods
  <2>3. Accounting'
    <3>1. \A r \in reservations, w \in AllWindows : r.start[w] \in Int
      BY <1>0, BoundAssumption DEF TypeOK, Reservation, Periods
    <3>2. \A s \in Periods : s \in Int
      BY BoundAssumption DEF Periods
    <3>3. \A r \in reservations, w \in AllWindows : r.start[w] <= period'[w]
      BY <2>2, <3>1 DEF Accounting, BudgetInv
    <3>4. \A p \in Plugins, w \in AllWindows, s \in Periods :
             s > period'[w] => committed[<<p, w, s>>] = 0
      BY <2>2, <3>2 DEF Accounting, BudgetInv
    <3> QED
      BY <2>1, <3>3, <3>4 DEF Accounting, BudgetInv
  <2>4. WithinBudget'
    <3> SUFFICES ASSUME NEW p \in Plugins, NEW w \in AllWindows, LimitFor(p, w) # 0
                 PROVE  Usage(p, w)' <= LimitFor(p, w) + overrun[<<p, w, period'[w]>>]
      BY <2>1 DEF WithinBudget, LimitFor
    <3>1. CASE period'[w] = period[w]
      BY <2>1, <3>1 DEF WithinBudget, BudgetInv, Usage, WindowUsage
    <3>2. CASE period'[w] # period[w]
      <4>1. period'[w] > period[w] /\ period'[w] \in Periods
        BY <1>0, <2>2, <3>2 DEF TypeOK
      <4>2. Pinned(reservations, p, w, period'[w]) = {}
        <5>1. \A r \in reservations : r.start[w] \in Int /\ r.start[w] <= period[w]
          BY <1>0, BoundAssumption DEF TypeOK, Reservation, Periods, Accounting, BudgetInv
        <5> QED
          BY <2>2, <4>1, <5>1 DEF Pinned
      <4>3. Reserved(reservations, p, w, period'[w]) = 0
        BY <4>2, ReservedNone
      <4>4. committed[<<p, w, period'[w]>>] = 0
        BY <4>1 DEF Accounting, BudgetInv
      <4>5. Usage(p, w)' = 0
        BY <2>1, <4>3, <4>4 DEF Usage, WindowUsage
      <4>6. overrun[<<p, w, period'[w]>>] \in Nat /\ LimitFor(p, w) \in Nat
        BY <1>0, <4>1 DEF TypeOK, LimitFor, Budget, Keys
      <4> QED
        BY <4>5, <4>6
    <3> QED
      BY <3>1, <3>2
  <2> QED
    BY <2>3, <2>4
<1>11. CASE UNCHANGED vars
  BY <1>11, BudgetFrame DEF vars, stateVars, historyVars
<1> QED
  BY <1>1, <1>2, <1>3, <1>4, <1>5, <1>6, <1>7, <1>8, <1>9, <1>10, <1>11
     DEF Next, ReserveSpendTx

(* A fresh database is within every budget. *)
LEMMA BudgetInit == Init => BudgetInv
<1> SUFFICES ASSUME Init PROVE BudgetInv
  OBVIOUS
<1>1. TypeOK
  BY TypeInit
<1>2. \A k \in Keys : committed[k] = 0
  BY DEF Init
<1>3. IsFiniteSet({})
  BY FS_EmptySet
<1>4. Accounting
  BY <1>2, <1>3 DEF Init, Accounting, Keys
<1>5. \A p \in Plugins, w \in AllWindows : LimitFor(p, w) = 0
  BY DEF Init, LimitFor, NoBudget
<1> QED
  BY <1>1, <1>4, <1>5 DEF BudgetInv, WithinBudget

(* The gate keeps every plugin within its limits, up to what a provider     *)
(* bills above a reserved maximum: for any number of concurrent paid calls, *)
(* any order of settlement, budget changes, roll-overs and crashes.         *)
THEOREM SpendStaysWithinBudget == Spec => []WithinBudget
<1>1. Spec => []BudgetInv
  BY BudgetInit, BudgetStep, PTL DEF Spec
<1>2. BudgetInv => WithinBudget
  BY DEF BudgetInv
<1> QED
  BY <1>1, <1>2, PTL

-----------------------------------------------------------------------------
(* Who is closed, and what the bus tells. *)

(* Every step keeps automated plugins capped and failed ones closed. *)
LEMMA ClosedStep ==
    ASSUME TypeOK, AutomatedCapped, AccountingFailureCloses, [Next]_vars
    PROVE  AutomatedCapped' /\ AccountingFailureCloses'
<1>1. ASSUME NEW p \in Plugins, NEW auto \in BOOLEAN, Register(p, auto)
      PROVE  AutomatedCapped' /\ AccountingFailureCloses'
  BY <1>1 DEF Register, RegisterNew, RegisterAgain, EnabledAfterDisable, TypeOK,
              AutomatedCapped, AccountingFailureCloses, LimitFor
<1>2. ASSUME NEW p \in Plugins, Enable(p)
      PROVE  AutomatedCapped' /\ AccountingFailureCloses'
  BY <1>2 DEF Enable, AutomatedCapped, AccountingFailureCloses, LimitFor
<1>3. ASSUME NEW p \in Plugins, NEW b \in Budgets, SetBudget(p, b)
      PROVE  AutomatedCapped' /\ AccountingFailureCloses'
  BY <1>3 DEF SetBudget, TypeOK, AutomatedCapped, AccountingFailureCloses, LimitFor
<1>4. ASSUME NEW r \in reservations, NEW a, SettleSpendTx(r, a)
      PROVE  AutomatedCapped' /\ AccountingFailureCloses'
  BY <1>4 DEF SettleSpendTx, SettleWithin, SettleOverrun, EnabledAfterDisable, stateVars,
              AutomatedCapped, AccountingFailureCloses, LimitFor
<1>5. ASSUME enabled' \subseteq enabled, UNCHANGED <<automated, accountingFailed, budget>>
      PROVE  AutomatedCapped' /\ AccountingFailureCloses'
  BY <1>5 DEF AutomatedCapped, AccountingFailureCloses, LimitFor
<1>6. ASSUME NEW p \in Plugins, NEW m \in Amounts, ReserveSpendTx(p, m)
      PROVE  enabled' \subseteq enabled /\ UNCHANGED <<automated, accountingFailed, budget>>
  BY <1>6 DEF ReserveSpendTx, ReserveAdmitted, ReserveRejected, EnabledAfterDisable,
              stateVars
<1>7. ASSUME NEW p \in Plugins, Disable(p)
      PROVE  enabled' \subseteq enabled /\ UNCHANGED <<automated, accountingFailed, budget>>
  BY <1>7 DEF Disable, EnabledAfterDisable
<1>8. ASSUME NEW r \in reservations, ReleaseSpendTx(r)
      PROVE  enabled' \subseteq enabled /\ UNCHANGED <<automated, accountingFailed, budget>>
  BY <1>8 DEF ReleaseSpendTx, stateVars
<1>9. ASSUME Crash \/ Serve \/ Tick \/ UNCHANGED vars
      PROVE  enabled' \subseteq enabled /\ UNCHANGED <<automated, accountingFailed, budget>>
  BY <1>9 DEF Crash, Serve, Tick, vars, stateVars
<1> QED
  BY <1>1, <1>2, <1>3, <1>4, <1>5, <1>6, <1>7, <1>8, <1>9 DEF Next, Settle, SettleOrphan

(* A disable is told exactly when the plugin was enabled. *)
LEMMA DisableTold ==
    ASSUME TypeOK, NEW p \in Plugins, NEW pub \in Published,
           \A q \in Plugins : pub.enable[q] = pub.disable[q] + (IF q \in enabled THEN 1 ELSE 0)
    PROVE  /\ \A q \in Plugins : PublishDisable(pub, p).enable[q] =
                 PublishDisable(pub, p).disable[q]
                    + (IF q \in EnabledAfterDisable(p) THEN 1 ELSE 0)
           /\ PublishDisable(pub, p).exceeded = pub.exceeded
<1>1. /\ pub.enable \in [Plugins -> Nat] /\ pub.disable \in [Plugins -> Nat]
      /\ pub = [enable |-> pub.enable, disable |-> pub.disable, exceeded |-> pub.exceeded]
  BY DEF Published
<1>2. CASE p \in enabled
  <2> DEFINE d == [pub.disable EXCEPT ![p] = @ + 1]
  <2>1. PublishDisable(pub, p) = [pub EXCEPT !.disable = d]
    BY <1>2 DEF PublishDisable
  <2>2. /\ [pub EXCEPT !.disable = d].enable = pub.enable
        /\ [pub EXCEPT !.disable = d].disable = d
        /\ [pub EXCEPT !.disable = d].exceeded = pub.exceeded
    <3> HIDE DEF d
    <3> QED
      BY <1>1
  <2>3. \A q \in Plugins : d[q] = pub.disable[q] + (IF q = p THEN 1 ELSE 0)
    BY <1>1
  <2> HIDE DEF d
  <2>4. \A q \in Plugins : pub.enable[q] = d[q] + (IF q \in enabled \ {p} THEN 1 ELSE 0)
    BY <1>1, <1>2, <2>3
  <2> QED
    BY <2>1, <2>2, <2>4 DEF EnabledAfterDisable
<1>3. CASE p \notin enabled
  <2>1. PublishDisable(pub, p) = pub /\ EnabledAfterDisable(p) = enabled
    BY <1>3 DEF PublishDisable, EnabledAfterDisable
  <2> QED
    BY <2>1
<1> QED
  BY <1>2, <1>3

(* A crossed limit is told once for its key. *)
LEMMA ExceededTold ==
    ASSUME NEW pub \in Published, NEW K \in SUBSET Keys,
           \A k \in Keys : pub.exceeded[k] = (IF k \in budgetEvents THEN 1 ELSE 0)
    PROVE  /\ \A k \in Keys : PublishExceeded(pub, K).exceeded[k] =
                 (IF k \in budgetEvents \cup K THEN 1 ELSE 0)
           /\ PublishExceeded(pub, K).enable = pub.enable
           /\ PublishExceeded(pub, K).disable = pub.disable
<1> DEFINE e == [k \in Keys |-> IF k \in K \ budgetEvents THEN pub.exceeded[k] + 1
                                ELSE pub.exceeded[k]]
<1>1. PublishExceeded(pub, K) = [pub EXCEPT !.exceeded = e]
  BY DEF PublishExceeded
<1>2. \A k \in Keys : e[k] = (IF k \in budgetEvents \cup K THEN 1 ELSE 0)
  OBVIOUS
<1> HIDE DEF e
<1>3. /\ [pub EXCEPT !.exceeded = e].exceeded = e
      /\ [pub EXCEPT !.exceeded = e].enable = pub.enable
      /\ [pub EXCEPT !.exceeded = e].disable = pub.disable
  BY DEF Published
<1> QED
  BY <1>1, <1>2, <1>3

(* Every step tells what it did, once. *)
LEMMA ToldStep ==
    ASSUME TypeOK, EventsMatchState, [Next]_vars
    PROVE  EventsMatchState'
<1>p. /\ published \in Published /\ published.enable \in [Plugins -> Nat]
      /\ published.disable \in [Plugins -> Nat]
  BY DEF TypeOK, Published
<1>e. \A p \in Plugins : published.enable[p] = published.disable[p] + (IF p \in enabled THEN 1 ELSE 0)
  BY DEF EventsMatchState
<1>x. \A k \in Keys : published.exceeded[k] = (IF k \in budgetEvents THEN 1 ELSE 0)
  BY DEF EventsMatchState
<1>0. ASSUME UNCHANGED <<published, enabled, budgetEvents>>
      PROVE  EventsMatchState'
  BY <1>0 DEF EventsMatchState
<1>1. ASSUME NEW p \in Plugins, enabled' = EnabledAfterDisable(p),
             published' = PublishDisable(published, p), budgetEvents' = budgetEvents
      PROVE  EventsMatchState'
  BY <1>1, <1>p, <1>e, <1>x, DisableTold DEF EventsMatchState
<1>2. ASSUME NEW p \in Plugins, NEW auto \in BOOLEAN, Register(p, auto)
      PROVE  EventsMatchState'
  <2>1. budgetEvents' = budgetEvents
    BY <1>2 DEF Register
  <2>2. \/ UNCHANGED <<published, enabled>>
        \/ enabled' = EnabledAfterDisable(p) /\ published' = PublishDisable(published, p)
    BY <1>2 DEF Register, RegisterNew, RegisterAgain
  <2> QED
    BY <1>0, <1>1, <2>1, <2>2
<1>3. ASSUME NEW p \in Plugins, Enable(p)
      PROVE  EventsMatchState'
  <2> DEFINE e == [published.enable EXCEPT ![p] = @ + 1]
  <2>1. /\ published' = [published EXCEPT !.enable = e] /\ p \notin enabled
        /\ enabled' = enabled \cup {p} /\ budgetEvents' = budgetEvents
    BY <1>3 DEF Enable
  <2>2. \A q \in Plugins : e[q] = published.disable[q] + (IF q \in enabled \cup {p} THEN 1 ELSE 0)
    BY <1>p, <1>e, <2>1
  <2> HIDE DEF e
  <2>3. /\ [published EXCEPT !.enable = e].enable = e
        /\ [published EXCEPT !.enable = e].disable = published.disable
        /\ [published EXCEPT !.enable = e].exceeded = published.exceeded
    BY <1>p DEF Published
  <2> QED
    BY <1>x, <2>1, <2>2, <2>3 DEF EventsMatchState
<1>4. ASSUME NEW p \in Plugins, Disable(p)
      PROVE  EventsMatchState'
  BY <1>1, <1>4 DEF Disable
<1>5. ASSUME NEW p \in Plugins, NEW m \in Amounts, ReserveRejected(p, m)
      PROVE  EventsMatchState'
  <2> DEFINE w == FirstCrossed(p, m)
             key == <<p, w, period[w]>>
             pub == PublishExceeded(published, {key})
  <2>1. key \in Keys
    BY DEF FirstCrossed, AllWindows, TypeOK, Keys
  <2> HIDE DEF key
  <2>2. /\ \A k \in Keys : pub.exceeded[k] = (IF k \in budgetEvents \cup {key} THEN 1 ELSE 0)
        /\ pub.enable = published.enable /\ pub.disable = published.disable
    BY <1>p, <1>x, <2>1, ExceededTold
  <2>3. pub \in Published
    BY <1>p, <2>1, PublishType
  <2>4. budgetEvents' = budgetEvents \cup {key}
    BY <1>5 DEF ReserveRejected, key
  <2>5. \/ enabled' = EnabledAfterDisable(p) /\ published' = PublishDisable(pub, p)
        \/ enabled' = enabled /\ published' = pub
    BY <1>5 DEF ReserveRejected, key
  <2> HIDE DEF pub
  <2>6. \A q \in Plugins : pub.enable[q] = pub.disable[q] + (IF q \in enabled THEN 1 ELSE 0)
    BY <1>e, <2>2
  <2>7. CASE enabled' = EnabledAfterDisable(p) /\ published' = PublishDisable(pub, p)
    BY <2>2, <2>3, <2>4, <2>6, <2>7, DisableTold DEF EventsMatchState
  <2>8. CASE enabled' = enabled /\ published' = pub
    BY <2>2, <2>4, <2>6, <2>8 DEF EventsMatchState
  <2> QED
    BY <2>5, <2>7, <2>8
<1>6. ASSUME NEW r \in reservations, NEW a, SettleSpendTx(r, a)
      PROVE  EventsMatchState'
  <2>1. CASE SettleWithin(r, a)
    BY <1>0, <2>1 DEF SettleWithin, stateVars
  <2>2. CASE SettleOverrun(r, a)
    <3> DEFINE p == r.plugin
               K == CrossedBySettle(r)
               pub == PublishDisable(published, p)
    <3>1. p \in Plugins /\ K \in SUBSET Keys
      BY ReservationKeys DEF Reservation
    <3>2. /\ enabled' = EnabledAfterDisable(p) /\ budgetEvents' = budgetEvents \cup K
          /\ published' = PublishExceeded(pub, K)
      BY <2>2 DEF SettleOverrun
    <3> HIDE DEF p, K
    <3>3. pub \in Published
      BY <1>p, <3>1, PublishType
    <3>4. /\ \A q \in Plugins : pub.enable[q] =
                pub.disable[q] + (IF q \in EnabledAfterDisable(p) THEN 1 ELSE 0)
          /\ pub.exceeded = published.exceeded
      BY <1>p, <1>e, <3>1, DisableTold
    <3> HIDE DEF pub
    <3>5. /\ \A k \in Keys : PublishExceeded(pub, K).exceeded[k] =
                (IF k \in budgetEvents \cup K THEN 1 ELSE 0)
          /\ PublishExceeded(pub, K).enable = pub.enable
          /\ PublishExceeded(pub, K).disable = pub.disable
      BY <1>x, <3>1, <3>3, <3>4, ExceededTold
    <3> QED
      BY <3>2, <3>4, <3>5 DEF EventsMatchState
  <2> QED
    BY <1>6, <2>1, <2>2 DEF SettleSpendTx
<1>8. ASSUME NEW r \in reservations, ReleaseSpendTx(r)
      PROVE  EventsMatchState'
  BY <1>0, <1>8 DEF ReleaseSpendTx, stateVars
<1>9. ASSUME Crash \/ Serve \/ Tick \/ UNCHANGED vars
      PROVE  EventsMatchState'
  BY <1>0, <1>9 DEF Crash, Serve, Tick, vars, stateVars
<1>7. ASSUME NEW p \in Plugins, NEW b \in Budgets, SetBudget(p, b)
      PROVE  EventsMatchState'
  BY <1>0, <1>7 DEF SetBudget
<1>10. ASSUME NEW p \in Plugins, NEW m \in Amounts, ReserveAdmitted(p, m)
       PROVE  EventsMatchState'
  BY <1>0, <1>10 DEF ReserveAdmitted, stateVars
<1> QED
  BY <1>2, <1>3, <1>4, <1>5, <1>6, <1>7, <1>8, <1>9, <1>10
     DEF Next, ReserveSpendTx, Settle, SettleOrphan

-----------------------------------------------------------------------------
(* The ledger. *)

(* The entries of ledger L that were admitted in period k of a window. *)
EntriesOf(L, k) == {i \in DOMAIN L : L[i].plugin = k[1] /\ L[i].start[k[2]] = k[3]}

BilledIn(L, k) == Total([i \in EntriesOf(L, k) |-> L[i].bill])

(* Every outstanding reservation is an entry of the ledger that has not     *)
(* been billed, and no two share one: no bill is charged twice.             *)
EntriesInv ==
    /\ IsFiniteSet(DOMAIN ledger)
    /\ \A r, q \in reservations : r.id = q.id => r = q
    /\ \A r \in reservations :
          /\ r.id \in DOMAIN ledger
          /\ ledger[r.id].plugin = r.plugin
          /\ ledger[r.id].start = r.start
          /\ ledger[r.id].bill = 0

(* A new entry is not billed, so it changes no sum. *)
LEMMA BilledInsert ==
    ASSUME NEW L, NEW id, id \notin DOMAIN L, NEW e, e.bill = 0, NEW k
    PROVE  BilledIn([i \in DOMAIN L \cup {id} |-> IF i = id THEN e ELSE L[i]], k) = BilledIn(L, k)
<1> DEFINE M == [i \in DOMAIN L \cup {id} |-> IF i = id THEN e ELSE L[i]]
           f == [i \in EntriesOf(L, k) |-> L[i].bill]
           g == [i \in EntriesOf(M, k) |-> M[i].bill]
<1>1. \A i \in DOMAIN L : M[i] = L[i]
  OBVIOUS
<1>2. M[id].bill = 0 /\ DOMAIN M = DOMAIN L \cup {id}
  OBVIOUS
<1> HIDE DEF M
<1>3. EntriesOf(L, k) \subseteq EntriesOf(M, k) /\ EntriesOf(M, k) \subseteq EntriesOf(L, k) \cup {id}
  BY <1>1, <1>2 DEF EntriesOf
<1>4. \A i \in EntriesOf(L, k) : f[i] = g[i]
  BY <1>1, <1>3 DEF EntriesOf
<1>5. \A i \in EntriesOf(M, k) \ EntriesOf(L, k) : g[i] = 0
  BY <1>2, <1>3
<1>6. DOMAIN f = EntriesOf(L, k) /\ DOMAIN g = EntriesOf(M, k)
  OBVIOUS
<1> HIDE DEF f, g
<1>7. \A u \in Units(g) : u \in Units(f)
  <2> SUFFICES ASSUME NEW u \in Units(g) PROVE u \in Units(f)
    OBVIOUS
  <2>1. u \in (DOMAIN g) \X (1..MaxAmount) /\ u[2] <= g[u[1]]
    BY DEF Units
  <2>2. u[1] \in DOMAIN g /\ u[2] \in 1..MaxAmount
    BY <2>1
  <2>3. g[u[1]] # 0
    BY <2>1, <2>2
  <2>4. u[1] \in DOMAIN f
    BY <1>5, <1>6, <2>2, <2>3
  <2>5. u[2] <= f[u[1]]
    BY <1>4, <1>6, <2>1, <2>4
  <2> QED
    BY <2>1, <2>2, <2>4, <2>5 DEF Units
<1>8. \A u \in Units(f) : u \in Units(g)
  BY <1>3, <1>4, <1>6 DEF Units
<1>9. Units(f) = Units(g)
  BY <1>7, <1>8
<1> QED
  BY <1>9 DEF BilledIn, Total, M, f, g

(* Billing an entry that was not billed adds the bill to its periods. *)
LEMMA BilledCharge ==
    ASSUME NEW L, IsFiniteSet(DOMAIN L), NEW id \in DOMAIN L, L[id].bill = 0,
           NEW a \in 0..MaxAmount, NEW k, NEW M, DOMAIN M = DOMAIN L,
           M[id].bill = a, M[id].plugin = L[id].plugin, M[id].start = L[id].start,
           \A i \in (DOMAIN L) \ {id} : M[i] = L[i]
    PROVE  BilledIn(M, k) = BilledIn(L, k) + (IF id \in EntriesOf(L, k) THEN a ELSE 0)
<1> DEFINE E == EntriesOf(L, k)
           f == [i \in E |-> L[i].bill]
<1>1. EntriesOf(M, k) = E
  BY DEF EntriesOf
<1>2. IsFiniteSet(E)
  BY FS_Subset DEF EntriesOf
<1>3. BilledIn(L, k) = Total(f) /\ Total(f) \in Nat
  BY <1>2, TotalIsNat DEF BilledIn
<1>4. CASE id \notin E
  <2>1. \A i \in E : M[i] = L[i]
    BY <1>4 DEF EntriesOf
  <2>2. [i \in E |-> M[i].bill] = f
    BY <2>1
  <2>3. BilledIn(M, k) = Total(f)
    BY <1>1, <2>2 DEF BilledIn
  <2> HIDE DEF E, f
  <2>4. BilledIn(M, k) = BilledIn(L, k) + (IF id \in E THEN a ELSE 0)
    BY <1>3, <1>4, <2>3
  <2> QED
    BY <2>4 DEF E
<1>5. CASE id \in E
  <2> DEFINE F == E \ {id}
             h == [i \in F |-> L[i].bill]
  <2>1. IsFiniteSet(F) /\ id \notin F /\ F \cup {id} = E
    BY <1>2, <1>5, FS_RemoveElement
  <2>2. DOMAIN h = F
    OBVIOUS
  <2>3. f = [i \in F \cup {id} |-> IF i = id THEN 0 ELSE h[i]]
    BY <1>5, <2>1
  <2>4. [i \in E |-> M[i].bill] = [i \in F \cup {id} |-> IF i = id THEN a ELSE h[i]]
    BY <2>1 DEF EntriesOf
  <2>5. 0 \in 0..MaxAmount
    BY AmountAssumption
  <2> HIDE DEF F, h
  <2>6. Total([i \in F \cup {id} |-> IF i = id THEN 0 ELSE h[i]]) = Total(h) + 0
    BY <2>1, <2>2, <2>5, TotalExtend
  <2>7. Total([i \in F \cup {id} |-> IF i = id THEN a ELSE h[i]]) = Total(h) + a
    BY <2>1, <2>2, TotalExtend
  <2>8. Total(h) \in Nat
    BY <2>1, <2>2, TotalIsNat
  <2>9. BilledIn(M, k) = Total(h) + a
    BY <1>1, <2>4, <2>7 DEF BilledIn
  <2>10. Total(f) = Total(h)
    BY <2>3, <2>6, <2>8
  <2> QED
    BY <1>3, <1>5, <2>9, <2>10
<1> QED
  BY <1>4, <1>5

(* The statement of the property, in these terms. *)
LEMMA LedgerExactMeans == LedgerExact <=> \A k \in Keys : committed[k] = BilledIn(ledger, k)
BY DEF LedgerExact, BilledIn, EntriesOf

(* A key is one a reservation is charged to when its entry is of that period.*)
LEMMA EntryKey ==
    ASSUME TypeOK, EntriesInv, NEW r \in reservations, NEW k \in Keys
    PROVE  k \in KeysOf(r) <=> r.id \in EntriesOf(ledger, k)
<1>1. PICK p \in Plugins, w \in AllWindows, s \in Periods : k = <<p, w, s>>
  BY DEF Keys
<1>2. r \in Reservation
  BY DEF TypeOK
<1>3. k \in KeysOf(r) <=> (r.plugin = p /\ r.start[w] = s)
  BY <1>1, <1>2, PinnedKey
<1>4. r.id \in DOMAIN ledger /\ ledger[r.id].plugin = r.plugin /\ ledger[r.id].start = r.start
  BY DEF EntriesInv
<1> QED
  BY <1>1, <1>3, <1>4 DEF EntriesOf

(* Settling charges its bill once in each of its periods. *)
LEMMA SettleExact ==
    ASSUME TypeOK, EntriesInv, LedgerExact, NEW r \in reservations, NEW a \in 0..MaxAmount,
           SettleSpendTx(r, a)
    PROVE  EntriesInv' /\ LedgerExact' /\ ledger'[r.id].bill = a
<1>1. /\ reservations' = reservations \ {r}
      /\ committed' = [k \in Keys |-> IF k \in KeysOf(r) THEN committed[k] + a ELSE committed[k]]
      /\ ledger' = [ledger EXCEPT ![r.id].bill = a]
  BY DEF SettleSpendTx, SettleWithin, SettleOverrun, Charge
<1>2. ledger \in [DOMAIN ledger -> LedgerEntry] /\ committed \in [Keys -> Nat]
  BY DEF TypeOK
<1>3. r.id \in DOMAIN ledger /\ ledger[r.id].bill = 0 /\ IsFiniteSet(DOMAIN ledger)
  BY DEF EntriesInv
<1>4. /\ DOMAIN ledger' = DOMAIN ledger
      /\ \A i \in DOMAIN ledger \ {r.id} : ledger'[i] = ledger[i]
  BY <1>1, <1>2
<1>5. ledger'[r.id].bill = a
  BY <1>1, <1>2, <1>3 DEF LedgerEntry
<1>6. EntriesInv'
  <2>1. \A q \in reservations' : q \in reservations /\ q.id # r.id
    BY <1>1 DEF EntriesInv
  <2> QED
    BY <1>4, <2>1 DEF EntriesInv
<1>7. ASSUME NEW k \in Keys
      PROVE  committed'[k] = BilledIn(ledger, k) + (IF r.id \in EntriesOf(ledger, k) THEN a ELSE 0)
  <2>1. committed[k] = BilledIn(ledger, k) /\ committed[k] \in Nat
    BY <1>2, LedgerExactMeans
  <2>2. committed'[k] = IF k \in KeysOf(r) THEN committed[k] + a ELSE committed[k]
    BY <1>1
  <2> QED
    BY <2>1, <2>2, EntryKey
<1>8. \A k \in Keys : BilledIn(ledger', k) =
         BilledIn(ledger, k) + (IF r.id \in EntriesOf(ledger, k) THEN a ELSE 0)
  <2> DEFINE id == r.id
  <2>1. /\ IsFiniteSet(DOMAIN ledger) /\ id \in DOMAIN ledger /\ ledger[id].bill = 0
        /\ DOMAIN ledger' = DOMAIN ledger /\ ledger'[id].bill = a
        /\ \A i \in (DOMAIN ledger) \ {id} : ledger'[i] = ledger[i]
    BY <1>3, <1>4, <1>5
  <2>2. ledger'[id].plugin = ledger[id].plugin /\ ledger'[id].start = ledger[id].start
    BY <1>1, <1>2, <1>3 DEF LedgerEntry
  <2> HIDE DEF id
  <2>3. \A k \in Keys : BilledIn(ledger', k) =
           BilledIn(ledger, k) + (IF id \in EntriesOf(ledger, k) THEN a ELSE 0)
    BY <2>1, <2>2, BilledCharge
  <2> QED
    BY <2>3 DEF id
<1>9. LedgerExact'
  BY <1>7, <1>8 DEF LedgerExact, BilledIn, EntriesOf
<1> QED
  BY <1>5, <1>6, <1>9

(* Every step keeps the ledger exact. *)
LEMMA ExactStep ==
    ASSUME TypeOK, EntriesInv, LedgerExact, [Next]_vars
    PROVE  EntriesInv' /\ LedgerExact'
<1>a. Amounts \subseteq 0..MaxAmount
  BY AmountAssumption
<1>0. ASSUME UNCHANGED <<reservations, committed, ledger>>
      PROVE  EntriesInv' /\ LedgerExact'
  BY <1>0 DEF EntriesInv, LedgerExact
<1>1. ASSUME NEW p \in Plugins, NEW m \in Amounts, ReserveAdmitted(p, m)
      PROVE  EntriesInv' /\ LedgerExact'
  <2>1. PICK id \in ReservationIds \ DOMAIN ledger :
          /\ reservations' = reservations \cup
                {[id |-> id, plugin |-> p, maximum |-> m, start |-> period]}
          /\ ledger' = [i \in DOMAIN ledger \cup {id} |->
                IF i = id THEN [plugin |-> p, start |-> period, bill |-> 0]
                ELSE ledger[i]]
    BY <1>1 DEF ReserveAdmitted
  <2>2. DOMAIN ledger' = DOMAIN ledger \cup {id} /\ IsFiniteSet(DOMAIN ledger')
    BY <2>1, FS_AddElement DEF EntriesInv
  <2> DEFINE n == [id |-> id, plugin |-> p, maximum |-> m, start |-> period]
  <2>a. /\ ledger'[id].plugin = p /\ ledger'[id].start = period /\ ledger'[id].bill = 0
        /\ \A i \in DOMAIN ledger : ledger'[i] = ledger[i]
    BY <2>1
  <2>b. n.id = id /\ n.plugin = p /\ n.start = period /\ reservations' = reservations \cup {n}
    BY <2>1
  <2> HIDE DEF n
  <2>3. EntriesInv'
    <3>1. \A r \in reservations : r.id # id
      BY DEF EntriesInv
    <3>2. \A r, q \in reservations' : r.id = q.id => r = q
      BY <2>b, <3>1 DEF EntriesInv
    <3>3. \A r \in reservations' : /\ r.id \in DOMAIN ledger' /\ ledger'[r.id].plugin = r.plugin
                                   /\ ledger'[r.id].start = r.start /\ ledger'[r.id].bill = 0
      BY <2>2, <2>a, <2>b DEF EntriesInv
    <3> QED
      BY <2>2, <3>2, <3>3 DEF EntriesInv
  <2> DEFINE e == [plugin |-> p, start |-> period, bill |-> 0]
  <2>4. e.bill = 0
    OBVIOUS
  <2>5. \A k : BilledIn(ledger', k) = BilledIn(ledger, k)
    <3> HIDE DEF e
    <3>1. ledger' = [i \in DOMAIN ledger \cup {id} |-> IF i = id THEN e ELSE ledger[i]]
      BY <2>1 DEF e
    <3> QED
      BY <2>4, <3>1, BilledInsert
  <2>6. committed' = committed
    BY <1>1 DEF ReserveAdmitted
  <2>7. \A k \in Keys : committed'[k] = BilledIn(ledger', k)
    BY <2>5, <2>6, LedgerExactMeans
  <2>8. LedgerExact'
    BY <2>7 DEF LedgerExact, BilledIn, EntriesOf
  <2> QED
    BY <2>3, <2>8
<1>2. ASSUME NEW r \in reservations, NEW a \in Amounts, Settle(r, a)
      PROVE  EntriesInv' /\ LedgerExact'
  BY <1>2, <1>a, SettleExact DEF Settle
<1>3. ASSUME NEW r \in reservations, SettleOrphan(r)
      PROVE  EntriesInv' /\ LedgerExact'
  <2>1. r.maximum \in 0..MaxAmount
    BY DEF TypeOK, Reservation
  <2> QED
    BY <1>3, <2>1, SettleExact DEF SettleOrphan
<1>4. ASSUME NEW r \in reservations, ReleaseSpendTx(r)
      PROVE  EntriesInv' /\ LedgerExact'
  <2>1. reservations' \subseteq reservations /\ UNCHANGED <<committed, ledger>>
    BY <1>4 DEF ReleaseSpendTx, historyVars
  <2> QED
    BY <2>1 DEF EntriesInv, LedgerExact
<1>5. ASSUME NEW p \in Plugins,
             \/ \E auto \in BOOLEAN : Register(p, auto)
             \/ Enable(p)
             \/ Disable(p)
             \/ \E b \in Budgets : SetBudget(p, b)
             \/ \E m \in Amounts : ReserveRejected(p, m)
      PROVE  EntriesInv' /\ LedgerExact'
  BY <1>0, <1>5 DEF Register, Enable, Disable, SetBudget, ReserveRejected, historyVars
<1>6. CASE Crash \/ Serve \/ Tick \/ UNCHANGED vars
  BY <1>0, <1>6 DEF Crash, Serve, Tick, vars, historyVars
<1> QED
  BY <1>1, <1>2, <1>3, <1>4, <1>5, <1>6 DEF Next, ReserveSpendTx

(* All that PolicyHolds says of a state, and what it rests on. *)
GateInv ==
    TypeOK /\ AutomatedCapped /\ AccountingFailureCloses /\ EventsMatchState /\ EntriesInv /\ LedgerExact

(* A boot charges every orphan it takes at its maximum. *)
LEMMA OrphanStep ==
    ASSUME GateInv, [Next]_vars, NEW r \in reservations, phase = "boot", r \notin reservations'
    PROVE  ledger'[r.id].bill = r.maximum
<1> USE DEF GateInv
<1>1. ASSUME NEW q \in reservations, SettleOrphan(q)
      PROVE  ledger'[r.id].bill = r.maximum
  <2>1. q.maximum \in 0..MaxAmount
    BY DEF TypeOK, Reservation
  <2>2. ledger'[q.id].bill = q.maximum /\ reservations' = reservations \ {q}
    BY <1>1, <2>1, SettleExact DEF SettleOrphan, SettleSpendTx, SettleWithin, SettleOverrun, Charge
  <2> QED
    BY <2>2
<1>2. reservations \subseteq reservations' \/ \E q \in reservations : SettleOrphan(q)
  BY DEF Next, Register, Enable, Disable, SetBudget, ReserveSpendTx, ReserveAdmitted,
         ReserveRejected, Settle, ReleaseSpendTx, Crash, Serve, Tick, vars
<1> QED
  BY <1>1, <1>2

(* The gate keeps its books: whatever is registered, enabled, budgeted,     *)
(* admitted, settled late or lost in a crash, an automated plugin that is   *)
(* enabled is capped, one whose accounting failed is closed, the events     *)
(* tell the state, every bill is charged once in each window, in the period *)
(* it was admitted in, and orphans at their maximum.                        *)
THEOREM PolicyKeepsItsBooks == Spec => PolicyHolds
<1>1. Init => GateInv
  <2> SUFFICES ASSUME Init PROVE GateInv
    OBVIOUS
  <2>1. TypeOK
    BY TypeInit
  <2>2. AutomatedCapped /\ AccountingFailureCloses /\ EventsMatchState
    BY DEF Init, AutomatedCapped, AccountingFailureCloses, EventsMatchState
  <2>3. DOMAIN ledger = {} /\ reservations = {} /\ IsFiniteSet({})
    BY FS_EmptySet DEF Init
  <2>4. EntriesInv
    BY <2>3 DEF EntriesInv
  <2>5. \A k \in Keys : BilledIn(ledger, k) = 0
    <3> SUFFICES ASSUME NEW k \in Keys PROVE BilledIn(ledger, k) = 0
      OBVIOUS
    <3> DEFINE f == [i \in EntriesOf(ledger, k) |-> ledger[i].bill]
    <3>1. DOMAIN f = {}
      BY <2>3 DEF EntriesOf
    <3> HIDE DEF f
    <3>2. Units(f) = {}
      BY <3>1 DEF Units
    <3> QED
      BY <3>2, FS_EmptySet DEF BilledIn, Total, f
  <2>6. LedgerExact
    BY <2>5, LedgerExactMeans DEF Init
  <2> QED
    BY <2>1, <2>2, <2>4, <2>6 DEF GateInv
<1>2. GateInv /\ [Next]_vars => GateInv'
  BY TypeStep, ClosedStep, ToldStep, ExactStep DEF GateInv
<1> DEFINE Charged == \A r \in reservations : phase = "boot" /\ r \notin reservations' =>
                         ledger'[r.id].bill = r.maximum
<1>3. GateInv /\ [Next]_vars => [Charged]_vars
  BY OrphanStep
<1>4. GateInv => TypeOK /\ AutomatedCapped /\ AccountingFailureCloses /\ EventsMatchState /\ LedgerExact
  BY DEF GateInv
<1> QED
  BY <1>1, <1>2, <1>3, <1>4, PTL DEF Spec, PolicyHolds, OrphansChargedAtMaximum
=============================================================================
