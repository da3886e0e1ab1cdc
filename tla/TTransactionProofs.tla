---------------------------- MODULE TTransactionProofs ----------------------------
(* Theorems about TTransaction, for any number of workers, warehouses,      *)
(* items and transactions, and for floats of any number of bits.            *)
EXTENDS TTransaction, DataLemmas

-----------------------------------------------------------------------------
(* Rounding.                                                                *)

LEMMA LeastUnit ==
    ASSUME NEW n \in Nat
    PROVE  /\ Units(n) \subseteq Nat \ {0}
           /\ Min(Units(n)) \in Units(n)
           /\ \A u \in Units(n) : Min(Units(n)) <= u
<1> DEFINE K == 0 .. n \div Exact + 1
<1>1. Exact \in Nat \ {0}
  BY TTransactionAssumption
<1>2. n \div Exact \in Nat /\ n < (n \div Exact + 1) * Exact
  BY <1>1
<1>3. Units(n) \subseteq Nat \ {0}
  BY <1>2, PowerPositive DEF Units
<1>4. Units(n) # {}
  <2> DEFINE k == n \div Exact + 1
             u == 2^k
  <2>1. k \in K /\ k \in Nat
    BY <1>2
  <2>2. u \in Nat /\ k < u
    BY <2>1, PowerPositive, PowerGrows
  <2>3. k * Exact <= u * Exact
    <3> HIDE DEF k, u
    <3> QED
      BY <1>1, <2>1, <2>2
  <2>4. n <= u * Exact
    <3>1. n < k * Exact
      BY <1>2
    <3>2. k * Exact \in Nat /\ u * Exact \in Nat
      <4> HIDE DEF k, u
      <4> QED
        BY <1>1, <2>1, <2>2
    <3> HIDE DEF k, u
    <3> QED
      BY <2>3, <3>1, <3>2
  <2> QED
    BY <2>1, <2>4 DEF Units
<1>5. PICK u \in Units(n) : \A w \in Units(n) : u <= w
  <2>1. Units(n) \subseteq Nat
    BY <1>3
  <2> QED
    BY <1>4, <2>1, LeastNatural
<1> QED
  BY <1>3, <1>5 DEF Min

LEMMA PowerZero == 2^0 = 1
<1>1. SUBSET (1 .. 0) = {{}}
  OBVIOUS
<1> QED
  BY <1>1, PowerCounts, FS_Singleton

(* What RoundFloat does with the least unit: half of it, at most, is lost.  *)
LEMMA RoundType ==
    ASSUME NEW n \in Nat
    PROVE  /\ RoundFloat(n) \in Nat
           /\ 2 * RoundFloat(n) >= 2 * n - Min(Units(n))
<1> DEFINE unit == Min(Units(n))
           below == n \div unit
           rest == n % unit
           up == 2 * rest > unit \/ (2 * rest = unit /\ below % 2 = 1)
<1>1. unit \in Nat \ {0}
  BY LeastUnit
<1>2. RoundFloat(n) = IF up THEN (below + 1) * unit ELSE below * unit
  BY DEF RoundFloat
<1> HIDE DEF unit
<1>3. below \in Nat /\ rest \in 0 .. unit - 1 /\ n = below * unit + rest
  BY <1>1
<1> HIDE DEF below, rest
<1>4. /\ below * unit \in Nat /\ (below + 1) * unit = below * unit + unit
  BY <1>1, <1>3
<1>5. CASE up
  <2>1. RoundFloat(n) = below * unit + unit
    BY <1>2, <1>4, <1>5
  <2> QED
    BY <1>1, <1>3, <1>4, <2>1 DEF unit
<1>6. CASE ~up
  <2>1. 2 * rest <= unit
    BY <1>1, <1>3, <1>6
  <2>2. RoundFloat(n) = below * unit
    BY <1>2, <1>6
  <2> QED
    BY <1>1, <1>3, <1>4, <2>1, <2>2 DEF unit
<1> QED
  BY <1>5, <1>6

LEMMA RoundSmall ==
    ASSUME NEW n \in Nat, n <= Exact
    PROVE  RoundFloat(n) = n /\ Min(Units(n)) = 1
<1>1. Exact \in Nat \ {0} /\ n \div Exact + 1 \in Nat
  BY TTransactionAssumption
<1>2. 1 \in Units(n)
  <2>1. 0 \in 0 .. n \div Exact + 1 /\ n <= 1 * Exact
    BY <1>1
  <2>2. 1 \in {2^k : k \in 0 .. n \div Exact + 1}
    BY <2>1, PowerZero
  <2> QED
    BY <2>1, <2>2 DEF Units
<1>3. Min(Units(n)) = 1
  BY <1>2, LeastUnit
<1>4. n \div 1 = n /\ n % 1 = 0
  OBVIOUS
<1> QED
  BY <1>3, <1>4 DEF RoundFloat

(* A number that is not too large after it was rounded was not before.      *)
LEMMA RoundBelow ==
    ASSUME NEW n \in Nat, RoundFloat(n) < Exact
    PROVE  n < Exact /\ RoundFloat(n) = n
<1>1. Exact \in Nat \ {0}
  BY TTransactionAssumption
<1>2. CASE n <= Exact
  BY <1>1, <1>2, RoundSmall
<1>3. CASE n > Exact
  <2> DEFINE unit == Min(Units(n))
  <2>1. PICK k \in 0 .. n \div Exact + 1 : unit = 2^k /\ n <= unit * Exact
    BY LeastUnit DEF Units
  <2>2. k \in Nat /\ k # 0
    <3>1. ASSUME k = 0 PROVE unit = 1
      BY <2>1, <3>1, PowerZero
    <3>2. unit # 1
      <4> HIDE DEF unit
      <4> QED
        BY <1>1, <1>3, <2>1
    <3> QED
      BY <1>1, <3>1, <3>2
  <2> DEFINE half == 2^(k - 1)
  <2>3. half \in Nat \ {0} /\ unit = 2 * half
    <3>1. k - 1 \in Nat /\ (k - 1) + 1 = k
      BY <2>2
    <3> QED
      BY <2>1, <3>1, PowerPositive, PowerDoubles
  <2>4. half \notin Units(n)
    BY <2>3, LeastUnit
  <2>5. k - 1 \in 0 .. n \div Exact + 1
    BY <1>1, <2>1, <2>2
  <2>6. ~ (n <= half * Exact)
    BY <2>4, <2>5 DEF Units
  <2>7. RoundFloat(n) \in Nat /\ 2 * RoundFloat(n) >= 2 * n - unit
    BY RoundType
  <2> HIDE DEF half, unit
  <2>8. half * Exact = half * (Exact - 1) + half /\ half * (Exact - 1) >= Exact - 1
    BY <1>1, <2>3
  <2>9. RoundFloat(n) >= half * (Exact - 1) + 1
    BY <1>1, <2>3, <2>6, <2>7, <2>8
  <2> QED
    BY <1>1, <2>3, <2>7, <2>8, <2>9
<1> QED
  BY <1>1, <1>2, <1>3

LEMMA AddNaturals ==
    ASSUME NEW a \in Nat, NEW b \in Nat
    PROVE  /\ FloatAdd(a, b) \in Nat
           /\ a + b <= Exact => FloatAdd(a, b) = a + b
           /\ FloatAdd(a, b) < Exact => a + b < Exact /\ FloatAdd(a, b) = a + b
           /\ FloatAdd(-a, -b) = -FloatAdd(a, b)
<1>1. a + b \in Nat /\ FloatAdd(a, b) = RoundFloat(a + b)
  BY DEF FloatAdd
<1>2. FloatAdd(-a, -b) = -RoundFloat(a + b)
  <2>1. CASE a + b = 0
    <3>1. RoundFloat(0) = 0
      BY RoundSmall, TTransactionAssumption
    <3> QED
      BY <2>1, <3>1 DEF FloatAdd
  <2>2. CASE a + b # 0
    <3>1. ~ ((-a) + (-b) >= 0) /\ -((-a) + (-b)) = a + b
      BY <2>2
    <3> QED
      BY <3>1 DEF FloatAdd
  <2> QED
    BY <2>1, <2>2
<1> QED
  BY <1>1, <1>2, RoundType, RoundSmall, RoundBelow

-----------------------------------------------------------------------------
(* Rows: the name of its table is the first part of every key.              *)

LEMMA Tables ==
    /\ \A r \in WarehouseRows : r[1] = "warehouse" /\ r = <<"warehouse", r[2]>>
    /\ \A r \in DistrictRows : r[1] = "district" /\ r = <<"district", r[2], r[3]>>
    /\ \A r \in CustomerRows : r[1] = "customer" /\ r = <<"customer", r[2], r[3], r[4]>>
    /\ \A r \in StockRows : r[1] = "stock" /\ r = <<"stock", r[2], r[3]>>
BY DEF WarehouseRows, DistrictRows, CustomerRows, StockRows

LEMMA TableOf ==
    ASSUME NEW r \in Rows
    PROVE  /\ r[1] = "warehouse" <=> r \in WarehouseRows
           /\ r[1] = "district" <=> r \in DistrictRows
           /\ r[1] = "customer" <=> r \in CustomerRows
           /\ r[1] = "stock" <=> r \in StockRows
BY Tables DEF Rows

LEMMA FiniteRows ==
    /\ IsFiniteSet(WarehouseRows)
    /\ IsFiniteSet(DistrictRows)
    /\ IsFiniteSet(CustomerRows)
<1> DEFINE W == 0 .. w_cnt - 1
           D == 0 .. d_cnt - 1
           C == 0 .. c_cnt - 1
<1>1. IsFiniteSet(W) /\ IsFiniteSet(D) /\ IsFiniteSet(C)
  BY TTransactionAssumption, FS_Interval
<1>2. /\ WarehouseRows = {"warehouse"} \X W
      /\ DistrictRows = {"district"} \X W \X D
      /\ CustomerRows = {"customer"} \X W \X D \X C
  BY DEF WarehouseRows, DistrictRows, CustomerRows
<1> HIDE DEF W, D, C
<1>3. IsFiniteSet(WarehouseRows)
  <2> DEFINE key == [w \in W |-> <<"warehouse", w>>]
  <2>1. ASSUME NEW r \in WarehouseRows PROVE \E w \in W : key[w] = r
    BY <1>2
  <2>2. key \in Surjection(W, WarehouseRows)
    BY <1>2, <2>1 DEF Surjection
  <2> QED
    BY <1>1, <2>2, FS_Surjection
<1>4. IsFiniteSet(DistrictRows)
  <2> DEFINE P == W \X D
             key == [p \in P |-> <<"district", p[1], p[2]>>]
  <2>1. ASSUME NEW r \in DistrictRows PROVE \E p \in P : key[p] = r
    <3>1. <<r[2], r[3]>> \in P /\ key[<<r[2], r[3]>>] = r
      BY <1>2
    <3> QED
      BY <3>1
  <2>2. key \in [P -> DistrictRows]
    BY <1>2
  <2>3. key \in Surjection(P, DistrictRows)
    BY <2>1, <2>2 DEF Surjection
  <2> QED
    BY <1>1, <2>3, FS_Product, FS_Surjection
<1>5. IsFiniteSet(CustomerRows)
  <2> DEFINE Q == W \X D
             P == Q \X C
             key == [p \in P |-> <<"customer", p[1][1], p[1][2], p[2]>>]
  <2>1. ASSUME NEW r \in CustomerRows PROVE \E p \in P : key[p] = r
    <3>1. /\ <<<<r[2], r[3]>>, r[4]>> \in P
          /\ key[<<<<r[2], r[3]>>, r[4]>>] = r
      BY <1>2
    <3> QED
      BY <3>1
  <2>2. key \in [P -> CustomerRows]
    BY <1>2
  <2>3. key \in Surjection(P, CustomerRows)
    BY <2>1, <2>2 DEF Surjection
  <2>4. IsFiniteSet(P)
    <3>1. IsFiniteSet(Q)
      BY <1>1, FS_Product
    <3> HIDE DEF Q
    <3> QED
      BY <1>1, <3>1, FS_Product
  <2> QED
    BY <2>3, <2>4, FS_Surjection
<1> QED
  BY <1>3, <1>4, <1>5

-----------------------------------------------------------------------------
(* Queries.                                                                 *)

(* What a New-Order query asks for: at most 15 lines, of items that differ  *)
(* from each other unless one of them is the unused 0.                      *)
NewOrderShape(q) ==
    /\ q.D_ID \in Districts /\ q.C_ID \in Customers
    /\ DOMAIN q.INFO \subseteq 1 .. 15
    /\ \A i \in DOMAIN q.INFO : q.INFO[i].OL_QUANTITY \in 1 .. 10
    /\ (\A i \in DOMAIN q.INFO : q.INFO[i].OL_I_ID # 0) =>
          \A i, k \in DOMAIN q.INFO :
             i # k => q.INFO[i].OL_I_ID # q.INFO[k].OL_I_ID

LEMMA NewOrderQuery == ASSUME NEW q \in NewOrderQueries PROVE NewOrderShape(q)
<1>1. PICK w \in {0} \cup Warehouses : q \in makeNewOrderQuery(w)
  BY DEF NewOrderQueries
<1>2. PICK n \in LineCounts :
        \E d \in Districts, c \in Customers, s \in ItemLists(n),
           first \in {w} \cup Remote(w), quantity \in [1 .. n -> Quantities] :
              q = [W_ID |-> w, D_ID |-> d, C_ID |-> c,
                   INFO |-> [i \in 1 .. n |->
                               [OL_I_ID |-> s[i],
                                OL_SUPPLY_W_ID |-> IF i = 1 THEN first ELSE w,
                                OL_QUANTITY |-> quantity[i]]]]
  BY <1>1 DEF makeNewOrderQuery
<1> PICK d \in Districts, c \in Customers, s \in ItemLists(n),
         first \in {w} \cup Remote(w), quantity \in [1 .. n -> Quantities] :
            q = [W_ID |-> w, D_ID |-> d, C_ID |-> c,
                 INFO |-> [i \in 1 .. n |->
                             [OL_I_ID |-> s[i],
                              OL_SUPPLY_W_ID |-> IF i = 1 THEN first ELSE w,
                              OL_QUANTITY |-> quantity[i]]]]
  BY <1>2
<1>3. n \in 1 .. 15 /\ Quantities \subseteq 1 .. 10
  BY TQueryAssumption
<1>4. /\ DOMAIN q.INFO = 1 .. n
      /\ \A i \in 1 .. n : q.INFO[i].OL_I_ID = s[i] /\ q.INFO[i].OL_QUANTITY = quantity[i]
  OBVIOUS
<1>5. (\A i \in 1 .. n : s[i] # 0) => \A i, k \in 1 .. n : i # k => s[i] # s[k]
  <2>1. CASE s \in DistinctItems(n)
    BY <2>1 DEF DistinctItems
  <2>2. CASE \E l \in DistinctItems(n) : s = [l EXCEPT ![n] = 0]
    <3>1. n \in 1 .. n
      BY <1>3
    <3>2. s[n] = 0
      BY <2>2, <3>1 DEF DistinctItems
    <3> QED
      BY <3>1, <3>2
  <2> QED
    BY <2>1, <2>2 DEF ItemLists
<1>6. (\A i \in 1 .. n : q.INFO[i].OL_I_ID # 0) =>
         \A i, k \in 1 .. n : i # k => q.INFO[i].OL_I_ID # q.INFO[k].OL_I_ID
  BY <1>4, <1>5
<1>7. q.D_ID = d /\ q.C_ID = c /\ 1 .. n \subseteq 1 .. 15
  BY <1>3
<1>8. \A i \in 1 .. n : q.INFO[i].OL_QUANTITY \in 1 .. 10
  BY <1>3, <1>4
<1> HIDE DEF NewOrderShape
<1> QED
  BY ONLY <1>4, <1>6, <1>7, <1>8, d \in Districts, c \in Customers DEF NewOrderShape

LEMMA PaymentQuery ==
    ASSUME NEW q \in PaymentQueries
    PROVE  /\ q.D_ID \in Districts /\ q.C_ID \in Customers
           /\ q.H_AMOUNT \in Nat \ {0}
<1>1. PICK w \in {0} \cup Warehouses : q \in makePaymentQuery(w)
  BY DEF PaymentQueries
<1>2. q \in [W_ID : {w}, D_ID : Districts, C_ID : Customers,
            C_W_ID : {w} \cup Remote(w), C_D_ID : Districts, H_AMOUNT : Amounts]
  BY <1>1 DEF makePaymentQuery
<1> QED
  BY <1>2, TQueryAssumption

-----------------------------------------------------------------------------
(* Transactions.                                                            *)

Known(t) ==
    /\ t.W_ID \in Warehouses
    /\ \/ t.kind = "NewOrder" /\ t.query \in NewOrderQueries
       \/ t.kind = "Payment" /\ t.query \in PaymentQueries

LEMMA TransactionKnown ==
    ASSUME TypeOK, NEW x \in Workers, txn[x] # NoTxn
    PROVE  Known(txn[x])
<1>1. CASE txn[x] \in Transactions({"new", "aborted"})
  BY <1>1 DEF Transactions, Known
<1>2. CASE txn[x].at = "ready" /\ Asked(txn[x]) \in Transactions({"ready"})
  <2> DEFINE a == Asked(txn[x])
  <2>1. /\ a.W_ID \in Warehouses
        /\ \/ a.kind = "NewOrder" /\ a.query \in NewOrderQueries
           \/ a.kind = "Payment" /\ a.query \in PaymentQueries
    BY <1>2 DEF Transactions
  <2>2. a.W_ID = txn[x].W_ID /\ a.kind = txn[x].kind /\ a.query = txn[x].query
    BY DEF Asked
  <2> QED
    BY <2>1, <2>2 DEF Known
<1> QED
  BY <1>1, <1>2 DEF TypeOK

(* The rows a transaction searches for are those of its query.              *)
LEMMA SameQuery ==
    ASSUME NEW t, NEW u, t.kind = u.kind, t.W_ID = u.W_ID, t.query = u.query
    PROVE  /\ search_for_update(t) = search_for_update(u)
           /\ search_for_read(t) = search_for_read(u)
           /\ Rollback(t) = Rollback(u)
<1>1. Lines(t) = Lines(u) /\ warehouse(t) = warehouse(u)
      /\ district(t) = district(u) /\ customer(t) = customer(u)
  BY DEF Lines, warehouse, district, customer
<1> QED
  BY <1>1 DEF search_for_update, search_for_read, Rollback

LEMMA RowsFound ==
    ASSUME NEW t, Known(t), search_for_update(t) \cup search_for_read(t) \subseteq Rows
    PROVE  /\ warehouse(t) \in WarehouseRows
           /\ district(t) \in DistrictRows
           /\ customer(t) \in CustomerRows
           /\ t.kind = "NewOrder" =>
                 \A i \in DOMAIN t.query.INFO : stock(t.query.INFO[i]) \in StockRows
<1>1. warehouse(t) \in WarehouseRows /\ district(t) \in DistrictRows
  <2>1. warehouse(t) \in Rows /\ district(t) \in Rows
    BY DEF Known, search_for_update, search_for_read
  <2>2. warehouse(t)[1] = "warehouse" /\ district(t)[1] = "district"
    BY DEF warehouse, district
  <2> QED
    BY <2>1, <2>2, TableOf
<1>2. customer(t) \in CustomerRows
  <2>1. customer(t) \in Rows
    BY DEF search_for_update, search_for_read
  <2>2. customer(t)[1] = "customer"
    BY DEF customer
  <2> QED
    BY <2>1, <2>2, TableOf
<1>3. ASSUME t.kind = "NewOrder", NEW i \in DOMAIN t.query.INFO
      PROVE  stock(t.query.INFO[i]) \in StockRows
  <2>1. stock(t.query.INFO[i]) \in Rows
    BY <1>3 DEF search_for_update, Lines
  <2>2. stock(t.query.INFO[i])[1] = "stock"
    BY DEF stock
  <2> QED
    BY <2>1, <2>2, TableOf
<1> QED
  BY <1>1, <1>2, <1>3

(* No two lines of an order that is not rolled back are of the same row.    *)
LEMMA OneLine ==
    ASSUME NEW t, Known(t), t.kind = "NewOrder", ~Rollback(t),
           NEW i \in DOMAIN t.query.INFO
    PROVE  /\ \A k \in DOMAIN t.query.INFO :
                 stock(t.query.INFO[k]) = stock(t.query.INFO[i]) => k = i
           /\ LastLine(t, stock(t.query.INFO[i])) = i
<1>1. NewOrderShape(t.query)
  BY NewOrderQuery DEF Known
<1>2. \A k \in DOMAIN t.query.INFO : t.query.INFO[k].OL_I_ID # 0
  BY DEF Rollback, Lines
<1>3. ASSUME NEW k \in DOMAIN t.query.INFO,
             stock(t.query.INFO[k]) = stock(t.query.INFO[i])
      PROVE  k = i
  <2>1. t.query.INFO[k].OL_I_ID = t.query.INFO[i].OL_I_ID
    BY <1>3 DEF stock
  <2> QED
    BY <1>1, <1>2, <2>1 DEF NewOrderShape
<1>4. i <= i
  BY <1>1 DEF NewOrderShape
<1> QED
  BY <1>3, <1>4 DEF LastLine

-----------------------------------------------------------------------------
(* What a commit does to the rows of each table.  A transaction that is     *)
(* ready has seen the rows as they are.                                     *)

LEMMA ReadyTransaction ==
    ASSUME TInv, NEW x \in Workers, txn[x] # NoTxn, txn[x].at = "ready"
    PROVE  /\ Known(txn[x])
           /\ ~Rollback(txn[x])
           /\ search_for_update(txn[x]) \cup search_for_read(txn[x]) \subseteq Rows
           /\ \A r \in search_for_update(txn[x]) : txn[x].seen[r] = db[r]
BY TransactionKnown DEF TInv, SeenIsCurrent

LEMMA CommitWarehouse ==
    ASSUME TInv, NEW x \in Workers, Commit(x), NEW r \in WarehouseRows
    PROVE  db'[r] = IF txn[x].kind = "Payment" /\ r = warehouse(txn[x])
                    THEN Receives(db[r], txn[x].query.H_AMOUNT) ELSE db[r]
<1> DEFINE t == txn[x]
<1>1. /\ Known(t) /\ ~Rollback(t)
      /\ search_for_update(t) \cup search_for_read(t) \subseteq Rows
      /\ \A k \in search_for_update(t) : t.seen[k] = db[k]
  BY ReadyTransaction DEF Commit
<1>2. /\ r \in Rows /\ r[1] = "warehouse"
      /\ db'[r] = IF r \in search_for_update(t) THEN Updates(t)[r] ELSE db[r]
  BY Tables DEF Commit, Rows
<1> HIDE DEF t
<1>3. /\ district(t)[1] = "district" /\ customer(t)[1] = "customer"
      /\ \A line : stock(line)[1] = "stock"
  BY DEF district, customer, stock
<1>4. CASE t.kind = "NewOrder"
  <2>1. r \notin search_for_update(t)
    BY <1>2, <1>3, <1>4 DEF search_for_update
  <2> QED
    BY <1>2, <1>4, <2>1 DEF t
<1>5. CASE t.kind = "Payment"
  <2>1. r \in search_for_update(t) <=> r = warehouse(t)
    BY <1>2, <1>3, <1>5 DEF search_for_update
  <2>2. r = warehouse(t) => Updates(t)[r] = Receives(t.seen[r], t.query.H_AMOUNT)
    BY <1>2, <1>3, <1>5, <2>1 DEF Updates, PaymentUpdates
  <2> QED
    BY <1>1, <1>2, <1>5, <2>1, <2>2 DEF t
<1> QED
  BY <1>1, <1>4, <1>5 DEF Known

LEMMA CommitDistrict ==
    ASSUME TInv, NEW x \in Workers, Commit(x), NEW r \in DistrictRows
    PROVE  db'[r] = IF r # district(txn[x]) THEN db[r]
                    ELSE IF txn[x].kind = "NewOrder"
                         THEN [db[r] EXCEPT !.D_NEXT_O_ID = @ + 1]
                         ELSE Collects(db[r], txn[x].query.H_AMOUNT)
<1> DEFINE t == txn[x]
<1>1. /\ Known(t) /\ ~Rollback(t)
      /\ search_for_update(t) \cup search_for_read(t) \subseteq Rows
      /\ \A k \in search_for_update(t) : t.seen[k] = db[k]
  BY ReadyTransaction DEF Commit
<1>2. /\ r \in Rows /\ r[1] = "district"
      /\ db'[r] = IF r \in search_for_update(t) THEN Updates(t)[r] ELSE db[r]
  BY Tables DEF Commit, Rows
<1> HIDE DEF t
<1>3. /\ warehouse(t)[1] = "warehouse" /\ customer(t)[1] = "customer"
      /\ \A line : stock(line)[1] = "stock"
  BY DEF warehouse, customer, stock
<1>4. CASE t.kind = "NewOrder"
  <2>1. r \in search_for_update(t) <=> r = district(t)
    BY <1>2, <1>3, <1>4 DEF search_for_update
  <2>2. r = district(t) => Updates(t)[r] = [t.seen[r] EXCEPT !.D_NEXT_O_ID = @ + 1]
    BY <1>4, <2>1 DEF Updates, NewOrderUpdates
  <2> QED
    BY <1>1, <1>2, <1>4, <2>1, <2>2 DEF t
<1>5. CASE t.kind = "Payment"
  <2>1. r \in search_for_update(t) <=> r = district(t)
    BY <1>2, <1>3, <1>5 DEF search_for_update
  <2>2. r = district(t) => Updates(t)[r] = Collects(t.seen[r], t.query.H_AMOUNT)
    BY <1>2, <1>3, <1>5, <2>1 DEF Updates, PaymentUpdates
  <2> QED
    BY <1>1, <1>2, <1>5, <2>1, <2>2 DEF t
<1> QED
  BY <1>1, <1>4, <1>5 DEF Known

LEMMA CommitCustomer ==
    ASSUME TInv, NEW x \in Workers, Commit(x), NEW r \in CustomerRows
    PROVE  db'[r] = IF txn[x].kind = "Payment" /\ r = customer(txn[x])
                    THEN Pays(txn[x], db[r]) ELSE db[r]
<1> DEFINE t == txn[x]
<1>1. /\ Known(t) /\ ~Rollback(t)
      /\ search_for_update(t) \cup search_for_read(t) \subseteq Rows
      /\ \A k \in search_for_update(t) : t.seen[k] = db[k]
  BY ReadyTransaction DEF Commit
<1>2. /\ r \in Rows /\ r[1] = "customer"
      /\ db'[r] = IF r \in search_for_update(t) THEN Updates(t)[r] ELSE db[r]
  BY Tables DEF Commit, Rows
<1> HIDE DEF t
<1>3. /\ warehouse(t)[1] = "warehouse" /\ district(t)[1] = "district"
      /\ \A line : stock(line)[1] = "stock"
  BY DEF warehouse, district, stock
<1>4. CASE t.kind = "NewOrder"
  <2>1. r \notin search_for_update(t)
    BY <1>2, <1>3, <1>4 DEF search_for_update
  <2> QED
    BY <1>2, <1>4, <2>1 DEF t
<1>5. CASE t.kind = "Payment"
  <2>1. r \in search_for_update(t) <=> r = customer(t)
    BY <1>2, <1>3, <1>5 DEF search_for_update
  <2>2. r = customer(t) => Updates(t)[r] = Pays(t, t.seen[r])
    BY <1>2, <1>3, <1>5, <2>1 DEF Updates, PaymentUpdates
  <2> QED
    BY <1>1, <1>2, <1>5, <2>1, <2>2 DEF t
<1> QED
  BY <1>1, <1>4, <1>5 DEF Known

LEMMA CommitStock ==
    ASSUME TInv, NEW x \in Workers, Commit(x), NEW r \in StockRows
    PROVE  /\ \A i \in DOMAIN txn[x].query.INFO :
                 txn[x].kind = "NewOrder" /\ stock(txn[x].query.INFO[i]) = r
                 => db'[r] = OrderLine(db[r], txn[x].query.INFO[i], txn[x].W_ID)
           /\ (\A i \in DOMAIN txn[x].query.INFO :
                 ~ (txn[x].kind = "NewOrder" /\ stock(txn[x].query.INFO[i]) = r))
              => db'[r] = db[r]
<1> DEFINE t == txn[x]
<1>1. /\ Known(t) /\ ~Rollback(t)
      /\ search_for_update(t) \cup search_for_read(t) \subseteq Rows
      /\ \A k \in search_for_update(t) : t.seen[k] = db[k]
  BY ReadyTransaction DEF Commit
<1>2. /\ r \in Rows /\ r[1] = "stock"
      /\ db'[r] = IF r \in search_for_update(t) THEN Updates(t)[r] ELSE db[r]
  BY Tables DEF Commit, Rows
<1> HIDE DEF t
<1>3. /\ warehouse(t)[1] = "warehouse" /\ district(t)[1] = "district"
      /\ customer(t)[1] = "customer"
  BY DEF warehouse, district, customer
<1>4. ASSUME t.kind = "NewOrder", NEW i \in DOMAIN t.query.INFO, stock(t.query.INFO[i]) = r
      PROVE  db'[r] = OrderLine(db[r], t.query.INFO[i], t.W_ID)
  <2>1. r \in search_for_update(t)
    BY <1>4 DEF search_for_update, Lines
  <2>2. LastLine(t, r) = i
    BY <1>1, <1>4, OneLine
  <2>3. Updates(t)[r] = OrderLine(t.seen[r], t.query.INFO[i], t.W_ID)
    BY <1>2, <1>3, <1>4, <2>1, <2>2 DEF Updates, NewOrderUpdates
  <2> QED
    BY <1>1, <1>2, <2>1, <2>3
<1>5. ASSUME \A i \in DOMAIN t.query.INFO :
               ~ (t.kind = "NewOrder" /\ stock(t.query.INFO[i]) = r)
      PROVE  db'[r] = db[r]
  <2>1. CASE t.kind = "NewOrder"
    <3>1. r \notin {stock(line) : line \in Lines(t)}
      BY <1>5, <2>1 DEF Lines
    <3> QED
      BY <1>2, <1>3, <2>1, <3>1 DEF search_for_update
  <2>2. CASE t.kind = "Payment"
    BY <1>2, <1>3, <2>2 DEF search_for_update
  <2> QED
    BY <1>1, <2>1, <2>2 DEF Known
<1> QED
  BY <1>4, <1>5 DEF t

-----------------------------------------------------------------------------
(* Types, and what a transaction that is ready has seen.                    *)

LEMMA AddIntegers == ASSUME NEW a \in Int, NEW b \in Int PROVE FloatAdd(a, b) \in Int
<1>1. CASE a + b >= 0
  BY <1>1, RoundType DEF FloatAdd
<1>2. CASE ~ (a + b >= 0)
  <2>1. -(a + b) \in Nat
    BY <1>2
  <2> QED
    BY <1>2, <2>1, RoundType DEF FloatAdd
<1> QED
  BY <1>1, <1>2

(* A type invariant of the rows alone.                                      *)
RowsTyped ==
    /\ \A r \in WarehouseRows : db[r] \in [W_YTD : Nat]
    /\ \A r \in DistrictRows : db[r] \in [D_YTD : Nat, D_NEXT_O_ID : Nat]
    /\ \A r \in CustomerRows :
          db[r] \in [C_BALANCE : Int, C_YTD_PAYMENT : Nat, C_PAYMENT_CNT : Nat]
    /\ \A r \in StockRows :
          db[r] \in [S_QUANTITY : Nat, S_YTD : Nat, S_ORDER_CNT : Nat, S_REMOTE_CNT : Nat]

LEMMA CommitRowsTyped ==
    ASSUME TInv, NEW x \in Workers, Commit(x)
    PROVE  RowsTyped'
<1> DEFINE t == txn[x]
           amount == t.query.H_AMOUNT
<1>1. /\ Known(t) /\ ~Rollback(t)
      /\ search_for_update(t) \cup search_for_read(t) \subseteq Rows
  BY ReadyTransaction DEF Commit
<1>2. t.kind # "NewOrder" => t.kind = "Payment" /\ amount \in Nat
  BY <1>1, PaymentQuery DEF Known
<1>3. RowsTyped
  BY DEF RowsTyped, TInv, TypeOK
<1>4. ASSUME NEW r \in WarehouseRows PROVE db'[r] \in [W_YTD : Nat]
  <2>1. db[r] \in [W_YTD : Nat]
    BY <1>3 DEF RowsTyped
  <2>2. t.kind = "Payment" => FloatAdd(db[r].W_YTD, amount) \in Nat
    BY <1>2, <2>1, AddNaturals
  <2> QED
    BY <2>1, <2>2, CommitWarehouse DEF Receives
<1>5. ASSUME NEW r \in DistrictRows PROVE db'[r] \in [D_YTD : Nat, D_NEXT_O_ID : Nat]
  <2>1. db[r] \in [D_YTD : Nat, D_NEXT_O_ID : Nat]
    BY <1>3 DEF RowsTyped
  <2>2. t.kind # "NewOrder" => FloatAdd(db[r].D_YTD, amount) \in Nat
    BY <1>2, <2>1, AddNaturals
  <2>3. /\ [db[r] EXCEPT !.D_NEXT_O_ID = @ + 1] \in [D_YTD : Nat, D_NEXT_O_ID : Nat]
        /\ t.kind # "NewOrder" => Collects(db[r], amount) \in [D_YTD : Nat, D_NEXT_O_ID : Nat]
    BY <2>1, <2>2 DEF Collects
  <2> QED
    BY <2>1, <2>3, CommitDistrict
<1>6. ASSUME NEW r \in CustomerRows
      PROVE  db'[r] \in [C_BALANCE : Int, C_YTD_PAYMENT : Nat, C_PAYMENT_CNT : Nat]
  <2>1. db[r] \in [C_BALANCE : Int, C_YTD_PAYMENT : Nat, C_PAYMENT_CNT : Nat]
    BY <1>3 DEF RowsTyped
  <2>2. ASSUME t.kind = "Payment"
        PROVE  Pays(t, db[r])
                 \in [C_BALANCE : Int, C_YTD_PAYMENT : Nat, C_PAYMENT_CNT : Nat]
    <3>1. amount \in Nat /\ -amount \in Int
      BY <1>2, <2>2
    <3>2. /\ FloatAdd(db[r].C_YTD_PAYMENT, amount) \in Nat
          /\ FloatAdd(db[r].C_BALANCE, -amount) \in Int
      BY <2>1, <3>1, AddNaturals, AddIntegers
    <3> QED
      BY <2>1, <3>2 DEF Pays
  <2> QED
    BY <2>1, <2>2, CommitCustomer
<1>7. ASSUME NEW r \in StockRows
      PROVE  db'[r] \in [S_QUANTITY : Nat, S_YTD : Nat, S_ORDER_CNT : Nat, S_REMOTE_CNT : Nat]
  <2>1. db[r] \in [S_QUANTITY : Nat, S_YTD : Nat, S_ORDER_CNT : Nat, S_REMOTE_CNT : Nat]
    BY <1>3 DEF RowsTyped
  <2>2. ASSUME t.kind = "NewOrder", NEW i \in DOMAIN t.query.INFO
        PROVE  OrderLine(db[r], t.query.INFO[i], t.W_ID)
                 \in [S_QUANTITY : Nat, S_YTD : Nat, S_ORDER_CNT : Nat, S_REMOTE_CNT : Nat]
    <3> DEFINE n == t.query.INFO[i].OL_QUANTITY
    <3>1. n \in 1 .. 10
      BY <1>1, <2>2, NewOrderQuery DEF Known, NewOrderShape
    <3>2. TakeStock(db[r].S_QUANTITY, n) \in Nat
      <4> HIDE DEF n
      <4> QED
        BY <2>1, <3>1 DEF TakeStock
    <3>3. FloatAdd(db[r].S_YTD, n) \in Nat
      <4>1. n \in Nat /\ db[r].S_YTD \in Nat
        BY <2>1, <3>1
      <4> HIDE DEF n
      <4> QED
        BY <4>1, AddNaturals
    <3> QED
      BY <2>1, <3>2, <3>3 DEF OrderLine
  <2>3. CASE \E i \in DOMAIN t.query.INFO :
                t.kind = "NewOrder" /\ stock(t.query.INFO[i]) = r
    BY <2>2, <2>3, CommitStock
  <2>4. CASE \A i \in DOMAIN t.query.INFO :
                ~ (t.kind = "NewOrder" /\ stock(t.query.INFO[i]) = r)
    BY <2>1, <2>4, CommitStock
  <2> QED
    BY <2>3, <2>4
<1> QED
  BY <1>4, <1>5, <1>6, <1>7 DEF RowsTyped

LEMMA InitRows ==
    ASSUME Init
    PROVE  /\ DOMAIN db = Rows
           /\ \A r \in WarehouseRows : db[r] = [W_YTD |-> w_ytd]
           /\ \A r \in DistrictRows : db[r] = [D_YTD |-> w_ytd, D_NEXT_O_ID |-> w_ytd + 1]
           /\ \A r \in CustomerRows :
                 db[r] = [C_BALANCE |-> -10, C_YTD_PAYMENT |-> 10, C_PAYMENT_CNT |-> 1]
           /\ \A r \in StockRows :
                 db[r] = [S_QUANTITY |-> InitialStock[r], S_YTD |-> 0,
                          S_ORDER_CNT |-> 0, S_REMOTE_CNT |-> 0]
<1>1. DOMAIN db = Rows /\ \A r \in Rows : db[r] = InitialRow(r)
  BY DEF Init
<1>2. ASSUME NEW r \in WarehouseRows PROVE db[r] = [W_YTD |-> w_ytd]
  <2>1. r \in Rows /\ r[1] = "warehouse"
    BY Tables DEF Rows
  <2> QED
    BY <1>1, <2>1 DEF InitialRow, InitialWarehouse
<1>3. ASSUME NEW r \in DistrictRows
      PROVE  db[r] = [D_YTD |-> w_ytd, D_NEXT_O_ID |-> w_ytd + 1]
  <2>1. r \in Rows /\ r[1] = "district"
    BY Tables DEF Rows
  <2> QED
    BY <1>1, <2>1 DEF InitialRow, InitialDistrict
<1>4. ASSUME NEW r \in CustomerRows
      PROVE  db[r] = [C_BALANCE |-> -10, C_YTD_PAYMENT |-> 10, C_PAYMENT_CNT |-> 1]
  <2>1. r \in Rows /\ r[1] = "customer"
    BY Tables DEF Rows
  <2> QED
    BY <1>1, <2>1 DEF InitialRow, InitialCustomer
<1>5. ASSUME NEW r \in StockRows
      PROVE  db[r] = [S_QUANTITY |-> InitialStock[r], S_YTD |-> 0,
                      S_ORDER_CNT |-> 0, S_REMOTE_CNT |-> 0]
  <2>1. r \in Rows /\ r[1] = "stock"
    BY Tables DEF Rows
  <2> QED
    BY <1>1, <2>1 DEF InitialRow, InitialStockRow
<1> QED
  BY <1>1, <1>2, <1>3, <1>4, <1>5

LEMMA InitRowsTyped == Init => RowsTyped /\ DOMAIN db = Rows
<1> SUFFICES ASSUME Init PROVE RowsTyped /\ DOMAIN db = Rows
  OBVIOUS
<1>1. w_ytd \in Nat /\ \A r \in StockRows : InitialStock[r] \in Nat
  BY TTransactionAssumption, StockAssumption
<1>2. ASSUME NEW r \in WarehouseRows PROVE db[r] \in [W_YTD : Nat]
  BY <1>1, InitRows
<1>3. ASSUME NEW r \in DistrictRows PROVE db[r] \in [D_YTD : Nat, D_NEXT_O_ID : Nat]
  BY <1>1, InitRows
<1>4. ASSUME NEW r \in CustomerRows
      PROVE  db[r] \in [C_BALANCE : Int, C_YTD_PAYMENT : Nat, C_PAYMENT_CNT : Nat]
  BY InitRows
<1>5. ASSUME NEW r \in StockRows
      PROVE  db[r] \in [S_QUANTITY : Nat, S_YTD : Nat, S_ORDER_CNT : Nat, S_REMOTE_CNT : Nat]
  <2>1. db[r] = [S_QUANTITY |-> InitialStock[r], S_YTD |-> 0,
                 S_ORDER_CNT |-> 0, S_REMOTE_CNT |-> 0]
    BY InitRows
  <2> QED
    BY <1>1, <2>1
<1>6. DOMAIN db = Rows
  BY DEF Init
<1> QED
  BY <1>2, <1>3, <1>4, <1>5, <1>6 DEF RowsTyped

LEMMA InitTInv == Init => TInv
<1> SUFFICES ASSUME Init PROVE TInv
  OBVIOUS
<1>1. TypeOK
  <2>1. RowsTyped /\ DOMAIN db = Rows
    BY InitRowsTyped
  <2>2. /\ DOMAIN txn = Workers /\ \A x \in Workers : txn[x] = NoTxn
        /\ created \in 0 .. MaxTxns /\ IsFiniteSet(orders) /\ uncharged \in Nat
    BY TTransactionAssumption, FS_EmptySet DEF Init
  <2> QED
    BY <2>1, <2>2 DEF RowsTyped, TypeOK
<1>2. \A x \in Workers : txn[x] = NoTxn
  BY DEF Init
<1>3. \A x \in Workers : Kept(x).update = {}
  BY <1>2 DEF Kept
<1> QED
  BY <1>1, <1>2, <1>3 DEF TInv, SeenIsCurrent, ReadyApart

(* Steps that leave the rows alone, and leave their transaction not ready.  *)
LEMMA NotReadyStep ==
    ASSUME TInv, NEW x \in Workers, NEW u, txn' = [txn EXCEPT ![x] = u],
           u = NoTxn \/ u \in Transactions({"new", "aborted"}),
           created' \in 0 .. MaxTxns, UNCHANGED <<db, orders, uncharged>>
    PROVE  TInv'
<1>1. u = NoTxn \/ u.at # "ready"
  BY DEF Transactions
<1>2. DOMAIN txn = Workers /\ txn'[x] = u /\ \A y \in Workers \ {x} : txn'[y] = txn[y]
  BY DEF TInv, TypeOK
<1>3. TypeOK'
  BY <1>2 DEF TInv, TypeOK
<1>4. SeenIsCurrent'
  BY <1>1, <1>2 DEF TInv, SeenIsCurrent
<1>5. ReadyApart'
  <2>1. ASSUME NEW y \in Workers
        PROVE  Kept(y)' = Kept(y) \/ (Kept(y)'.update = {} /\ Kept(y)'.read = {})
    BY <1>1, <1>2 DEF Kept
  <2> QED
    BY <2>1 DEF TInv, ReadyApart
<1> QED
  BY <1>3, <1>4, <1>5 DEF TInv

LEMMA ReadyStep == ASSUME TInv, NEW x \in Workers, ExecuteReady(x) PROVE TInv'
<1> DEFINE t == txn[x]
           Ready(phase) ==
             [at |-> "ready", kind |-> t.kind, W_ID |-> t.W_ID, query |-> t.query,
              execution_phase |-> phase,
              seen |-> [r \in search_for_update(t) |-> db[r]]]
<1> PICK phase \in BOOLEAN : txn' = [txn EXCEPT ![x] = Ready(phase)]
  BY DEF ExecuteReady, Phases
<1> DEFINE u == Ready(phase)
<1>1. /\ t # NoTxn /\ t.at = "new" /\ ~Rollback(t) /\ ~Conflict(x)
      /\ search_for_update(t) \cup search_for_read(t) \subseteq Rows
      /\ txn' = [txn EXCEPT ![x] = u] /\ UNCHANGED <<db, created, orders, uncharged>>
  BY DEF ExecuteReady
<1>2. /\ DOMAIN txn = Workers /\ txn'[x] = u
      /\ \A y \in Workers \ {x} : txn'[y] = txn[y]
  BY <1>1 DEF TInv, TypeOK
<1>3. /\ search_for_update(u) = search_for_update(t)
      /\ search_for_read(u) = search_for_read(t)
      /\ ~Rollback(u)
  BY <1>1, SameQuery
<1>4. u.at = "ready" /\ u.execution_phase \in BOOLEAN /\ u.seen = [r \in search_for_update(t) |-> db[r]]
  OBVIOUS
<1>5. Asked(u) \in Transactions({"ready"})
  <2>1. t \in Transactions({"new", "aborted"})
    BY <1>1 DEF TInv, TypeOK
  <2> QED
    BY <2>1 DEF Transactions, Asked
<1> HIDE DEF t, u
<1>6. TypeOK'
  BY <1>1, <1>2, <1>4, <1>5 DEF TInv, TypeOK
<1>7. SeenIsCurrent'
  BY <1>1, <1>2, <1>3, <1>4 DEF TInv, SeenIsCurrent
<1>8. ReadyApart'
  <2>1. \A y \in Workers \ {x} : Kept(y)' = Kept(y)
    BY <1>2 DEF Kept
  <2>2. \/ Kept(x)' = [update |-> search_for_update(t), read |-> search_for_read(t)]
        \/ Kept(x)' = [update |-> {}, read |-> {}]
    BY <1>2, <1>3 DEF Kept
  <2>3. ASSUME NEW y \in Workers \ {x}
        PROVE  /\ search_for_update(t) \cap (Kept(y).update \cup Kept(y).read) = {}
               /\ search_for_read(t) \cap Kept(y).update = {}
    BY <1>1 DEF Conflict, t
  <2>4. ASSUME NEW y \in Workers, NEW z \in Workers, y # z
        PROVE  Kept(y)'.update \cap (Kept(z)'.update \cup Kept(z)'.read) = {}
    <3>1. CASE y = x
      BY <2>1, <2>2, <2>3, <2>4, <3>1
    <3>2. CASE z = x
      BY <2>1, <2>2, <2>3, <2>4, <3>2
    <3>3. CASE y # x /\ z # x
      BY <2>1, <2>4, <3>3 DEF TInv, ReadyApart
    <3> QED
      BY <3>1, <3>2, <3>3
  <2> QED
    BY <2>4 DEF ReadyApart
<1> QED
  BY <1>6, <1>7, <1>8 DEF TInv

(* Another transaction that is ready keeps rows the commit does not touch.  *)
LEMMA CommitStep == ASSUME TInv, NEW x \in Workers, Commit(x) PROVE TInv'
<1> DEFINE t == txn[x]
<1>1. /\ t # NoTxn /\ t.at = "ready"
      /\ db' = [r \in Rows |-> IF r \in search_for_update(t) THEN Updates(t)[r] ELSE db[r]]
      /\ txn' = [txn EXCEPT ![x] = NoTxn] /\ created' = created
      /\ uncharged' = uncharged + IF t.kind = "Payment" /\ ~t.execution_phase
                                  THEN t.query.H_AMOUNT ELSE 0
      /\ orders' = orders \cup IF t.kind = "NewOrder" THEN {Order(t, t.seen)} ELSE {}
  BY DEF Commit
<1>2. /\ DOMAIN txn = Workers /\ txn'[x] = NoTxn
      /\ \A y \in Workers \ {x} : txn'[y] = txn[y]
  BY <1>1 DEF TInv, TypeOK
<1> HIDE DEF t
<1>3. TypeOK'
  <2>1. RowsTyped' /\ DOMAIN db' = Rows
    BY <1>1, CommitRowsTyped
  <2>2. IsFiniteSet(orders')
    <3>1. IsFiniteSet(orders) /\ IsFiniteSet(orders \cup {Order(t, t.seen)})
      BY FS_AddElement DEF TInv, TypeOK
    <3>2. orders' = orders \/ orders' = orders \cup {Order(t, t.seen)}
      BY <1>1
    <3> QED
      BY <3>1, <3>2
  <2>3. uncharged' \in Nat
    <3>1. t.kind = "Payment" => t.query.H_AMOUNT \in Nat
      BY ReadyTransaction, PaymentQuery DEF Commit, Known, t
    <3>2. uncharged \in Nat
      BY DEF TInv, TypeOK
    <3> QED
      BY <1>1, <3>1, <3>2
  <2> QED
    BY <1>1, <1>2, <2>1, <2>2, <2>3 DEF RowsTyped, TInv, TypeOK
<1>4. ASSUME NEW y \in Workers \ {x} PROVE Kept(y)' = Kept(y)
  BY <1>2 DEF Kept
<1>5. Kept(x)' = [update |-> {}, read |-> {}]
  BY <1>2 DEF Kept
<1>6. Kept(x).update = search_for_update(t)
  BY <1>1 DEF Kept, t
<1>7. SeenIsCurrent'
  <2> SUFFICES ASSUME NEW y \in Workers, txn'[y] # NoTxn, txn'[y].at = "ready"
               PROVE  /\ ~Rollback(txn'[y])
                      /\ search_for_update(txn'[y]) \cup search_for_read(txn'[y]) \subseteq Rows
                      /\ txn'[y].seen = [r \in search_for_update(txn'[y]) |-> db'[r]]
    BY DEF SeenIsCurrent
  <2> DEFINE u == txn[y]
  <2>1. y # x /\ txn'[y] = u /\ u # NoTxn /\ u.at = "ready"
    BY <1>2
  <2>2. /\ ~Rollback(u)
        /\ search_for_update(u) \cup search_for_read(u) \subseteq Rows
        /\ u.seen = [r \in search_for_update(u) |-> db[r]]
    BY <2>1 DEF TInv, SeenIsCurrent
  <2>3. search_for_update(u) \cap search_for_update(t) = {}
    <3>1. Kept(y).update = search_for_update(u)
      BY <2>1 DEF Kept
    <3> QED
      BY <1>6, <2>1, <3>1 DEF TInv, ReadyApart
  <2>4. \A r \in search_for_update(u) : db'[r] = db[r]
    BY <1>1, <2>2, <2>3
  <2> HIDE DEF u
  <2>5. u.seen = [r \in search_for_update(u) |-> db'[r]]
    BY <2>2, <2>4
  <2> QED
    BY <2>1, <2>2, <2>5
<1>8. ReadyApart'
  <2>1. ASSUME NEW y \in Workers, NEW z \in Workers, y # z
        PROVE  Kept(y)'.update \cap (Kept(z)'.update \cup Kept(z)'.read) = {}
    <3>1. CASE y = x \/ z = x
      BY <1>5, <3>1
    <3>2. CASE y # x /\ z # x
      BY <1>4, <2>1, <3>2 DEF TInv, ReadyApart
    <3> QED
      BY <3>1, <3>2
  <2> QED
    BY <2>1 DEF ReadyApart
<1> QED
  BY <1>3, <1>7, <1>8 DEF TInv

LEMMA TStep == TInv /\ [Next]_vars => TInv'
<1> SUFFICES ASSUME TInv, [Next]_vars PROVE TInv'
  OBVIOUS
<1>1. ASSUME NEW x \in Workers, next_transaction(x) PROVE TInv'
  <2>1. created' \in 0 .. MaxTxns
    BY <1>1, TTransactionAssumption DEF next_transaction, TInv, TypeOK
  <2>2. PICK w \in Warehouses :
          \/ \E q \in makeNewOrderQuery(w) :
                txn' = [txn EXCEPT ![x] = [at |-> "new", kind |-> "NewOrder", W_ID |-> w, query |-> q]]
          \/ \E q \in makePaymentQuery(w) :
                txn' = [txn EXCEPT ![x] = [at |-> "new", kind |-> "Payment", W_ID |-> w, query |-> q]]
    BY <1>1 DEF next_transaction
  <2>3. \E u \in Transactions({"new", "aborted"}) : txn' = [txn EXCEPT ![x] = u]
    BY <2>2 DEF Transactions, NewOrderQueries, PaymentQueries
  <2> QED
    BY <1>1, <2>1, <2>3, NotReadyStep DEF next_transaction
<1>2. ASSUME NEW x \in Workers, txn[x] # NoTxn, txn[x].at \in {"new", "aborted"},
             UNCHANGED <<db, created, orders, uncharged>>,
             NEW u, txn' = [txn EXCEPT ![x] = u],
             u = NoTxn \/ \E at \in {"new", "aborted"} : u = [txn[x] EXCEPT !.at = at]
      PROVE  TInv'
  <2>1. txn[x] \in Transactions({"new", "aborted"})
    BY <1>2 DEF TInv, TypeOK
  <2>2. u = NoTxn \/ u \in Transactions({"new", "aborted"})
    BY <1>2, <2>1 DEF Transactions
  <2>3. created' \in 0 .. MaxTxns
    BY <1>2 DEF TInv, TypeOK
  <2> QED
    BY <1>2, <2>2, <2>3, NotReadyStep
<1>3. ASSUME NEW x \in Workers, ExecuteRollsBack(x) PROVE TInv'
  BY <1>2, <1>3 DEF ExecuteRollsBack
<1>4. ASSUME NEW x \in Workers, ExecuteAborts(x) PROVE TInv'
  BY <1>2, <1>4 DEF ExecuteAborts
<1>5. ASSUME NEW x \in Workers, Retry(x) PROVE TInv'
  BY <1>2, <1>5 DEF Retry
<1>6. ASSUME NEW x \in Workers, reset_query(x) PROVE TInv'
  <2>1. PICK q \in IF txn[x].kind = "NewOrder" THEN makeNewOrderQuery(txn[x].W_ID - 1)
                                               ELSE makePaymentQuery(txn[x].W_ID - 1) :
          txn' = [txn EXCEPT ![x].at = "new", ![x].query = q]
    BY <1>6 DEF reset_query
  <2> DEFINE u == [txn[x] EXCEPT !.at = "new", !.query = q]
  <2>2. txn' = [txn EXCEPT ![x] = u]
    BY <2>1 DEF TInv, TypeOK
  <2>3. txn[x] \in Transactions({"new", "aborted"})
    BY <1>6 DEF reset_query, TInv, TypeOK
  <2>4. txn[x].W_ID - 1 \in {0} \cup Warehouses
    BY <2>3, TQueryAssumption DEF Transactions, Warehouses
  <2>5. u \in Transactions({"new", "aborted"})
    <3>1. CASE txn[x].kind = "NewOrder"
      <4>1. q \in NewOrderQueries
        BY <2>1, <2>4, <3>1 DEF NewOrderQueries
      <4> QED
        BY <2>3, <3>1, <4>1 DEF Transactions
    <3>2. CASE txn[x].kind = "Payment"
      <4>1. q \in PaymentQueries
        BY <2>1, <2>4, <3>2 DEF PaymentQueries
      <4> QED
        BY <2>3, <3>2, <4>1 DEF Transactions
    <3> QED
      BY <2>3, <3>1, <3>2 DEF Transactions
  <2>6. created' \in 0 .. MaxTxns /\ UNCHANGED <<db, orders, uncharged>>
    BY <1>6 DEF reset_query, TInv, TypeOK
  <2> QED
    BY <2>2, <2>5, <2>6, NotReadyStep
<1>7. ASSUME UNCHANGED vars PROVE TInv'
  BY <1>7 DEF vars, TInv, TypeOK, SeenIsCurrent, ReadyApart, Kept
<1> QED
  BY <1>1, <1>3, <1>4, <1>5, <1>6, <1>7, ReadyStep, CommitStep DEF Next

(* Every row, transaction and query is of its type; in particular, no       *)
(* quantity, counter or sum is ever negative.                               *)
THEOREM TTypeCorrect == Spec => []TypeOK
<1>1. TInv => TypeOK
  BY DEF TInv
<1> QED
  BY <1>1, InitTInv, TStep, PTL DEF Spec

-----------------------------------------------------------------------------
(* Only a commit changes rows, orders and what was not charged.             *)

LEMMA OnlyCommits ==
    ASSUME [Next]_vars
    PROVE  UNCHANGED <<db, orders, uncharged>> \/ \E x \in Workers : Commit(x)
BY DEF Next, vars, next_transaction, ExecuteRollsBack, ExecuteAborts, ExecuteReady,
       Retry, reset_query

(* The order of a New-Order that commits.                                   *)
LEMMA CommitOrders ==
    ASSUME TInv, NEW x \in Workers, Commit(x)
    PROVE  /\ txn[x].kind = "Payment" => orders' = orders
           /\ txn[x].kind = "NewOrder" =>
                 \E o : /\ orders' = orders \cup {o}
                       /\ o.W_ID = txn[x].W_ID /\ o.D_ID = txn[x].query.D_ID
                       /\ o.O_ID = db[district(txn[x])].D_NEXT_O_ID
                       /\ o.INFO = txn[x].query.INFO
<1> DEFINE t == txn[x]
<1>1. \A r \in search_for_update(t) : t.seen[r] = db[r]
  BY ReadyTransaction DEF Commit
<1>2. orders' = orders \cup IF t.kind = "NewOrder" THEN {Order(t, t.seen)} ELSE {}
  BY DEF Commit
<1> HIDE DEF t
<1>3. ASSUME t.kind = "NewOrder"
      PROVE  \E o : /\ orders' = orders \cup {o}
                   /\ o.W_ID = t.W_ID /\ o.D_ID = t.query.D_ID
                   /\ o.O_ID = db[district(t)].D_NEXT_O_ID /\ o.INFO = t.query.INFO
  <2>1. t.seen[district(t)] = db[district(t)]
    BY <1>1, <1>3 DEF search_for_update
  <2> DEFINE o == Order(t, t.seen)
  <2>2. /\ o.W_ID = t.W_ID /\ o.D_ID = t.query.D_ID
        /\ o.O_ID = db[district(t)].D_NEXT_O_ID /\ o.INFO = t.query.INFO
    BY <2>1 DEF Order
  <2>3. orders' = orders \cup {o}
    BY <1>2, <1>3
  <2> HIDE DEF o
  <2> QED
    BY <2>2, <2>3
<1> QED
  BY <1>2, <1>3 DEF t

-----------------------------------------------------------------------------
(* Order numbers.                                                           *)

LEMMA InitNumbers == Init => OrdersAsked /\ OrdersNumbered
<1> SUFFICES ASSUME Init PROVE OrdersAsked /\ OrdersNumbered
  OBVIOUS
<1>1. orders = {} /\ w_ytd \in Nat
  BY TTransactionAssumption DEF Init
<1>2. \A r \in DistrictRows : db[r].D_NEXT_O_ID = w_ytd + 1
  BY InitRows
<1>3. OrdersAsked
  BY <1>1, <1>2 DEF OrdersAsked
<1>4. ASSUME NEW r \in DistrictRows
      PROVE  /\ {o.O_ID : o \in OrdersOf(r)} = w_ytd + 1 .. db[r].D_NEXT_O_ID - 1
             /\ \A o, p \in OrdersOf(r) : o.O_ID = p.O_ID => o = p
  BY <1>1, <1>2 DEF OrdersOf
<1> QED
  BY <1>3, <1>4 DEF OrdersNumbered

(* The new order gets the number after the last one of its district.        *)
LEMMA CommitNumbers ==
    ASSUME NumberInv, NEW x \in Workers, Commit(x)
    PROVE  /\ (OrdersAsked /\ OrdersNumbered)'
           /\ txn[x].kind = "NewOrder" =>
                 \A o \in orders : ~ (/\ o.W_ID = txn[x].W_ID /\ o.D_ID = txn[x].query.D_ID
                                     /\ o.O_ID = db[district(txn[x])].D_NEXT_O_ID)
<1> DEFINE t == txn[x]
           d == district(t)
           next == db[d].D_NEXT_O_ID
<1>1. TInv /\ OrdersAsked /\ OrdersNumbered /\ w_ytd \in Nat
  BY TTransactionAssumption DEF NumberInv
<1>2. Known(t) /\ d \in DistrictRows
  BY <1>1, ReadyTransaction, RowsFound DEF Commit
<1>3. \A r \in DistrictRows : db[r].D_NEXT_O_ID \in Nat /\ db[r].D_NEXT_O_ID > w_ytd
  BY <1>1 DEF TInv, TypeOK, OrdersAsked
<1>4. ASSUME NEW r \in DistrictRows
      PROVE  db'[r].D_NEXT_O_ID =
                IF t.kind = "NewOrder" /\ r = d THEN next + 1 ELSE db[r].D_NEXT_O_ID
  <2>1. db[r] \in [D_YTD : Nat, D_NEXT_O_ID : Nat]
    BY <1>1 DEF TInv, TypeOK
  <2> QED
    <3>1. CASE r # d
      <4>1. db'[r] = db[r]
        BY <1>1, <3>1, CommitDistrict
      <4> QED
        BY <3>1, <4>1
    <3>2. CASE r = d /\ t.kind = "NewOrder"
      <4>1. db'[r] = [db[r] EXCEPT !.D_NEXT_O_ID = @ + 1]
        BY <1>1, <3>2, CommitDistrict
      <4> QED
        BY <2>1, <3>2, <4>1
    <3>3. CASE r = d /\ t.kind # "NewOrder"
      <4>1. db'[r] = Collects(db[r], t.query.H_AMOUNT)
        BY <1>1, <3>3, CommitDistrict
      <4> QED
        BY <2>1, <3>3, <4>1 DEF Collects
    <3> QED
      BY <3>1, <3>2, <3>3
<1>5. CASE t.kind = "Payment"
  <2>1. orders' = orders
    BY <1>1, <1>5, CommitOrders
  <2>2. \A r \in DistrictRows : db'[r].D_NEXT_O_ID = db[r].D_NEXT_O_ID
    BY <1>4, <1>5
  <2>3. \A r : OrdersOf(r)' = OrdersOf(r)
    BY <2>1 DEF OrdersOf
  <2> QED
    BY <1>1, <1>5, <2>1, <2>2, <2>3 DEF OrdersAsked, OrdersNumbered
<1>6. CASE t.kind = "NewOrder"
  <2>1. PICK o : /\ orders' = orders \cup {o}
                 /\ o.W_ID = t.W_ID /\ o.D_ID = t.query.D_ID
                 /\ o.O_ID = next /\ o.INFO = t.query.INFO
    BY <1>1, <1>6, CommitOrders
  <2>2. d = <<"district", t.W_ID, t.query.D_ID>> /\ next \in Nat /\ next > w_ytd
    BY <1>2, <1>3 DEF district
  <2> HIDE DEF next, d, t
  <2>3. ASSUME NEW r
        PROVE  OrdersOf(r)' = IF r = d THEN OrdersOf(r) \cup {o} ELSE OrdersOf(r)
    BY <2>1, <2>2 DEF OrdersOf
  <2>4. /\ {p.O_ID : p \in OrdersOf(d)} = w_ytd + 1 .. next - 1
        /\ \A p, q \in OrdersOf(d) : p.O_ID = q.O_ID => p = q
    BY <1>1, <1>2 DEF OrdersNumbered, next
  <2>5. \A p \in OrdersOf(d) : p.O_ID # next
    <3>1. \A p \in OrdersOf(d) : p.O_ID \in w_ytd + 1 .. next - 1
      BY <2>4
    <3> QED
      BY <1>1, <2>2, <3>1
  <2>6. OrdersAsked'
    <3>1. \E q \in NewOrderQueries : o.INFO = q.INFO
      BY <1>2, <1>6, <2>1 DEF Known
    <3>2. \A p \in orders' : \E q \in NewOrderQueries : p.INFO = q.INFO
      BY <1>1, <2>1, <3>1 DEF OrdersAsked
    <3>3. \A r \in DistrictRows : db'[r].D_NEXT_O_ID > w_ytd
      BY <1>1, <1>3, <1>4, <2>2
    <3> QED
      BY <3>2, <3>3 DEF OrdersAsked
  <2>7. ASSUME NEW r \in DistrictRows
        PROVE  /\ {p.O_ID : p \in OrdersOf(r)'} = w_ytd + 1 .. db'[r].D_NEXT_O_ID - 1
               /\ \A p, q \in OrdersOf(r)' : p.O_ID = q.O_ID => p = q
    <3>1. CASE r = d
      <4>1. OrdersOf(r)' = OrdersOf(d) \cup {o} /\ db'[r].D_NEXT_O_ID = next + 1
        BY <1>4, <1>6, <2>3, <3>1
      <4>2. {p.O_ID : p \in OrdersOf(r)'} = (w_ytd + 1 .. next - 1) \cup {next}
        BY <2>1, <2>4, <4>1
      <4>3. (w_ytd + 1 .. next - 1) \cup {next} = w_ytd + 1 .. (next + 1) - 1
        BY <1>1, <2>2
      <4> QED
        BY <2>1, <2>4, <2>5, <4>1, <4>2, <4>3
    <3>2. CASE r # d
      <4>1. OrdersOf(r)' = OrdersOf(r) /\ db'[r].D_NEXT_O_ID = db[r].D_NEXT_O_ID
        BY <1>4, <2>3, <3>2
      <4> QED
        BY <1>1, <4>1 DEF OrdersNumbered
    <3> QED
      BY <3>1, <3>2
  <2>8. OrdersNumbered'
    BY <2>7 DEF OrdersNumbered
  <2>9. \A p \in orders : ~ (p.W_ID = t.W_ID /\ p.D_ID = t.query.D_ID /\ p.O_ID = next)
    BY <2>2, <2>5 DEF OrdersOf
  <2> QED
    BY <2>6, <2>8, <2>9 DEF t, d, next
<1> QED
  BY <1>2, <1>5, <1>6 DEF Known

LEMMA NumberStep == NumberInv /\ [Next]_vars => NumberInv'
<1> SUFFICES ASSUME NumberInv, [Next]_vars PROVE NumberInv'
  OBVIOUS
<1>1. TInv'
  BY TStep DEF NumberInv
<1>2. CASE UNCHANGED <<db, orders, uncharged>>
  BY <1>1, <1>2 DEF NumberInv, OrdersAsked, OrdersNumbered, OrdersOf
<1> QED
  BY <1>1, <1>2, OnlyCommits, CommitNumbers DEF NumberInv

(* The orders of a district are numbered without a gap, and no number is    *)
(* given twice: a New-Order that is committed has kept its district's row   *)
(* since it took the number, and one that rolls back has taken none.        *)
THEOREM OrdersNumberedCorrect == Spec => []OrdersNumbered
<1>1. Init => NumberInv
  BY InitTInv, InitNumbers DEF NumberInv
<1>2. NumberInv => OrdersNumbered
  BY DEF NumberInv
<1> QED
  BY <1>1, <1>2, NumberStep, PTL DEF Spec

-----------------------------------------------------------------------------
(* Balances.                                                                *)

LEMMA CommitBalances ==
    ASSUME TInv, BalanceMirrors, NEW x \in Workers, Commit(x)
    PROVE  BalanceMirrors'
<1> DEFINE t == txn[x]
           amount == t.query.H_AMOUNT
<1>1. Known(t)
  BY ReadyTransaction DEF Commit
<1> SUFFICES ASSUME NEW r \in CustomerRows
             PROVE  db'[r].C_BALANCE = -db'[r].C_YTD_PAYMENT
  BY DEF BalanceMirrors
<1>2. db[r].C_YTD_PAYMENT \in Nat /\ db[r].C_BALANCE = -db[r].C_YTD_PAYMENT
  BY DEF TInv, TypeOK, BalanceMirrors
<1>3. CASE t.kind = "Payment" /\ r = customer(t)
  <2>1. amount \in Nat
    BY <1>1, <1>3, PaymentQuery DEF Known
  <2>2. db'[r] = Pays(t, db[r])
    BY <1>3, CommitCustomer
  <2>3. /\ FloatAdd(db[r].C_YTD_PAYMENT, amount) \in Nat
        /\ FloatAdd(db[r].C_BALANCE, -amount) = -FloatAdd(db[r].C_YTD_PAYMENT, amount)
    <3> HIDE DEF amount
    <3> QED
      BY <1>2, <2>1, AddNaturals
  <2> QED
    BY <1>2, <2>2, <2>3 DEF Pays
<1>4. CASE ~ (t.kind = "Payment" /\ r = customer(t))
  BY <1>2, <1>4, CommitCustomer
<1> QED
  BY <1>3, <1>4

(* A customer's balance is the negative of what he has paid, whatever the   *)
(* roundings: both floats are rounded alike.                                *)
THEOREM BalanceMirrorsCorrect == Spec => []BalanceMirrors
<1> DEFINE Inv == TInv /\ BalanceMirrors
<1>1. Init => Inv
  <2>1. Init => BalanceMirrors
    BY InitRows DEF BalanceMirrors
  <2> QED
    BY <2>1, InitTInv
<1>2. Inv /\ [Next]_vars => Inv'
  <2> SUFFICES ASSUME TInv, BalanceMirrors, [Next]_vars PROVE TInv' /\ BalanceMirrors'
    OBVIOUS
  <2>1. CASE UNCHANGED <<db, orders, uncharged>>
    BY <2>1, TStep DEF BalanceMirrors
  <2> QED
    BY <2>1, TStep, OnlyCommits, CommitBalances
<1> QED
  BY <1>1, <1>2, PTL DEF Spec

-----------------------------------------------------------------------------
(* Stock.                                                                   *)

LEMMA LinesKnown ==
    ASSUME NumberInv, NEW r
    PROVE  /\ IsFiniteSet(LinesOf(r))
           /\ \A l \in LinesOf(r) : l[1].INFO[l[2]].OL_QUANTITY \in Nat
           /\ Ordered(r) \in Nat
<1>1. IsFiniteSet(LinesOf(r))
  <2>1. IsFiniteSet(orders) /\ IsFiniteSet(1 .. 15)
    <3>1. IsFiniteSet(1 .. 15)
      BY 1 \in Int, 15 \in Int, FS_Interval
    <3> QED
      BY <3>1 DEF NumberInv, TInv, TypeOK
  <2>2. IsFiniteSet(orders \X (1 .. 15))
    BY <2>1, FS_Product
  <2> QED
    BY <2>2, FS_Subset DEF LinesOf
<1>2. ASSUME NEW l \in LinesOf(r) PROVE l[1].INFO[l[2]].OL_QUANTITY \in Nat
  <2>1. l[1] \in orders /\ l[2] \in DOMAIN l[1].INFO
    BY DEF LinesOf
  <2>2. PICK q \in NewOrderQueries : l[1].INFO = q.INFO
    BY <2>1 DEF NumberInv, OrdersAsked
  <2>3. q.INFO[l[2]].OL_QUANTITY \in 1 .. 10
    BY <2>1, <2>2, NewOrderQuery DEF NewOrderShape
  <2> QED
    BY <2>2, <2>3
<1>3. Ordered(r) \in Nat
  <2> DEFINE L == LinesOf(r)
             f == [l \in L |-> l[1].INFO[l[2]].OL_QUANTITY]
  <2>1. \A l \in L : f[l] \in Nat
    BY <1>2
  <2>2. DOMAIN f = L /\ Ordered(r) = SumFunction(f)
    BY DEF Ordered
  <2> HIDE DEF f, L
  <2>3. Ordered(r) = SumFunctionOnSet(f, L)
    BY <2>2 DEF SumFunction
  <2> QED
    BY <1>1, <2>1, <2>3, SumOfNaturals DEF L
<1> QED
  BY <1>1, <1>2, <1>3

(* A commit adds no line of a stock row, or the one its update was made of. *)
LEMMA CommitLines ==
    ASSUME NumberInv, NEW x \in Workers, Commit(x), NEW r \in StockRows
    PROVE  \/ LinesOf(r)' = LinesOf(r) /\ db'[r] = db[r]
           \/ \E o, i : /\ <<o, i>> \notin LinesOf(r)
                       /\ LinesOf(r)' = LinesOf(r) \cup {<<o, i>>}
                       /\ stock(o.INFO[i]) = r
                       /\ o.INFO[i].OL_QUANTITY \in 1 .. 10
                       /\ db'[r] = OrderLine(db[r], o.INFO[i], o.W_ID)
<1> DEFINE t == txn[x]
<1>1. TInv
  BY DEF NumberInv
<1>2. Known(t) /\ ~Rollback(t)
  BY <1>1, ReadyTransaction DEF Commit
<1>3. CASE t.kind = "Payment"
  <2>1. orders' = orders /\ db'[r] = db[r]
    BY <1>1, <1>3, CommitOrders, CommitStock
  <2> QED
    BY <2>1 DEF LinesOf
<1>4. CASE t.kind = "NewOrder"
  <2>1. PICK o : /\ orders' = orders \cup {o}
                 /\ o.W_ID = t.W_ID /\ o.D_ID = t.query.D_ID
                 /\ o.O_ID = db[district(t)].D_NEXT_O_ID
                 /\ o.INFO = t.query.INFO
    BY <1>1, <1>4, CommitOrders
  <2>2. o \notin orders
    BY <1>4, <2>1, CommitNumbers
  <2>3. /\ DOMAIN o.INFO \subseteq 1 .. 15
        /\ \A i \in DOMAIN o.INFO : o.INFO[i].OL_QUANTITY \in 1 .. 10
    BY <1>2, <1>4, <2>1, NewOrderQuery DEF Known, NewOrderShape
  <2> DEFINE mine == {i \in DOMAIN o.INFO : stock(o.INFO[i]) = r}
  <2>4. LinesOf(r)' = LinesOf(r) \cup {<<o, i>> : i \in mine}
    BY <2>1, <2>3 DEF LinesOf
  <2>5. CASE mine = {}
    <3>1. \A i \in DOMAIN t.query.INFO : stock(t.query.INFO[i]) # r
      BY <2>1, <2>5
    <3>2. db'[r] = db[r]
      BY <1>1, <3>1, CommitStock
    <3> QED
      BY <2>4, <2>5, <3>2
  <2>6. ASSUME NEW i \in mine
        PROVE  /\ <<o, i>> \notin LinesOf(r)
               /\ LinesOf(r)' = LinesOf(r) \cup {<<o, i>>}
               /\ stock(o.INFO[i]) = r
               /\ o.INFO[i].OL_QUANTITY \in 1 .. 10
               /\ db'[r] = OrderLine(db[r], o.INFO[i], o.W_ID)
    <3>1. i \in DOMAIN t.query.INFO /\ stock(t.query.INFO[i]) = r
      BY <2>1
    <3>2. \A k \in DOMAIN t.query.INFO : stock(t.query.INFO[k]) = r => k = i
      BY <1>2, <1>4, <3>1, OneLine
    <3>3. mine = {i}
      BY <2>1, <3>1, <3>2
    <3>4. db'[r] = OrderLine(db[r], t.query.INFO[i], t.W_ID)
      BY <1>1, <1>4, <3>1, CommitStock
    <3>5. <<o, i>> \notin LinesOf(r)
      BY <2>2 DEF LinesOf
    <3>6. {<<o, k>> : k \in mine} = {<<o, i>>}
      BY <3>3
    <3> HIDE DEF t
    <3> QED
      BY <2>1, <2>3, <2>4, <3>1, <3>4, <3>5, <3>6
  <2> QED
    BY <2>5, <2>6
<1> QED
  BY <1>2, <1>3, <1>4 DEF Known

LEMMA CommitStockAccounts ==
    ASSUME NumberInv, StockAccounts, NEW x \in Workers, Commit(x)
    PROVE  StockAccounts'
<1> SUFFICES ASSUME NEW r \in StockRows
             PROVE  /\ db'[r].S_ORDER_CNT = Cardinality(LinesOf(r)')
                    /\ db'[r].S_REMOTE_CNT = Cardinality({l \in LinesOf(r)' : l[1].W_ID # r[2]})
                    /\ Ordered(r)' <= Exact => db'[r].S_YTD = Ordered(r)'
                    /\ db'[r].S_QUANTITY >= 10
                    /\ (InitialStock[r] - Ordered(r)' - db'[r].S_QUANTITY) % 91 = 0
  BY DEF StockAccounts
<1>1. /\ db[r].S_ORDER_CNT = Cardinality(LinesOf(r))
      /\ db[r].S_REMOTE_CNT = Cardinality({l \in LinesOf(r) : l[1].W_ID # r[2]})
      /\ Ordered(r) <= Exact => db[r].S_YTD = Ordered(r)
      /\ db[r].S_QUANTITY >= 10
      /\ (InitialStock[r] - Ordered(r) - db[r].S_QUANTITY) % 91 = 0
  BY DEF StockAccounts
<1>2. db[r] \in [S_QUANTITY : Nat, S_YTD : Nat, S_ORDER_CNT : Nat, S_REMOTE_CNT : Nat]
  BY DEF NumberInv, TInv, TypeOK
<1>3. CASE LinesOf(r)' = LinesOf(r) /\ db'[r] = db[r]
  <2>1. Ordered(r)' = Ordered(r)
    BY <1>3 DEF Ordered
  <2> QED
    BY <1>1, <1>3, <2>1
<1>4. ASSUME NEW o, NEW i, <<o, i>> \notin LinesOf(r),
             LinesOf(r)' = LinesOf(r) \cup {<<o, i>>},
             stock(o.INFO[i]) = r, o.INFO[i].OL_QUANTITY \in 1 .. 10,
             db'[r] = OrderLine(db[r], o.INFO[i], o.W_ID)
      PROVE  /\ db'[r].S_ORDER_CNT = Cardinality(LinesOf(r)')
             /\ db'[r].S_REMOTE_CNT = Cardinality({l \in LinesOf(r)' : l[1].W_ID # r[2]})
             /\ Ordered(r)' <= Exact => db'[r].S_YTD = Ordered(r)'
             /\ db'[r].S_QUANTITY >= 10
             /\ (InitialStock[r] - Ordered(r)' - db'[r].S_QUANTITY) % 91 = 0
  <2> DEFINE L == LinesOf(r)
             M == LinesOf(r)'
             n == o.INFO[i].OL_QUANTITY
             remote == {l \in L : l[1].W_ID # r[2]}
  <2>1. /\ db'[r].S_QUANTITY = TakeStock(db[r].S_QUANTITY, n)
        /\ db'[r].S_YTD = FloatAdd(db[r].S_YTD, n)
        /\ db'[r].S_ORDER_CNT = db[r].S_ORDER_CNT + 1
        /\ db'[r].S_REMOTE_CNT = db[r].S_REMOTE_CNT
              + IF o.INFO[i].OL_SUPPLY_W_ID # o.W_ID THEN 1 ELSE 0
    BY <1>4 DEF OrderLine
  <2>2. IsFiniteSet(L) /\ Ordered(r) \in Nat
    BY LinesKnown
  <2>3. db'[r].S_ORDER_CNT = Cardinality(M)
    BY <1>1, <1>4, <2>1, <2>2, FS_AddElement
  <2>4. db'[r].S_REMOTE_CNT = Cardinality({l \in M : l[1].W_ID # r[2]})
    <3>1. o.INFO[i].OL_SUPPLY_W_ID = r[2]
      BY <1>4 DEF stock
    <3>2. IsFiniteSet(remote) /\ <<o, i>> \notin remote
      BY <1>4, <2>2, FS_Subset
    <3> DEFINE now == {l \in M : l[1].W_ID # r[2]}
    <3>3. now = IF o.W_ID # r[2] THEN remote \cup {<<o, i>>} ELSE remote
      BY <1>4
    <3>4. db[r].S_REMOTE_CNT = Cardinality(remote) /\ db[r].S_REMOTE_CNT \in Nat
      BY <1>1, <1>2
    <3> HIDE DEF remote, now
    <3>5. CASE o.W_ID = r[2]
      <4>1. now = remote /\ db'[r].S_REMOTE_CNT = db[r].S_REMOTE_CNT
        BY <2>1, <3>1, <3>3, <3>4, <3>5
      <4> QED
        BY <3>4, <4>1 DEF now
    <3>6. CASE o.W_ID # r[2]
      <4>1. now = remote \cup {<<o, i>>} /\ db'[r].S_REMOTE_CNT = db[r].S_REMOTE_CNT + 1
        BY <2>1, <3>1, <3>3, <3>4, <3>6
      <4>2. Cardinality(now) = Cardinality(remote) + 1
        BY <3>2, <4>1, FS_AddElement
      <4> QED
        BY <3>4, <4>1, <4>2 DEF now
    <3> QED
      BY <3>5, <3>6
  <2>5. Ordered(r)' = Ordered(r) + n
    <3> DEFINE f == [l \in L |-> l[1].INFO[l[2]].OL_QUANTITY]
               g == [l \in M |-> l[1].INFO[l[2]].OL_QUANTITY]
    <3>1. M = L \cup {<<o, i>>} /\ <<o, i>> \notin L
      BY <1>4
    <3>2. \A l \in L : f[l] = g[l] /\ g[l] \in Nat
      BY <1>4, LinesKnown
    <3>3. g[<<o, i>>] = n /\ n \in Nat
      BY <1>4
    <3>4. Ordered(r) = SumFunctionOnSet(f, L)
      BY DEF Ordered, SumFunction
    <3>5. Ordered(r)' = SumFunctionOnSet(g, M)
      BY DEF Ordered, SumFunction
    <3> HIDE DEF f, g, L, M, n
    <3>6. \A l \in L \cup {<<o, i>>} : g[l] \in Int
      BY <3>2, <3>3
    <3>7. SumFunctionOnSet(g, L \cup {<<o, i>>}) = SumFunctionOnSet(f, L) + g[<<o, i>>]
      BY <2>2, <3>1, <3>2, <3>6, SumAdds DEF L
    <3> QED
      BY <3>1, <3>3, <3>4, <3>5, <3>7
  <2>6. n \in 1 .. 10 /\ Exact \in Nat /\ InitialStock[r] \in Nat
    BY <1>4, TTransactionAssumption, StockAssumption
  <2> DEFINE was == db[r].S_QUANTITY
             is == db'[r].S_QUANTITY
  <2>7. was \in Nat /\ was >= 10 /\ db[r].S_YTD \in Nat
    BY <1>1, <1>2
  <2> HIDE DEF n, was, is
  <2>8. is >= 10 /\ is \in Nat /\ (is = was - n \/ is = was - n + 91)
    BY <2>1, <2>6, <2>7 DEF TakeStock, was, is
  <2>9. (InitialStock[r] - Ordered(r)' - is) % 91 = 0
    <3> DEFINE gap == InitialStock[r] - Ordered(r) - was
    <3>1. gap \in Int /\ gap % 91 = 0
      BY <1>1, <2>2, <2>6, <2>7 DEF was
    <3>2. \/ InitialStock[r] - Ordered(r)' - is = gap
          \/ InitialStock[r] - Ordered(r)' - is = gap - 91
      BY <2>2, <2>5, <2>6, <2>7, <2>8
    <3> HIDE DEF gap
    <3>3. (gap - 91) % 91 = 0
      BY <3>1
    <3> QED
      BY <3>1, <3>2, <3>3
  <2>10. Ordered(r)' <= Exact => db'[r].S_YTD = Ordered(r)'
    <3> SUFFICES ASSUME Ordered(r)' <= Exact PROVE db'[r].S_YTD = Ordered(r)'
      OBVIOUS
    <3>1. Ordered(r) <= Exact /\ n \in Nat
      BY <2>2, <2>5, <2>6
    <3>2. db[r].S_YTD = Ordered(r)
      BY <1>1, <3>1
    <3>3. FloatAdd(Ordered(r), n) = Ordered(r) + n
      BY <2>2, <2>5, <3>1, AddNaturals
    <3> QED
      BY <2>1, <2>5, <3>2, <3>3
  <2> QED
    BY <2>3, <2>4, <2>8, <2>9, <2>10 DEF is
<1> QED
  BY <1>3, <1>4, CommitLines

LEMMA InitStockAccounts == Init => StockAccounts
<1> SUFFICES ASSUME Init, NEW r \in StockRows
             PROVE  /\ db[r].S_ORDER_CNT = Cardinality(LinesOf(r))
                    /\ db[r].S_REMOTE_CNT = Cardinality({l \in LinesOf(r) : l[1].W_ID # r[2]})
                    /\ Ordered(r) <= Exact => db[r].S_YTD = Ordered(r)
                    /\ db[r].S_QUANTITY >= 10
                    /\ (InitialStock[r] - Ordered(r) - db[r].S_QUANTITY) % 91 = 0
  BY DEF StockAccounts
<1>1. db[r] = [S_QUANTITY |-> InitialStock[r], S_YTD |-> 0,
               S_ORDER_CNT |-> 0, S_REMOTE_CNT |-> 0]
  BY InitRows
<1>2. LinesOf(r) = {} /\ {l \in LinesOf(r) : l[1].W_ID # r[2]} = {}
  BY DEF Init, LinesOf
<1>3. Cardinality({}) = 0
  BY FS_EmptySet
<1>4. Ordered(r) = 0
  <2> DEFINE f == [l \in LinesOf(r) |-> l[1].INFO[l[2]].OL_QUANTITY]
  <2>1. Ordered(r) = SumFunctionOnSet(f, LinesOf(r))
    BY DEF Ordered, SumFunction
  <2> HIDE DEF f
  <2> QED
    BY <1>2, <2>1, SumOfNone
<1>5. InitialStock[r] \in Nat /\ InitialStock[r] >= 10
  BY StockAssumption
<1>6. (InitialStock[r] - 0 - InitialStock[r]) % 91 = 0
  BY <1>5
<1> QED
  BY <1>1, <1>2, <1>3, <1>4, <1>5, <1>6

(* A stock row accounts for the lines of all committed orders: none is lost *)
(* to another transaction or counted twice.                                 *)
THEOREM StockAccountsCorrect == Spec => []StockAccounts
<1> DEFINE Inv == NumberInv /\ StockAccounts
<1>1. Init => Inv
  BY InitTInv, InitNumbers, InitStockAccounts DEF NumberInv
<1>2. Inv /\ [Next]_vars => Inv'
  <2> SUFFICES ASSUME NumberInv, StockAccounts, [Next]_vars
               PROVE  NumberInv' /\ StockAccounts'
    OBVIOUS
  <2>1. CASE UNCHANGED <<db, orders, uncharged>>
    <3>1. \A r : LinesOf(r)' = LinesOf(r) /\ Ordered(r)' = Ordered(r)
      BY <2>1 DEF LinesOf, Ordered
    <3>2. StockAccounts'
      BY <2>1, <3>1 DEF StockAccounts
    <3> QED
      BY <3>2, NumberStep
  <2> QED
    BY <2>1, NumberStep, OnlyCommits, CommitStockAccounts
<1> QED
  BY <1>1, <1>2, PTL DEF Spec

-----------------------------------------------------------------------------
(* Money.                                                                   *)

FromDistricts(r) == [d \in DistrictsOf(r) |-> db[d].D_YTD - w_ytd]
ToWarehouses == [r \in WarehouseRows |-> db[r].W_YTD - w_ytd]
FromCustomers == [c \in CustomerRows |-> db[c].C_YTD_PAYMENT - 10]

LEMMA MoneySums ==
    ASSUME TInv
    PROVE  /\ w_ytd \in Nat
           /\ \A r \in WarehouseRows : ToWarehouses[r] \in Int
           /\ \A c \in CustomerRows : FromCustomers[c] \in Int
           /\ \A r : /\ IsFiniteSet(DistrictsOf(r)) /\ DistrictsOf(r) \subseteq DistrictRows
                    /\ \A d \in DistrictsOf(r) : FromDistricts(r)[d] \in Int
           /\ SumFunction(ToWarehouses) = SumFunctionOnSet(ToWarehouses, WarehouseRows)
           /\ SumFunction(FromCustomers) = SumFunctionOnSet(FromCustomers, CustomerRows)
<1>1. w_ytd \in Nat
  BY TTransactionAssumption
<1>2. /\ \A r \in WarehouseRows : db[r].W_YTD \in Nat
      /\ \A r \in DistrictRows : db[r].D_YTD \in Nat
      /\ \A r \in CustomerRows : db[r].C_YTD_PAYMENT \in Nat
  BY DEF TInv, TypeOK
<1>3. \A r \in WarehouseRows : ToWarehouses[r] \in Int
  BY <1>1, <1>2 DEF ToWarehouses
<1>4. \A c \in CustomerRows : FromCustomers[c] \in Int
  BY <1>2 DEF FromCustomers
<1>5. ASSUME NEW r
      PROVE  /\ IsFiniteSet(DistrictsOf(r)) /\ DistrictsOf(r) \subseteq DistrictRows
             /\ \A d \in DistrictsOf(r) : FromDistricts(r)[d] \in Int
  <2>1. DistrictsOf(r) \subseteq DistrictRows
    BY DEF DistrictsOf
  <2>2. IsFiniteSet(DistrictsOf(r))
    BY <2>1, FiniteRows, FS_Subset
  <2>3. \A d \in DistrictsOf(r) : FromDistricts(r)[d] \in Int
    BY <1>1, <1>2, <2>1 DEF FromDistricts
  <2> QED
    BY <2>1, <2>2, <2>3
<1>6. DOMAIN ToWarehouses = WarehouseRows /\ DOMAIN FromCustomers = CustomerRows
  BY DEF ToWarehouses, FromCustomers
<1>7. /\ SumFunction(ToWarehouses) = SumFunctionOnSet(ToWarehouses, WarehouseRows)
      /\ SumFunction(FromCustomers) = SumFunctionOnSet(FromCustomers, CustomerRows)
  BY <1>6 DEF SumFunction
<1> QED
  BY <1>1, <1>3, <1>4, <1>5, <1>7

LEMMA MoneyReceivedSums ==
    MoneyReceived <=>
        (SumsExact => /\ \A r \in WarehouseRows :
                            db[r].W_YTD - w_ytd = SumFunction(FromDistricts(r))
                      /\ SumFunction(ToWarehouses) = SumFunction(FromCustomers) + uncharged)
BY DEF MoneyReceived, FromDistricts, ToWarehouses, FromCustomers

(* A payment, as long as the sums are exact: it is added to one warehouse,  *)
(* one of its districts and, as the charge or as what is not charged, to    *)
(* one customer or nobody, none of them rounded.                            *)
LEMMA PaymentExact ==
    ASSUME MoneyInv, NEW x \in Workers, Commit(x), txn[x].kind = "Payment", SumsExact'
    PROVE  /\ SumsExact
           /\ \E w \in WarehouseRows, c \in CustomerRows, amount \in Nat, charge \in Nat :
              \E d \in DistrictsOf(w) :
                 /\ db'[w].W_YTD = db[w].W_YTD + amount
                 /\ \A r \in WarehouseRows \ {w} : db'[r].W_YTD = db[r].W_YTD
                 /\ db'[d].D_YTD = db[d].D_YTD + amount
                 /\ \A r \in DistrictRows \ {d} : db'[r].D_YTD = db[r].D_YTD
                 /\ db'[c].C_YTD_PAYMENT = db[c].C_YTD_PAYMENT + charge
                 /\ \A r \in CustomerRows \ {c} :
                       db'[r].C_YTD_PAYMENT = db[r].C_YTD_PAYMENT
                 /\ uncharged' = uncharged + (amount - charge)
<1> DEFINE t == txn[x]
           w == warehouse(t)
           d == district(t)
           c == customer(t)
           amount == t.query.H_AMOUNT
           charge == IF t.execution_phase THEN amount ELSE 0
<1>1. TInv /\ DistrictsReceive /\ MoneyReceived
  BY DEF MoneyInv
<1>2. Known(t) /\ search_for_update(t) \cup search_for_read(t) \subseteq Rows
  BY <1>1, ReadyTransaction DEF Commit
<1>3. w \in WarehouseRows /\ d \in DistrictRows /\ c \in CustomerRows
  BY <1>2, RowsFound
<1>4. d \in DistrictsOf(w)
  BY <1>3 DEF DistrictsOf, warehouse, district
<1>5. amount \in Nat /\ charge \in Nat
  BY <1>2, PaymentQuery DEF Known
<1>6. /\ \A r \in WarehouseRows : db[r] \in [W_YTD : Nat]
      /\ \A r \in DistrictRows : db[r] \in [D_YTD : Nat, D_NEXT_O_ID : Nat]
      /\ \A r \in CustomerRows :
            db[r] \in [C_BALANCE : Int, C_YTD_PAYMENT : Nat, C_PAYMENT_CNT : Nat]
      /\ Exact \in Nat /\ w_ytd \in Nat
  BY <1>1, TTransactionAssumption DEF TInv, TypeOK
<1>7. /\ db'[w] = Receives(db[w], amount)
      /\ \A r \in WarehouseRows \ {w} : db'[r] = db[r]
  BY <1>1, <1>3, CommitWarehouse
<1>8. /\ db'[d] = Collects(db[d], amount)
      /\ \A r \in DistrictRows \ {d} : db'[r] = db[r]
  BY <1>1, <1>3, CommitDistrict
<1>9. /\ db'[c] = Pays(t, db[c])
      /\ \A r \in CustomerRows \ {c} : db'[r] = db[r]
  BY <1>1, <1>3, CommitCustomer
<1>18. /\ uncharged \in Nat
       /\ uncharged' = uncharged + IF ~t.execution_phase THEN amount ELSE 0
  BY <1>1 DEF Commit, TInv, TypeOK
<1>19. uncharged' = uncharged + (amount - charge)
  BY <1>5, <1>18
<1>20. \/ charge = amount /\ db'[c].C_YTD_PAYMENT = FloatAdd(db[c].C_YTD_PAYMENT, amount)
       \/ charge = 0 /\ db'[c] = db[c]
  BY <1>9 DEF Pays
<1> HIDE DEF t, w, d, c, amount, charge
<1>10. db'[w].W_YTD = FloatAdd(db[w].W_YTD, amount)
  BY <1>3, <1>6, <1>7 DEF Receives
<1>11. db'[d].D_YTD = FloatAdd(db[d].D_YTD, amount)
  BY <1>3, <1>6, <1>8 DEF Collects
<1>13. db'[w].W_YTD = db[w].W_YTD + amount /\ db[w].W_YTD + amount < Exact
  <2>1. FloatAdd(db[w].W_YTD, amount) < Exact
    BY <1>3, <1>10 DEF SumsExact
  <2> QED
    BY <1>3, <1>5, <1>6, <1>10, <2>1, AddNaturals
<1>14. db'[c].C_YTD_PAYMENT = db[c].C_YTD_PAYMENT + charge
       /\ db[c].C_YTD_PAYMENT + charge < Exact
  <2>1. db'[c].C_YTD_PAYMENT < Exact
    BY <1>3 DEF SumsExact
  <2>2. CASE charge = amount /\ db'[c].C_YTD_PAYMENT = FloatAdd(db[c].C_YTD_PAYMENT, amount)
    BY <1>3, <1>5, <1>6, <2>1, <2>2, AddNaturals
  <2>3. CASE charge = 0 /\ db'[c] = db[c]
    BY <1>3, <1>6, <2>1, <2>3
  <2> QED
    BY <1>20, <2>2, <2>3
<1>15. SumsExact
  <2>1. ASSUME NEW r \in WarehouseRows PROVE db[r].W_YTD < Exact
    BY <1>3, <1>5, <1>6, <1>7, <1>13 DEF SumsExact
  <2>2. ASSUME NEW r \in CustomerRows PROVE db[r].C_YTD_PAYMENT < Exact
    BY <1>3, <1>5, <1>6, <1>9, <1>14 DEF SumsExact
  <2> QED
    BY <2>1, <2>2 DEF SumsExact
(* A district has not received more than its warehouse.                     *)
<1>16. db[d].D_YTD <= db[w].W_YTD
  <2>1. \A e \in DistrictsOf(w) : FromDistricts(w)[e] \in Nat
    <3>1. \A e \in DistrictsOf(w) : e \in DistrictRows
      BY DEF DistrictsOf
    <3>2. \A e \in DistrictRows : db[e].D_YTD \in Nat /\ db[e].D_YTD >= w_ytd
      BY <1>1, <1>6, <1>15 DEF DistrictsReceive
    <3> QED
      BY <1>6, <3>1, <3>2 DEF FromDistricts
  <2>2. FromDistricts(w)[d] <= SumFunctionOnSet(FromDistricts(w), DistrictsOf(w))
    <3>1. IsFiniteSet(DistrictsOf(w))
      BY <1>1, MoneySums
    <3> QED
      BY <1>4, <2>1, <3>1, SumOfNaturals
  <2>3. db[w].W_YTD - w_ytd = SumFunctionOnSet(FromDistricts(w), DistrictsOf(w))
    <3>1. db[w].W_YTD - w_ytd = SumFunction(FromDistricts(w))
      BY <1>1, <1>3, <1>15, MoneyReceivedSums
    <3>2. DOMAIN FromDistricts(w) = DistrictsOf(w)
      BY DEF FromDistricts
    <3> QED
      BY <3>1, <3>2 DEF SumFunction
  <2>4. FromDistricts(w)[d] = db[d].D_YTD - w_ytd
    BY <1>4 DEF FromDistricts
  <2> QED
    BY <1>3, <1>6, <2>2, <2>3, <2>4
<1>17. db'[d].D_YTD = db[d].D_YTD + amount
  <2>1. db[d].D_YTD + amount <= Exact
    BY <1>3, <1>5, <1>6, <1>13, <1>16
  <2> QED
    BY <1>3, <1>5, <1>6, <1>11, <2>1, AddNaturals
<1> QED
  BY <1>3, <1>4, <1>5, <1>7, <1>8, <1>9, <1>13, <1>14, <1>15, <1>17, <1>19

(* The sums after the step are of the same rows.                            *)
LEMMA SumsAfter ==
    /\ SumFunction(ToWarehouses') = SumFunctionOnSet(ToWarehouses', WarehouseRows)
    /\ SumFunction(FromCustomers') = SumFunctionOnSet(FromCustomers', CustomerRows)
<1>1. DOMAIN ToWarehouses' = WarehouseRows /\ DOMAIN FromCustomers' = CustomerRows
  BY DEF ToWarehouses, FromCustomers
<1> QED
  BY <1>1 DEF SumFunction

LEMMA CommitPayment ==
    ASSUME MoneyInv, NEW x \in Workers, Commit(x), txn[x].kind = "Payment", SumsExact'
    PROVE  /\ \A d \in DistrictRows : db'[d].D_YTD >= w_ytd
           /\ \A r \in WarehouseRows :
                 db'[r].W_YTD - w_ytd = SumFunction(FromDistricts(r)')
           /\ SumFunction(ToWarehouses') = SumFunction(FromCustomers') + uncharged'
<1>1. SumsExact
  BY PaymentExact
<1>2. PICK w \in WarehouseRows, c \in CustomerRows, amount \in Nat, charge \in Nat :
        \E d \in DistrictsOf(w) :
           /\ db'[w].W_YTD = db[w].W_YTD + amount
           /\ \A r \in WarehouseRows \ {w} : db'[r].W_YTD = db[r].W_YTD
           /\ db'[d].D_YTD = db[d].D_YTD + amount
           /\ \A r \in DistrictRows \ {d} : db'[r].D_YTD = db[r].D_YTD
           /\ db'[c].C_YTD_PAYMENT = db[c].C_YTD_PAYMENT + charge
           /\ \A r \in CustomerRows \ {c} : db'[r].C_YTD_PAYMENT = db[r].C_YTD_PAYMENT
           /\ uncharged' = uncharged + (amount - charge)
  BY PaymentExact
<1>3. PICK d \in DistrictsOf(w) :
        /\ db'[w].W_YTD = db[w].W_YTD + amount
        /\ \A r \in WarehouseRows \ {w} : db'[r].W_YTD = db[r].W_YTD
        /\ db'[d].D_YTD = db[d].D_YTD + amount
        /\ \A r \in DistrictRows \ {d} : db'[r].D_YTD = db[r].D_YTD
        /\ db'[c].C_YTD_PAYMENT = db[c].C_YTD_PAYMENT + charge
        /\ \A r \in CustomerRows \ {c} : db'[r].C_YTD_PAYMENT = db[r].C_YTD_PAYMENT
        /\ uncharged' = uncharged + (amount - charge)
  BY <1>2
<1>4. d \in DistrictRows /\ d[2] = w[2]
  BY DEF DistrictsOf
<1>5. /\ w_ytd \in Nat
      /\ \A r \in WarehouseRows : db[r].W_YTD \in Nat
      /\ \A r \in DistrictRows : db[r].D_YTD \in Nat
      /\ \A r \in CustomerRows : db[r].C_YTD_PAYMENT \in Nat
  BY TTransactionAssumption DEF MoneyInv, TInv, TypeOK
<1>6. \A e \in DistrictRows : db[e].D_YTD >= w_ytd
  BY <1>1 DEF MoneyInv, DistrictsReceive
<1>7. /\ \A r \in WarehouseRows : db[r].W_YTD - w_ytd = SumFunction(FromDistricts(r))
      /\ SumFunction(ToWarehouses) = SumFunction(FromCustomers) + uncharged
  BY <1>1, MoneyReceivedSums DEF MoneyInv
<1>8. TInv
  BY DEF MoneyInv
<1>9. ASSUME NEW e \in DistrictRows PROVE db'[e].D_YTD >= w_ytd
  BY <1>3, <1>4, <1>5, <1>6
<1>10. ASSUME NEW r \in WarehouseRows
       PROVE  db'[r].W_YTD - w_ytd = SumFunction(FromDistricts(r)')
  <2> DEFINE f == FromDistricts(r)
             g == FromDistricts(r)'
             S == DistrictsOf(r)
  <2>1. /\ \A e \in S : f[e] = db[e].D_YTD - w_ytd /\ g[e] = db'[e].D_YTD - w_ytd
        /\ \A e \in S : e \in DistrictRows
    BY DEF FromDistricts, DistrictsOf
  <2>2. IsFiniteSet(S) /\ \A e \in S : f[e] \in Int
    BY <1>8, MoneySums
  <2>3. SumFunction(f) = SumFunctionOnSet(f, S) /\ SumFunction(g) = SumFunctionOnSet(g, S)
    <3>1. DOMAIN f = S /\ DOMAIN g = S
      BY DEF FromDistricts
    <3> HIDE DEF f, g, S
    <3> QED
      BY <3>1 DEF SumFunction
  <2>4. db[r].W_YTD - w_ytd = SumFunctionOnSet(f, S)
    BY <1>7, <2>3
  <2>5. CASE r = w
    <3>1. d \in S
      BY <2>5
    <3> HIDE DEF f, g, S
    <3>2. g[d] = f[d] + amount /\ \A e \in S \ {d} : g[e] = f[e]
      BY <1>3, <1>4, <1>5, <2>1, <3>1
    <3>3. SumFunctionOnSet(g, S) = SumFunctionOnSet(f, S) + amount
      BY <2>2, <3>1, <3>2, SumChanges
    <3>4. db'[r].W_YTD - w_ytd = (db[r].W_YTD - w_ytd) + amount
      BY <1>3, <1>5, <2>5
    <3> QED
      BY <2>3, <2>4, <3>3, <3>4 DEF g
  <2>6. CASE r # w
    <3>1. r[2] # w[2]
      BY <2>6, Tables
    <3>2. d \notin S
      BY <1>4, <3>1 DEF DistrictsOf
    <3> HIDE DEF f, g, S
    <3>3. \A e \in S : g[e] = f[e]
      BY <1>3, <2>1, <3>2
    <3>4. SumFunctionOnSet(g, S) = SumFunctionOnSet(f, S)
      BY <2>2, <3>3, SumOfSame
    <3>5. db'[r].W_YTD = db[r].W_YTD
      BY <1>3, <2>6
    <3> QED
      BY <2>3, <2>4, <3>4, <3>5 DEF g
  <2> QED
    BY <2>5, <2>6
<1>11. SumFunction(ToWarehouses') = SumFunction(ToWarehouses) + amount
  <2> DEFINE f == ToWarehouses
             g == ToWarehouses'
  <2>1. \A r \in WarehouseRows : f[r] = db[r].W_YTD - w_ytd /\ g[r] = db'[r].W_YTD - w_ytd
    BY DEF ToWarehouses
  <2>2. \A r \in WarehouseRows : f[r] \in Int
    BY <1>8, MoneySums
  <2>3. /\ SumFunction(f) = SumFunctionOnSet(f, WarehouseRows)
        /\ SumFunction(g) = SumFunctionOnSet(g, WarehouseRows)
    BY <1>8, MoneySums, SumsAfter
  <2> HIDE DEF f, g
  <2>4. g[w] = f[w] + amount /\ \A r \in WarehouseRows \ {w} : g[r] = f[r]
    BY <1>3, <1>5, <2>1
  <2>5. SumFunctionOnSet(g, WarehouseRows) = SumFunctionOnSet(f, WarehouseRows) + amount
    BY <2>2, <2>4, FiniteRows, SumChanges
  <2> QED
    BY <2>3, <2>5 DEF f, g
<1>12. SumFunction(FromCustomers') = SumFunction(FromCustomers) + charge
  <2> DEFINE f == FromCustomers
             g == FromCustomers'
  <2>1. \A r \in CustomerRows :
           f[r] = db[r].C_YTD_PAYMENT - 10 /\ g[r] = db'[r].C_YTD_PAYMENT - 10
    BY DEF FromCustomers
  <2>2. \A r \in CustomerRows : f[r] \in Int
    BY <1>8, MoneySums
  <2>3. /\ SumFunction(f) = SumFunctionOnSet(f, CustomerRows)
        /\ SumFunction(g) = SumFunctionOnSet(g, CustomerRows)
    BY <1>8, MoneySums, SumsAfter
  <2> HIDE DEF f, g
  <2>4. g[c] = f[c] + charge /\ \A r \in CustomerRows \ {c} : g[r] = f[r]
    BY <1>3, <1>5, <2>1
  <2>5. SumFunctionOnSet(g, CustomerRows) = SumFunctionOnSet(f, CustomerRows) + charge
    BY <2>2, <2>4, FiniteRows, SumChanges
  <2> QED
    BY <2>3, <2>5 DEF f, g
<1>13. SumFunction(ToWarehouses') = SumFunction(FromCustomers') + uncharged'
  <2> DEFINE paid == SumFunction(FromCustomers)
             received == SumFunction(ToWarehouses)
  <2>1. paid \in Int
    BY <1>8, MoneySums, FiniteRows, SumType
  <2>2. uncharged \in Nat
    BY <1>8 DEF TInv, TypeOK
  <2>3. received = paid + uncharged /\ uncharged' = uncharged + (amount - charge)
    BY <1>3, <1>7
  <2> HIDE DEF paid, received
  <2>4. received + amount = (paid + charge) + uncharged'
    BY <2>1, <2>2, <2>3
  <2> QED
    BY <1>11, <1>12, <2>4 DEF paid, received
<1> QED
  BY <1>9, <1>10, <1>13

(* Steps that move no money.                                                *)
LEMMA MoneyStays ==
    ASSUME DistrictsReceive, MoneyReceived,
           \A r \in WarehouseRows : db'[r].W_YTD = db[r].W_YTD,
           \A r \in DistrictRows : db'[r].D_YTD = db[r].D_YTD,
           \A r \in CustomerRows : db'[r].C_YTD_PAYMENT = db[r].C_YTD_PAYMENT,
           uncharged' = uncharged
    PROVE  (DistrictsReceive /\ MoneyReceived)'
<1>1. SumsExact' <=> SumsExact
  BY DEF SumsExact
<1>2. ToWarehouses' = ToWarehouses /\ FromCustomers' = FromCustomers
  BY DEF ToWarehouses, FromCustomers
<1>3. ASSUME NEW r PROVE FromDistricts(r)' = FromDistricts(r)
  BY DEF FromDistricts, DistrictsOf
<1>4. DistrictsReceive'
  BY <1>1 DEF DistrictsReceive
<1>5. ASSUME SumsExact'
      PROVE  /\ \A r \in WarehouseRows :
                   db'[r].W_YTD - w_ytd = SumFunction(FromDistricts(r)')
             /\ SumFunction(ToWarehouses') = SumFunction(FromCustomers') + uncharged'
  <2>1. /\ \A r \in WarehouseRows : db[r].W_YTD - w_ytd = SumFunction(FromDistricts(r))
        /\ SumFunction(ToWarehouses) = SumFunction(FromCustomers) + uncharged
    BY <1>1, <1>5, MoneyReceivedSums
  <2>2. ASSUME NEW r \in WarehouseRows
        PROVE  db'[r].W_YTD - w_ytd = SumFunction(FromDistricts(r)')
    <3>1. db[r].W_YTD - w_ytd = SumFunction(FromDistricts(r)) /\ db'[r].W_YTD = db[r].W_YTD
      BY <2>1
    <3>2. FromDistricts(r)' = FromDistricts(r)
      BY <1>3
    <3> QED
      BY <3>1, <3>2
  <2> QED
    BY <1>2, <2>1, <2>2
<1>6. MoneyReceived'
  BY <1>5 DEF MoneyReceived, FromDistricts, ToWarehouses, FromCustomers
<1> QED
  BY <1>4, <1>6

LEMMA CommitMoney ==
    ASSUME MoneyInv, NEW x \in Workers, Commit(x)
    PROVE  (DistrictsReceive /\ MoneyReceived)'
<1>1. TInv /\ Known(txn[x])
  BY ReadyTransaction DEF MoneyInv, Commit
<1>2. CASE txn[x].kind = "Payment"
  <2>1. ASSUME SumsExact'
        PROVE  /\ \A d \in DistrictRows : db'[d].D_YTD >= w_ytd
               /\ \A r \in WarehouseRows :
                     db'[r].W_YTD - w_ytd = SumFunction(FromDistricts(r)')
               /\ SumFunction(ToWarehouses') = SumFunction(FromCustomers') + uncharged'
    BY <1>2, <2>1, CommitPayment
  <2>2. DistrictsReceive'
    BY <2>1 DEF DistrictsReceive
  <2>3. MoneyReceived'
    BY <2>1 DEF MoneyReceived, FromDistricts, ToWarehouses, FromCustomers
  <2> QED
    BY <2>2, <2>3
<1>3. CASE txn[x].kind = "NewOrder"
  <2>1. ASSUME NEW r \in WarehouseRows PROVE db'[r].W_YTD = db[r].W_YTD
    BY <1>1, <1>3, CommitWarehouse
  <2>2. ASSUME NEW r \in CustomerRows PROVE db'[r].C_YTD_PAYMENT = db[r].C_YTD_PAYMENT
    BY <1>1, <1>3, CommitCustomer
  <2>3. ASSUME NEW r \in DistrictRows PROVE db'[r].D_YTD = db[r].D_YTD
    <3>1. db[r] \in [D_YTD : Nat, D_NEXT_O_ID : Nat]
      BY <1>1 DEF TInv, TypeOK
    <3>2. db'[r] = IF r # district(txn[x]) THEN db[r]
                   ELSE [db[r] EXCEPT !.D_NEXT_O_ID = @ + 1]
      BY <1>1, <1>3, CommitDistrict
    <3> QED
      BY <3>1, <3>2
  <2>4. uncharged' = uncharged
    BY <1>1, <1>3 DEF Commit, TInv, TypeOK
  <2> QED
    BY <2>1, <2>2, <2>3, <2>4, MoneyStays DEF MoneyInv
<1> QED
  BY <1>1, <1>2, <1>3 DEF Known

LEMMA InitMoney == Init => DistrictsReceive /\ MoneyReceived
<1> SUFFICES ASSUME Init PROVE DistrictsReceive /\ MoneyReceived
  OBVIOUS
<1>1. w_ytd \in Nat /\ TInv
  BY TTransactionAssumption, InitTInv
<1>2. /\ \A r \in WarehouseRows : db[r].W_YTD = w_ytd
      /\ \A r \in DistrictRows : db[r].D_YTD = w_ytd
      /\ \A r \in CustomerRows : db[r].C_YTD_PAYMENT = 10
  BY InitRows
<1>3. DistrictsReceive
  BY <1>1, <1>2 DEF DistrictsReceive
<1>4. ASSUME NEW f, NEW S, IsFiniteSet(S), DOMAIN f = S, \A y \in S : f[y] = 0
      PROVE  SumFunction(f) = 0
  <2>1. SumFunctionOnSet(f, S) = 0
    BY <1>4, SumOfNothing
  <2> QED
    BY <1>4, <2>1 DEF SumFunction
<1>5. ASSUME NEW r \in WarehouseRows PROVE SumFunction(FromDistricts(r)) = 0
  <2>1. /\ DOMAIN FromDistricts(r) = DistrictsOf(r)
        /\ \A d \in DistrictsOf(r) : FromDistricts(r)[d] = 0
    BY <1>1, <1>2 DEF FromDistricts, DistrictsOf
  <2>2. IsFiniteSet(DistrictsOf(r))
    BY <1>1, MoneySums
  <2> QED
    BY <1>4, <2>1, <2>2
<1>6. SumFunction(ToWarehouses) = 0
  <2>1. DOMAIN ToWarehouses = WarehouseRows /\ \A r \in WarehouseRows : ToWarehouses[r] = 0
    BY <1>1, <1>2 DEF ToWarehouses
  <2> QED
    BY <1>4, <2>1, FiniteRows
<1>7. SumFunction(FromCustomers) = 0
  <2>1. DOMAIN FromCustomers = CustomerRows /\ \A r \in CustomerRows : FromCustomers[r] = 0
    BY <1>2 DEF FromCustomers
  <2> QED
    BY <1>4, <2>1, FiniteRows
<1>8. ASSUME NEW r \in WarehouseRows PROVE db[r].W_YTD - w_ytd = SumFunction(FromDistricts(r))
  BY <1>1, <1>2, <1>5
<1>9. uncharged = 0
  BY DEF Init
<1> QED
  BY <1>3, <1>6, <1>7, <1>8, <1>9, MoneyReceivedSums

(* While the sums are exact, what a warehouse has received is what its      *)
(* districts have received, and the customers have paid as much as the      *)
(* warehouses have received, less what was paid outside the execution       *)
(* phase: no payment is lost to another transaction, and no update of a     *)
(* payment that is due is seen without the others.                          *)
THEOREM MoneyReceivedCorrect == Spec => []MoneyReceived
<1>1. Init => MoneyInv
  BY InitTInv, InitMoney DEF MoneyInv
<1>2. MoneyInv /\ [Next]_vars => MoneyInv'
  <2> SUFFICES ASSUME MoneyInv, [Next]_vars PROVE MoneyInv'
    OBVIOUS
  <2>1. TInv'
    BY TStep DEF MoneyInv
  <2>2. CASE UNCHANGED <<db, orders, uncharged>>
    <3>1. (DistrictsReceive /\ MoneyReceived)'
      BY <2>2, MoneyStays DEF MoneyInv
    <3> QED
      BY <2>1, <3>1 DEF MoneyInv
  <2>3. ASSUME NEW x \in Workers, Commit(x) PROVE MoneyInv'
    BY <2>1, <2>3, CommitMoney DEF MoneyInv
  <2> QED
    BY <2>2, <2>3, OnlyCommits
<1>3. MoneyInv => MoneyReceived
  BY DEF MoneyInv
<1> QED
  BY <1>1, <1>2, <1>3, PTL DEF Spec

=================================================================================
