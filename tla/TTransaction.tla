------------------------------ MODULE TTransaction ------------------------------
(***************************************************************************)
(* benchmark/TPCC/TTransaction.h and TWorkload.h: the New-Order and        *)
(* Payment transactions, run by workers on one database.                   *)
(*                                                                         *)
(* The base class Transaction is not part of the repository.  What execute *)
(* relies on is modelled as external: process_requests gives the values of *)
(* all rows asked for, and keeps the rows, or reports that the transaction *)
(* must abort; update writes to a buffer that a commit installs; whoever   *)
(* runs the transaction decides whether it is in its execution_phase.      *)
(*                                                                         *)
(* write_to_w_ytd is on (TContext.h:19).  Left out: names, prices, taxes   *)
(* and amounts of money of a New-Order, the text of C_DATA and H_DATA, the *)
(* order lines and the history row filled in the execution phase, and the  *)
(* replication messages, which are computed and read by nobody.            *)
(***************************************************************************)
EXTENDS TQuery, FiniteSetsExt

CONSTANTS
    Workers,
    NoTxn,           \* no transaction
    w_cnt,           \* the warehouses loaded, TContext::w
    d_cnt,           \* the districts loaded for each warehouse: 10
    c_cnt,           \* the customers loaded for each district: 3000
    i_cnt,           \* the items loaded, TContext::i_cnt
    InitialStock,    \* InitialStock[r]: S_QUANTITY of stock row r; the loader
                     \* draws 100 .. 1000, a smaller stock is restocked sooner
    w_ytd,           \* TContext::w_ytd
    Exact,           \* the integers a float has bits for: 2^24
    MaxTxns          \* bound: transactions created

ASSUME TTransactionAssumption ==
    /\ w_cnt \in Nat /\ d_cnt \in Nat /\ c_cnt \in Nat /\ i_cnt \in Nat
    /\ w_ytd \in Nat
    /\ Exact \in Nat \ {0}
    /\ MaxTxns \in Nat

(* The loaders number from 0; the generators of TQuery draw from 1.        *)
WarehouseRows == {"warehouse"} \X (0 .. w_cnt - 1)
DistrictRows == {"district"} \X (0 .. w_cnt - 1) \X (0 .. d_cnt - 1)
CustomerRows == {"customer"} \X (0 .. w_cnt - 1) \X (0 .. d_cnt - 1) \X (0 .. c_cnt - 1)
StockRows == {"stock"} \X (0 .. w_cnt - 1) \X (0 .. i_cnt - 1)
Rows == WarehouseRows \cup DistrictRows \cup CustomerRows \cup StockRows

ASSUME StockAssumption ==
    InitialStock \in [StockRows -> {n \in Nat : n >= 10}]

VARIABLES
    db,         \* the committed value of every row
    txn,        \* txn[x]: the transaction of worker x
    created,    \* how many transactions were created
    orders,     \* the orders of the committed New-Orders
    uncharged   \* what committed Payments did not charge their customers

vars == <<db, txn, created, orders, uncharged>>

InitialWarehouse == [W_YTD |-> w_ytd]
InitialDistrict == [D_YTD |-> w_ytd, D_NEXT_O_ID |-> w_ytd + 1]
InitialCustomer == [C_BALANCE |-> -10, C_YTD_PAYMENT |-> 10, C_PAYMENT_CNT |-> 1]
InitialStockRow(quantity) ==
    [S_QUANTITY |-> quantity, S_YTD |-> 0, S_ORDER_CNT |-> 0, S_REMOTE_CNT |-> 0]

InitialRow(r) ==
    CASE r[1] = "warehouse" -> InitialWarehouse
      [] r[1] = "district"  -> InitialDistrict
      [] r[1] = "customer"  -> InitialCustomer
      [] r[1] = "stock"     -> InitialStockRow(InitialStock[r])

Init ==
    /\ db = [r \in Rows |-> InitialRow(r)]
    /\ txn = [x \in Workers |-> NoTxn]
    /\ created = 0
    /\ orders = {}
    /\ uncharged = 0

-----------------------------------------------------------------------------
(* Float addition: a sum too large for the bits of a float is rounded to   *)
(* the nearest multiple of the least power of two that leaves few enough   *)
(* bits, to an even multiple if two are as near.                           *)
Units(n) == {u \in {2^k : k \in 0 .. n \div Exact + 1} : n <= u * Exact}

RoundFloat(n) ==
    LET unit == Min(Units(n))
        below == n \div unit
        rest == n % unit
        up == 2 * rest > unit \/ (2 * rest = unit /\ below % 2 = 1)
    IN  IF up THEN (below + 1) * unit ELSE below * unit

FloatAdd(a, b) == IF a + b >= 0 THEN RoundFloat(a + b) ELSE -RoundFloat(-(a + b))

-----------------------------------------------------------------------------
(* The rows the two transactions search for. *)
warehouse(t) == <<"warehouse", t.W_ID>>
district(t) == <<"district", t.W_ID, t.query.D_ID>>
customer(t) == IF t.kind = "NewOrder"
               THEN <<"customer", t.W_ID, t.query.D_ID, t.query.C_ID>>
               ELSE <<"customer", t.query.C_W_ID, t.query.C_D_ID, t.query.C_ID>>
stock(line) == <<"stock", line.OL_SUPPLY_W_ID, line.OL_I_ID>>

Lines(t) == {t.query.INFO[i] : i \in DOMAIN t.query.INFO}

search_for_update(t) ==
    IF t.kind = "NewOrder" THEN {district(t)} \cup {stock(line) : line \in Lines(t)}
                           ELSE {warehouse(t), district(t), customer(t)}

search_for_read(t) ==
    IF t.kind = "NewOrder" THEN {warehouse(t), customer(t)} ELSE {}

(* If I_ID has an unused value, rollback. *)
Rollback(t) == t.kind = "NewOrder" /\ \E line \in Lines(t) : line.OL_I_ID = 0

-----------------------------------------------------------------------------
(* What execute makes of the values v of the rows. *)

(* Mutant: a row is never restocked. *)
TakeStockUnfilled(quantity, ordered) == quantity - ordered

TakeStock(quantity, ordered) ==
    IF quantity >= ordered + 10 THEN quantity - ordered ELSE quantity - ordered + 91

OrderLine(v, line, W_ID) ==
    [S_QUANTITY   |-> TakeStock(v.S_QUANTITY, line.OL_QUANTITY),
     S_YTD        |-> FloatAdd(v.S_YTD, line.OL_QUANTITY),
     S_ORDER_CNT  |-> v.S_ORDER_CNT + 1,
     S_REMOTE_CNT |-> v.S_REMOTE_CNT + IF line.OL_SUPPLY_W_ID # W_ID THEN 1 ELSE 0]

(* update(stock) of one line after the other: each has values of its own,  *)
(* so a later line of the same row replaces an earlier one.                *)
LastLine(t, r) ==
    CHOOSE i \in DOMAIN t.query.INFO :
        /\ stock(t.query.INFO[i]) = r
        /\ \A k \in DOMAIN t.query.INFO : stock(t.query.INFO[k]) = r => k <= i

NewOrderUpdates(t, v) ==
    [r \in search_for_update(t) |->
        IF r = district(t) THEN [v[r] EXCEPT !.D_NEXT_O_ID = @ + 1]
        ELSE OrderLine(v[r], t.query.INFO[LastLine(t, r)], t.W_ID)]

Receives(row, amount) == [row EXCEPT !.W_YTD = FloatAdd(@, amount)]
Collects(row, amount) == [row EXCEPT !.D_YTD = FloatAdd(@, amount)]

(* Mutant: the payment is added to the balance. *)
OwesMore(t, row) ==
    IF t.execution_phase
    THEN [C_BALANCE     |-> FloatAdd(row.C_BALANCE, t.query.H_AMOUNT),
          C_YTD_PAYMENT |-> FloatAdd(row.C_YTD_PAYMENT, t.query.H_AMOUNT),
          C_PAYMENT_CNT |-> row.C_PAYMENT_CNT + 1]
    ELSE row

(* Outside the execution phase the customer is written back as he was.     *)
Pays(t, row) ==
    IF t.execution_phase
    THEN [C_BALANCE     |-> FloatAdd(row.C_BALANCE, -t.query.H_AMOUNT),
          C_YTD_PAYMENT |-> FloatAdd(row.C_YTD_PAYMENT, t.query.H_AMOUNT),
          C_PAYMENT_CNT |-> row.C_PAYMENT_CNT + 1]
    ELSE row

(* Mutant: the district is not updated. *)
PaymentWithoutDistrict(t, v) ==
    [r \in search_for_update(t) |->
        CASE r = warehouse(t) -> Receives(v[r], t.query.H_AMOUNT)
          [] r = district(t)  -> v[r]
          [] r = customer(t)  -> Pays(t, v[r])]

PaymentUpdates(t, v) ==
    [r \in search_for_update(t) |->
        CASE r = warehouse(t) -> Receives(v[r], t.query.H_AMOUNT)
          [] r = district(t)  -> Collects(v[r], t.query.H_AMOUNT)
          [] r = customer(t)  -> Pays(t, v[r])]

Updates(t) == IF t.kind = "NewOrder" THEN NewOrderUpdates(t, t.seen)
                                     ELSE PaymentUpdates(t, t.seen)

(* storage.order_key and order_value, with the items the query asks for.   *)
(* Nothing inserts them into a table: they are what a commit would have to *)
(* insert.                                                                 *)
Order(t, v) ==
    [W_ID |-> t.W_ID, D_ID |-> t.query.D_ID, O_ID |-> v[district(t)].D_NEXT_O_ID,
     O_ALL_LOCAL |-> ~isRemote(t.query), INFO |-> t.query.INFO]

-----------------------------------------------------------------------------
(* partition_id + 1 is both the query's warehouse and execute's.           *)
next_transaction(x) ==
    /\ txn[x] = NoTxn
    /\ created < MaxTxns
    /\ created' = created + 1
    /\ \E w \in Warehouses :
          \/ \E q \in makeNewOrderQuery(w) :
                txn' = [txn EXCEPT ![x] = [at |-> "new", kind |-> "NewOrder", W_ID |-> w, query |-> q]]
          \/ \E q \in makePaymentQuery(w) :
                txn' = [txn EXCEPT ![x] = [at |-> "new", kind |-> "Payment", W_ID |-> w, query |-> q]]
    /\ UNCHANGED <<db, orders, uncharged>>

(* External: the rows another worker keeps. *)
Kept(y) == IF txn[y] # NoTxn /\ txn[y].at = "ready"
           THEN [update |-> search_for_update(txn[y]), read |-> search_for_read(txn[y])]
           ELSE [update |-> {}, read |-> {}]

Conflict(x) == \E y \in Workers \ {x} :
    \/ search_for_update(txn[x]) \cap (Kept(y).update \cup Kept(y).read) # {}
    \/ search_for_read(txn[x]) \cap Kept(y).update # {}

(* Mutant: the order number is taken before the items are looked at. *)
RollsBackLate(x) ==
    /\ txn[x] # NoTxn
    /\ txn[x].at = "new"
    /\ Rollback(txn[x])
    /\ txn' = [txn EXCEPT ![x] = NoTxn]
    /\ district(txn[x]) \in Rows
    /\ db' = [db EXCEPT ![district(txn[x])].D_NEXT_O_ID = @ + 1]
    /\ UNCHANGED <<created, orders, uncharged>>

(* execute, up to a result.  After process_requests it works on the        *)
(* transaction's own storage only.                                         *)
ExecuteRollsBack(x) ==
    /\ txn[x] # NoTxn
    /\ txn[x].at = "new"
    /\ Rollback(txn[x])
    /\ txn' = [txn EXCEPT ![x] = NoTxn]
    /\ UNCHANGED <<db, created, orders, uncharged>>

ExecuteAborts(x) ==
    /\ txn[x] # NoTxn
    /\ txn[x].at = "new"
    /\ ~Rollback(txn[x])
    /\ Conflict(x)
    /\ txn' = [txn EXCEPT ![x].at = "aborted"]
    /\ UNCHANGED <<db, created, orders, uncharged>>

(* External: in the execution phase or not.  Of a New-Order the phase       *)
(* decides only about the order lines, which are left out.                 *)
Phases(t) == IF t.kind = "Payment" THEN BOOLEAN ELSE {TRUE}

(* A row that no table holds, as the one of the highest number a generator *)
(* can draw, is not found: the worker does not get any further.            *)
ExecuteReady(x) ==
    /\ txn[x] # NoTxn
    /\ txn[x].at = "new"
    /\ ~Rollback(txn[x])
    /\ search_for_update(txn[x]) \cup search_for_read(txn[x]) \subseteq Rows
    /\ ~Conflict(x)
    /\ \E phase \in Phases(txn[x]) :
          txn' = [txn EXCEPT ![x] =
                    [at |-> "ready", kind |-> @.kind, W_ID |-> @.W_ID, query |-> @.query,
                     execution_phase |-> phase,
                     seen |-> [r \in search_for_update(@) |-> db[r]]]]
    /\ UNCHANGED <<db, created, orders, uncharged>>

(* External: the buffer is installed, or an aborted transaction executes   *)
(* its query again.                                                        *)
Commit(x) ==
    /\ txn[x] # NoTxn
    /\ txn[x].at = "ready"
    /\ db' = [r \in Rows |-> IF r \in search_for_update(txn[x])
                             THEN Updates(txn[x])[r] ELSE db[r]]
    /\ orders' = orders \cup IF txn[x].kind = "NewOrder"
                             THEN {Order(txn[x], txn[x].seen)} ELSE {}
    /\ uncharged' = uncharged + IF txn[x].kind = "Payment" /\ ~txn[x].execution_phase
                                THEN txn[x].query.H_AMOUNT ELSE 0
    /\ txn' = [txn EXCEPT ![x] = NoTxn]
    /\ UNCHANGED created

Retry(x) ==
    /\ txn[x] # NoTxn
    /\ txn[x].at = "aborted"
    /\ txn' = [txn EXCEPT ![x].at = "new"]
    /\ UNCHANGED <<db, created, orders, uncharged>>

(* The generators get partition_id, without the + 1 of the constructors.   *)
reset_query(x) ==
    /\ txn[x] # NoTxn
    /\ txn[x].at = "aborted"
    /\ \E q \in IF txn[x].kind = "NewOrder" THEN makeNewOrderQuery(txn[x].W_ID - 1)
                                            ELSE makePaymentQuery(txn[x].W_ID - 1) :
          txn' = [txn EXCEPT ![x].at = "new", ![x].query = q]
    /\ UNCHANGED <<db, created, orders, uncharged>>

Next == \E x \in Workers :
    \/ next_transaction(x)
    \/ ExecuteRollsBack(x) \/ ExecuteAborts(x) \/ ExecuteReady(x)
    \/ Commit(x) \/ Retry(x) \/ reset_query(x)

Spec == Init /\ [][Next]_vars

-----------------------------------------------------------------------------
(* Properties. *)
NewOrderQueries == UNION {makeNewOrderQuery(w) : w \in {0} \cup Warehouses}
PaymentQueries == UNION {makePaymentQuery(w) : w \in {0} \cup Warehouses}

Transactions(at) ==
    [at : at, kind : {"NewOrder"}, W_ID : Warehouses, query : NewOrderQueries]
    \cup [at : at, kind : {"Payment"}, W_ID : Warehouses, query : PaymentQueries]

Asked(t) == [at |-> t.at, kind |-> t.kind, W_ID |-> t.W_ID, query |-> t.query]

TypeOK ==
    /\ DOMAIN db = Rows
    /\ \A r \in WarehouseRows : db[r] \in [W_YTD : Nat]
    /\ \A r \in DistrictRows : db[r] \in [D_YTD : Nat, D_NEXT_O_ID : Nat]
    /\ \A r \in CustomerRows :
          db[r] \in [C_BALANCE : Int, C_YTD_PAYMENT : Nat, C_PAYMENT_CNT : Nat]
    /\ \A r \in StockRows :
          db[r] \in [S_QUANTITY : Nat, S_YTD : Nat, S_ORDER_CNT : Nat, S_REMOTE_CNT : Nat]
    /\ DOMAIN txn = Workers
    /\ \A x \in Workers :
          \/ txn[x] = NoTxn
          \/ txn[x] \in Transactions({"new", "aborted"})
          \/ /\ txn[x].at = "ready" /\ Asked(txn[x]) \in Transactions({"ready"})
             /\ txn[x].execution_phase \in BOOLEAN
    /\ created \in 0 .. MaxTxns
    /\ IsFiniteSet(orders)
    /\ uncharged \in Nat

OrdersOf(r) == {o \in orders : <<"district", o.W_ID, o.D_ID>> = r}

(* The orders of a district are numbered one after the other, without a    *)
(* gap for transactions that rolled back or aborted, and no number is      *)
(* given twice.                                                            *)
OrdersNumbered == \A r \in DistrictRows :
    /\ {o.O_ID : o \in OrdersOf(r)} = w_ytd + 1 .. db[r].D_NEXT_O_ID - 1
    /\ \A o, p \in OrdersOf(r) : o.O_ID = p.O_ID => o = p

LinesOf(r) ==
    {l \in orders \X (1 .. 15) : l[2] \in DOMAIN l[1].INFO /\ stock(l[1].INFO[l[2]]) = r}

Ordered(r) == SumFunction([l \in LinesOf(r) |-> l[1].INFO[l[2]].OL_QUANTITY])

(* The counters of a stock row agree with the lines of the orders, and the *)
(* quantity is what the lines and the restocking by 91 have made of it, at *)
(* least 10.                                                               *)
StockAccounts == \A r \in StockRows :
    /\ db[r].S_ORDER_CNT = Cardinality(LinesOf(r))
    /\ db[r].S_REMOTE_CNT = Cardinality({l \in LinesOf(r) : l[1].W_ID # r[2]})
    /\ Ordered(r) <= Exact => db[r].S_YTD = Ordered(r)
    /\ db[r].S_QUANTITY >= 10
    /\ (InitialStock[r] - Ordered(r) - db[r].S_QUANTITY) % 91 = 0

(* While a float can hold the sums: what a warehouse has received is what  *)
(* its districts have received, and what the customers have paid is what   *)
(* the warehouses have received, less the payments made outside the        *)
(* execution phase: those are received and charged to nobody.              *)
SumsExact ==
    /\ \A r \in WarehouseRows : db[r].W_YTD < Exact
    /\ \A r \in CustomerRows : db[r].C_YTD_PAYMENT < Exact

DistrictsOf(r) == {d \in DistrictRows : d[2] = r[2]}

MoneyReceived == SumsExact =>
    /\ \A r \in WarehouseRows :
          db[r].W_YTD - w_ytd = SumFunction([d \in DistrictsOf(r) |-> db[d].D_YTD - w_ytd])
    /\ SumFunction([r \in WarehouseRows |-> db[r].W_YTD - w_ytd]) =
             SumFunction([c \in CustomerRows |-> db[c].C_YTD_PAYMENT - 10]) + uncharged

(* A customer's balance is the negative of what he has paid, even when     *)
(* both are rounded.                                                       *)
BalanceMirrors == \A r \in CustomerRows : db[r].C_BALANCE = -db[r].C_YTD_PAYMENT

(* Why, as an inductive invariant.  A transaction that is ready has found   *)
(* its rows and no unused item, and keeps the rows: what it has seen of     *)
(* them is what they still are, and two that are ready are apart.           *)
SeenIsCurrent == \A x \in Workers :
    txn[x] # NoTxn /\ txn[x].at = "ready" =>
        /\ ~Rollback(txn[x])
        /\ search_for_update(txn[x]) \cup search_for_read(txn[x]) \subseteq Rows
        /\ txn[x].seen = [r \in search_for_update(txn[x]) |-> db[r]]

ReadyApart == \A x, y \in Workers :
    x # y => Kept(x).update \cap (Kept(y).update \cup Kept(y).read) = {}

OrdersAsked ==
    /\ \A o \in orders : \E q \in NewOrderQueries : o.INFO = q.INFO
    /\ \A r \in DistrictRows : db[r].D_NEXT_O_ID > w_ytd

(* No district has received less than it started with, so none has         *)
(* received more than its warehouse.                                        *)
DistrictsReceive == SumsExact => \A d \in DistrictRows : db[d].D_YTD >= w_ytd

TInv == TypeOK /\ SeenIsCurrent /\ ReadyApart
NumberInv == TInv /\ OrdersAsked /\ OrdersNumbered
MoneyInv == TInv /\ DistrictsReceive /\ MoneyReceived

=================================================================================
