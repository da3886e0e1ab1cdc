\* Two workers, three transactions.  Loaded are the warehouses 0 .. 2, with the
\* districts 0 and 1, the customers 0 and 1, the items 0 .. 2; drawn are the
\* warehouses 1 and 2, the districts 1 and 2: the second one is not found.
CONSTANTS
    x1 = x1
    x2 = x2
    NoTxn = NoTxn
    Workers = {x1, x2}
    w_cnt = 3
    d_cnt = 2
    c_cnt = 2
    i_cnt = 3
    partition_num = 2
    n_district = 2
    Customers = {1}
    Items = {1, 2}
    LineCounts = {2}
    Quantities = {10}
    Amounts = {3}
    InitialStock <- BoundaryStock
    w_ytd = 2
    Exact = 16
    MaxTxns = 3
SPECIFICATION Spec
SYMMETRY Interchangeable
INVARIANTS
    TypeOK
    OrdersNumbered
    StockAccounts
    MoneyReceived
    BalanceMirrors
CHECK_DEADLOCK FALSE
