--------------------------------- MODULE TQuery ---------------------------------
(***************************************************************************)
(* benchmark/TPCC/TQuery.h: the queries the two generators can return.     *)
(* Random numbers are choices; a probability only says whether a choice    *)
(* exists.                                                                 *)
(***************************************************************************)
EXTENDS Integers, Sequences, FiniteSets

CONSTANTS
    partition_num,     \* warehouses are drawn from 1 .. partition_num,
    n_district,        \* districts from 1 .. n_district,
    Customers,         \* customers from 1 .. 3000,
    Items,             \* items from 1 .. 100000
    LineCounts,        \* 5 .. 15
    Quantities,        \* 1 .. 10
    Amounts            \* 1 .. 5000

ASSUME TQueryAssumption ==
    /\ partition_num \in Nat \ {0}
    /\ n_district \in Nat \ {0}
    /\ Items \subseteq Nat \ {0}
    /\ LineCounts \subseteq 1 .. 15
    /\ Quantities \subseteq 1 .. 10
    /\ Amounts \subseteq Nat \ {0}

Warehouses == 1 .. partition_num
Districts == 1 .. n_district

(* A warehouse drawn until it is not W_ID. *)
Remote(W_ID) == IF partition_num > 1 THEN Warehouses \ {W_ID} ELSE {}

(* Mutant: the generator does not look at the items already drawn. *)
AnyItems(n) == [1 .. n -> Items]

(* An item is drawn again when a line before has it. *)
DistinctItems(n) ==
    {s \in [1 .. n -> Items] : \A i, k \in 1 .. n : i # k => s[i] # s[k]}

(* rbk = 1: the last item gets the unused number 0. *)
ItemLists(n) ==
    LET lists == DistinctItems(n)
    IN  lists \cup {[s EXCEPT ![n] = 0] : s \in lists}

(* Only the first line may be supplied by another warehouse. *)
makeNewOrderQuery(W_ID) ==
    UNION {
        {[W_ID |-> W_ID, D_ID |-> d, C_ID |-> c,
          INFO |-> [i \in 1 .. n |->
                      [OL_I_ID |-> s[i],
                       OL_SUPPLY_W_ID |-> IF i = 1 THEN first ELSE W_ID,
                       OL_QUANTITY |-> quantity[i]]]] :
            d \in Districts, c \in Customers, s \in ItemLists(n),
            first \in {W_ID} \cup Remote(W_ID), quantity \in [1 .. n -> Quantities]} :
        n \in LineCounts}

isRemote(query) ==
    \E i \in DOMAIN query.INFO : query.INFO[i].OL_SUPPLY_W_ID # query.W_ID

(* payment_look_up is off (TContext.h:20): customers are drawn by number. *)
makePaymentQuery(W_ID) ==
    {q \in [W_ID : {W_ID}, D_ID : Districts, C_ID : Customers,
            C_W_ID : {W_ID} \cup Remote(W_ID), C_D_ID : Districts, H_AMOUNT : Amounts] :
        q.C_W_ID = W_ID => q.C_D_ID = q.D_ID}

=================================================================================
