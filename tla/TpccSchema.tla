----------------------------- MODULE TpccSchema -----------------------------
(***************************************************************************)
(* The TPC-C tables (benchmarks/tpcc/tpcc.h) and what the loaders put in   *)
(* them (tpcc-config.h). A database is a function from the keys that are   *)
(* present to their values; a key is a tuple that starts with the name of  *)
(* its table, and a value keeps the fields the transactions compute with.  *)
(* Money is a whole number; ol_delivered says that a delivery has written  *)
(* ol_delivery_d. Names, addresses and the other texts, the tax  *)
(* and the discount are left out, so nation, region, supplier, item,       *)
(* stock_data and customer_name_idx are keys without a value.              *)
(***************************************************************************)
EXTENDS Integers, Sequences, FiniteSets, FiniteSetsExt, SequencesExt

CONSTANTS
    NumWarehouses,              \* 10 by default (tpcc_scale_factor)
    NumDistrictsPerWarehouse,   \* 10
    NumCustomersPerDistrict,    \* 3000
    NumItems,                   \* 100000
    MinLines,                   \* 5
    MaxLines,                   \* 15
    FirstNewOrder,              \* 2101
    NumNations,                 \* 62
    NumRegions,                 \* 5
    NumSuppliers                \* 10000

WarehouseIds == 1..NumWarehouses
DistrictIds == 1..NumDistrictsPerWarehouse
CustomerIds == 1..NumCustomersPerDistrict
ItemIds == 1..NumItems

warehouse(w) == <<"warehouse", w>>
district(w, d) == <<"district", w, d>>
customer(w, d, c) == <<"customer", w, d, c>>
stock(w, i) == <<"stock", w, i>>
new_order(w, d, o) == <<"new_order", w, d, o>>
oorder(w, d, o) == <<"oorder", w, d, o>>
oorder_c_id_idx(w, d, c, o) == <<"oorder_c_id_idx", w, d, c, o>>
order_line(w, d, o, n) == <<"order_line", w, d, o, n>>
\* The six fields in the order of the struct: customer, customer's district
\* and warehouse, district, warehouse, date.
history(f1, f2, f3, d, w, date) == <<"history", f1, f2, f3, d, w, date>>

\* The price of an item: any fixed positive amounts.
i_price(i) == i
\* A record RemoveRecord left behind: a version of size 0.
Deleted == [deleted |-> TRUE]
Present(db, k) == k \in DOMAIN db /\ db[k] # Deleted

Only(db, table) == {k \in DOMAIN db : k[1] = table /\ db[k] # Deleted}

-----------------------------------------------------------------------------
(* What each loader inserts, as a sequence of transactions: each is the    *)
(* function from the keys it inserts to their values. The loaders draw at  *)
(* random the customer of each order (a permutation, draw.owner) and how   *)
(* many lines it has (draw.cnt); an order below 2101 is already delivered. *)

Upto(n, row(_)) == [i \in 1..n |-> row(i)]
All(n, rows(_)) == FlattenSeq([i \in 1..n |-> rows(i)])
Row(k, v) == k :> v
Keyed(table, i) == Row(<<table, i>>, <<>>)

warehouse_rows == Upto(NumWarehouses, LAMBDA w : Row(warehouse(w), [w_ytd |-> 300000]))
nation_rows == <<[k \in {<<"nation", n>> : n \in 1..NumNations} |-> <<>>]>>
region_rows == <<[k \in {<<"region", n>> : n \in 0..(NumRegions - 1)} |-> <<>>]>>
supplier_rows == Upto(NumSuppliers, LAMBDA i : Keyed("supplier", i - 1))
item_rows == Upto(NumItems, LAMBDA i : Keyed("item", i))

stock_value(qty) == [s_quantity |-> qty, s_ytd |-> 0, s_remote_cnt |-> 0]
loaded_qty(i) == IF i = 1 THEN 10 ELSE 100
stock_rows(w) ==
    Upto(NumItems, LAMBDA i :
        Row(stock(w, i), stock_value(loaded_qty(i))) @@ Row(<<"stock_data", w, i>>, <<>>))

district_rows ==
    All(NumWarehouses, LAMBDA w : Upto(NumDistrictsPerWarehouse, LAMBDA d :
        Row(district(w, d),
            [d_ytd |-> 30000, d_next_o_id |-> NumCustomersPerDistrict + 1])))

\* The loader thread's counter, GetCurrentTimeMillis, is read twice for each
\* customer (c_since and h_date).
h_date(d, c) == 2 * ((d - 1) * NumCustomersPerDistrict + c) - 1
customer_rows(w) ==
    All(NumDistrictsPerWarehouse, LAMBDA d : All(NumCustomersPerDistrict, LAMBDA c :
        << Row(customer(w, d, c), [c_balance |-> -10, c_ytd_payment |-> 10,
                                   c_payment_cnt |-> 1, c_credit |-> "GC"]),
           Row(<<"customer_name_idx", w, d, c>>, <<>>),
           Row(history(c, d, w, d, w, h_date(d, c)), [h_amount |-> 10]) >>))

loaded_line(o, n) ==
    LET i == 1 + ((o + n) % NumItems)
    IN  [ol_i_id |-> i, ol_delivered |-> o < FirstNewOrder,
         ol_amount |-> IF o < FirstNewOrder THEN 0 ELSE i_price(i)]
order_rows(w, draw) ==
    All(NumDistrictsPerWarehouse, LAMBDA d : All(NumCustomersPerDistrict, LAMBDA o :
        << Row(oorder(w, d, o), [o_c_id |-> draw.owner[o],
                                 o_carrier_id |-> IF o < FirstNewOrder THEN 1 ELSE 0,
                                 o_ol_cnt |-> draw.cnt[o]]),
           Row(oorder_c_id_idx(w, d, draw.owner[o], o), <<>>) >>
        \o (IF o >= FirstNewOrder THEN <<Row(new_order(w, d, o), <<>>)>> ELSE <<>>)
        \o Upto(draw.cnt[o], LAMBDA n : Row(order_line(w, d, o, n), loaded_line(o, n)))))

\* make_loaders with parallel loading: one loader per table, and one per
\* warehouse for stock, customers and orders.
PerWarehouse(table) == Upto(NumWarehouses, LAMBDA w : <<table, w>>)
make_loaders ==
    << <<"warehouse">>, <<"nation">>, <<"region">>, <<"supplier">>, <<"item">> >>
        \o PerWarehouse("stock") \o << <<"district">> >>
        \o PerWarehouse("customer") \o PerWarehouse("order")

Rows(l, draw) ==
    CASE l[1] = "warehouse" -> warehouse_rows
      [] l[1] = "nation" -> nation_rows
      [] l[1] = "region" -> region_rows
      [] l[1] = "supplier" -> supplier_rows
      [] l[1] = "item" -> item_rows
      [] l[1] = "district" -> district_rows
      [] l[1] = "stock" -> stock_rows(l[2])
      [] l[1] = "customer" -> customer_rows(l[2])
      [] l[1] = "order" -> order_rows(l[2], draw)

Draws == [owner : {f \in [CustomerIds -> CustomerIds] : IsInjective(f)},
          cnt : [CustomerIds -> MinLines..MaxLines]]

\* The database all the loaders together leave.
Merge(rows) ==
    [k \in UNION {DOMAIN rows[i] : i \in DOMAIN rows} |->
        rows[CHOOSE i \in DOMAIN rows : k \in DOMAIN rows[i]][k]]
LoadedDb(draw) ==
    Merge(FlattenSeq([i \in DOMAIN make_loaders |-> Rows(make_loaders[i], draw)]))

\* supp_stock_map: the stock of supplier su, in the order the warehouse
\* loader pushes it.
supp_stock_map(su) ==
    SelectSeq(All(NumWarehouses, LAMBDA w : Upto(NumItems, LAMBDA i : <<w, i>>)),
              LAMBDA it : (it[1] * it[2]) % NumSuppliers = su)

-----------------------------------------------------------------------------
(* What the scan callbacks keep of a range they are invoked on key by key. *)

\* A set of keys of one range in the order of the index, which is the order
\* of their last component.
InOrder(keys) == SetToSortSeq(keys, LAMBDA a, b : a[Len(a)] < b[Len(b)])

static_limit_callback(q, n) == SubSeq(q, 1, Min({n, Len(q)}))
tpcc_table_scanner(q) == q
credit_check_order_scan_callback(q) == {q[i][4] : i \in DOMAIN q}
credit_check_order_line_scan_callback(db, q) ==
    FoldLeft(LAMBDA sum, k : sum + db[k].ol_amount, 0, q)
order_line_nop_callback(q) == Len(q)
order_line_scan_callback(db, q) == {db[q[i]].ol_i_id : i \in DOMAIN q}
\* The last key of those the limit allows, and the first key.
latest_key_callback(q, limit) == q[Min({limit, Len(q)})]
new_order_scan_callback(q) == q[1]

-----------------------------------------------------------------------------
(* struct checker: the sanity checks of the records that are read, without *)
(* the texts.                                                              *)

InDistrict(k) == k[2] \in WarehouseIds /\ k[3] \in DistrictIds
SanityCheckCustomer(k, v) ==
    v.c_credit \in {"BC", "GC"} /\ InDistrict(k) /\ k[4] \in CustomerIds
SanityCheckWarehouse(k) == k[2] \in WarehouseIds
SanityCheckDistrict(k, v) == InDistrict(k) /\ v.d_next_o_id >= NumCustomersPerDistrict + 1
SanityCheckItem(k) == k[2] \in ItemIds /\ i_price(k[2]) \in 1..100
SanityCheckStock(k) == k[2] \in WarehouseIds /\ k[3] \in ItemIds
SanityCheckNewOrder(k) == InDistrict(k)
SanityCheckOOrder(k, v) ==
    /\ InDistrict(k) /\ v.o_c_id \in CustomerIds
    /\ v.o_carrier_id \in 0..NumDistrictsPerWarehouse /\ v.o_ol_cnt \in MinLines..MaxLines
SanityCheckOrderLine(k, v) ==
    InDistrict(k) /\ k[5] \in 1..MaxLines /\ v.ol_i_id \in ItemIds

SanityCheck(k, v) ==
    CASE k[1] = "customer" -> SanityCheckCustomer(k, v)
      [] k[1] = "warehouse" -> SanityCheckWarehouse(k)
      [] k[1] = "district" -> SanityCheckDistrict(k, v)
      [] k[1] = "item" -> SanityCheckItem(k)
      [] k[1] = "stock" -> SanityCheckStock(k)
      [] k[1] = "new_order" -> SanityCheckNewOrder(k)
      [] k[1] = "oorder" -> SanityCheckOOrder(k, v)
      [] k[1] = "order_line" -> SanityCheckOrderLine(k, v)
      [] OTHER -> TRUE

-----------------------------------------------------------------------------
(* The consistency conditions of a database.                               *)

Total(db, keys, field) == MapThenSumSet(LAMBDA k : db[k][field], keys)

Lines(db, w, d, o) == {k \in Only(db, "order_line") : SubSeq(k, 2, 4) = <<w, d, o>>}
Orders(db, table, w, d) == {k[4] : k \in {q \in Only(db, table) : SubSeq(q, 2, 3) = <<w, d>>}}
Payments(db) == Only(db, "history")

\* A warehouse has received what its districts have received, and that is
\* what the history records.
YtdAgree(db) ==
    \A w \in WarehouseIds :
        LET new(k, field, base) == db[k][field] - base
            paid == {k \in Payments(db) : k[6] = w}
        IN  /\ new(warehouse(w), "w_ytd", 300000)
                 = MapThenSumSet(LAMBDA d : new(district(w, d), "d_ytd", 30000), DistrictIds)
            /\ new(warehouse(w), "w_ytd", 300000)
                 = MapThenSumSet(LAMBDA k : db[k].h_amount, paid)
                     - 10 * NumDistrictsPerWarehouse * NumCustomersPerDistrict

\* d_next_o_id is one more than the newest order, orders have no gaps, and
\* every new-order entry is an order.
OrderIdsAgree(db) ==
    \A w \in WarehouseIds, d \in DistrictIds :
        /\ Orders(db, "oorder", w, d) = 1..(db[district(w, d)].d_next_o_id - 1)
        /\ Orders(db, "new_order", w, d) \subseteq Orders(db, "oorder", w, d)

\* An order has exactly the lines it counts, numbered from 1; it waits in
\* new_order exactly while it has no carrier, which is exactly while its
\* lines are undelivered.
LinesAgree(db) ==
    \A k \in Only(db, "oorder") :
        LET lines == Lines(db, k[2], k[3], k[4])
            waits == Present(db, new_order(k[2], k[3], k[4]))
        IN  /\ {l[5] : l \in lines} = 1..db[k].o_ol_cnt
            /\ waits <=> db[k].o_carrier_id = 0
            /\ \A l \in lines : db[l].ol_delivered <=> ~waits

\* What a customer owes is what was delivered to them less what they paid,
\* so no order is billed twice and no payment lost.
BalanceAgrees(db) ==
    \A k \in Only(db, "customer") :
        LET mine == {q \in Only(db, "oorder") :
                        SubSeq(q, 2, 3) = SubSeq(k, 2, 3) /\ db[q].o_c_id = k[4]}
            billed == UNION {{l \in Lines(db, q[2], q[3], q[4]) : db[l].ol_delivered} : q \in mine}
        IN  db[k].c_balance = Total(db, billed, "ol_amount") - db[k].c_ytd_payment

Consistent(db) ==
    YtdAgree(db) /\ OrderIdsAgree(db) /\ LinesAgree(db) /\ BalanceAgrees(db)
=============================================================================
