-------------------------------- MODULE Tpcc --------------------------------
(***************************************************************************)
(* The TPC-C transactions of benchmarks/tpcc/tpcc-sequential.cc, run by    *)
(* concurrent workers (the worker and the preemptive_worker object of each *)
(* thread) over snapshot isolation. Each call that writes is a step, since *)
(* another worker can make it fail; the reads of a transaction are all of  *)
(* its snapshot and its own writes, so they belong to the step that uses   *)
(* them. The storage engine is the part Transaction models in detail: an   *)
(* update fails when another transaction has an uncommitted version of the *)
(* record or has committed one since this one began. An abort unlinks the  *)
(* versions and leaves the keys in the indexes: an insert takes over a key *)
(* of a primary index that leads to no version, and fails on any other key *)
(* that is there.                                                          *)
(***************************************************************************)
EXTENDS TpccSchema

CONSTANTS
    Worker,
    Plans,      \* what the workers are asked to run: functions to sequences of calls
    Draw,       \* what the loaders drew
    LastName,   \* of each customer
    Fast,       \* values of tpcc_new_order_fast_id_gen
    retry_aborted_transactions

VARIABLES
    db,             \* the committed database
    indexed,        \* the keys of oorder_c_id_idx, those of aborted inserts included
    txn,            \* of each worker, the transaction it runs, or Idle
    todo,           \* of each worker, the calls it has still to make
    last_no_o_ids,  \* of each worker, its delivery cursor per district
    tl_hack,        \* of each worker, GetCurrentTimeMillis
    district_ids,   \* g_district_ids
    fast,           \* tpcc_new_order_fast_id_gen
    fatal           \* the assertion that stopped the process, or ""

vars == <<db, indexed, txn, todo, last_no_o_ids, tl_hack, district_ids, fast, fatal>>

\* A transaction: its snapshot, the versions it has written (own), the keys
\* others have committed since it began (stale), the calls it has still to
\* make (ops).
Idle == [snap |-> <<>>, own |-> <<>>, stale |-> {}, ops |-> <<>>]

Init ==
    /\ todo \in Plans
    /\ fast \in Fast
    /\ db = LoadedDb(Draw)
    /\ indexed = Only(db, "oorder_c_id_idx")
    /\ txn = [t \in Worker |-> Idle]
    /\ last_no_o_ids = [t \in Worker |-> [d \in DistrictIds |-> 0]]
    /\ tl_hack = [t \in Worker |-> 0]
    /\ district_ids = [wd \in WarehouseIds \X DistrictIds |-> NumCustomersPerDistrict + 1]
    /\ fatal = ""

-----------------------------------------------------------------------------
(* What a transaction can write to a record it has read.                   *)

\* s_quantity - ol_quantity is computed unsigned: below zero it is large.
AtLeastTen(n) == n >= 10 \/ n < 0

new_stock(v, q, remote) ==
    [s_quantity |-> IF AtLeastTen(v.s_quantity - q) THEN v.s_quantity - q ELSE v.s_quantity - q + 91,
     s_ytd |-> v.s_ytd + q,
     s_remote_cnt |-> v.s_remote_cnt + (IF remote THEN 1 ELSE 0)]


paid(v, amount) ==
    [v EXCEPT !.c_balance = @ - amount, !.c_ytd_payment = @ + amount, !.c_payment_cnt = @ + 1]

NewValue(op, v) ==
    CASE op.set = "next_o_id" -> [v EXCEPT !.d_next_o_id = @ + 1]
      [] op.set = "stock" -> new_stock(v, op.x, op.remote)
      [] op.set = "w_ytd" -> [v EXCEPT !.w_ytd = @ + op.x]
      [] op.set = "d_ytd" -> [v EXCEPT !.d_ytd = @ + op.x]
      [] op.set = "payment" -> paid(v, op.x)
      [] op.set = "delivered" -> [v EXCEPT !.ol_delivered = TRUE]
      [] op.set = "carrier" -> [v EXCEPT !.o_carrier_id = op.x]
      [] op.set = "bill" -> [v EXCEPT !.c_balance = @ + op.x]
      [] op.set = "credit" -> [v EXCEPT !.c_credit = op.x]
      [] op.set = "all" -> op.x
      [] op.set = "remove" -> Deleted

UpdateRecord(k, set, x) == [op |-> "update", key |-> k, set |-> set, x |-> x, remote |-> FALSE]
RemoveRecord(k) == UpdateRecord(k, "remove", 0)
InsertRecord(k, v) == [op |-> "insert", key |-> k, x |-> v]
InsertOID(k) == [op |-> "insert_oid", key |-> k, x |-> <<>>]
Commit == [op |-> "commit"]

-----------------------------------------------------------------------------
(* The transactions: the assertions they make of their snapshot, and the   *)
(* calls they make. Each takes its arguments, drawn at random, from call.  *)

\* The customer a last name finds: the middle one, by first name.
NMaxCustomerIdxScanElems == 512
CustomersNamed(n) ==
    static_limit_callback(SelectSeq([c \in CustomerIds |-> c], LAMBDA c : LastName[c] = n),
                          NMaxCustomerIdxScanElems)
ByName(n) == CustomersNamed(n)[(Len(CustomersNamed(n)) + 1) \div 2]
CustomerOf(call) == IF "name" \in DOMAIN call THEN ByName(call.name) ELSE call.c

new_order_calls(call, o) ==
    LET w == call.w  d == call.d
        line(n) == call.items[n]
        item(n) == << [UpdateRecord(stock(line(n).sw, line(n).i), "stock", line(n).q)
                          EXCEPT !.remote = line(n).sw # w],
                      InsertRecord(order_line(w, d, o, n),
                          [ol_i_id |-> line(n).i, ol_delivered |-> FALSE,
                           ol_amount |-> line(n).q * i_price(line(n).i)]) >>
    IN  <<InsertRecord(new_order(w, d, o), <<>>)>>
        \o (IF fast THEN <<>> ELSE <<UpdateRecord(district(w, d), "next_o_id", 0)>>)
        \o << InsertRecord(oorder(w, d, o), [o_c_id |-> call.c, o_carrier_id |-> 0,
                                             o_ol_cnt |-> Len(call.items)]),
              InsertOID(oorder_c_id_idx(w, d, call.c, o)) >>
        \o All(Len(call.items), item) \o <<Commit>>

payment_calls(call, ts) ==
    LET c == CustomerOf(call)
    IN  << UpdateRecord(warehouse(call.w), "w_ytd", call.amount),
           UpdateRecord(district(call.w, call.d), "d_ytd", call.amount),
           UpdateRecord(customer(call.cw, call.cd, c), "payment", call.amount),
           InsertRecord(history(call.cd, call.cw, c, call.d, call.w, ts),
                        [h_amount |-> call.amount]),
           Commit >>

delivery_calls(call) ==
    Upto(NumDistrictsPerWarehouse, LAMBDA d : [op |-> "deliver", w |-> call.w, d |-> d,
                                               carrier |-> call.carrier]) \o <<Commit>>

\* The waiting orders of a district, from order o on.
NewOrders(s, w, d, o) ==
    InOrder({k \in Only(s, "new_order") : SubSeq(k, 2, 3) = <<w, d>> /\ k[4] >= o})

\* Only the lines 1..14: the scan's upper bound, line 15, is excluded.
credit_check_calls(call, s) ==
    LET c_no == credit_check_order_scan_callback(NewOrders(s, call.w, call.d, 0))
        sum(o) == credit_check_order_line_scan_callback(s,
                     InOrder({l \in Lines(s, call.w, call.d, o) : l[5] < MaxLines}))
        k_c == customer(call.cw, call.cd, call.c)
        bad == s[k_c].c_balance
                  + MapThenSumSet(sum, c_no \cap Orders(s, "oorder", call.w, call.d))
                      >= call.threshold
    IN  <<UpdateRecord(k_c, "credit", IF bad THEN "BC" ELSE "GC"), Commit>>

\* The rows after the start row, within its warehouse.
microbench_calls(call) ==
    Upto(Len(call.rows), LAMBDA n :
        UpdateRecord(stock(call.w, ((call.s - 1 + call.rows[n]) % NumItems) + 1),
                     "all", stock_value(call.qty))) \o <<Commit>>

-----------------------------------------------------------------------------
\* The ALWAYS_ASSERT and TryVerifyRelaxed of a transaction that its snapshot
\* decides; "" if they all hold.
Fails(p, what) == IF p THEN "" ELSE what

order_status_asserts(call, s) ==
    LET c == CustomerOf(call)
        ids == InOrder({k \in Only(s, "oorder_c_id_idx") :
                           SubSeq(k, 2, 4) = <<call.w, call.d, c>>})
        \* tpcc_order_status_scan_hack: the last of at most limit orders, from
        \* the oldest; without it (limit 0) a reverse scan finds the newest
        newest == IF call.limit = 0 THEN latest_key_callback(Reverse(ids), 1)
                  ELSE latest_key_callback(ids, call.limit)
    IN  Fails(/\ ids # <<>>
              /\ order_line_nop_callback(InOrder(Lines(s, call.w, call.d, newest[5])))
                    \in MinLines..MaxLines,
              "order_status")

stock_level_asserts(call, s) ==
    LET next == IF fast THEN district_ids[<<call.w, call.d>>]
                ELSE s[district(call.w, call.d)].d_next_o_id
        recent == {l \in Only(s, "order_line") : /\ SubSeq(l, 2, 3) = <<call.w, call.d>>
                                                 /\ l[4] >= next - 20 /\ l[4] < next}
        s_i_ids == order_line_scan_callback(s, SetToSeq(recent))
    IN  Fails(\A i \in s_i_ids : Present(s, stock(call.w, i)), "stock_level")

\* The item query 2 reports for a supplier: min_qty is never lowered, so it
\* is the last of the supplier's rows.
reported(su, s) ==
    FoldLeft(LAMBDA best, it : IF 32767 > s[stock(it[1], it[2])].s_quantity THEN it ELSE best,
             <<0, 0>>, supp_stock_map(su))
query2_asserts(s) ==
    Fails(/\ Len(tpcc_table_scanner(InOrder(Only(s, "region")))) = NumRegions
          /\ Len(tpcc_table_scanner(InOrder(Only(s, "nation")))) = NumNations
          /\ \A su \in 0..(NumSuppliers - 1) : Present(s, <<"item", reported(su, s)[2]>>),
          "query2")

credit_check_asserts(call, s) ==
    Fails(Orders(s, "new_order", call.w, call.d) # {}, "credit_check")

Asserts(call, s) ==
    CASE call.txn = "order_status" -> order_status_asserts(call, s)
      [] call.txn = "stock_level" -> stock_level_asserts(call, s)
      [] call.txn = "query2" -> query2_asserts(s)
      [] call.txn = "credit_check" -> credit_check_asserts(call, s)
      [] OTHER -> ""

Calls(t, call) ==
    CASE call.txn = "new_order" ->
            new_order_calls(call, IF fast THEN district_ids[<<call.w, call.d>>]
                                  ELSE db[district(call.w, call.d)].d_next_o_id)
      [] call.txn = "payment" -> payment_calls(call, tl_hack[t])
      [] call.txn = "delivery" -> delivery_calls(call)
      [] call.txn = "credit_check" -> credit_check_calls(call, db)
      [] call.txn = "microbench" -> microbench_calls(call)
      [] OTHER -> <<Commit>>

-----------------------------------------------------------------------------
(* Running them.                                                           *)

Running(t) == fatal = "" /\ txn[t].ops # <<>>
NextOp(t) == Head(txn[t].ops)
View(t) == txn[t].own @@ txn[t].snap

\* NewTransaction and the reads that come before the first write. Payment and
\* delivery read the clock before they begin; new_order, after its insert.
Begin(t) ==
    /\ fatal = "" /\ txn[t] = Idle /\ todo[t] # <<>>
    /\ LET call == Head(todo[t])
       IN  /\ fatal' = Asserts(call, db)
           /\ txn' = [txn EXCEPT ![t] = [Idle EXCEPT !.snap = db, !.ops = Calls(t, call)]]
           /\ tl_hack' = IF call.txn \in {"payment", "delivery"}
                         THEN [tl_hack EXCEPT ![t] = @ + 1] ELSE tl_hack
           /\ district_ids' = IF call.txn = "new_order" /\ fast
                              THEN [district_ids EXCEPT ![<<call.w, call.d>>] = @ + 1]
                              ELSE district_ids
    /\ UNCHANGED <<db, indexed, todo, last_no_o_ids, fast>>

\* Abort: the versions go, the index keys stay. finish_workload repeats the
\* call with the same seed when it is told to retry.
AbortTxn(t, again) ==
    /\ txn' = [txn EXCEPT ![t] = Idle]
    /\ todo' = IF again THEN todo ELSE [todo EXCEPT ![t] = Tail(@)]

Advance(t, own, ops) ==
    /\ txn' = [txn EXCEPT ![t].own = own, ![t].ops = ops]
    /\ UNCHANGED todo

\* First updater wins.
Conflicts(t, k) ==
    \/ k \in txn[t].stale
    \/ \E u \in Worker \ {t} : k \in DOMAIN txn[u].own

update(t) ==
    /\ Running(t) /\ NextOp(t).op = "update"
    /\ LET op == NextOp(t)
       IN  IF Conflicts(t, op.key) THEN AbortTxn(t, retry_aborted_transactions)
           ELSE Advance(t, (op.key :> NewValue(op, View(t)[op.key])) @@ txn[t].own, Tail(txn[t].ops))
    /\ UNCHANGED <<db, indexed, last_no_o_ids, tl_hack, district_ids, fast, fatal>>

\* InsertRecord of a key that leads to a version, committed or not, aborts.
\* new_order reads the clock for the order it inserts.
insert(t) ==
    /\ Running(t) /\ NextOp(t).op = "insert"
    /\ LET op == NextOp(t)
       IN  /\ IF op.key \in DOMAIN db \cup UNION {DOMAIN txn[u].own : u \in Worker} THEN AbortTxn(t, retry_aborted_transactions)
              ELSE Advance(t, (op.key :> op.x) @@ txn[t].own, Tail(txn[t].ops))
           /\ tl_hack' = IF op.key[1] = "oorder" THEN [tl_hack EXCEPT ![t] = @ + 1] ELSE tl_hack
    /\ UNCHANGED <<db, indexed, last_no_o_ids, district_ids, fast, fatal>>

\* InsertOID into a secondary index fails on any key that is there. It returns
\* a bool, and false is no abort code: the transaction goes on without the
\* index entry.
insert_oid(t) ==
    /\ Running(t) /\ NextOp(t).op = "insert_oid"
    /\ LET k == NextOp(t).key
       IN  /\ Advance(t, IF k \in indexed THEN txn[t].own ELSE (k :> <<>>) @@ txn[t].own,
                      Tail(txn[t].ops))
           /\ indexed' = indexed \cup {k}
    /\ UNCHANGED <<db, last_no_o_ids, tl_hack, district_ids, fast, fatal>>

\* One district of a delivery: the oldest new order at or after the cursor,
\* which moves on at once.
DeliverOrder(t, op, o) ==
    LET s == View(t)
        lines == static_limit_callback(InOrder(Lines(s, op.w, op.d, o)), MaxLines)
        k_oo == oorder(op.w, op.d, o)
    IN  Upto(Len(lines), LAMBDA n : UpdateRecord(lines[n], "delivered", 0))
        \o << RemoveRecord(new_order(op.w, op.d, o)),
              UpdateRecord(k_oo, "carrier", op.carrier),
              UpdateRecord(customer(op.w, op.d, s[k_oo].o_c_id), "bill",
                           Total(s, Lines(s, op.w, op.d, o), "ol_amount")) >>

deliver(t) ==
    /\ Running(t) /\ NextOp(t).op = "deliver"
    /\ LET op == NextOp(t)
           waiting == NewOrders(View(t), op.w, op.d, last_no_o_ids[t][op.d])
           no_o_id == new_order_scan_callback(waiting)[4]
       IN  IF waiting = <<>>
           THEN Advance(t, txn[t].own, Tail(txn[t].ops)) /\ UNCHANGED last_no_o_ids
           ELSE /\ last_no_o_ids' = [last_no_o_ids EXCEPT ![t][op.d] = no_o_id + 1]
                /\ IF Present(View(t), oorder(op.w, op.d, no_o_id))
                   THEN Advance(t, txn[t].own, DeliverOrder(t, op, no_o_id) \o Tail(txn[t].ops))
                   ELSE AbortTxn(t, FALSE)
    /\ UNCHANGED <<db, indexed, tl_hack, district_ids, fast, fatal>>

commit(t) ==
    /\ Running(t) /\ NextOp(t) = Commit
    /\ db' = txn[t].own @@ db
    /\ txn' = [u \in Worker |->
                 IF u = t \/ txn[u] = Idle THEN Idle
                 ELSE [txn[u] EXCEPT !.stale = @ \cup DOMAIN txn[t].own]]
    /\ todo' = [todo EXCEPT ![t] = Tail(@)]
    /\ UNCHANGED <<indexed, last_no_o_ids, tl_hack, district_ids, fast, fatal>>

Finished == (fatal # "" \/ \A t \in Worker : todo[t] = <<>>) /\ UNCHANGED vars

Step(t) == Begin(t) \/ update(t) \/ insert(t) \/ insert_oid(t) \/ deliver(t) \/ commit(t)
Next == (\E t \in Worker : Step(t)) \/ Finished
Spec == Init /\ [][Next]_vars

-----------------------------------------------------------------------------
(* Properties.                                                             *)

\* No payment and no delivery is lost or counted twice, whichever calls of
\* two workers interleave and whichever of them abort half way: what the
\* warehouses, districts, customers and the history say was paid agrees, and
\* so do the bills and the delivered lines (txn_payment, txn_delivery).
MoneyAgrees == YtdAgree(db) /\ BalanceAgrees(db)

\* Every committed order is whole, with its lines and its new-order entry
\* until it is delivered, also when the numbers and the keys of an aborted
\* order are used again; and order numbers have no gaps when they come from
\* d_next_o_id (txn_new_order, txn_delivery).
OrdersAgree == LinesAgree(db) /\ (~fast => OrderIdsAgree(db))

\* s_quantity stays in 10..100 whatever the transactions order and rewrite,
\* so the unsigned comparison of txn_new_order never wraps.
StockInRange == \A k \in Only(db, "stock") : db[k].s_quantity \in 10..100

\* No assertion a transaction makes of what it reads fails, except the one
\* of txn_credit_check: lines found for every order, an order found for every
\* customer, an item for what query 2 reports. Other transactions being half
\* done does not show. And every committed record a later one can read passes
\* its sanity check.
AssertionsHold ==
    /\ fatal \in {"", "credit_check"}
    /\ \A k \in DOMAIN db : Present(db, k) => SanityCheck(k, db[k])

\* txn_credit_check asserts that the district has undelivered orders
\* (ALWAYS_ASSERT(c_no.output.size())).
CreditCheckFindsNewOrders == fatal # "credit_check"

\* "Get the OID and put it in oorder_c_id_idx later": every committed order is
\* in its customer's index (txn_new_order).
OrdersAreIndexed ==
    \A k \in Only(db, "oorder") : Present(db, oorder_c_id_idx(k[2], k[3], db[k].o_c_id, k[4]))

=============================================================================
