---------------------------- MODULE MCWorkload ------------------------------
(***************************************************************************)
(* The workers with cooperative yields and retries (Scheduler, in its own  *)
(* variables), and beside them what they run, one part at a time: the      *)
(* TPC-C transactions, their loaders, the certifiers that can replace      *)
(* snapshot isolation, and the driver that starts the workers and counts.  *)
(***************************************************************************)
EXTENDS MCScheduler

MCDraw == [owner |-> <<2, 1>>, cnt |-> <<1, 2>>]
MCLastName == <<"a", "a">>

Item(i, sw, q) == [i |-> i, sw |-> sw, q |-> q]
NewOrder(d, c, items) == [txn |-> "new_order", w |-> 1, d |-> d, c |-> c, items |-> items]
NO1 == NewOrder(1, 1, <<Item(1, 1, 5), Item(2, 2, 10)>>)
NO2 == NewOrder(1, 2, <<Item(2, 2, 3), Item(1, 1, 1)>>)
NO3 == NewOrder(2, 1, <<Item(1, 1, 10)>>)
Pay(w, d, cw, c) ==
    [txn |-> "payment", w |-> w, d |-> d, cw |-> cw, cd |-> 1, c |-> c, amount |-> 7]
PayName ==
    [txn |-> "payment", w |-> 1, d |-> 1, cw |-> 1, cd |-> 1, name |-> "a", amount |-> 4]
Delivery == [txn |-> "delivery", w |-> 1, carrier |-> 1]
Status(limit) == [txn |-> "order_status", w |-> 1, d |-> 1, c |-> 1, limit |-> limit]
Level == [txn |-> "stock_level", w |-> 1, d |-> 1]
Credit ==
    [txn |-> "credit_check", w |-> 1, d |-> 1, cw |-> 1, cd |-> 1, c |-> 1, threshold |-> 2]
Query2 == [txn |-> "query2"]
Micro == [txn |-> "microbench", w |-> 1, s |-> 1, rows |-> <<1, 2>>, qty |-> 50]

\* What two workers run against each other.
First == { <<NO1, Delivery>>, <<Pay(1, 1, 1, 1), NO2>>, <<Delivery, Pay(1, 1, 1, 2)>>,
           <<NO3, NO1>>, <<Micro, NO1>>, <<Credit, Delivery>> }
Second == { <<NO2, Status(0)>>, <<Delivery, Credit>>, <<PayName, Level>>, <<Credit, NO3>>,
            <<Pay(2, 1, 1, 1), Status(1)>>, <<Micro, Query2>>, <<NO1, NO1>> }
TpccPlan == {[t \in {"main", "preemptive"} |-> IF t = "main" THEN a ELSE b] :
                a \in First, b \in Second}

\* The operations of three transactions.
Reads(o) == <<"read", o>>
Updates(o) == <<"update", o>>
SerialPlan ==
    { <<<<Reads("x"), Updates("y")>>, <<Reads("y"), Updates("x")>>, <<Reads("x"), Reads("y")>>>>,
      <<<<Reads("x"), Reads("y"), Updates("x")>>, <<Reads("y"), Updates("y")>>,
        <<Reads("x"), Reads("y")>>>> }

VARIABLES part,   \* the part that runs; the others are absent
          v1, v2, v3, v4, v5, v6, v7, v8, v9, v10, v11, v12, v13, v14, v15, v16, v17, v18, v19,
          v20, v21   \* its variables

Sn == INSTANCE Ssn WITH
    Record <- {"x", "y"}, NTxns <- 3, Plans <- SerialPlan, lsn <- v1, chain <- v2, state <- v3,
    begin <- v4, end <- v5, todo <- v6, reads <- v7, writes <- v8, at <- v9, picked <- v10,
    cstamp <- v11, i <- v12, left <- v13, got <- v14, pstamp <- v15, sstamp <- v16

Si == INSTANCE Ssi WITH
    Record <- {"x", "y"}, NTxns <- 3, Plans <- SerialPlan, lsn <- v1, chain <- v2, state <- v3,
    begin <- v4, end <- v5, todo <- v6, reads <- v7, writes <- v8, at <- v9, picked <- v10,
    cstamp <- v11, i <- v12, left <- v13, got <- v14, ct3 <- v15, missed <- v16

Mv == INSTANCE Mvocc WITH
    Record <- {"x", "y"}, NTxns <- 3, Plans <- SerialPlan, lsn <- v1, chain <- v2, state <- v3,
    begin <- v4, end <- v5, todo <- v6, reads <- v7, writes <- v8, at <- v9, picked <- v10,
    cstamp <- v11, i <- v12, left <- v13, got <- v14

Tp == INSTANCE Tpcc WITH
    NumWarehouses <- 2, NumDistrictsPerWarehouse <- 2, NumCustomersPerDistrict <- 2,
    NumItems <- 2, MinLines <- 1, MaxLines <- 2, FirstNewOrder <- 2, NumNations <- 1,
    NumRegions <- 1, NumSuppliers <- 1, Worker <- {"main", "preemptive"}, Plans <- TpccPlan,
    Draw <- MCDraw, LastName <- MCLastName, Fast <- {FALSE, TRUE},
    retry_aborted_transactions <- FALSE, db <- v1, indexed <- v2, txn <- v3, todo <- v4,
    last_no_o_ids <- v5, tl_hack <- v6, district_ids <- v7, fast <- v8, fatal <- v9

Ld == INSTANCE TpccLoad WITH
    NumWarehouses <- 1, NumDistrictsPerWarehouse <- 1, NumCustomersPerDistrict <- 2,
    NumItems <- 2, MinLines <- 1, MaxLines <- 2, FirstNewOrder <- 2, NumNations <- 1,
    NumRegions <- 1, NumSuppliers <- 1, NLoaderThreads <- 2, NIdle <- 3, draw <- v1,
    todo <- v2, state <- v3, n_running <- v4, db <- v5, fatal <- v6

Dr == INSTANCE Driver WITH
    worker_threads <- 2, Modes <- {0, 1}, benchmark_seconds <- 2, regular_workload_size <- 2,
    workload_size <- 3, FetchColdInterval <- 2, MaxJobs <- 3, MaxAborts <- 1,
    benchmark_transactions <- v1, a <- v2, b <- v3, tpc <- v4, registered <- v5, ready <- v6,
    job <- v7, pjob <- v8, ctx <- v9, st <- v10, committed_txn_count <- v11, running <- v12,
    cold <- v13, since <- v14, jobs <- v15, aborts <- v16, rpc <- v17, k <- v18, sec <- v19,
    seen <- v20, n <- v21

Unused16 == v17 = 0 /\ v18 = 0 /\ v19 = 0 /\ v20 = 0 /\ v21 = 0
Same16 == UNCHANGED <<v17, v18, v19, v20, v21>>
Unused14 == v15 = 0 /\ v16 = 0 /\ Unused16
Same14 == UNCHANGED <<v15, v16>> /\ Same16
Unused9 == v10 = 0 /\ v11 = 0 /\ v12 = 0 /\ v13 = 0 /\ v14 = 0 /\ Unused14
Same9 == UNCHANGED <<v10, v11, v12, v13, v14>> /\ Same14
Unused6 == v7 = 0 /\ v8 = 0 /\ v9 = 0 /\ Unused9
Same6 == UNCHANGED <<v7, v8, v9>> /\ Same9
Unused0 == v1 = 0 /\ v2 = 0 /\ v3 = 0 /\ v4 = 0 /\ v5 = 0 /\ v6 = 0 /\ Unused6

partVars == <<part, v1, v2, v3, v4, v5, v6, v7, v8, v9, v10, v11, v12, v13, v14, v15, v16,
        v17, v18, v19, v20, v21>>

AllInit ==
    /\ Init
    /\ \/ part = "yield" /\ Unused0
       \/ part = "ssn" /\ Sn!Init /\ Unused16
       \/ part = "ssi" /\ Si!Init /\ Unused16
       \/ part = "mvocc" /\ Mv!Init /\ Unused14
       \/ part = "tpcc" /\ Tp!Init /\ Unused9
       \/ part = "load" /\ Ld!Init /\ Unused6
       \/ part = "driver" /\ Dr!Init

AllNext ==
    \/ part = "yield" /\ Next /\ UNCHANGED partVars
    \/ part = "ssn" /\ Sn!Next /\ Same16 /\ UNCHANGED <<part, vars>>
    \/ part = "ssi" /\ Si!Next /\ Same16 /\ UNCHANGED <<part, vars>>
    \/ part = "mvocc" /\ Mv!Next /\ Same14 /\ UNCHANGED <<part, vars>>
    \/ part = "tpcc" /\ Tp!Next /\ Same9 /\ UNCHANGED <<part, vars>>
    \/ part = "load" /\ Ld!Next /\ Same6 /\ UNCHANGED <<part, vars>>
    \/ part = "driver" /\ Dr!Next /\ UNCHANGED <<part, vars>>
    \/ part \in {"driver"} /\ UNCHANGED <<partVars, vars>>   \* its bounds are reached

AllSpec == AllInit /\ [][AllNext]_<<vars, partVars>>

-----------------------------------------------------------------------------



=============================================================================
