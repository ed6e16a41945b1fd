------------------------------ MODULE TpccLoad ------------------------------
(***************************************************************************)
(* Loading the TPC-C database: bench_runner::run (benchmarks/bench.cc)     *)
(* hands the loaders of make_loaders to the threads of the pool, as many   *)
(* at a time as n_loader_threads allows, and each loader inserts its rows  *)
(* one transaction at a time (tpcc-config.h). TpccSchema says which rows.  *)
(***************************************************************************)
EXTENDS TpccSchema

CONSTANTS
    NLoaderThreads,     \* n_loader_threads
    NIdle               \* physical threads of the pool that are idle

VARIABLES
    draw,       \* what the order loader draws at random
    todo,       \* of each loader, the transactions it has still to run
    state,      \* of each loader: "new", "running", "joined"
    n_running,
    db,
    fatal       \* a TryVerifyStrict failed

vars == <<draw, todo, state, n_running, db, fatal>>

Loaders == DOMAIN make_loaders

In(s) == {l \in Loaders : state[l] = s}

Init ==
    /\ draw \in Draws
    /\ todo = [l \in Loaders |-> Rows(make_loaders[l], draw)]
    /\ state = [l \in Loaders |-> "new"]
    /\ n_running = 0
    /\ db = <<>>
    /\ fatal = FALSE

\* The scan over the loaders after "process:". It starts them in their order
\* while threads last; one that finds none idle waits for the next scan.
process(l) ==
    /\ In("new") # {} /\ l = Min(In("new"))
    /\ n_running < NLoaderThreads
    /\ Cardinality(In("running")) < NIdle
    /\ state' = [state EXCEPT ![l] = "running"]
    /\ n_running' = n_running + 1
    /\ UNCHANGED <<draw, todo, db, fatal>>

\* One transaction of a loader; InsertRecord fails on a key that is there.
load(l) ==
    /\ state[l] = "running" /\ todo[l] # <<>> /\ ~fatal
    /\ todo' = [todo EXCEPT ![l] = Tail(@)]
    /\ IF DOMAIN Head(todo[l]) \cap DOMAIN db # {}
       THEN fatal' = TRUE /\ UNCHANGED db
       ELSE db' = Head(todo[l]) @@ db /\ UNCHANGED fatal
    /\ UNCHANGED <<draw, state, n_running>>


\* The scavenging loop: TryJoin succeeds once load has returned.
join(l) ==
    /\ state[l] = "running" /\ todo[l] = <<>>
    /\ state' = [state EXCEPT ![l] = "joined"]
    /\ n_running' = n_running - 1
    /\ UNCHANGED <<draw, todo, db, fatal>>

AllJoined == In("joined") = Loaders
Loaded == AllJoined /\ UNCHANGED vars

Next ==
    \/ \E l \in Loaders : process(l) \/ load(l) \/ join(l)
    \/ Loaded
Spec == Init /\ [][Next]_vars

-----------------------------------------------------------------------------
(* Loading ends with the database LoadedDb, whatever order the loaders ran *)
(* in, and it satisfies the TPC-C consistency conditions: what the         *)
(* district, customer and order loaders (different threads) wrote agrees.  *)
LoadIsConsistent == AllJoined => db = LoadedDb(draw) /\ Consistent(db)

(* No two loaders insert the same key, so no TryVerifyStrict stops the     *)
(* process.                                                                *)
LoadNeverFails == ~fatal

=============================================================================
