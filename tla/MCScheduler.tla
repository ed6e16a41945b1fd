---------------------------- MODULE MCScheduler -----------------------------
(* Instances of Scheduler for TLC.                                         *)
EXTENDS Scheduler, TLC

MCWorker == 0..(NWorkers - 1)

TxnSymmetry == Permutations(Txn)
=============================================================================
