--------------------------- MODULE MCTransaction ----------------------------
(***************************************************************************)
(* Instances of Transaction for TLC.                                       *)
(***************************************************************************)
EXTENDS Transaction, TLC

\* Transactions are alike, and so are the preloaded records.
TxnSymmetry == Permutations(XID) \cup Permutations(OID \ Fresh)
=============================================================================
