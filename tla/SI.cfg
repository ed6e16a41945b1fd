SPECIFICATION Spec
CONSTANTS
    XID = {t1, t2, t3}
    OID = {x, y}
    Fresh = {y}
    BlindUpdate = TRUE
    MaxOps = 2
SYMMETRY TxnSymmetry
INVARIANTS
    NoLostUpdate
    ChainOrdered
    ReadsCommitted
