SPECIFICATION Spec
CONSTANTS
    XID = {t1, t2}
    OID = {x, y}
    Fresh = {}
    BlindUpdate = TRUE
    MaxOps = 2
SYMMETRY TxnSymmetry
INVARIANTS
    SnapshotReads
