CONSTANTS
    Parts <- AllParts
    Plans <- TreePlan
SPECIFICATION Spec
INVARIANTS
    EpochsAreAccounted
    GcIsSafe
    XidsAreExclusive
    
    
    ObjectsAreDisjoint
    GetsAreLinearizable
    TreeIsSound
    ScansAreSound
    EncodingsAreExact
    
    SetIsSound
PROPERTY
    ImplementsContract
