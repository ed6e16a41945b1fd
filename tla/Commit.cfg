SPECIFICATION FairSpec
INVARIANTS
    QueueIsSound
    SegmentNeverOverrun
    

    
