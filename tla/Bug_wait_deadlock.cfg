\* Two transfers whose scripts wait for each other.
CONSTANTS
    Thread = {t1, t2}
    t1 = t1
    t2 = t2
    MaxTransfers = 2
    Length = 2
    PipeSize = 1
    MayVanish = FALSE
SPECIFICATION FairSpec
PROPERTY WaitEnds
\* Waiting for each other is what is looked for.
CHECK_DEADLOCK FALSE
