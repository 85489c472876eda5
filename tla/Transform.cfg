\* Two sessions, three transfers, mails that may be gone.
CONSTANTS
    Thread = {t1, t2}
    t1 = t1
    t2 = t2
    MaxTransfers = 3
    Length = 2
    PipeSize = 1
    MayVanish = TRUE
SPECIFICATION FairSpec
INVARIANTS TypeOK DotAfterOutput ServerSurvives OnlyOthersBlock
PROPERTY TransferEnds
\* The transfers end, or the server dies.
CHECK_DEADLOCK FALSE
