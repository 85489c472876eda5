\* Four threads and a table with room for the loggers of two.
CONSTANTS
    Thread = {t1, t2, t3, t4}
    main_logger = main_logger
    user_access_log = user_access_log
    NULL = null
    MAX_LOGGERS = 4
SYMMETRY ThreadSymmetry
SPECIFICATION LoggerSpec
INVARIANT LoggerTypeOK
INVARIANT LiveWhileServing
INVARIANT FreedOnce
INVARIANT AllFreed
INVARIANT WithinTable
\* The process ends.
CHECK_DEADLOCK FALSE
