\* Every file of up to eight bytes, in chunks of three.
CONSTANTS
    Chunk = 3
    Longest = 8
    Mails <- AllMails
SPECIFICATION Spec
INVARIANTS TypeOK NoEarlyTerminator MailArrives
\* The transfer ends.
CHECK_DEADLOCK FALSE
