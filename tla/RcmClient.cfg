SPECIFICATION FairSpec
CONSTANTS
    Threads = {t1, t2, t3}
    ExecOnly = {t2, t3}
    MaxId = 3
    NULL = NULL
INVARIANTS TypeOK MailmanIsFair
PROPERTIES ImplementsCalls ReplyReachesCaller
CHECK_DEADLOCK FALSE
