CONSTANTS
    Mails = {"m1", "m2"}
    Setups <- MCSetups
    FRAME_SMTP_MSG = 2
    MaxTimeouts = 1
    HeaderSize = 7
    LineSize = 4
    BodySize = 12
    MaxSends = 2
    Steady = {"m2"}
SPECIFICATION FairSpec
CHECK_DEADLOCK FALSE
INVARIANTS TypeOK OneOwner WholeMail
 
