CONSTANTS
    Requests = {r1, r2}
    Browsers = {b1, b2}
    Certs = {b2}
    NoUser = NoUser
    NoSid = NoSid
    NoFile = NoFile
    NoReply = NoReply
    Drop = Drop
    KeyCount = 4
    FRAME_KEYS = 2
    FirstOffset = 2
    Garbage = {1}
    Epoch = 10
    MaxTime = 11
    MaxAge = 0
    MaxSids = 3
SPECIFICATION Spec
CHECK_DEADLOCK FALSE
PROPERTIES SessionsKept
