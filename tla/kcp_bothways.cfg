CONSTANTS
    SndWnd = 2
    RcvWnd = 2
    Mtu = 5
    Overhead = 1
    FastResend = 1
    MsgLens = {1}
    MaxMsgs <- OneEach
    MaxDup = 1
    MaxInFlight <- OneToEach
    MaxAcks = 2
SPECIFICATION Spec
INVARIANTS
    AcksTellTruth
PROPERTY FifoSpec
