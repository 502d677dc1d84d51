CONSTANTS
    SndWnd = 2
    RcvWnd = 2
    Mtu = 3
    Overhead = 1
    FastResend = 1
    MsgLens = {1}
    MaxMsgs <- ThreeFromB
    MaxDup = 0
    MaxInFlight <- TwoToC
    MaxAcks = 2
SPECIFICATION Spec
INVARIANTS
    TypeOK
    NoSegmentLost
    AcksTellTruth
    WindowsHold
PROPERTY FifoSpec
