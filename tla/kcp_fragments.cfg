CONSTANTS
    SndWnd = 2
    RcvWnd = 3
    Mtu = 5
    Overhead = 1
    FastResend = 1
    MsgLens = {5, 13}
    MaxMsgs <- TwoFromB
    MaxDup = 1
    MaxInFlight <- TwoToC
    MaxAcks = 1
SPECIFICATION Spec
INVARIANTS
    NoReassemblyDeadlock
PROPERTY FifoSpec
