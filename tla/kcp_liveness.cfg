CONSTANTS
    SndWnd = 1
    RcvWnd = 2
    Mtu = 3
    Overhead = 1
    FastResend = 1
    MsgLens = {1}
    MaxMsgs <- ThreeFromB
    MaxDup = 0
    MaxInFlight <- OneToEach
    MaxAcks = 1
SPECIFICATION FairSpec
PROPERTY EveryMessageArrives
