CONSTANTS
    Fds = {0, 3}
    InitEvents = 1
    MaxEvents = 2
    HighWaterMark = 2
    MessageLen = 2
    Conns = {c1, c2}
    MaxIo = 1
    MaxFds = 1
    MaxCalls = 2
    UserCalls = {"send", "shutdown", "forceCloseWithDelay", "stopRead", "startRead"}
    kInitRetryDelay = 1
    kMaxRetryDelay = 3
    MaxClientCalls = 2
    MaxTries = 2
    ClientUserCalls = {"forceCloseWithDelay"}
    kCheapPrepend = 2
    kInitialSize = 1
    sizeofExtrabuf = 2
    MaxLen = 2
    MaxSize = 4
    Threads = {t1, t2}
    Methods = {"Echo", "NO_METHOD"}
    MaxRpcCalls = 2
    MaxForeign = 1
    kMaxMessageLen = 4
    Lines <- MCLines
    Questions <- MCQuestions
    MaxLines = 4
    Years = {1699, 1899, 1968, 1970, 1999, 2036, 2099, 2399}
    MaxDays = 800
    Epoch = {1968, 1969, 1970, 1971, 1999, 2000, 2036, 2037}
    SecondsOfDay = {0, 1, 59, 60, 3599, 3600, 43199, 86399}
    ZoneFiles <- MCZones
    Hour = 2
    MaxGmt = 60
    Loggers = {l1, l2}
    kSmallBuffer = 11
    kMaxNumericSize = 5
    Texts = {3}
    Ints <- MCInts
    Addresses = {31}
    LogBits = 5
    MaxInserts = 1
    MaxSecond = 2
    Wrap = 64
    MaxTime = 11
    MaxStall = 11
    Steps = {2, 7}
    MaxSends = 2
    MaxDelay = 3
    Resync = 7
    IKCP_RTO_NDL = 2
    IKCP_RTO_MIN = 3
    IKCP_RTO_DEF = 4
    IKCP_RTO_MAX = 9
    IKCP_DEADLINK = 3
    IKCP_THRESH_INIT = 2
    IKCP_THRESH_MIN = 2
    MinInterval = 1
    MaxInterval = 2
    Configs <- MCConfigs
    mss = 16
    snd_wnd = 2
    IKCP_WND_RCV = 3
    Windows = {0, 3}
    IKCP_INTERVAL = 2
    ByteValues = 128
    mtu = 72
    FirstBlock = 2
    AckSns <- MCAckSns
    PushSegments <- MCPushSegments
    Current = 16500
    Una = 132
    Window = 129
    Cuts = {0, 23, 24, 30, 48}
    MaxAckPushes = 3
    MaxPushSegments = 1
    Half = 8
    Wnd = 3
    MaxLag = 5
    MaxSn = 50
SPECIFICATION NetSpec
SYMMETRY Symmetry
INVARIANTS
    PollerInv
    AssertionsHold TeardownInv StreamInv
    ClientInv
    BufferInv RpcInv HttpInv
    CalendarInv LineInv
    TimingInv WireInv
    SeqInv ComparisonsExact
PROPERTIES
    StopIsFinal
CHECK_DEADLOCK FALSE
