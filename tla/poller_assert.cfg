CONSTANTS
    Fds = {0, 1}
    InitEvents = 1
    MaxEvents = 2
SPECIFICATION PollerSpec
INVARIANT RemovableSlots
