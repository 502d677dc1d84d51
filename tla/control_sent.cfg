CONSTANTS
    Updated <- Nobody
    MaxCmds = 2
SPECIFICATION FairSpec
PROPERTY FirstCommandHandled
CHECK_DEADLOCK FALSE
