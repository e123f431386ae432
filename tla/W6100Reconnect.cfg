CONSTANTS
    N = 1
    None = None
    c1 = c1
    c2 = c2
    Configs <- MCConfigs
    MaxOpens = 1
    MaxSets = 1
    SpiFaults = FALSE
    PollsLink = "never"
SPECIFICATION Spec
INVARIANT ReconnectQuiescent
