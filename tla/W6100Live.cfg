CONSTANTS
    N = 1
    None = None
    c1 = c1
    c2 = c2
    Configs <- MCConfigs
    MaxOpens = 1
    MaxSets = 2
    SpiFaults = FALSE
    PollsLink = "never"
SPECIFICATION FairSpec
INVARIANT ReleaseCloses
PROPERTIES TransferEnds ConfigArrives
