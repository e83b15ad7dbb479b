SPECIFICATION FairSpec
CONSTANTS
    Tids = {0, 1, 2}
    RscIds = {1, 2, 3}
    Inputs <- ZeroInputs
INVARIANT VictimFound
