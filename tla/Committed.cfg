SPECIFICATION FairSpec
CONSTANTS
    Tids = {1, 2, 3}
    RscIds = {1, 2, 3}
    Inputs <- FlatPairs
INVARIANT CommittedReleased
