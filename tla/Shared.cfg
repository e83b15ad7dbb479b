SPECIFICATION FairSpec
CONSTANTS
    Tids = {1, 2}
    RscIds = {1, 2}
    Inputs <- SharedInputs
INVARIANT WaitersOverlap
