SPECIFICATION FairSpec
CONSTANTS
    Tids = {1, 2, 3, 4, 5}
    RscIds = {1, 2, 3, 4}
    Inputs <- AllInputs
INVARIANTS TypeOK AbortedGone HoldersSeen VictimFound NothingLost RepeatsBounded
           OneRequest ArcsLeadToHolders CopyMatches WaitersOverlap
PROPERTIES Synchronizes Progresses Termination
