SPECIFICATION FairSpec
CONSTANTS
    Tids = {1, 2, 3, 4, 5}
    RscIds = {1, 2, 3}
    Inputs <- Regrant
INVARIANT GrantedCompatible
