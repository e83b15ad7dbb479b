SPECIFICATION ProgramSpec
CONSTANTS
    IntMax = 3
    Tids = {0, 1, 2, 3}
    RscIds = {0, 1, 2, 3}
    Inputs = {}
    Calls <- SomeCalls
INVARIANTS ProgramTypeOK ReadAsWritten ScansAgree ReportExplained CopyMatches
           ReadersExcludeCertifiers
PROPERTY Exits
