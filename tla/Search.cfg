SPECIFICATION FairSpec
CONSTANTS
    TransIds = {1, 2, 3}
    None = None
INVARIANTS TypeOK NothingDangles
PROPERTIES ImplementsSearch SearchProgresses Answers
