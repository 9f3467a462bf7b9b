SPECIFICATION BothSpec
CONSTANTS
    Ids = {u1, u2}
    Receipts = {r1}
    Handlers = {h1, h2}
    MaxFaults = 1
    Requests = {f1}
    Users = {m1, m2}
    Admins = {m2}
    Processes = {p1, p2}
    Statuses = {PLANNED, UNDER_REVIEW}
    UnderReview = UNDER_REVIEW
    None = None
INVARIANTS
    TypeOK
    RowsHaveOwner
    NoActingForDeleted
    OnlyLateImagesLeft
    PublicStateConsistent
    OutsidersVoteOnShown
    BoardRefersToMembers
PROPERTIES
    SignInGetsThrough
    DeletionGetsThrough
CHECK_DEADLOCK FALSE
