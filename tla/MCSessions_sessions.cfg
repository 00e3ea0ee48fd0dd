SPECIFICATION FairSpec
CONSTANTS
    s1 = s1
    None = None
    sync1 = sync1
    sync2 = sync2
    replay = replay
    check = check
    review = review
    Records = {1, 2}
    Segments = {s1}
    Positions = {1}
    RecordsPerPosition = 1
    PageSize = 5
    Syncs = {sync1, sync2}
    Replays = {replay}
    Checks = {check}
    Reviews = {review}
    Contents <- ComesAndGoes
    Need <- NeedOne
    MaxTime = 2
    MaxBegins = 3
CHECK_DEADLOCK FALSE
INVARIANTS
    TypeOK
    OneTicketUnlessCrossed
    CursorsCoverSource
    SomeoneCanGoOn
PROPERTIES
    FaultyClearedKnowingly
    SessionsGetOn
    EverySessionEnds
