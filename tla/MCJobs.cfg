\* Two jobs of two keys, one client.
SPECIFICATION FairSpec
CONSTANTS
    k1 = k1
    k2 = k2
    c1 = c1
    c2 = c2
    Keys <- TwoKeys
    Clients <- OneClient
    MaxSeq = 2
    MaxReports = 1
    MaxTime = 1
    Retain = 0
    MaxJobs = 1
    QueueCap = 2
CHECK_DEADLOCK FALSE
INVARIANTS
    KeyIsJob
    RecentJobsListed
    EventsInOrder
    EndEventMeansFree
PROPERTIES
    ImplementsJobSlots
    BroadcastsEnd
    GoneAreUnsubscribed
