\* Three peers on pages of one, three or four rows at first and one or two more meanwhile.
SPECIFICATION Spec
CONSTANTS
    AllTopics = AllTopics
    ListLimit = 5
    DetailLimit = 2
    PeersPerPage = 1
    Null = Null
    NoPeer = NoPeer
    Peers <- ThreePeers
    PeerList = PeerList
    Off = Off
    None = None
    Pending = Pending
    Databases <- SmallDatabases
    NewRows <- TwoRows
    MaxNew = 2
    MaxTrail = 3
    MaxCalls = 2
    MaxFaults = 1
INVARIANTS
    ScreenFollowsSelection
    NoDeadScreen
    CountedIsShown
    
    PagesPartitionPeers
CHECK_DEADLOCK FALSE
