\* Every host of up to five characters; two detections of seven profiles.
SPECIFICATION MCSpec
CONSTANTS
    Word <- MCWord
    Stripped <- MCStripped
    MaxTenantLen = 2
    MaxHostLen = 5
    g1 = g1
    g2 = g2
    Goroutines <- MCGoroutines
    Profiles <- MCProfiles
    Queries <- MCQueries
    Orders <- MCOrders
    MaxProfiles <- MCMaxProfiles
SYMMETRY Symmetry
CHECK_DEADLOCK FALSE
INVARIANTS
    AcceptedTenantIsPublishable
    EndpointsAgree
    BestOfFirstDetector
    AnswersMatch
    SelfNamedPartsAreFound
PROPERTIES
    OnlyTheFirstLabelCounts
    SortedStays
