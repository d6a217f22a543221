CONSTANTS
    Event = {e1, e2}
    Channel = {h1}
    NoChannel = NoChannel
    Echoing = TRUE
SPECIFICATION FairSpec
INVARIANTS PublisherTypeOK PoolIsAccounted SentMeansDelivered
PROPERTIES ProvidesDelivery EveryEventArrives
CHECK_DEADLOCK FALSE
