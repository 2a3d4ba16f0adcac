CONSTANTS
    None = None
    Malformed = Malformed
    Streams = {s1}
    Queries <- SlowQueries
    Deliveries <- SlowDeliveries
    Filters <- MCFilters
    Norms <- MCNorms
    MaxId = 1
    QueueMaxsize = 2
    MaxArrivals = 5
SPECIFICATION FairSpec
INVARIANTS ExactAccounting NoSleepingOnLoss WantedInOrder
PROPERTIES RecheckNotStarved LossReported QueuedIsYielded RecheckHappens DisconnectUnregisters
