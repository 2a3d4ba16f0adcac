CONSTANTS
    None = None
    Malformed = Malformed
    Streams = {s1}
    Queries <- SlowQueries
    Deliveries <- SlowDeliveries
    Filters <- MCFilters
    Norms <- MCNorms
    MaxId = 1
    QueueMaxsize = 1
    MaxArrivals = 1
SPECIFICATION Spec
INVARIANTS ClosedMeansUnregistered
