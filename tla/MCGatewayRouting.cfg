CONSTANTS
    None = None
    Malformed = Malformed
    Streams = {s1, s2}
    Queries <- RoutingQueries
    Deliveries <- RoutingDeliveries
    Filters <- MCFilters
    Norms <- MCNorms
    MaxId = 2
    QueueMaxsize = 1
    MaxArrivals = 2
SPECIFICATION Spec
SYMMETRY StreamSymmetry
INVARIANTS GatewayTypeOK RegisteredWhileOpen SenderAgrees
PROPERTIES ImplementsLossyFifo
