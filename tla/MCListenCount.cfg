SPECIFICATION Spec
CONSTANTS
    None = None
    Malformed = Malformed
    PlainNames = {"octo", "repo"}
    CommandLines <- CountedWatches
    Deliveries <- Events
    MaxPrinted = 2
INVARIANT CountExact
