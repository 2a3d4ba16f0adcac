SPECIFICATION FairSpec
CONSTANTS
    None = None
    Malformed = Malformed
    PlainNames = {"octo", "repo"}
    CommandLines <- TimedWatches
    Deliveries <- Events
    MaxPrinted = 1
PROPERTY DeadlineExits
