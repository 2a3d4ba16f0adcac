SPECIFICATION FairSpec
CONSTANTS
    None = None
    Malformed = Malformed
    PlainNames = {"octo", "repo"}
    CommandLines <- ReviewWatches
    Deliveries <- Events
    MaxPrinted = 1
PROPERTY TerminalStateExits
