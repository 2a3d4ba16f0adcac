SPECIFICATION SystemSpec
CONSTANTS
    None = None
    Malformed = Malformed
    PlainNames = {"octo", "repo"}
    CommandLines <- Lines
    Deliveries <- Events
    MaxPrinted = 3
    Capacity = 1
    MaxLog = 2
    MaxFaults = 2
    MaxWire = 5
INVARIANT SystemTypeOK
INVARIANT NothingSilentlyLost
INVARIANT PrintedInOrder
INVARIANT FramesIntact
INVARIANT EventsExpected
PROPERTY ImplementsFifo
PROPERTY KeepsUp
PROPERTY Resubscribes
