SPECIFICATION FairSpec
CONSTANTS
    None = None
    Malformed = Malformed
    PlainNames = {"octo", "repo"}
    CommandLines <- AllLines
    Deliveries <- Events
    MaxPrinted = 3
INVARIANT ListenTypeOK
INVARIANT ExitJustified
INVARIANT PlainCountExact
INVARIANT BackoffEarned
INVARIANT NoTaskOutlivesItsRound
INVARIANT SubscriptionServesUntil
PROPERTY ShownStateExits
PROPERTY PlainDeadlineExits
