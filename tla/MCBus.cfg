SPECIFICATION Spec
CONSTANTS
    c1 = c1
    c2 = c2
    l1 = l1
    l2 = l2
    a1 = a1
    ALL = ALL
    NoListener = NoListener
    Client <- MCClient
    Owner = c1
    Listener <- MCListener
    Address <- MCAddress
    Subscription <- MCSubscription
    MaxSends = 2
    Slots = 1
    MaxRequests = 2
INVARIANTS PayloadDestroyedOnce SubscriptionsPrecedeMessages DeliveredInOrder FinalDrainIsFinal ClosedOncePerSubscription
PROPERTIES MessagesAreSettled DestroyReturns
CHECK_DEADLOCK FALSE
