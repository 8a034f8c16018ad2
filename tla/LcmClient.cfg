SPECIFICATION ClientSpec
CONSTANTS
    Channels = {"a", "b"}
    MaxSubs = 4
    Matches <- MCMatches
    MaxDepth = 2
    subscriber = subscriber
    publisher = publisher
    Clients = {subscriber, publisher}
    Topics = {ta, tb}
    MaxSubscriptions <- MCSubscriptions
    MaxPublished <- MCPublished
    MaxLost = 1
    MaxNested = 2
SYMMETRY MCSymmetry
\* the model ends where a dispatch meets freed memory
CHECK_DEADLOCK FALSE
INVARIANTS
    ListsAgree
    KeptUnlessSubscribed
    WillBeSent
    
PROPERTIES
    NotAfterUnsubscribe
    Reached
