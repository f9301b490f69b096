SPECIFICATION FairSpec
CONSTANTS
    b1 = b1
    b2 = b2
    Buckets <- BothBuckets
    Malformed = {2}
    MaxWrites <- ThreeAndOne
    MaxDisconnects = 1
CHECK_DEADLOCK FALSE
INVARIANTS NoSendOnClosedChannel BrokerOpenInRounds
PROPERTIES ReceivedInOrder LatestReceived RunComesToAnEnd
