CONSTANTS
    m1 = m1
    Messages = {m1}
    Clients = {c1, c2}
    NoId = noid
    MaxDeliveries = 3
    MaxCrashes = 2
    MayAge = {m1}
SPECIFICATION FairSpec
INVARIANT OneCopy
PROPERTIES AckFinal Redelivered
