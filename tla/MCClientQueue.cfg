SPECIFICATION Spec
CONSTANTS
    p1 = p1
    p2 = p2
    Producers = {p1, p2}
    Consumer = Consumer
    Owner = Owner
    NoThread = NoThread
    MaxPushes = 3
INVARIANTS
    NoLostWakeup
    PerProducerOrder
    NothingLost
PROPERTIES
    WaitingDrainReturns
    ChannelSpec
