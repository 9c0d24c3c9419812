\* A DELETE of a name that is not on the list.
CONSTANTS
    w1 = w1
    w2 = w2
    a = a
    b = b
    p1 = p1
    p2 = p2
    small = small
    Proxies <- TwoProxies
    NoProxy = NoProxy
    Dialers <- NoDialer
    Names <- OneName
    Buffers <- OneBuffer
    Default <- DefaultConfig
    Workers <- TwoWorkers
    NoWorker = NoWorker
    Changes <- Removal
    Missing = Missing
    Unreadable = Unreadable
SPECIFICATION FairSpec
PROPERTIES
    DeleteNeverAdds
