\* Two requests at a time: two names added and deleted, the upstream and the buffer size
\* changed, with every lock, failed save, death and restart in between.
CONSTANTS
    w1 = w1
    w2 = w2
    a = a
    b = b
    p1 = p1
    p2 = p2
    small = small
    Proxies <- TwoProxies
    NoProxy = NoProxy
    Dialers <- NoDialer
    Names <- TwoNames
    Buffers <- OneBuffer
    Default <- DefaultConfig
    Workers <- TwoWorkers
    NoWorker = NoWorker
    Changes <- Edits
    Missing = Missing
    Unreadable = Unreadable
SPECIFICATION FairSpec
INVARIANTS
    TypeOK
    
    SavedIsCurrent
PROPERTIES
    
    RequestsAnswered
