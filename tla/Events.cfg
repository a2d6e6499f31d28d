SPECIFICATION FairSpec
CONSTANTS
    None = None
    Emitter = {w, e1}
    Watcher = w
    Client = {c1}
    BufferCapacity = 1
    ChannelCapacity = 1
    MaxEvents = 2
    MaxDrops = 1
    MaxRestarts = 1
INVARIANT TypeOK
INVARIANT ResyncCovers
PROPERTY StreamsDrain
CHECK_DEADLOCK FALSE
