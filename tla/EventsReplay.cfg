SPECIFICATION Spec
CONSTANTS
    None = None
    Emitter = {w, e1, e2}
    Watcher = w
    Client = {c1}
    BufferCapacity = 3
    ChannelCapacity = 2
    MaxEvents = 3
    MaxDrops = 1
    MaxRestarts = 0
SYMMETRY EmitterSymmetry
INVARIANT ReplayComplete
CHECK_DEADLOCK FALSE
