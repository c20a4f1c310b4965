SPECIFICATION FairSpec
CONSTANTS
    Consumers = {"events", "critical"}
    Types = {"alert"}
    Critical = {}
    Mandated = {}
    Category <- OneCategory
    ChannelsOf <- OneChannel
    GlobalCap = 2
    CategoryCap = 2
    ChannelCap = 2
    Day = 3
    Hour = 3
    Cooldown = 1
    MaxEvents = 6
    MaxHeld = 1
    MaxFaults = 1
    None = None
INVARIANT WindowBound
PROPERTY CapLifts
