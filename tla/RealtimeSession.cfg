\* One slot a channel, a consumer and an upstream that say two things each.
CONSTANTS
    None = None
    Targets = {t1}
    Capacity = 1
    MAX_REALTIME_REPLAY_BYTES = 1
    ClientEvents = {"create"}
    Pieces = {"content"}
    MaxSaid = 2  MaxSpoken = 2  MaxPieces = 1
SPECIFICATION FairSpec
PROPERTY SessionEnds
CHECK_DEADLOCK FALSE
