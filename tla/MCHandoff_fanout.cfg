SPECIFICATION FairSpec
CONSTANTS
    a = a  b = b  c = c
    w = w  x = x  y = y  z = z
    s0 = s0  s1 = s1  s2 = s2
    Roles = {a, b, c}
    System = System
    Ids = {x, y}
    NoId = NoId
    NoRole = NoRole
    Sender <- FanSender
    Dests <- FanDests
    Priority <- FlatPriority
    Rank <- FlatRank
    GitIds = {x, y}
    Malformed = {y}
    Shells = {s0}
    RoleOf <- FanShells
    Mode <- TaskMode
    Uses <- DeliveryUses
    DeliveryAttempts = 2
    MaxFaults = 2
    MaxRetries = 1
INVARIANT
    SentWasDelivered
PROPERTY
    EveryMessageSettles
    KeepsContract
CHECK_DEADLOCK FALSE
