SPECIFICATION Spec
CONSTANTS
    a = a  b = b  c = c
    w = w  x = x  y = y  z = z
    s0 = s0  s1 = s1  s2 = s2
    Roles = {a, b}
    System = System
    Ids = {x}
    NoId = NoId
    NoRole = NoRole
    Sender <- FanSender
    Dests <- PairDests
    Priority <- FlatPriority
    Rank <- FlatRank
    GitIds = {x}
    Malformed = {}
    Shells = {s0, s1}
    RoleOf <- FanShells
    Mode <- TaskMode
    Uses <- MendingUses
    DeliveryAttempts = 1
    MaxFaults = 1
    MaxRetries = 1
INVARIANT
    AlwaysInOneBox
CHECK_DEADLOCK FALSE
