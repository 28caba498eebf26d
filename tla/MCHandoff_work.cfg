SPECIFICATION Spec
CONSTANTS
    a = a  b = b  c = c
    w = w  x = x  y = y  z = z
    s0 = s0  s1 = s1  s2 = s2
    Roles = {b, c}
    System = System
    Ids = {w, x, z}
    NoId = NoId
    NoRole = NoRole
    Sender <- WorkSender
    Dests <- WorkDests
    Priority <- FlatPriority
    Rank <- FlatRank
    GitIds = {z}
    Malformed = {}
    Shells = {s1, s2}
    RoleOf <- WorkShells
    Mode <- BatchMode
    Uses <- WorkUses
    DeliveryAttempts = 1
    MaxFaults = 1
    MaxRetries = 1
INVARIANT
    OneDownstreamPerSource
PROPERTY
    OnlyForward
CHECK_DEADLOCK FALSE
