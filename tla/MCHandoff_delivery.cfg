SPECIFICATION Spec
CONSTANTS
    a = a  b = b  c = c
    w = w  x = x  y = y  z = z
    s0 = s0  s1 = s1  s2 = s2
    Roles = {a, b}
    System = System
    Ids = {x, y}
    NoId = NoId
    NoRole = NoRole
    Sender <- CommitSender
    Dests <- PairDests
    Priority <- FlatPriority
    Rank <- FlatRank
    GitIds = {x, y}
    Malformed = {}
    Shells = {s0, s1}
    RoleOf <- FanShells
    Mode <- BatchMode
    Uses <- DeliveryUses
    DeliveryAttempts = 1
    MaxFaults = 1
    MaxRetries = 1
INVARIANT
    TypeOK
    NoDoubleDelivery
    OneSourceBox
    OneSelectionAtATime
CHECK_DEADLOCK FALSE
PROPERTY
    OnlyForward
    KeepsContract
