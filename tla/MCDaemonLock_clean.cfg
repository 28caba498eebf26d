SPECIFICATION FairSpec
CONSTANTS
    d1 = d1
    d2 = d2
    c1 = c1
    c2 = c2
    Pids = {d1, d2}
    Commands = {c1, c2}
PROPERTY CleanSparesDaemon
