SPECIFICATION Spec
CONSTANTS
    p1 = p1
    p2 = p2
    Processes = {p1, p2}
    Threads = {h1, h2}
    ProcessOf <- TheProcessOf
    Tokens = {t1}
    NoTime = NoTime
    NoToken = NoToken
    Nothing = Nothing
    Second = 2
    Life = 4
    TTL = 2
    MaxLookup = 1
    MaxCommit = 1
    MaxFaults = 1
    MaxClock = 4
SYMMETRY ThreadSymmetry
INVARIANTS TypeOK PasswordChangeSettles RefusalIsEarned
PROPERTIES RevocationSettles
VIEW Seen
