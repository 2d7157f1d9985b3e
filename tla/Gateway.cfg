\* A token lives one second; the clock runs for two.
SPECIFICATION GatewaySpec
CONSTANTS
    r1 = r1
    r2 = r2
    l1 = l1
    ann = ann
    Ann = Ann
    pw1 = pw1
    pw2 = pw2
    Registrations = {r1, r2}
    Logins = {l1}
    Address <- MCAddress
    Trimmed <- MCTrimmed
    Password <- MCPassword
    TTL = 1
    MaxTime = 4
    AttemptLimits = {0, 1, 2, 3}
INVARIANTS OneAccountPerAddress ForbiddenIsNotServed LoggedIsAnswered RetriesAreCounted
PROPERTIES RefusalsAreExcused TokenLifetime
CHECK_DEADLOCK FALSE
