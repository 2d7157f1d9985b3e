SPECIFICATION Spec
CONSTANTS
    p1 = p1
    p2 = p2
    c1 = c1
    c2 = c2
    s1 = s1
    s2 = s2
    admin = admin
    k1 = k1
    k2 = k2
    Processes = {p1, p2}
    Callers = {c1, c2}
    Of <- MCOf
    Services = {s1, s2}
    Roles = {admin}
    SecretKeys = {k1, k2}
    Defaults <- MCDefaults
    RoleOf <- MCRoleOf
    MaxCommits = 2
INVARIANTS DefaultsTogether AcknowledgedWritesStay KeyIsOfConfig
 
SYMMETRY MCSymmetry
