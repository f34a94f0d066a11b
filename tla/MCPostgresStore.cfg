\* A user, two requests and two workers; two rounds of claim and release.
SPECIFICATION Spec
CONSTANTS
    NULL = NULL
    Users = {u1}
    Requests = {r1, r2}
    Workers = {w1, w2}
    MaxVersion = 5
    MaxToken = 5
    MaxRows = 2
    u1 = u1
    r1 = r1
    r2 = r2
    w1 = w1
    w2 = w2
SYMMETRY Perms
INVARIANTS
    NoDeadlock
PROPERTIES
    ImplementsContract
