\* One stick, an administrator and a user; two sessions, renewed subscriptions, the
\* exhausted version.
CONSTANTS
    alice = alice
    bob = bob
    tabA = tabA
    tabB = tabB
    NULL = NULL
    Users = {alice, bob}
    StickIDs = {s1}
    Names = {n1, bad}
    ValidNames = {n1}
    Clients = {tabA, tabB}
    UserOf <- MCUserOf
    Admins = {alice}
    MaxVersion = 4
    MaxClock = 1
    MaxToken = 2
SPECIFICATION Spec
INVARIANTS
    TypeOK
    OfferedFormApplies
    HolderMatchesSession
    NoInconsistentSession
    VersionIdentifiesPage
    SessionsInOrder
PROPERTIES
    ChangesOnlyWhatWasSeen
    ImplementsContract
