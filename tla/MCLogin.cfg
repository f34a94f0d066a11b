\* Two tabs that sign in; the delays 3 and 4 reach the cap at the second failure.
CONSTANTS
    login1 = login1
    login2 = login2
    callback1 = callback1
    callback2 = callback2
    alice = alice
    bob = bob
    None = None
    Logins = {login1, login2}
    Callbacks = {callback1, callback2}
    Requests = {login1, login2, callback1, callback2}
    People = {alice, bob}
    SessionTTL = 2
    MaxRestarts = 1
    InitialBackoff = 3
    MaxBackoff = 4
    DiscoveryTimeout = 1
    MaxClock = 3
SPECIFICATION LoginSpec
INVARIANTS
    SingleFlight
    NoWaiterForgotten
    QuietAfterFailure
    ExchangesOwnVerifier
    UndisturbedLoginAccepted
    FormActsAsShown
PROPERTIES
    EveryRequestAnswered
CHECK_DEADLOCK FALSE
