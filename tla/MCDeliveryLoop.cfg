\* Two workers and three notifications.
CONSTANTS
    w1 = w1
    w2 = w2
    NULL = NULL
    Workers = {w1, w2}
    Rows = {1, 2, 3}
    MaxFaults = 3
SPECIFICATION Spec
PROPERTIES
    ImplementsDelivery
CHECK_DEADLOCK FALSE
