\* Three waiters: one asleep, one between its check and its sleep, one late.
CONSTANTS
    Waiters = {w1, w2, w3}
    Results = {cached, failed}
    Interrupted = interrupted
    None = None
SPECIFICATION Spec
INVARIANTS
    TypeOK
    NoLostWakeup
PROPERTIES
    ImplementsOneShot
    EveryWaiterReturns
