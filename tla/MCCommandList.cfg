CONSTANTS
    Waiters = {app}
    App = app
    QUEUE_HIGH_WATERMARK = 1
    MaxP3D = 1
    l1 = l1
    l2 = l2
    Lists = {l1, l2}
    NoList = NoList
    Room <- Rooms
    NumSpeculative = 2
SPECIFICATION Spec
INVARIANTS RequestsExact RunningExact NoInterruptStranded NoMissedHandler
PROPERTIES WaitReturns FinalizeReturns
