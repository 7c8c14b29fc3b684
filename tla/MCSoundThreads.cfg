SPECIFICATION Spec
INVARIANTS CallbackBeforeSend NoMissedWakeUp
PROPERTIES FrameGoesOn CallsReturn
CHECK_DEADLOCK FALSE
