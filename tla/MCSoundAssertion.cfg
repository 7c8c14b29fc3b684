SPECIFICATION Spec
INVARIANTS SyncAfterSend
CHECK_DEADLOCK FALSE
