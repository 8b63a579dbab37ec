SPECIFICATION Spec
INVARIANT RemovedHooksAreGone
CHECK_DEADLOCK FALSE
