\* A call whose sides send at most two frames.
SPECIFICATION Spec
CONSTANT MaxFrames = 2
CHECK_DEADLOCK FALSE
INVARIANT SuccessIsTheBackends
