SPECIFICATION Spec
CONSTANT Requests <- MCRequests
INVARIANT FailuresDriveTheBreaker
