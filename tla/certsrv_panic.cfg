SPECIFICATION Spec
CONSTANT ReqIds = {1, 2}
INVARIANT FailureIsReported
