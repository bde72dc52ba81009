CONSTANT Versions = {1, 2}
SPECIFICATION Spec
INVARIANT ConsumerPayloadKept
CHECK_DEADLOCK TRUE
