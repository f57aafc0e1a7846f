CONSTANTS
    IdLengths = {7, 8, 11, 12, 64}
    Limits <- SomeLimits
    NoLimit = NoLimit
    Masks = {0, 24, 31, 32}
    EnvLists <- SomeEnvs
SPECIFICATION Spec
INVARIANT MemoryGranted
CHECK_DEADLOCK FALSE
