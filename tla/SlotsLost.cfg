SPECIFICATION SlotsSpec
CONSTANTS
    ResKinds = {"lend", "consume", "shared"}
    MaxGen = 3
INVARIANT SingletonKept
\* generations are bounded
CHECK_DEADLOCK FALSE
