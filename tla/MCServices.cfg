SPECIFICATION ServicesSpec
CONSTANTS
    InjNodes <- InjNodeCfg
    ResKinds = {"lend", "consume", "shared"}
    MaxGen = 3
    TickMod = 16
    Budget = 3
    Window = 2
    HealthCap = 1
    WriteMod = 3
    PassMod = 4
    RTickMod = 7
    RWindow = 2
    RMax = 2
    MailCap = 1
    EventCap = 1
    EpochMod = 2
    BSlots = 2
    Wants = {3}
    Capacities = {0, 4}
    GrowStep = 2
    MaxCalls = 3
    Readers = {"r1", "r2"}
    MaxOpens = 3
    AppRestarts = 1
    CtlCap = 2
    VetoSlots = {1, 2}
    VTickMod = 6
    MaxAge = 1
    VWriters = {"w1", "w2"}
    CallTicks = 2
    Reader = {"r1", "r2", "r3"}
    CLOSED = 4
INVARIANTS ServicesTypeOK DrainedIsFree WordIsExact AckExactlyOnce PassFreesTask BudgetSettled FreshIsRecent
PROPERTIES SlotsAreOwned MonitorIsHonest RestartsInBudget RetireIsRaceFree NoLostWakeup
\* calls, opens and generations are bounded
CHECK_DEADLOCK FALSE
