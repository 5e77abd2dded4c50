SPECIFICATION Spec
CONSTANT Cfgs <- MCCfgs
INVARIANTS TypeOK NoOverlap AckIsGenuine DownReadsDownBelow
PROPERTIES FreshActivationBelow ResumeIsAskedBelow StartIsTaken AckIsSeen ImplementsLifecycle
