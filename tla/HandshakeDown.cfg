SPECIFICATION Spec
CONSTANT Cfgs <- ShellCfgs
INVARIANT DownReadsDown
