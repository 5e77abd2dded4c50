SPECIFICATION Spec
CONSTANT Cfgs <- MCCfgs
PROPERTY FreshActivation
