CONSTANT Inputs <- SwitchInputs
SPECIFICATION Spec
INVARIANT FlagsAgreeWithConfig
