CONSTANT Inputs <- CliInputs
SPECIFICATION Spec
INVARIANT CliRunsOnTheSameConfiguration
