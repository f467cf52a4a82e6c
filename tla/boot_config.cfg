CONSTANT Inputs <- MCInputs
SPECIFICATION Spec
INVARIANTS TypeOK QueueHasRedis SpelledFlagsAgree ProductionIsStrict MigrationsFollowTheApp
