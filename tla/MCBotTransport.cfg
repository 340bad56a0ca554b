CONSTANTS
    Lens = {0, 2}
    MaxTags = 3
    None = None
SPECIFICATION Spec
INVARIANTS TypeOK SuccessIsOwn DataIsOwn NotSentIsNeverExecuted StatusLeavesPipesClean InStepBetweenCommands
CHECK_DEADLOCK FALSE
