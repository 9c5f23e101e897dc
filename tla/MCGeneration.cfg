CONSTANT N = 3
SPECIFICATION Spec
INVARIANTS ReadyOwnsStages PreimageSurvives Recoverable ReclaimAsPredicted
PROPERTIES DestroysOnlyItsOwn ImplementsPublication Converges
CHECK_DEADLOCK FALSE
