CONSTANTS
    MaxAttempts = 3
    MaxCalls = 1
    Wallet = 10
    Budget = 8
    Alloc = 5
SPECIFICATION Spec
INVARIANTS DeployedWithinBudget
\* Only the safety of the deployed amount is in question.
CHECK_DEADLOCK FALSE
