SPECIFICATION Spec
CONSTANTS
    Criteria <- MCCriteria
    Form <- MCForm
    Module <- MCModule
    TestFile <- MCTestFile
    Sources <- MCSources
    Budgets <- MCBudgets

    
PROPERTIES
    ImplementsCore
    RunEnds
CHECK_DEADLOCK FALSE
