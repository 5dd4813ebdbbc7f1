SPECIFICATION Spec
CONSTANTS
    Texts <- MCTexts
    GoalFiles = {"a"}
    FlowLists <- MCFlowLists
    Commented <- MCCommented
    Files <- MCFiles
    MaxRuns = 3
INVARIANTS
    FixSettles
    FixedIsGone
PROPERTIES
    MeaningKept
    NoNewTrouble
