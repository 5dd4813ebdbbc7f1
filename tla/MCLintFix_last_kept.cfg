SPECIFICATION Spec
CONSTANTS
    Texts <- MCTexts
    GoalFiles = {"a"}
    FlowLists <- MCFlowLists
    Commented <- MCCommented
    Files <- MCListFiles
    MaxRuns = 1
PROPERTIES
    LastKept
