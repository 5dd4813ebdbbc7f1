SPECIFICATION Spec
CONSTANTS
    p1 = p1
    p2 = p2
    fish = fish
    hell = hell
    Procs <- MCProcs
    Tasks <- MCTasks
    Days = 2
    Drafts <- MCDrafts
    MaxCommands = 3
SYMMETRY MCSymmetry
INVARIANTS
    TypeOK
    ListedOnce
    RepeatHarmless
PROPERTIES
    OthersKept
    CommandAchieves
CHECK_DEADLOCK FALSE
