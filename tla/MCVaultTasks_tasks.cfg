SPECIFICATION Spec
CONSTANTS
    a = a
    b = b
    p1 = p1
    p2 = p2
    id1 = id1
    id2 = id2
    id3 = id3
    which = which
    why = why
    Arrow = Arrow
    Stars = Stars
    NoId = NoId
    NoTask = NoTask
    Tasks <- MCTasks
    Procs <- MCProcs
    Ids <- MCIds
    Words <- MCWords
    Bodies <- MCBodies
    Identified <- MCIdentified
    Answers <- MCAnswers
    MaxCommands = 2
    MaxEdits = 1
SYMMETRY MCSymmetry
INVARIANT
    AnswersLand
PROPERTY
    IdentifierSettled
CHECK_DEADLOCK FALSE
