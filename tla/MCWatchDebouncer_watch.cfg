SPECIFICATION FairSpec
CONSTANTS
    task = task
    draft = draft
    Paths = {task, draft}
    Watched <- MCWatched
    MaxEvents = 4
CHECK_DEADLOCK FALSE
INVARIANTS
    TypeOK
    OneLiveWhenPrompt
    LastWordTrue
PROPERTIES
    NothingLost
