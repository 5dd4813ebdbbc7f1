SPECIFICATION Spec
CONSTANTS
    p1 = p1
    p2 = p2
    ann = ann
    bob = bob
    s1 = s1
    s2 = s2
    Procs = {p1, p2}
    Users = {ann, bob}
    Nobody = Nobody
    Sessions = {s1, s2}
    NoSid = NoSid
    InitialTasks <- MCTasks
    SetKeys <- MCAllKeys
    ClearKeys <- MCAllKeys
    Days = 2
    MaxCommands = 2
INVARIANTS
    TypeOK
PROPERTIES
    InboxGuarded
    AbortExplained
    FlagExplained
    NoRegression
    OwnersResolvable
    LossesAnnounced
CHECK_DEADLOCK FALSE
