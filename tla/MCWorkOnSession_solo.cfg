SPECIFICATION FairSpec
CONSTANTS
    p1 = p1
    p2 = p2
    alice = alice
    bob = bob
    Procs = {p1}
    Old = Old
    NoSid = NoSid
    Child = Child
    None = None
    Users = {alice, bob}
    Nobody = Nobody
    User <- MCSoloUser
    Invocations <- MCAllInvocations
    Faults = {"launcher", "lockdir", "spawn"}
    MaxEdits = 1
INVARIANTS
    IdNamesStartedSession
PROPERTIES
    Termination
CHECK_DEADLOCK FALSE
