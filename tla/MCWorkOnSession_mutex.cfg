SPECIFICATION Spec
CONSTANTS
    p1 = p1
    p2 = p2
    alice = alice
    bob = bob
    Procs = {p1, p2}
    Old = Old
    NoSid = NoSid
    Child = Child
    None = None
    Users = {alice, bob}
    Nobody = Nobody
    User <- MCUser
    Invocations <- MCBothModes
    Faults = {"crash", "storage", "lockdir", "spawn"}
    MaxEdits = 0
INVARIANTS
    TypeOK
    SingleWriter
    LockHeldByLiving
    OwnTurnReleased
    FreshIdValidated
PROPERTIES
    MutexSpec
CHECK_DEADLOCK FALSE
