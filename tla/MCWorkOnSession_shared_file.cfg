SPECIFICATION Spec
CONSTANTS
    p1 = p1
    p2 = p2
    alice = alice
    bob = bob
    Procs = {p1, p2}
    Old = Old
    NoSid = NoSid
    Child = Child
    None = None
    Users = {alice, bob}
    Nobody = Nobody
    User <- MCUser
    Invocations <- MCBothModes
    Faults = {"spawn"}
    MaxEdits = 1
PROPERTIES
    BookkeepingConfined
    InboxKept
    TeammateKept
CHECK_DEADLOCK FALSE
