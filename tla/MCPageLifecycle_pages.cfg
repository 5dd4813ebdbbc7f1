SPECIFICATION Spec
CONSTANTS
    Procs = {p1, p2}
    ann = ann
    Users = {ann}
    Nobody = nobody
    s1 = s1
    Later = {s2, s3}
    Sessions = {s1, s2, s3}
    label = label
    Labels = {label}
    NoSid = nosid
    n1 = n1
    Names = {n1, n2}
    Tasks = {t1}
    LinkForms = {"bare"}
    TypedForms = {"bare"}
    InitialPages <- MCPages
    SetKeys = {"status", "phase", "claude_session_id", "tags", "blocked_by"}
    ClearKeys = {"phase", "claude_session_id", "tags", "blocked_by"}
    MaxCommands = 2
SYMMETRY Symmetry
INVARIANTS
    TypeOK
    SessionsResolvable
PROPERTIES
    ApprovalRecorded
    ClosedWhole
    CompletionJustified
    BlockersKept
