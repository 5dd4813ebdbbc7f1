\* Links as agents and commands write them: [[wikilinks]].
SPECIFICATION Spec
CONSTANTS
    Procs = {p1}
    ann = ann
    Users = {ann}
    Nobody = nobody
    s1 = s1
    Later = {s2}
    Sessions = {s1, s2}
    label = label
    Labels = {label}
    NoSid = nosid
    n1 = n1
    Names = {n1}
    Tasks = {t1, t2}
    LinkForms = {"bare", "wikilink"}
    TypedForms = {"bare"}
    InitialPages <- OneGoal
    SetKeys = {"status"}
    ClearKeys = {"phase"}
    MaxCommands = 2
PROPERTIES
    CompletionJustified
