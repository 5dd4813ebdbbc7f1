------------------------- MODULE MCPageLifecycle -------------------------
\* Pages to start from: a goal and a topic in the inbox, a goal under way, a
\* goal whose session is a display name, the other kinds, and a task; some
\* have a blocker that was written as a text.
EXTENDS PageLifecycle

CONSTANTS ann, s1, n1, label, Later

Inbox == [Blank EXCEPT !.status = "next", !.phase = "todo"]

Running == [Blank EXCEPT !.status = "in_progress", !.phase = "execution",
                         !.assignee = ann, !.claude_session_id = s1,
                         !.blocked_by = List(<<n1>>)]

Older == [Blank EXCEPT !.status = "active", !.claude_session_id = label,
                       !.blocked_by = Text(<<n1>>)]

MCPages ==
    ({"goal"} \X {Inbox, Running, Older})
        \cup ({"topic"} \X {Inbox, Running})
        \cup ({"objective", "theme", "vision"} \X {Blank})
        \cup ({"task"} \X {Blank, Older})

\* A goal under way, for the run on its open tasks.
OneGoal == {<<"goal", Running>>}

Symmetry == Permutations(Procs) \cup Permutations(Later)
==========================================================================
