---------------------------- MODULE MCLintFix ----------------------------
\* Pages to start from.  Every key keeps its place in the frontmatter, as the
\* program writes it; an external writer prepends lines above it.
EXTENDS LintFix

MCTexts == STRING
MCFlowLists == [in_brackets |-> <<"a">>]
MCCommented == [completed_then_comment |-> "completed"]

Or(k, values) == {<<>>} \cup {<<Line(k, v)>> : v \in values}
Join(A, B) == {a \o b : a \in A, b \in B}

Checked == Line(Box, "x")
Open == Line(Box, " ")
Begun == Line(Box, "/")
Prose == Line("status", "next")

\* Dates, phases, priorities and checkboxes against the status.
Statuses == {"next", "backlog", "in_progress", "completed", "hold", "todo",
             "urgent"}
StatusBlocks ==
    Join(Or("defer_date", {"d"}),
    Join(Or("flag", {"quoted_true"}),
    Join(Or("phase", {"execution", "done"}),
    Join(Or("priority", {"high", "1"}),
    Join(Or("recurring", {"weekly"}),
         Or("status", Statuses))))))
StatusBodies == {<<>>, <<Checked>>, <<Open, Checked>>, <<Begun, Prose, Checked>>}

\* Lists, in lines and in brackets, and what was prepended to them.
Items == {<<>>, <<Line(Item, "a")>>, <<Line(Item, "a"), Line(Item, "b")>>}
List(k) == Join({<<Line(k, "")>>}, Items)
Prepended == {<<>>, <<Line("priority", "high")>>, <<Line("status", "next")>>,
              <<Line("status", "completed")>>, <<Line("flag", "quoted_true")>>,
              <<Line("tags", "in_brackets")>>, <<Line(Item, "a")>>}
ListBlocks ==
    Join(Prepended,
    Join({<<>>} \cup List("tags"),
    Join(List("goals") \cup {<<Line("goals", "in_brackets")>>},
    Join({<<>>, <<Line("goals", ""), Line(Item, "b")>>},
    Join(Or("priority", {"low"}),
    Join({<<Line("status", "backlog")>>, <<Line("status", "in_progress")>>},
         {<<>>, <<Line("tags", ""), Line(Item, "b")>>}))))))

\* The rules that read one key.
KeyBlocks ==
    Join(Or("blocked_by", {"", "a", "in_brackets"}),
    Join(Or("created", {"", "null", "d"}),
    Join(Or("created_by", {"recurring-task-creator"}),
    Join(Or("defer_date", {"", "d"}),
    Join({<<Line("status", s)>> :
             s \in {"hold", "completed", "completed_then_comment"}},
         Or("task_identifier", {"", "uuid1", "abc"}))))))

\* A bare date key above another bare key.
BareBlocks ==
    Join({<<Line("defer_date", "")>>},
    Join(List("goals"), Or("status", {"next", "hold"})))

Pages(blocks, bodies) == {Page(TRUE, fm, b) : fm \in blocks, b \in bodies}

MCFiles ==
    ({"task", "goal"} \X Pages(StatusBlocks, StatusBodies))
        \cup ({"task"} \X Pages(ListBlocks, {<<>>, <<Checked>>}))
        \cup ({"task", "goal"} \X Pages(KeyBlocks \cup BareBlocks, {<<>>}))
        \cup ({"task", "goal"} \X
                  {Page(FALSE, <<>>, b) : b \in StatusBodies \cup {<<Prose>>}})

\* Pages with several lists, for the runs on single rules.
MCListFiles ==
    {"task"} \X Pages(Join(List("tags"), Join(List("goals"),
                      Join({<<>>} \cup List("goals"), List("themes")))), {<<>>})
==========================================================================
