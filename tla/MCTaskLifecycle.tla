------------------------- MODULE MCTaskLifecycle -------------------------
(* Instances of TaskLifecycle for TLC. *)
EXTENDS TaskLifecycle, TLC

CONSTANTS p1, p2, ann, bob, s1, s2

NewTask == [boxes |-> {}] @@ Blank

\* As the task creator files it, in the inbox.
Filed == [NewTask EXCEPT !.status = "next", !.phase = "todo"]

\* Before the phase lifecycle, with open work.
Legacy == [NewTask EXCEPT !.status = "next", !.boxes = {"open", "done"}]

\* Being worked on by ann, scheduled, with a session.
Active == [NewTask EXCEPT
    !.status = "in_progress", !.phase = "execution", !.assignee = ann,
    !.approved_by = bob, !.approved_at = TRUE, !.planned_date = 1,
    !.claude_session_id = s1, !.metrics_sessions = {s1}]

\* Nearly aborted.
Parked == [Active EXCEPT !.status = "hold", !.aborted_reason = TRUE]

Cyclic == [Active EXCEPT !.recurring = TRUE, !.boxes = {"done", "stardone"}]

\* A file from the time when execution was called in_progress.
Old == [Active EXCEPT !.phase = "in_progress"]

\* Finished before approvals were recorded.
Finished == [NewTask EXCEPT !.status = "completed", !.phase = "done"]

MCTasks == {Filed, Legacy, Active, Parked, Cyclic, Old, Finished}
MCEvident == {Filed, Active, Parked}

MCAllKeys == Keys
MCPlainKeys == Keys \ Evidence
==========================================================================
