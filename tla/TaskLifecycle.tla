-------------------------- MODULE TaskLifecycle --------------------------
(***************************************************************************)
(* The commands that move ONE task through its life: task set, clear,      *)
(* approve, complete, defer, update and the entry of work-on               *)
(* (pkg/ops/frontmatter.go, task_approve.go, complete.go, defer.go,        *)
(* update.go, workon.go; pkg/domain/task_frontmatter.go).                  *)
(*                                                                         *)
(* Every command reads the file, computes a new frontmatter from that copy *)
(* alone and replaces the file.  Read and compute are one step (the copy   *)
(* is private), the write is another: commands of other processes fall     *)
(* between them, for the file has no lock.  A refused command is no step:  *)
(* it writes nothing.                                                      *)
(*                                                                         *)
(* Left out: texts, the daily note, the goals' checkboxes, metrics counts, *)
(* the time of day of a date.  A status alias is its canonical value, as   *)
(* Status() reads it; a phase alias is not, as Phase() reads it.           *)
(***************************************************************************)
EXTENDS Naturals

CONSTANTS
    Procs,         \* processes that run one command after the other
    Users,         \* people and agents
    Nobody,        \* a blank name
    Sessions,      \* claude session ids
    NoSid,         \* claude_session_id missing or empty
    InitialTasks,  \* what the file may hold at the start
    SetKeys,       \* keys that `task set` is used on
    ClearKeys,     \* keys that `task clear` is used on
    Days,          \* the calendar is 1..Days; 0 is no date
    MaxCommands    \* bound on commands issued

Statuses == {"none", "next", "in_progress", "backlog", "completed", "hold",
             "aborted"}

\* The phases a command writes, and what an older file may hold.
NewPhases == {"none", "todo", "planning", "execution", "ai_review",
              "human_review", "done"}
Phases == NewPhases \cup {"in_progress"}

\* Kinds of checkbox lines: - [ ], - [/], - [x] and * [x].
Boxes == {"open", "doing", "done", "stardone"}

\* The frontmatter keys the properties are about, and the kinds of checkbox
\* in the body.  A BOOLEAN says that the key has a value that counts.
Task == [status            : Statuses,
         phase             : Phases,
         assignee          : Users \cup {Nobody},
         approved_by       : Users \cup {Nobody},
         approved_at       : BOOLEAN,
         flag              : BOOLEAN,
         flag_set_by       : Users \cup {Nobody},
         flag_set_at       : BOOLEAN,
         aborted_reason    : BOOLEAN,
         gate_successor    : BOOLEAN,
         claude_session_id : Sessions \cup {NoSid},
         metrics_sessions  : SUBSET Sessions,
         defer_date        : 0..Days,
         planned_date      : 0..Days,
         recurring         : BOOLEAN,
         boxes             : SUBSET Boxes]

\* What a key reads as once it is gone.
Blank == [status |-> "none", phase |-> "none", assignee |-> Nobody,
          approved_by |-> Nobody, approved_at |-> FALSE, flag |-> FALSE,
          flag_set_by |-> Nobody, flag_set_at |-> FALSE,
          aborted_reason |-> FALSE, gate_successor |-> FALSE,
          claude_session_id |-> NoSid, metrics_sessions |-> {},
          defer_date |-> 0, planned_date |-> 0, recurring |-> FALSE]

Keys == DOMAIN Blank

With(t, key, v) == [k \in DOMAIN t |-> IF k = key THEN v ELSE t[k]]

ASSUME NameAssumption == Nobody \notin Users /\ NoSid \notin Sessions
ASSUME KeyAssumption == SetKeys \subseteq Keys /\ ClearKeys \subseteq Keys
ASSUME DayAssumption == Days \in Nat \ {0} /\ MaxCommands \in Nat
ASSUME TaskAssumption == InitialTasks \subseteq Task

VARIABLES
    disk,    \* the task file
    today,   \* the date
    issued,  \* commands issued so far
    pc,      \* pc[p]: "idle", or "write" when p's command has its result
    cmd,     \* cmd[p]: the command p runs
    mem,     \* mem[p]: what it is about to write
    tell,    \* tell[p]: whose lost assignment it then announces, or Nobody
    fresh,   \* fresh[p] (history): no write since p read the file
    filed    \* (history) the task was in the inbox and was not approved since

vars == <<disk, today, issued, pc, cmd, mem, tell, fresh, filed>>

Commands == {"set", "force", "clear", "approve", "complete", "defer",
             "update", "work-on", "append", "remove"}

TypeOK ==
    /\ disk \in Task
    /\ today \in 1..Days
    /\ issued \in 0..MaxCommands
    /\ pc \in [Procs -> {"idle", "write"}]
    /\ cmd \in [Procs -> Commands]
    /\ mem \in [Procs -> Task]
    /\ tell \in [Procs -> Users \cup {Nobody}]
    /\ fresh \in [Procs -> BOOLEAN]
    /\ filed \in BOOLEAN

Init ==
    /\ disk \in InitialTasks
    /\ today = 1
    /\ issued = 0
    /\ pc = [p \in Procs |-> "idle"]
    /\ cmd = [p \in Procs |-> "set"]
    /\ mem = [p \in Procs |-> disk]
    /\ tell = [p \in Procs |-> Nobody]
    /\ fresh = [p \in Procs |-> FALSE]
    /\ filed = (disk.phase = "todo")

\* FindTaskByName and the computation: p has read the file and is about to
\* replace it with t, and then to announce that name lost the task.
Prepare(p, c, t, name) ==
    /\ pc[p] = "idle"
    /\ issued < MaxCommands
    /\ issued' = issued + 1
    /\ pc' = [pc EXCEPT ![p] = "write"]
    /\ cmd' = [cmd EXCEPT ![p] = c]
    /\ mem' = [mem EXCEPT ![p] = t]
    /\ tell' = [tell EXCEPT ![p] = name]
    /\ fresh' = [fresh EXCEPT ![p] = TRUE]
    /\ UNCHANGED <<disk, today, filed>>

\* WriteTask, then PublishEscalation with what was read before.
Write(p) ==
    /\ pc[p] = "write"
    /\ disk' = mem[p]
    /\ fresh' = [q \in Procs |-> FALSE]
    /\ pc' = [pc EXCEPT ![p] = "idle"]
    /\ filed' = (mem[p].phase = "todo" \/ (filed /\ cmd[p] # "approve"))
    /\ UNCHANGED <<today, issued, cmd, mem, tell>>

\* The write fails or the process is killed: the file is as it was.
Drop(p) ==
    /\ pc[p] = "write"
    /\ pc' = [pc EXCEPT ![p] = "idle"]
    /\ UNCHANGED <<disk, today, issued, cmd, mem, tell, fresh, filed>>

--------------------------------------------------------------------------
(* task set.                                                               *)

\* writeTaskCloseOutFieldsIfCloseOut: --reason and --gate-successor are kept
\* when the VALUE is a close-out status, whatever the key.
CloseOut(t, value, why, heir) ==
    IF value \in {"aborted", "completed", "done"}
    THEN [t EXCEPT !.aborted_reason = @ \/ why, !.gate_successor = @ \/ heir]
    ELSE t

\* Mutant: an abort needs no reason.
MayBecome_Always(t, s) == TRUE

\* SetStatus: only an abort has conditions.
MayBecome(t, s) == s = "aborted" => t.aborted_reason /\ t.gate_successor

SetStatus(p) ==
    \E s \in Statuses \ {"none"}, why, heir \in BOOLEAN :
        LET t == CloseOut(disk, s, why, heir)
        IN /\ "status" \in SetKeys
           /\ MayBecome(t, s)
           /\ Prepare(p, "set", [t EXCEPT !.status = s], Nobody)

\* Mutant: the inbox is forgotten.
LeavesInbox_Never(t, ph) == FALSE

\* todoPlanningSetRefusal.
LeavesInbox(t, ph) == t.phase = "todo" /\ ph = "planning"

\* Mutant: finished work is not guarded.
Regresses_UnderWay(t, ph) ==
    /\ t.status = "in_progress"
    /\ ph \in {"todo", "planning"}
    /\ t.phase \in {"execution", "ai_review", "human_review"}

\* checkPhaseRegression.
Regresses(t, ph) ==
    \/ t.status = "completed" /\ ph = "planning"
    \/ /\ t.status = "in_progress"
       /\ ph \in {"todo", "planning"}
       /\ t.phase \in {"execution", "ai_review", "human_review"}

\* "none" is `set phase ""`.
SetPhase(p) ==
    \E ph \in NewPhases, force, why, heir \in BOOLEAN :
        /\ "phase" \in SetKeys
        /\ ~LeavesInbox(disk, ph)
        /\ force \/ ~Regresses(disk, ph)
        /\ Prepare(p, IF force THEN "force" ELSE "set",
                   [CloseOut(disk, ph, why, heir) EXCEPT !.phase = ph],
                   Nobody)

\* Mutant: the name is read after the key is gone.
Loser_After(t) == Nobody

\* publishAssigneeClearEscalation, called when a write blanks the assignee.
Loser(t) == t.assignee

SetAssignee(p) ==
    \E a \in Users \cup {Nobody} :
        /\ "assignee" \in SetKeys
        /\ Prepare(p, "set", [disk EXCEPT !.assignee = a],
                   IF a = Nobody THEN Loser(disk) ELSE Nobody)

\* Mutant: the provenance is a write of its own.
Flagged_Bare(t, actor) == [t EXCEPT !.flag = TRUE]

\* writeFlagProvenance and setFlagField; a blank actor is refused.
Flagged(t, actor) ==
    [t EXCEPT !.flag = TRUE, !.flag_set_by = actor, !.flag_set_at = TRUE]

Unflagged(t) ==
    [t EXCEPT !.flag = FALSE, !.flag_set_by = Nobody, !.flag_set_at = FALSE]

SetFlag(p) ==
    /\ "flag" \in SetKeys
    /\ \/ \E actor \in Users : Prepare(p, "set", Flagged(disk, actor), Nobody)
       \/ Prepare(p, "set", Unflagged(disk), Nobody)

\* Mutant: the outgoing owner is not recorded.
Owned_Replaced(t, s) == [t EXCEPT !.claude_session_id = s]

\* Mutant: a first owner displaces the empty id.
Owned_BlankToo(t, s) ==
    [t EXCEPT !.claude_session_id = s,
              !.metrics_sessions = @ \cup ({t.claude_session_id} \ {s})]

\* appendDisplacedSession, and the new owner.
Owned(t, s) ==
    [t EXCEPT !.claude_session_id = s,
              !.metrics_sessions = @ \cup ({t.claude_session_id} \ {s, NoSid})]

SetSession(p) ==
    \E s \in Sessions \cup {NoSid} :
        /\ "claude_session_id" \in SetKeys
        /\ Prepare(p, "set", Owned(disk, s), Nobody)

\* Keys that SetField stores as they come.  (A blank approved_by, which also
\* counts as a record, is left out.)
PlainValues(key) ==
    CASE key \in {"defer_date", "planned_date"} -> 0..Days
      [] key \in {"aborted_reason", "gate_successor", "recurring"} -> BOOLEAN
      [] key = "approved_by" -> Users
      [] key = "approved_at" -> {TRUE}
      [] OTHER -> {}

SetPlain(p) ==
    \E key \in SetKeys : \E v \in PlainValues(key) :
        Prepare(p, "set", With(disk, key, v), Nobody)

--------------------------------------------------------------------------
(* The other commands.                                                     *)

\* task clear: ClearField; the flag takes its provenance with it.
Clear(p) ==
    \E key \in ClearKeys :
        Prepare(p, "clear",
                IF key = "flag" THEN Unflagged(disk)
                                ELSE With(disk, key, Blank[key]),
                IF key = "assignee" THEN Loser(disk) ELSE Nobody)

\* resolveOwner: --assignee, else the task's own, else the current user.
Owner(t, given, user) ==
    IF given # Nobody THEN given
    ELSE IF t.assignee # Nobody THEN t.assignee ELSE user

Approved(t, approver, owner) ==
    [t EXCEPT !.phase = "planning", !.approved_by = approver,
              !.approved_at = TRUE, !.assignee = owner]

\* task approve: only from the inbox, only once, never without an owner.
Approve(p) ==
    \E approver \in Users, given, user \in Users \cup {Nobody} :
        LET owner == Owner(disk, given, user)
        IN /\ disk.phase = "todo"
           /\ disk.approved_by = Nobody /\ ~disk.approved_at
           /\ owner # Nobody
           /\ Prepare(p, "approve", Approved(disk, approver, owner), Nobody)

\* checkSubtaskCompletion.
Unfinished(t) == t.boxes \cap {"open", "doing"} # {}

\* task complete, not recurring.
Complete(p) ==
    \E force, why, heir \in BOOLEAN :
        /\ ~disk.recurring
        /\ force \/ ~Unfinished(disk)
        /\ Prepare(p, "complete",
                   [CloseOut(disk, "completed", why, heir)
                       EXCEPT !.status = "completed", !.phase = "done"],
                   Nobody)

\* resetCheckboxes replaces "- [x]" only.
Reset(boxes) ==
    IF "done" \in boxes THEN (boxes \ {"done"}) \cup {"open"} ELSE boxes

\* A planned date before the deferral is dropped.
Deferred(t, day) ==
    [t EXCEPT !.defer_date = day,
              !.planned_date = IF @ < day THEN 0 ELSE @]

\* handleRecurringTask: the next cycle starts on some later day.
CompleteRecurring(p) ==
    \E next \in (today + 1)..Days :
        /\ disk.recurring
        /\ Prepare(p, "complete",
                   [Deferred(disk, next)
                       EXCEPT !.boxes = Reset(@), !.phase = "none",
                              !.claude_session_id = NoSid,
                              !.metrics_sessions = {}],
                   Nobody)

\* task defer: a past day is refused; a deferral is a commitment.
Defer(p) ==
    \E day \in today..Days :
        Prepare(p, "defer",
                [Deferred(disk, day) EXCEPT
                    !.status = IF @ \in {"next", "backlog", "hold"}
                               THEN "in_progress" ELSE @],
                Nobody)

\* statusFromProgress.
Progress(boxes) ==
    IF boxes \subseteq {"done", "stardone"} THEN "completed"
    ELSE IF boxes \cap {"done", "stardone"} # {} THEN "in_progress"
    ELSE "next"

\* task update: the status follows the checkboxes, if there are any.
Update(p) ==
    /\ disk.boxes # {}
    /\ Prepare(p, "update", [disk EXCEPT !.status = Progress(disk.boxes)],
               Nobody)

\* The first write of task work-on (WorkOnSession has the rest).
EnterWork(p) ==
    \E user \in Users :
        /\ disk.phase # "todo"
        /\ Prepare(p, "work-on",
                   [disk EXCEPT
                       !.phase = IF @ = "none" THEN "planning" ELSE @,
                       !.status = "in_progress",
                       !.assignee = IF @ = Nobody THEN user ELSE @],
                   Nobody)

\* task append-metrics-session and remove-metrics-session.
AppendSession(p) ==
    \E s \in Sessions :
        Prepare(p, "append", [disk EXCEPT !.metrics_sessions = @ \cup {s}],
                Nobody)

RemoveSession(p) ==
    \E s \in disk.metrics_sessions :
        Prepare(p, "remove", [disk EXCEPT !.metrics_sessions = @ \ {s}],
                Nobody)

\* Midnight.
NewDay ==
    /\ today < Days
    /\ today' = today + 1
    /\ UNCHANGED <<disk, issued, pc, cmd, mem, tell, fresh, filed>>

Set(p) ==
    \/ SetStatus(p) \/ SetPhase(p) \/ SetAssignee(p)
    \/ SetFlag(p) \/ SetSession(p) \/ SetPlain(p)

Next ==
    \/ \E p \in Procs :
           \/ Set(p) \/ Clear(p) \/ Approve(p)
           \/ Complete(p) \/ CompleteRecurring(p)
           \/ Defer(p) \/ Update(p) \/ EnterWork(p)
           \/ AppendSession(p) \/ RemoveSession(p)
           \/ Write(p) \/ Drop(p)
    \/ NewDay

Spec == Init /\ [][Next]_vars

--------------------------------------------------------------------------
(* What a command with an up to date copy may do to the task.  Each is a   *)
(* relation between the task before and after, checked of ALL commands.    *)

\* Whoever leaves the inbox for planning has an approval on record, and an
\* owner.
ApprovalRecorded(t, u) ==
    t.phase = "todo" /\ u.phase = "planning" =>
        u.approved_by # Nobody /\ u.approved_at /\ u.assignee # Nobody

\* Who aborts says why, and who inherits the gate.
AbortRecorded(t, u) ==
    t.status # "aborted" /\ u.status = "aborted" =>
        u.aborted_reason /\ u.gate_successor

\* A flag is raised together with who raised it and when.
FlagRaisedBy(t, u) ==
    ~t.flag /\ u.flag => u.flag_set_by # Nobody /\ u.flag_set_at

\* Work in progress that is past planning goes back to planning or the inbox
\* only by force.
UnderWayKept(t, u, c) ==
    /\ t.status = "in_progress"
    /\ t.phase \in {"execution", "ai_review", "human_review"}
    /\ u.phase \in {"todo", "planning"}
    => c = "force"

\* A completed task, whatever its phase, is moved to planning only by force,
\* by an approval when somebody had put it back into the inbox, or by work-on
\* when its phase was cleared, which reopens it.  (To the inbox it may go.)
FinishedKept(t, u, c) ==
    t.status = "completed" /\ t.phase # "planning" /\ u.phase = "planning" =>
        \/ c = "force"
        \/ c = "approve" /\ t.phase = "todo"
        \/ c = "work-on" /\ t.phase = "none" /\ u.status = "in_progress"

PhaseKept(t, u, c) == UnderWayKept(t, u, c) /\ FinishedKept(t, u, c)

\* The sessions that can be resolved from the task.
Resolvable(t) == t.metrics_sessions \cup ({t.claude_session_id} \ {NoSid})

\* No session gets lost, except on request and by the end of a cycle.
SessionsKept(t, u, c) ==
    c \notin {"clear", "remove"} /\ ~(c = "complete" /\ t.recurring) =>
        Resolvable(t) \subseteq Resolvable(u)

\* Who loses the task is announced.
LossAnnounced(t, u, name) ==
    t.assignee # Nobody /\ u.assignee = Nobody => name = t.assignee

Lawful(t, u, c, name) ==
    /\ ApprovalRecorded(t, u)
    /\ AbortRecorded(t, u)
    /\ FlagRaisedBy(t, u)
    /\ PhaseKept(t, u, c)
    /\ SessionsKept(t, u, c)
    /\ LossAnnounced(t, u, name)

\* A fresh copy about to be written is lawful: the inductive form of the
\* action properties below, for every command of frontmatter.go,
\* task_approve.go, complete.go, defer.go, update.go and workon.go.
LawfulInv ==
    \A p \in Procs :
        pc[p] = "write" /\ fresh[p] => Lawful(disk, mem[p], cmd[p], tell[p])

\* The keys that vouch for another key.
Evidence == {"flag_set_by", "flag_set_at", "aborted_reason", "gate_successor",
             "approved_by", "approved_at"}

Whole(t) ==
    /\ t.flag => t.flag_set_by # Nobody /\ t.flag_set_at
    /\ t.status = "aborted" => t.aborted_reason /\ t.gate_successor
    /\ t.approved_by # Nobody <=> t.approved_at

\* Whatever commands interleave, and whichever write is lost: a task keeps
\* every record whole, if nobody edits the evidence itself.  A flag has its
\* writer and its time, an abort its reason and its successor, an approver
\* the time of the approval.  (Each command composes the record and its
\* evidence into one write; a lost update loses both.)
EvidenceWhole == Whole(disk)

\* As long as nobody writes between a command's read and its write, the row
\* never reaches planning from the inbox without a record of the approval
\* and an owner, whichever command moves it.
InboxGuarded ==
    [][\A p \in Procs :
        fresh[p] /\ Write(p) => ApprovalRecorded(disk, disk')]_vars

\* ... it is never aborted without a reason and a successor on record,
\* whichever command, one step or two, sets the status.
AbortExplained ==
    [][\A p \in Procs :
        fresh[p] /\ Write(p) => AbortRecorded(disk, disk')]_vars

\* ... no reader sees a flag appear without its writer.
FlagExplained ==
    [][\A p \in Procs :
        fresh[p] /\ Write(p) => FlagRaisedBy(disk, disk')]_vars

\* ... no command but a forced set takes work under way back to planning or
\* the inbox, and no plain set, update or other command takes a completed task
\* (phase done, as a rule) to planning: that needs force, or an approval from
\* the inbox, or a work-on that reopens it.
NoRegression ==
    [][\A p \in Procs :
        fresh[p] /\ Write(p) => PhaseKept(disk, disk', cmd[p])]_vars

\* ... a session that owned the task can still be found from it.
OwnersResolvable ==
    [][\A p \in Procs :
        fresh[p] /\ Write(p) => SessionsKept(disk, disk', cmd[p])]_vars

\* ... whoever loses the task is named in a notification.
LossesAnnounced ==
    [][\A p \in Procs :
        fresh[p] /\ Write(p) => LossAnnounced(disk, disk', tell[p])]_vars

==========================================================================
