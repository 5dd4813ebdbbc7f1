-------------------------- MODULE PageLifecycle --------------------------
(***************************************************************************)
(* The commands on the pages above a task: goals, topics, objectives,      *)
(* themes and visions (pkg/ops/frontmatter_entity.go, goal_*.go,           *)
(* topic_*.go, objective_complete.go; pkg/domain/*_frontmatter.go), and    *)
(* the list commands, which tasks share.                                   *)
(*                                                                         *)
(* One page of some kind, the tasks that link to it, and processes that    *)
(* run commands on it.  A command reads the page and computes (one step,   *)
(* the copy is private) and replaces the file (another); other commands    *)
(* and the tasks move in between.  A refused command is no step.           *)
(* work-on is longer: it claims the page, runs a Claude turn, reads the    *)
(* page again and binds the session.  It takes no lock, unlike a task's.   *)
(*                                                                         *)
(* Left out: texts and dates (a BOOLEAN says that a key has a value),      *)
(* priority, start and target date, page_type, which are stored as given.  *)
(***************************************************************************)
EXTENDS Naturals, SequencesExt, Selections

CONSTANTS
    Procs,         \* processes that run one command after the other
    Users,         \* people and agents
    Nobody,        \* a blank name
    Sessions,      \* uuids
    Labels,        \* claude_session_id of older pages: a display name
    NoSid,         \* claude_session_id missing or empty
    Names,         \* items of a list
    Tasks,         \* tasks whose goals list has this page, in some form
    LinkForms,     \* how a task may write the page's name: "bare", "wikilink"
    TypedForms,    \* how a command may: those two and "partial"
    InitialPages,  \* <<kind, page>> at the start
    SetKeys,       \* keys that `set` is used on
    ClearKeys,     \* keys that `clear` is used on
    MaxCommands    \* bound on commands issued

ASSUME PageNames == /\ Nobody \notin Users
                    /\ NoSid \notin Sessions \cup Labels
                    /\ Sessions \cap Labels = {}
                    /\ MaxCommands \in Nat

GoalStatuses == {"next", "in_progress", "backlog", "completed", "hold",
                 "aborted", "active", "on_hold"}
ObjectiveStatuses == {"active", "completed", "on_hold"}
ThemeStatuses == {"active", "completed", "archived"}
VisionStatuses == {"active", "completed", "archived"}
Statuses == GoalStatuses \cup ObjectiveStatuses \cup ThemeStatuses
                \cup VisionStatuses \cup {"none"}

GoalPhases == {"todo", "planning", "execution", "ai_review", "human_review",
               "done"}

\* The task statuses the completion of a goal looks at, and two it does not.
OpenStatuses == {"next", "in_progress"}
TaskStatuses == OpenStatuses \cup {"hold", "completed"}

\* A key with items is a YAML list, or one text that some readers split.
Value(form) == [form : {form}, items : Seq(Names)]
List(s) == [form |-> "list", items |-> s]
Text(s) == [form |-> "text", items |-> s]

Ids == Sessions \cup Labels \cup {NoSid}

Page == [status            : Statuses,
         phase             : GoalPhases \cup {"none"},
         assignee          : Users \cup {Nobody},
         claude_session_id : Ids,
         metrics_sessions  : SUBSET Sessions,
         approved_by       : Users \cup {Nobody},
         approved_at       : BOOLEAN,
         aborted_reason    : BOOLEAN,
         gate_successor    : BOOLEAN,
         completed         : BOOLEAN,
         defer_date        : BOOLEAN,
         tags              : Value("list") \cup Value("text"),
         goals             : Value("list") \cup Value("text"),
         blocked_by        : Value("list") \cup Value("text")]

\* A page with no key at all.
Blank == [status |-> "none", phase |-> "none", assignee |-> Nobody,
          claude_session_id |-> NoSid, metrics_sessions |-> {},
          approved_by |-> Nobody, approved_at |-> FALSE,
          aborted_reason |-> FALSE, gate_successor |-> FALSE,
          completed |-> FALSE, defer_date |-> FALSE, tags |-> List(<<>>),
          goals |-> List(<<>>), blocked_by |-> List(<<>>)]

Kinds == {"goal", "topic", "objective", "theme", "vision", "task"}

ASSUME PagesGiven == InitialPages \subseteq Kinds \X Page

With(e, key, v) == [k \in DOMAIN e |-> IF k = key THEN v ELSE e[k]]

VARIABLES
    kind,    \* what the page is
    page,    \* its frontmatter
    tasks,   \* tasks[t]: its status and the form of its link to the page
    issued,  \* commands issued so far
    pc,      \* pc[p]: "idle", or what p does next
    cmd,     \* cmd[p]: the command p runs
    mem,     \* mem[p]: the page p is about to write
    sid,     \* sid[p]: the session p's work-on started
    used,    \* the uuids generated or set so far
    fresh,   \* fresh[p] (history): the page was not written since p read it
    listed,  \* listed[p] (history): no task changed since p listed them
    bound,   \* (history) the sessions a work-on reported as bound
    intact   \* (history) no page was written from an old copy, and nobody
             \* asked for an id to be dropped

vars == <<kind, page, tasks, issued, pc, cmd, mem, sid, used, fresh, listed,
          bound, intact>>

\* A session can be found from the page by either key.
Resolvable(e) ==
    e.metrics_sessions \cup ({e.claude_session_id} \cap Sessions)

TypeOK ==
    /\ kind \in Kinds
    /\ page \in Page
    /\ tasks \in [Tasks -> [status : TaskStatuses, link : LinkForms]]
    /\ issued \in 0..MaxCommands
    /\ pc \in [Procs -> {"idle", "write", "claim", "turn", "bind"}]
    /\ cmd \in [Procs -> {"none", "set", "dismiss", "clear", "approve",
                          "complete", "force", "defer", "work-on", "add",
                          "remove"}]
    /\ mem \in [Procs -> Page]
    /\ sid \in [Procs -> Sessions \cup {NoSid}]
    /\ used \subseteq Sessions
    /\ fresh \in [Procs -> BOOLEAN] /\ listed \in [Procs -> BOOLEAN]
    /\ bound \subseteq used
    /\ intact \in BOOLEAN

Init ==
    /\ \E start \in InitialPages : kind = start[1] /\ page = start[2]
    /\ tasks \in [Tasks -> [status : {"in_progress"}, link : LinkForms]]
    /\ issued = 0
    /\ pc = [p \in Procs |-> "idle"]
    /\ cmd = [p \in Procs |-> "none"]
    /\ mem = [p \in Procs |-> Blank]
    /\ sid = [p \in Procs |-> NoSid]
    /\ used = Resolvable(page)
    /\ fresh = [p \in Procs |-> FALSE]
    /\ listed = [p \in Procs |-> FALSE]
    /\ bound = {}
    /\ intact = TRUE

\* FindGoalByName and its siblings, and the computation: p has read the page
\* (and the tasks) and is about to replace it with e.
Prepare(p, c, next, e) ==
    /\ pc[p] = "idle"
    /\ issued < MaxCommands
    /\ issued' = issued + 1
    /\ pc' = [pc EXCEPT ![p] = next]
    /\ cmd' = [cmd EXCEPT ![p] = c]
    /\ mem' = [mem EXCEPT ![p] = e]
    /\ fresh' = [fresh EXCEPT ![p] = TRUE]
    /\ listed' = [listed EXCEPT ![p] = TRUE]
    /\ UNCHANGED <<kind, page, tasks, sid, bound, intact>>

\* WriteGoal and its siblings.
Replace(p) ==
    /\ page' = mem[p]
    /\ fresh' = [q \in Procs |-> FALSE]
    /\ intact' = (intact /\ fresh[p] /\ cmd[p] \notin {"dismiss", "clear"})
    /\ mem' = [mem EXCEPT ![p] = Blank]
    /\ cmd' = [cmd EXCEPT ![p] = "none"]
    /\ listed' = [listed EXCEPT ![p] = FALSE]
    /\ UNCHANGED <<kind, tasks, issued>>

Write(p) ==
    /\ pc[p] = "write"
    /\ Replace(p)
    /\ pc' = [pc EXCEPT ![p] = "idle"]
    /\ UNCHANGED <<sid, used, bound>>

\* The write fails, or the process is killed at any point: the file stays.
Drop(p) ==
    /\ pc[p] # "idle"
    /\ pc' = [pc EXCEPT ![p] = "idle"]
    /\ mem' = [mem EXCEPT ![p] = Blank]
    /\ cmd' = [cmd EXCEPT ![p] = "none"]
    /\ sid' = [sid EXCEPT ![p] = NoSid]
    /\ fresh' = [fresh EXCEPT ![p] = FALSE]
    /\ listed' = [listed EXCEPT ![p] = FALSE]
    /\ UNCHANGED <<kind, page, tasks, issued, used, bound, intact>>

\* A task command.
TaskMoves ==
    \E t \in Tasks, s \in TaskStatuses :
        /\ s # tasks[t].status
        /\ tasks' = [tasks EXCEPT ![t].status = s]
        /\ listed' = [p \in Procs |-> FALSE]
        /\ UNCHANGED <<kind, page, issued, pc, cmd, mem, sid, used, fresh,
                       bound, intact>>

--------------------------------------------------------------------------
(* set: what SetField stores for a key, kind by kind.  A value outside is  *)
(* refused.                                                                *)

Texts == {Text(s) : s \in SeqOf(Names, 1)}
Split == {List(s) : s \in SeqOf(Names, 1)}

\* Keys that are stored as given.
GivenValues(key) ==
    CASE key \in {"aborted_reason", "gate_successor"} -> BOOLEAN
      [] key = "approved_by" -> Users
      [] key = "approved_at" -> {TRUE}
      [] key = "assignee" -> Users \cup {Nobody}
      [] key = "claude_session_id" -> Ids
      [] key \in {"blocked_by", "goals"} -> Texts
      [] OTHER -> {}

GoalValues(key) ==
    CASE key = "status" -> GoalStatuses
      [] key = "phase" -> GoalPhases \cup {"none"}
      [] key = "tags" -> Split
      [] key \in {"completed", "defer_date"} -> BOOLEAN
      [] OTHER -> GivenValues(key)

\* A topic's status is not checked and its tags are not split.
TopicValues(key) ==
    CASE key = "status" -> Statuses
      [] key = "phase" -> GoalPhases \cup {"none"}
      [] key = "tags" -> Texts
      [] key = "defer_date" -> BOOLEAN
      [] OTHER -> GivenValues(key)

ObjectiveValues(key) ==
    CASE key = "status" -> ObjectiveStatuses
      [] key = "tags" -> Split
      [] key = "completed" -> BOOLEAN
      [] OTHER -> GivenValues(key)

ThemeValues(key) ==
    CASE key = "status" -> ThemeStatuses
      [] key = "tags" -> Split
      [] OTHER -> GivenValues(key)

VisionValues(key) ==
    CASE key = "status" -> VisionStatuses
      [] key = "tags" -> Split
      [] OTHER -> GivenValues(key)

\* SetStatus: a goal is aborted only with a reason and a successor.
MayAbort(e) == e.aborted_reason /\ e.gate_successor

\* Mutant: a completion ends the phases, an abort does not.
CloseOut_Completed(e, key, v, why, heir) ==
    IF key = "status" /\ v \in {"aborted", "completed"}
    THEN [e EXCEPT !.aborted_reason = @ \/ why,
                   !.gate_successor = @ \/ heir,
                   !.phase = IF v = "completed" THEN "done" ELSE @]
    ELSE e

\* Mutant: the status is written to the phase too.
CloseOut_Twice(e, key, v, why, heir) ==
    IF key = "status" /\ v \in {"aborted", "completed"}
    THEN [e EXCEPT !.aborted_reason = @ \/ why,
                   !.gate_successor = @ \/ heir, !.phase = v]
    ELSE e

\* writeGoalCloseOutFieldsIfCloseOut: reason, successor and the last phase go
\* with the status.
CloseOut(e, key, v, why, heir) ==
    IF key = "status" /\ v \in {"aborted", "completed"}
    THEN [e EXCEPT !.aborted_reason = @ \/ why,
                   !.gate_successor = @ \/ heir, !.phase = "done"]
    ELSE e

\* displacesSessionOwner: a session is recorded before another takes its
\* place; a name is not, and a blank takes nobody's place.
\* Mutant: nobody is.
Displaced_None(e, key, v) == {}

Displaced(e, key, v) ==
    IF key = "claude_session_id" /\ v \notin {NoSid, e.claude_session_id}
    THEN {e.claude_session_id} \cap Sessions ELSE {}

\* goalTodoPlanningSetRefusal and topicTodoPlanningSetRefusal.
\* Mutant: the refusal is forgotten.
LeavesInbox_Never(e, key, v) == FALSE

LeavesInbox(e, key, v) ==
    key = "phase" /\ v = "planning" /\ e.phase = "todo"

\* The uuids that cannot be generated any more.
Uses(key, v) == IF key = "claude_session_id" THEN {v} \cap Sessions ELSE {}

SetCommand(key, v) ==
    IF key = "claude_session_id" /\ v = NoSid THEN "dismiss" ELSE "set"

\* The page as `set` leaves it.
SetTo(e, key, v) ==
    [With(e, key, v) EXCEPT !.metrics_sessions = @ \cup Displaced(e, key, v)]

GoalSet(p) ==
    \E key \in SetKeys, why, heir \in BOOLEAN : \E v \in GoalValues(key) :
        /\ kind = "goal"
        /\ key = "status" \/ (~why /\ ~heir)  \* no effect otherwise
        /\ key = "blocked_by" => v = Text(<<>>)  \* blockedBySetRefusal
        /\ ~LeavesInbox(page, key, v)
        /\ key = "status" /\ v = "aborted"
               => MayAbort(CloseOut(page, key, v, why, heir))
        /\ Prepare(p, SetCommand(key, v), "write",
                   SetTo(CloseOut(page, key, v, why, heir), key, v))
        /\ used' = used \cup Uses(key, v)

TopicSet(p) ==
    \E key \in SetKeys : \E v \in TopicValues(key) :
        /\ kind = "topic"
        /\ ~LeavesInbox(page, key, v)
        /\ Prepare(p, SetCommand(key, v), "write", SetTo(page, key, v))
        /\ used' = used \cup Uses(key, v)

\* Themes, objectives and visions.
OtherSet(p) ==
    \E key \in SetKeys \ {"claude_session_id"} :
        \E v \in CASE kind = "objective" -> ObjectiveValues(key)
                   [] kind = "theme" -> ThemeValues(key)
                   [] kind = "vision" -> VisionValues(key)
                   [] OTHER -> {} :
            /\ Prepare(p, "set", "write", With(page, key, v))
            /\ UNCHANGED used

--------------------------------------------------------------------------
(* clear and the lists.                                                    *)

\* The file's own check: none.  `clear phase` leaves the inbox.
Clear(p) ==
    \E key \in ClearKeys :
        /\ kind # "task"
        /\ Prepare(p, "clear", "write", With(page, key, Blank[key]))
        /\ UNCHANGED used

\* GetStringSlice splits a text; blockedByList reads one as no list.
ReadItems(key, v) ==
    IF key = "blocked_by" /\ v.form = "text" THEN <<>> ELSE v.items

\* BlockedByIsScalar and blockedByAppendRefusal.
\* Mutant: a malformed value is taken for an empty one.
Malformed_No(key, v) == FALSE

Malformed(key, v) ==
    key = "blocked_by" /\ v.form = "text" /\ v.items # <<>>

\* applyListMutation.
MayAdd(s, x) == ~Contains(s, x)
MayRemove(s, x) == Contains(s, x)
Without(s, x) == Selected(s, {i \in DOMAIN s : s[i] # x})

ListCommand(p, key) ==
    \E x \in Names :
        LET s == ReadItems(key, page[key])
        IN /\ ~Malformed(key, page[key])
           /\ \/ /\ MayAdd(s, x)
                 /\ Prepare(p, "add", "write",
                            With(page, key, List(Append(s, x))))
              \/ /\ MayRemove(s, x)
                 /\ Prepare(p, "remove", "write",
                            With(page, key, List(Without(s, x))))
           /\ UNCHANGED used

GoalList(p) ==
    \E key \in {"tags", "blocked_by"} : kind = "goal" /\ ListCommand(p, key)

\* Themes, objectives, visions and topics.
TagsList(p) == kind \notin {"goal", "task"} /\ ListCommand(p, "tags")

TaskList(p) ==
    \E key \in {"goals", "tags", "blocked_by"} :
        kind = "task" /\ ListCommand(p, key)

--------------------------------------------------------------------------
(* approve, complete, defer.                                               *)

\* refuseExistingEntityApprovalRecord.
Recorded(e) == e.approved_by # Nobody \/ e.approved_at

Approved(e, approver) ==
    [e EXCEPT !.phase = "planning", !.approved_by = approver,
              !.approved_at = TRUE]

\* From the inbox, once, by somebody.
Approve(p) ==
    \E approver \in Users :
        /\ page.phase = "todo" /\ ~Recorded(page)
        /\ Prepare(p, "approve", "write", Approved(page, approver))
        /\ UNCHANGED used

GoalApprove(p) == kind = "goal" /\ Approve(p)
TopicApprove(p) == kind = "topic" /\ Approve(p)

\* taskLinkedToGoal: the text of the link is the text that was typed.
Linked(t, typed) == tasks[t].link = typed

\* checkOpenTasks.
\* Mutant: only what is in progress is open.
OpenTasks_Started(typed) ==
    {t \in Tasks : Linked(t, typed) /\ tasks[t].status = "in_progress"}

OpenTasks(typed) ==
    {t \in Tasks : Linked(t, typed) /\ tasks[t].status \in OpenStatuses}

CompleteGoal(p) ==
    \E typed \in TypedForms, force, why, heir \in BOOLEAN :
        /\ kind = "goal"
        /\ page.status # "completed"
        /\ force \/ OpenTasks(typed) = {}
        /\ Prepare(p, IF force THEN "force" ELSE "complete", "write",
                   [page EXCEPT !.status = "completed", !.phase = "done",
                                !.completed = TRUE,
                                !.aborted_reason = @ \/ why,
                                !.gate_successor = @ \/ heir])
        /\ UNCHANGED used

CompleteObjective(p) ==
    /\ kind = "objective"
    /\ page.status # "completed"
    /\ Prepare(p, "force", "write",
               [page EXCEPT !.status = "completed", !.completed = TRUE])
    /\ UNCHANGED used

CompleteTopic(p) ==
    /\ kind = "topic"
    /\ page.status # "completed"
    /\ Prepare(p, "force", "write", [page EXCEPT !.status = "completed"])
    /\ UNCHANGED used

\* Not to a past day.
Defer(p) ==
    /\ Prepare(p, "defer", "write", [page EXCEPT !.defer_date = TRUE])
    /\ UNCHANGED used

GoalDefer(p) == kind = "goal" /\ Defer(p)
TopicDefer(p) == kind = "topic" /\ Defer(p)

--------------------------------------------------------------------------
(* goal work-on and topic work-on.                                         *)

\* A blank assignee becomes the user's, another's stays.
Claimed(e, user) ==
    [e EXCEPT !.status = "in_progress",
              !.assignee = IF @ = Nobody THEN user ELSE @]

WorkOn(p) ==
    /\ \E user \in Users :
           Prepare(p, "work-on", "claim", Claimed(page, user))
    /\ UNCHANGED used

GoalWorkOn(p) == kind = "goal" /\ WorkOn(p)
TopicWorkOn(p) == kind = "topic" /\ WorkOn(p)

\* An id that was there when the page was read is returned, and without a
\* claude binary nothing is started; otherwise a turn begins under a new id
\* that is not on disk yet.
Starts(p, s) == mem[p].claude_session_id = NoSid /\ s \in Sessions \ used

\* The claim is written, and the turn begins.
Claim(p) ==
    /\ pc[p] = "claim"
    /\ Replace(p)
    /\ \/ /\ pc' = [pc EXCEPT ![p] = "idle"]
          /\ UNCHANGED <<sid, used>>
       \/ \E s \in Sessions :
              /\ Starts(p, s)
              /\ sid' = [sid EXCEPT ![p] = s]
              /\ used' = used \cup {s}
              /\ pc' = [pc EXCEPT ![p] = "turn"]
    /\ UNCHANGED bound

\* persistGoalSessionID: the page belongs to whoever got there first, the
\* others are listed.
\* Mutant: the last one owns it.
Bound_Last(e, s) == [e EXCEPT !.claude_session_id = s]

Bound(e, s) ==
    IF e.claude_session_id = NoSid THEN [e EXCEPT !.claude_session_id = s]
    ELSE IF e.claude_session_id = s THEN e
    ELSE [e EXCEPT !.metrics_sessions = @ \cup {s}]

\* persistTopicSessionID is the same rule.
TopicBound(e, s) == Bound(e, s)

\* The turn ended well and the page is read again: e is to be written.
\* (Drop is the turn that fails, and the page that cannot be read.)
Rereads(p, e) ==
    /\ pc[p] = "turn"
    /\ pc' = [pc EXCEPT ![p] = "bind"]
    /\ mem' = [mem EXCEPT ![p] = e]
    /\ fresh' = [fresh EXCEPT ![p] = TRUE]
    /\ UNCHANGED <<kind, page, tasks, issued, cmd, sid, used, listed, bound,
                   intact>>

GoalTurnEnds(p) == kind = "goal" /\ Rereads(p, Bound(page, sid[p]))
TopicTurnEnds(p) == kind = "topic" /\ Rereads(p, TopicBound(page, sid[p]))

Bind(p) ==
    /\ pc[p] = "bind"
    /\ Replace(p)
    /\ pc' = [pc EXCEPT ![p] = "idle"]
    /\ bound' = bound \cup {sid[p]}
    /\ sid' = [sid EXCEPT ![p] = NoSid]
    /\ UNCHANGED used

Next ==
    \/ \E p \in Procs :
           \/ GoalSet(p) \/ TopicSet(p) \/ OtherSet(p) \/ Clear(p)
           \/ GoalList(p) \/ TagsList(p) \/ TaskList(p)
           \/ GoalApprove(p) \/ TopicApprove(p)
           \/ CompleteGoal(p) \/ CompleteObjective(p) \/ CompleteTopic(p)
           \/ GoalDefer(p) \/ TopicDefer(p)
           \/ GoalWorkOn(p) \/ TopicWorkOn(p) \/ Claim(p)
           \/ GoalTurnEnds(p) \/ TopicTurnEnds(p) \/ Bind(p)
           \/ Write(p) \/ Drop(p)
    \/ TaskMoves

Spec == Init /\ [][Next]_vars

--------------------------------------------------------------------------
(* Properties.  p's write changes the page from an up to date copy:        *)

Writes(p) == pc[p] \in {"write", "claim", "bind"} /\ Replace(p) /\ pc'[p] # pc[p]
Fresh(p) == Writes(p) /\ fresh[p]

\* As long as no page is written from an old copy and nobody asks for an id
\* to be dropped, every session a work-on reported can be found from the
\* page, whoever took the page over before or after.
SessionsResolvable == intact => bound \subseteq Resolvable(page)

\* No command moves a goal or topic from the inbox to planning without the
\* record of who approved it.
ApprovalRecorded ==
    [][\A p \in Procs :
           Fresh(p) /\ page.phase = "todo" /\ page'.phase = "planning"
           => page'.approved_by # Nobody /\ page'.approved_at]_vars

\* Whatever command closes a goal ends its phases with it, and one that
\* aborts it leaves the reason and the successor beside the status.
ClosedWhole ==
    [][\A p \in Procs :
           /\ Fresh(p) /\ kind = "goal"
           /\ page'.status \in {"completed", "aborted"} \ {page.status}
           => /\ page'.phase = "done"
              /\ page'.status = "aborted" =>
                     page'.aborted_reason /\ page'.gate_successor]_vars

\* A goal that is completed without force, with no task moving meanwhile,
\* has no open task left that links to it.
CompletionJustified ==
    [][\A p \in Procs :
           Writes(p) /\ cmd[p] = "complete" /\ listed[p]
           => \A t \in Tasks : tasks[t].status \notin OpenStatuses]_vars

\* What a goal or task is blocked by, in whatever form a person wrote it,
\* is lost only by the commands that say so.
BlockersKept ==
    [][\A p \in Procs :
           /\ Fresh(p) /\ kind \in {"goal", "task"}
           /\ cmd[p] \notin {"remove", "clear"}
           => \/ page'.blocked_by = Text(<<>>)
              \/ \A i \in DOMAIN page.blocked_by.items :
                     Contains(page'.blocked_by.items,
                              page.blocked_by.items[i])]_vars
==========================================================================
